------------------------------- MODULE Objects ------------------------------
(***************************************************************************)
(* The checkpoints a source may hold over time, told apart by a version    *)
(* and, as far as the readers are concerned, by their length.              *)
(***************************************************************************)
EXTENDS Integers

CONSTANTS Versions, Length, None

ASSUME ObjectAssumption == /\ Length \in [Versions -> Nat]
                           /\ None \notin Versions \cup Nat

Lesser(a, b) == IF a <= b THEN a ELSE b
=============================================================================
