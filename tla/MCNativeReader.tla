--------------------------- MODULE MCNativeReader ---------------------------
(***************************************************************************)
(* Files on either side of each bound: empty, shorter than FIRST * 4,      *)
(* longer than LARGEST; headers that need exactly LARGEST, more than it,   *)
(* or more than their file; one that is malformed past the first prefix.   *)
(* The last tensor of the table lies across the end of the shorter file.   *)
(***************************************************************************)
EXTENDS NativeReader, TLC

CONSTANTS empty, cut, whole, long, bad

MCVersions  == {empty, cut, whole, long, bad}
MCLength    == (empty :> 0) @@ (cut :> 3) @@ (whole :> 8) @@ (long :> 8) @@ (bad :> 7)
MCNeeds     == (empty :> 1) @@ (cut :> 5) @@ (whole :> 5) @@ (long :> 6) @@ (bad :> 7)
MCMalformed == [v \in MCVersions |-> IF v = bad THEN 3 ELSE None]
MCTable     == [v \in MCVersions |->
                  IF v = whole THEN {[at |-> 5, length |-> 1], [at |-> 6, length |-> 2]}
                  ELSE {}]
=============================================================================
