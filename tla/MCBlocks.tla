------------------------------ MODULE MCBlocks ------------------------------
(***************************************************************************)
(* Every type and two tags that are none, blocks and element counts at     *)
(* their real sizes: no block, part of one, one, two, and several.         *)
(***************************************************************************)
EXTENDS Blocks

MCNames == Types \cup {"Q9_9"}
=============================================================================
