------------------------------ MODULE MCParser ------------------------------
(***************************************************************************)
(* Prefixes that end before, in and after the fields of a header, and one  *)
(* that holds any of them whole.  A header has two entries and tensors     *)
(* between them, Together: two entries, an entry and a tensor, two tensors.*)
(***************************************************************************)
EXTENDS Parser, FiniteSets

CONSTANTS align, other, t1, t2, Together

MCPrefixes == {24, 37, 47, 48, 60, 71, 96, 130, 250}
MCDtypes   == {[block |-> 1, size |-> 4], [block |-> 3, size |-> 2]}

BoundedHeader ==
  cur.entries + Cardinality(cur.keys) + cur.tensors + Len(cur.table) <= Together
=============================================================================
