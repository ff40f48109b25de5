----------------------------- MODULE MCRowGather ----------------------------
(***************************************************************************)
(* Five-bit words and three-bit indices.  Blocks of 1, 2 and 3 elements,   *)
(* so that a width may or may not be a whole number of them; extents 0, 1, *)
(* 2, 4, 8 and 12, whose products stay inside the word or leave it, and of *)
(* which the last holds rows past the index.  Rows are gathered from a few *)
(* of the tensors: one of more rows than an index can name, one of a row   *)
(* that a third one after it would leave the word, one of two-element      *)
(* blocks, one whose rows are not whole blocks, one without elements, and  *)
(* one that is no matrix.                                                  *)
(***************************************************************************)
EXTENDS RowGather

MCTensors == [width : {0, 1, 2, 3, 6, 16}, a : {0, 1, 2, 4, 8, 12}, b : {1, 2, 4},
              block : {1, 2, 3}, type : {1, 3, 4}, start : {0, 2}, offset : {0, 5}]

Tensor(width, a, b, block, type) ==
  [width |-> width, a |-> a, b |-> b, block |-> block, type |-> type,
   start |-> 2, offset |-> 5]

MCGathered == {Tensor(1, 12, 1, 1, 1), Tensor(6, 1, 1, 1, 3), Tensor(2, 2, 1, 2, 4),
               Tensor(3, 2, 1, 2, 3), Tensor(0, 4, 1, 1, 4), Tensor(1, 2, 2, 1, 1)}
=============================================================================
