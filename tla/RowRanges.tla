------------------------------ MODULE RowRanges -----------------------------
(***************************************************************************)
(* Where the rows of a tensor are: `row_range_json` of                     *)
(* src/crates/gguf-wasm/src/lib.rs, and `rows_f32` of src/crates/gguf/src/ *)
(* file.rs, which computes the same thing on its own.  Both work on a      *)
(* shape the parser has admitted, in 64-bit arithmetic; Word is the number *)
(* of values of a machine word.  A shape has a width and two outer         *)
(* extents; a matrix is a shape whose second outer extent is 1.            *)
(***************************************************************************)
EXTENDS Integers

CONSTANTS Word,       \* 2^64
          U32,        \* 2^32, the values of a row index or count
          Tensors,    \* the tensor descriptions a header may hold
          None

Fields == {"width", "a", "b", "block", "type", "start", "offset"}

ASSUME RowAssumption ==
  /\ Word \in Nat \ {0} /\ U32 \in Nat \ {0} /\ 2 * U32 <= Word
  /\ Tensors \subseteq [Fields -> 0..(Word - 1)]
  /\ \A t \in Tensors : t.block > 0
  /\ None \notin [at : Nat, bytes : Nat, elements : Nat]

(* numel() and nbytes() of a tensor the parser has admitted.               *)
Numel(t)  == t.width * t.a * t.b
Nbytes(t) == (Numel(t) \div t.block) * t.type

(* parse(): the element count is multiplied up with a check at each        *)
(* extent, it is a whole number of blocks, and neither the byte length nor *)
(* the end of the tensor leaves the word.                                  *)
Admitted(t) ==
  /\ t.width < Word /\ t.width * t.a < Word /\ Numel(t) < Word
  /\ Numel(t) % t.block = 0
  /\ Nbytes(t) < Word
  /\ t.offset + Nbytes(t) < Word
  /\ t.start + t.offset + Nbytes(t) < Word

(* info.shape[1..].iter().product(), which wraps.                          *)
RowCount(t) == (t.a * t.b) % Word

RowBytes(t) == (((t.width \div t.block) * t.type) % Word)

InRowsByStart(t, first, count) == first <= RowCount(t)

(* start.saturating_add(count) > rows: the sum of two u32 stays in a word. *)
InRows(t, first, count) == first + count <= RowCount(t)

(* A row placed by its elements, and a row that need not be whole blocks.  *)
RowRangeByElements(t, first, count) ==
  IF InRows(t, first, count) /\ t.width % t.block = 0
  THEN [at       |-> (t.start + t.offset + first * t.width) % Word,
        bytes    |-> (count * RowBytes(t)) % Word,
        elements |-> (count * t.width) % Word]
  ELSE None

RowRangeInBlocks(t, first, count) ==
  IF InRows(t, first, count)
  THEN [at       |-> (t.start + t.offset + first * RowBytes(t)) % Word,
        bytes    |-> (count * RowBytes(t)) % Word,
        elements |-> (count * t.width) % Word]
  ELSE None

(* row_range_json(file, name, start, count)                                *)
RowRange(t, first, count) ==
  IF InRows(t, first, count) /\ t.width % t.block = 0
  THEN [at       |-> (t.start + t.offset + first * RowBytes(t)) % Word,
        bytes    |-> (count * RowBytes(t)) % Word,
        elements |-> (count * t.width) % Word]
  ELSE None

(* rows_f32 with a bound that is off by one.                               *)
NativeRowOrLast(t, row) ==
  LET at == t.start + t.offset + row * RowBytes(t)
  IN IF /\ t.width % t.block = 0 /\ row <= t.a
        /\ row * RowBytes(t) < Word /\ at < Word
     THEN [at |-> at, bytes |-> RowBytes(t), elements |-> t.width]
     ELSE None

(* One iteration of rows_f32, up to the bound of range() by the file.      *)
NativeRow(t, row) ==
  LET at == t.start + t.offset + row * RowBytes(t)
  IN IF /\ t.width % t.block = 0 /\ row < t.a
        /\ row * RowBytes(t) < Word /\ at < Word
     THEN [at |-> at, bytes |-> RowBytes(t), elements |-> t.width]
     ELSE None

(* Where a row is by the format's own rule, in exact arithmetic.           *)
PlaceOf(t, row) == [at       |-> t.start + t.offset + row * (t.width \div t.block) * t.type,
                    bytes    |-> (t.width \div t.block) * t.type,
                    elements |-> t.width]
=============================================================================
