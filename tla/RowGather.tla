------------------------------ MODULE RowGather -----------------------------
(***************************************************************************)
(* `rows(name, indices)` of the model in src/js/index.mjs, over RowRanges. *)
(* The indices are checked in one go when the call is made; each row is    *)
(* then looked up with `row_range` and awaited in turn, and the array,     *)
(* which is the caller's, is read again for every row.  An index becomes a *)
(* u32 on its way into the module by dropping what does not fit.           *)
(*                                                                         *)
(* `row_range` may also be called on its own.  checkRange on a row's range *)
(* passes: openGGUF has checked the tensor, and the row is inside it.      *)
(***************************************************************************)
EXTENDS RowRanges, Sequences

CONSTANTS Rows,           \* the row numbers and counts row_range is asked for
          Index,          \* the indices a caller's array may hold
          MaxRows,        \* the longest array a caller passes (a bound)
          MaxWritten,     \* the longest it makes of it later (a bound)
          Gathered        \* the tensors whose rows are gathered (a bound)

ASSUME GatherAssumption == /\ Rows \subseteq 0..(U32 - 1)
                           /\ Index \subseteq Nat
                           /\ {MaxRows, MaxWritten} \subseteq Nat
                           /\ MaxRows < MaxWritten

VARIABLES tensor,     \* the tensor asked about
          query,      \* history: [first, count] of the last row_range, and
          answer,     \*   its range, or None for a refusal
          indices,    \* the caller's array
          stage,      \* "idle", "reading", "done", "refused"
          i,          \* the loop counter
          reading,    \* the range that is awaited, or None
          out,        \* the rows written so far, None where there is none
          called,     \* history: the array as it was when it was checked
          written     \* history: the caller has written its array since

asked == <<query, answer>>
vars  == <<tensor, query, answer, indices, stage, i, reading, out, called, written>>

(* What a caller passes, and what it makes of it while the call is under   *)
(* way.  A call never looks past the place after its result, unless a row  *)
(* has no elements; for such rows MaxWritten is a bound on how long a call *)
(* goes on, for which the code has none.                                   *)
Arrays      == UNION {[1..n -> Index] : n \in 0..MaxRows}
LaterArrays == UNION {[1..n -> Index] : n \in 0..MaxWritten}

(* The checks on the whole list, before the first await.                   *)
ValidByCount(list) == tensor.b = 1 /\ \A k \in DOMAIN list : list[k] < tensor.a

Valid(list) == /\ tensor.b = 1
               /\ \A k \in DOMAIN list : list[k] < tensor.a /\ list[k] < U32

(* The conversion wasm-bindgen makes.                                      *)
AsU32(n) == n % U32

(* The loop without the module's own bound.                                *)
AdvanceTrusting(list, k) ==
  IF k > Len(list)
  THEN stage' = "done" /\ reading' = None
  ELSE stage' = "reading" /\ reading' = PlaceOf(tensor, AsU32(list[k]))

(* The loop from iteration k to its next await: header.row_range throws on *)
(* a row it refuses, and otherwise the row's range is read.                *)
Advance(list, k) ==
  IF k > Len(list)
  THEN stage' = "done" /\ reading' = None
  ELSE LET range == RowRange(tensor, AsU32(list[k]), 1)
       IN stage' = (IF range = None THEN "refused" ELSE "reading") /\ reading' = range

Init == /\ tensor \in {t \in Tensors : Admitted(t)}
        /\ query = None /\ answer = None
        /\ indices = <<>> /\ called = <<>> /\ written = FALSE
        /\ stage = "idle" /\ i = 1 /\ reading = None /\ out = <<>>

row_range(first, count) ==
  /\ stage = "idle"
  /\ query' = [first |-> first, count |-> count]
  /\ answer' = RowRange(tensor, first, count)
  /\ UNCHANGED <<tensor, indices, stage, i, reading, out, called, written>>

(* The call, up to its first await.                                        *)
rows(list) ==
  /\ stage = "idle" /\ tensor \in Gathered
  /\ indices' = list /\ called' = list
  /\ query' = None /\ answer' = None
  /\ \/ Valid(list) /\ out' = [k \in DOMAIN list |-> None] /\ Advance(list, 1)
     \/ ~Valid(list) /\ stage' = "refused" /\ UNCHANGED <<reading, out>>
  /\ UNCHANGED <<tensor, i, written>>

(* The rows written as far as there is room for them, without an error.    *)
RowArrivesClipped ==
  /\ stage = "reading"
  /\ out' = [k \in DOMAIN out |-> IF k = i THEN reading ELSE out[k]]
  /\ i' = i + 1
  /\ Advance(indices, i + 1)
  /\ UNCHANGED <<tensor, query, answer, indices, called, written>>

(* The counter left where it is.                                           *)
RowArrivesAgain ==
  /\ stage = "reading" /\ i <= Len(out)
  /\ out' = [out EXCEPT ![i] = reading]
  /\ Advance(indices, i)
  /\ UNCHANGED <<tensor, query, answer, indices, i, called, written>>

(* The row's bytes arrive and are decoded: out.set at i * width, then the  *)
(* next iteration.  set() throws when a grown array has taken the loop     *)
(* past the end of out, unless there is nothing to write.                  *)
RowArrives ==
  /\ stage = "reading"
  /\ IF i <= Len(out) \/ tensor.width = 0
     THEN /\ out' = [k \in DOMAIN out |-> IF k = i THEN reading ELSE out[k]]
          /\ i' = i + 1
          /\ Advance(indices, i + 1)
     ELSE stage' = "refused" /\ reading' = None /\ UNCHANGED <<out, i>>
  /\ UNCHANGED <<tensor, query, answer, indices, called, written>>

(* The read rejects, or the decoder does not know the format.              *)
ReadFails == /\ stage = "reading"
             /\ stage' = "refused" /\ reading' = None
             /\ UNCHANGED <<tensor, query, answer, indices, i, out, called, written>>

(* The caller writes its array, or makes it longer or shorter, while it    *)
(* waits.                                                                  *)
CallerWrite == /\ stage = "reading"
               /\ indices' \in LaterArrays \ {indices} /\ written' = TRUE
               /\ UNCHANGED <<tensor, query, answer, stage, i, reading, out, called>>

Next == \/ \E first, count \in Rows : row_range(first, count)
        \/ \E list \in Arrays : rows(list)
        \/ RowArrives \/ ReadFails \/ CallerWrite

Spec == Init /\ [][Next]_vars /\ WF_vars(RowArrives)

-----------------------------------------------------------------------------
(* Type invariant: what is read and what is written fits the machine word, *)
(* and a call waits exactly while it reads.                                *)
TypeOK ==
  LET Ranges == [at : 0..(Word - 1), bytes : 0..(Word - 1), elements : 0..(Word - 1)]
  IN /\ tensor \in Tensors /\ answer \in Ranges \cup {None}
     /\ indices \in LaterArrays /\ called \in Arrays /\ written \in BOOLEAN
     /\ stage \in {"idle", "reading", "done", "refused"}
     /\ i \in Nat \ {0} /\ reading \in Ranges \cup {None}
     /\ stage = "reading" <=> reading # None
     /\ out \in Seq(Ranges \cup {None})

(* A range of rows is inside its tensor: none of the unchecked sums and    *)
(* products of row_range_json leaves the range the parser checked, the row *)
(* count of a tensor without elements that wraps included.                 *)
RowsInsideTensor ==
  answer # None =>
     /\ answer.at >= tensor.start + tensor.offset
     /\ answer.at + answer.bytes <= tensor.start + tensor.offset + Nbytes(tensor)

(* "Every block format packs a whole number of blocks into a row": a range *)
(* of rows is its rows one after the other, with nothing between them.     *)
RowsAbut ==
  answer # None =>
     \A k \in 0..(query.count - 1) :
        LET row == RowRange(tensor, query.first + k, 1)
        IN /\ row # None
           /\ row.at = answer.at + k * row.bytes
           /\ query.count * row.bytes = answer.bytes
           /\ query.count * row.elements = answer.elements

(* What is decoded from a range of rows is a whole number of blocks.       *)
RowsDecode ==
  answer # None => answer.bytes * tensor.block = answer.elements * tensor.type

(* The module and the native reader find a row of a matrix in the same     *)
(* place, and refuse the same rows.                                        *)
NativeAgrees ==
  query # None /\ query.count = 1 /\ tensor.b = 1
     => NativeRow(tensor, query.first) = answer

(* "each of which reads some other row and returns it as though it were    *)
(* the one asked for" is what rows() refuses: unless the caller changed    *)
(* its array, the rows returned are those the call named, each from its    *)
(* place in the tensor, one for each index and in their order.             *)
RowsAreThoseNamed ==
  stage = "done" /\ ~written => out = [k \in DOMAIN called |-> PlaceOf(tensor, called[k])]

(* What still holds of an array that was written after its check: what has *)
(* been read into the result is rows of the tensor, and the result is as   *)
(* long as the call made it.  The rows need not be those named, before or  *)
(* after: an index that does not fit in 32 bits is another row by then.    *)
OnlyRowsOfTensor ==
  /\ \A k \in DOMAIN out : out[k] # None =>
       \E row \in 0..(tensor.a - 1) : out[k] = PlaceOf(tensor, row)
  /\ stage \in {"reading", "done"} => Len(out) = Len(called)

(* However long its array becomes, a call reads one row more than it has   *)
(* room for at most, and then throws; unless rows have no elements, when   *)
(* there is nothing to write and it goes on for as long as the array does. *)
ReadsBounded == tensor.width # 0 => i <= Len(out) + 1

(* A call ends, whatever its caller does to the array; again unless rows   *)
(* have no elements.                                                       *)
GatherSettles ==
  stage = "reading" /\ tensor.width # 0 ~> stage \in {"done", "refused"}
=============================================================================
