------------------------------- MODULE Parser -------------------------------
(***************************************************************************)
(* `parse` of src/crates/gguf/src/reader.rs: a cursor over the bytes of a  *)
(* GGUF header, none of which is trusted.  A read loop hands it longer and *)
(* longer prefixes of one file, so the module runs it on a set of prefixes *)
(* of the same file at once: the content of a field is chosen when the     *)
(* cursor comes to it, and `verdict` says what each prefix has come to.    *)
(* "short" is GgufError::Truncated, the answer that asks for more bytes;   *)
(* "refused" is every other error.                                         *)
(*                                                                         *)
(* Names, keys and text are their lengths and, where a duplicate matters,  *)
(* their identity.  Field widths are the format's own.                     *)
(***************************************************************************)
EXTENDS Integers, Sequences

CONSTANTS
  Prefixes,                      \* the lengths of the prefixes tried
  Word,                          \* 2^64
  Keys, AlignmentKey, Names,     \* metadata keys, "general.alignment", tensors
  Counts, Lengths, Extents, Offsets, Alignments,
                                 \* the numbers a file may hold in each role
  Dtypes,                        \* [block, size] of the formats
  MaxEntries, MaxTensors, MaxArray, MaxString, MaxDims, MaxElements,
                                 \* ParseLimits
  DefaultAlignment               \* DEFAULT_ALIGNMENT

ASSUME ParserAssumption ==
  /\ Prefixes \subseteq Nat /\ Word \in Nat \ {0}
  /\ Counts \cup Lengths \cup Extents \cup Offsets \cup Alignments
       \subseteq 0..(Word - 1)
  /\ AlignmentKey \in Keys
  /\ Dtypes \subseteq [block : Nat \ {0}, size : Nat \ {0}]
  /\ {MaxEntries, MaxTensors, MaxArray, MaxString, MaxDims, MaxElements} \subseteq Nat
  /\ DefaultAlignment \in Nat \ {0}

VARIABLES
  verdict,    \* what each prefix has come to
  at, pos,    \* the field the cursor is before, and where that is
  cur         \* what has been read so far, a record of
              \*   entries, tensors   not begun yet
              \*   key, keys          the entry being read, the map's keys
              \*   kind, items        its type; array elements not begun
              \*   need               the length of the string to come
              \*   alignment
              \*   name, shape, dims, dtype   the tensor being read
              \*   table              the tensors pushed
              \*   reserved           history: the file bytes that were
              \*                      reserved for so far, a shape's apart,
              \*                      which MaxDims alone bounds

vars == <<verdict, at, pos, cur>>

Text    == 0         \* the value types that are not of a fixed width
Array   == -1
Unknown == -2        \* a number that is no value type
Scalars == {1, 2, 4, 8}

(* fits_in_remaining; `Unfit` is what it answers.  Without it, or with the *)
(* answer the limits give, the parser would have these.                    *)
FitsAlways(count, per, left) == count >= 0
UnfitIsTooLarge              == "refused"

Fits(count, per, left) == count <= left \div per
Unfit                  == "short"

(* take(n), a check of what was read, then fits_in_remaining: `count`      *)
(* items of `per` bytes in what is left.  Content that is refused leaves   *)
(* the cursor where it was.                                                *)
ReadFitting(n, ok, count, per, next, c) ==
  /\ verdict' = [p \in Prefixes |->
       IF verdict[p] # "reading" THEN verdict[p]
       ELSE IF pos + n > p THEN "short"
       ELSE IF ~ok THEN "refused"
       ELSE IF Fits(count, per, p - pos - n) THEN "reading" ELSE Unfit]
  /\ IF ok THEN at' = next /\ pos' = pos + n /\ cur' = c
           ELSE at' = "refused" /\ UNCHANGED <<pos, cur>>

Read(n, ok, next, c) == ReadFitting(n, ok, 0, 1, next, c)

(* read_string: its length, against the limit, and then its bytes, copied. *)
StringLength(next, c) ==
  \E len \in Lengths : Read(8, len <= MaxString, next, [c EXCEPT !.need = len])

StringBody(ok, next, c) ==
  \E utf8 \in BOOLEAN :
     Read(cur.need, utf8 /\ ok, next, [c EXCEPT !.reserved = @ + cur.need])

-----------------------------------------------------------------------------
Init ==
  /\ verdict = [p \in Prefixes |-> "reading"]
  /\ at = "magic" /\ pos = 0
  /\ cur = [entries |-> 0, tensors |-> 0, key |-> AlignmentKey, keys |-> {},
            kind |-> 1, items |-> 0, need |-> 0, alignment |-> DefaultAlignment,
            name |-> 0, shape |-> <<>>, dims |-> 0,
            dtype |-> [block |-> 1, size |-> 1], table |-> <<>>, reserved |-> 0]

Magic == /\ at = "magic"
         /\ \E ok \in BOOLEAN : Read(4, ok, "version", cur)

Version == /\ at = "version"
           /\ \E ok \in BOOLEAN : Read(4, ok, "tensor_count", cur)

TensorCount ==
  /\ at = "tensor_count"
  /\ \E n \in Counts :
       Read(8, n <= MaxTensors, "kv_count", [cur EXCEPT !.tensors = n])

EntryAgain  == IF cur.entries >= 0 THEN "key" ELSE "alignment"
AfterEntry  == IF cur.entries > 0 THEN "key" ELSE "alignment"
AfterTensor == IF cur.tensors > 0 THEN "name" ELSE "start"

(* Entries taken to be longer than the shortest are.                       *)
KvCountByLongKeys ==
  /\ at = "kv_count"
  /\ \E n \in Counts :
       ReadFitting(8, n <= MaxEntries, n, 24, IF n > 0 THEN "key" ELSE "alignment",
                   [cur EXCEPT !.entries = n])

(* A key is a length prefix and a type tag at least: twelve bytes.         *)
KvCount ==
  /\ at = "kv_count"
  /\ \E n \in Counts :
       ReadFitting(8, n <= MaxEntries, n, 12, IF n > 0 THEN "key" ELSE "alignment",
                   [cur EXCEPT !.entries = n])

Key == /\ at = "key"
       /\ StringLength("key.body", [cur EXCEPT !.entries = @ - 1])

KeyBody == /\ at = "key.body"
           /\ \E k \in Keys : StringBody(TRUE, "type", [cur EXCEPT !.key = k])

ValueTypes == Scalars \cup {Text, Array, Unknown}

Type == /\ at = "type"
        /\ \E kind \in ValueTypes :
             Read(4, kind # Unknown,
                  IF kind = Text THEN "text" ELSE IF kind = Array THEN "item.type"
                  ELSE "scalar",
                  [cur EXCEPT !.kind = kind])

(* metadata.insert: a second entry under the same key is refused.          *)
Fresh       == cur.key \notin cur.keys
Inserted(c) == [c EXCEPT !.keys = @ \cup {cur.key}]

(* A scalar.  general.alignment is what as_u64 makes of it; one it makes   *)
(* nothing of, a float or a negative number, leaves the default.           *)
Scalar ==
  /\ at = "scalar"
  /\ \E a \in IF cur.key = AlignmentKey THEN Alignments \cup {DefaultAlignment}
              ELSE {cur.alignment} :
       Read(cur.kind, Fresh, AfterEntry, Inserted([cur EXCEPT !.alignment = a]))

TextValue == at = "text" /\ StringLength("text.body", cur)

TextBody == at = "text.body" /\ StringBody(Fresh, AfterEntry, Inserted(cur))

ItemType == /\ at = "item.type"
            /\ \E kind \in ValueTypes :
                 Read(4, kind # Unknown, "item.count", [cur EXCEPT !.kind = kind])

(* What capacity_for takes an element to be: a string is at least its own  *)
(* length prefix.                                                          *)
ItemSize(kind) == IF kind = Text THEN 8 ELSE kind

(* The array is complete, and is inserted, when no item is left.           *)
AfterItem(n)  == IF n > 0 THEN "item" ELSE AfterEntry
Kept(n, c)    == IF n > 0 THEN [c EXCEPT !.items = n]
                 ELSE Inserted([c EXCEPT !.items = n])

NestedArray == /\ at = "item.count" /\ cur.kind = Array
               /\ Read(8, FALSE, "item", cur)

ItemCount ==
  /\ at = "item.count" /\ cur.kind # Array
  /\ \E n \in Counts :
       ReadFitting(8, n <= MaxArray /\ (n = 0 => Fresh), n, ItemSize(cur.kind),
                   AfterItem(n),
                   Kept(n, [cur EXCEPT !.reserved = @ + n * ItemSize(cur.kind)]))

Item == /\ at = "item" /\ cur.kind # Text
        /\ Read(cur.kind, cur.items = 1 => Fresh, AfterItem(cur.items - 1),
                Kept(cur.items - 1, cur))

ItemText == /\ at = "item" /\ cur.kind = Text
            /\ StringLength("item.body", [cur EXCEPT !.items = @ - 1])

ItemBody == /\ at = "item.body"
            /\ StringBody(cur.items = 0 => Fresh, AfterItem(cur.items),
                          Kept(cur.items, cur))

(* The alignment, then the table's reservation, at twenty bytes a tensor.  *)
IsPowerOfTwo(a) == \E n \in 0..a : a = 2^n

Alignment ==
  /\ at = "alignment"
  /\ ReadFitting(0, cur.alignment # 0 /\ IsPowerOfTwo(cur.alignment),
                 cur.tensors, 20, AfterTensor,
                 [cur EXCEPT !.reserved = @ + cur.tensors * 20])

Name == /\ at = "name"
        /\ StringLength("name.body", [cur EXCEPT !.tensors = @ - 1])

NameBody ==
  /\ at = "name.body"
  /\ \E n \in Names :
       StringBody(TRUE, "n_dims", [cur EXCEPT !.name = n, !.shape = <<>>])

AfterDim(n) == IF n > 0 THEN "dim" ELSE "dtype"

Dims == /\ at = "n_dims"
        /\ \E n \in Counts :
             Read(4, n <= MaxDims, AfterDim(n), [cur EXCEPT !.dims = n])

Dim == /\ at = "dim"
       /\ \E extent \in Extents :
            Read(8, TRUE, AfterDim(cur.dims - 1),
                 [cur EXCEPT !.dims = @ - 1, !.shape = Append(@, extent)])

Dtype == /\ at = "dtype"
         /\ \E d \in Dtypes, known \in BOOLEAN :
              Read(4, known, "offset", [cur EXCEPT !.dtype = d])

(* The element count multiplied up in order, and the bytes of a tensor.    *)
Products(shape) ==
  LET product[k \in 0..Len(shape)] ==
        IF k = 0 THEN 1 ELSE product[k - 1] * shape[k]
  IN product
Numel(t)  == Products(t.shape)[Len(t.shape)]
Nbytes(t) == (Numel(t) \div t.dtype.block) * t.dtype.size

(* A tensor whose name is not looked up.                                   *)
AdmittedTwice(t) ==
  /\ \A k \in 0..Len(t.shape) : Products(t.shape)[k] \in 0..(Word - 1)
  /\ Numel(t) <= MaxElements
  /\ Numel(t) % t.dtype.block = 0
  /\ Nbytes(t) < Word
  /\ t.offset + Nbytes(t) < Word

(* The checks a tensor passes before it is pushed, and the name map's.     *)
Admitted(t) ==
  /\ \A k \in 0..Len(t.shape) : Products(t.shape)[k] \in 0..(Word - 1)
  /\ Numel(t) <= MaxElements
  /\ Numel(t) % t.dtype.block = 0
  /\ Nbytes(t) < Word
  /\ t.offset + Nbytes(t) < Word
  /\ \A k \in DOMAIN cur.table : cur.table[k].name # t.name

Offset ==
  /\ at = "offset"
  /\ \E o \in Offsets :
       LET t == [name |-> cur.name, shape |-> cur.shape, dtype |-> cur.dtype,
                 offset |-> o]
       IN Read(8, Admitted(t), AfterTensor, [cur EXCEPT !.table = Append(@, t)])

(* align_up(c.pos, alignment): where the tensor data begins.               *)
DataStart == LET rest == pos % cur.alignment
             IN IF rest = 0 THEN pos ELSE pos + (cur.alignment - rest)

EndsFit == /\ DataStart < Word
           /\ \A k \in DOMAIN cur.table :
                DataStart + cur.table[k].offset + Nbytes(cur.table[k]) < Word

Start ==
  /\ at = "start"
  /\ verdict' = [p \in Prefixes |->
       IF verdict[p] # "reading" THEN verdict[p]
       ELSE IF EndsFit THEN "parsed" ELSE "refused"]
  /\ at' = IF EndsFit THEN "parsed" ELSE "refused"
  /\ UNCHANGED <<pos, cur>>

Entry  == \/ Key \/ KeyBody \/ Type \/ Scalar \/ TextValue \/ TextBody
          \/ ItemType \/ NestedArray \/ ItemCount \/ Item \/ ItemText \/ ItemBody
Tensor == Name \/ NameBody \/ Dims \/ Dim \/ Dtype \/ Offset

Next == /\ \E p \in Prefixes : verdict[p] = "reading"
        /\ \/ Magic \/ Version \/ TensorCount \/ KvCount \/ Entry
           \/ Alignment \/ Tensor \/ Start

Spec == Init /\ [][Next]_vars

-----------------------------------------------------------------------------
(* Type invariant; a record, for the shape of what has been read.          *)
TypeOK ==
  /\ verdict \in [Prefixes -> {"reading", "short", "refused", "parsed"}]
  /\ pos \in Nat
  /\ {cur.entries, cur.tensors, cur.items, cur.need, cur.dims, cur.reserved}
       \subseteq Nat
  /\ cur.keys \subseteq Keys /\ cur.kind \in ValueTypes

(* needs_more_bytes is "true only for truncation" (README), and a caller   *)
(* that is told so reads on: what one prefix of a file is told holds for   *)
(* the longer ones.  A refusal and a parsed header are final, and a prefix *)
(* is short when a longer one is.                                          *)
PrefixLaw ==
  \A p, q \in Prefixes : p < q =>
     /\ verdict[p] \in {"refused", "parsed"} => verdict[q] = verdict[p]
     /\ verdict[q] = "short" => verdict[p] = "short"

(* What the format needs at least for what has been counted and not read:  *)
(* an entry is an eight-byte length, a four-byte type and one byte; a      *)
(* tensor a length, the dimension count, the dtype and the offset.         *)
LeastField(field, c) ==
  CASE field = "magic" -> 24 [] field = "version" -> 20
    [] field = "tensor_count" -> 16 [] field = "kv_count" -> 8
    [] field = "key.body" -> c.need + 5 [] field = "type" -> 5
    [] field = "scalar" -> c.kind [] field = "text" -> 8
    [] field = "text.body" -> c.need [] field = "item.type" -> 12
    [] field = "item.count" -> 8 [] field = "item" -> c.items * ItemSize(c.kind)
    [] field = "item.body" -> c.need + c.items * 8
    [] field = "name.body" -> c.need + 16 [] field = "n_dims" -> 16
    [] field = "dim" -> c.dims * 8 + 12 [] field = "dtype" -> 12
    [] field = "offset" -> 8 [] OTHER -> 0

LeastRest(field, c) == LeastField(field, c) + c.entries * 13 + c.tensors * 24

(* A prefix is called short only when the header cannot end inside it, so  *)
(* a file that holds its whole header is never sent away for more, however *)
(* many entries and tensors it counts.                                     *)
ShortIsShort ==
  at # "refused" =>
    \A p \in Prefixes : verdict[p] = "short" => pos + LeastRest(at, cur) > p

(* Of the array or the table in hand, what was reserved and is not read.   *)
(* A tensor is reserved as twenty bytes, used up by its fixed fields.      *)
Outstanding(field, c) ==
  CASE field \in {"item", "item.body"} -> c.items * ItemSize(c.kind)
    [] field = "name" -> c.tensors * 20
    [] field \in {"name.body", "n_dims"} -> c.tensors * 20 + 12
    [] field \in {"dim", "dtype"} -> c.tensors * 20 + 8
    [] field = "offset" -> c.tensors * 20 + 4
    [] OTHER -> 0

(* "which bounds every allocation by the file's own length before a single *)
(* byte is reserved" (README), and all of them together: what has been     *)
(* reserved is for bytes that were read, each counted once, and for one    *)
(* array or table in hand, the rest of which a prefix could hold.          *)
ReservationsBacked ==
  /\ at # "refused" => cur.reserved <= pos + Outstanding(at, cur)
  /\ \A p \in Prefixes : verdict[p] = "reading" => Outstanding(at, cur) <= p

(* tensor_range is exact ("Both checked during parsing"): the data section *)
(* begins at a multiple of the alignment past the header, and no tensor of *)
(* a parsed header ends beyond the machine's numbers or shares its name.   *)
TensorRangesExact ==
  at = "parsed" =>
    /\ DataStart >= pos /\ DataStart % cur.alignment = 0
    /\ \A k \in DOMAIN cur.table :
         LET t == cur.table[k]
         IN /\ \A j \in DOMAIN cur.table : cur.table[j].name = t.name => j = k
            /\ DataStart + t.offset + Nbytes(t) < Word
            /\ (Nbytes(t) \div t.dtype.size) * t.dtype.block = Numel(t)
=============================================================================
