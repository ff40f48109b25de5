----------------------------- MODULE ParserProofs ---------------------------
(***************************************************************************)
(* Theorems about the header parser, for any file, any prefixes of it, any *)
(* limits and any word.  Every field is read by ReadFitting, so the proofs *)
(* are in two halves: what a field must do for the invariant to be kept    *)
(* (Good), and that each of the fields does it.                            *)
(***************************************************************************)
EXTENDS Parser, SequenceTheorems, TLAPS

Fields == {"magic", "version", "tensor_count", "kv_count", "key", "key.body", "type",
           "scalar", "text", "text.body", "item.type", "item.count", "item",
           "item.body", "alignment", "name", "name.body", "n_dims", "dim", "dtype",
           "offset", "start"}

TableFields == {"name", "name.body", "n_dims", "dim", "dtype", "offset", "start", "parsed"}

Formats == [block : Nat \ {0}, size : Nat \ {0}]
Entries == [name : Names \cup {0}, shape : Seq(Nat), dtype : Formats, offset : Nat]

Readings ==
  [entries : Nat, tensors : Nat, key : Keys, keys : SUBSET Keys, kind : ValueTypes,
   items : Nat, need : Nat, alignment : Nat, name : Names \cup {0}, shape : Seq(Nat),
   dims : Nat, dtype : Formats, table : Seq(Entries), reserved : Nat]

(* What the field the cursor is before says of what has been read.         *)
Counted(field, c) ==
  /\ field \in {"magic", "version", "tensor_count"} => c.tensors = 0
  /\ field \in {"magic", "version", "tensor_count", "kv_count"} => c.entries = 0
  /\ field = "key" => c.entries > 0
  /\ field = "scalar" => c.kind \in Scalars
  /\ field = "item.count" => c.kind # Unknown
  /\ field = "item" => c.items > 0 /\ c.kind \in Scalars \cup {Text}
  /\ field = "item.body" => c.kind = Text
  /\ field \in TableFields => c.alignment > 0
  /\ field = "name" => c.tensors > 0
  /\ field = "dim" => c.dims > 0

Typed ==
  /\ verdict \in [Prefixes -> {"reading", "short", "refused", "parsed"}]
  /\ at \in Fields \cup {"refused", "parsed"}
  /\ pos \in Nat /\ cur \in Readings /\ Counted(at, cur)

(* A refusal, and the end, are the cursor's as well as a prefix's.         *)
Final == \A p \in Prefixes : /\ verdict[p] = "refused" => at = "refused"
                             /\ verdict[p] = "parsed" => at = "parsed"

(* What parse checks of a tensor by itself.                                *)
Sound(t) ==
  /\ \A k \in 0..Len(t.shape) : Products(t.shape)[k] \in 0..(Word - 1)
  /\ Numel(t) <= MaxElements
  /\ Numel(t) % t.dtype.block = 0
  /\ Nbytes(t) < Word
  /\ t.offset + Nbytes(t) < Word

(* The tensors that were pushed passed the checks, and no two share a name.*)
Tabled ==
  \A k \in DOMAIN cur.table :
    /\ Sound(cur.table[k])
    /\ \A j \in DOMAIN cur.table : cur.table[j].name = cur.table[k].name => j = k

ParserInv == /\ Typed /\ Final /\ Tabled /\ (at = "parsed" => EndsFit)
             /\ PrefixLaw /\ ShortIsShort /\ ReservationsBacked

-----------------------------------------------------------------------------
(* Arithmetic.                                                             *)

(* Multiplication keeps the order.                                         *)
LEMMA Ordered ==
  ASSUME NEW x \in Nat, NEW y \in Nat, NEW z \in Nat, x <= y
  PROVE  x * z <= y * z /\ x * z \in Nat /\ y * z \in Nat
  BY SMT

(* Division with its remainder.                                            *)
LEMMA Divided ==
  ASSUME NEW x \in Nat, NEW d \in Nat \ {0}
  PROVE  /\ x \div d \in Nat /\ x % d \in 0..(d - 1)
         /\ x = (x \div d) * d + (x % d)
  BY SMT

(* A multiple is divided exactly.                                          *)
LEMMA Multiple ==
  ASSUME NEW d \in Nat \ {0}, NEW q \in Nat
  PROVE  (q * d) \div d = q /\ (q * d) % d = 0
<1>. DEFINE p == (q * d) \div d
            r == (q * d) % d
<1>1. q * d \in Nat
  BY SMT
<1>2. p \in Nat /\ r \in 0..(d - 1) /\ q * d = p * d + r
  BY <1>1, Divided
<1>. HIDE DEF p, r
<1>3. CASE q > p
  <2>1. (p + 1) * d <= q * d /\ (p + 1) * d = p * d + d
    BY <1>2, <1>3, Ordered, SMT
  <2>. QED
    BY <1>1, <1>2, <2>1, SMT
<1>4. CASE p > q
  <2>1. (q + 1) * d <= p * d /\ (q + 1) * d = q * d + d
    BY <1>2, <1>4, Ordered, SMT
  <2>. QED
    BY <1>1, <1>2, <2>1, SMT
<1>5. CASE p = q
  <2>1. r = 0
    BY <1>1, <1>2, <1>5, SMT
  <2>. QED
    BY <1>5, <2>1 DEF p, r
<1>. QED
  BY <1>2, <1>3, <1>4, <1>5, SMT

(* fits_in_remaining divides, so that it need not multiply: it allows what *)
(* the product would.                                                      *)
LEMMA FitsIsProduct ==
  ASSUME NEW count \in Nat, NEW per \in Nat \ {0}, NEW left \in Nat
  PROVE  Fits(count, per, left) <=> count * per <= left
<1>. DEFINE q == left \div per
            r == left % per
<1>1. q \in Nat /\ r \in 0..(per - 1) /\ left = q * per + r
  BY Divided
<1>2. Fits(count, per, left) <=> count <= q
  BY DEF Fits
<1>. HIDE DEF q, r
<1>3. CASE count <= q
  <2>1. count * per <= q * per /\ count * per \in Nat /\ q * per \in Nat
    BY <1>1, <1>3, Ordered
  <2>. QED
    BY <1>1, <1>2, <1>3, <2>1
<1>4. CASE count > q
  <2>1. (q + 1) * per <= count * per /\ count * per \in Nat
    BY <1>1, <1>4, Ordered
  <2>2. (q + 1) * per = q * per + per /\ q * per \in Nat
    BY <1>1, SMT
  <2>. QED
    BY <1>1, <1>2, <1>4, <2>1, <2>2
<1>. QED
  BY <1>1, <1>3, <1>4

-----------------------------------------------------------------------------
(* A field in general.                                                     *)

(* What ReadFitting does when the content is accepted, and when it is not. *)
Goes(n, count, per, next, c) ==
  /\ verdict' = [p \in Prefixes |->
       IF verdict[p] # "reading" THEN verdict[p]
       ELSE IF pos + n > p THEN "short"
       ELSE IF Fits(count, per, p - pos - n) THEN "reading" ELSE "short"]
  /\ at' = next /\ pos' = pos + n /\ cur' = c

Refuses(n) ==
  /\ verdict' = [p \in Prefixes |->
       IF verdict[p] # "reading" THEN verdict[p]
       ELSE IF pos + n > p THEN "short" ELSE "refused"]
  /\ at' = "refused" /\ UNCHANGED <<pos, cur>>

(* What keeps the invariant: the bytes that must still come are no fewer   *)
(* than before, less those read, and no fewer than what was asked to fit;  *)
(* what is reserved is read or outstanding, and what is outstanding fitted *)
(* before or was asked to fit; a tensor that is pushed was admitted.       *)
Good(n, count, per, next, c) ==
  /\ Counted(next, c)
  /\ LeastRest(next, c) + n >= LeastRest(at, cur)
  /\ LeastRest(next, c) >= count * per
  /\ c.reserved + Outstanding(at, cur) <= cur.reserved + n + Outstanding(next, c)
  /\ Outstanding(next, c) <= Outstanding(at, cur) \/ Outstanding(next, c) <= count * per
  /\ \/ c.table = cur.table
     \/ \E t \in Entries : Admitted(t) /\ c.table = Append(cur.table, t)

(* The sizes of fields are numbers.                                        *)
LEMMA Sizes ==
  ASSUME NEW field \in Fields, NEW c \in Readings, Counted(field, c)
  PROVE  LeastRest(field, c) \in Nat /\ Outstanding(field, c) \in Nat
<1>1. /\ c.items \in Nat /\ c.need \in Nat /\ c.dims \in Nat /\ c.entries \in Nat
      /\ c.tensors \in Nat
  BY DEF Readings
<1>2. field \in {"item", "item.body"} => ItemSize(c.kind) \in Nat
  BY DEF Counted, ItemSize, Scalars, Text
<1>3. field \in {"item", "item.body"} => c.items * ItemSize(c.kind) \in Nat
  BY <1>1, <1>2
<1>4. field = "scalar" => c.kind \in Nat
  BY DEF Counted, Scalars
<1>. QED
  BY <1>1, <1>3, <1>4 DEF LeastRest, LeastField, Outstanding, Fields

(* A tensor that is pushed joins a table of others.                        *)
LEMMA Pushed ==
  ASSUME Typed, Tabled, NEW t \in Entries, Admitted(t), cur'.table = Append(cur.table, t)
  PROVE  Tabled'
<1>1. cur.table \in Seq(Entries)
  BY DEF Typed, Readings
<1>2. /\ DOMAIN cur'.table = 1..(Len(cur.table) + 1)
      /\ \A k \in 1..Len(cur.table) : cur'.table[k] = cur.table[k]
      /\ cur'.table[Len(cur.table) + 1] = t
  BY <1>1, AppendProperties
<1>3. DOMAIN cur.table = 1..Len(cur.table) /\ Len(cur.table) \in Nat
  BY <1>1
<1>4. Sound(t) /\ \A k \in DOMAIN cur.table : cur.table[k].name # t.name
  BY DEF Admitted, Sound
<1>5. ASSUME NEW k \in DOMAIN cur'.table
      PROVE  Sound(cur'.table[k])
  BY <1>2, <1>3, <1>4, <1>5 DEF Tabled
<1>6. ASSUME NEW k \in DOMAIN cur'.table, NEW j \in DOMAIN cur'.table,
             cur'.table[j].name = cur'.table[k].name
      PROVE  j = k
  BY <1>2, <1>3, <1>4, <1>6 DEF Tabled
<1>. QED
  BY <1>5, <1>6 DEF Tabled, Sound

(* A field whose content is accepted keeps the invariant if it is good.    *)
LEMMA GoesKeeps ==
  ASSUME ParserInv, at \in Fields, NEW n \in Nat, NEW count \in Nat, NEW per \in Nat \ {0},
         NEW next \in Fields, NEW c \in Readings,
         Goes(n, count, per, next, c), Good(n, count, per, next, c)
  PROVE  ParserInv'
<1>1. /\ at' = next /\ pos' = pos + n /\ cur' = c /\ pos \in Nat
      /\ next \notin {"refused", "parsed"} /\ at \notin {"refused", "parsed"}
  BY DEF Goes, ParserInv, Typed, Fields
<1>2. Prefixes \subseteq Nat
  BY ParserAssumption
<1>3. ASSUME NEW p \in Prefixes
      PROVE  verdict'[p] = IF verdict[p] # "reading" THEN verdict[p]
                           ELSE IF pos + n > p \/ count * per > p - pos - n THEN "short"
                           ELSE "reading"
  <2>1. CASE pos + n > p
    BY <2>1 DEF Goes
  <2>2. CASE ~(pos + n > p)
    <3>1. p - pos - n \in Nat /\ count * per \in Nat
      BY <1>1, <1>2, <2>2
    <3>2. Fits(count, per, p - pos - n) <=> count * per <= p - pos - n
      BY <3>1, FitsIsProduct
    <3>. QED
      BY <1>1, <1>2, <2>2, <3>1, <3>2 DEF Goes
  <2>. QED
    BY <2>1, <2>2
<1>4. Typed'
  BY <1>1, <1>3 DEF Goes, Good, ParserInv, Typed
<1>5. Final'
  BY <1>1, <1>3 DEF ParserInv, Final
<1>6. Tabled'
  <2>1. CASE c.table = cur.table
    BY <1>1, <2>1 DEF ParserInv, Tabled, Sound
  <2>2. CASE \E t \in Entries : Admitted(t) /\ c.table = Append(cur.table, t)
    BY <1>1, <2>2, Pushed DEF ParserInv
  <2>. QED
    BY <2>1, <2>2 DEF Good
<1>7. PrefixLaw'
  <2>. SUFFICES ASSUME NEW p \in Prefixes, NEW q \in Prefixes, p < q
                PROVE  /\ verdict'[p] \in {"refused", "parsed"} => verdict'[q] = verdict'[p]
                       /\ verdict'[q] = "short" => verdict'[p] = "short"
    BY DEF PrefixLaw
  <2>1. /\ verdict[p] \in {"refused", "parsed"} => verdict[q] = verdict[p]
        /\ verdict[q] = "short" => verdict[p] = "short"
    BY DEF ParserInv, PrefixLaw
  <2>2. verdict[p] \notin {"refused", "parsed"} /\ verdict[q] \notin {"refused", "parsed"}
    BY <1>1 DEF ParserInv, Final
  <2>3. count * per \in Nat
    OBVIOUS
  <2>. QED
    BY <1>1, <1>2, <1>3, <2>1, <2>2, <2>3 DEF ParserInv, Typed
<1>8. LeastRest(at, cur) \in Nat /\ LeastRest(next, c) \in Nat
      /\ Outstanding(at, cur) \in Nat /\ Outstanding(next, c) \in Nat
  BY Sizes DEF ParserInv, Typed, Good
<1>9. ShortIsShort'
  <2>. SUFFICES ASSUME NEW p \in Prefixes, verdict'[p] = "short"
                PROVE  pos + n + LeastRest(next, c) > p
    BY <1>1 DEF ShortIsShort, LeastRest, LeastField
  <2>1. verdict[p] = "short" => pos + LeastRest(at, cur) > p
    BY <1>1 DEF ParserInv, ShortIsShort
  <2>2. verdict[p] # "short" => pos + n > p \/ count * per > p - pos - n
    BY <1>3
  <2>. QED
    BY <1>1, <1>2, <1>8, <2>1, <2>2 DEF Good
<1>10. ReservationsBacked'
  <2>1. c.reserved \in Nat /\ cur.reserved \in Nat
    BY DEF ParserInv, Typed, Readings
  <2>2. c.reserved <= pos + n + Outstanding(next, c)
    <3>1. cur.reserved <= pos + Outstanding(at, cur)
      BY <1>1 DEF ParserInv, ReservationsBacked
    <3>2. c.reserved + Outstanding(at, cur) <= cur.reserved + n + Outstanding(next, c)
      BY DEF Good
    <3>. QED
      BY <1>1, <1>8, <2>1, <3>1, <3>2
  <2>3. ASSUME NEW p \in Prefixes, verdict'[p] = "reading"
        PROVE  Outstanding(next, c) <= p
    <3>1. verdict[p] = "reading" /\ ~(pos + n > p) /\ ~(count * per > p - pos - n)
      BY <1>3, <2>3
    <3>2. Outstanding(at, cur) <= p
      BY <3>1 DEF ParserInv, ReservationsBacked
    <3>. QED
      BY <1>1, <1>2, <1>8, <3>1, <3>2 DEF Good
  <2>4. Outstanding(at, cur)' = Outstanding(next, c)
    BY <1>1 DEF Outstanding
  <2>. QED
    BY <1>1, <2>2, <2>3, <2>4 DEF ReservationsBacked
<1>. QED
  BY <1>1, <1>4, <1>5, <1>6, <1>7, <1>9, <1>10 DEF ParserInv

(* A field whose content is refused ends the parse of every prefix that    *)
(* holds the field, with one answer.                                       *)
LEMMA RefusesKeeps ==
  ASSUME ParserInv, at \in Fields, NEW n \in Nat, Refuses(n)
  PROVE  ParserInv'
<1>1. at' = "refused" /\ pos' = pos /\ cur' = cur /\ at \notin {"refused", "parsed"}
  BY DEF Refuses, Fields
<1>2. Prefixes \subseteq Nat /\ pos \in Nat
  BY ParserAssumption DEF ParserInv, Typed
<1>3. \A p \in Prefixes :
        verdict'[p] = IF verdict[p] # "reading" THEN verdict[p]
                      ELSE IF pos + n > p THEN "short" ELSE "refused"
  BY DEF Refuses
<1>4. Typed'
  BY <1>1, <1>2 DEF Refuses, ParserInv, Typed, Counted, TableFields
<1>5. Final'
  BY <1>1, <1>3 DEF ParserInv, Final
<1>6. Tabled'
  BY <1>1 DEF ParserInv, Tabled, Sound
<1>7. PrefixLaw'
  BY <1>1, <1>2, <1>3 DEF ParserInv, Typed, Final, PrefixLaw
<1>8. ShortIsShort'
  BY <1>1 DEF ShortIsShort
<1>9. ReservationsBacked'
  BY <1>1, <1>3 DEF ReservationsBacked
<1>. QED
  BY <1>1, <1>4, <1>5, <1>6, <1>7, <1>8, <1>9 DEF ParserInv

-----------------------------------------------------------------------------
(* Each of the fields.                                                     *)

Refusal == \E n \in Nat : Refuses(n)

Advance ==
  \E n \in Nat, count \in Nat, per \in Nat \ {0}, next \in Fields, c \in Readings :
    Goes(n, count, per, next, c) /\ Good(n, count, per, next, c)

(* What a field comes to, when its content is accepted and when it is not. *)
LEMMA Reached ==
  ASSUME NEW n \in Nat, NEW count \in Nat, NEW per \in Nat \ {0}, NEW next \in Fields,
         NEW c \in Readings,
         Goes(n, count, per, next, c) \/ Refuses(n), Good(n, count, per, next, c)
  PROVE  Advance \/ Refusal
  BY DEF Advance, Refusal

(* An item is a fixed number of bytes, eight at least when it is text.     *)
LEMMA AnArray ==
  ASSUME NEW items \in Nat, NEW kind \in Scalars \cup {Text}
  PROVE  /\ ItemSize(kind) \in Nat \ {0} /\ items * ItemSize(kind) \in Nat
         /\ items > 0 => (items - 1) * ItemSize(kind) + ItemSize(kind) = items * ItemSize(kind)
         /\ ItemSize(Text) = 8 /\ (kind # Text => ItemSize(kind) = kind)
<1>1. ItemSize(kind) \in {1, 2, 4, 8}
  BY DEF ItemSize, Scalars, Text
<1>. QED
  BY <1>1 DEF ItemSize

(* The numbers a file may hold are numbers.                                *)
LEMMA Inputs ==
  /\ Counts \subseteq Nat /\ Lengths \subseteq Nat /\ Extents \subseteq Nat
  /\ Offsets \subseteq Nat /\ Alignments \subseteq Nat /\ DefaultAlignment \in Nat
  /\ Dtypes \subseteq Formats /\ AlignmentKey \in Keys
  BY ParserAssumption DEF Formats

(* The fixed part in front.                                                *)
LEMMA FrontFields ==
  ASSUME Typed, Magic \/ Version \/ TensorCount \/ KvCount
  PROVE  Advance \/ Refusal
<1>1. CASE Magic
  <2>. DEFINE next == "version"
              c    == cur
  <2>2. Goes(4, 0, 1, next, c) \/ Refuses(4)
    BY <1>1 DEF Magic, Read, ReadFitting, Goes, Refuses, Unfit
  <2>3. cur \in Readings
    BY <1>1, Inputs DEF Magic, Typed, Counted, Readings
  <2>4. c \in Readings /\ c.entries = cur.entries /\ c.tensors = cur.tensors
      /\ c.reserved = cur.reserved /\ c.table = cur.table
    BY <2>3 DEF Readings
  <2>5. next \in Fields /\ Counted(next, c)
    BY <1>1, <2>3 DEF Magic, Typed, Counted, Readings, Fields, TableFields
  <2>6. /\ LeastField(at, cur) = 24 /\ LeastField(next, c) = 20
        /\ Outstanding(at, cur) = 0 /\ Outstanding(next, c) = 0
    BY <1>1, <2>3 DEF Magic, LeastField, Outstanding, Readings
  <2>. HIDE DEF next, c
  <2>7. {c.entries, c.tensors, c.reserved, cur.entries, cur.tensors, cur.reserved} \subseteq Nat
    BY <2>3, <2>4 DEF Readings
  <2>8. /\ LeastRest(next, c) + 4 >= LeastRest(at, cur) /\ LeastRest(next, c) >= 0
        /\ c.reserved + Outstanding(at, cur) <= cur.reserved + 4 + Outstanding(next, c)
        /\ Outstanding(next, c) <= Outstanding(at, cur)
    BY <2>3, <2>4, <2>6, <2>7 DEF LeastRest
  <2>9. Good(4, 0, 1, next, c)
    BY <2>3, <2>4, <2>5, <2>8 DEF Good
  <2>10. 4 \in Nat /\ 0 \in Nat /\ 1 \in Nat \ {0} /\ next \in Fields /\ c \in Readings
    BY <2>3, <2>4, <2>5
  <2>. QED
    BY <2>2, <2>9, <2>10, Reached
<1>2. CASE Version
  <2>. DEFINE next == "tensor_count"
              c    == cur
  <2>2. Goes(4, 0, 1, next, c) \/ Refuses(4)
    BY <1>2 DEF Version, Read, ReadFitting, Goes, Refuses, Unfit
  <2>3. cur \in Readings
    BY <1>2, Inputs DEF Version, Typed, Counted, Readings
  <2>4. c \in Readings /\ c.entries = cur.entries /\ c.tensors = cur.tensors
      /\ c.reserved = cur.reserved /\ c.table = cur.table
    BY <2>3 DEF Readings
  <2>5. next \in Fields /\ Counted(next, c)
    BY <1>2, <2>3 DEF Version, Typed, Counted, Readings, Fields, TableFields
  <2>6. /\ LeastField(at, cur) = 20 /\ LeastField(next, c) = 16
        /\ Outstanding(at, cur) = 0 /\ Outstanding(next, c) = 0
    BY <1>2, <2>3 DEF Version, LeastField, Outstanding, Readings
  <2>. HIDE DEF next, c
  <2>7. {c.entries, c.tensors, c.reserved, cur.entries, cur.tensors, cur.reserved} \subseteq Nat
    BY <2>3, <2>4 DEF Readings
  <2>8. /\ LeastRest(next, c) + 4 >= LeastRest(at, cur) /\ LeastRest(next, c) >= 0
        /\ c.reserved + Outstanding(at, cur) <= cur.reserved + 4 + Outstanding(next, c)
        /\ Outstanding(next, c) <= Outstanding(at, cur)
    BY <2>3, <2>4, <2>6, <2>7 DEF LeastRest
  <2>9. Good(4, 0, 1, next, c)
    BY <2>3, <2>4, <2>5, <2>8 DEF Good
  <2>10. 4 \in Nat /\ 0 \in Nat /\ 1 \in Nat \ {0} /\ next \in Fields /\ c \in Readings
    BY <2>3, <2>4, <2>5
  <2>. QED
    BY <2>2, <2>9, <2>10, Reached
<1>3. CASE TensorCount
  <2>1. PICK n \in Counts :
          Read(8, n <= MaxTensors, "kv_count", [cur EXCEPT !.tensors = n])
    BY <1>3 DEF TensorCount
  <2>. DEFINE next == "kv_count"
              c    == [cur EXCEPT !.tensors = n]
  <2>2. Goes(8, 0, 1, next, c) \/ Refuses(8)
    BY <2>1 DEF Read, ReadFitting, Goes, Refuses, Unfit
  <2>3. cur \in Readings /\ n \in Nat /\ cur.tensors = 0
    BY <1>3, Inputs DEF TensorCount, Typed, Counted, Readings
  <2>4. c \in Readings /\ c.entries = cur.entries /\ c.tensors = n
      /\ c.reserved = cur.reserved /\ c.table = cur.table
    BY <2>3 DEF Readings
  <2>5. next \in Fields /\ Counted(next, c)
    BY <1>3, <2>3 DEF TensorCount, Typed, Counted, Readings, Fields, TableFields
  <2>6. /\ LeastField(at, cur) = 16 /\ LeastField(next, c) = 8
        /\ Outstanding(at, cur) = 0 /\ Outstanding(next, c) = 0
    BY <1>3, <2>3 DEF TensorCount, LeastField, Outstanding, Readings
  <2>. HIDE DEF next, c
  <2>7. {c.entries, c.tensors, c.reserved, cur.entries, cur.tensors, cur.reserved} \subseteq Nat
    BY <2>3, <2>4 DEF Readings
  <2>8. /\ LeastRest(next, c) + 8 >= LeastRest(at, cur) /\ LeastRest(next, c) >= 0
        /\ c.reserved + Outstanding(at, cur) <= cur.reserved + 8 + Outstanding(next, c)
        /\ Outstanding(next, c) <= Outstanding(at, cur)
    BY <2>3, <2>4, <2>6, <2>7 DEF LeastRest
  <2>9. Good(8, 0, 1, next, c)
    BY <2>3, <2>4, <2>5, <2>8 DEF Good
  <2>10. 8 \in Nat /\ 0 \in Nat /\ 1 \in Nat \ {0} /\ next \in Fields /\ c \in Readings
    BY <2>3, <2>4, <2>5
  <2>. QED
    BY <2>2, <2>9, <2>10, Reached
<1>4. CASE KvCount
  <2>1. PICK n \in Counts :
          ReadFitting(8, n <= MaxEntries, n, 12, IF n > 0 THEN "key" ELSE "alignment",
                      [cur EXCEPT !.entries = n])
    BY <1>4 DEF KvCount
  <2>. DEFINE next == IF n > 0 THEN "key" ELSE "alignment"
              c    == [cur EXCEPT !.entries = n]
  <2>2. Goes(8, n, 12, next, c) \/ Refuses(8)
    BY <2>1 DEF ReadFitting, Goes, Refuses, Unfit
  <2>3. cur \in Readings /\ n \in Nat /\ cur.entries = 0
    BY <1>4, Inputs DEF KvCount, Typed, Counted, Readings
  <2>4. c \in Readings /\ c.entries = n /\ c.tensors = cur.tensors
      /\ c.reserved = cur.reserved /\ c.table = cur.table
    BY <2>3 DEF Readings
  <2>5. next \in Fields /\ Counted(next, c)
    BY <1>4, <2>3 DEF KvCount, Typed, Counted, Readings, Fields, TableFields
  <2>6. /\ LeastField(at, cur) = 8 /\ LeastField(next, c) = 0
        /\ Outstanding(at, cur) = 0 /\ Outstanding(next, c) = 0
    BY <1>4, <2>3 DEF KvCount, LeastField, Outstanding, Readings
  <2>. HIDE DEF next, c
  <2>7. {c.entries, c.tensors, c.reserved, cur.entries, cur.tensors, cur.reserved} \subseteq Nat
    BY <2>3, <2>4 DEF Readings
  <2>8. /\ LeastRest(next, c) + 8 >= LeastRest(at, cur) /\ LeastRest(next, c) >= n * 12
        /\ c.reserved + Outstanding(at, cur) <= cur.reserved + 8 + Outstanding(next, c)
        /\ Outstanding(next, c) <= Outstanding(at, cur)
    BY <2>3, <2>4, <2>6, <2>7 DEF LeastRest
  <2>9. Good(8, n, 12, next, c)
    BY <2>3, <2>4, <2>5, <2>8 DEF Good
  <2>10. 8 \in Nat /\ n \in Nat /\ 12 \in Nat \ {0} /\ next \in Fields /\ c \in Readings
    BY <2>3, <2>4, <2>5
  <2>. QED
    BY <2>2, <2>9, <2>10, Reached
<1>. QED
  BY <1>1, <1>2, <1>3, <1>4

(* The key and the type of an entry.                                       *)
LEMMA KeyFields ==
  ASSUME Typed, Key \/ KeyBody \/ Type
  PROVE  Advance \/ Refusal
<1>1. CASE Key
  <2>1. PICK len \in Lengths :
          Read(8, len <= MaxString, "key.body",
               [[cur EXCEPT !.entries = @ - 1] EXCEPT !.need = len])
    BY <1>1 DEF Key, StringLength
  <2>. DEFINE next == "key.body"
              c    == [[cur EXCEPT !.entries = @ - 1] EXCEPT !.need = len]
  <2>2. Goes(8, 0, 1, next, c) \/ Refuses(8)
    BY <2>1 DEF Read, ReadFitting, Goes, Refuses, Unfit
  <2>3. /\ cur \in Readings /\ len \in Nat
        /\ cur.entries - 1 \in Nat
    BY <1>1, Inputs DEF Key, Typed, Counted, Readings
  <2>4. c \in Readings /\ c.entries = cur.entries - 1 /\ c.tensors = cur.tensors
      /\ c.reserved = cur.reserved /\ c.table = cur.table
    BY <2>3 DEF Readings
  <2>5. next \in Fields /\ Counted(next, c)
    BY <1>1, <2>3 DEF Key, Typed, Counted, Readings, Fields, TableFields
  <2>6. /\ LeastField(at, cur) = 0 /\ LeastField(next, c) = len + 5
        /\ Outstanding(at, cur) = 0 /\ Outstanding(next, c) = 0
    BY <1>1, <2>3 DEF Key, LeastField, Outstanding, Readings
  <2>. HIDE DEF next, c
  <2>7. {c.entries, c.tensors, c.reserved, cur.entries, cur.tensors, cur.reserved} \subseteq Nat
    BY <2>3, <2>4 DEF Readings
  <2>8. /\ LeastRest(next, c) + 8 >= LeastRest(at, cur) /\ LeastRest(next, c) >= 0
        /\ c.reserved + Outstanding(at, cur) <= cur.reserved + 8 + Outstanding(next, c)
        /\ Outstanding(next, c) <= Outstanding(at, cur)
    BY <2>3, <2>4, <2>6, <2>7 DEF LeastRest
  <2>9. Good(8, 0, 1, next, c)
    BY <2>3, <2>4, <2>5, <2>8 DEF Good
  <2>10. 8 \in Nat /\ 0 \in Nat /\ 1 \in Nat \ {0} /\ next \in Fields /\ c \in Readings
    BY <2>3, <2>4, <2>5
  <2>. QED
    BY <2>2, <2>9, <2>10, Reached
<1>2. CASE KeyBody
  <2>1. PICK k \in Keys, utf8 \in BOOLEAN :
          Read(cur.need, utf8 /\ TRUE, "type",
               [[cur EXCEPT !.key = k] EXCEPT !.reserved = @ + cur.need])
    BY <1>2 DEF KeyBody, StringBody
  <2>. DEFINE next == "type"
              c    == [[cur EXCEPT !.key = k] EXCEPT !.reserved = @ + cur.need]
  <2>2. Goes(cur.need, 0, 1, next, c) \/ Refuses(cur.need)
    BY <2>1 DEF Read, ReadFitting, Goes, Refuses, Unfit
  <2>3. /\ cur \in Readings /\ cur.need \in Nat
        /\ cur.reserved + cur.need \in Nat
    BY <1>2, Inputs DEF KeyBody, Typed, Counted, Readings
  <2>4. c \in Readings /\ c.entries = cur.entries /\ c.tensors = cur.tensors
      /\ c.reserved = cur.reserved + cur.need /\ c.table = cur.table
    BY <2>3 DEF Readings
  <2>5. next \in Fields /\ Counted(next, c)
    BY <1>2, <2>3 DEF KeyBody, Typed, Counted, Readings, Fields, TableFields
  <2>6. /\ LeastField(at, cur) = cur.need + 5 /\ LeastField(next, c) = 5
        /\ Outstanding(at, cur) = 0 /\ Outstanding(next, c) = 0
    BY <1>2, <2>3 DEF KeyBody, LeastField, Outstanding, Readings
  <2>. HIDE DEF next, c
  <2>7. {c.entries, c.tensors, c.reserved, cur.entries, cur.tensors, cur.reserved} \subseteq Nat
    BY <2>3, <2>4 DEF Readings
  <2>8. /\ LeastRest(next, c) + cur.need >= LeastRest(at, cur) /\ LeastRest(next, c) >= 0
        /\ c.reserved + Outstanding(at, cur) <= cur.reserved + cur.need + Outstanding(next, c)
        /\ Outstanding(next, c) <= Outstanding(at, cur)
    BY <2>3, <2>4, <2>6, <2>7 DEF LeastRest
  <2>9. Good(cur.need, 0, 1, next, c)
    BY <2>3, <2>4, <2>5, <2>8 DEF Good
  <2>10. cur.need \in Nat /\ 0 \in Nat /\ 1 \in Nat \ {0} /\ next \in Fields /\ c \in Readings
    BY <2>3, <2>4, <2>5
  <2>. QED
    BY <2>2, <2>9, <2>10, Reached
<1>3. CASE Type
  <2>1. PICK kind \in ValueTypes :
          Read(4, kind # Unknown,
               IF kind = Text THEN "text" ELSE IF kind = Array THEN "item.type"
               ELSE "scalar",
               [cur EXCEPT !.kind = kind])
    BY <1>3 DEF Type
  <2>. SUFFICES ASSUME kind # Unknown PROVE Advance \/ Refusal
    BY <2>1 DEF Read, ReadFitting, Refuses, Refusal
  <2>. DEFINE next == IF kind = Text THEN "text" ELSE IF kind = Array THEN "item.type"
                      ELSE "scalar"
              c    == [cur EXCEPT !.kind = kind]
  <2>2. Goes(4, 0, 1, next, c) \/ Refuses(4)
    BY <2>1 DEF Read, ReadFitting, Goes, Refuses, Unfit
  <2>3. /\ cur \in Readings
        /\ kind \in ValueTypes
        /\ kind \notin {Text, Array} => kind \in Scalars
        /\ \A k \in Scalars : k \in Nat /\ k >= 1
    BY <1>3, Inputs DEF Type, Typed, Counted, Readings, ValueTypes, Scalars
  <2>4. c \in Readings /\ c.entries = cur.entries /\ c.tensors = cur.tensors
      /\ c.reserved = cur.reserved /\ c.table = cur.table
    BY <2>3 DEF Readings
  <2>5. next \in Fields /\ Counted(next, c)
    BY <1>3, <2>3 DEF Type, Typed, Counted, Readings, Fields, TableFields
  <2>6. /\ LeastField(at, cur) = 5 /\ LeastField(next, c) \in Nat /\ LeastField(next, c) >= 1
        /\ Outstanding(at, cur) = 0 /\ Outstanding(next, c) = 0
    BY <1>3, <2>3 DEF Type, LeastField, Outstanding, Readings
  <2>. HIDE DEF next, c
  <2>7. {c.entries, c.tensors, c.reserved, cur.entries, cur.tensors, cur.reserved} \subseteq Nat
    BY <2>3, <2>4 DEF Readings
  <2>8. /\ LeastRest(next, c) + 4 >= LeastRest(at, cur) /\ LeastRest(next, c) >= 0
        /\ c.reserved + Outstanding(at, cur) <= cur.reserved + 4 + Outstanding(next, c)
        /\ Outstanding(next, c) <= Outstanding(at, cur)
    BY <2>3, <2>4, <2>6, <2>7 DEF LeastRest
  <2>9. Good(4, 0, 1, next, c)
    BY <2>3, <2>4, <2>5, <2>8 DEF Good
  <2>10. 4 \in Nat /\ 0 \in Nat /\ 1 \in Nat \ {0} /\ next \in Fields /\ c \in Readings
    BY <2>3, <2>4, <2>5
  <2>. QED
    BY <2>2, <2>9, <2>10, Reached
<1>. QED
  BY <1>1, <1>2, <1>3

(* A value that is not an array.                                          *)
LEMMA ValueFields ==
  ASSUME Typed, Scalar \/ TextValue \/ TextBody
  PROVE  Advance \/ Refusal
<1>1. CASE Scalar
  <2>1. PICK a \in IF cur.key = AlignmentKey THEN Alignments \cup {DefaultAlignment}
                     ELSE {cur.alignment} :
          Read(cur.kind, Fresh, AfterEntry, Inserted([cur EXCEPT !.alignment = a]))
    BY <1>1 DEF Scalar
  <2>. DEFINE next == AfterEntry
              c    == Inserted([cur EXCEPT !.alignment = a])
  <2>2. Goes(cur.kind, 0, 1, next, c) \/ Refuses(cur.kind)
    BY <2>1 DEF Read, ReadFitting, Goes, Refuses, Unfit
  <2>3. /\ cur \in Readings /\ a \in Nat /\ cur.kind \in Nat
        /\ cur.keys \cup {cur.key} \in SUBSET Keys
    BY SMTT(30), <1>1, Inputs DEF Scalar, Typed, Counted, Readings, Scalars
  <2>4. c \in Readings /\ c.entries = cur.entries /\ c.tensors = cur.tensors
      /\ c.reserved = cur.reserved /\ c.table = cur.table
    BY <2>3 DEF Readings, Inserted, AfterEntry
  <2>5. next \in Fields /\ Counted(next, c)
    BY <1>1, <2>3 DEF Scalar, Typed, Counted, Readings, Fields, TableFields, Inserted,
       AfterEntry
  <2>6. /\ LeastField(at, cur) = cur.kind /\ LeastField(next, c) = 0
        /\ Outstanding(at, cur) = 0 /\ Outstanding(next, c) = 0
    BY <1>1, <2>3 DEF Scalar, LeastField, Outstanding, Readings, Inserted, AfterEntry
  <2>. HIDE DEF next, c
  <2>7. {c.entries, c.tensors, c.reserved, cur.entries, cur.tensors, cur.reserved} \subseteq Nat
    BY <2>3, <2>4 DEF Readings
  <2>8. /\ LeastRest(next, c) + cur.kind >= LeastRest(at, cur) /\ LeastRest(next, c) >= 0
        /\ c.reserved + Outstanding(at, cur) <= cur.reserved + cur.kind + Outstanding(next, c)
        /\ Outstanding(next, c) <= Outstanding(at, cur)
    BY <2>3, <2>4, <2>6, <2>7 DEF LeastRest
  <2>9. Good(cur.kind, 0, 1, next, c)
    BY <2>3, <2>4, <2>5, <2>8 DEF Good
  <2>10. cur.kind \in Nat /\ 0 \in Nat /\ 1 \in Nat \ {0} /\ next \in Fields /\ c \in Readings
    BY <2>3, <2>4, <2>5
  <2>. QED
    BY <2>2, <2>9, <2>10, Reached
<1>2. CASE TextValue
  <2>1. PICK len \in Lengths :
          Read(8, len <= MaxString, "text.body", [cur EXCEPT !.need = len])
    BY <1>2 DEF TextValue, StringLength
  <2>. DEFINE next == "text.body"
              c    == [cur EXCEPT !.need = len]
  <2>2. Goes(8, 0, 1, next, c) \/ Refuses(8)
    BY <2>1 DEF Read, ReadFitting, Goes, Refuses, Unfit
  <2>3. /\ cur \in Readings /\ len \in Nat
    BY <1>2, Inputs DEF TextValue, Typed, Counted, Readings
  <2>4. c \in Readings /\ c.entries = cur.entries /\ c.tensors = cur.tensors
      /\ c.reserved = cur.reserved /\ c.table = cur.table
    BY <2>3 DEF Readings
  <2>5. next \in Fields /\ Counted(next, c)
    BY <1>2, <2>3 DEF TextValue, Typed, Counted, Readings, Fields, TableFields
  <2>6. /\ LeastField(at, cur) = 8 /\ LeastField(next, c) = len
        /\ Outstanding(at, cur) = 0 /\ Outstanding(next, c) = 0
    BY <1>2, <2>3 DEF TextValue, LeastField, Outstanding, Readings
  <2>. HIDE DEF next, c
  <2>7. {c.entries, c.tensors, c.reserved, cur.entries, cur.tensors, cur.reserved} \subseteq Nat
    BY <2>3, <2>4 DEF Readings
  <2>8. /\ LeastRest(next, c) + 8 >= LeastRest(at, cur) /\ LeastRest(next, c) >= 0
        /\ c.reserved + Outstanding(at, cur) <= cur.reserved + 8 + Outstanding(next, c)
        /\ Outstanding(next, c) <= Outstanding(at, cur)
    BY <2>3, <2>4, <2>6, <2>7 DEF LeastRest
  <2>9. Good(8, 0, 1, next, c)
    BY <2>3, <2>4, <2>5, <2>8 DEF Good
  <2>10. 8 \in Nat /\ 0 \in Nat /\ 1 \in Nat \ {0} /\ next \in Fields /\ c \in Readings
    BY <2>3, <2>4, <2>5
  <2>. QED
    BY <2>2, <2>9, <2>10, Reached
<1>3. CASE TextBody
  <2>1. PICK utf8 \in BOOLEAN :
          Read(cur.need, utf8 /\ Fresh, AfterEntry,
               [Inserted(cur) EXCEPT !.reserved = @ + cur.need])
    BY <1>3 DEF TextBody, StringBody
  <2>. DEFINE next == AfterEntry
              c    == [Inserted(cur) EXCEPT !.reserved = @ + cur.need]
  <2>2. Goes(cur.need, 0, 1, next, c) \/ Refuses(cur.need)
    BY <2>1 DEF Read, ReadFitting, Goes, Refuses, Unfit
  <2>3. /\ cur \in Readings /\ cur.need \in Nat
        /\ cur.reserved + cur.need \in Nat
        /\ cur.keys \cup {cur.key} \in SUBSET Keys
    BY <1>3, Inputs DEF TextBody, Typed, Counted, Readings
  <2>4. c \in Readings /\ c.entries = cur.entries /\ c.tensors = cur.tensors
      /\ c.reserved = cur.reserved + cur.need /\ c.table = cur.table
    BY <2>3 DEF Readings, Inserted, AfterEntry
  <2>5. next \in Fields /\ Counted(next, c)
    BY <1>3, <2>3 DEF TextBody, Typed, Counted, Readings, Fields, TableFields, Inserted,
       AfterEntry
  <2>6. /\ LeastField(at, cur) = cur.need /\ LeastField(next, c) = 0
        /\ Outstanding(at, cur) = 0 /\ Outstanding(next, c) = 0
    BY <1>3, <2>3 DEF TextBody, LeastField, Outstanding, Readings, Inserted, AfterEntry
  <2>. HIDE DEF next, c
  <2>7. {c.entries, c.tensors, c.reserved, cur.entries, cur.tensors, cur.reserved} \subseteq Nat
    BY <2>3, <2>4 DEF Readings
  <2>8. /\ LeastRest(next, c) + cur.need >= LeastRest(at, cur) /\ LeastRest(next, c) >= 0
        /\ c.reserved + Outstanding(at, cur) <= cur.reserved + cur.need + Outstanding(next, c)
        /\ Outstanding(next, c) <= Outstanding(at, cur)
    BY <2>3, <2>4, <2>6, <2>7 DEF LeastRest
  <2>9. Good(cur.need, 0, 1, next, c)
    BY <2>3, <2>4, <2>5, <2>8 DEF Good
  <2>10. cur.need \in Nat /\ 0 \in Nat /\ 1 \in Nat \ {0} /\ next \in Fields /\ c \in Readings
    BY <2>3, <2>4, <2>5
  <2>. QED
    BY <2>2, <2>9, <2>10, Reached
<1>. QED
  BY <1>1, <1>2, <1>3

(* The type of an array and its count.                                     *)
LEMMA ArrayFields ==
  ASSUME Typed, ItemType \/ NestedArray \/ ItemCount
  PROVE  Advance \/ Refusal
<1>1. CASE ItemType
  <2>1. PICK kind \in ValueTypes :
          Read(4, kind # Unknown, "item.count", [cur EXCEPT !.kind = kind])
    BY <1>1 DEF ItemType
  <2>. SUFFICES ASSUME kind # Unknown PROVE Advance \/ Refusal
    BY <2>1 DEF Read, ReadFitting, Refuses, Refusal
  <2>. DEFINE next == "item.count"
              c    == [cur EXCEPT !.kind = kind]
  <2>2. Goes(4, 0, 1, next, c) \/ Refuses(4)
    BY <2>1 DEF Read, ReadFitting, Goes, Refuses, Unfit
  <2>3. /\ cur \in Readings
        /\ kind \in ValueTypes
    BY <1>1, Inputs DEF ItemType, Typed, Counted, Readings
  <2>4. c \in Readings /\ c.entries = cur.entries /\ c.tensors = cur.tensors
      /\ c.reserved = cur.reserved /\ c.table = cur.table
    BY <2>3 DEF Readings
  <2>5. next \in Fields /\ Counted(next, c)
    BY <1>1, <2>3 DEF ItemType, Typed, Counted, Readings, Fields, TableFields
  <2>6. /\ LeastField(at, cur) = 12 /\ LeastField(next, c) = 8
        /\ Outstanding(at, cur) = 0 /\ Outstanding(next, c) = 0
    BY <1>1, <2>3 DEF ItemType, LeastField, Outstanding, Readings
  <2>. HIDE DEF next, c
  <2>7. {c.entries, c.tensors, c.reserved, cur.entries, cur.tensors, cur.reserved} \subseteq Nat
    BY <2>3, <2>4 DEF Readings
  <2>8. /\ LeastRest(next, c) + 4 >= LeastRest(at, cur) /\ LeastRest(next, c) >= 0
        /\ c.reserved + Outstanding(at, cur) <= cur.reserved + 4 + Outstanding(next, c)
        /\ Outstanding(next, c) <= Outstanding(at, cur)
    BY <2>3, <2>4, <2>6, <2>7 DEF LeastRest
  <2>9. Good(4, 0, 1, next, c)
    BY <2>3, <2>4, <2>5, <2>8 DEF Good
  <2>10. 4 \in Nat /\ 0 \in Nat /\ 1 \in Nat \ {0} /\ next \in Fields /\ c \in Readings
    BY <2>3, <2>4, <2>5
  <2>. QED
    BY <2>2, <2>9, <2>10, Reached
<1>2. CASE NestedArray
  <2>1. Refuses(8)
    BY <1>2 DEF NestedArray, Read, ReadFitting, Refuses
  <2>. QED
    BY <2>1 DEF Refusal
<1>3. CASE ItemCount
  <2>1. PICK n \in Counts :
          ReadFitting(8, n <= MaxArray /\ (n = 0 => Fresh), n, ItemSize(cur.kind), AfterItem(n),
                      Kept(n, [cur EXCEPT !.reserved = @ + n * ItemSize(cur.kind)]))
    BY <1>3 DEF ItemCount
  <2>. DEFINE next == AfterItem(n)
              c    == Kept(n, [cur EXCEPT !.reserved = @ + n * ItemSize(cur.kind)])
  <2>2. Goes(8, n, ItemSize(cur.kind), next, c) \/ Refuses(8)
    BY <2>1 DEF ReadFitting, Goes, Refuses, Unfit
  <2>3. /\ cur \in Readings /\ n \in Nat
        /\ cur.kind \in Scalars \cup {Text}
        /\ ItemSize(cur.kind) \in Nat \ {0} /\ n * ItemSize(cur.kind) \in Nat
        /\ n = 0 => n * ItemSize(cur.kind) = 0
        /\ cur.reserved + n * ItemSize(cur.kind) \in Nat
        /\ cur.keys \cup {cur.key} \in SUBSET Keys
    <3>1. cur \in Readings /\ at = "item.count" /\ Counted(at, cur)
      BY <1>3 DEF ItemCount, Typed
    <3>2. cur.kind \in Scalars \cup {Text} /\ n \in Nat
      BY <1>3, <3>1, Inputs DEF ItemCount, Counted, Readings, ValueTypes
    <3>3. ItemSize(cur.kind) \in Nat \ {0} /\ n * ItemSize(cur.kind) \in Nat
      BY <3>2, AnArray
    <3>4. n = 0 => n * ItemSize(cur.kind) = 0
      BY <3>3
    <3>5. cur.reserved \in Nat /\ cur.keys \cup {cur.key} \in SUBSET Keys
      BY <3>1 DEF Readings
    <3>. QED
      BY <3>1, <3>2, <3>3, <3>4, <3>5
  <2>4. c \in Readings /\ c.entries = cur.entries /\ c.tensors = cur.tensors
      /\ c.reserved = cur.reserved + n * ItemSize(cur.kind) /\ c.table = cur.table
    BY <2>3 DEF Readings, Kept, Inserted, AfterItem, AfterEntry
  <2>5. next \in Fields /\ Counted(next, c)
    BY <1>3, <2>3 DEF ItemCount, Typed, Counted, Readings, Fields, TableFields, Kept,
       Inserted, AfterItem, AfterEntry
  <2>6. /\ LeastField(at, cur) = 8
        /\ LeastField(next, c) = n * ItemSize(cur.kind)
        /\ Outstanding(at, cur) = 0
        /\ Outstanding(next, c) = n * ItemSize(cur.kind)
    <3>1. /\ c.kind = cur.kind /\ c.items = n
      BY <2>3 DEF Readings, Kept, Inserted, AfterItem, AfterEntry
    <3>2. at = "item.count" /\ next = IF n > 0 THEN "item" ELSE IF cur.entries > 0 THEN "key" ELSE "alignment"
      BY <1>3 DEF ItemCount, Kept, Inserted, AfterItem, AfterEntry
    <3>. HIDE DEF next, c
    <3>3. CASE n > 0
      BY <2>3, <3>1, <3>2, <3>3 DEF LeastField, Outstanding
    <3>4. CASE n = 0
      BY <2>3, <3>1, <3>2, <3>4 DEF LeastField, Outstanding
    <3>5. (n > 0) \/ (n = 0)
      BY <2>3
    <3>. QED
      BY <3>3, <3>4, <3>5
  <2>. HIDE DEF next, c
  <2>7. {c.entries, c.tensors, c.reserved, cur.entries, cur.tensors, cur.reserved} \subseteq Nat
    BY <2>3, <2>4 DEF Readings
  <2>8. /\ LeastRest(next, c) + 8 >= LeastRest(at, cur) /\ LeastRest(next, c) >= n * ItemSize(cur.kind)
        /\ c.reserved + Outstanding(at, cur) <= cur.reserved + 8 + Outstanding(next, c)
        /\ Outstanding(next, c) <= n * ItemSize(cur.kind)
    BY <2>3, <2>4, <2>6, <2>7 DEF LeastRest
  <2>9. Good(8, n, ItemSize(cur.kind), next, c)
    BY <2>3, <2>4, <2>5, <2>8 DEF Good
  <2>10. 8 \in Nat /\ n \in Nat /\ ItemSize(cur.kind) \in Nat \ {0} /\ next \in Fields /\ c \in Readings
    BY <2>3, <2>4, <2>5
  <2>. QED
    BY <2>2, <2>9, <2>10, Reached
<1>. QED
  BY <1>1, <1>2, <1>3

(* An element of an array.                                                *)
LEMMA ItemFields ==
  ASSUME Typed, Item \/ ItemText \/ ItemBody
  PROVE  Advance \/ Refusal
<1>1. CASE Item
  <2>. DEFINE next == AfterItem(cur.items - 1)
              c    == Kept(cur.items - 1, cur)
  <2>2. Goes(cur.kind, 0, 1, next, c) \/ Refuses(cur.kind)
    BY <1>1 DEF Item, Read, ReadFitting, Goes, Refuses, Unfit
  <2>3. /\ cur \in Readings
        /\ cur.items - 1 \in Nat /\ cur.kind \in Nat
        /\ ItemSize(cur.kind) = cur.kind
        /\ (cur.items - 1) * ItemSize(cur.kind) \in Nat
        /\ cur.items * ItemSize(cur.kind) \in Nat
        /\ (cur.items - 1) * ItemSize(cur.kind) + ItemSize(cur.kind) = cur.items * ItemSize(cur.kind)
        /\ cur.items - 1 = 0 => (cur.items - 1) * ItemSize(cur.kind) = 0
        /\ cur.keys \cup {cur.key} \in SUBSET Keys
        /\ cur.kind \in Scalars \cup {Text}
    <3>1. cur \in Readings /\ at = "item" /\ Counted(at, cur)
      BY <1>1 DEF Item, Typed
    <3>2. cur.items - 1 \in Nat /\ cur.items \in Nat /\ cur.items > 0
      BY <3>1 DEF Counted, Readings
    <3>3. /\ cur.kind \in Scalars /\ cur.kind \in Scalars \cup {Text} /\ cur.kind \in Nat
          /\ cur.kind # Text
      BY <1>1, <3>1 DEF Item, Counted, Scalars
    <3>4. ItemSize(cur.kind) = cur.kind
      BY <3>3, AnArray
    <3>5. cur.items * ItemSize(cur.kind) \in Nat /\ (cur.items - 1) * ItemSize(cur.kind) \in Nat
      BY <3>2, <3>3, AnArray
    <3>6. (cur.items - 1) * ItemSize(cur.kind) + ItemSize(cur.kind) = cur.items * ItemSize(cur.kind)
      BY <3>2, <3>3, AnArray
    <3>7. cur.items - 1 = 0 => (cur.items - 1) * ItemSize(cur.kind) = 0
      BY <3>3, <3>4
    <3>8. cur.keys \cup {cur.key} \in SUBSET Keys
      BY <3>1 DEF Readings
    <3>. QED
      BY <3>1, <3>2, <3>3, <3>4, <3>5, <3>6, <3>7, <3>8
  <2>4. c \in Readings /\ c.entries = cur.entries /\ c.tensors = cur.tensors
      /\ c.reserved = cur.reserved /\ c.table = cur.table
    BY <2>3 DEF Readings, Kept, Inserted, AfterItem, AfterEntry
  <2>5. next \in Fields /\ Counted(next, c)
    BY <1>1, <2>3 DEF Item, Typed, Counted, Readings, Fields, TableFields, Kept,
       Inserted, AfterItem, AfterEntry
  <2>6. /\ LeastField(at, cur) = cur.items * ItemSize(cur.kind)
        /\ LeastField(next, c) = (cur.items - 1) * ItemSize(cur.kind)
        /\ Outstanding(at, cur) = cur.items * ItemSize(cur.kind)
        /\ Outstanding(next, c) = (cur.items - 1) * ItemSize(cur.kind)
    <3>1. /\ c.kind = cur.kind /\ c.items = cur.items - 1
      BY <2>3 DEF Readings, Kept, Inserted, AfterItem, AfterEntry
    <3>2. at = "item" /\ next = IF cur.items - 1 > 0 THEN "item"
                                ELSE IF cur.entries > 0 THEN "key" ELSE "alignment"
      BY <1>1 DEF Item, Kept, Inserted, AfterItem, AfterEntry
    <3>. HIDE DEF next, c
    <3>3. CASE cur.items - 1 > 0
      BY <2>3, <3>1, <3>2, <3>3 DEF LeastField, Outstanding
    <3>4. CASE cur.items - 1 = 0
      BY <2>3, <3>1, <3>2, <3>4 DEF LeastField, Outstanding
    <3>5. (cur.items - 1 > 0) \/ (cur.items - 1 = 0)
      BY <1>1 DEF Item, Typed, Counted, Readings
    <3>. QED
      BY <3>3, <3>4, <3>5
  <2>. HIDE DEF next, c
  <2>7. {c.entries, c.tensors, c.reserved, cur.entries, cur.tensors, cur.reserved} \subseteq Nat
    BY <2>3, <2>4 DEF Readings
  <2>8. /\ LeastRest(next, c) + cur.kind >= LeastRest(at, cur) /\ LeastRest(next, c) >= 0
        /\ c.reserved + Outstanding(at, cur) <= cur.reserved + cur.kind + Outstanding(next, c)
        /\ Outstanding(next, c) <= Outstanding(at, cur)
    BY <2>3, <2>4, <2>6, <2>7 DEF LeastRest
  <2>9. Good(cur.kind, 0, 1, next, c)
    BY <2>3, <2>4, <2>5, <2>8 DEF Good
  <2>10. cur.kind \in Nat /\ 0 \in Nat /\ 1 \in Nat \ {0} /\ next \in Fields /\ c \in Readings
    BY <2>3, <2>4, <2>5
  <2>. QED
    BY <2>2, <2>9, <2>10, Reached
<1>2. CASE ItemText
  <2>1. PICK len \in Lengths :
          Read(8, len <= MaxString, "item.body",
               [[cur EXCEPT !.items = @ - 1] EXCEPT !.need = len])
    BY <1>2 DEF ItemText, StringLength
  <2>. DEFINE next == "item.body"
              c    == [[cur EXCEPT !.items = @ - 1] EXCEPT !.need = len]
  <2>2. Goes(8, 0, 1, next, c) \/ Refuses(8)
    BY <2>1 DEF Read, ReadFitting, Goes, Refuses, Unfit
  <2>3. /\ cur \in Readings /\ len \in Nat /\ cur.items \in Nat
        /\ cur.items - 1 \in Nat
        /\ cur.kind = Text /\ ItemSize(Text) = 8
    BY <1>2, Inputs, AnArray DEF ItemText, Typed, Counted, Readings
  <2>4. c \in Readings /\ c.entries = cur.entries /\ c.tensors = cur.tensors
      /\ c.reserved = cur.reserved /\ c.table = cur.table
    BY <2>3 DEF Readings
  <2>5. next \in Fields /\ Counted(next, c)
    BY <1>2, <2>3 DEF ItemText, Typed, Counted, Readings, Fields, TableFields
  <2>6. /\ LeastField(at, cur) = cur.items * 8
        /\ LeastField(next, c) = len + (cur.items - 1) * 8
        /\ Outstanding(at, cur) = cur.items * 8
        /\ Outstanding(next, c) = (cur.items - 1) * 8
    BY <1>2, <2>3, AnArray DEF ItemText, LeastField, Outstanding, Readings
  <2>. HIDE DEF next, c
  <2>7. {c.entries, c.tensors, c.reserved, cur.entries, cur.tensors, cur.reserved} \subseteq Nat
    BY <2>3, <2>4 DEF Readings
  <2>8. /\ LeastRest(next, c) + 8 >= LeastRest(at, cur) /\ LeastRest(next, c) >= 0
        /\ c.reserved + Outstanding(at, cur) <= cur.reserved + 8 + Outstanding(next, c)
        /\ Outstanding(next, c) <= Outstanding(at, cur)
    BY <2>3, <2>4, <2>6, <2>7 DEF LeastRest
  <2>9. Good(8, 0, 1, next, c)
    BY <2>3, <2>4, <2>5, <2>8 DEF Good
  <2>10. 8 \in Nat /\ 0 \in Nat /\ 1 \in Nat \ {0} /\ next \in Fields /\ c \in Readings
    BY <2>3, <2>4, <2>5
  <2>. QED
    BY <2>2, <2>9, <2>10, Reached
<1>3. CASE ItemBody
  <2>1. PICK utf8 \in BOOLEAN :
          Read(cur.need, utf8 /\ (cur.items = 0 => Fresh), AfterItem(cur.items),
               [Kept(cur.items, cur) EXCEPT !.reserved = @ + cur.need])
    BY <1>3 DEF ItemBody, StringBody
  <2>. DEFINE next == AfterItem(cur.items)
              c    == [Kept(cur.items, cur) EXCEPT !.reserved = @ + cur.need]
  <2>2. Goes(cur.need, 0, 1, next, c) \/ Refuses(cur.need)
    BY <2>1 DEF Read, ReadFitting, Goes, Refuses, Unfit
  <2>3. /\ cur \in Readings /\ cur.need \in Nat /\ cur.items \in Nat
        /\ cur.reserved + cur.need \in Nat
        /\ cur.kind = Text /\ ItemSize(Text) = 8
        /\ cur.keys \cup {cur.key} \in SUBSET Keys
    BY <1>3, Inputs, AnArray DEF ItemBody, Typed, Counted, Readings
  <2>4. c \in Readings /\ c.entries = cur.entries /\ c.tensors = cur.tensors
      /\ c.reserved = cur.reserved + cur.need /\ c.table = cur.table
    BY <2>3 DEF Readings, Kept, Inserted, AfterItem, AfterEntry
  <2>5. next \in Fields /\ Counted(next, c)
    BY <1>3, <2>3 DEF ItemBody, Typed, Counted, Readings, Fields, TableFields, Kept,
       Inserted, AfterItem, AfterEntry
  <2>6. /\ LeastField(at, cur) = cur.need + cur.items * 8
        /\ LeastField(next, c) = cur.items * 8
        /\ Outstanding(at, cur) = cur.items * 8
        /\ Outstanding(next, c) = cur.items * 8
    BY <1>3, <2>3, AnArray DEF ItemBody, LeastField, Outstanding, Readings, Kept,
       Inserted, AfterItem, AfterEntry
  <2>. HIDE DEF next, c
  <2>7. {c.entries, c.tensors, c.reserved, cur.entries, cur.tensors, cur.reserved} \subseteq Nat
    BY <2>3, <2>4 DEF Readings
  <2>8. /\ LeastRest(next, c) + cur.need >= LeastRest(at, cur) /\ LeastRest(next, c) >= 0
        /\ c.reserved + Outstanding(at, cur) <= cur.reserved + cur.need + Outstanding(next, c)
        /\ Outstanding(next, c) <= Outstanding(at, cur)
    BY <2>3, <2>4, <2>6, <2>7 DEF LeastRest
  <2>9. Good(cur.need, 0, 1, next, c)
    BY <2>3, <2>4, <2>5, <2>8 DEF Good
  <2>10. cur.need \in Nat /\ 0 \in Nat /\ 1 \in Nat \ {0} /\ next \in Fields /\ c \in Readings
    BY <2>3, <2>4, <2>5
  <2>. QED
    BY <2>2, <2>9, <2>10, Reached
<1>. QED
  BY <1>1, <1>2, <1>3

(* The alignment, and the name of a tensor.                                *)
LEMMA NameFields ==
  ASSUME Typed, Alignment \/ Name \/ NameBody
  PROVE  Advance \/ Refusal
<1>1. CASE Alignment
  <2>. SUFFICES ASSUME cur.alignment # 0 PROVE Advance \/ Refusal
    BY <1>1 DEF Alignment, ReadFitting, Refuses, Refusal
  <2>. DEFINE next == AfterTensor
              c    == [cur EXCEPT !.reserved = @ + cur.tensors * 20]
  <2>2. Goes(0, cur.tensors, 20, next, c) \/ Refuses(0)
    BY <1>1 DEF Alignment, ReadFitting, Goes, Refuses, Unfit
  <2>3. /\ cur \in Readings
        /\ cur.tensors \in Nat
        /\ cur.reserved + cur.tensors * 20 \in Nat /\ cur.alignment > 0
    BY <1>1, Inputs DEF Alignment, Typed, Counted, Readings
  <2>4. c \in Readings /\ c.entries = cur.entries /\ c.tensors = cur.tensors
      /\ c.reserved = cur.reserved + cur.tensors * 20 /\ c.table = cur.table
    BY <2>3 DEF Readings, AfterTensor
  <2>5. next \in Fields /\ Counted(next, c)
    BY <1>1, <2>3 DEF Alignment, Typed, Counted, Readings, Fields, TableFields,
       AfterTensor
  <2>6. /\ LeastField(at, cur) = 0
        /\ LeastField(next, c) = 0
        /\ Outstanding(at, cur) = 0
        /\ Outstanding(next, c) = cur.tensors * 20
    BY <1>1, <2>3 DEF Alignment, LeastField, Outstanding, Readings, AfterTensor
  <2>. HIDE DEF next, c
  <2>7. {c.entries, c.tensors, c.reserved, cur.entries, cur.tensors, cur.reserved} \subseteq Nat
    BY <2>3, <2>4 DEF Readings
  <2>8. /\ LeastRest(next, c) + 0 >= LeastRest(at, cur) /\ LeastRest(next, c) >= cur.tensors * 20
        /\ c.reserved + Outstanding(at, cur) <= cur.reserved + 0 + Outstanding(next, c)
        /\ Outstanding(next, c) <= cur.tensors * 20
    BY <2>3, <2>4, <2>6, <2>7 DEF LeastRest
  <2>9. Good(0, cur.tensors, 20, next, c)
    BY <2>3, <2>4, <2>5, <2>8 DEF Good
  <2>10. 0 \in Nat /\ cur.tensors \in Nat /\ 20 \in Nat \ {0} /\ next \in Fields /\ c \in Readings
    BY <2>3, <2>4, <2>5
  <2>. QED
    BY <2>2, <2>9, <2>10, Reached
<1>2. CASE Name
  <2>1. PICK len \in Lengths :
          Read(8, len <= MaxString, "name.body",
               [[cur EXCEPT !.tensors = @ - 1] EXCEPT !.need = len])
    BY <1>2 DEF Name, StringLength
  <2>. DEFINE next == "name.body"
              c    == [[cur EXCEPT !.tensors = @ - 1] EXCEPT !.need = len]
  <2>2. Goes(8, 0, 1, next, c) \/ Refuses(8)
    BY <2>1 DEF Read, ReadFitting, Goes, Refuses, Unfit
  <2>3. /\ cur \in Readings /\ len \in Nat
        /\ cur.tensors - 1 \in Nat
    BY <1>2, Inputs DEF Name, Typed, Counted, Readings
  <2>4. c \in Readings /\ c.entries = cur.entries /\ c.tensors = cur.tensors - 1
      /\ c.reserved = cur.reserved /\ c.table = cur.table
    BY <2>3 DEF Readings
  <2>5. next \in Fields /\ Counted(next, c)
    BY <1>2, <2>3 DEF Name, Typed, Counted, Readings, Fields, TableFields
  <2>6. /\ LeastField(at, cur) = 0
        /\ LeastField(next, c) = len + 16
        /\ Outstanding(at, cur) = cur.tensors * 20
        /\ Outstanding(next, c) = (cur.tensors - 1) * 20 + 12
    BY <1>2, <2>3 DEF Name, LeastField, Outstanding, Readings
  <2>. HIDE DEF next, c
  <2>7. {c.entries, c.tensors, c.reserved, cur.entries, cur.tensors, cur.reserved} \subseteq Nat
    BY <2>3, <2>4 DEF Readings
  <2>8. /\ LeastRest(next, c) + 8 >= LeastRest(at, cur) /\ LeastRest(next, c) >= 0
        /\ c.reserved + Outstanding(at, cur) <= cur.reserved + 8 + Outstanding(next, c)
        /\ Outstanding(next, c) <= Outstanding(at, cur)
    BY <2>3, <2>4, <2>6, <2>7 DEF LeastRest
  <2>9. Good(8, 0, 1, next, c)
    BY <2>3, <2>4, <2>5, <2>8 DEF Good
  <2>10. 8 \in Nat /\ 0 \in Nat /\ 1 \in Nat \ {0} /\ next \in Fields /\ c \in Readings
    BY <2>3, <2>4, <2>5
  <2>. QED
    BY <2>2, <2>9, <2>10, Reached
<1>3. CASE NameBody
  <2>1. PICK m \in Names, utf8 \in BOOLEAN :
          Read(cur.need, utf8 /\ TRUE, "n_dims",
               [[cur EXCEPT !.name = m, !.shape = <<>>] EXCEPT !.reserved = @ + cur.need])
    BY <1>3 DEF NameBody, StringBody
  <2>. DEFINE next == "n_dims"
              c    == [[cur EXCEPT !.name = m, !.shape = <<>>] EXCEPT !.reserved = @ + cur.need]
  <2>2. Goes(cur.need, 0, 1, next, c) \/ Refuses(cur.need)
    BY <2>1 DEF Read, ReadFitting, Goes, Refuses, Unfit
  <2>3. /\ cur \in Readings /\ cur.need \in Nat
        /\ cur.reserved + cur.need \in Nat /\ <<>> \in Seq(Nat)
    <3>1. cur \in Readings /\ at = "name.body" /\ Counted(at, cur)
      BY <1>3 DEF NameBody, Typed
    <3>2. cur.need \in Nat /\ cur.reserved \in Nat
      BY <3>1 DEF Readings
    <3>3. <<>> \in Seq(Nat)
      BY EmptySeq
    <3>. QED
      BY <3>1, <3>2, <3>3
  <2>4. c \in Readings /\ c.entries = cur.entries /\ c.tensors = cur.tensors
      /\ c.reserved = cur.reserved + cur.need /\ c.table = cur.table
    BY <2>3 DEF Readings
  <2>5. next \in Fields /\ Counted(next, c)
    BY <1>3, <2>3 DEF NameBody, Typed, Counted, Readings, Fields, TableFields
  <2>6. /\ LeastField(at, cur) = cur.need + 16
        /\ LeastField(next, c) = 16
        /\ Outstanding(at, cur) = cur.tensors * 20 + 12
        /\ Outstanding(next, c) = cur.tensors * 20 + 12
    BY <1>3, <2>3 DEF NameBody, LeastField, Outstanding, Readings
  <2>. HIDE DEF next, c
  <2>7. {c.entries, c.tensors, c.reserved, cur.entries, cur.tensors, cur.reserved} \subseteq Nat
    BY <2>3, <2>4 DEF Readings
  <2>8. /\ LeastRest(next, c) + cur.need >= LeastRest(at, cur) /\ LeastRest(next, c) >= 0
        /\ c.reserved + Outstanding(at, cur) <= cur.reserved + cur.need + Outstanding(next, c)
        /\ Outstanding(next, c) <= Outstanding(at, cur)
    BY <2>3, <2>4, <2>6, <2>7 DEF LeastRest
  <2>9. Good(cur.need, 0, 1, next, c)
    BY <2>3, <2>4, <2>5, <2>8 DEF Good
  <2>10. cur.need \in Nat /\ 0 \in Nat /\ 1 \in Nat \ {0} /\ next \in Fields /\ c \in Readings
    BY <2>3, <2>4, <2>5
  <2>. QED
    BY <2>2, <2>9, <2>10, Reached
<1>. QED
  BY <1>1, <1>2, <1>3

(* The shape and the format of a tensor.                                   *)
LEMMA ShapeFields ==
  ASSUME Typed, Dims \/ Dim \/ Dtype
  PROVE  Advance \/ Refusal
<1>1. CASE Dims
  <2>1. PICK n \in Counts :
          Read(4, n <= MaxDims, AfterDim(n), [cur EXCEPT !.dims = n])
    BY <1>1 DEF Dims
  <2>. DEFINE next == AfterDim(n)
              c    == [cur EXCEPT !.dims = n]
  <2>2. Goes(4, 0, 1, next, c) \/ Refuses(4)
    BY <2>1 DEF Read, ReadFitting, Goes, Refuses, Unfit
  <2>3. /\ cur \in Readings /\ n \in Nat
        /\ cur.tensors \in Nat
    BY <1>1, Inputs DEF Dims, Typed, Counted, Readings
  <2>4. c \in Readings /\ c.entries = cur.entries /\ c.tensors = cur.tensors
      /\ c.reserved = cur.reserved /\ c.table = cur.table
    BY <2>3 DEF Readings, AfterDim
  <2>5. next \in Fields /\ Counted(next, c)
    BY <1>1, <2>3 DEF Dims, Typed, Counted, Readings, Fields, TableFields, AfterDim
  <2>6. /\ LeastField(at, cur) = 16
        /\ LeastField(next, c) = n * 8 + 12
        /\ Outstanding(at, cur) = cur.tensors * 20 + 12
        /\ Outstanding(next, c) = cur.tensors * 20 + 8
    BY <1>1, <2>3 DEF Dims, LeastField, Outstanding, Readings, AfterDim
  <2>. HIDE DEF next, c
  <2>7. {c.entries, c.tensors, c.reserved, cur.entries, cur.tensors, cur.reserved} \subseteq Nat
    BY <2>3, <2>4 DEF Readings
  <2>8. /\ LeastRest(next, c) + 4 >= LeastRest(at, cur) /\ LeastRest(next, c) >= 0
        /\ c.reserved + Outstanding(at, cur) <= cur.reserved + 4 + Outstanding(next, c)
        /\ Outstanding(next, c) <= Outstanding(at, cur)
    BY <2>3, <2>4, <2>6, <2>7 DEF LeastRest
  <2>9. Good(4, 0, 1, next, c)
    BY <2>3, <2>4, <2>5, <2>8 DEF Good
  <2>10. 4 \in Nat /\ 0 \in Nat /\ 1 \in Nat \ {0} /\ next \in Fields /\ c \in Readings
    BY <2>3, <2>4, <2>5
  <2>. QED
    BY <2>2, <2>9, <2>10, Reached
<1>2. CASE Dim
  <2>1. PICK extent \in Extents :
          Read(8, TRUE, AfterDim(cur.dims - 1),
               [cur EXCEPT !.dims = @ - 1, !.shape = Append(@, extent)])
    BY <1>2 DEF Dim
  <2>. DEFINE next == AfterDim(cur.dims - 1)
              c    == [cur EXCEPT !.dims = @ - 1, !.shape = Append(@, extent)]
  <2>2. Goes(8, 0, 1, next, c) \/ Refuses(8)
    BY <2>1 DEF Read, ReadFitting, Goes, Refuses, Unfit
  <2>3. /\ cur \in Readings /\ cur.dims \in Nat
        /\ cur.dims - 1 \in Nat
        /\ cur.tensors \in Nat
        /\ Append(cur.shape, extent) \in Seq(Nat) /\ extent \in Nat
    <3>1. cur \in Readings /\ at = "dim" /\ Counted(at, cur)
      BY <1>2 DEF Dim, Typed
    <3>2. cur.dims \in Nat /\ cur.dims - 1 \in Nat
          /\ cur.tensors \in Nat /\ cur.shape \in Seq(Nat)
      BY <3>1 DEF Counted, Readings
    <3>3. extent \in Nat
      BY Inputs
    <3>4. Append(cur.shape, extent) \in Seq(Nat)
      BY <3>2, <3>3
    <3>. QED
      BY <3>1, <3>2, <3>3, <3>4
  <2>4. c \in Readings /\ c.entries = cur.entries /\ c.tensors = cur.tensors
      /\ c.reserved = cur.reserved /\ c.table = cur.table
    BY <2>3 DEF Readings, AfterDim
  <2>5. next \in Fields /\ Counted(next, c)
    BY <1>2, <2>3 DEF Dim, Typed, Counted, Readings, Fields, TableFields, AfterDim
  <2>6. /\ LeastField(at, cur) = cur.dims * 8 + 12
        /\ LeastField(next, c) = (cur.dims - 1) * 8 + 12
        /\ Outstanding(at, cur) = cur.tensors * 20 + 8
        /\ Outstanding(next, c) = cur.tensors * 20 + 8
    <3>1. /\ c.dims = cur.dims - 1 /\ c.tensors = cur.tensors
      BY <2>3 DEF Readings, AfterDim
    <3>2. at = "dim" /\ next = IF cur.dims - 1 > 0 THEN "dim" ELSE "dtype"
      BY <1>2 DEF Dim, AfterDim
    <3>. HIDE DEF next, c
    <3>3. CASE cur.dims - 1 > 0
      BY <2>3, <3>1, <3>2, <3>3 DEF LeastField, Outstanding
    <3>4. CASE cur.dims - 1 = 0
      BY <2>3, <3>1, <3>2, <3>4 DEF LeastField, Outstanding
    <3>5. (cur.dims - 1 > 0) \/ (cur.dims - 1 = 0)
      BY <2>3
    <3>. QED
      BY <3>3, <3>4, <3>5
  <2>. HIDE DEF next, c
  <2>7. {c.entries, c.tensors, c.reserved, cur.entries, cur.tensors, cur.reserved} \subseteq Nat
    BY <2>3, <2>4 DEF Readings
  <2>8. /\ LeastRest(next, c) + 8 >= LeastRest(at, cur) /\ LeastRest(next, c) >= 0
        /\ c.reserved + Outstanding(at, cur) <= cur.reserved + 8 + Outstanding(next, c)
        /\ Outstanding(next, c) <= Outstanding(at, cur)
    <3>1. cur.dims \in Nat /\ cur.tensors \in Nat
      BY <2>3
    <3>2. /\ c.entries = cur.entries /\ c.tensors = cur.tensors /\ c.reserved = cur.reserved
          /\ cur.entries \in Nat /\ cur.reserved \in Nat
      BY <2>4, <2>7
    <3>. QED
      BY <2>6, <3>1, <3>2 DEF LeastRest
  <2>9. Good(8, 0, 1, next, c)
    BY <2>3, <2>4, <2>5, <2>8 DEF Good
  <2>10. 8 \in Nat /\ 0 \in Nat /\ 1 \in Nat \ {0} /\ next \in Fields /\ c \in Readings
    BY <2>3, <2>4, <2>5
  <2>. QED
    BY <2>2, <2>9, <2>10, Reached
<1>3. CASE Dtype
  <2>1. PICK d \in Dtypes, known \in BOOLEAN :
          Read(4, known, "offset", [cur EXCEPT !.dtype = d])
    BY <1>3 DEF Dtype
  <2>. DEFINE next == "offset"
              c    == [cur EXCEPT !.dtype = d]
  <2>2. Goes(4, 0, 1, next, c) \/ Refuses(4)
    BY <2>1 DEF Read, ReadFitting, Goes, Refuses, Unfit
  <2>3. /\ cur \in Readings /\ d \in Formats
        /\ cur.tensors \in Nat
    BY <1>3, Inputs DEF Dtype, Typed, Counted, Readings
  <2>4. c \in Readings /\ c.entries = cur.entries /\ c.tensors = cur.tensors
      /\ c.reserved = cur.reserved /\ c.table = cur.table
    BY <2>3 DEF Readings
  <2>5. next \in Fields /\ Counted(next, c)
    BY <1>3, <2>3 DEF Dtype, Typed, Counted, Readings, Fields, TableFields
  <2>6. /\ LeastField(at, cur) = 12
        /\ LeastField(next, c) = 8
        /\ Outstanding(at, cur) = cur.tensors * 20 + 8
        /\ Outstanding(next, c) = cur.tensors * 20 + 4
    BY <1>3, <2>3 DEF Dtype, LeastField, Outstanding, Readings
  <2>. HIDE DEF next, c
  <2>7. {c.entries, c.tensors, c.reserved, cur.entries, cur.tensors, cur.reserved} \subseteq Nat
    BY <2>3, <2>4 DEF Readings
  <2>8. /\ LeastRest(next, c) + 4 >= LeastRest(at, cur) /\ LeastRest(next, c) >= 0
        /\ c.reserved + Outstanding(at, cur) <= cur.reserved + 4 + Outstanding(next, c)
        /\ Outstanding(next, c) <= Outstanding(at, cur)
    BY <2>3, <2>4, <2>6, <2>7 DEF LeastRest
  <2>9. Good(4, 0, 1, next, c)
    BY <2>3, <2>4, <2>5, <2>8 DEF Good
  <2>10. 4 \in Nat /\ 0 \in Nat /\ 1 \in Nat \ {0} /\ next \in Fields /\ c \in Readings
    BY <2>3, <2>4, <2>5
  <2>. QED
    BY <2>2, <2>9, <2>10, Reached
<1>. QED
  BY <1>1, <1>2, <1>3

(* The end of a tensor: the checks, and the push.                          *)
LEMMA OffsetField ==
  ASSUME Typed, Offset
  PROVE  Advance \/ Refusal
<1>1. PICK o \in Offsets :
        LET t == [name |-> cur.name, shape |-> cur.shape, dtype |-> cur.dtype, offset |-> o]
        IN Read(8, Admitted(t), AfterTensor, [cur EXCEPT !.table = Append(@, t)])
  BY DEF Offset
<1>. DEFINE t    == [name |-> cur.name, shape |-> cur.shape, dtype |-> cur.dtype,
                     offset |-> o]
            next == AfterTensor
            c    == [cur EXCEPT !.table = Append(@, t)]
<1>2. CASE ~Admitted(t)
  <2>1. Refuses(8)
    BY <1>1, <1>2 DEF Read, ReadFitting, Refuses
  <2>. QED
    BY <2>1 DEF Refusal
<1>3. CASE Admitted(t)
  <2>1. Goes(8, 0, 1, next, c) \/ Refuses(8)
    BY <1>1, <1>3 DEF Read, ReadFitting, Goes, Refuses, Unfit
  <2>2. cur \in Readings /\ at = "offset" /\ cur.tensors \in Nat
    BY DEF Offset, Typed, Readings
  <2>3. t \in Entries
    BY <2>2, Inputs DEF Readings, Entries
  <2>. HIDE DEF t
  <2>4. Append(cur.table, t) \in Seq(Entries)
    BY <2>2, <2>3 DEF Readings
  <2>5. c \in Readings /\ c.table = Append(cur.table, t)
    BY <2>2, <2>4 DEF Readings
  <2>6. /\ c.entries = cur.entries /\ c.tensors = cur.tensors /\ c.reserved = cur.reserved
         /\ cur.entries \in Nat /\ cur.tensors \in Nat /\ cur.reserved \in Nat
    BY <2>2, <2>4 DEF Readings
  <2>7. next \in Fields /\ Counted(next, c)
    BY <2>2, <2>5 DEF Typed, Counted, Readings, Fields, TableFields, AfterTensor
  <2>8. /\ LeastField(at, cur) = 8
        /\ LeastField(next, c) = 0
        /\ Outstanding(at, cur) = cur.tensors * 20 + 4
        /\ Outstanding(next, c) = cur.tensors * 20
    <3>1. next = IF cur.tensors > 0 THEN "name" ELSE "start"
      BY DEF AfterTensor
    <3>. HIDE DEF next, c
    <3>2. CASE cur.tensors > 0
      BY <2>2, <2>6, <3>1, <3>2 DEF LeastField, Outstanding
    <3>3. CASE cur.tensors = 0
      BY <2>2, <2>6, <3>1, <3>3 DEF LeastField, Outstanding
    <3>. QED
      BY <2>2, <3>2, <3>3
  <2>. HIDE DEF next, c
  <2>9. /\ LeastRest(next, c) + 8 >= LeastRest(at, cur) /\ LeastRest(next, c) >= 0
        /\ c.reserved + Outstanding(at, cur) <= cur.reserved + 8 + Outstanding(next, c)
        /\ Outstanding(next, c) <= Outstanding(at, cur)
    BY <2>6, <2>8 DEF LeastRest
  <2>10. Good(8, 0, 1, next, c)
    BY <1>3, <2>3, <2>5, <2>7, <2>9 DEF Good
  <2>. QED
    BY <2>1, <2>5, <2>7, <2>10, Reached
<1>. QED
  BY <1>2, <1>3

-----------------------------------------------------------------------------
(* The whole parse.                                                        *)

(* At the end the header is judged: no byte is read, and every prefix that *)
(* holds the table gets the one answer.                                    *)
LEMMA StartKeeps ==
  ASSUME ParserInv, Start
  PROVE  ParserInv'
<1>1. /\ at = "start" /\ at' = IF EndsFit THEN "parsed" ELSE "refused"
      /\ pos' = pos /\ cur' = cur
  BY DEF Start
<1>2. \A p \in Prefixes :
        verdict'[p] = IF verdict[p] # "reading" THEN verdict[p]
                      ELSE IF EndsFit THEN "parsed" ELSE "refused"
  BY DEF Start
<1>3. Typed'
  BY <1>1 DEF Start, ParserInv, Typed, Counted, TableFields
<1>4. Final'
  BY <1>1, <1>2 DEF ParserInv, Final
<1>5. Tabled'
  BY <1>1 DEF ParserInv, Tabled, Sound
<1>6. (at = "parsed" => EndsFit)'
  BY <1>1 DEF EndsFit, DataStart
<1>7. PrefixLaw'
  BY <1>1, <1>2 DEF ParserInv, Typed, Final, PrefixLaw
<1>8. ShortIsShort'
  BY <1>1, <1>2 DEF ParserInv, ShortIsShort, LeastRest, LeastField
<1>9. ReservationsBacked'
  BY <1>1, <1>2 DEF ParserInv, ReservationsBacked, Outstanding
<1>. QED
  BY <1>3, <1>4, <1>5, <1>6, <1>7, <1>8, <1>9 DEF ParserInv

(* The invariant holds of the first state.                                 *)
LEMMA ParserInit ==
  ASSUME Init
  PROVE  ParserInv
<1>1. /\ at = "magic" /\ pos = 0 /\ cur.table = <<>> /\ cur.reserved = 0
      /\ cur.tensors = 0 /\ cur.entries = 0
      /\ \A p \in Prefixes : verdict[p] = "reading"
  BY DEF Init
<1>2. cur \in Readings
  <2>1. <<>> \in Seq(Entries) /\ <<>> \in Seq(Nat)
    BY EmptySeq
  <2>2. 1 \in ValueTypes
    BY DEF ValueTypes, Scalars
  <2>3. [block |-> 1, size |-> 1] \in Formats
    BY DEF Formats
  <2>. QED
    BY <2>1, <2>2, <2>3, Inputs DEF Init, Readings
<1>3. Typed
  BY <1>1, <1>2 DEF Init, Typed, Counted, Fields, TableFields
<1>4. Final /\ PrefixLaw /\ ShortIsShort
  BY <1>1 DEF Final, PrefixLaw, ShortIsShort
<1>5. DOMAIN cur.table = {}
  BY <1>1
<1>6. Tabled
  BY <1>5 DEF Tabled
<1>7. Outstanding(at, cur) = 0
  BY <1>1 DEF Outstanding
<1>8. Prefixes \subseteq Nat
  BY ParserAssumption
<1>9. ReservationsBacked
  BY <1>1, <1>7, <1>8 DEF ReservationsBacked
<1>. QED
  BY <1>1, <1>3, <1>4, <1>6, <1>9 DEF ParserInv

(* Every step keeps it.                                                    *)
LEMMA ParserStep ==
  ASSUME ParserInv, [Next]_vars
  PROVE  ParserInv'
<1>. USE DEF ParserInv
<1>1. CASE Magic \/ Version \/ TensorCount \/ KvCount
  <2>1. at \in Fields
    BY <1>1 DEF Magic, Version, TensorCount, KvCount, Fields
  <2>. QED
    BY <1>1, <2>1, FrontFields, GoesKeeps, RefusesKeeps DEF Advance, Refusal
<1>2. CASE Entry
  <2>1. at \in Fields
    BY <1>2 DEF Entry, Key, KeyBody, Type, Scalar, TextValue, TextBody, ItemType,
                NestedArray, ItemCount, Item, ItemText, ItemBody, Fields
  <2>2. Advance \/ Refusal
    BY <1>2, KeyFields, ValueFields, ArrayFields, ItemFields DEF Entry
  <2>. QED
    BY <2>1, <2>2, GoesKeeps, RefusesKeeps DEF Advance, Refusal
<1>3. CASE Alignment \/ Tensor
  <2>1. at \in Fields
    BY <1>3 DEF Alignment, Tensor, Name, NameBody, Dims, Dim, Dtype, Offset, Fields
  <2>2. Advance \/ Refusal
    BY <1>3, NameFields, ShapeFields, OffsetField DEF Tensor
  <2>. QED
    BY <2>1, <2>2, GoesKeeps, RefusesKeeps DEF Advance, Refusal
<1>4. CASE Start
  BY <1>4, StartKeeps
<1>5. CASE UNCHANGED vars
  <2>1. verdict' = verdict /\ at' = at /\ pos' = pos /\ cur' = cur
    BY <1>5 DEF vars
  <2>2. Typed' /\ Final' /\ Tabled'
    BY <2>1 DEF Typed, Final, Tabled, Sound
  <2>3. (at = "parsed" => EndsFit)'
    BY <2>1 DEF EndsFit, DataStart
  <2>4. PrefixLaw' /\ ShortIsShort' /\ ReservationsBacked'
    BY <2>1 DEF PrefixLaw, ShortIsShort, ReservationsBacked, LeastRest, LeastField,
       Outstanding
  <2>. QED
    BY <2>2, <2>3, <2>4
<1>. QED
  BY <1>1, <1>2, <1>3, <1>4, <1>5 DEF Next

(* The parser's inductive invariant, of any file and any set of prefixes.  *)
THEOREM ParserInvariant == Spec => []ParserInv
<1>1. Init => ParserInv
  BY ParserInit
<1>2. ParserInv /\ [Next]_vars => ParserInv'
  BY ParserStep
<1>. QED
  BY <1>1, <1>2, PTL DEF Spec

(* What has been read is always of its type.                               *)
THEOREM ParserTypeCorrect == Spec => []TypeOK
<1>1. ParserInv => TypeOK
  BY DEF ParserInv, Typed, Readings, TypeOK
<1>. QED
  BY <1>1, ParserInvariant, PTL

(* What a prefix of a file is told by parse holds for the longer ones, and *)
(* a prefix of a short one is short.                                       *)
THEOREM PrefixLawHolds == Spec => []PrefixLaw
<1>1. ParserInv => PrefixLaw
  BY DEF ParserInv
<1>. QED
  BY <1>1, ParserInvariant, PTL

(* No file that holds its whole header is sent away for more bytes.        *)
THEOREM ShortIsShortHolds == Spec => []ShortIsShort
<1>1. ParserInv => ShortIsShort
  BY DEF ParserInv
<1>. QED
  BY <1>1, ParserInvariant, PTL

(* What parse reserves is backed by bytes of the file.                     *)
THEOREM ReservationsBackedHolds == Spec => []ReservationsBacked
<1>1. ParserInv => ReservationsBacked
  BY DEF ParserInv
<1>. QED
  BY <1>1, ParserInvariant, PTL

(* align_up: the next multiple of the alignment, if this is not one.       *)
LEMMA AlignedUp ==
  ASSUME pos \in Nat, cur.alignment \in Nat \ {0}
  PROVE  DataStart >= pos /\ DataStart % cur.alignment = 0
<1>. DEFINE a == cur.alignment
            q == pos \div a
            r == pos % a
<1>1. q \in Nat /\ r \in 0..(a - 1) /\ pos = q * a + r
  BY Divided
<1>2. DataStart = IF r = 0 THEN pos ELSE pos + (a - r)
  BY DEF DataStart
<1>. HIDE DEF a, q, r
<1>3. a \in Nat \ {0} /\ a = cur.alignment
  BY DEF a
<1>4. CASE r = 0
  <2>1. pos % a = 0
    BY <1>4 DEF r
  <2>. QED
    BY <1>2, <1>3, <1>4, <2>1
<1>5. CASE r # 0
  <2>1. q \in Int /\ a \in Int
    BY <1>1, <1>3
  <2>2. (q + 1) * a = q * a + a
    BY <2>1, SMT
  <2>3. DataStart = (q + 1) * a
    BY <1>1, <1>2, <1>3, <1>5, <2>2
  <2>4. ((q + 1) * a) % a = 0
    BY <1>1, <1>3, Multiple
  <2>. QED
    BY <1>1, <1>2, <1>3, <1>5, <2>3, <2>4
<1>. QED
  BY <1>4, <1>5

(* A tensor that was admitted is a whole number of blocks.                 *)
LEMMA WholeBlocks ==
  ASSUME NEW t \in Entries, Sound(t)
  PROVE  (Nbytes(t) \div t.dtype.size) * t.dtype.block = Numel(t)
<1>1. t.shape \in Seq(Nat) /\ t.dtype.block \in Nat \ {0} /\ t.dtype.size \in Nat \ {0}
  BY DEF Entries, Formats
<1>2. Len(t.shape) \in 0..Len(t.shape)
  BY <1>1
<1>3. Numel(t) \in 0..(Word - 1) /\ Numel(t) % t.dtype.block = 0
  BY <1>2 DEF Sound, Numel
<1>4. Word \in Nat
  BY ParserAssumption
<1>5. Numel(t) \in Nat
  BY <1>3, <1>4
<1>. DEFINE q == Numel(t) \div t.dtype.block
<1>6. q \in Nat /\ Numel(t) = q * t.dtype.block + (Numel(t) % t.dtype.block)
  BY <1>1, <1>5, Divided
<1>7. Nbytes(t) = q * t.dtype.size
  BY DEF Nbytes
<1>. HIDE DEF q
<1>8. (q * t.dtype.size) \div t.dtype.size = q
  BY <1>1, <1>6, Multiple
<1>9. q * t.dtype.block \in Nat
  BY <1>1, <1>6
<1>. QED
  BY <1>3, <1>6, <1>7, <1>8, <1>9

(* A header that parses has every tensor where the machine can address it, *)
(* under a name of its own, at a whole number of blocks.                   *)
THEOREM TensorRangesExactHolds == Spec => []TensorRangesExact
<1>1. ASSUME ParserInv, at = "parsed"
      PROVE  TensorRangesExact
  <2>1. pos \in Nat /\ cur.alignment \in Nat \ {0} /\ cur.table \in Seq(Entries)
    BY <1>1 DEF ParserInv, Typed, Counted, TableFields, Readings
  <2>2. DataStart >= pos /\ DataStart % cur.alignment = 0
    BY <2>1, AlignedUp
  <2>3. ASSUME NEW k \in DOMAIN cur.table
        PROVE  /\ \A j \in DOMAIN cur.table : cur.table[j].name = cur.table[k].name => j = k
               /\ DataStart + cur.table[k].offset + Nbytes(cur.table[k]) < Word
               /\ (Nbytes(cur.table[k]) \div cur.table[k].dtype.size) * cur.table[k].dtype.block
                    = Numel(cur.table[k])
    <3>1. cur.table[k] \in Entries
      BY <2>1
    <3>2. Sound(cur.table[k])
      BY <1>1 DEF ParserInv, Tabled
    <3>3. (Nbytes(cur.table[k]) \div cur.table[k].dtype.size) * cur.table[k].dtype.block
            = Numel(cur.table[k])
      BY <3>1, <3>2, WholeBlocks
    <3>4. DataStart + cur.table[k].offset + Nbytes(cur.table[k]) < Word
      BY <1>1 DEF ParserInv, EndsFit
    <3>. QED
      BY <1>1, <3>3, <3>4 DEF ParserInv, Tabled
  <2>. QED
    BY <2>2, <2>3 DEF TensorRangesExact
<1>2. ParserInv => TensorRangesExact
  BY <1>1 DEF TensorRangesExact
<1>. QED
  BY <1>2, ParserInvariant, PTL
=============================================================================
