---------------------------- MODULE RowGatherProofs -------------------------
(***************************************************************************)
(* Theorems about row_range and rows(), for every word, every admitted     *)
(* tensor, arrays of any length and a caller that writes its array at any  *)
(* time.  First where rows are, for every query: the unchecked sums and    *)
(* products of row_range_json are exact.                                   *)
(***************************************************************************)
EXTENDS RowGather, SequenceTheorems, TLAPS

(* Multiplication keeps the order.                                         *)
LEMMA Monotone ==
  ASSUME NEW x \in Nat, NEW y \in Nat, NEW z \in Nat, x <= y
  PROVE  x * z <= y * z /\ z * x <= z * y /\ x * z \in Nat /\ z * x \in Nat
  BY SMT

(* Division with its remainder.                                            *)
LEMMA Whole ==
  ASSUME NEW x \in Nat, NEW d \in Nat \ {0}
  PROVE  /\ x \div d \in Nat /\ x % d \in 0..(d-1)
         /\ x = d * (x \div d) + (x % d)
  BY SMT

(* A multiple is divided exactly.                                          *)
LEMMA Quotient ==
  ASSUME NEW d \in Nat \ {0}, NEW q \in Nat
  PROVE  (d * q) \div d = q /\ (d * q) % d = 0
  <1>1. d * q \in Nat BY SMT
  <1> DEFINE p == (d * q) \div d   r == (d * q) % d
  <1>2. p \in Nat /\ r \in 0..(d - 1) /\ d * q = d * p + r BY <1>1, Whole
  <1>h. HIDE DEF p, r
  <1>3. CASE q > p
    <2>1. d * (p + 1) <= d * q BY <1>2, <1>3, Monotone
    <2>2. d * (p + 1) = d * p + d BY <1>2, SMT
    <2> QED BY <2>1, <2>2, <1>2, <1>1, SMT
  <1>4. CASE p > q
    <2>1. d * (q + 1) <= d * p BY <1>2, <1>4, Monotone
    <2>2. d * (q + 1) = d * q + d BY <1>2, SMT
    <2> QED BY <2>1, <2>2, <1>2, <1>1, SMT
  <1>5. CASE p = q
    <2>1. r = 0 BY <1>2, <1>5, <1>1, SMT
    <2> QED BY <2>1, <1>5 DEF p, r
  <1> QED BY <1>2, <1>3, <1>4, <1>5, SMT

(* What is below the modulus stays as it is.                               *)
LEMMA Small ==
  ASSUME NEW x \in Nat, NEW d \in Nat \ {0}, x < d
  PROVE x % d = x
  BY SMT

(* Products of naturals, in any order.                                     *)
LEMMA Product ==
  ASSUME NEW x \in Nat, NEW y \in Nat, NEW z \in Nat
  PROVE x * y * z = x * (y * z) /\ x * y \in Nat /\ x * y * z \in Nat /\ x * y = y * x
  BY SMT
(* A range of rows by the format's own rule, in exact arithmetic.          *)
Exact(t, first, count) ==
  [at       |-> t.start + t.offset + first * ((t.width \div t.block) * t.type),
   bytes    |-> count * ((t.width \div t.block) * t.type),
   elements |-> count * t.width]

(* What is in a tensor's description.                                      *)
LEMMA Shape ==
  ASSUME NEW t \in Tensors
  PROVE  /\ t.width \in Nat /\ t.a \in Nat /\ t.b \in Nat /\ t.type \in Nat
         /\ t.start \in Nat /\ t.offset \in Nat /\ t.block \in Nat \ {0}
         /\ Word \in Nat \ {0} /\ U32 \in Nat \ {0}
<1>1. Word \in Nat \ {0} /\ U32 \in Nat \ {0} /\ t \in [Fields -> 0..(Word - 1)] /\ t.block > 0
  BY RowAssumption
<1>2. \A f \in Fields : t[f] \in Nat
  BY <1>1, SMT
<1>. QED
  BY <1>1, <1>2, SMT DEF Fields

(* As many rows as the tensor has, or fewer, take no more bytes and hold   *)
(* no more elements than the tensor: rows are whole blocks.                *)
LEMMA RowsFit ==
  ASSUME NEW t \in Tensors, Admitted(t), t.width % t.block = 0,
         NEW n \in Nat, n <= t.a * t.b
  PROVE  LET row == (t.width \div t.block) * t.type
         IN /\ row \in Nat /\ n * row \in Nat /\ n * t.width \in Nat
            /\ n * row <= Nbytes(t) /\ n * t.width <= Numel(t)
            /\ Nbytes(t) \in Nat /\ Numel(t) \in Nat
<1> DEFINE k == t.width \div t.block
           row == k * t.type
<1>1. /\ t.width \in Nat /\ t.a \in Nat /\ t.b \in Nat /\ t.type \in Nat
      /\ t.block \in Nat \ {0} /\ t.a * t.b \in Nat
  BY Shape, SMT
<1>2. k \in Nat /\ t.width = t.block * k
  <2>1. /\ k \in Nat /\ t.width = t.block * k + (t.width % t.block)
    BY <1>1, Whole
  <2>. HIDE DEF k
  <2>2. t.block * k \in Nat
    BY <1>1, <2>1, Product
  <2>. QED
    BY <2>1, <2>2, SMT
<1>. HIDE DEF k
<1>3. row \in Nat
  BY <1>1, <1>2, Product
<1>4. Numel(t) = (t.a * t.b) * t.width /\ Numel(t) \in Nat
  <2>1. Numel(t) = t.width * (t.a * t.b) /\ Numel(t) \in Nat
    BY <1>1, Product DEF Numel
  <2>. QED
    BY <2>1, <1>1, Product
<1>5. n * t.width <= Numel(t) /\ n * t.width \in Nat
  BY <1>1, <1>4, Monotone
<1>6. Numel(t) \div t.block = k * (t.a * t.b)
  <2>1. Numel(t) = t.block * (k * (t.a * t.b)) /\ k * (t.a * t.b) \in Nat
    BY <1>1, <1>2, Product DEF Numel
  <2>. QED
    BY <1>1, <2>1, Quotient
<1>7. Nbytes(t) = (t.a * t.b) * row /\ Nbytes(t) \in Nat
  <2>1. (k * (t.a * t.b)) * t.type = (t.a * t.b) * (k * t.type)
    BY <1>1, <1>2, Product
  <2>. QED
    BY <1>1, <1>3, <1>6, <2>1, Product DEF Nbytes
<1>8. n * row <= Nbytes(t) /\ n * row \in Nat
  BY <1>1, <1>3, <1>7, Monotone
<1>. QED
  BY <1>3, <1>4, <1>5, <1>7, <1>8 DEF k

(* Under the parser's checks nothing in row_range_json wraps.  Where the   *)
(* bytes of a row would, there are no rows.                                *)
LEMMA RangeIsExact ==
  ASSUME NEW t \in Tensors, Admitted(t), NEW first \in Nat, NEW count \in Nat,
         RowRange(t, first, count) # None
  PROVE  /\ RowRange(t, first, count) = Exact(t, first, count)
         /\ first + count <= t.a * t.b
         /\ t.width % t.block = 0
<1> DEFINE row == (t.width \div t.block) * t.type
           base == t.start + t.offset
<1>1. /\ t.width \in Nat /\ t.a \in Nat /\ t.b \in Nat /\ t.type \in Nat
      /\ t.start \in Nat /\ t.offset \in Nat /\ Word \in Nat \ {0} /\ t.a * t.b \in Nat
  BY Shape, Product
<1>2. first + count <= (t.a * t.b) % Word /\ t.width % t.block = 0
  BY DEF RowRange, InRows, RowCount
<1>3. first + count <= t.a * t.b /\ first + count < Word
  BY <1>1, <1>2, SMT
<1>4. row \in Nat
  <2>1. first + count \in Nat
    OBVIOUS
  <2>. QED
    BY <1>2, <1>3, <2>1, RowsFit
<1>5. /\ (first + count) * row <= Nbytes(t)
      /\ (first + count) * t.width <= Numel(t)
      /\ Nbytes(t) \in Nat /\ Numel(t) \in Nat
  <2>1. first + count \in Nat
    OBVIOUS
  <2>. QED
    BY <1>2, <1>3, <2>1, RowsFit
<1>6. Numel(t) < Word /\ Nbytes(t) < Word /\ base + Nbytes(t) < Word
  BY DEF Admitted
<1>. HIDE DEF row
<1>7. /\ (first + count) * row = first * row + count * row
      /\ (first + count) * t.width = first * t.width + count * t.width
      /\ first * row \in Nat /\ count * row \in Nat
      /\ first * t.width \in Nat /\ count * t.width \in Nat
  BY <1>1, <1>4, SMT
<1>8. /\ base \in Nat /\ base + first * row \in Nat /\ base + first * row < Word
      /\ count * row < Word /\ count * t.width < Word
  BY <1>1, <1>5, <1>6, <1>7, SMT
<1>9. (count * t.width) % Word = count * t.width
  BY <1>1, <1>7, <1>8, Small
<1>10. /\ (base + first * (row % Word)) % Word = base + first * row
       /\ (count * (row % Word)) % Word = count * row
  <2>1. CASE row < Word
    <3>1. row % Word = row
      BY <1>1, <1>4, <2>1, Small
    <3>. HIDE DEF base
    <3>. QED
      BY <1>1, <1>7, <1>8, <3>1, Small
  <2>2. CASE row >= Word
    <3>1. first = 0 /\ count = 0
      <4>1. CASE first + count >= 1
        <5>1. 1 * row <= (first + count) * row
          BY <1>4, <4>1, Monotone
        <5>2. 1 * row = row /\ (first + count) * row \in Nat
          BY <1>4, <1>7, SMT
        <5>. QED
          BY <1>1, <1>4, <1>5, <1>6, <2>2, <5>1, <5>2, SMT
      <4>. QED
        BY <4>1, SMT
    <3>2. row % Word \in Nat
      BY <1>1, <1>4, Whole
    <3>3. first * (row % Word) = 0 /\ count * (row % Word) = 0 /\ first * row = 0 /\ count * row = 0
      BY <1>4, <3>1, <3>2, SMT
    <3>. HIDE DEF base
    <3>4. 0 % Word = 0 /\ base % Word = base
      BY <1>1, <1>8, <3>3, Small
    <3>. QED
      BY <1>8, <3>3, <3>4
  <2>. QED
    BY <1>1, <1>4, <2>1, <2>2, SMT
<1>. QED
  BY <1>2, <1>3, <1>9, <1>10 DEF RowRange, RowBytes, Exact, row

(* A range lies inside its tensor.                                         *)
LEMMA RangeInside ==
  ASSUME NEW t \in Tensors, Admitted(t), NEW first \in Nat, NEW count \in Nat,
         RowRange(t, first, count) # None
  PROVE  LET range == RowRange(t, first, count)
         IN /\ range.at >= t.start + t.offset
            /\ range.at + range.bytes <= t.start + t.offset + Nbytes(t)
<1>. DEFINE row == (t.width \div t.block) * t.type
<1>1. /\ RowRange(t, first, count) = Exact(t, first, count)
      /\ first + count <= t.a * t.b /\ t.width % t.block = 0
  BY RangeIsExact
<1>2. row \in Nat /\ (first + count) * row <= Nbytes(t) /\ Nbytes(t) \in Nat
  <2>1. first + count \in Nat
    OBVIOUS
  <2>. QED
    BY <1>1, <2>1, RowsFit
<1>3. Exact(t, first, count).at = t.start + t.offset + first * row
      /\ Exact(t, first, count).bytes = count * row
  BY DEF Exact
<1>. HIDE DEF row
<1>4. /\ (first + count) * row = first * row + count * row
      /\ first * row \in Nat /\ count * row \in Nat
  BY <1>2, SMT
<1>. QED
  BY <1>1, <1>2, <1>3, <1>4, Shape, SMT

(* A range is a whole number of blocks.                                    *)
LEMMA RangeDecodes ==
  ASSUME NEW t \in Tensors, Admitted(t), NEW first \in Nat, NEW count \in Nat,
         RowRange(t, first, count) # None
  PROVE  LET range == RowRange(t, first, count)
         IN range.bytes * t.block = range.elements * t.type
<1>. DEFINE k == t.width \div t.block
<1>1. RowRange(t, first, count) = Exact(t, first, count) /\ t.width % t.block = 0
  BY RangeIsExact
<1>2. t.width \in Nat /\ t.block \in Nat \ {0} /\ t.type \in Nat
  BY Shape
<1>3. k \in Nat /\ t.width = t.block * k + (t.width % t.block)
  BY <1>2, Whole
<1>4. /\ Exact(t, first, count).bytes = count * (k * t.type)
      /\ Exact(t, first, count).elements = count * t.width
  BY DEF Exact
<1>. HIDE DEF k
<1>5. t.width = t.block * k
  <2>1. t.block * k \in Nat
    BY <1>2, <1>3, Product
  <2>. QED
    BY <1>1, <1>3, <2>1, SMT
<1>6. (count * (k * t.type)) * t.block = (count * (t.block * k)) * t.type
  BY <1>2, <1>3, SMT
<1>. QED
  BY <1>1, <1>4, <1>5, <1>6

(* Every row of a range is a range of its own, and they abut.              *)
LEMMA RangeAbuts ==
  ASSUME NEW t \in Tensors, Admitted(t), NEW first \in Nat, NEW count \in Nat,
         RowRange(t, first, count) # None, NEW k \in 0..(count - 1)
  PROVE  LET range == RowRange(t, first, count)
             row   == RowRange(t, first + k, 1)
         IN /\ row # None
            /\ row.at = range.at + k * row.bytes
            /\ count * row.bytes = range.bytes
            /\ count * row.elements = range.elements
<1>. DEFINE size == (t.width \div t.block) * t.type
<1>1. /\ t.width \in Nat /\ t.a \in Nat /\ t.b \in Nat /\ t.type \in Nat
      /\ t.block \in Nat \ {0} /\ t.start \in Nat /\ t.offset \in Nat
      /\ Word \in Nat \ {0} /\ t.a * t.b \in Nat
  BY Shape, Product
<1>2. /\ RowRange(t, first, count) = Exact(t, first, count)
      /\ t.width % t.block = 0
  BY RangeIsExact
<1>3. RowRange(t, first + k, 1) # None
  <2>1. InRows(t, first, count)
    BY DEF RowRange
  <2>2. RowCount(t) \in Nat
    BY <1>1, Whole DEF RowCount
  <2>3. InRows(t, first + k, 1)
    BY <2>1, <2>2 DEF InRows
  <2>4. RowBytes(t) \in Nat
    <3>1. t.width \div t.block \in Nat
      BY <1>1, Whole
    <3>2. (t.width \div t.block) * t.type \in Nat
      BY <1>1, <3>1, Product
    <3>. QED
      BY <1>1, <3>2, Whole DEF RowBytes
  <2>. DEFINE at == t.start + t.offset + (first + k) * RowBytes(t)
  <2>5. (first + k) * RowBytes(t) \in Nat /\ 1 * RowBytes(t) \in Nat /\ 1 * t.width \in Nat
    BY <1>1, <2>4, SMT
  <2>6. at \in Nat
    BY <1>1, <2>5
  <2>. HIDE DEF at
  <2>7. at % Word \in Nat /\ (1 * RowBytes(t)) % Word \in Nat /\ (1 * t.width) % Word \in Nat
    <3>1. \A n \in Nat : n % Word \in Nat
      BY <1>1, Whole
    <3>. QED
      BY <2>5, <2>6, <3>1
  <2>8. RowRange(t, first + k, 1) =
          [at |-> at % Word, bytes |-> (1 * RowBytes(t)) % Word, elements |-> (1 * t.width) % Word]
    BY <1>2, <2>3 DEF RowRange, at
  <2>9. RowRange(t, first + k, 1) \in [at : Nat, bytes : Nat, elements : Nat]
    BY <2>7, <2>8
  <2>. QED
    BY <2>9, RowAssumption
<1>4. RowRange(t, first + k, 1) = Exact(t, first + k, 1)
  BY <1>3, RangeIsExact
<1>5. size \in Nat
  BY <1>1, Whole, Product
<1>6. /\ Exact(t, first, count) = [at |-> t.start + t.offset + first * size,
                                  bytes |-> count * size, elements |-> count * t.width]
      /\ Exact(t, first + k, 1) = [at |-> t.start + t.offset + (first + k) * size,
                                  bytes |-> 1 * size, elements |-> 1 * t.width]
  BY DEF Exact
<1>. HIDE DEF size
<1>7. /\ (first + k) * size = first * size + k * size
      /\ 1 * size = size /\ 1 * t.width = t.width
      /\ first * size \in Nat /\ k * size \in Nat
  BY <1>1, <1>5, SMT
<1>8. t.start + t.offset + (first + k) * size = (t.start + t.offset + first * size) + k * size
  BY <1>1, <1>7, SMT
<1>. QED
  BY <1>2, <1>3, <1>4, <1>6, <1>7, <1>8

(* One row of a matrix, in the place that PlaceOf names.                   *)
LEMMA RowIsPlace ==
  ASSUME NEW t \in Tensors, Admitted(t), t.b = 1, NEW row \in Nat,
         RowRange(t, row, 1) # None
  PROVE  row \in 0..(t.a - 1) /\ RowRange(t, row, 1) = PlaceOf(t, row)
<1>1. /\ RowRange(t, row, 1) = Exact(t, row, 1) /\ row + 1 <= t.a * 1
  BY RangeIsExact
<1>2. /\ t.width \in Nat /\ t.a \in Nat /\ t.type \in Nat /\ t.block \in Nat \ {0}
  BY Shape
<1>3. t.width \div t.block \in Nat
  BY <1>2, Whole
<1>4. /\ row * ((t.width \div t.block) * t.type) = row * (t.width \div t.block) * t.type
      /\ 1 * ((t.width \div t.block) * t.type) = (t.width \div t.block) * t.type
      /\ 1 * t.width = t.width
  BY <1>2, <1>3, SMT
<1>5. Exact(t, row, 1) = PlaceOf(t, row)
  BY <1>4 DEF Exact, PlaceOf
<1>. QED
  BY <1>1, <1>2, <1>5, SMT

(* The native reader's checked arithmetic and the module's unchecked one   *)
(* answer alike about a row of a matrix.                                   *)
LEMMA SameRow ==
  ASSUME NEW t \in Tensors, Admitted(t), t.b = 1, NEW row \in Nat
  PROVE  NativeRow(t, row) = RowRange(t, row, 1)
<1>. DEFINE size == (t.width \div t.block) * t.type
<1>1. /\ t.width \in Nat /\ t.a \in 0..(Word - 1) /\ t.type \in Nat /\ t.block \in Nat \ {0}
      /\ t.start \in Nat /\ t.offset \in Nat /\ Word \in Nat \ {0}
  BY Shape, RowAssumption DEF Fields
<1>2. RowCount(t) = t.a
  <2>1. t.a * t.b = t.a
    BY <1>1, SMT
  <2>. QED
    BY <1>1, <2>1, Small DEF RowCount
<1>3. CASE InRows(t, row, 1) /\ t.width % t.block = 0
  <2>1. row < t.a /\ row + 1 <= t.a * t.b /\ row + 1 \in Nat
    BY <1>1, <1>2, <1>3, SMT DEF InRows
  <2>2. /\ size \in Nat /\ (row + 1) * size <= Nbytes(t) /\ Nbytes(t) \in Nat
    BY <1>3, <2>1, RowsFit
  <2>3. /\ Nbytes(t) < Word /\ t.start + t.offset + Nbytes(t) < Word
        /\ Numel(t) < Word
    BY DEF Admitted
  <2>4. (row + 1) * t.width <= Numel(t) /\ Numel(t) \in Nat
    BY <1>3, <2>1, RowsFit
  <2>. DEFINE at == t.start + t.offset + row * size
  <2>5. RowBytes(t) = size % Word
    BY DEF RowBytes
  <2>. HIDE DEF size
  <2>6. /\ (row + 1) * size = row * size + size /\ row * size \in Nat
        /\ (row + 1) * t.width = row * t.width + t.width /\ row * t.width \in Nat
        /\ 1 * size = size /\ 1 * t.width = t.width
    BY <1>1, <2>2, SMT
  <2>7. /\ size < Word /\ t.width < Word /\ row * size < Word
        /\ at < Word /\ at \in Nat
    BY <1>1, <2>2, <2>3, <2>4, <2>6, SMT
  <2>8. RowBytes(t) = size
    BY <1>1, <2>2, <2>5, <2>7, Small
  <2>9. NativeRow(t, row) = [at |-> at, bytes |-> size, elements |-> t.width]
    BY <1>3, <2>1, <2>7, <2>8 DEF NativeRow
  <2>10. RowRange(t, row, 1) =
           [at |-> at % Word, bytes |-> size % Word, elements |-> t.width % Word]
    BY <1>3, <2>6, <2>8 DEF RowRange
  <2>. HIDE DEF at
  <2>11. at % Word = at /\ size % Word = size /\ t.width % Word = t.width
    BY <1>1, <2>2, <2>7, Small
  <2>. QED
    BY <2>9, <2>10, <2>11
<1>4. CASE ~(InRows(t, row, 1) /\ t.width % t.block = 0)
  <2>1. RowRange(t, row, 1) = None
    BY <1>4 DEF RowRange
  <2>2. ~(t.width % t.block = 0 /\ row < t.a)
    BY <1>1, <1>2, <1>4, SMT DEF InRows
  <2>. QED
    BY <2>1, <2>2 DEF NativeRow
<1>. QED
  BY <1>3, <1>4

-----------------------------------------------------------------------------
(* The type of a range.                                                    *)
RangeSet == [at : 0..(Word - 1), bytes : 0..(Word - 1), elements : 0..(Word - 1)]

(* A row of the tensor.                                                    *)
RowOfTensor(r) == \E row \in 0..(tensor.a - 1) : r = PlaceOf(tensor, row)

(* The inductive invariant: the answer is the query's; the array is the    *)
(* one that was checked until it is written; what the check said of it     *)
(* still holds of the array as it was; the rows before i are in place, and *)
(* the one that is awaited is the i-th.                                    *)
Asked == \/ query = None /\ answer = None
         \/ /\ query \in [first : 0..(U32 - 1), count : 0..(U32 - 1)]
            /\ answer = RowRange(tensor, query.first, query.count)

Idle == stage = "idle" => i = 1 /\ ~written

Checked == stage \in {"reading", "done"} =>
             /\ tensor.b = 1 /\ Len(out) = Len(called)
             /\ \A k \in DOMAIN called : called[k] < tensor.a /\ called[k] < U32

Unwritten == ~written => indices = called

InPlace == ~written =>
  /\ stage \in {"reading", "done"} =>
       \A k \in DOMAIN out : k < i => out[k] = PlaceOf(tensor, called[k])
  /\ stage = "reading" => i <= Len(called) /\ reading = PlaceOf(tensor, called[i])
  /\ stage = "done" => i > Len(called)

OnlyRows == /\ \A k \in DOMAIN out : out[k] # None => RowOfTensor(out[k])
            /\ reading # None => RowOfTensor(reading)

GatherInv == /\ TypeOK /\ Admitted(tensor) /\ Asked /\ Idle /\ Checked
             /\ Unwritten /\ InPlace /\ OnlyRows /\ ReadsBounded

(* An array is a sequence of naturals.                                     *)
LEMMA ArrayIsSeq ==
  ASSUME NEW list \in Arrays \cup LaterArrays
  PROVE  /\ list \in Seq(Nat) /\ Len(list) \in Nat
         /\ DOMAIN list = 1..Len(list)
         /\ \A k \in DOMAIN list : list[k] \in Nat
<1>1. PICK n \in 0..MaxRows \cup 0..MaxWritten : list \in [1..n -> Index]
  BY DEF Arrays, LaterArrays
<1>2. list \in [1..n -> Nat] /\ n \in Nat
  <2>1. n \in Nat /\ Index \subseteq Nat
    BY GatherAssumption, SMT
  <2>. QED
    BY <1>1, <2>1
<1>3. list \in Seq(Nat)
  BY <1>2, SeqDef
<1>. QED
  BY <1>2, <1>3, LenProperties

(* A function on 1..n is a sequence of length n.                           *)
LEMMA FunctionIsSeq ==
  ASSUME NEW S, NEW n \in Nat, NEW f \in [1..n -> S]
  PROVE  f \in Seq(S) /\ Len(f) = n /\ DOMAIN f = 1..n
<1>1. f \in Seq(S)
  BY SeqDef
<1>2. DOMAIN f = 1..Len(f) /\ Len(f) \in Nat /\ DOMAIN f = 1..n
  BY <1>1, LenProperties
<1>. QED
  BY <1>1, <1>2, SMT

(* The answer to a query fits the word.                                    *)
LEMMA RangeTyped ==
  ASSUME NEW t \in Tensors, NEW first \in Nat, NEW count \in Nat
  PROVE  RowRange(t, first, count) \in RangeSet \cup {None}
<1>1. /\ t.width \in Nat /\ t.type \in Nat /\ t.block \in Nat \ {0}
      /\ t.start \in Nat /\ t.offset \in Nat /\ Word \in Nat \ {0}
  BY Shape
<1>2. \A n \in Nat : n % Word \in 0..(Word - 1)
  BY <1>1, Whole
<1>3. RowBytes(t) \in Nat
  <2>1. t.width \div t.block \in Nat
    BY <1>1, Whole
  <2>2. (t.width \div t.block) * t.type \in Nat
    BY <1>1, <2>1, Product
  <2>. QED
    BY <1>2, <2>2 DEF RowBytes
<1>4. first * RowBytes(t) \in Nat /\ count * RowBytes(t) \in Nat /\ count * t.width \in Nat
  BY <1>1, <1>3, SMT
<1>. DEFINE at == t.start + t.offset + first * RowBytes(t)
<1>5. at \in Nat
  BY <1>1, <1>4
<1>. HIDE DEF at
<1>6. [at |-> at % Word, bytes |-> (count * RowBytes(t)) % Word,
       elements |-> (count * t.width) % Word] \in RangeSet
  BY <1>2, <1>4, <1>5 DEF RangeSet
<1>. QED
  BY <1>6 DEF RowRange, at

(* What one turn of the loop does up to its await: it ends, it is refused, *)
(* or it waits for a row of the tensor, which for an index of 32 bits is   *)
(* the row that the list names.                                            *)
LEMMA AdvanceStep ==
  ASSUME tensor \in Tensors, Admitted(tensor), tensor.b = 1,
         NEW list \in Arrays \cup LaterArrays, NEW k \in Nat \ {0}, Advance(list, k)
  PROVE  /\ stage' \in {"reading", "done", "refused"}
         /\ stage' = "reading" <=> reading' # None
         /\ reading' \in RangeSet \cup {None}
         /\ reading' # None => RowOfTensor(reading')
         /\ stage' = "reading" => k <= Len(list) /\ reading' = PlaceOf(tensor, list[k] % U32)
         /\ stage' = "done" => k > Len(list)
<1>1. Len(list) \in Nat /\ DOMAIN list = 1..Len(list) /\ \A j \in DOMAIN list : list[j] \in Nat
  BY ArrayIsSeq
<1>2. CASE k > Len(list)
  BY <1>2 DEF Advance
<1>3. CASE k <= Len(list)
  <2>. DEFINE row == list[k] % U32
  <2>1. list[k] \in Nat
    BY <1>1, <1>3
  <2>2. row \in Nat /\ row < U32
    BY <2>1, RowAssumption, Whole
  <2>3. reading' = RowRange(tensor, row, 1)
        /\ stage' = IF RowRange(tensor, row, 1) = None THEN "refused" ELSE "reading"
    BY <1>1, <1>3 DEF Advance, AsU32
  <2>. HIDE DEF row
  <2>4. reading' \in RangeSet \cup {None}
    BY <2>2, <2>3, RangeTyped
  <2>5. CASE RowRange(tensor, row, 1) = None
    BY <2>3, <2>4, <2>5, <1>3
  <2>6. CASE RowRange(tensor, row, 1) # None
    <3>1. row \in 0..(tensor.a - 1) /\ reading' = PlaceOf(tensor, row)
      BY <2>2, <2>3, <2>6, RowIsPlace
    <3>2. RowOfTensor(reading')
      BY <2>2, <3>1 DEF RowOfTensor
    <3>. QED
      BY <1>3, <2>3, <2>4, <2>6, <3>1, <3>2 DEF row
  <2>. QED
    BY <2>5, <2>6
<1>. QED
  BY <1>1, <1>2, <1>3, SMT

(* The invariant holds before anything is asked.                           *)
LEMMA GatherInit == Init => GatherInv
<1>. SUFFICES ASSUME Init PROVE GatherInv
  OBVIOUS
<1>1. <<>> \in Arrays /\ <<>> \in LaterArrays
  <2>1. MaxRows \in Nat /\ MaxWritten \in Nat
    BY GatherAssumption
  <2>2. <<>> \in [1..0 -> Index] /\ 0 \in 0..MaxRows /\ 0 \in 0..MaxWritten
    BY <2>1
  <2>. QED
    BY <2>2 DEF Arrays, LaterArrays
<1>2. <<>> \in Seq(RangeSet \cup {None})
  BY EmptySeq
<1>3. TypeOK
  <2>1. indices \in LaterArrays /\ called \in Arrays /\ out \in Seq(RangeSet \cup {None})
    BY <1>1, <1>2 DEF Init
  <2>2. /\ tensor \in Tensors /\ answer = None /\ reading = None /\ written \in BOOLEAN
        /\ stage = "idle" /\ i = 1
    BY DEF Init
  <2>. QED
    BY <2>1, <2>2 DEF TypeOK, RangeSet
<1>. QED
  BY <1>3 DEF Init, GatherInv, Asked, Idle, Checked, Unwritten, InPlace, OnlyRows, ReadsBounded

(* A query keeps it.                                                       *)
LEMMA QueryKeeps ==
  ASSUME GatherInv, NEW first \in Rows, NEW count \in Rows, row_range(first, count)
  PROVE  GatherInv'
<1>. USE DEF GatherInv
<1>1. first \in 0..(U32 - 1) /\ count \in 0..(U32 - 1)
  BY GatherAssumption
<1>2. U32 \in Nat \ {0} /\ first \in Nat /\ count \in Nat /\ tensor \in Tensors
  BY <1>1, RowAssumption DEF TypeOK
<1>3. answer' \in RangeSet \cup {None}
  BY <1>2, RangeTyped DEF row_range
<1>4. TypeOK'
  BY <1>3 DEF row_range, TypeOK, RangeSet
<1>5. Asked'
  BY <1>1 DEF row_range, Asked
<1>6. OnlyRows'
  BY DEF row_range, OnlyRows, RowOfTensor
<1>. QED
  BY <1>4, <1>5, <1>6 DEF row_range, Idle, Checked, Unwritten, InPlace, ReadsBounded

(* So does a call of rows(), up to its first await.                        *)
LEMMA CallKeeps ==
  ASSUME GatherInv, NEW list \in Arrays, rows(list)
  PROVE  GatherInv'
<1>. USE DEF GatherInv
<1>1. /\ list \in Seq(Nat) /\ Len(list) \in Nat /\ DOMAIN list = 1..Len(list)
      /\ \A k \in DOMAIN list : list[k] \in Nat
  BY ArrayIsSeq
<1>2. /\ stage = "idle" /\ i = 1 /\ ~written /\ reading = None
      /\ tensor \in Tensors /\ Word \in Nat \ {0} /\ U32 \in Nat \ {0}
      /\ list \in LaterArrays
  <2>1. list \in LaterArrays
    <3>1. 0..MaxRows \subseteq 0..MaxWritten
      BY GatherAssumption
    <3>. QED
      BY <3>1 DEF Arrays, LaterArrays
  <2>. QED
    BY <2>1, RowAssumption DEF rows, Idle, TypeOK
<1>3. /\ indices' = list /\ called' = list /\ query' = None /\ answer' = None
      /\ UNCHANGED <<tensor, i, written>>
  BY DEF rows
<1>4. Asked' /\ Unwritten' /\ Admitted(tensor)'
  BY <1>3 DEF Asked, Unwritten, Admitted, Numel, Nbytes
<1>5. CASE Valid(list) /\ out' = [k \in DOMAIN list |-> None] /\ Advance(list, 1)
  <2>1. /\ stage' \in {"reading", "done", "refused"}
        /\ stage' = "reading" <=> reading' # None
        /\ reading' \in RangeSet \cup {None}
        /\ reading' # None => RowOfTensor(reading')
        /\ stage' = "reading" => 1 <= Len(list) /\ reading' = PlaceOf(tensor, list[1] % U32)
        /\ stage' = "done" => 1 > Len(list)
    <3>1. 1 \in Nat \ {0} /\ tensor.b = 1
      BY <1>5 DEF Valid
    <3>. QED
      BY <1>2, <1>5, <3>1, AdvanceStep
  <2>2. /\ out' \in Seq(RangeSet \cup {None}) /\ Len(out') = Len(list)
        /\ DOMAIN out' = 1..Len(list)
    <3>1. out' \in [1..Len(list) -> RangeSet \cup {None}]
      BY <1>1, <1>5
    <3>. QED
      BY <1>1, <3>1, FunctionIsSeq
  <2>3. TypeOK'
    BY <1>2, <1>3, <2>1, <2>2 DEF TypeOK, RangeSet
  <2>4. Checked'
    BY <1>3, <1>5, <2>2 DEF Checked, Valid
  <2>5. OnlyRows'
    <3>1. \A k \in DOMAIN out' : out'[k] = None
      BY <1>5
    <3>. QED
      BY <1>3, <2>1, <3>1 DEF OnlyRows, RowOfTensor
  <2>6. InPlace'
    <3>1. CASE stage' = "reading"
      <4>1. 1 \in DOMAIN list
        BY <1>1, <2>1, <3>1
      <4>2. list[1] \in Nat /\ list[1] < U32
        BY <1>1, <1>5, <4>1 DEF Valid
      <4>3. list[1] % U32 = list[1]
        BY <1>2, <4>2, Small
      <4>4. \A k \in DOMAIN out' : ~(k < i')
        BY <1>1, <1>2, <1>3, <2>2
      <4>. QED
        BY <1>2, <1>3, <2>1, <3>1, <4>3, <4>4 DEF InPlace, PlaceOf
    <3>2. CASE stage' = "done"
      <4>1. \A k \in DOMAIN out' : ~(k < i')
        BY <1>1, <1>2, <1>3, <2>2
      <4>. QED
        BY <1>2, <1>3, <2>1, <3>2, <4>1 DEF InPlace
    <3>3. CASE stage' = "refused"
      BY <3>3 DEF InPlace
    <3>. QED
      BY <2>1, <3>1, <3>2, <3>3
  <2>7. ReadsBounded'
    BY <1>1, <1>2, <1>3, <2>2 DEF ReadsBounded
  <2>. QED
    BY <1>4, <2>1, <2>3, <2>4, <2>5, <2>6, <2>7 DEF Idle
<1>6. CASE ~Valid(list) /\ stage' = "refused" /\ UNCHANGED <<reading, out>>
  <2>1. TypeOK'
    BY <1>2, <1>3, <1>6 DEF TypeOK
  <2>2. OnlyRows'
    BY <1>3, <1>6 DEF OnlyRows, RowOfTensor
  <2>. QED
    BY <1>3, <1>4, <1>6, <2>1, <2>2 DEF Idle, Checked, InPlace, ReadsBounded
<1>. QED
  BY <1>5, <1>6 DEF rows

(* So does the arrival of a row, with the loop up to its next await.       *)
LEMMA ArrivalKeeps ==
  ASSUME GatherInv, RowArrives
  PROVE  GatherInv'
<1>. USE DEF GatherInv
<1>1. /\ stage = "reading" /\ reading # None /\ reading \in RangeSet \cup {None}
      /\ tensor \in Tensors /\ Word \in Nat \ {0} /\ U32 \in Nat \ {0}
      /\ i \in Nat \ {0} /\ indices \in LaterArrays /\ called \in Arrays
      /\ out \in Seq(RangeSet \cup {None}) /\ tensor.b = 1 /\ Len(out) = Len(called)
      /\ \A k \in DOMAIN called : called[k] < tensor.a /\ called[k] < U32
      /\ RowOfTensor(reading)
  BY RowAssumption DEF RowArrives, TypeOK, RangeSet, Checked, OnlyRows
<1>2. UNCHANGED <<tensor, query, answer, indices, called, written>>
  BY DEF RowArrives
<1>3. Asked' /\ Unwritten' /\ Admitted(tensor)'
  BY <1>2 DEF Asked, Unwritten, Admitted, Numel, Nbytes
<1>4. DOMAIN out = 1..Len(out) /\ Len(out) \in Nat /\ out \in [1..Len(out) -> RangeSet \cup {None}]
  BY <1>1, LenProperties
<1>5. /\ Len(called) \in Nat /\ DOMAIN called = 1..Len(called)
      /\ \A k \in DOMAIN called : called[k] \in Nat
  BY <1>1, ArrayIsSeq
<1>6. CASE /\ i <= Len(out) \/ tensor.width = 0
           /\ out' = [k \in DOMAIN out |-> IF k = i THEN reading ELSE out[k]]
           /\ i' = i + 1 /\ Advance(indices, i + 1)
  <2>1. /\ stage' \in {"reading", "done", "refused"}
        /\ stage' = "reading" <=> reading' # None
        /\ reading' \in RangeSet \cup {None}
        /\ reading' # None => RowOfTensor(reading')
        /\ stage' = "reading" =>
             i + 1 <= Len(indices) /\ reading' = PlaceOf(tensor, indices[i + 1] % U32)
        /\ stage' = "done" => i + 1 > Len(indices)
    <3>1. i + 1 \in Nat \ {0}
      BY <1>1
    <3>. QED
      BY <1>1, <1>6, <3>1, AdvanceStep
  <2>2. /\ out' \in Seq(RangeSet \cup {None}) /\ Len(out') = Len(out)
        /\ DOMAIN out' = 1..Len(out)
    <3>1. out' \in [1..Len(out) -> RangeSet \cup {None}]
      BY <1>1, <1>4, <1>6
    <3>. QED
      BY <1>4, <3>1, FunctionIsSeq
  <2>3. i' \in Nat \ {0}
    BY <1>1, <1>6
  <2>4. TypeOK'
    BY <1>1, <1>2, <2>1, <2>2, <2>3 DEF TypeOK, RangeSet
  <2>5. Checked'
    BY <1>1, <1>2, <2>2 DEF Checked
  <2>6. OnlyRows'
    <3>1. ASSUME NEW k \in DOMAIN out', out'[k] # None
          PROVE  RowOfTensor(out'[k])
      BY <1>1, <1>4, <1>6, <2>2, <3>1 DEF OnlyRows
    <3>. QED
      BY <1>2, <2>1, <3>1 DEF OnlyRows, RowOfTensor
  <2>7. ASSUME ~written
        PROVE  /\ \A k \in DOMAIN out' : k < i' => out'[k] = PlaceOf(tensor, called[k])
               /\ stage' = "reading" => i' <= Len(called) /\ reading' = PlaceOf(tensor, called[i'])
               /\ stage' = "done" => i' > Len(called)
    <3>1. /\ indices = called /\ i <= Len(called) /\ reading = PlaceOf(tensor, called[i])
          /\ \A k \in DOMAIN out : k < i => out[k] = PlaceOf(tensor, called[k])
      BY <1>1, <2>7 DEF Unwritten, InPlace
    <3>2. ASSUME NEW k \in DOMAIN out', k < i'
          PROVE  out'[k] = PlaceOf(tensor, called[k])
      <4>1. k \in DOMAIN out /\ k \in Nat /\ (k < i \/ k = i)
        BY <1>1, <1>4, <1>6, <2>2, <3>2
      <4>. QED
        BY <1>6, <3>1, <4>1
    <3>3. CASE stage' = "reading"
      <4>1. i' \in DOMAIN called
        BY <1>1, <1>5, <1>6, <2>1, <3>1, <3>3
      <4>2. called[i'] \in Nat /\ called[i'] < U32
        BY <1>1, <1>5, <4>1
      <4>3. called[i'] % U32 = called[i']
        BY <1>1, <4>2, Small
      <4>. QED
        BY <1>6, <2>1, <3>1, <3>2, <3>3, <4>3
    <3>. QED
      BY <1>6, <2>1, <3>1, <3>2, <3>3
  <2>8. InPlace'
    BY <1>2, <2>7 DEF InPlace, PlaceOf
  <2>9. ReadsBounded'
    BY <1>1, <1>2, <1>4, <1>6, <2>2 DEF ReadsBounded
  <2>. QED
    BY <1>3, <2>1, <2>4, <2>5, <2>6, <2>8, <2>9 DEF Idle
<1>7. CASE stage' = "refused" /\ reading' = None /\ UNCHANGED <<out, i>>
  <2>1. TypeOK' /\ OnlyRows'
    BY <1>2, <1>7 DEF TypeOK, OnlyRows, RowOfTensor
  <2>. QED
    BY <1>2, <1>3, <1>7, <2>1 DEF Idle, Checked, InPlace, ReadsBounded
<1>. QED
  BY <1>6, <1>7 DEF RowArrives

(* Every step keeps it.                                                    *)
LEMMA GatherStep == GatherInv /\ [Next]_vars => GatherInv'
<1>. SUFFICES ASSUME GatherInv, [Next]_vars PROVE GatherInv'
  OBVIOUS
<1>. USE DEF GatherInv
<1>1. CASE UNCHANGED vars
  BY <1>1 DEF vars, TypeOK, Admitted, Numel, Nbytes, Asked, Idle, Checked, Unwritten,
              InPlace, OnlyRows, RowOfTensor, ReadsBounded
<1>2. CASE ReadFails
  <2>1. TypeOK' /\ OnlyRows' /\ Admitted(tensor)' /\ Asked' /\ Unwritten'
    BY <1>2 DEF ReadFails, TypeOK, OnlyRows, RowOfTensor, Admitted, Numel, Nbytes, Asked, Unwritten
  <2>. QED
    BY <1>2, <2>1 DEF ReadFails, Idle, Checked, InPlace, ReadsBounded
<1>3. CASE CallerWrite
  <2>1. TypeOK' /\ OnlyRows' /\ Admitted(tensor)' /\ Asked'
    BY <1>3 DEF CallerWrite, TypeOK, OnlyRows, RowOfTensor, Admitted, Numel, Nbytes, Asked
  <2>. QED
    BY <1>3, <2>1 DEF CallerWrite, Idle, Checked, Unwritten, InPlace, ReadsBounded
<1>. QED
  BY <1>1, <1>2, <1>3, QueryKeeps, CallKeeps, ArrivalKeeps DEF Next

(* Every state satisfies the invariant.                                    *)
THEOREM GatherInvariant == Spec => []GatherInv
  BY GatherInit, GatherStep, PTL DEF Spec

(* Every variable keeps its type, and a call waits exactly while it reads. *)
THEOREM GatherTypeCorrect == Spec => []TypeOK
<1>1. GatherInv => TypeOK
  BY DEF GatherInv
<1>. QED
  BY <1>1, GatherInvariant, PTL

(* row_range never leaves its tensor: the checks of the parser are enough  *)
(* for the arithmetic that row_range_json does not check.                  *)
THEOREM RowsInsideTensorHolds == Spec => []RowsInsideTensor
<1>1. GatherInv => RowsInsideTensor
  <2>. SUFFICES ASSUME GatherInv, answer # None
       PROVE  /\ answer.at >= tensor.start + tensor.offset
              /\ answer.at + answer.bytes <= tensor.start + tensor.offset + Nbytes(tensor)
    BY DEF RowsInsideTensor
  <2>1. /\ query.first \in Nat /\ query.count \in Nat
        /\ answer = RowRange(tensor, query.first, query.count)
        /\ tensor \in Tensors /\ Admitted(tensor)
    BY DEF GatherInv, Asked, TypeOK
  <2>. QED
    BY <2>1, RangeInside
<1>. QED
  BY <1>1, GatherInvariant, PTL

(* A range of rows is its rows, one after the other.                       *)
THEOREM RowsAbutHolds == Spec => []RowsAbut
<1>1. GatherInv => RowsAbut
  <2>. SUFFICES ASSUME GatherInv, answer # None, NEW k \in 0..(query.count - 1)
       PROVE  LET row == RowRange(tensor, query.first + k, 1)
              IN /\ row # None
                 /\ row.at = answer.at + k * row.bytes
                 /\ query.count * row.bytes = answer.bytes
                 /\ query.count * row.elements = answer.elements
    BY DEF RowsAbut
  <2>1. /\ query.first \in Nat /\ query.count \in Nat
        /\ answer = RowRange(tensor, query.first, query.count)
        /\ tensor \in Tensors /\ Admitted(tensor)
    BY DEF GatherInv, Asked, TypeOK
  <2>. QED
    BY <2>1, RangeAbuts
<1>. QED
  BY <1>1, GatherInvariant, PTL

(* What is decoded is a whole number of blocks.                            *)
THEOREM RowsDecodeHolds == Spec => []RowsDecode
<1>1. GatherInv => RowsDecode
  <2>. SUFFICES ASSUME GatherInv, answer # None
       PROVE  answer.bytes * tensor.block = answer.elements * tensor.type
    BY DEF RowsDecode
  <2>1. /\ query.first \in Nat /\ query.count \in Nat
        /\ answer = RowRange(tensor, query.first, query.count)
        /\ tensor \in Tensors /\ Admitted(tensor)
    BY DEF GatherInv, Asked, TypeOK
  <2>. QED
    BY <2>1, RangeDecodes
<1>. QED
  BY <1>1, GatherInvariant, PTL

(* The two implementations agree about every row of every matrix.          *)
THEOREM NativeAgreesHolds == Spec => []NativeAgrees
<1>1. GatherInv => NativeAgrees
  <2>. SUFFICES ASSUME GatherInv, query # None, query.count = 1, tensor.b = 1
       PROVE  NativeRow(tensor, query.first) = answer
    BY DEF NativeAgrees
  <2>1. /\ query.first \in Nat
        /\ answer = RowRange(tensor, query.first, query.count)
        /\ tensor \in Tensors /\ Admitted(tensor)
    BY DEF GatherInv, Asked, TypeOK
  <2>. QED
    BY <2>1, SameRow
<1>. QED
  BY <1>1, GatherInvariant, PTL

(* Rows that are returned are the rows that were named, if the caller left *)
(* its array alone.                                                        *)
THEOREM RowsAreThoseNamedHolds == Spec => []RowsAreThoseNamed
<1>1. GatherInv => RowsAreThoseNamed
  <2>. SUFFICES ASSUME GatherInv, stage = "done", ~written
       PROVE  out = [k \in DOMAIN called |-> PlaceOf(tensor, called[k])]
    BY DEF RowsAreThoseNamed
  <2>1. /\ called \in Arrays /\ i \in Nat /\ i > Len(called) /\ Len(out) = Len(called)
        /\ out \in Seq(RangeSet \cup {None})
        /\ \A k \in DOMAIN out : k < i => out[k] = PlaceOf(tensor, called[k])
    BY DEF GatherInv, TypeOK, RangeSet, Checked, InPlace
  <2>2. DOMAIN called = 1..Len(called) /\ Len(called) \in Nat
    BY <2>1, ArrayIsSeq
  <2>3. DOMAIN out = 1..Len(called) /\ out \in [1..Len(called) -> RangeSet \cup {None}]
    BY <2>1, LenProperties
  <2>4. \A k \in DOMAIN called : out[k] = PlaceOf(tensor, called[k])
    BY <2>1, <2>2, <2>3
  <2>. QED
    BY <2>2, <2>3, <2>4
<1>. QED
  BY <1>1, GatherInvariant, PTL

(* Whatever the caller writes, only rows of the tensor are read.           *)
THEOREM OnlyRowsOfTensorHolds == Spec => []OnlyRowsOfTensor
<1>1. GatherInv => OnlyRowsOfTensor
  BY DEF GatherInv, OnlyRowsOfTensor, OnlyRows, RowOfTensor, Checked
<1>. QED
  BY <1>1, GatherInvariant, PTL

(* However long the caller makes its array, the reads of a call end one    *)
(* past the rows it named, if a row has elements.                          *)
THEOREM ReadsBoundedHolds == Spec => []ReadsBounded
<1>1. GatherInv => ReadsBounded
  BY DEF GatherInv
<1>. QED
  BY <1>1, GatherInvariant, PTL
=============================================================================
