----------------------------- MODULE BlocksProofs ---------------------------
(***************************************************************************)
(* Theorems about dequantize, for results of any number of blocks: that    *)
(* the lists of what this build reads agree, that each decoder gives every *)
(* value of one block the bits its format has for it, that the loop puts   *)
(* every block in its place, and that so every bit of the source is in one *)
(* field of one value, scale or minimum.                                   *)
(***************************************************************************)
EXTENDS Blocks, SequenceTheorems, FiniteSetTheorems, TLAPS

Supported == DOMAIN Decoders

(* What a decoder does with one block: it has the sizes of the table and   *)
(* gives each value what the format publishes for it.                      *)
OneBlock ==
  \A t \in Supported :
    /\ Decoders[t].block = block_size(t) /\ Decoders[t].bytes = type_size[t]
    /\ block_size(t) \in Nat \ {0} /\ type_size[t] \in Nat \ {0}
    /\ \A k \in 0..(block_size(t) - 1) :
         LET here == {w \in Decoders[t].writes : w.to = k}
         IN here # {} /\ (CHOOSE w \in here : TRUE).value = Published(t, k)

-----------------------------------------------------------------------------
(* The lists.                                                              *)

(* The names of the formats that are decoded.                              *)
LEMMA SupportedNames ==
  Supported = {"F32", "F16", "BF16", "Q4_0", "Q4_1", "Q5_0", "Q5_1", "Q8_0", "IQ4_NL",
               "IQ4_XS", "Q2_K", "Q3_K", "Q4_K", "Q5_K", "Q6_K"}
  BY DEF Supported, Decoders

(* The six lists are one: a type is supported, advertised, found by its    *)
(* name and decoded, or none of these but the name.                        *)
LEMMA ListsAgree ==
  /\ \A t : is_supported(t) <=> t \in Supported
  /\ supported_dtypes = Supported
  /\ \A t \in Supported : dtype_by_name(t) = t /\ t # None
  /\ \A t : dtype_by_name(t) # None => dtype_by_name(t) = t
<1>1. \A t : is_supported(t) <=> t \in Supported
  BY SupportedNames DEF is_supported
<1>2. supported_dtypes = Supported
  BY <1>1, SupportedNames DEF supported_dtypes
<1>3. \A t \in Supported : dtype_by_name(t) = t
  BY SupportedNames DEF dtype_by_name
<1>4. Supported \subseteq DOMAIN type_size
  BY SupportedNames DEF type_size
<1>5. \A t : dtype_by_name(t) # None => dtype_by_name(t) = t
  BY DEF dtype_by_name
<1>. QED
  BY <1>1, <1>2, <1>3, <1>4, <1>5, NoneAssumption

(* What a stage of a call says of its tensor.                              *)
ListsInv ==
  /\ stage = "called" /\ listed =>
       /\ is_supported(name) /\ elements % block_size(name) = 0
       /\ bytes = nbytes(name, elements)
  /\ stage \in {"decoding", "done"} => name \in Supported
  /\ stage = "refused" /\ listed => ~is_supported(name)
  /\ stage = "refused" /\ name \in Supported =>
       elements % block_size(name) # 0 \/ bytes # nbytes(name, elements)

(* Nothing is asked for at first.                                          *)
LEMMA ListsInit == Init => ListsInv
  BY DEF Init, ListsInv

(* Every step keeps the lists together.                                    *)
LEMMA ListsStep == ListsInv /\ [Next]_vars => ListsInv'
<1>. SUFFICES ASSUME ListsInv, [Next]_vars PROVE ListsInv'
  OBVIOUS
<1>1. ASSUME NEW t, NEW count, floats(t, count)
      PROVE  ListsInv'
  BY <1>1, ListsAgree DEF floats, ListsInv
<1>2. ASSUME NEW t, NEW length, NEW count, CallerDequantize(t, length, count)
      PROVE  ListsInv'
  BY <1>2 DEF CallerDequantize, ListsInv
<1>3. CASE dequantize
  <2>. DEFINE t == dtype_by_name(name)
  <2>1. UNCHANGED <<listed, name, bytes, elements>>
    BY <1>3 DEF dequantize
  <2>2. CASE t # None /\ RightLengths(t) /\ t \in Supported
    BY <1>3, <2>1, <2>2, ListsAgree DEF dequantize, ListsInv, Supported
  <2>3. CASE ~(t # None /\ RightLengths(t) /\ t \in Supported)
    <3>1. stage' = "refused" /\ stage = "called"
      BY <1>3, <2>3 DEF dequantize, Supported
    <3>2. name \in Supported => ~RightLengths(name)
      BY <2>3, ListsAgree
    <3>3. name \in Supported =>
            elements % block_size(name) # 0 \/ bytes # nbytes(name, elements)
      BY <3>2 DEF RightLengths, nbytes
    <3>. QED
      BY <2>1, <3>1, <3>3, ListsAgree DEF ListsInv
  <2>. QED
    BY <2>2, <2>3
<1>4. CASE DecodeBlock
  BY <1>4 DEF DecodeBlock, ListsInv
<1>5. CASE DecodeEnds
  BY <1>5 DEF DecodeEnds, ListsInv
<1>6. CASE UNCHANGED vars
  BY <1>6 DEF vars, ListsInv
<1>. QED
  BY <1>1, <1>2, <1>3, <1>4, <1>5, <1>6 DEF Next

(* What the table marks readable and supported_dtypes advertises is        *)
(* decoded unless its lengths are wrong, and nothing else is.              *)
THEOREM ReadableDecodesHolds == Spec => []ReadableDecodes
<1>1. ListsInv => ReadableDecodes
  BY ListsAgree DEF ListsInv, ReadableDecodes
<1>. QED
  BY ListsInit, ListsStep, <1>1, PTL DEF Spec

-----------------------------------------------------------------------------
(* One block.                                                              *)

(* What is written is what the format publishes.                           *)
Right(t, w) == w.value = Published(t, w.to)

(* A write is right if the value it puts is the one the format publishes.  *)
LEMMA RightPut ==
  ASSUME NEW t, NEW to, NEW quant, NEW scale, NEW offset,
         Published(t, to) = Value(quant, scale, offset)
  PROVE  Right(t, Put(to, quant, scale, offset)) /\ Put(to, quant, scale, offset).to = to
  BY DEF Right, Put

(* A field is known by its first bit and its width.                        *)
LEMMA SameBits ==
  ASSUME NEW byte, NEW shift, NEW first, NEW up, NEW width,
         8 * byte + shift = 8 * first + up
  PROVE  Bits(byte, shift, width) = Bits(first, up, width)
  BY DEF Bits

(* Four bits and the two above them are six bits.                          *)
LEMMA SixBits ==
  ASSUME NEW b \in Nat
  PROVE  Bits(b, 0, 4) \o Bits(b, 4, 2) = Bits(b, 0, 6)
<1>. DEFINE lo == Bits(b, 0, 4)
            hi == Bits(b, 4, 2)
            all == Bits(b, 0, 6)
<1>1. /\ lo \in Seq(Nat) /\ hi \in Seq(Nat) /\ all \in Seq(Nat)
      /\ Len(lo) = 4 /\ Len(hi) = 2 /\ Len(all) = 6
  BY DEF Bits
<1>2. /\ \A k \in 1..4 : lo[k] = 8 * b + k - 1 
      /\ \A k \in 1..2 : hi[k] = 8 * b + 4 + k - 1
      /\ \A k \in 1..6 : all[k] = 8 * b + k - 1
  BY DEF Bits
<1>. HIDE DEF lo, hi, all
<1>3. /\ lo \o hi \in Seq(Nat) /\ Len(lo \o hi) = Len(lo) + Len(hi)
      /\ \A k \in 1..(Len(lo) + Len(hi)) :
           (lo \o hi)[k] = IF k <= Len(lo) THEN lo[k] ELSE hi[k - Len(lo)]
  BY <1>1, ConcatProperties
<1>4. ASSUME NEW k \in 1..6 PROVE (lo \o hi)[k] = all[k]
  <2>1. k \in 1..(Len(lo) + Len(hi))
    BY <1>1
  <2>2. CASE k <= 4
    <3>1. (lo \o hi)[k] = lo[k]
      BY <1>1, <1>3, <2>1, <2>2
    <3>. QED
      BY <1>2, <2>2, <3>1
  <2>3. CASE ~(k <= 4)
    <3>1. (lo \o hi)[k] = hi[k - 4]
      BY <1>1, <1>3, <2>1, <2>3
    <3>2. k - 4 \in 1..2 /\ 8 * b + 4 + (k - 4) - 1 = 8 * b + k - 1
      BY <2>3
    <3>. QED
      BY <1>2, <3>1, <3>2
  <2>. QED
    BY <2>2, <2>3
<1>5. Len(lo \o hi) = Len(all) /\ 1..Len(lo \o hi) = 1..6
  BY <1>1, <1>3
<1>6. \A k \in 1..Len(lo \o hi) : (lo \o hi)[k] = all[k]
  BY <1>4, <1>5
<1>7. lo \o hi \in Seq(Nat) /\ all \in Seq(Nat)
  BY <1>1, <1>3
<1>. DEFINE both == lo \o hi
<1>. HIDE DEF both
<1>8. both = all
  BY <1>5, <1>6, <1>7, SeqEqual DEF both
<1>. QED
  BY <1>8 DEF both, lo, hi, all

(* unpack_scale_min of q4_k.rs and q5_k.rs takes sub-block `is`'s fields from*)
(* where the formats have them, on either side of its j < 4.               *)
LEMMA ScalesOf6 ==
  ASSUME NEW is \in 0..7
  PROVE  /\ unpack_scale(is) = Low(4 + 8 * (is \div 4) + (is % 4))
                                \o Bits(4 + (is % 4), 4 + 2 * (is \div 4), 2)
         /\ unpack_min(is) = Bits(8 + 4 * (is \div 4) + (is % 4), 4 * (is \div 4), 4)
                              \o Bits(8 + (is % 4), 4 + 2 * (is \div 4), 2)
<1>. DEFINE q == is % 4
            u == is \div 4
<1>0. (is < 4) \/ ~(is < 4)
  OBVIOUS
<1>1. CASE is < 4
  <2>1. q = is /\ u = 0
    BY <1>1
  <2>2. Bits(4 + is, 0, 4) \o Bits(4 + is, 4, 2) = Bits(4 + is, 0, 6)
    <3>1. 4 + is \in Nat
      OBVIOUS
    <3>. QED
      BY <3>1, SixBits, Zenon
  <2>3. Bits(8 + is, 0, 4) \o Bits(8 + is, 4, 2) = Bits(8 + is, 0, 6)
    <3>1. 8 + is \in Nat
      OBVIOUS
    <3>. QED
      BY <3>1, SixBits, Zenon
  <2>4. unpack_scale(is) = Bits(4 + is, 0, 6) /\ unpack_min(is) = Bits(8 + is, 0, 6)
    BY <1>1 DEF unpack_scale, unpack_min
  <2>. HIDE DEF q, u
  <2>5. /\ unpack_scale(is) = Low(4 + 8 * u + q) \o Bits(4 + q, 4 + 2 * u, 2)
        /\ unpack_min(is) = Bits(8 + 4 * u + q, 4 * u, 4) \o Bits(8 + q, 4 + 2 * u, 2)
    BY SMTT(30), <2>1, <2>2, <2>3, <2>4 DEF Low
  <2>. QED
    BY <2>5 DEF q, u
<1>2. CASE ~(is < 4)
  <2>1. q = is - 4 /\ u = 1
    BY <1>2
  <2>2. /\ unpack_scale(is) = Low(8 + is) \o Bits(is, 6, 2)
        /\ unpack_min(is) = High(8 + is) \o Bits(4 + is, 6, 2)
    BY <1>2 DEF unpack_scale, unpack_min
  <2>. HIDE DEF q, u
  <2>3. /\ 4 + 8 * u + q = 8 + is /\ 4 + q = is /\ 4 + 2 * u = 6
        /\ 8 + 4 * u + q = 8 + is /\ 4 * u = 4 /\ 8 + q = 4 + is
    BY <2>1
  <2>5. /\ unpack_scale(is) = Low(4 + 8 * u + q) \o Bits(4 + q, 4 + 2 * u, 2)
        /\ unpack_min(is) = Bits(8 + 4 * u + q, 4 * u, 4) \o Bits(8 + q, 4 + 2 * u, 2)
    BY <2>2, <2>3, Zenon DEF High
  <2>. QED
    BY <2>5 DEF q, u
<1>. QED
  BY <1>0, <1>1, <1>2, Zenon

(* The four words of q3_k.rs hold the sixteen scales in the order of the   *)
(* format.                                                                 *)
LEMMA ScalesOf3 ==
  ASSUME NEW is \in 0..15
  PROVE  unpack_scales(is) = Plane(96, 16, 8, 4, is) \o Plane(104, 16, 4, 2, is)
<1>. DEFINE k == is \div 4
            b == is % 4
<1>1. Plane(104, 16, 4, 2, is) = Bits(104 + b, 2 * k, 2)
  BY DEF Plane
<1>2. k \in 0..3 /\ b \in 0..3 /\ is = 4 * k + b
  OBVIOUS
<1>3. unpack_scales(is) = (IF k < 2 THEN Low(96 + 4 * k + b) ELSE High(96 + 4 * (k - 2) + b))
                          \o Bits(104 + b, 2 * k, 2)
  BY DEF unpack_scales
<1>4. Plane(96, 16, 8, 4, is) = IF is < 8 THEN Low(96 + is) ELSE High(96 + is - 8)
  BY DEF Plane, Low, High
<1>. HIDE DEF k, b
<1>5. CASE is < 8
  <2>1. k < 2 /\ 96 + 4 * k + b = 96 + is
    BY <1>2, <1>5
  <2>. QED
    BY <1>1, <1>3, <1>4, <1>5, <2>1
<1>6. CASE ~(is < 8)
  <2>1. ~(k < 2) /\ 96 + 4 * (k - 2) + b = 96 + is - 8
    BY <1>2, <1>6
  <2>. QED
    BY <1>1, <1>3, <1>4, <1>6, <2>1
<1>. QED
  BY <1>5, <1>6

(* iq4_xs.rs takes the eight scales from scales_l and scales_h.            *)
LEMMA ScalesOfX ==
  ASSUME NEW ib \in 0..7
  PROVE  Plane(4, 2, 1, 4, ib) \o Plane(2, 4, 1, 2, ib)
           = Bits(4 + ib \div 2, 4 * (ib % 2), 4) \o Bits(2, 2 * ib, 2)
<1>1. Plane(4, 2, 1, 4, ib) = Bits(4 + ib \div 2, 4 * (ib % 2), 4)
  BY DEF Plane
<1>2. 8 * (2 + (ib \div 4) * 1 + ((ib % 4) % 1)) + 2 * ((ib % 4) \div 1) = 8 * 2 + 2 * ib
  OBVIOUS
<1>3. Plane(2, 4, 1, 2, ib) = Bits(2, 2 * ib, 2)
  BY <1>2, SameBits DEF Plane
<1>. QED
  BY <1>1, <1>3

(* The low nibbles of sixteen bytes are the first half of a block of 32, the*)
(* high ones the second.                                                   *)
LEMMA Nibbles ==
  ASSUME NEW b \in Nat, NEW i \in 0..15
  PROVE  /\ Plane(b, 32, 16, 4, i) = Low(b + i)
         /\ Plane(b, 32, 16, 4, i + 16) = High(b + i)
  BY DEF Low, High, Plane

(* The fifth bits are the bits of a u32, in order.                         *)
LEMMA Fifths ==
  ASSUME NEW b \in Nat, NEW i \in 0..31
  PROVE  Plane(b, 8, 1, 1, i) = Bits(b, i, 1)
<1>1. 8 * (b + (i \div 8) * 1 + ((i % 8) % 1)) + 1 * ((i % 8) \div 1) = 8 * b + i
  OBVIOUS
<1>. QED
  BY <1>1, SameBits DEF Plane

(* A value of a block of 32 is in one of its halves.                       *)
LEMMA Halves ==
  ASSUME NEW k \in 0..31
  PROVE  \E i \in 0..15 : k = i \/ k = i + 16
<1>1. k % 16 \in 0..15 /\ (k = k % 16 \/ k = (k % 16) + 16)
  OBVIOUS
<1>. QED
  BY <1>1

(* The copies of one value are right.                                      *)
LEMMA Lays1 ==
  /\ \A w \in copy_f32 : Right("F32", w)
  /\ \A w \in dequant_f16 : Right("F16", w)
  /\ \A w \in dequant_bf16 : Right("BF16", w)
  /\ \A k \in 0..0 : /\ \E w \in copy_f32 : w.to = k
                     /\ \E w \in dequant_f16 : w.to = k
                     /\ \E w \in dequant_bf16 : w.to = k
<1>1. /\ Published("F32", 0) = Value(<<"f32", Bits(0, 0, 32)>>, <<>>, <<>>)
      /\ Published("F16", 0) = Value(Half(0), <<>>, <<>>)
      /\ Published("BF16", 0) = Value(<<"high half", Bits(0, 0, 16)>>, <<>>, <<>>)
  BY DEF Published
<1>2. /\ Right("F32", Put(0, <<"f32", Bits(0, 0, 32)>>, <<>>, <<>>))
      /\ Right("F16", Put(0, Half(0), <<>>, <<>>))
      /\ Right("BF16", Put(0, <<"high half", Bits(0, 0, 16)>>, <<>>, <<>>))
  BY <1>1, RightPut, Zenon
<1>3. \A k \in 0..0 : k = 0
  OBVIOUS
<1>4. \A quant, scale, offset : Put(0, quant, scale, offset).to = 0
  BY DEF Put
<1>. QED
  BY <1>2, <1>3, <1>4, Zenon DEF copy_f32, dequant_f16, dequant_bf16

(* Every write of q4_0.rs is right, and every value of the block is        *)
(* written.                                                                *)
LEMMA LaysQ4_0 ==
  /\ \A w \in q4_0 : Right("Q4_0", w)
  /\ \A k \in 0..31 : \E w \in q4_0 : w.to = k
<1>. DEFINE low(i)  == <<"u-8", Low(2 + i)>>
            high(i) == <<"u-8", High(2 + i)>>
            A(i) == Put(i, low(i), <<Half(0)>>, <<>>)
            B(i) == Put(i + 16, high(i), <<Half(0)>>, <<>>)
<1>1. \A y : Published("Q4_0", y) =
               Value(<<"u-8", Plane(2, 32, 16, 4, y)>>, <<Half(0)>>, <<>>)
  BY DEF Published
<1>2. ASSUME NEW i \in 0..15
      PROVE  Right("Q4_0", A(i)) /\ A(i).to = i /\ Right("Q4_0", B(i)) /\ B(i).to = i + 16
  <2>1. Plane(2, 32, 16, 4, i) = Low(2 + i) /\ Plane(2, 32, 16, 4, i + 16) = High(2 + i)
    BY Nibbles
  <2>3. /\ Published("Q4_0", i) = Value(low(i), <<Half(0)>>, <<>>)
        /\ Published("Q4_0", i + 16) = Value(high(i), <<Half(0)>>, <<>>)
    BY <1>1, <2>1
  <2>. HIDE DEF low, high
  <2>4. Right("Q4_0", A(i)) /\ A(i).to = i
    BY <2>3, RightPut
  <2>5. Right("Q4_0", B(i)) /\ B(i).to = i + 16
    BY <2>3, RightPut
  <2>. QED
    BY <2>4, <2>5
<1>3. q4_0 = UNION {{A(i), B(i)} : i \in 0..15}
  BY DEF q4_0
<1>. HIDE DEF A, B, low, high
<1>. QED
  BY <1>2, <1>3, Halves

(* Every write of q4_1.rs is right, and every value of the block is        *)
(* written.                                                                *)
LEMMA LaysQ4_1 ==
  /\ \A w \in q4_1 : Right("Q4_1", w)
  /\ \A k \in 0..31 : \E w \in q4_1 : w.to = k
<1>. DEFINE low(i)  == <<"u", Low(4 + i)>>
            high(i) == <<"u", High(4 + i)>>
            A(i) == Put(i, low(i), <<Half(0)>>, <<"plus", Half(2)>>)
            B(i) == Put(i + 16, high(i), <<Half(0)>>, <<"plus", Half(2)>>)
<1>1. \A y : Published("Q4_1", y) =
               Value(<<"u", Plane(4, 32, 16, 4, y)>>, <<Half(0)>>, <<"plus", Half(2)>>)
  BY DEF Published
<1>2. ASSUME NEW i \in 0..15
      PROVE  Right("Q4_1", A(i)) /\ A(i).to = i /\ Right("Q4_1", B(i)) /\ B(i).to = i + 16
  <2>1. Plane(4, 32, 16, 4, i) = Low(4 + i) /\ Plane(4, 32, 16, 4, i + 16) = High(4 + i)
    BY Nibbles
  <2>3. /\ Published("Q4_1", i) = Value(low(i), <<Half(0)>>, <<"plus", Half(2)>>)
        /\ Published("Q4_1", i + 16) = Value(high(i), <<Half(0)>>, <<"plus", Half(2)>>)
    BY <1>1, <2>1
  <2>. HIDE DEF low, high
  <2>4. Right("Q4_1", A(i)) /\ A(i).to = i
    BY <2>3, RightPut
  <2>5. Right("Q4_1", B(i)) /\ B(i).to = i + 16
    BY <2>3, RightPut
  <2>. QED
    BY <2>4, <2>5
<1>3. q4_1 = UNION {{A(i), B(i)} : i \in 0..15}
  BY DEF q4_1
<1>. HIDE DEF A, B, low, high
<1>. QED
  BY <1>2, <1>3, Halves

(* Every write of q5_0.rs is right, and every value of the block is        *)
(* written.                                                                *)
LEMMA LaysQ5_0 ==
  /\ \A w \in q5_0 : Right("Q5_0", w)
  /\ \A k \in 0..31 : \E w \in q5_0 : w.to = k
<1>. DEFINE low(i)  == <<"u-16", Low(6 + i) \o Bits(2, i, 1)>>
            high(i) == <<"u-16", High(6 + i) \o Bits(2, i + 16, 1)>>
            A(i) == Put(i, low(i), <<Half(0)>>, <<>>)
            B(i) == Put(i + 16, high(i), <<Half(0)>>, <<>>)
<1>1. \A y : Published("Q5_0", y) =
               Value(<<"u-16", Plane(6, 32, 16, 4, y) \o Plane(2, 8, 1, 1, y)>>, <<Half(0)>>, <<>>)
  BY DEF Published
<1>2. ASSUME NEW i \in 0..15
      PROVE  Right("Q5_0", A(i)) /\ A(i).to = i /\ Right("Q5_0", B(i)) /\ B(i).to = i + 16
  <2>1. Plane(6, 32, 16, 4, i) = Low(6 + i) /\ Plane(6, 32, 16, 4, i + 16) = High(6 + i)
    BY Nibbles
  <2>2. Plane(2, 8, 1, 1, i) = Bits(2, i, 1) /\ Plane(2, 8, 1, 1, i + 16) = Bits(2, i + 16, 1)
    BY Fifths
  <2>3. /\ Published("Q5_0", i) = Value(low(i), <<Half(0)>>, <<>>)
        /\ Published("Q5_0", i + 16) = Value(high(i), <<Half(0)>>, <<>>)
    BY <1>1, <2>1, <2>2
  <2>. HIDE DEF low, high
  <2>4. Right("Q5_0", A(i)) /\ A(i).to = i
    BY <2>3, RightPut
  <2>5. Right("Q5_0", B(i)) /\ B(i).to = i + 16
    BY <2>3, RightPut
  <2>. QED
    BY <2>4, <2>5
<1>3. q5_0 = UNION {{A(i), B(i)} : i \in 0..15}
  BY DEF q5_0
<1>. HIDE DEF A, B, low, high
<1>. QED
  BY <1>2, <1>3, Halves

(* Every write of q5_1.rs is right, and every value of the block is        *)
(* written.                                                                *)
LEMMA LaysQ5_1 ==
  /\ \A w \in q5_1 : Right("Q5_1", w)
  /\ \A k \in 0..31 : \E w \in q5_1 : w.to = k
<1>. DEFINE low(i)  == <<"u", Low(8 + i) \o Bits(4, i, 1)>>
            high(i) == <<"u", High(8 + i) \o Bits(4, i + 16, 1)>>
            A(i) == Put(i, low(i), <<Half(0)>>, <<"plus", Half(2)>>)
            B(i) == Put(i + 16, high(i), <<Half(0)>>, <<"plus", Half(2)>>)
<1>1. \A y : Published("Q5_1", y) =
               Value(<<"u", Plane(8, 32, 16, 4, y) \o Plane(4, 8, 1, 1, y)>>, <<Half(0)>>, <<"plus", Half(2)>>)
  BY DEF Published
<1>2. ASSUME NEW i \in 0..15
      PROVE  Right("Q5_1", A(i)) /\ A(i).to = i /\ Right("Q5_1", B(i)) /\ B(i).to = i + 16
  <2>1. Plane(8, 32, 16, 4, i) = Low(8 + i) /\ Plane(8, 32, 16, 4, i + 16) = High(8 + i)
    BY Nibbles
  <2>2. Plane(4, 8, 1, 1, i) = Bits(4, i, 1) /\ Plane(4, 8, 1, 1, i + 16) = Bits(4, i + 16, 1)
    BY Fifths
  <2>3. /\ Published("Q5_1", i) = Value(low(i), <<Half(0)>>, <<"plus", Half(2)>>)
        /\ Published("Q5_1", i + 16) = Value(high(i), <<Half(0)>>, <<"plus", Half(2)>>)
    BY <1>1, <2>1, <2>2
  <2>. HIDE DEF low, high
  <2>4. Right("Q5_1", A(i)) /\ A(i).to = i
    BY <2>3, RightPut
  <2>5. Right("Q5_1", B(i)) /\ B(i).to = i + 16
    BY <2>3, RightPut
  <2>. QED
    BY <2>4, <2>5
<1>3. q5_1 = UNION {{A(i), B(i)} : i \in 0..15}
  BY DEF q5_1
<1>. HIDE DEF A, B, low, high
<1>. QED
  BY <1>2, <1>3, Halves

(* Every write of iq4_nl.rs is right, and every value of the block is      *)
(* written.                                                                *)
LEMMA LaysIQ4_NL ==
  /\ \A w \in iq4_nl : Right("IQ4_NL", w)
  /\ \A k \in 0..31 : \E w \in iq4_nl : w.to = k
<1>. DEFINE low(i)  == <<"kvalues", Low(2 + i)>>
            high(i) == <<"kvalues", High(2 + i)>>
            A(i) == Put(i, low(i), <<Half(0)>>, <<>>)
            B(i) == Put(i + 16, high(i), <<Half(0)>>, <<>>)
<1>1. \A y : Published("IQ4_NL", y) =
               Value(<<"kvalues", Plane(2, 32, 16, 4, y)>>, <<Half(0)>>, <<>>)
  BY DEF Published
<1>2. ASSUME NEW i \in 0..15
      PROVE  Right("IQ4_NL", A(i)) /\ A(i).to = i /\ Right("IQ4_NL", B(i)) /\ B(i).to = i + 16
  <2>1. Plane(2, 32, 16, 4, i) = Low(2 + i) /\ Plane(2, 32, 16, 4, i + 16) = High(2 + i)
    BY Nibbles
  <2>3. /\ Published("IQ4_NL", i) = Value(low(i), <<Half(0)>>, <<>>)
        /\ Published("IQ4_NL", i + 16) = Value(high(i), <<Half(0)>>, <<>>)
    BY <1>1, <2>1
  <2>. HIDE DEF low, high
  <2>4. Right("IQ4_NL", A(i)) /\ A(i).to = i
    BY <2>3, RightPut
  <2>5. Right("IQ4_NL", B(i)) /\ B(i).to = i + 16
    BY <2>3, RightPut
  <2>. QED
    BY <2>4, <2>5
<1>3. iq4_nl = UNION {{A(i), B(i)} : i \in 0..15}
  BY DEF iq4_nl
<1>. HIDE DEF A, B, low, high
<1>. QED
  BY <1>2, <1>3, Halves

(* Every write of q8_0.rs is right, and every value of the block is        *)
(* written.                                                                *)
LEMMA LaysQ8_0 ==
  /\ \A w \in q8_0 : Right("Q8_0", w)
  /\ \A k \in 0..31 : \E w \in q8_0 : w.to = k
<1>. DEFINE A(i) == Put(i, <<"i8", Bits(2 + i, 0, 8)>>, <<Half(0)>>, <<>>)
<1>1. \A y : Published("Q8_0", y) =
               Value(<<"i8", Plane(2, 1, 1, 8, y)>>, <<Half(0)>>, <<>>)
  BY DEF Published
<1>2. ASSUME NEW i \in 0..31
      PROVE  Right("Q8_0", A(i)) /\ A(i).to = i
  <2>1. Plane(2, 1, 1, 8, i) = Bits(2 + i, 0, 8)
    BY DEF Plane
  <2>. QED
    BY <1>1, <2>1, RightPut
<1>3. q8_0 = {A(i) : i \in 0..31}
  BY DEF q8_0
<1>. HIDE DEF A
<1>. QED
  BY <1>2, <1>3

(* Every write of iq4_xs.rs is right, and every value of the block is      *)
(* written.                                                                *)
LEMMA LaysIQ4_XS ==
  /\ \A w \in iq4_xs : Right("IQ4_XS", w)
  /\ \A k \in 0..255 : \E w \in iq4_xs : w.to = k
<1>. DEFINE ls(ib)   == <<"u-32", Bits(4 + ib \div 2, 4 * (ib % 2), 4) \o Bits(2, 2 * ib, 2)>>
            low(ib, j)  == <<"kvalues", Low(8 + 16 * ib + j)>>
            high(ib, j) == <<"kvalues", High(8 + 16 * ib + j)>>
            A(ib, j) == Put(32 * ib + j, low(ib, j), <<Half(0), ls(ib)>>, <<>>)
            B(ib, j) == Put(32 * ib + 16 + j, high(ib, j), <<Half(0), ls(ib)>>, <<>>)
            X(y)     == <<"u-32", Plane(4, 2, 1, 4, y \div 32) \o Plane(2, 4, 1, 2, y \div 32)>>
<1>1. \A y : Published("IQ4_XS", y) =
               Value(<<"kvalues", Plane(8, 32, 16, 4, y)>>, <<Half(0), X(y)>>, <<>>)
  BY DEF Published
<1>2. ASSUME NEW ib \in 0..7, NEW j \in 0..15
      PROVE  /\ Right("IQ4_XS", A(ib, j)) /\ A(ib, j).to = 32 * ib + j
             /\ Right("IQ4_XS", B(ib, j)) /\ B(ib, j).to = 32 * ib + 16 + j
  <2>1. /\ Plane(8, 32, 16, 4, 32 * ib + j) = Low(8 + 16 * ib + j)
        /\ Plane(8, 32, 16, 4, 32 * ib + 16 + j) = High(8 + 16 * ib + j)
    BY DEF Plane, Low, High
  <2>2. (32 * ib + j) \div 32 = ib /\ (32 * ib + 16 + j) \div 32 = ib
    OBVIOUS
  <2>3. X(32 * ib + j) = ls(ib) /\ X(32 * ib + 16 + j) = ls(ib)
    BY <2>2, ScalesOfX
  <2>. HIDE DEF X, ls
  <2>4. /\ Published("IQ4_XS", 32 * ib + j) =
             Value(low(ib, j), <<Half(0), ls(ib)>>, <<>>)
        /\ Published("IQ4_XS", 32 * ib + 16 + j) =
             Value(high(ib, j), <<Half(0), ls(ib)>>, <<>>)
    BY <1>1, <2>1, <2>3
  <2>. HIDE DEF low, high
  <2>5. Right("IQ4_XS", A(ib, j)) /\ A(ib, j).to = 32 * ib + j
    BY <2>4, RightPut
  <2>6. Right("IQ4_XS", B(ib, j)) /\ B(ib, j).to = 32 * ib + 16 + j
    BY <2>4, RightPut
  <2>. QED
    BY <2>5, <2>6
<1>3. iq4_xs = UNION {{A(ib, j), B(ib, j)} : ib \in 0..7, j \in 0..15}
  BY DEF iq4_xs
<1>4. ASSUME NEW ib \in 0..7, NEW j \in 0..15
      PROVE  A(ib, j) \in iq4_xs /\ B(ib, j) \in iq4_xs
  <2>. DEFINE P(x, y) == {A(x, y), B(x, y)}
  <2>. HIDE DEF A, B
  <2>. DEFINE all == {P(x, y) : x \in 0..7, y \in 0..15}
  <2>1. P(ib, j) \in all
    <3>. HIDE DEF P
    <3>. QED
      OBVIOUS
  <2>2. iq4_xs = UNION all
    BY <1>3
  <2>. HIDE DEF all
  <2>. QED
    BY <2>1, <2>2
<1>5. ASSUME NEW w \in iq4_xs
      PROVE  \E ib \in 0..7, j \in 0..15 : w = A(ib, j) \/ w = B(ib, j)
  <2>. HIDE DEF A, B
  <2>. QED
    BY <1>3, <1>5
<1>. HIDE DEF A, B, low, high, ls
<1>6. ASSUME NEW k \in 0..255
      PROVE  \E ib \in 0..7, j \in 0..15 : k = 32 * ib + j \/ k = 32 * ib + 16 + j
  <2>1. /\ k \div 32 \in 0..7 /\ k % 16 \in 0..15
        /\ k = 32 * (k \div 32) + (k % 16) \/ k = 32 * (k \div 32) + 16 + (k % 16)
    OBVIOUS
  <2>. QED
    BY <2>1
<1>7. ASSUME NEW w \in iq4_xs
      PROVE  Right("IQ4_XS", w)
  BY <1>2, <1>5
<1>8. ASSUME NEW k \in 0..255
      PROVE  \E w \in iq4_xs : w.to = k
  <2>. PICK ib \in 0..7, j \in 0..15 : k = 32 * ib + j \/ k = 32 * ib + 16 + j
    BY <1>6
  <2>. QED
    BY ZenonT(30), <1>2, <1>4
<1>. QED
  BY <1>7, <1>8

(* A value of a block of 256 by its half, its shift, its sixteen and its   *)
(* place there.                                                            *)
LEMMA Quarters ==
  ASSUME NEW k \in 0..255
  PROVE  \E o \in 0..1, j \in 0..3, h \in 0..1, l \in 0..15 : k = 128 * o + 32 * j + 16 * h + l
<1>1. /\ k \div 128 \in 0..1 /\ (k % 128) \div 32 \in 0..3
      /\ (k % 32) \div 16 \in 0..1 /\ k % 16 \in 0..15
      /\ k = 128 * (k \div 128) + 32 * ((k % 128) \div 32) + 16 * ((k % 32) \div 16) + (k % 16)
  OBVIOUS
<1>. QED
  BY <1>1

(* The shifts of q2_k.rs and q3_k.rs read the fields of two bits and the   *)
(* high bits.                                                              *)
LEMMA QuarterOf ==
  ASSUME NEW o \in 0..1, NEW j \in 0..3, NEW h \in 0..1, NEW l \in 0..15,
         NEW y, y = 128 * o + 32 * j + 16 * h + l
  PROVE  /\ Plane(16, 128, 32, 2, y) = Bits(16 + 32 * o + 16 * h + l, 2 * j, 2)
         /\ Plane(32, 128, 32, 2, y) = Bits(32 + 32 * o + 16 * h + l, 2 * j, 2)
         /\ Plane(0, 256, 32, 1, y) = Bits(16 * h + l, 4 * o + j, 1)
         /\ y \div 16 = 8 * o + 2 * j + h
<1>1. /\ y \div 128 = o
      /\ (y % 128) % 32 = 16 * h + l /\ (y % 128) \div 32 = j
  OBVIOUS
<1>2. y \div 256 = 0 /\ (y % 256) % 32 = 16 * h + l /\ (y % 256) \div 32 = 4 * o + j
  OBVIOUS
<1>3. y \div 16 = 8 * o + 2 * j + h
  OBVIOUS
<1>4. /\ 16 + o * 32 + (16 * h + l) = 16 + 32 * o + 16 * h + l
      /\ 32 + o * 32 + (16 * h + l) = 32 + 32 * o + 16 * h + l
      /\ 0 + 0 * 32 + (16 * h + l) = 16 * h + l /\ 1 * (4 * o + j) = 4 * o + j
  OBVIOUS
<1>5. /\ Plane(16, 128, 32, 2, y) = Bits(16 + o * 32 + (16 * h + l), 2 * j, 2)
      /\ Plane(32, 128, 32, 2, y) = Bits(32 + o * 32 + (16 * h + l), 2 * j, 2)
      /\ Plane(0, 256, 32, 1, y) = Bits(0 + 0 * 32 + (16 * h + l), 1 * (4 * o + j), 1)
  BY SMTT(30), <1>1, <1>2, Zenon DEF Plane
<1>. QED
  BY <1>3, <1>4, <1>5, Zenon

(* Every write of q2_k.rs is right, and every value of the block is        *)
(* written.                                                                *)
LEMMA LaysQ2_K ==
  /\ \A w \in q2_k : Right("Q2_K", w)
  /\ \A k \in 0..255 : \E w \in q2_k : w.to = k
<1>. DEFINE quant(o, j, h, l) == <<"u", Bits(16 + 32 * o + 16 * h + l, 2 * j, 2)>>
            scale(is) == <<Half(80), <<"u", Low(is)>>>>
            min(is)   == <<"minus", Half(82), <<"u", High(is)>>>>
            A(o, j, h, l) == Put(128 * o + 32 * j + 16 * h + l, quant(o, j, h, l),
                                 scale(8 * o + 2 * j + h), min(8 * o + 2 * j + h))
<1>1. \A y : Published("Q2_K", y) =
               Value(<<"u", Plane(16, 128, 32, 2, y)>>, scale(y \div 16), min(y \div 16))
  BY DEF Published
<1>2. ASSUME NEW o \in 0..1, NEW j \in 0..3, NEW h \in 0..1, NEW l \in 0..15
      PROVE  /\ Right("Q2_K", A(o, j, h, l))
             /\ A(o, j, h, l).to = 128 * o + 32 * j + 16 * h + l
  <2>. DEFINE y == 128 * o + 32 * j + 16 * h + l
  <2>1. /\ Plane(16, 128, 32, 2, y) = Bits(16 + 32 * o + 16 * h + l, 2 * j, 2)
        /\ y \div 16 = 8 * o + 2 * j + h
    BY QuarterOf
  <2>. HIDE DEF y, scale, min
  <2>2. Published("Q2_K", y) =
          Value(quant(o, j, h, l), scale(8 * o + 2 * j + h), min(8 * o + 2 * j + h))
    BY <1>1, <2>1
  <2>. HIDE DEF quant
  <2>. QED
    BY <2>2, RightPut DEF y
<1>3. q2_k = {A(o, j, h, l) : o \in 0..1, j \in 0..3, h \in 0..1, l \in 0..15}
  BY DEF q2_k
<1>. HIDE DEF A
<1>4. ASSUME NEW w \in q2_k
      PROVE  Right("Q2_K", w)
  <2>1. PICK o \in 0..1, j \in 0..3, h \in 0..1, l \in 0..15 : w = A(o, j, h, l)
    BY <1>3, <1>4
  <2>. QED
    BY <1>2, <2>1
<1>5. ASSUME NEW k \in 0..255
      PROVE  \E w \in q2_k : w.to = k
  <2>1. PICK o \in 0..1, j \in 0..3, h \in 0..1, l \in 0..15 :
               k = 128 * o + 32 * j + 16 * h + l
    BY Quarters
  <2>2. A(o, j, h, l) \in q2_k
    BY <1>3
  <2>3. A(o, j, h, l).to = 128 * o + 32 * j + 16 * h + l
    BY Zenon DEF A, Put
  <2>. QED
    BY <2>1, <2>2, <2>3, Zenon
<1>. QED
  BY <1>4, <1>5

(* Every write of q3_k.rs is right, and every value of the block is        *)
(* written.                                                                *)
LEMMA LaysQ3_K ==
  /\ \A w \in q3_k : Right("Q3_K", w)
  /\ \A k \in 0..255 : \E w \in q3_k : w.to = k
<1>. DEFINE quant(o, j, h, l) == <<"u-4", Bits(32 + 32 * o + 16 * h + l, 2 * j, 2)
                                          \o Bits(16 * h + l, 4 * o + j, 1)>>
            scale(is) == <<Half(108), <<"u-32", unpack_scales(is)>>>>
            A(o, j, h, l) == Put(128 * o + 32 * j + 16 * h + l, quant(o, j, h, l),
                                 scale(8 * o + 2 * j + h), <<>>)
            X(is)     == <<Half(108), <<"u-32", Plane(96, 16, 8, 4, is) \o Plane(104, 16, 4, 2, is)>>>>
<1>1. \A y : Published("Q3_K", y) =
               Value(<<"u-4", Plane(32, 128, 32, 2, y) \o Plane(0, 256, 32, 1, y)>>, X(y \div 16), <<>>)
  BY DEF Published
<1>2. ASSUME NEW o \in 0..1, NEW j \in 0..3, NEW h \in 0..1, NEW l \in 0..15
      PROVE  /\ Right("Q3_K", A(o, j, h, l))
             /\ A(o, j, h, l).to = 128 * o + 32 * j + 16 * h + l
  <2>. DEFINE y == 128 * o + 32 * j + 16 * h + l
              is == 8 * o + 2 * j + h
  <2>1. /\ Plane(32, 128, 32, 2, y) = Bits(32 + 32 * o + 16 * h + l, 2 * j, 2)
        /\ Plane(0, 256, 32, 1, y) = Bits(16 * h + l, 4 * o + j, 1)
        /\ y \div 16 = is
    BY QuarterOf
  <2>2. is \in 0..15
    OBVIOUS
  <2>. HIDE DEF y, is
  <2>3. X(is) = scale(is)
    BY <2>2, ScalesOf3
  <2>. HIDE DEF X, scale
  <2>4. Published("Q3_K", y) = Value(quant(o, j, h, l), scale(is), <<>>)
    BY <1>1, <2>1, <2>3
  <2>. HIDE DEF quant
  <2>. QED
    BY <2>4, RightPut DEF y, is
<1>3. q3_k = {A(o, j, h, l) : o \in 0..1, j \in 0..3, h \in 0..1, l \in 0..15}
  BY DEF q3_k
<1>. HIDE DEF A
<1>4. ASSUME NEW w \in q3_k
      PROVE  Right("Q3_K", w)
  <2>1. PICK o \in 0..1, j \in 0..3, h \in 0..1, l \in 0..15 : w = A(o, j, h, l)
    BY <1>3, <1>4
  <2>. QED
    BY <1>2, <2>1
<1>5. ASSUME NEW k \in 0..255
      PROVE  \E w \in q3_k : w.to = k
  <2>1. PICK o \in 0..1, j \in 0..3, h \in 0..1, l \in 0..15 :
               k = 128 * o + 32 * j + 16 * h + l
    BY Quarters
  <2>2. A(o, j, h, l) \in q3_k
    BY <1>3
  <2>3. A(o, j, h, l).to = 128 * o + 32 * j + 16 * h + l
    BY Zenon DEF A, Put
  <2>. QED
    BY <2>1, <2>2, <2>3, Zenon
<1>. QED
  BY <1>4, <1>5

(* Scale and minimum of sub-block `is` of q4_k and q5_k as they are        *)
(* published.                                                              *)
Scale6(is) == <<Half(0), <<"u", Low(4 + 8 * (is \div 4) + (is % 4))
                                \o Bits(4 + (is % 4), 4 + 2 * (is \div 4), 2)>>>>
Min6(is)   == <<"minus", Half(2), <<"u", Bits(8 + 4 * (is \div 4) + (is % 4), 4 * (is \div 4), 4)
                                         \o Bits(8 + (is % 4), 4 + 2 * (is \div 4), 2)>>>>

(* Scale and minimum of a sub-block as the formats have them.              *)
LEMMA SubBlocks ==
  ASSUME NEW is \in 0..7
  PROVE  Scale6(is) = SubScale(is) /\ Min6(is) = SubMin(is)
  BY ScalesOf6, Zenon DEF Scale6, Min6, SubScale, SubMin

(* A value of a block of 256 by its chunk of 64 and its half there.        *)
LEMMA Eighths ==
  ASSUME NEW y \in 0..255
  PROVE  \E k \in 0..3, l \in 0..31 : y = 64 * k + l \/ y = 64 * k + 32 + l
<1>1. /\ y \div 64 \in 0..3 /\ y % 32 \in 0..31
      /\ y = 64 * (y \div 64) + (y % 32) \/ y = 64 * (y \div 64) + 32 + (y % 32)
  OBVIOUS
<1>. QED
  BY <1>1

(* The nibbles of q4_k.rs and q5_k.rs, and the high bits of the second.    *)
LEMMA EighthOf ==
  ASSUME NEW k \in 0..3, NEW l \in 0..31
  PROVE  /\ \A b \in Nat : /\ Plane(b, 64, 32, 4, 64 * k + l) = Low(b + 32 * k + l)
                           /\ Plane(b, 64, 32, 4, 64 * k + 32 + l) = High(b + 32 * k + l)
         /\ Plane(16, 256, 32, 1, 64 * k + l) = Bits(16 + l, 2 * k, 1)
         /\ Plane(16, 256, 32, 1, 64 * k + 32 + l) = Bits(16 + l, 2 * k + 1, 1)
         /\ (64 * k + l) \div 32 = 2 * k /\ (64 * k + 32 + l) \div 32 = 2 * k + 1
<1>. DEFINE y == 64 * k + l
            z == 64 * k + 32 + l
<1>1. /\ y \div 64 = k /\ (y % 64) % 32 = l /\ (y % 64) \div 32 = 0
      /\ z \div 64 = k /\ (z % 64) % 32 = l /\ (z % 64) \div 32 = 1
  OBVIOUS
<1>2. /\ y \div 256 = 0 /\ (y % 256) % 32 = l /\ (y % 256) \div 32 = 2 * k
      /\ z \div 256 = 0 /\ (z % 256) % 32 = l /\ (z % 256) \div 32 = 2 * k + 1
  OBVIOUS
<1>3. y \div 32 = 2 * k /\ z \div 32 = 2 * k + 1
  OBVIOUS
<1>. HIDE DEF y, z
<1>4. ASSUME NEW b \in Nat
      PROVE  /\ Plane(b, 64, 32, 4, y) = Low(b + 32 * k + l)
             /\ Plane(b, 64, 32, 4, z) = High(b + 32 * k + l)
  <2>1. b + k * 32 + l = b + 32 * k + l /\ 4 * 0 = 0 /\ 4 * 1 = 4
    OBVIOUS
  <2>. QED
    BY <1>1, <2>1, Zenon DEF Plane, Low, High
<1>5. /\ Plane(16, 256, 32, 1, y) = Bits(16 + l, 2 * k, 1)
      /\ Plane(16, 256, 32, 1, z) = Bits(16 + l, 2 * k + 1, 1)
  <2>1. 16 + 0 * 32 + l = 16 + l /\ 1 * (2 * k) = 2 * k /\ 1 * (2 * k + 1) = 2 * k + 1
    OBVIOUS
  <2>. QED
    BY <1>2, <2>1, ZenonT(30) DEF Plane
<1>. QED
  BY <1>3, <1>4, <1>5 DEF y, z

(* Every write of q4_k.rs is right, and every value of the block is        *)
(* written.                                                                *)
LEMMA LaysQ4_K ==
  /\ \A w \in q4_k : Right("Q4_K", w)
  /\ \A y \in 0..255 : \E w \in q4_k : w.to = y
<1>. DEFINE low(k, l)  == <<"u", Low(16 + 32 * k + l)>>
            high(k, l) == <<"u", High(16 + 32 * k + l)>>
            a(k, l)    == 64 * k + l
            b(k, l)    == 64 * k + 32 + l
            A(k, l)    == Put(a(k, l), low(k, l), SubScale(2 * k), SubMin(2 * k))
            B(k, l)    == Put(b(k, l), high(k, l), SubScale(2 * k + 1), SubMin(2 * k + 1))
<1>1. \A y : Published("Q4_K", y) =
               Value(<<"u", Plane(16, 64, 32, 4, y)>>,
                     Scale6(y \div 32), Min6(y \div 32))
  BY DEF Published, Scale6, Min6
<1>2. ASSUME NEW k \in 0..3, NEW l \in 0..31
      PROVE  /\ Right("Q4_K", A(k, l)) /\ A(k, l).to = a(k, l)
             /\ Right("Q4_K", B(k, l)) /\ B(k, l).to = b(k, l)
  <2>1. /\ Plane(16, 64, 32, 4, 64 * k + l) = Low(16 + 32 * k + l)
        /\ Plane(16, 64, 32, 4, 64 * k + 32 + l) = High(16 + 32 * k + l)
    BY ZenonT(30), EighthOf
  <2>2. (64 * k + l) \div 32 = 2 * k /\ (64 * k + 32 + l) \div 32 = 2 * k + 1
    BY EighthOf
  <2>3. 2 * k \in 0..7 /\ 2 * k + 1 \in 0..7
    OBVIOUS
  <2>4. /\ Scale6(2 * k) = SubScale(2 * k) /\ Min6(2 * k) = SubMin(2 * k)
        /\ Scale6(2 * k + 1) = SubScale(2 * k + 1) /\ Min6(2 * k + 1) = SubMin(2 * k + 1)
    BY <2>3, SubBlocks
  <2>5. Published("Q4_K", a(k, l)) = Value(low(k, l), SubScale(2 * k), SubMin(2 * k))
    BY <1>1, <2>1, <2>2, <2>4
  <2>6. Published("Q4_K", b(k, l)) =
          Value(high(k, l), SubScale(2 * k + 1), SubMin(2 * k + 1))
    BY <1>1, <2>1, <2>2, <2>4
  <2>. HIDE DEF low, high, a, b
  <2>7. Right("Q4_K", A(k, l)) /\ A(k, l).to = a(k, l)
    BY <2>5, RightPut
  <2>8. Right("Q4_K", B(k, l)) /\ B(k, l).to = b(k, l)
    BY <2>6, RightPut
  <2>. QED
    BY <2>7, <2>8
<1>3. q4_k = UNION {{A(k, l), B(k, l)} : k \in 0..3, l \in 0..31}
  BY DEF q4_k
<1>. HIDE DEF A, B, low, high
<1>4. ASSUME NEW k \in 0..3, NEW l \in 0..31
      PROVE  A(k, l) \in q4_k /\ B(k, l) \in q4_k
  <2>. DEFINE P(x, y) == {A(x, y), B(x, y)}
              all == {P(x, y) : x \in 0..3, y \in 0..31}
  <2>1. P(k, l) \in all
    <3>. HIDE DEF P
    <3>. QED
      OBVIOUS
  <2>2. q4_k = UNION all
    BY <1>3
  <2>. HIDE DEF all
  <2>. QED
    BY <2>1, <2>2
<1>5. ASSUME NEW w \in q4_k
      PROVE  Right("Q4_K", w)
  <2>1. PICK k \in 0..3, l \in 0..31 : w = A(k, l) \/ w = B(k, l)
    BY <1>3, <1>5
  <2>. QED
    BY <1>2, <2>1
<1>6. ASSUME NEW y \in 0..255
      PROVE  \E w \in q4_k : w.to = y
  <2>1. PICK k \in 0..3, l \in 0..31 : y = 64 * k + l \/ y = 64 * k + 32 + l
    BY Eighths
  <2>2. A(k, l).to = 64 * k + l /\ B(k, l).to = 64 * k + 32 + l
    BY Zenon DEF A, B, a, b, Put
  <2>3. A(k, l) \in q4_k /\ B(k, l) \in q4_k
    BY <1>4
  <2>. QED
    BY <2>1, <2>2, <2>3, Zenon
<1>. QED
  BY <1>5, <1>6

(* Every write of q5_k.rs is right, and every value of the block is        *)
(* written.                                                                *)
LEMMA LaysQ5_K ==
  /\ \A w \in q5_k : Right("Q5_K", w)
  /\ \A y \in 0..255 : \E w \in q5_k : w.to = y
<1>. DEFINE low(k, l)  == <<"u", Low(48 + 32 * k + l) \o Bits(16 + l, 2 * k, 1)>>
            high(k, l) == <<"u", High(48 + 32 * k + l) \o Bits(16 + l, 2 * k + 1, 1)>>
            a(k, l)    == 64 * k + l
            b(k, l)    == 64 * k + 32 + l
            A(k, l)    == Put(a(k, l), low(k, l), SubScale(2 * k), SubMin(2 * k))
            B(k, l)    == Put(b(k, l), high(k, l), SubScale(2 * k + 1), SubMin(2 * k + 1))
<1>1. \A y : Published("Q5_K", y) =
               Value(<<"u", Plane(48, 64, 32, 4, y) \o Plane(16, 256, 32, 1, y)>>,
                     Scale6(y \div 32), Min6(y \div 32))
  BY DEF Published, Scale6, Min6
<1>2. ASSUME NEW k \in 0..3, NEW l \in 0..31
      PROVE  /\ Right("Q5_K", A(k, l)) /\ A(k, l).to = a(k, l)
             /\ Right("Q5_K", B(k, l)) /\ B(k, l).to = b(k, l)
  <2>1. /\ Plane(48, 64, 32, 4, 64 * k + l) = Low(48 + 32 * k + l)
        /\ Plane(48, 64, 32, 4, 64 * k + 32 + l) = High(48 + 32 * k + l)
    BY ZenonT(30), EighthOf
  <2>0. /\ Plane(16, 256, 32, 1, 64 * k + l) = Bits(16 + l, 2 * k, 1)
        /\ Plane(16, 256, 32, 1, 64 * k + 32 + l) = Bits(16 + l, 2 * k + 1, 1)
    BY EighthOf, ZenonT(30)
  <2>2. (64 * k + l) \div 32 = 2 * k /\ (64 * k + 32 + l) \div 32 = 2 * k + 1
    BY EighthOf
  <2>3. 2 * k \in 0..7 /\ 2 * k + 1 \in 0..7
    OBVIOUS
  <2>4. /\ Scale6(2 * k) = SubScale(2 * k) /\ Min6(2 * k) = SubMin(2 * k)
        /\ Scale6(2 * k + 1) = SubScale(2 * k + 1) /\ Min6(2 * k + 1) = SubMin(2 * k + 1)
    BY <2>3, SubBlocks
  <2>5. Published("Q5_K", a(k, l)) = Value(low(k, l), SubScale(2 * k), SubMin(2 * k))
    BY <1>1, <2>0, <2>1, <2>2, <2>4
  <2>6. Published("Q5_K", b(k, l)) =
          Value(high(k, l), SubScale(2 * k + 1), SubMin(2 * k + 1))
    BY <1>1, <2>0, <2>1, <2>2, <2>4
  <2>. HIDE DEF low, high, a, b
  <2>7. Right("Q5_K", A(k, l)) /\ A(k, l).to = a(k, l)
    BY <2>5, RightPut
  <2>8. Right("Q5_K", B(k, l)) /\ B(k, l).to = b(k, l)
    BY <2>6, RightPut
  <2>. QED
    BY <2>7, <2>8
<1>3. q5_k = UNION {{A(k, l), B(k, l)} : k \in 0..3, l \in 0..31}
  BY DEF q5_k
<1>. HIDE DEF A, B, low, high
<1>4. ASSUME NEW k \in 0..3, NEW l \in 0..31
      PROVE  A(k, l) \in q5_k /\ B(k, l) \in q5_k
  <2>. DEFINE P(x, y) == {A(x, y), B(x, y)}
              all == {P(x, y) : x \in 0..3, y \in 0..31}
  <2>1. P(k, l) \in all
    <3>. HIDE DEF P
    <3>. QED
      OBVIOUS
  <2>2. q5_k = UNION all
    BY <1>3
  <2>. HIDE DEF all
  <2>. QED
    BY <2>1, <2>2
<1>5. ASSUME NEW w \in q5_k
      PROVE  Right("Q5_K", w)
  <2>1. PICK k \in 0..3, l \in 0..31 : w = A(k, l) \/ w = B(k, l)
    BY <1>3, <1>5
  <2>. QED
    BY <1>2, <2>1
<1>6. ASSUME NEW y \in 0..255
      PROVE  \E w \in q5_k : w.to = y
  <2>1. PICK k \in 0..3, l \in 0..31 : y = 64 * k + l \/ y = 64 * k + 32 + l
    BY Eighths
  <2>2. A(k, l).to = 64 * k + l /\ B(k, l).to = 64 * k + 32 + l
    BY Zenon DEF A, B, a, b, Put
  <2>3. A(k, l) \in q5_k /\ B(k, l) \in q5_k
    BY <1>4
  <2>. QED
    BY <2>1, <2>2, <2>3, Zenon
<1>. QED
  BY <1>5, <1>6

(* The four assignments of q6_k.rs: nibble, pair of bits, scale.           *)
LEMMA SixthOf ==
  ASSUME NEW o \in 0..1, NEW c \in 0..3, NEW l \in 0..31,
         NEW y, y = 128 * o + 32 * c + l
  PROVE  /\ Plane(0, 128, 64, 4, y) = IF c < 2 THEN Low(64 * o + l + 32 * (c % 2))
                                      ELSE High(64 * o + l + 32 * (c % 2))
         /\ Plane(128, 128, 32, 2, y) = Bits(128 + 32 * o + l, 2 * c, 2)
         /\ Plane(192, 1, 1, 8, y \div 16) = Bits(192 + 8 * o + l \div 16 + 2 * c, 0, 8)
<1>1. y \div 128 = o /\ (y % 128) % 32 = l /\ (y % 128) \div 32 = c
  OBVIOUS
<1>2. (y % 128) % 64 = 32 * (c % 2) + l /\ (y % 128) \div 64 = c \div 2
  OBVIOUS
<1>3. y \div 16 = 8 * o + 2 * c + l \div 16 /\ l \div 16 \in Nat
  OBVIOUS
<1>4. Plane(128, 128, 32, 2, y) = Bits(128 + 32 * o + l, 2 * c, 2)
  <2>1. 128 + o * 32 + l = 128 + 32 * o + l
    OBVIOUS
  <2>. QED
    BY <1>1, <2>1, Zenon DEF Plane
<1>5. Plane(0, 128, 64, 4, y) = IF c < 2 THEN Low(64 * o + l + 32 * (c % 2))
                                ELSE High(64 * o + l + 32 * (c % 2))
  <2>1. 0 + o * 64 + (32 * (c % 2) + l) = 64 * o + l + 32 * (c % 2)
    OBVIOUS
  <2>2. 4 * (c \div 2) = IF c < 2 THEN 0 ELSE 4
    OBVIOUS
  <2>3. Plane(0, 128, 64, 4, y) = Bits(64 * o + l + 32 * (c % 2), 4 * (c \div 2), 4)
    BY <1>1, <1>2, <2>1, Zenon DEF Plane
  <2>. QED
    BY <2>2, <2>3 DEF Low, High
<1>6. Plane(192, 1, 1, 8, y \div 16) = Bits(192 + 8 * o + l \div 16 + 2 * c, 0, 8)
  <2>. DEFINE is == y \div 16
  <2>1. is \in Nat
    BY <1>3
  <2>. HIDE DEF is
  <2>2. is \div 1 = is /\ (is % 1) % 1 = 0 /\ (is % 1) \div 1 = 0 /\ 8 * 0 = 0
    BY <2>1
  <2>3. 192 + is * 1 + 0 = 192 + 8 * o + l \div 16 + 2 * c
    BY <1>3 DEF is
  <2>4. Plane(192, 1, 1, 8, is) = Bits(192 + 8 * o + l \div 16 + 2 * c, 0, 8)
    BY <2>2, <2>3, Zenon DEF Plane
  <2>. QED
    BY <2>4 DEF is
<1>. QED
  BY <1>4, <1>5, <1>6

(* Every write of q6_k.rs is right, and every value of the block is        *)
(* written.                                                                *)
LEMMA LaysQ6_K ==
  /\ \A w \in q6_k : Right("Q6_K", w)
  /\ \A k \in 0..255 : \E w \in q6_k : w.to = k
<1>. DEFINE nibble(o, c, l) == IF c < 2 THEN Low(64 * o + l + 32 * (c % 2))
                               ELSE High(64 * o + l + 32 * (c % 2))
            quant(o, c, l)  == <<"u-32", nibble(o, c, l) \o Bits(128 + 32 * o + l, 2 * c, 2)>>
            scale(o, c, l)  == <<Half(208), <<"i8", Bits(192 + 8 * o + l \div 16 + 2 * c, 0, 8)>>>>
            a(o, c, l)      == 128 * o + 32 * c + l
            A(o, c, l)      == Put(a(o, c, l), quant(o, c, l), scale(o, c, l), <<>>)
<1>1. \A y : Published("Q6_K", y) =
               Value(<<"u-32", Plane(0, 128, 64, 4, y) \o Plane(128, 128, 32, 2, y)>>,
                     <<Half(208), <<"i8", Plane(192, 1, 1, 8, y \div 16)>>>>, <<>>)
  BY DEF Published
<1>2. ASSUME NEW o \in 0..1, NEW c \in 0..3, NEW l \in 0..31
      PROVE  Right("Q6_K", A(o, c, l)) /\ A(o, c, l).to = a(o, c, l)
  <2>. DEFINE y == a(o, c, l)
  <2>1. /\ Plane(0, 128, 64, 4, y) = nibble(o, c, l)
        /\ Plane(128, 128, 32, 2, y) = Bits(128 + 32 * o + l, 2 * c, 2)
        /\ Plane(192, 1, 1, 8, y \div 16) = Bits(192 + 8 * o + l \div 16 + 2 * c, 0, 8)
    BY SixthOf
  <2>. HIDE DEF a, nibble
  <2>2. Published("Q6_K", y) = Value(quant(o, c, l), scale(o, c, l), <<>>)
    BY ZenonT(30), <1>1, <2>1
  <2>. HIDE DEF quant, scale
  <2>. QED
    BY <2>2, RightPut
<1>3. q6_k = {A(o, c, l) : o \in 0..1, c \in 0..3, l \in 0..31}
  BY DEF q6_k
<1>. HIDE DEF A
<1>4. ASSUME NEW w \in q6_k
      PROVE  Right("Q6_K", w)
  <2>1. PICK o \in 0..1, c \in 0..3, l \in 0..31 : w = A(o, c, l)
    BY <1>3, <1>4
  <2>. QED
    BY <1>2, <2>1
<1>5. ASSUME NEW k \in 0..255
      PROVE  \E w \in q6_k : w.to = k
  <2>1. PICK o \in 0..1, c \in 0..3, l \in 0..31 : k = 128 * o + 32 * c + l
    <3>1. /\ k \div 128 \in 0..1 /\ (k % 128) \div 32 \in 0..3 /\ k % 32 \in 0..31
          /\ k = 128 * (k \div 128) + 32 * ((k % 128) \div 32) + (k % 32)
      OBVIOUS
    <3>. QED
      BY <3>1
  <2>2. A(o, c, l) \in q6_k
    BY <1>3
  <2>3. A(o, c, l).to = 128 * o + 32 * c + l
    BY Zenon DEF A, Put, a
  <2>. QED
    BY <2>1, <2>2, <2>3, Zenon
<1>. QED
  BY <1>4, <1>5

(* A decoder has the sizes of the table.                                   *)
LEMMA Sizes ==
  \A t \in Supported :
    /\ Decoders[t].block = block_size(t) /\ Decoders[t].bytes = type_size[t]
    /\ block_size(t) \in Nat \ {0} /\ type_size[t] \in Nat \ {0}
  BY DEF Supported, Decoders, Decoder, block_size, type_size

(* Every decoder puts, into every value of a block, what its format        *)
(* publishes for it.                                                       *)
THEOREM OneBlockHolds == OneBlock
<1>. DEFINE Lays(t) == /\ \A w \in Decoders[t].writes : Right(t, w)
                       /\ \A k \in 0..(block_size(t) - 1) :
                            \E w \in Decoders[t].writes : w.to = k
<1>1. Lays("F32") /\ Lays("F16") /\ Lays("BF16")
  <2>1. /\ Decoders["F32"].writes = copy_f32 /\ block_size("F32") - 1 = 0
        /\ Decoders["F16"].writes = dequant_f16 /\ block_size("F16") - 1 = 0
        /\ Decoders["BF16"].writes = dequant_bf16 /\ block_size("BF16") - 1 = 0
    BY DEF Decoders, Decoder, block_size
  <2>. QED
    BY <2>1, Lays1, Zenon
<1>2. Lays("Q4_0")
  <2>1. Decoders["Q4_0"].writes = q4_0 /\ block_size("Q4_0") - 1 = 31
    BY DEF Decoders, Decoder, block_size
  <2>. QED
    BY <2>1, LaysQ4_0, Zenon
<1>3. Lays("Q4_1")
  <2>1. Decoders["Q4_1"].writes = q4_1 /\ block_size("Q4_1") - 1 = 31
    BY DEF Decoders, Decoder, block_size
  <2>. QED
    BY <2>1, LaysQ4_1, Zenon
<1>4. Lays("Q5_0")
  <2>1. Decoders["Q5_0"].writes = q5_0 /\ block_size("Q5_0") - 1 = 31
    BY DEF Decoders, Decoder, block_size
  <2>. QED
    BY <2>1, LaysQ5_0, Zenon
<1>5. Lays("Q5_1")
  <2>1. Decoders["Q5_1"].writes = q5_1 /\ block_size("Q5_1") - 1 = 31
    BY DEF Decoders, Decoder, block_size
  <2>. QED
    BY <2>1, LaysQ5_1, Zenon
<1>6. Lays("Q8_0")
  <2>1. Decoders["Q8_0"].writes = q8_0 /\ block_size("Q8_0") - 1 = 31
    BY DEF Decoders, Decoder, block_size
  <2>. QED
    BY <2>1, LaysQ8_0, Zenon
<1>7. Lays("IQ4_NL")
  <2>1. Decoders["IQ4_NL"].writes = iq4_nl /\ block_size("IQ4_NL") - 1 = 31
    BY DEF Decoders, Decoder, block_size
  <2>. QED
    BY <2>1, LaysIQ4_NL, Zenon
<1>8. Lays("IQ4_XS")
  <2>1. Decoders["IQ4_XS"].writes = iq4_xs /\ block_size("IQ4_XS") - 1 = 255
    BY DEF Decoders, Decoder, block_size
  <2>. QED
    BY <2>1, LaysIQ4_XS, Zenon
<1>9. Lays("Q2_K")
  <2>1. Decoders["Q2_K"].writes = q2_k /\ block_size("Q2_K") - 1 = 255
    BY DEF Decoders, Decoder, block_size
  <2>. QED
    BY <2>1, LaysQ2_K, Zenon
<1>10. Lays("Q3_K")
  <2>1. Decoders["Q3_K"].writes = q3_k /\ block_size("Q3_K") - 1 = 255
    BY DEF Decoders, Decoder, block_size
  <2>. QED
    BY <2>1, LaysQ3_K, Zenon
<1>11. Lays("Q4_K")
  <2>1. Decoders["Q4_K"].writes = q4_k /\ block_size("Q4_K") - 1 = 255
    BY DEF Decoders, Decoder, block_size
  <2>. QED
    BY <2>1, LaysQ4_K, Zenon
<1>12. Lays("Q5_K")
  <2>1. Decoders["Q5_K"].writes = q5_k /\ block_size("Q5_K") - 1 = 255
    BY DEF Decoders, Decoder, block_size
  <2>. QED
    BY <2>1, LaysQ5_K, Zenon
<1>13. Lays("Q6_K")
  <2>1. Decoders["Q6_K"].writes = q6_k /\ block_size("Q6_K") - 1 = 255
    BY DEF Decoders, Decoder, block_size
  <2>. QED
    BY <2>1, LaysQ6_K, Zenon
<1>. HIDE DEF Lays
<1>14. \A t \in Supported : Lays(t)
  BY <1>1, <1>2, <1>3, <1>4, <1>5, <1>6, <1>7, <1>8, <1>9, <1>10, <1>11, <1>12, <1>13, SupportedNames
<1>15. ASSUME NEW t \in Supported, NEW k \in 0..(block_size(t) - 1)
      PROVE  LET here == {w \in Decoders[t].writes : w.to = k}
             IN here # {} /\ (CHOOSE w \in here : TRUE).value = Published(t, k)
  <2>. DEFINE here == {w \in Decoders[t].writes : w.to = k}
  <2>1. /\ \A w \in Decoders[t].writes : Right(t, w)
        /\ \E w \in Decoders[t].writes : w.to = k
    BY <1>14 DEF Lays
  <2>2. here # {} /\ \A w \in here : w.value = Published(t, k)
    BY <2>1 DEF Right
  <2>. HIDE DEF here
  <2>3. (CHOOSE w \in here : TRUE) \in here
    BY <2>2
  <2>4. here # {} /\ (CHOOSE w \in here : TRUE).value = Published(t, k)
    BY <2>2, <2>3
  <2>. QED
    BY <2>4 DEF here
<1>. QED
  BY <1>15, Sizes DEF OneBlock

-----------------------------------------------------------------------------
(* The blocks.                                                             *)

(* Value y of a result in place, and how many blocks a result has.         *)
Laid(y) == [at    |-> (y \div block_size(name)) * type_size[name],
            value |-> Published(name, y % block_size(name))]

Whole == elements \div block_size(name)

(* The lengths are whole blocks, and the blocks decoded are in place.      *)
BlocksInv ==
  stage \in {"decoding", "done"} =>
    /\ name \in Supported /\ elements \in Nat
    /\ elements = Whole * block_size(name) /\ bytes = Whole * type_size[name]
    /\ n \in 0..Whole /\ (stage = "done" => n = Whole)
    /\ DOMAIN dst = 0..(elements - 1)
    /\ \A y \in DOMAIN dst : y \div block_size(name) < n => dst[y] = Laid(y)

ElementsInv == elements \in Nat /\ (stage \in {"idle", "called"} => n = 0)

(* Division with its remainder.                                            *)
LEMMA Divided ==
  ASSUME NEW x \in Nat, NEW d \in Nat \ {0}
  PROVE  x \div d \in Nat /\ x % d \in 0..(d - 1) /\ x = (x \div d) * d + (x % d)
  BY SMT

(* Multiplication keeps the order, and gives it back.                      *)
LEMMA Scaled ==
  ASSUME NEW x \in Nat, NEW y \in Nat, NEW d \in Nat \ {0}
  PROVE  x * d <= y * d <=> x <= y
  BY SMT

(* A block is left exactly while there are blocks not yet decoded.         *)
LEMMA LeftIsLess ==
  ASSUME BlocksInv, stage = "decoding"
  PROVE  BlockLeft(Decoders[name]) <=> n < Whole
<1>. DEFINE b == block_size(name)
            s == type_size[name]
<1>1. /\ name \in Supported /\ elements = Whole * b /\ bytes = Whole * s /\ n \in 0..Whole
      /\ elements \in Nat
  BY DEF BlocksInv
<1>2. Decoders[name].block = b /\ Decoders[name].bytes = s /\ b \in Nat \ {0} /\ s \in Nat \ {0}
  BY <1>1, OneBlockHolds DEF OneBlock
<1>3. Whole \in Nat
  BY <1>1, <1>2, Divided DEF Whole
<1>. HIDE DEF b, s
<1>4. n + 1 \in Nat
  BY <1>1, <1>3
<1>5. (n + 1) * s <= Whole * s <=> n + 1 <= Whole
  BY <1>2, <1>3, <1>4, Scaled
<1>6. (n + 1) * b <= Whole * b <=> n + 1 <= Whole
  BY <1>2, <1>3, <1>4, Scaled
<1>. QED
  BY <1>1, <1>2, <1>3, <1>5, <1>6 DEF BlockLeft

(* Nothing is decoded at first.                                            *)
LEMMA BlocksInit == Init => ElementsInv /\ BlocksInv
  BY DEF Init, ElementsInv, BlocksInv

(* A call that passes the checks has whole blocks, none of them decoded.   *)
LEMMA CallBegins ==
  ASSUME ElementsInv, dequantize
  PROVE  BlocksInv'
<1>. DEFINE t == dtype_by_name(name)
<1>1. UNCHANGED <<listed, name, bytes, elements, n>> /\ stage = "called" /\ n = 0
  BY DEF dequantize, ElementsInv
<1>2. CASE t # None /\ RightLengths(t) /\ t \in Supported
  <2>1. t = name /\ name \in Supported
    BY <1>2, ListsAgree
  <2>2. stage' = "decoding" /\ dst' = [y \in 0..(elements - 1) |-> <<>>]
    BY <1>2 DEF dequantize, Supported
  <2>3. block_size(name) \in Nat \ {0} /\ elements \in Nat
    BY <2>1, OneBlockHolds DEF OneBlock, ElementsInv
  <2>4. elements % block_size(name) = 0 /\ bytes = Whole * type_size[name]
    BY <1>2, <2>1 DEF RightLengths, Whole
  <2>5. Whole \in Nat /\ elements = Whole * block_size(name)
    <3>. DEFINE b == block_size(name)
    <3>1. /\ elements \div b \in Nat
          /\ elements = (elements \div b) * b + (elements % b)
      BY <2>3, Divided
    <3>2. (elements \div b) * b \in Nat
      BY <2>3, <3>1
    <3>. QED
      BY <2>4, <3>1, <3>2 DEF Whole
  <2>6. Whole' = Whole /\ block_size(name)' = block_size(name)
    BY <1>1 DEF Whole
  <2>7. \A y \in 0..(elements - 1) : ~(y \div block_size(name) < 0)
    BY <2>3, Divided
  <2>. QED
    BY <1>1, <2>1, <2>2, <2>3, <2>4, <2>5, <2>6, <2>7 DEF BlocksInv
<1>3. CASE ~(t # None /\ RightLengths(t) /\ t \in Supported)
  BY <1>3 DEF dequantize, Supported, BlocksInv
<1>. QED
  BY <1>2, <1>3

(* One turn of the loop puts one more block in place.                      *)
LEMMA TurnLays ==
  ASSUME BlocksInv, DecodeBlock
  PROVE  BlocksInv'
<1>. DEFINE b == block_size(name)
            d == Decoders[name]
<1>1. /\ stage = "decoding" /\ stage' = stage /\ n' = n + 1
      /\ UNCHANGED <<listed, name, bytes, elements>>
  BY DEF DecodeBlock
<1>2. /\ name \in Supported /\ elements \in Nat
      /\ elements = Whole * b /\ bytes = Whole * type_size[name]
      /\ n \in 0..Whole /\ DOMAIN dst = 0..(elements - 1)
      /\ \A y \in DOMAIN dst : y \div b < n => dst[y] = Laid(y)
  BY <1>1 DEF BlocksInv
<1>3. d.block = b /\ d.bytes = type_size[name] /\ b \in Nat \ {0}
  BY <1>2, OneBlockHolds DEF OneBlock
<1>4. n < Whole
  BY <1>1, LeftIsLess DEF DecodeBlock
<1>5. Whole \in Nat
  BY <1>2, <1>3, Divided DEF Whole
<1>6. Whole' = Whole /\ \A y : Laid(y)' = Laid(y)
  BY <1>1 DEF Whole, Laid
<1>7. dst' = [y \in DOMAIN dst |->
                LET here == {w \in d.writes : w.to = y % d.block}
                IN IF y \div d.block # n \/ here = {} THEN dst[y]
                   ELSE [at |-> n * d.bytes, value |-> (CHOOSE w \in here : TRUE).value]]
  BY DEF DecodeBlock
<1>8. ASSUME NEW y \in DOMAIN dst, y \div b < n + 1
      PROVE  dst'[y] = Laid(y)
  <2>1. y \div b \in Nat /\ y % b \in 0..(b - 1)
    <3>1. y \in Nat
      BY <1>2, <1>8
    <3>. QED
      BY <1>3, <3>1, Divided
  <2>2. CASE y \div b # n
    <3>1. dst'[y] = dst[y]
      BY <1>3, <1>7, <2>2
    <3>. QED
      BY <1>2, <1>8, <2>1, <2>2, <3>1
  <2>3. CASE y \div b = n
    <3>. DEFINE here == {w \in d.writes : w.to = y % b}
    <3>1. here # {} /\ (CHOOSE w \in here : TRUE).value = Published(name, y % b)
      BY <1>2, <2>1, OneBlockHolds DEF OneBlock
    <3>2. dst'[y] = IF y \div b # n \/ here = {} THEN dst[y]
                    ELSE [at |-> n * d.bytes, value |-> (CHOOSE w \in here : TRUE).value]
      BY <1>3, <1>7
    <3>. HIDE DEF here
    <3>. QED
      BY <1>3, <2>3, <3>1, <3>2 DEF Laid
  <2>. QED
    BY <2>2, <2>3
<1>9. DOMAIN dst' = DOMAIN dst
  BY <1>7
<1>. HIDE DEF d
<1>. QED
  BY <1>1, <1>2, <1>3, <1>4, <1>5, <1>6, <1>8, <1>9 DEF BlocksInv

(* Every step keeps the blocks in place.                                   *)
LEMMA BlocksStep ==
  ElementsInv /\ BlocksInv /\ [Next]_vars => ElementsInv' /\ BlocksInv'
<1>. SUFFICES ASSUME ElementsInv, BlocksInv, [Next]_vars PROVE ElementsInv' /\ BlocksInv'
  OBVIOUS
<1>1. ASSUME NEW t, NEW count \in Elements, floats(t, count)
      PROVE  ElementsInv' /\ BlocksInv'
  BY <1>1, CallAssumption DEF floats, ElementsInv, BlocksInv
<1>2. ASSUME NEW t, NEW length, NEW count \in Elements, CallerDequantize(t, length, count)
      PROVE  ElementsInv' /\ BlocksInv'
  BY <1>2, CallAssumption DEF CallerDequantize, ElementsInv, BlocksInv
<1>3. CASE dequantize
  <2>1. ElementsInv'
    BY <1>3 DEF dequantize, ElementsInv
  <2>. QED
    BY <1>3, <2>1, CallBegins
<1>4. CASE DecodeBlock
  <2>1. ElementsInv'
    BY <1>4 DEF DecodeBlock, ElementsInv
  <2>. QED
    BY <1>4, <2>1, TurnLays
<1>5. CASE DecodeEnds
  <2>1. ElementsInv'
    BY <1>5 DEF DecodeEnds, ElementsInv
  <2>2. name \in Supported /\ n \in 0..Whole /\ ~(n < Whole) /\ elements \in Nat
    BY <1>5, LeftIsLess DEF DecodeEnds, BlocksInv
  <2>3. Whole \in Nat
    BY <2>2, Divided, OneBlockHolds DEF Whole, OneBlock
  <2>4. n = Whole
    BY <2>2, <2>3
  <2>5. Whole' = Whole /\ \A y : Laid(y)' = Laid(y)
    BY <1>5 DEF DecodeEnds, Whole, Laid
  <2>. QED
    BY <1>5, <2>1, <2>4, <2>5 DEF DecodeEnds, BlocksInv
<1>6. CASE UNCHANGED vars
  BY <1>6 DEF vars, ElementsInv, BlocksInv, Whole, Laid
<1>. QED
  BY <1>1, <1>2, <1>3, <1>4, <1>5, <1>6 DEF Next

(* dequantize lays out a result of any length as its format publishes, for *)
(* every format it decodes.                                                *)
THEOREM AsLaidOutHolds ==
  Spec => []AsLaidOut
<1>1. ASSUME ElementsInv, BlocksInv
      PROVE  AsLaidOut
  <2>. SUFFICES ASSUME stage = "done", NEW y \in 0..(elements - 1)
                PROVE  dst[y] = Laid(y)
    BY DEF AsLaidOut, Laid
  <2>. DEFINE b == block_size(name)
  <2>1. /\ name \in Supported /\ elements \in Nat /\ elements = Whole * b /\ n = Whole
        /\ DOMAIN dst = 0..(elements - 1)
        /\ \A x \in DOMAIN dst : x \div b < n => dst[x] = Laid(x)
    BY <1>1 DEF BlocksInv
  <2>2. b \in Nat \ {0} /\ y \in Nat
    BY <2>1, OneBlockHolds DEF OneBlock
  <2>3. y \div b \in Nat /\ y = (y \div b) * b + (y % b) /\ y % b \in 0..(b - 1)
    BY <2>2, Divided
  <2>4. Whole \in Nat
    BY <2>1, <2>2, Divided DEF Whole
  <2>. HIDE DEF b
  <2>5. (y \div b) * b <= y /\ y < Whole * b
    BY <2>1, <2>2, <2>3, <2>4, SMT
  <2>6. ~(Whole <= y \div b)
    BY <2>2, <2>3, <2>4, <2>5, Scaled, SMT
  <2>. QED
    BY <2>1, <2>3, <2>4, <2>6 DEF b
<1>. QED
  BY BlocksInit, BlocksStep, <1>1, PTL DEF Spec

-----------------------------------------------------------------------------
(* The bits.                                                               *)

(* The bits a sequence holds.                                              *)
BitsOf(s) == {s[k] : k \in DOMAIN s}

(* The fields f, one for each index, have no bit in common and are all of  *)
(* R; those of the set H likewise, where a field may be named twice.       *)
Tiles(f, R) == /\ UNION {f[k] : k \in DOMAIN f} = R
               /\ \A j, k \in DOMAIN f : j # k => f[j] \cap f[k] = {}

Parts(H, R) == /\ UNION H = R
               /\ \A g, h \in H : g = h \/ g \cap h = {}

(* Division has one quotient and one remainder.                            *)
LEMMA DivisionOf ==
  ASSUME NEW q, NEW d, NEW r, NEW x, q \in Nat, d \in Nat \ {0}, r \in 0..(d - 1),
         x = q * d + r
  PROVE  x \in Nat /\ x \div d = q /\ x % d = r
<1>1. q * d \in Nat
  OBVIOUS
<1>2. x \in Nat
  BY <1>1
<1>. DEFINE p == x \div d
            s == x % d
<1>3. p \in Nat /\ s \in 0..(d - 1) /\ x = p * d + s
  BY <1>2, Divided
<1>. HIDE DEF p, s
<1>4. p * d \in Nat
  BY <1>3
<1>5. ASSUME p < q PROVE FALSE
  <2>1. p + 1 \in Nat /\ p + 1 <= q
    BY <1>3, <1>5
  <2>2. (p + 1) * d <= q * d
    BY <2>1, Scaled
  <2>3. (p + 1) * d = p * d + d
    BY <1>3
  <2>. QED
    BY <1>1, <1>3, <1>4, <2>2, <2>3
<1>6. ASSUME q < p PROVE FALSE
  <2>1. q + 1 \in Nat /\ q + 1 <= p
    BY <1>3, <1>6
  <2>2. (q + 1) * d <= p * d
    BY <1>3, <2>1, Scaled
  <2>3. (q + 1) * d = q * d + d
    OBVIOUS
  <2>. QED
    BY <1>1, <1>3, <1>4, <2>2, <2>3
<1>7. p = q
  BY <1>3, <1>5, <1>6
<1>8. s = r
  BY <1>1, <1>3, <1>7
<1>. QED
  BY <1>2, <1>7, <1>8 DEF p, s

(* Below a product.                                                        *)
LEMMA BelowProduct ==
  ASSUME NEW q \in Nat, NEW d \in Nat \ {0}, NEW r \in 0..(d - 1), NEW bound \in Nat
  PROVE  q * d + r < bound * d <=> q < bound
<1>1. q * d \in Nat /\ bound * d \in Nat
  OBVIOUS
<1>2. ASSUME q < bound PROVE q * d + r < bound * d
  <2>1. q + 1 \in Nat /\ q + 1 <= bound
    BY <1>2
  <2>2. (q + 1) * d <= bound * d
    BY <2>1, Scaled
  <2>3. (q + 1) * d = q * d + d
    OBVIOUS
  <2>. QED
    BY <1>1, <2>2, <2>3
<1>3. ASSUME bound <= q PROVE ~(q * d + r < bound * d)
  <2>2. bound * d <= q * d
    BY <1>3, Scaled
  <2>. QED
    BY <1>1, <2>2
<1>. QED
  BY <1>2, <1>3

(* A field of neighbouring bits.                                           *)
LEMMA BitsOfBits ==
  ASSUME NEW byte, NEW shift, NEW width, byte \in Nat, shift \in Nat, width \in Nat
  PROVE  /\ Bits(byte, shift, width) \in Seq(Nat)
         /\ BitsOf(Bits(byte, shift, width))
              = (8 * byte + shift)..(8 * byte + shift + width - 1)
<1>. DEFINE lo == 8 * byte + shift
            s == [k \in 1..width |-> lo + k - 1]
<1>1. lo \in Nat /\ \A k \in 1..width : lo + k - 1 \in Nat
  OBVIOUS
<1>2. Bits(byte, shift, width) = s
  BY DEF Bits
<1>. HIDE DEF lo
<1>3. s \in Seq(Nat)
  BY <1>1
<1>4. BitsOf(s) = lo..(lo + width - 1)
  <2>1. BitsOf(s) = {lo + k - 1 : k \in 1..width}
    BY DEF BitsOf
  <2>2. ASSUME NEW b \in lo..(lo + width - 1)
        PROVE  \E k \in 1..width : b = lo + k - 1
    <3>1. b - lo + 1 \in 1..width /\ b = lo + (b - lo + 1) - 1
      BY <1>1
    <3>. QED
      BY <3>1
  <2>3. \A k \in 1..width : lo + k - 1 \in lo..(lo + width - 1)
    BY <1>1
  <2>. QED
    BY <2>1, <2>2, <2>3
<1>. QED
  BY <1>2, <1>3, <1>4 DEF lo

(* A field of w bits from bit s of byte x on has the bits first to end.    *)
FieldAt(x, s, w, first, end) ==
  x \in Nat /\ s \in Nat /\ w \in Nat /\ first = 8 * x + s /\ end = first + w - 1

(* It has these bits.                                                      *)
LEMMA OneField ==
  ASSUME NEW x, NEW s, NEW w, NEW first, NEW end, FieldAt(x, s, w, first, end)
  PROVE  Bits(x, s, w) \in Seq(Nat) /\ BitsOf(Bits(x, s, w)) = first..end
<1>1. x \in Nat /\ s \in Nat /\ w \in Nat /\ first = 8 * x + s /\ end = 8 * x + s + w - 1
  BY DEF FieldAt
<1>2. /\ Bits(x, s, w) \in Seq(Nat)
      /\ BitsOf(Bits(x, s, w)) = (8 * x + s)..(8 * x + s + w - 1)
  BY <1>1, BitsOfBits
<1>. QED
  BY <1>1, <1>2, Zenon

(* A field of two parts.                                                   *)
LEMMA BitsOfTwo ==
  ASSUME NEW s \in Seq(Nat), NEW u \in Seq(Nat)
  PROVE  BitsOf(s \o u) = BitsOf(s) \cup BitsOf(u)
<1>. DEFINE w == s \o u
<1>1. /\ w \in Seq(Nat) /\ Len(w) = Len(s) + Len(u) /\ Len(s) \in Nat /\ Len(u) \in Nat
      /\ \A i \in 1..(Len(s) + Len(u)) : w[i] = IF i <= Len(s) THEN s[i] ELSE u[i - Len(s)]
  BY ConcatProperties, LenProperties
<1>2. DOMAIN w = 1..(Len(s) + Len(u)) /\ DOMAIN s = 1..Len(s) /\ DOMAIN u = 1..Len(u)
  BY <1>1, LenProperties
<1>. HIDE DEF w
<1>3. ASSUME NEW b \in BitsOf(w) PROVE b \in BitsOf(s) \cup BitsOf(u)
  <2>1. PICK i \in 1..(Len(s) + Len(u)) : b = w[i]
    BY <1>2 DEF BitsOf
  <2>2. CASE i <= Len(s)
    <3>1. i \in 1..Len(s) /\ b = s[i]
      BY <1>1, <2>1, <2>2
    <3>. QED
      BY <1>2, <3>1 DEF BitsOf
  <2>3. CASE ~(i <= Len(s))
    <3>1. i - Len(s) \in 1..Len(u) /\ b = u[i - Len(s)]
      BY <1>1, <2>1, <2>3
    <3>. QED
      BY <1>2, <3>1 DEF BitsOf
  <2>. QED
    BY <2>2, <2>3
<1>4. ASSUME NEW b \in BitsOf(s) PROVE b \in BitsOf(w)
  <2>1. PICK i \in 1..Len(s) : b = s[i]
    BY <1>2 DEF BitsOf
  <2>2. i \in 1..(Len(s) + Len(u)) /\ b = w[i]
    BY <1>1, <2>1
  <2>. QED
    BY <1>2, <2>2 DEF BitsOf
<1>5. ASSUME NEW b \in BitsOf(u) PROVE b \in BitsOf(w)
  <2>1. PICK i \in 1..Len(u) : b = u[i]
    BY <1>2 DEF BitsOf
  <2>. DEFINE j == i + Len(s)
  <2>2. j \in 1..(Len(s) + Len(u)) /\ ~(j <= Len(s)) /\ j - Len(s) = i
    BY <1>1
  <2>3. b = w[j]
    BY <1>1, <2>1, <2>2
  <2>. QED
    BY <1>2, <2>2, <2>3 DEF BitsOf
<1>. QED
  BY <1>3, <1>4, <1>5 DEF w

(* Tilings of parts that have nothing in common.                           *)
LEMMA PartsOne == \A R : Parts({R}, R)
  BY DEF Parts

(* Parts of R and parts of S, which have nothing in common, are parts of   *)
(* both.                                                                   *)
LEMMA PartsJoin ==
  ASSUME NEW H, NEW G, NEW R, NEW S, Parts(H, R), Parts(G, S), R \cap S = {}
  PROVE  Parts(H \cup G, R \cup S)
<1>1. UNION (H \cup G) = R \cup S
  BY DEF Parts
<1>2. ASSUME NEW g \in H \cup G, NEW h \in H \cup G, g # h
      PROVE  g \cap h = {}
  <2>1. CASE g \in H /\ h \in H
    BY <1>2, <2>1 DEF Parts
  <2>2. CASE g \in G /\ h \in G
    BY <1>2, <2>2 DEF Parts
  <2>3. CASE g \in H /\ h \in G
    <3>1. g \subseteq R /\ h \subseteq S
      BY <2>3 DEF Parts
    <3>. QED
      BY <3>1
  <2>4. CASE g \in G /\ h \in H
    <3>1. g \subseteq S /\ h \subseteq R
      BY <2>4 DEF Parts
    <3>. QED
      BY <3>1
  <2>. QED
    BY <2>1, <2>2, <2>3, <2>4
<1>. QED
  BY <1>1, <1>2 DEF Parts

(* The fields of a tiling are parts.                                       *)
LEMMA TilesParts ==
  ASSUME NEW f, NEW R, Tiles(f, R)
  PROVE  Parts({f[k] : k \in DOMAIN f}, R)
  BY DEF Tiles, Parts

(* Two tilings of different bits, field by field, tile both.               *)
LEMMA TilesJoin ==
  ASSUME NEW I, NEW f, NEW g, NEW h, NEW R, NEW S, Tiles(f, R), Tiles(g, S), R \cap S = {},
         DOMAIN f = I, DOMAIN g = I, DOMAIN h = I, \A k \in I : h[k] = f[k] \cup g[k]
  PROVE  Tiles(h, R \cup S)
<1>1. \A k \in I : f[k] \subseteq R /\ g[k] \subseteq S
  BY DEF Tiles
<1>2. UNION {h[k] : k \in DOMAIN h} = R \cup S
  <2>1. R = UNION {f[k] : k \in I} /\ S = UNION {g[k] : k \in I}
    BY DEF Tiles
  <2>. QED
    BY <2>1
<1>3. ASSUME NEW j \in I, NEW k \in I, j # k
      PROVE  h[j] \cap h[k] = {}
  <2>1. f[j] \cap f[k] = {} /\ g[j] \cap g[k] = {}
    BY <1>3 DEF Tiles
  <2>. QED
    BY <1>1, <2>1
<1>. QED
  BY <1>2, <1>3 DEF Tiles

-----------------------------------------------------------------------------
(* The planes.                                                             *)

(* A plane with fields of W bits, m to a byte, in chunks of K values.      *)
Shape(K, S, W, m) == /\ K \in Nat \ {0} /\ S \in Nat \ {0} /\ W \in Nat \ {0} /\ m \in Nat \ {0}
                     /\ K = m * S /\ 8 = m * W

(* Value y of a plane is field s of byte r of chunk c.                     *)
Lies(base, K, S, W, y, c, s, r) ==
  /\ Plane(base, K, S, W, y) \in Seq(Nat)
  /\ BitsOf(Plane(base, K, S, W, y))
       = (8 * (base + (c * S + r)) + s * W)..(8 * (base + (c * S + r)) + s * W + W - 1)

(* It is where its number says.                                            *)
LEMMA PlaneIs ==
  ASSUME NEW K, NEW S, NEW W, NEW m, NEW base, NEW c, NEW s, NEW r, NEW y,
         Shape(K, S, W, m), base \in Nat, c \in Nat, s \in 0..(m - 1), r \in 0..(S - 1),
         y = c * K + (s * S + r)
  PROVE  Lies(base, K, S, W, y, c, s, r)
<1>1. /\ K \in Nat \ {0} /\ S \in Nat \ {0} /\ W \in Nat \ {0} /\ m \in Nat \ {0}
      /\ K = m * S /\ s \in Nat /\ s < m
  BY DEF Shape
<1>2. c * S \in Nat /\ s * S \in Nat /\ s * W \in Nat
  BY <1>1
<1>. DEFINE z == s * S + r
<1>3. z \in 0..(K - 1)
  <2>1. s * S + r < m * S
    BY <1>1, BelowProduct
  <2>. QED
    BY <1>1, <1>2, <2>1
<1>11. z = s * S + r
  OBVIOUS
<1>. HIDE DEF z
<1>4. z \div S = s /\ z % S = r
  <2>1. s \in Nat /\ S \in Nat \ {0} /\ r \in 0..(S - 1) /\ z = s * S + r
    BY <1>1, <1>11
  <2>. QED
    BY ONLY <2>1, DivisionOf
<1>5. y \div K = c /\ y % K = z
  <2>1. y = c * K + z
    BY DEF z
  <2>2. c \in Nat /\ K \in Nat \ {0} /\ z \in 0..(K - 1)
    BY <1>1, <1>3
  <2>. QED
    BY ONLY <2>1, <2>2, DivisionOf
<1>. DEFINE byte == base + (c * S + r)
            up == s * W
<1>6. Plane(base, K, S, W, y) = Bits(base + c * S + r, W * s, W)
  BY <1>4, <1>5, Zenon DEF Plane
<1>7. base + c * S + r = byte /\ W * s = up
  BY <1>1, <1>2
<1>8. byte \in Nat /\ up \in Nat /\ W \in Nat
  BY <1>1, <1>2
<1>. HIDE DEF byte, up
<1>9. Plane(base, K, S, W, y) = Bits(byte, up, W)
  BY <1>6, <1>7, Zenon
<1>10. /\ Bits(byte, up, W) \in Seq(Nat)
       /\ BitsOf(Bits(byte, up, W)) = (8 * byte + up)..(8 * byte + up + W - 1)
  BY ONLY <1>8, BitsOfBits
<1>. QED
  BY <1>9, <1>10, Zenon DEF Lies, byte, up

(* Value y is field s of byte r of chunk c.                                *)
InPlane(K, S, m, y) ==
  \E c \in Nat, s \in 0..(m - 1), r \in 0..(S - 1) : y = c * K + (s * S + r)

(* Every value is some field of some byte of some chunk.                   *)
LEMMA PlaneOf ==
  ASSUME NEW K, NEW S, NEW W, NEW m, Shape(K, S, W, m), NEW y, y \in Nat
  PROVE  InPlane(K, S, m, y)
<1>1. K \in Nat \ {0} /\ S \in Nat \ {0} /\ m \in Nat \ {0} /\ K = m * S
  BY DEF Shape
<1>. DEFINE c == y \div K
            z == y % K
<1>2. c \in Nat /\ z \in 0..(K - 1) /\ y = c * K + z
  BY <1>1, Divided
<1>. HIDE DEF c, z
<1>. DEFINE s == z \div S
            r == z % S
<1>3. s \in Nat /\ r \in 0..(S - 1) /\ z = s * S + r
  <2>1. z \in Nat
    BY <1>1, <1>2
  <2>. QED
    BY <1>1, <2>1, Divided, Zenon
<1>. HIDE DEF s, r
<1>4. s < m
  <2>1. s * S + r < m * S
    BY <1>1, <1>2, <1>3
  <2>. QED
    BY <1>1, <1>3, <2>1, BelowProduct
<1>5. s \in 0..(m - 1)
  BY <1>1, <1>3, <1>4
<1>6. y = c * K + (s * S + r) /\ c \in Nat /\ r \in 0..(S - 1)
  BY <1>2, <1>3, Zenon
<1>. QED
  BY <1>5, <1>6, Zenon DEF InPlane

(* Where chunk, field and byte are below their bounds, so is the value,    *)
(* and the byte.                                                           *)
LEMMA PlaneBelow ==
  ASSUME NEW K, NEW S, NEW W, NEW m, Shape(K, S, W, m), NEW chunks \in Nat,
         NEW c \in Nat, NEW s \in 0..(m - 1), NEW r \in 0..(S - 1)
  PROVE  /\ c * K + (s * S + r) \in Nat /\ c * S + r \in Nat
         /\ c * K + (s * S + r) < chunks * K <=> c < chunks
         /\ c * S + r < chunks * S <=> c < chunks
<1>1. /\ K \in Nat \ {0} /\ S \in Nat \ {0} /\ m \in Nat \ {0} /\ K = m * S
      /\ s \in Nat /\ s < m
  BY DEF Shape
<1>2. c * S \in Nat /\ s * S \in Nat /\ c * K \in Nat
  BY <1>1
<1>3. s * S + r < m * S
  BY <1>1, BelowProduct
<1>. DEFINE z == s * S + r
<1>4. z \in 0..(K - 1)
  BY <1>1, <1>2, <1>3
<1>. HIDE DEF z
<1>5. c * K + z < chunks * K <=> c < chunks
  BY <1>1, <1>4, BelowProduct
<1>6. c * S + r < chunks * S <=> c < chunks
  BY <1>1, BelowProduct
<1>. QED
  BY <1>2, <1>4, <1>5, <1>6 DEF z

(* The fields of the values 0..last of a plane.                            *)
PlaneBits(base, K, S, W, last) == [y \in 0..last |-> BitsOf(Plane(base, K, S, W, y))]

(* They are the bits from first to end.                                    *)
Covers(base, K, S, W, last, first, end) ==
  /\ Tiles(PlaneBits(base, K, S, W, last), first..end)
  /\ \A y \in 0..last : /\ PlaneBits(base, K, S, W, last)[y] # {}
                        /\ Plane(base, K, S, W, y) \in Seq(Nat)

(* So many whole chunks, from byte base on.                                *)
Extent(base, K, S, chunks, last, first, end) ==
  /\ base \in Nat /\ chunks \in Nat
  /\ last = chunks * K - 1 /\ first = 8 * base /\ end = 8 * (base + chunks * S) - 1

(* The fields of whole chunks are the bits of their bytes.                 *)
LEMMA PlaneTiles ==
  ASSUME NEW K, NEW S, NEW W, NEW m, NEW base, NEW chunks, NEW last, NEW first, NEW end,
         Shape(K, S, W, m), Extent(base, K, S, chunks, last, first, end)
  PROVE  Covers(base, K, S, W, last, first, end)
<1>. DEFINE Lo(c, s, r) == 8 * (base + (c * S + r)) + s * W
            N == chunks * S
            I == 0..(chunks * K - 1)
            R == (8 * base)..(8 * (base + N) - 1)
            f == PlaneBits(base, K, S, W, last)
<1>1. /\ K \in Nat \ {0} /\ S \in Nat \ {0} /\ W \in Nat \ {0} /\ m \in Nat \ {0} /\ 8 = m * W
      /\ N \in Nat /\ chunks * K \in Nat /\ base \in Nat /\ chunks \in Nat
  BY DEF Shape, Extent
<1>9. last = chunks * K - 1 /\ 0..last = I /\ first..end = R
  BY DEF Extent
<1>10. f = [y \in I |-> BitsOf(Plane(base, K, S, W, y))] /\ DOMAIN f = I
  BY <1>9 DEF PlaneBits
<1>. HIDE DEF N, f
<1>2. ASSUME NEW y \in I
      PROVE  \E c \in 0..(chunks - 1), s \in 0..(m - 1), r \in 0..(S - 1) :
               /\ y = c * K + (s * S + r) /\ c * S + r \in 0..(N - 1)
               /\ Plane(base, K, S, W, y) \in Seq(Nat)
               /\ f[y] = Lo(c, s, r)..(Lo(c, s, r) + W - 1)
  <2>1. y \in Nat /\ y < chunks * K
    BY <1>1
  <2>2. PICK c \in Nat, s \in 0..(m - 1), r \in 0..(S - 1) : y = c * K + (s * S + r)
    <3>1. InPlane(K, S, m, y)
      BY <2>1, PlaneOf
    <3>. QED
      BY <3>1 DEF InPlane
  <2>3. c < chunks /\ c * S + r \in Nat /\ c * S + r < N
    BY <1>1, <2>1, <2>2, PlaneBelow DEF N
  <2>4. c \in 0..(chunks - 1) /\ c * S + r \in 0..(N - 1)
    BY <1>1, <2>3
  <2>5. /\ Plane(base, K, S, W, y) \in Seq(Nat)
        /\ BitsOf(Plane(base, K, S, W, y)) = Lo(c, s, r)..(Lo(c, s, r) + W - 1)
    <3>1. Lies(base, K, S, W, y, c, s, r)
      BY <1>1, <2>2, PlaneIs
    <3>. QED
      BY <3>1, Zenon DEF Lies
  <2>6. f[y] = BitsOf(Plane(base, K, S, W, y))
    BY <1>10
  <2>. HIDE DEF Lo
  <2>. QED
    BY <2>2, <2>4, <2>5, <2>6
<1>3. ASSUME NEW s \in 0..(m - 1), NEW i \in 0..(W - 1)
      PROVE  s * W \in Nat /\ s * W + i \in 0..7
  <2>1. s * W \in Nat /\ s * W + i < m * W
    BY <1>1, BelowProduct
  <2>. QED
    BY <1>1, <2>1
<1>4. ASSUME NEW x \in 0..(N - 1), NEW s \in 0..(m - 1)
      PROVE  LET lo == 8 * (base + x) + s * W
             IN lo \in Nat /\ lo..(lo + W - 1) \subseteq R /\ lo \in lo..(lo + W - 1)
  <2>. DEFINE u == s * W
              l == W - 1
  <2>3. 0 \in 0..(W - 1) /\ l \in 0..(W - 1)
    BY <1>1
  <2>. HIDE DEF l
  <2>4. s * W \in Nat /\ s * W + 0 \in 0..7 /\ s * W + l \in 0..7
    BY <1>3, <2>3, Zenon
  <2>. HIDE DEF u
  <2>5. u \in Nat /\ u + 0 \in 0..7 /\ u + l \in 0..7
    BY <2>4, Zenon DEF u
  <2>1. u \in Nat /\ u + (W - 1) \in 0..7 /\ W - 1 \in Nat
    BY <1>1, <2>5 DEF l
  <2>2. LET lo == 8 * (base + x) + u
        IN lo \in Nat /\ lo..(lo + W - 1) \subseteq R /\ lo \in lo..(lo + W - 1)
    <3>. DEFINE lo == 8 * (base + x) + u
                hi == lo + W - 1
    <3>1. lo \in Nat /\ hi \in Nat /\ 8 * base <= lo /\ lo <= hi /\ hi <= 8 * (base + N) - 1
      BY <1>1, <2>1
    <3>. HIDE DEF lo, hi
    <3>2. lo \in Nat /\ lo..hi \subseteq R /\ lo \in lo..hi
      BY <1>1, <3>1
    <3>. QED
      BY <3>2 DEF lo, hi
  <2>. QED
    BY <2>2 DEF u
<1>5. \A y \in I : f[y] # {} /\ f[y] \subseteq R /\ Plane(base, K, S, W, y) \in Seq(Nat)
  <2>. SUFFICES ASSUME NEW y \in I
                PROVE  f[y] # {} /\ f[y] \subseteq R /\ Plane(base, K, S, W, y) \in Seq(Nat)
    OBVIOUS
  <2>1. PICK c \in 0..(chunks - 1), s \in 0..(m - 1), r \in 0..(S - 1) :
               /\ c * S + r \in 0..(N - 1) /\ Plane(base, K, S, W, y) \in Seq(Nat)
               /\ f[y] = Lo(c, s, r)..(Lo(c, s, r) + W - 1)
    BY <1>2
  <2>. DEFINE x == c * S + r
  <2>2. x \in 0..(N - 1) /\ Lo(c, s, r) = 8 * (base + x) + s * W
    BY <2>1
  <2>. HIDE DEF x, Lo, R
  <2>3. LET lo == Lo(c, s, r) IN lo..(lo + W - 1) \subseteq R /\ lo \in lo..(lo + W - 1)
    BY <1>4, <2>2
  <2>. QED
    BY <2>1, <2>3
<1>6. ASSUME NEW b \in R PROVE \E y \in I : b \in f[y]
  <2>. DEFINE x == (b \div 8) - base
              j == b % 8
  <2>1. x \in 0..(N - 1) /\ j \in 0..7 /\ b = 8 * (base + x) + j
    BY <1>1
  <2>. HIDE DEF x, j
  <2>. DEFINE c == x \div S
              r == x % S
  <2>9. x \in Nat /\ j \in Nat
    BY <1>1, <2>1
  <2>2. c \in Nat /\ r \in 0..(S - 1) /\ x = c * S + r
    BY <1>1, <2>9, Divided, Zenon
  <2>. HIDE DEF c, r
  <2>. DEFINE s == j \div W
              i == j % W
  <2>3. s \in Nat /\ i \in 0..(W - 1) /\ j = s * W + i
    BY <1>1, <2>9, Divided, Zenon
  <2>. HIDE DEF s, i
  <2>4. s \in 0..(m - 1)
    <3>1. s * W + i < m * W
      BY <1>1, <2>1, <2>3
    <3>2. s < m
      BY <1>1, <2>3, <3>1, BelowProduct
    <3>. QED
      BY <1>1, <2>3, <3>2
  <2>5. c < chunks
    <3>1. c * S + r < chunks * S
      BY <1>1, <2>1, <2>2 DEF N
    <3>. QED
      BY <1>1, <2>2, <3>1, BelowProduct
  <2>. DEFINE y == c * K + (s * S + r)
  <2>6. y \in I
    <3>1. y \in Nat /\ y < chunks * K
      BY <1>1, <2>2, <2>4, <2>5, PlaneBelow
    <3>. HIDE DEF y
    <3>. QED
      BY <1>1, <3>1
  <2>7. f[y] = Lo(c, s, r)..(Lo(c, s, r) + W - 1)
    <3>1. BitsOf(Plane(base, K, S, W, y)) = Lo(c, s, r)..(Lo(c, s, r) + W - 1)
      <4>1. y = c * K + (s * S + r)
        OBVIOUS
      <4>. HIDE DEF y
      <4>2. Lies(base, K, S, W, y, c, s, r)
        BY <1>1, <2>2, <2>4, <4>1, PlaneIs
      <4>. QED
        BY <4>2, Zenon DEF Lies
    <3>2. f[y] = BitsOf(Plane(base, K, S, W, y))
      <4>. HIDE DEF y
      <4>. QED
        BY <1>10, <2>6
    <3>. QED
      BY <3>1, <3>2, Zenon
  <2>8. b \in Lo(c, s, r)..(Lo(c, s, r) + W - 1)
    <3>. DEFINE u == s * W
                v == 8 * (base + x)
    <3>1. u \in Nat /\ v \in Nat /\ b = v + (u + i) /\ Lo(c, s, r) = v + u
      BY <1>1, <2>1, <2>2, <2>3
    <3>. HIDE DEF u, v, Lo
    <3>. QED
      BY <1>1, <2>3, <3>1
  <2>. QED
    BY <2>6, <2>7, <2>8
<1>7. ASSUME NEW y \in I, NEW z \in I, NEW b \in f[y], b \in f[z]
      PROVE  y = z
  <2>. HIDE DEF Lo
  <2>1. PICK c \in 0..(chunks - 1), s \in 0..(m - 1), r \in 0..(S - 1) :
               /\ y = c * K + (s * S + r) /\ c * S + r \in 0..(N - 1)
               /\ f[y] = Lo(c, s, r)..(Lo(c, s, r) + W - 1)
    BY <1>2
  <2>2. PICK d \in 0..(chunks - 1), t \in 0..(m - 1), q \in 0..(S - 1) :
               /\ z = d * K + (t * S + q) /\ d * S + q \in 0..(N - 1)
               /\ f[z] = Lo(d, t, q)..(Lo(d, t, q) + W - 1)
    <3>1. \E d \in 0..(chunks - 1), t \in 0..(m - 1), q \in 0..(S - 1) :
               /\ z = d * K + (t * S + q) /\ d * S + q \in 0..(N - 1)
               /\ Plane(base, K, S, W, z) \in Seq(Nat)
               /\ f[z] = Lo(d, t, q)..(Lo(d, t, q) + W - 1)
      BY ONLY <1>2, z \in I, Zenon
    <3>. QED
      BY <3>1
  <2>. DEFINE i == b - Lo(c, s, r)
              k == b - Lo(d, t, q)
              u == s * W
              v == t * W
              x == c * S + r
              w == d * S + q
  <2>3. u \in Nat /\ v \in Nat /\ x \in 0..(N - 1) /\ w \in 0..(N - 1)
    BY <1>1, <2>1, <2>2
  <2>4. Lo(c, s, r) = 8 * (base + x) + u /\ Lo(d, t, q) = 8 * (base + w) + v
    BY DEF Lo
  <2>. HIDE DEF u, v, x, w
  <2>5. b \in Int /\ i \in 0..(W - 1) /\ k \in 0..(W - 1)
    <3>. DEFINE lo == Lo(c, s, r)
                hi == Lo(d, t, q)
    <3>1. lo \in Nat /\ hi \in Nat
      BY <1>1, <2>3, <2>4
    <3>2. b \in lo..(lo + W - 1) /\ b \in hi..(hi + W - 1)
      BY <1>7, <2>1, <2>2, Zenon
    <3>. HIDE DEF lo, hi
    <3>3. b \in Int /\ b - lo \in 0..(W - 1) /\ b - hi \in 0..(W - 1)
      BY <1>1, <3>1, <3>2
    <3>. QED
      BY <3>3 DEF lo, hi
  <2>6. b = 8 * (base + x) + (u + i) /\ b = 8 * (base + w) + (v + k)
    BY <1>1, <2>3, <2>4, <2>5
  <2>. HIDE DEF i, k
  <2>7. u + i \in 0..7 /\ v + k \in 0..7
    BY <1>3, <2>5 DEF u, v
  <2>8. x = w /\ u + i = v + k
    <3>. DEFINE p == u + i
                o == v + k
    <3>1. p \in 0..7 /\ o \in 0..7 /\ b = 8 * (base + x) + p /\ b = 8 * (base + w) + o
      BY <2>6, <2>7
    <3>2. x \in Nat /\ w \in Nat
      BY <2>3
    <3>. HIDE DEF p, o
    <3>3. x = w /\ p = o
      BY <1>1, <3>1, <3>2
    <3>. QED
      BY <3>3 DEF p, o
  <2>9. s = t
    <3>. DEFINE j == s * W + i
    <3>1. s \in Nat /\ t \in Nat /\ j = s * W + i /\ j = t * W + k
      BY <1>1, <2>8 DEF u, v
    <3>. HIDE DEF j
    <3>2. j \div W = s
      BY <1>1, <2>5, <3>1, DivisionOf
    <3>3. j \div W = t
      BY <1>1, <2>5, <3>1, DivisionOf
    <3>. QED
      BY <3>2, <3>3
  <2>10. c = d /\ r = q
    <3>1. c \in Nat /\ d \in Nat /\ x = c * S + r /\ x = d * S + q
      BY <2>8 DEF x, w
    <3>4. S \in Nat \ {0} /\ r \in 0..(S - 1) /\ q \in 0..(S - 1)
      BY <1>1
    <3>2. x \div S = c /\ x % S = r
      BY ONLY <3>1, <3>4, DivisionOf
    <3>3. x \div S = d /\ x % S = q
      BY ONLY <3>1, <3>4, DivisionOf
    <3>. QED
      BY <3>2, <3>3
  <2>. QED
    BY <2>1, <2>2, <2>9, <2>10, Zenon
<1>. HIDE DEF R, I
<1>8. Tiles(f, R)
  <2>1. UNION {f[k] : k \in DOMAIN f} = R
    BY <1>10, <1>5, <1>6
  <2>2. \A j, k \in DOMAIN f : j # k => f[j] \cap f[k] = {}
    BY <1>10, <1>7
  <2>. QED
    BY <2>1, <2>2, Zenon DEF Tiles
<1>. QED
  BY <1>5, <1>8, <1>9, Zenon DEF Covers, f

(* The planes of the formats.                                              *)
LEMMA Planes ==
  /\ Covers(2, 32, 16, 4, 31, 16, 143) /\ Covers(4, 32, 16, 4, 31, 32, 159)
  /\ Covers(6, 32, 16, 4, 31, 48, 175) /\ Covers(8, 32, 16, 4, 31, 64, 191)
  /\ Covers(2, 8, 1, 1, 31, 16, 47) /\ Covers(4, 8, 1, 1, 31, 32, 63)
  /\ Covers(2, 1, 1, 8, 31, 16, 271)
  /\ Covers(8, 32, 16, 4, 255, 64, 1087)
  /\ Covers(4, 2, 1, 4, 7, 32, 63) /\ Covers(2, 4, 1, 2, 7, 16, 31)
  /\ Covers(16, 128, 32, 2, 255, 128, 639) /\ Covers(0, 2, 1, 4, 31, 0, 127)
  /\ Covers(32, 128, 32, 2, 255, 256, 767) /\ Covers(0, 256, 32, 1, 255, 0, 255)
  /\ Covers(96, 16, 8, 4, 15, 768, 831) /\ Covers(104, 16, 4, 2, 15, 832, 863)
  /\ Covers(16, 64, 32, 4, 255, 128, 1151)
  /\ Covers(48, 64, 32, 4, 255, 384, 1407) /\ Covers(16, 256, 32, 1, 255, 128, 383)
  /\ Covers(0, 128, 64, 4, 255, 0, 1023) /\ Covers(128, 128, 32, 2, 255, 1024, 1535)
  /\ Covers(192, 1, 1, 8, 15, 1536, 1663)
<1>1. Shape(32, 16, 4, 2) /\ Shape(8, 1, 1, 8) /\ Shape(1, 1, 8, 1) /\ Shape(2, 1, 4, 2)
      /\ Shape(4, 1, 2, 4) /\ Shape(128, 32, 2, 4) /\ Shape(256, 32, 1, 8)
      /\ Shape(16, 8, 4, 2) /\ Shape(16, 4, 2, 4) /\ Shape(64, 32, 4, 2) /\ Shape(128, 64, 4, 2)
  BY DEF Shape
<1>2. /\ Extent(2, 32, 16, 1, 31, 16, 143) /\ Extent(4, 32, 16, 1, 31, 32, 159)
      /\ Extent(6, 32, 16, 1, 31, 48, 175) /\ Extent(8, 32, 16, 1, 31, 64, 191)
      /\ Extent(2, 8, 1, 4, 31, 16, 47) /\ Extent(4, 8, 1, 4, 31, 32, 63)
      /\ Extent(2, 1, 1, 32, 31, 16, 271) /\ Extent(8, 32, 16, 8, 255, 64, 1087)
      /\ Extent(4, 2, 1, 4, 7, 32, 63) /\ Extent(2, 4, 1, 2, 7, 16, 31)
      /\ Extent(16, 128, 32, 2, 255, 128, 639) /\ Extent(0, 2, 1, 16, 31, 0, 127)
      /\ Extent(32, 128, 32, 2, 255, 256, 767) /\ Extent(0, 256, 32, 1, 255, 0, 255)
      /\ Extent(96, 16, 8, 1, 15, 768, 831) /\ Extent(104, 16, 4, 1, 15, 832, 863)
      /\ Extent(16, 64, 32, 4, 255, 128, 1151) /\ Extent(48, 64, 32, 4, 255, 384, 1407)
      /\ Extent(16, 256, 32, 1, 255, 128, 383) /\ Extent(0, 128, 64, 2, 255, 0, 1023)
      /\ Extent(128, 128, 32, 2, 255, 1024, 1535) /\ Extent(192, 1, 1, 16, 15, 1536, 1663)
  BY DEF Extent
<1>. QED
  BY <1>1, <1>2, PlaneTiles

-----------------------------------------------------------------------------
(* The fields of a block.                                                  *)

(* Bits that follow one another.                                           *)
Run(first, top) == first..top

(* The bits of a value of a block, and those it shares, from the block's   *)
(* first bit on.                                                           *)
OwnBits(v) == BitsOf(v.quant[2])

SharedBits(v) == {BitsOf(v.scale[k][2]) : k \in DOMAIN v.scale}
                 \cup {BitsOf(v.offset[k][2]) : k \in 2..Len(v.offset)}

(* The bits of the values 0..last of a block, own and shared, are 0..end,  *)
(* each of one field.                                                      *)
Tiled(t, last, end) ==
  /\ \A y \in 0..last : OwnBits(Published(t, y)) # {}
  /\ \A y, z \in 0..last :
       y # z => OwnBits(Published(t, y)) \cap OwnBits(Published(t, z)) = {}
  /\ Parts({OwnBits(Published(t, y)) : y \in 0..last}
             \cup UNION {SharedBits(Published(t, y)) : y \in 0..last}, 0..end)

(* Put together from the values' own fields f, which tile R, and from the  *)
(* shared ones H, which are S.                                             *)
LEMMA TiledBy ==
  ASSUME NEW t, NEW last, NEW end, NEW f, NEW R, NEW H, NEW S,
         DOMAIN f = 0..last, Tiles(f, R),
         \A y \in 0..last : f[y] # {} /\ OwnBits(Published(t, y)) = f[y],
         UNION {SharedBits(Published(t, y)) : y \in 0..last} = H, Parts(H, S),
         R \cap S = {}, R \cup S = 0..end
  PROVE  Tiled(t, last, end)
<1>1. {OwnBits(Published(t, y)) : y \in 0..last} = {f[k] : k \in DOMAIN f}
  OBVIOUS
<1>2. Parts({f[k] : k \in DOMAIN f}, R)
  BY TilesParts
<1>3. Parts({f[k] : k \in DOMAIN f} \cup H, R \cup S)
  BY <1>2, PartsJoin
<1>4. \A y, z \in 0..last :
        y # z => OwnBits(Published(t, y)) \cap OwnBits(Published(t, z)) = {}
  BY DEF Tiles
<1>. QED
  BY <1>1, <1>3, <1>4, Zenon DEF Tiled

(* What a value of each make shares.                                       *)
LEMMA SharedIs ==
  ASSUME NEW v
  PROVE  /\ v.scale = <<>> /\ v.offset = <<>> => SharedBits(v) = {}
         /\ \A a : v.scale = <<a>> /\ v.offset = <<>> => SharedBits(v) = {BitsOf(a[2])}
         /\ \A a, b : v.scale = <<a, b>> /\ v.offset = <<>> =>
              SharedBits(v) = {BitsOf(a[2]), BitsOf(b[2])}
         /\ \A a, o, c : v.scale = <<a>> /\ v.offset = <<o, c>> =>
              SharedBits(v) = {BitsOf(a[2]), BitsOf(c[2])}
         /\ \A a, b, o, c, d : v.scale = <<a, b>> /\ v.offset = <<o, c, d>> =>
              SharedBits(v) = {BitsOf(a[2]), BitsOf(b[2])} \cup {BitsOf(c[2]), BitsOf(d[2])}
<1>1. SharedBits(v) = {BitsOf(v.scale[k][2]) : k \in DOMAIN v.scale}
                      \cup {BitsOf(v.offset[k][2]) : k \in 2..Len(v.offset)}
  BY DEF SharedBits
<1>2. {BitsOf(<<>>[k][2]) : k \in DOMAIN <<>>} = {}
  OBVIOUS
<1>3. \A a : {BitsOf(<<a>>[k][2]) : k \in DOMAIN <<a>>} = {BitsOf(a[2])}
  OBVIOUS
<1>4. \A a, b : {BitsOf(<<a, b>>[k][2]) : k \in DOMAIN <<a, b>>} = {BitsOf(a[2]), BitsOf(b[2])}
  OBVIOUS
<1>5. {BitsOf(<<>>[k][2]) : k \in 2..Len(<<>>)} = {}
  OBVIOUS
<1>6. \A o, c : {BitsOf(<<o, c>>[k][2]) : k \in 2..Len(<<o, c>>)} = {BitsOf(c[2])}
  OBVIOUS
<1>7. \A o, c, d : {BitsOf(<<o, c, d>>[k][2]) : k \in 2..Len(<<o, c, d>>)}
                     = {BitsOf(c[2]), BitsOf(d[2])}
  OBVIOUS
<1>. HIDE DEF SharedBits
<1>8. v.scale = <<>> /\ v.offset = <<>> => SharedBits(v) = {}
  BY <1>1, <1>2, <1>5
<1>9. \A a : v.scale = <<a>> /\ v.offset = <<>> => SharedBits(v) = {BitsOf(a[2])}
  BY <1>1, <1>3, <1>5
<1>10. \A a, b : v.scale = <<a, b>> /\ v.offset = <<>> =>
         SharedBits(v) = {BitsOf(a[2]), BitsOf(b[2])}
  BY <1>1, <1>4, <1>5
<1>11. \A a, o, c : v.scale = <<a>> /\ v.offset = <<o, c>> =>
         SharedBits(v) = {BitsOf(a[2]), BitsOf(c[2])}
  BY <1>1, <1>3, <1>6
<1>12. \A a, b, o, c, d : v.scale = <<a, b>> /\ v.offset = <<o, c, d>> =>
         SharedBits(v) = {BitsOf(a[2]), BitsOf(b[2])} \cup {BitsOf(c[2]), BitsOf(d[2])}
  BY <1>1, <1>4, <1>7
<1>. QED
  BY ONLY <1>8, <1>9, <1>10, <1>11, <1>12

(* The bits of a half-precision number.                                    *)
LEMMA Halfs ==
  /\ BitsOf(Half(0)[2]) = Run(0, 15) /\ BitsOf(Half(2)[2]) = Run(16, 31)
  /\ BitsOf(Half(80)[2]) = Run(640, 655) /\ BitsOf(Half(82)[2]) = Run(656, 671)
  /\ BitsOf(Half(108)[2]) = Run(864, 879) /\ BitsOf(Half(208)[2]) = Run(1664, 1679)
<1>1. \A b : Half(b)[2] = Bits(b, 0, 16)
  BY DEF Half
<1>2. /\ FieldAt(0, 0, 16, 0, 15) /\ FieldAt(2, 0, 16, 16, 31)
      /\ FieldAt(80, 0, 16, 640, 655) /\ FieldAt(82, 0, 16, 656, 671)
      /\ FieldAt(108, 0, 16, 864, 879) /\ FieldAt(208, 0, 16, 1664, 1679)
  BY DEF FieldAt
<1>3. \A x, shift, w, first, end :
        FieldAt(x, shift, w, first, end) => BitsOf(Bits(x, shift, w)) = Run(first, end)
  BY OneField DEF Run
<1>4. /\ BitsOf(Bits(0, 0, 16)) = Run(0, 15) /\ BitsOf(Bits(2, 0, 16)) = Run(16, 31)
      /\ BitsOf(Bits(80, 0, 16)) = Run(640, 655) /\ BitsOf(Bits(82, 0, 16)) = Run(656, 671)
      /\ BitsOf(Bits(108, 0, 16)) = Run(864, 879) /\ BitsOf(Bits(208, 0, 16)) = Run(1664, 1679)
  BY ONLY <1>2, <1>3
<1>. QED
  BY ONLY <1>1, <1>4

(* Values that share the same fields.                                      *)
LEMMA AllShare ==
  ASSUME NEW t, NEW last, last \in Nat, NEW H, \A y \in 0..last : SharedBits(Published(t, y)) = H
  PROVE  UNION {SharedBits(Published(t, y)) : y \in 0..last} = H
<1>1. 0 \in 0..last
  OBVIOUS
<1>. QED
  BY <1>1

(* What a value shares with all others is H, and with its sub-block g.     *)
SharesSub(t, d, H, g) ==
  \A y \in 0..255 : SharedBits(Published(t, y)) = H \cup g[y \div d]

(* The sub-blocks of d values are numbered 0..top.                         *)
Subs(d, top) == (d = 16 /\ top = 15) \/ (d = 32 /\ top = 7)

(* What all the values share is H and what each sub-block has.             *)
LEMMA SubShare ==
  ASSUME NEW t, NEW d, NEW top, NEW H, NEW g, SharesSub(t, d, H, g), Subs(d, top)
  PROVE  UNION {SharedBits(Published(t, y)) : y \in 0..255} = H \cup UNION {g[k] : k \in 0..top}
<1>1. \A y \in 0..255 : y \div d \in 0..top
  BY DEF Subs
<1>2. \A k \in 0..top : d * k \in 0..255 /\ (d * k) \div d = k
  BY DEF Subs
<1>3. ASSUME NEW h \in H \cup UNION {g[k] : k \in 0..top}
      PROVE  \E y \in 0..255 : h \in SharedBits(Published(t, y))
  <2>1. 0 \in 0..255
    OBVIOUS
  <2>2. CASE h \in H
    BY <2>1, <2>2 DEF SharesSub
  <2>3. CASE \E k \in 0..top : h \in g[k]
    <3>1. PICK k \in 0..top : h \in g[k]
      BY <2>3
    <3>. DEFINE y == d * k
    <3>2. y \in 0..255 /\ y \div d = k
      BY <1>2
    <3>. HIDE DEF y
    <3>. QED
      BY <3>1, <3>2 DEF SharesSub
  <2>. QED
    BY <1>3, <2>2, <2>3
<1>. QED
  BY <1>1, <1>3 DEF SharesSub

(* What the values 0..last of a block share are the bits S.                *)
Sharing(t, last, S) == Parts(UNION {SharedBits(Published(t, y)) : y \in 0..last}, S)

(* The bits R and S have none in common, and are 0..end.                   *)
Apart(R, S) == R \cap S = {}

Splits(R, S, end) == R \cap S = {} /\ R \cup S = 0..end

(* The bits of value y's own, of one plane or of two.                      *)
Takes(t, last, base, K, S, W) ==
  \A y \in 0..last : Published(t, y).quant[2] = Plane(base, K, S, W, y)

TakesTwo(t, last, base, K, S, W, basis, L, U, X) ==
  \A y \in 0..last :
    Published(t, y).quant[2] = Plane(base, K, S, W, y) \o Plane(basis, L, U, X, y)

(* Values of one plane.                                                    *)
LEMMA OnePlane ==
  ASSUME NEW t, NEW base, NEW K, NEW S, NEW W, NEW last, NEW first, NEW top,
         NEW T, NEW end,
         Covers(base, K, S, W, last, first, top),
         Takes(t, last, base, K, S, W),
         Sharing(t, last, T), Splits(Run(first, top), T, end)
  PROVE  Tiled(t, last, end)
<1>. DEFINE f == PlaneBits(base, K, S, W, last)
<1>1. DOMAIN f = 0..last /\ Tiles(f, Run(first, top))
  BY DEF PlaneBits, Covers, Run
<1>2. \A y \in 0..last : f[y] # {} /\ OwnBits(Published(t, y)) = f[y]
  BY DEF PlaneBits, Covers, OwnBits, Takes
<1>. HIDE DEF f
<1>. QED
  BY <1>1, <1>2, TiledBy DEF Sharing, Splits

(* The fields of two planes, taken together.                               *)
TwoBits(base, K, S, W, basis, L, U, X, last) ==
  [y \in 0..last |-> BitsOf(Plane(base, K, S, W, y) \o Plane(basis, L, U, X, y))]

(* The fields f of 0..last are the bits R.                                 *)
Tiling(f, last, R) ==
  DOMAIN f = 0..last /\ Tiles(f, R) /\ \A y \in 0..last : f[y] # {}

(* They are the bits of both.                                              *)
LEMMA TwoTiles ==
  ASSUME NEW last, NEW base, NEW K, NEW S, NEW W, NEW first, NEW top,
         NEW basis, NEW L, NEW U, NEW X, NEW begin, NEW finish,
         Covers(base, K, S, W, last, first, top),
         Covers(basis, L, U, X, last, begin, finish), Apart(Run(first, top), Run(begin, finish))
  PROVE  Tiling(TwoBits(base, K, S, W, basis, L, U, X, last), last,
                Run(first, top) \cup Run(begin, finish))
<1>. DEFINE f == PlaneBits(base, K, S, W, last)
            g == PlaneBits(basis, L, U, X, last)
            h == TwoBits(base, K, S, W, basis, L, U, X, last)
<1>1. /\ DOMAIN f = 0..last /\ Tiles(f, Run(first, top))
      /\ DOMAIN g = 0..last /\ Tiles(g, Run(begin, finish))
  BY DEF PlaneBits, Covers, Run
<1>2. DOMAIN h = 0..last /\ \A y \in 0..last : f[y] # {} /\ h[y] = f[y] \cup g[y]
  <2>. SUFFICES ASSUME NEW y \in 0..last
                PROVE  f[y] # {} /\ h[y] = f[y] \cup g[y]
    BY DEF TwoBits
  <2>1. Plane(base, K, S, W, y) \in Seq(Nat) /\ Plane(basis, L, U, X, y) \in Seq(Nat)
    BY DEF Covers
  <2>2. BitsOf(Plane(base, K, S, W, y) \o Plane(basis, L, U, X, y))
          = BitsOf(Plane(base, K, S, W, y)) \cup BitsOf(Plane(basis, L, U, X, y))
    BY <2>1, BitsOfTwo
  <2>3. f[y] = BitsOf(Plane(base, K, S, W, y)) /\ g[y] = BitsOf(Plane(basis, L, U, X, y))
    BY DEF PlaneBits
  <2>4. h[y] = BitsOf(Plane(base, K, S, W, y) \o Plane(basis, L, U, X, y))
    BY DEF TwoBits
  <2>. QED
    BY <2>2, <2>3, <2>4 DEF Covers
<1>. HIDE DEF f, g, h
<1>3. Tiles(h, Run(first, top) \cup Run(begin, finish))
  <2>. DEFINE I == 0..last
              R == Run(first, top)
              Q == Run(begin, finish)
  <2>1. DOMAIN f = I /\ DOMAIN g = I /\ DOMAIN h = I /\ \A k \in I : h[k] = f[k] \cup g[k]
    BY <1>1, <1>2, Zenon
  <2>2. Tiles(f, R) /\ Tiles(g, Q) /\ R \cap Q = {}
    BY <1>1, Zenon DEF Apart
  <2>. HIDE DEF I, R, Q
  <2>3. Tiles(h, R \cup Q)
    BY <2>1, <2>2, TilesJoin
  <2>. QED
    BY <2>3, Zenon DEF R, Q
<1>4. \A y \in 0..last : h[y] # {}
  BY <1>2
<1>. QED
  BY <1>2, <1>3, <1>4, Zenon DEF h, Tiling

(* Values of two planes.                                                   *)
LEMMA TwoPlanes ==
  ASSUME NEW t, NEW last, NEW T, NEW end,
         NEW base, NEW K, NEW S, NEW W, NEW first, NEW top,
         NEW basis, NEW L, NEW U, NEW X, NEW begin, NEW finish,
         Covers(base, K, S, W, last, first, top),
         Covers(basis, L, U, X, last, begin, finish),
         TakesTwo(t, last, base, K, S, W, basis, L, U, X),
         Apart(Run(first, top), Run(begin, finish)),
         Sharing(t, last, T), Splits(Run(first, top) \cup Run(begin, finish), T, end)
  PROVE  Tiled(t, last, end)
<1>. DEFINE h == TwoBits(base, K, S, W, basis, L, U, X, last)
<1>1. /\ DOMAIN h = 0..last /\ Tiles(h, Run(first, top) \cup Run(begin, finish))
      /\ \A y \in 0..last : h[y] # {}
  BY TwoTiles DEF Tiling
<1>2. \A y \in 0..last : OwnBits(Published(t, y)) = h[y]
  BY DEF TwoBits, TakesTwo, OwnBits
<1>. HIDE DEF h
<1>. QED
  BY <1>1, <1>2, TiledBy DEF Sharing, Splits

(* A value with a block of its own, all of whose bits are the value's.     *)
LEMMA Plain ==
  ASSUME NEW t, NEW kind, NEW width, NEW end, end \in Nat, width = end + 1,
         Published(t, 0) = Value(<<kind, Bits(0, 0, width)>>, <<>>, <<>>)
  PROVE  Tiled(t, 0, end)
<1>. DEFINE f == [y \in 0..0 |-> Run(0, end)]
<1>1. BitsOf(Bits(0, 0, width)) = Run(0, end) /\ Run(0, end) # {}
  <2>1. BitsOf(Bits(0, 0, width)) = (8 * 0 + 0)..(8 * 0 + 0 + width - 1)
    BY BitsOfBits
  <2>2. 8 * 0 + 0 = 0 /\ 8 * 0 + 0 + width - 1 = end
    OBVIOUS
  <2>3. BitsOf(Bits(0, 0, width)) = Run(0, end)
    BY <2>1, <2>2, Zenon DEF Run
  <2>4. 0 \in Run(0, end)
    BY DEF Run
  <2>. QED
    BY <2>3, <2>4
<1>2. 0..0 = {0}
  OBVIOUS
<1>3. Tiles(f, Run(0, end)) /\ DOMAIN f = 0..0
  BY <1>2 DEF Tiles
<1>4. \A y \in 0..0 : f[y] # {} /\ OwnBits(Published(t, y)) = f[y]
  <2>1. OwnBits(Published(t, 0)) = Run(0, end)
    BY <1>1 DEF OwnBits, Value
  <2>2. f[0] = Run(0, end)
    BY <1>2
  <2>. HIDE DEF f
  <2>. QED
    BY <1>1, <1>2, <2>1, <2>2
<1>5. SharedBits(Published(t, 0)) = {}
  BY SharedIs DEF Value
<1>6. UNION {SharedBits(Published(t, y)) : y \in 0..0} = {}
  BY <1>2, <1>5
<1>7. Parts({}, {}) /\ Run(0, end) \cap {} = {} /\ Run(0, end) \cup {} = 0..end
  BY DEF Parts, Run
<1>. HIDE DEF f
<1>. QED
  BY <1>3, <1>4, <1>6, <1>7, TiledBy

(* The formats without blocks.                                             *)
LEMMA TilesPlain == Tiled("F32", 0, 31) /\ Tiled("F16", 0, 15) /\ Tiled("BF16", 0, 15)
<1>1. Tiled("F32", 0, 31)
  <2>1. Published("F32", 0) = Value(<<"f32", Bits(0, 0, 32)>>, <<>>, <<>>)
    BY DEF Published
  <2>. QED
    BY ONLY <2>1, Plain
<1>2. Tiled("F16", 0, 15)
  <2>1. Published("F16", 0) = Value(<<"f16", Bits(0, 0, 16)>>, <<>>, <<>>)
    BY DEF Published, Half
  <2>. QED
    BY ONLY <2>1, Plain
<1>3. Tiled("BF16", 0, 15)
  <2>1. Published("BF16", 0) = Value(<<"high half", Bits(0, 0, 16)>>, <<>>, <<>>)
    BY DEF Published
  <2>. DEFINE kind == "high half"
  <2>. HIDE DEF kind
  <2>2. Published("BF16", 0) = Value(<<kind, Bits(0, 0, 16)>>, <<>>, <<>>)
    BY <2>1, Zenon DEF kind
  <2>. QED
    BY ONLY <2>2, Plain
<1>. QED
  BY <1>1, <1>2, <1>3

(* What all the values share: one half, or two.                            *)
SharesOne(t, last, a) ==
  \A y \in 0..last : Published(t, y).scale = <<a>> /\ Published(t, y).offset = <<>>

SharesTwo(t, last, a, o, c) ==
  \A y \in 0..last : Published(t, y).scale = <<a>> /\ Published(t, y).offset = <<o, c>>

(* A half that all share is the only thing they share.                     *)
LEMMA OneHalf ==
  ASSUME NEW t, NEW last, NEW a, NEW T, last \in Nat, BitsOf(a[2]) = T, SharesOne(t, last, a)
  PROVE  Sharing(t, last, T)
<1>1. \A y \in 0..last : SharedBits(Published(t, y)) = {T}
  BY SharedIs DEF SharesOne
<1>. QED
  BY <1>1, AllShare, PartsOne DEF Sharing

(* So are two.                                                             *)
LEMMA TwoHalves ==
  ASSUME NEW t, NEW last, NEW a, NEW o, NEW c, NEW T, NEW U, last \in Nat,
         BitsOf(a[2]) = T, BitsOf(c[2]) = U, Apart(T, U), SharesTwo(t, last, a, o, c)
  PROVE  Sharing(t, last, T \cup U)
<1>1. \A y \in 0..last : SharedBits(Published(t, y)) = {T, U}
  BY SharedIs DEF SharesTwo
<1>2. Parts({T} \cup {U}, T \cup U)
  BY PartsOne, PartsJoin DEF Apart
<1>3. {T} \cup {U} = {T, U}
  OBVIOUS
<1>4. UNION {SharedBits(Published(t, y)) : y \in 0..last} = {T, U}
  BY <1>1, AllShare
<1>. QED
  BY <1>2, <1>3, <1>4, Zenon DEF Sharing

(* Q4_0: nibbles from byte 2 on, after a half.                             *)
LEMMA TilesQ4_0 == Tiled("Q4_0", 31, 143)
<1>1. \A y : Published("Q4_0", y)
               = Value(<<"u-8", Plane(2, 32, 16, 4, y)>>,
                       <<Half(0)>>, <<>>)
  BY DEF Published
<1>2. \A y : /\ Published("Q4_0", y).quant[2] = Plane(2, 32, 16, 4, y)
             /\ Published("Q4_0", y).scale = <<Half(0)>>
             /\ Published("Q4_0", y).offset = <<>>
  BY <1>1, SMTT(30) DEF Value
<1>3. SharesOne("Q4_0", 31, Half(0)) /\ Takes("Q4_0", 31, 2, 32, 16, 4)
  BY ONLY <1>2 DEF SharesOne, Takes
<1>4. Sharing("Q4_0", 31, Run(0, 15))
  BY <1>3, Halfs, OneHalf
<1>5. Splits(Run(16, 143), Run(0, 15), 143)
  BY DEF Splits, Run
<1>. QED
  BY <1>3, <1>4, <1>5, Planes, OnePlane

(* Q4_1: nibbles from byte 4 on, after two halves.                         *)
LEMMA TilesQ4_1 == Tiled("Q4_1", 31, 159)
<1>1. \A y : Published("Q4_1", y)
               = Value(<<"u", Plane(4, 32, 16, 4, y)>>,
                       <<Half(0)>>, <<"plus", Half(2)>>)
  BY DEF Published
<1>2. \A y : /\ Published("Q4_1", y).quant[2] = Plane(4, 32, 16, 4, y)
             /\ Published("Q4_1", y).scale = <<Half(0)>>
             /\ Published("Q4_1", y).offset = <<"plus", Half(2)>>
  BY <1>1, SMTT(30) DEF Value
<1>3. SharesTwo("Q4_1", 31, Half(0), "plus", Half(2)) /\ Takes("Q4_1", 31, 4, 32, 16, 4)
  BY ONLY <1>2 DEF SharesTwo, Takes
<1>4. Sharing("Q4_1", 31, Run(0, 15) \cup Run(16, 31))
  <2>1. Apart(Run(0, 15), Run(16, 31))
    BY DEF Apart, Run
  <2>. QED
    BY <1>3, <2>1, Halfs, TwoHalves
<1>5. Splits(Run(32, 159), Run(0, 15) \cup Run(16, 31), 159)
  BY DEF Splits, Run
<1>. QED
  BY <1>3, <1>4, <1>5, Planes, OnePlane

(* Q5_0: nibbles from byte 6 on, fifth bits from byte 2, after a half.     *)
LEMMA TilesQ5_0 == Tiled("Q5_0", 31, 175)
<1>1. \A y : Published("Q5_0", y)
               = Value(<<"u-16", Plane(6, 32, 16, 4, y) \o Plane(2, 8, 1, 1, y)>>,
                       <<Half(0)>>, <<>>)
  BY DEF Published
<1>2. \A y : /\ Published("Q5_0", y).quant[2] = Plane(6, 32, 16, 4, y) \o Plane(2, 8, 1, 1, y)
             /\ Published("Q5_0", y).scale = <<Half(0)>>
             /\ Published("Q5_0", y).offset = <<>>
  BY <1>1, SMTT(30) DEF Value
<1>3. SharesOne("Q5_0", 31, Half(0)) /\ TakesTwo("Q5_0", 31, 6, 32, 16, 4, 2, 8, 1, 1)
  BY ONLY <1>2 DEF SharesOne, TakesTwo
<1>4. Sharing("Q5_0", 31, Run(0, 15))
  BY <1>3, Halfs, OneHalf
<1>5. Splits(Run(48, 175) \cup Run(16, 47), Run(0, 15), 175) /\ Apart(Run(48, 175), Run(16, 47))
  BY DEF Splits, Apart, Run
<1>. QED
  BY <1>3, <1>4, <1>5, Planes, TwoPlanes

(* Q5_1: nibbles from byte 8 on, fifth bits from byte 4, after two halves. *)
LEMMA TilesQ5_1 == Tiled("Q5_1", 31, 191)
<1>1. \A y : Published("Q5_1", y)
               = Value(<<"u", Plane(8, 32, 16, 4, y) \o Plane(4, 8, 1, 1, y)>>,
                       <<Half(0)>>, <<"plus", Half(2)>>)
  BY DEF Published
<1>2. \A y : /\ Published("Q5_1", y).quant[2] = Plane(8, 32, 16, 4, y) \o Plane(4, 8, 1, 1, y)
             /\ Published("Q5_1", y).scale = <<Half(0)>>
             /\ Published("Q5_1", y).offset = <<"plus", Half(2)>>
  BY <1>1, SMTT(30) DEF Value
<1>3. /\ SharesTwo("Q5_1", 31, Half(0), "plus", Half(2))
      /\ TakesTwo("Q5_1", 31, 8, 32, 16, 4, 4, 8, 1, 1)
  BY ONLY <1>2 DEF SharesTwo, TakesTwo
<1>4. Sharing("Q5_1", 31, Run(0, 15) \cup Run(16, 31))
  <2>1. Apart(Run(0, 15), Run(16, 31))
    BY DEF Apart, Run
  <2>. QED
    BY <1>3, <2>1, Halfs, TwoHalves
<1>5. /\ Splits(Run(64, 191) \cup Run(32, 63), Run(0, 15) \cup Run(16, 31), 191)
      /\ Apart(Run(64, 191), Run(32, 63))
  BY DEF Splits, Apart, Run
<1>. QED
  BY <1>3, <1>4, <1>5, Planes, TwoPlanes

(* Q8_0: bytes from byte 2 on, after a half.                               *)
LEMMA TilesQ8_0 == Tiled("Q8_0", 31, 271)
<1>1. \A y : Published("Q8_0", y)
               = Value(<<"i8", Plane(2, 1, 1, 8, y)>>,
                       <<Half(0)>>, <<>>)
  BY DEF Published
<1>2. \A y : /\ Published("Q8_0", y).quant[2] = Plane(2, 1, 1, 8, y)
             /\ Published("Q8_0", y).scale = <<Half(0)>>
             /\ Published("Q8_0", y).offset = <<>>
  BY <1>1, SMTT(30) DEF Value
<1>3. SharesOne("Q8_0", 31, Half(0)) /\ Takes("Q8_0", 31, 2, 1, 1, 8)
  BY ONLY <1>2 DEF SharesOne, Takes
<1>4. Sharing("Q8_0", 31, Run(0, 15))
  BY <1>3, Halfs, OneHalf
<1>5. Splits(Run(16, 271), Run(0, 15), 271)
  BY DEF Splits, Run
<1>. QED
  BY <1>3, <1>4, <1>5, Planes, OnePlane

(* IQ4_NL: nibbles from byte 2 on, after a half.                           *)
LEMMA TilesIQ4_NL == Tiled("IQ4_NL", 31, 143)
<1>1. \A y : Published("IQ4_NL", y)
               = Value(<<"kvalues", Plane(2, 32, 16, 4, y)>>,
                       <<Half(0)>>, <<>>)
  BY DEF Published
<1>2. \A y : /\ Published("IQ4_NL", y).quant[2] = Plane(2, 32, 16, 4, y)
             /\ Published("IQ4_NL", y).scale = <<Half(0)>>
             /\ Published("IQ4_NL", y).offset = <<>>
  BY <1>1, SMTT(30) DEF Value
<1>3. SharesOne("IQ4_NL", 31, Half(0)) /\ Takes("IQ4_NL", 31, 2, 32, 16, 4)
  BY ONLY <1>2 DEF SharesOne, Takes
<1>4. Sharing("IQ4_NL", 31, Run(0, 15))
  BY <1>3, Halfs, OneHalf
<1>5. Splits(Run(16, 143), Run(0, 15), 143)
  BY DEF Splits, Run
<1>. QED
  BY <1>3, <1>4, <1>5, Planes, OnePlane

-----------------------------------------------------------------------------
(* The scales and minima of sub-blocks.                                    *)

(* The fields all share and those of the sub-blocks.                       *)
LEMMA SubSharing ==
  ASSUME NEW t, NEW d, NEW top, NEW H, NEW g, NEW T, NEW U, Subs(d, top),
         SharesSub(t, d, H, g), Parts(H, T), Parts(UNION {g[k] : k \in 0..top}, U), Apart(T, U)
  PROVE  Sharing(t, 255, T \cup U)
<1>. DEFINE G == UNION {g[k] : k \in 0..top}
<1>1. UNION {SharedBits(Published(t, y)) : y \in 0..255} = H \cup G
  BY SubShare
<1>. HIDE DEF G
<1>2. Parts(H \cup G, T \cup U)
  BY PartsJoin DEF G, Apart
<1>. QED
  BY <1>1, <1>2, Zenon DEF Sharing

(* One field to a sub-block.                                               *)
Each(g, f, top) == \A k \in 0..top : g[k] = {f[k]}

(* The fields of a tiling, one to a sub-block, are parts.                  *)
LEMMA OneEach ==
  ASSUME NEW f, NEW U, NEW top, NEW g, Tiling(f, top, U), Each(g, f, top)
  PROVE  Parts(UNION {g[k] : k \in 0..top}, U)
<1>. DEFINE I == 0..top
<1>1. DOMAIN f = I /\ \A k \in I : g[k] = {f[k]}
  BY DEF Tiling, Each
<1>. HIDE DEF I
<1>2. UNION {g[k] : k \in I} = {f[k] : k \in I}
  <2>1. ASSUME NEW h \in UNION {g[k] : k \in I} PROVE h \in {f[k] : k \in I}
    BY <1>1
  <2>2. ASSUME NEW h \in {f[k] : k \in I} PROVE h \in UNION {g[k] : k \in I}
    BY <1>1
  <2>. QED
    BY <2>1, <2>2
<1>3. Parts({f[k] : k \in DOMAIN f}, U)
  BY TilesParts DEF Tiling
<1>. QED
  BY <1>1, <1>2, <1>3, Zenon DEF I

(* Values of one scale for all and one for the sub-block, no minimum.      *)
ScaledBy(t, d, a, f) ==
  \A y \in 0..255 : /\ \E b : Published(t, y).scale = <<a, b>> /\ BitsOf(b[2]) = f[y \div d]
                    /\ Published(t, y).offset = <<>>

(* What such values share is the half and the scales of the sub-blocks.    *)
LEMMA ScaleSharing ==
  ASSUME NEW t, NEW d, NEW top, NEW a, NEW f, NEW T, NEW U, Subs(d, top),
         BitsOf(a[2]) = T, Tiling(f, top, U), ScaledBy(t, d, a, f), Apart(T, U)
  PROVE  Sharing(t, 255, T \cup U)
<1>. DEFINE g == [k \in 0..top |-> {f[k]}]
<1>1. \A k \in 0..top : g[k] = {f[k]}
  OBVIOUS
<1>4. \A y \in 0..255 : y \div d \in 0..top
  BY DEF Subs
<1>. HIDE DEF g
<1>2. SharesSub(t, d, {T}, g)
  <2>. SUFFICES ASSUME NEW y \in 0..255
                PROVE  SharedBits(Published(t, y)) = {T} \cup g[y \div d]
    BY DEF SharesSub
  <2>1. PICK b : Published(t, y).scale = <<a, b>> /\ BitsOf(b[2]) = f[y \div d]
    BY DEF ScaledBy
  <2>2. Published(t, y).offset = <<>>
    BY DEF ScaledBy
  <2>3. SharedBits(Published(t, y)) = {BitsOf(a[2]), BitsOf(b[2])}
    BY <2>1, <2>2, SharedIs
  <2>4. g[y \div d] = {f[y \div d]}
    BY <1>1, <1>4
  <2>. QED
    BY <2>1, <2>3, <2>4, Zenon
<1>3. Parts(UNION {g[k] : k \in 0..top}, U)
  BY <1>1, OneEach DEF Each
<1>5. Parts({T}, T)
  BY PartsOne
<1>. QED
  BY <1>2, <1>3, <1>5, SubSharing

(* IQ4_XS: six bits of scale to a sub-block, in two planes.                *)
LEMMA TilesIQ4_XS == Tiled("IQ4_XS", 255, 1087)
<1>. DEFINE f == TwoBits(4, 2, 1, 4, 2, 4, 1, 2, 7)
            sub(y) == Plane(4, 2, 1, 4, y \div 32) \o Plane(2, 4, 1, 2, y \div 32)
<1>1. \A y : Published("IQ4_XS", y)
               = Value(<<"kvalues", Plane(8, 32, 16, 4, y)>>, <<Half(0), <<"u-32", sub(y)>>>>, <<>>)
  BY DEF Published
<1>2. \A y : /\ Published("IQ4_XS", y).quant[2] = Plane(8, 32, 16, 4, y)
             /\ Published("IQ4_XS", y).scale = <<Half(0), <<"u-32", sub(y)>>>>
             /\ Published("IQ4_XS", y).offset = <<>>
  BY <1>1, SMTT(30) DEF Value
<1>3. Apart(Run(32, 63), Run(16, 31))
  BY DEF Apart, Run
<1>4. Tiling(f, 7, Run(32, 63) \cup Run(16, 31))
  <2>1. Covers(4, 2, 1, 4, 7, 32, 63) /\ Covers(2, 4, 1, 2, 7, 16, 31)
    BY Planes
  <2>. QED
    BY <1>3, <2>1, TwoTiles
<1>5. \A y \in 0..255 : y \div 32 \in 0..7
  OBVIOUS
<1>6. \A y \in 0..255 : BitsOf(sub(y)) = f[y \div 32]
  BY <1>5 DEF TwoBits
<1>. HIDE DEF f, sub
<1>7. ScaledBy("IQ4_XS", 32, Half(0), f)
  <2>1. \A y : <<"u-32", sub(y)>>[2] = sub(y)
    OBVIOUS
  <2>. QED
    BY <1>2, <1>6, <2>1 DEF ScaledBy
<1>8. Takes("IQ4_XS", 255, 8, 32, 16, 4)
  BY ONLY <1>2 DEF Takes
<1>9. Subs(32, 7) /\ Apart(Run(0, 15), Run(32, 63) \cup Run(16, 31))
      /\ Splits(Run(64, 1087), Run(0, 15) \cup (Run(32, 63) \cup Run(16, 31)), 1087)
  BY DEF Subs, Apart, Splits, Run
<1>10. Sharing("IQ4_XS", 255, Run(0, 15) \cup (Run(32, 63) \cup Run(16, 31)))
  BY <1>4, <1>7, <1>9, Halfs, ScaleSharing
<1>. QED
  BY <1>8, <1>9, <1>10, Planes, OnePlane

(* The fields of a plane of whole chunks tile its bytes.                   *)
LEMMA PlaneTiling ==
  ASSUME NEW base, NEW K, NEW S, NEW W, NEW last, NEW first, NEW top,
         Covers(base, K, S, W, last, first, top)
  PROVE  Tiling(PlaneBits(base, K, S, W, last), last, Run(first, top))
  BY DEF Tiling, Covers, Run, PlaneBits

(* Q3_K: six bits of scale to a sub-block, in two planes, and a half last. *)
LEMMA TilesQ3_K == Tiled("Q3_K", 255, 879)
<1>. DEFINE f == TwoBits(96, 16, 8, 4, 104, 16, 4, 2, 15)
            sub(y) == Plane(96, 16, 8, 4, y \div 16) \o Plane(104, 16, 4, 2, y \div 16)
<1>1. \A y : Published("Q3_K", y)
               = Value(<<"u-4", Plane(32, 128, 32, 2, y) \o Plane(0, 256, 32, 1, y)>>,
                       <<Half(108), <<"u-32", sub(y)>>>>, <<>>)
  BY DEF Published
<1>2. \A y : /\ Published("Q3_K", y).quant[2]
                  = Plane(32, 128, 32, 2, y) \o Plane(0, 256, 32, 1, y)
             /\ Published("Q3_K", y).scale = <<Half(108), <<"u-32", sub(y)>>>>
             /\ Published("Q3_K", y).offset = <<>>
  <2>. SUFFICES ASSUME NEW y
                PROVE  /\ Published("Q3_K", y).quant[2]
                            = Plane(32, 128, 32, 2, y) \o Plane(0, 256, 32, 1, y)
                       /\ Published("Q3_K", y).scale = <<Half(108), <<"u-32", sub(y)>>>>
                       /\ Published("Q3_K", y).offset = <<>>
    OBVIOUS
  <2>. HIDE DEF sub
  <2>. DEFINE bits == Plane(32, 128, 32, 2, y) \o Plane(0, 256, 32, 1, y)
              scale == <<Half(108), <<"u-32", sub(y)>>>>
  <2>1. Published("Q3_K", y) = Value(<<"u-4", bits>>, scale, <<>>)
    BY <1>1
  <2>. HIDE DEF bits, scale
  <2>2. /\ Published("Q3_K", y).quant[2] = bits /\ Published("Q3_K", y).scale = scale
        /\ Published("Q3_K", y).offset = <<>>
    BY ONLY <2>1 DEF Value
  <2>. QED
    BY <2>2, Zenon DEF bits, scale
<1>3. Apart(Run(768, 831), Run(832, 863)) /\ Apart(Run(256, 767), Run(0, 255))
  BY DEF Apart, Run
<1>4. Tiling(f, 15, Run(768, 831) \cup Run(832, 863))
  <2>1. Covers(96, 16, 8, 4, 15, 768, 831) /\ Covers(104, 16, 4, 2, 15, 832, 863)
    BY Planes
  <2>. QED
    BY <1>3, <2>1, TwoTiles
<1>5. \A y \in 0..255 : y \div 16 \in 0..15
  OBVIOUS
<1>6. \A y \in 0..255 : BitsOf(sub(y)) = f[y \div 16]
  BY <1>5 DEF TwoBits
<1>. HIDE DEF f, sub
<1>7. ScaledBy("Q3_K", 16, Half(108), f)
  <2>. SUFFICES ASSUME NEW y \in 0..255
                PROVE  /\ \E b : /\ Published("Q3_K", y).scale = <<Half(108), b>>
                                 /\ BitsOf(b[2]) = f[y \div 16]
                       /\ Published("Q3_K", y).offset = <<>>
    BY ZenonT(40) DEF ScaledBy
  <2>1. <<"u-32", sub(y)>>[2] = sub(y)
    OBVIOUS
  <2>2. /\ Published("Q3_K", y).scale = <<Half(108), <<"u-32", sub(y)>>>>
        /\ BitsOf(<<"u-32", sub(y)>>[2]) = f[y \div 16]
    BY <1>2, <1>6, <2>1, Zenon
  <2>. QED
    BY <1>2, <2>2, Zenon
<1>8. TakesTwo("Q3_K", 255, 32, 128, 32, 2, 0, 256, 32, 1)
  BY ONLY <1>2 DEF TakesTwo
<1>9. /\ Subs(16, 15) /\ Apart(Run(864, 879), Run(768, 831) \cup Run(832, 863))
      /\ Splits(Run(256, 767) \cup Run(0, 255),
                Run(864, 879) \cup (Run(768, 831) \cup Run(832, 863)), 879)
  BY DEF Subs, Apart, Splits, Run
<1>10. Sharing("Q3_K", 255, Run(864, 879) \cup (Run(768, 831) \cup Run(832, 863)))
  BY <1>4, <1>7, <1>9, Halfs, ScaleSharing
<1>. QED
  BY <1>3, <1>8, <1>9, <1>10, Planes, TwoPlanes

(* Q6_K: a byte of scale to a sub-block, and a half last.                  *)
LEMMA TilesQ6_K == Tiled("Q6_K", 255, 1679)
<1>. DEFINE f == PlaneBits(192, 1, 1, 8, 15)
            sub(y) == Plane(192, 1, 1, 8, y \div 16)
<1>1. \A y : Published("Q6_K", y)
               = Value(<<"u-32", Plane(0, 128, 64, 4, y) \o Plane(128, 128, 32, 2, y)>>,
                       <<Half(208), <<"i8", sub(y)>>>>, <<>>)
  BY DEF Published
<1>2. \A y : /\ Published("Q6_K", y).quant[2]
                  = Plane(0, 128, 64, 4, y) \o Plane(128, 128, 32, 2, y)
             /\ Published("Q6_K", y).scale = <<Half(208), <<"i8", sub(y)>>>>
             /\ Published("Q6_K", y).offset = <<>>
  <2>. SUFFICES ASSUME NEW y
                PROVE  /\ Published("Q6_K", y).quant[2]
                            = Plane(0, 128, 64, 4, y) \o Plane(128, 128, 32, 2, y)
                       /\ Published("Q6_K", y).scale = <<Half(208), <<"i8", sub(y)>>>>
                       /\ Published("Q6_K", y).offset = <<>>
    OBVIOUS
  <2>. HIDE DEF sub
  <2>. DEFINE bits == Plane(0, 128, 64, 4, y) \o Plane(128, 128, 32, 2, y)
              scale == <<Half(208), <<"i8", sub(y)>>>>
  <2>1. Published("Q6_K", y) = Value(<<"u-32", bits>>, scale, <<>>)
    BY <1>1
  <2>. HIDE DEF bits, scale
  <2>2. /\ Published("Q6_K", y).quant[2] = bits /\ Published("Q6_K", y).scale = scale
        /\ Published("Q6_K", y).offset = <<>>
    BY ONLY <2>1 DEF Value
  <2>. QED
    BY <2>2, Zenon DEF bits, scale
<1>3. Apart(Run(0, 1023), Run(1024, 1535))
  BY DEF Apart, Run
<1>4. Tiling(f, 15, Run(1536, 1663))
  BY Planes, PlaneTiling
<1>5. \A y \in 0..255 : y \div 16 \in 0..15
  OBVIOUS
<1>6. \A y \in 0..255 : BitsOf(sub(y)) = f[y \div 16]
  BY <1>5 DEF PlaneBits
<1>. HIDE DEF f, sub
<1>7. ScaledBy("Q6_K", 16, Half(208), f)
  <2>. SUFFICES ASSUME NEW y \in 0..255
                PROVE  /\ \E b : /\ Published("Q6_K", y).scale = <<Half(208), b>>
                                 /\ BitsOf(b[2]) = f[y \div 16]
                       /\ Published("Q6_K", y).offset = <<>>
    BY ZenonT(40) DEF ScaledBy
  <2>1. <<"i8", sub(y)>>[2] = sub(y)
    OBVIOUS
  <2>2. /\ Published("Q6_K", y).scale = <<Half(208), <<"i8", sub(y)>>>>
        /\ BitsOf(<<"i8", sub(y)>>[2]) = f[y \div 16]
    BY <1>2, <1>6, <2>1, Zenon
  <2>. QED
    BY <1>2, <2>2, Zenon
<1>8. TakesTwo("Q6_K", 255, 0, 128, 64, 4, 128, 128, 32, 2)
  BY ONLY <1>2 DEF TakesTwo
<1>9. /\ Subs(16, 15) /\ Apart(Run(1664, 1679), Run(1536, 1663))
      /\ Splits(Run(0, 1023) \cup Run(1024, 1535), Run(1664, 1679) \cup Run(1536, 1663), 1679)
  BY DEF Subs, Apart, Splits, Run
<1>10. Sharing("Q6_K", 255, Run(1664, 1679) \cup Run(1536, 1663))
  BY <1>4, <1>7, <1>9, Halfs, ScaleSharing
<1>. QED
  BY <1>3, <1>8, <1>9, <1>10, Planes, TwoPlanes

(* The fields f and m of the sub-blocks are the bits U, of which own tells *)
(* whose each is.                                                          *)
Owned(f, m, top, U, own) ==
  /\ \A b \in U : \E k \in 0..top : own[b] \in {2 * k, 2 * k + 1}
  /\ \A k \in 0..top : /\ f[k] = {b \in U : own[b] = 2 * k}
                       /\ m[k] = {b \in U : own[b] = 2 * k + 1}

(* Where every bit has an owner, the fields are parts.                     *)
LEMMA OwnedParts ==
  ASSUME NEW f, NEW m, NEW top, NEW U, NEW own, NEW g, Owned(f, m, top, U, own),
         \A k \in 0..top : g[k] = {f[k], m[k]}
  PROVE  Parts(UNION {g[k] : k \in 0..top}, U)
<1>. DEFINE I == 0..top
            G == UNION {g[k] : k \in I}
            fib(x) == {b \in U : own[b] = x}
<1>1. ASSUME NEW h \in G PROVE \E x : h = fib(x)
  <2>1. PICK k \in I : h = f[k] \/ h = m[k]
    BY <1>1
  <2>2. f[k] = fib(2 * k) /\ m[k] = fib(2 * k + 1)
    BY DEF Owned
  <2>. QED
    BY <2>1, <2>2, Zenon
<1>2. ASSUME NEW b \in U PROVE \E h \in G : b \in h
  <2>1. PICK k \in I : own[b] \in {2 * k, 2 * k + 1}
    BY <1>2 DEF Owned
  <2>2. f[k] \in G /\ m[k] \in G
    OBVIOUS
  <2>3. b \in f[k] \/ b \in m[k]
    BY <2>1 DEF Owned
  <2>. QED
    BY <2>2, <2>3
<1>. HIDE DEF G
<1>3. UNION G = U
  BY <1>1, <1>2
<1>4. ASSUME NEW h \in G, NEW j \in G PROVE h = j \/ h \cap j = {}
  <2>1. PICK x : h = fib(x)
    BY <1>1
  <2>4. PICK z : j = fib(z)
    BY <1>1
  <2>2. CASE x = z
    BY <2>1, <2>2, <2>4
  <2>3. CASE x # z
    BY <2>1, <2>3, <2>4
  <2>. QED
    BY <2>2, <2>3
<1>. QED
  BY <1>3, <1>4 DEF Parts, G

(* Values of a scale and a minimum for all, and of both for the sub-block. *)
PairedBy(t, d, a, o, c, f, m) ==
  \A y \in 0..255 : \E b, e : /\ Published(t, y).scale = <<a, b>> /\ BitsOf(b[2]) = f[y \div d]
                              /\ Published(t, y).offset = <<o, c, e>>
                              /\ BitsOf(e[2]) = m[y \div d]

(* What such values share is the two halves, and both of each sub-block.   *)
LEMMA PairSharing ==
  ASSUME NEW t, NEW d, NEW top, NEW a, NEW o, NEW c, NEW f, NEW m, NEW T, NEW S, NEW U, NEW own,
         Subs(d, top), BitsOf(a[2]) = T, BitsOf(c[2]) = S, Apart(T, S), Apart(T \cup S, U),
         Owned(f, m, top, U, own), PairedBy(t, d, a, o, c, f, m)
  PROVE  Sharing(t, 255, (T \cup S) \cup U)
<1>. DEFINE g == [k \in 0..top |-> {f[k], m[k]}]
<1>1. \A k \in 0..top : g[k] = {f[k], m[k]}
  OBVIOUS
<1>2. \A y \in 0..255 : y \div d \in 0..top
  BY DEF Subs
<1>. HIDE DEF g
<1>3. SharesSub(t, d, {T, S}, g)
  <2>. SUFFICES ASSUME NEW y \in 0..255
                PROVE  SharedBits(Published(t, y)) = {T, S} \cup g[y \div d]
    BY DEF SharesSub
  <2>1. PICK b, e : /\ Published(t, y).scale = <<a, b>> /\ BitsOf(b[2]) = f[y \div d]
                    /\ Published(t, y).offset = <<o, c, e>> /\ BitsOf(e[2]) = m[y \div d]
    BY ZenonT(40) DEF PairedBy
  <2>2. SharedBits(Published(t, y))
          = {BitsOf(a[2]), BitsOf(b[2])} \cup {BitsOf(c[2]), BitsOf(e[2])}
    BY <2>1, SharedIs
  <2>3. g[y \div d] = {f[y \div d], m[y \div d]}
    BY <1>1, <1>2
  <2>4. SharedBits(Published(t, y)) = {T, f[y \div d]} \cup {S, m[y \div d]}
    BY <2>1, <2>2, Zenon
  <2>. QED
    BY <2>3, <2>4
<1>4. Parts(UNION {g[k] : k \in 0..top}, U)
  BY <1>1, OwnedParts
<1>5. Parts({T, S}, T \cup S)
  <2>1. Parts({T} \cup {S}, T \cup S)
    BY PartsOne, PartsJoin DEF Apart
  <2>2. {T} \cup {S} = {T, S}
    OBVIOUS
  <2>. QED
    BY <2>1, <2>2, Zenon
<1>. QED
  BY <1>3, <1>4, <1>5, SubSharing

(* Two fields together have the bits of both.                              *)
LEMMA TwoFields ==
  ASSUME NEW x, NEW s, NEW w, NEW first, NEW end, FieldAt(x, s, w, first, end),
         NEW z, NEW r, NEW v, NEW begin, NEW finish, FieldAt(z, r, v, begin, finish)
  PROVE  BitsOf(Bits(x, s, w) \o Bits(z, r, v)) = (first..end) \cup (begin..finish)
<1>1. /\ Bits(x, s, w) \in Seq(Nat) /\ Bits(z, r, v) \in Seq(Nat)
      /\ BitsOf(Bits(x, s, w)) = first..end /\ BitsOf(Bits(z, r, v)) = begin..finish
  BY OneField
<1>2. BitsOf(Bits(x, s, w) \o Bits(z, r, v)) = BitsOf(Bits(x, s, w)) \cup BitsOf(Bits(z, r, v))
  BY <1>1, BitsOfTwo
<1>. QED
  BY <1>1, <1>2, Zenon

(* The bits of the two nibbles of the first sixteen bytes.                 *)
Nibble(up) == [k \in 0..15 |-> BitsOf(Bits(k, up, 4))]

OwnNibble == [b \in Run(0, 127) |-> b \div 4]

(* Each of their bits is in one nibble, the low one or the high one.       *)
LEMMA NibblesOwned == Owned(Nibble(0), Nibble(4), 15, Run(0, 127), OwnNibble)
<1>1. ASSUME NEW b \in Run(0, 127)
      PROVE  \E k \in 0..15 : OwnNibble[b] \in {2 * k, 2 * k + 1}
  <2>1. b \in 0..127 /\ OwnNibble[b] = b \div 4
    BY DEF Run, OwnNibble
  <2>. DEFINE k == b \div 8
  <2>2. k \in 0..15 /\ (b \div 4 = 2 * k \/ b \div 4 = 2 * k + 1)
    BY <2>1
  <2>. QED
    BY <2>1, <2>2
<1>2. ASSUME NEW k \in 0..15
      PROVE  /\ Nibble(0)[k] = {b \in Run(0, 127) : OwnNibble[b] = 2 * k}
             /\ Nibble(4)[k] = {b \in Run(0, 127) : OwnNibble[b] = 2 * k + 1}
  <2>1. /\ BitsOf(Bits(k, 0, 4)) = (8 * k)..(8 * k + 3)
        /\ BitsOf(Bits(k, 4, 4)) = (8 * k + 4)..(8 * k + 7)
    <3>1. FieldAt(k, 0, 4, 8 * k, 8 * k + 3) /\ FieldAt(k, 4, 4, 8 * k + 4, 8 * k + 7)
      BY DEF FieldAt
    <3>. QED
      BY ONLY <3>1, OneField
  <2>2. (8 * k)..(8 * k + 3) = {b \in 0..127 : b \div 4 = 2 * k}
    OBVIOUS
  <2>3. (8 * k + 4)..(8 * k + 7) = {b \in 0..127 : b \div 4 = 2 * k + 1}
    OBVIOUS
  <2>4. \A b \in 0..127 : OwnNibble[b] = b \div 4
    BY DEF OwnNibble, Run
  <2>5. Nibble(0)[k] = BitsOf(Bits(k, 0, 4)) /\ Nibble(4)[k] = BitsOf(Bits(k, 4, 4))
    BY DEF Nibble
  <2>. HIDE DEF OwnNibble, Nibble
  <2>6. /\ {b \in Run(0, 127) : OwnNibble[b] = 2 * k} = {b \in 0..127 : b \div 4 = 2 * k}
        /\ {b \in Run(0, 127) : OwnNibble[b] = 2 * k + 1} = {b \in 0..127 : b \div 4 = 2 * k + 1}
    BY <2>4 DEF Run
  <2>. QED
    BY <2>1, <2>2, <2>3, <2>5, <2>6
<1>. QED
  BY <1>1, <1>2 DEF Owned

(* Q2_K: a nibble of scale and one of minimum, and two halves last.        *)
LEMMA TilesQ2_K == Tiled("Q2_K", 255, 671)
<1>. DEFINE lo(y) == Bits(y \div 16, 0, 4)
            hi(y) == Bits(y \div 16, 4, 4)
<1>1. \A y : Published("Q2_K", y)
               = Value(<<"u", Plane(16, 128, 32, 2, y)>>, <<Half(80), <<"u", lo(y)>>>>,
                       <<"minus", Half(82), <<"u", hi(y)>>>>)
  BY DEF Published, Low, High
<1>. HIDE DEF lo, hi
<1>2. \A y : /\ Published("Q2_K", y).quant[2] = Plane(16, 128, 32, 2, y)
             /\ Published("Q2_K", y).scale = <<Half(80), <<"u", lo(y)>>>>
             /\ Published("Q2_K", y).offset = <<"minus", Half(82), <<"u", hi(y)>>>>
  BY ONLY <1>1, SMTT(30) DEF Value
<1>3. \A y \in 0..255 : y \div 16 \in 0..15
  OBVIOUS
<1>4. \A y \in 0..255 : /\ BitsOf(lo(y)) = Nibble(0)[y \div 16]
                        /\ BitsOf(hi(y)) = Nibble(4)[y \div 16]
  BY <1>3 DEF Nibble, lo, hi
<1>5. PairedBy("Q2_K", 16, Half(80), "minus", Half(82), Nibble(0), Nibble(4))
  <2>. SUFFICES ASSUME NEW y \in 0..255
                PROVE  \E b, e : /\ Published("Q2_K", y).scale = <<Half(80), b>>
                                 /\ BitsOf(b[2]) = Nibble(0)[y \div 16]
                                 /\ Published("Q2_K", y).offset = <<"minus", Half(82), e>>
                                 /\ BitsOf(e[2]) = Nibble(4)[y \div 16]
    BY ZenonT(40) DEF PairedBy
  <2>1. <<"u", lo(y)>>[2] = lo(y) /\ <<"u", hi(y)>>[2] = hi(y)
    OBVIOUS
  <2>. WITNESS <<"u", lo(y)>>, <<"u", hi(y)>>
  <2>. QED
    BY <1>2, <1>4, <2>1, Zenon
<1>6. Takes("Q2_K", 255, 16, 128, 32, 2)
  BY ONLY <1>2 DEF Takes
<1>7. /\ Subs(16, 15) /\ Apart(Run(640, 655), Run(656, 671))
      /\ Apart(Run(640, 655) \cup Run(656, 671), Run(0, 127))
      /\ Splits(Run(128, 639), (Run(640, 655) \cup Run(656, 671)) \cup Run(0, 127), 671)
  BY DEF Subs, Apart, Splits, Run
<1>8. Sharing("Q2_K", 255, (Run(640, 655) \cup Run(656, 671)) \cup Run(0, 127))
  BY <1>5, <1>7, Halfs, NibblesOwned, PairSharing
<1>. QED
  BY <1>6, <1>7, <1>8, Planes, OnePlane

(* The six bits of each scale and minimum of Q4_K and Q5_K.                *)
SixOfScale(k) ==
  LET q == k % 4  u == k \div 4 IN Low(4 + 8 * u + q) \o Bits(4 + q, 4 + 2 * u, 2)

SixOfMin(k) ==
  LET q == k % 4  u == k \div 4 IN Bits(8 + 4 * u + q, 4 * u, 4) \o Bits(8 + q, 4 + 2 * u, 2)

ScaleSixes == [k \in 0..7 |-> BitsOf(SixOfScale(k))]
MinSixes   == [k \in 0..7 |-> BitsOf(SixOfMin(k))]

(* Whose a bit is: of the first four bytes, the next four, the last four.  *)
OwnsSix(b) ==
  LET byte == (b \div 8) - 4  bit == b % 8
  IN IF byte < 4 THEN IF bit < 6 THEN 2 * byte ELSE 2 * (byte + 4)
     ELSE IF byte < 8 THEN IF bit < 6 THEN 2 * (byte - 4) + 1 ELSE 2 * byte + 1
     ELSE IF bit < 4 THEN 2 * (byte - 4) ELSE 2 * (byte - 4) + 1

OwnSix == [b \in Run(32, 127) |-> OwnsSix(b)]

(* Their bits: six in a row in the first four sub-blocks, four and two     *)
(* apart in the last four.                                                 *)
LEMMA SixAt ==
  ASSUME NEW k \in 0..7
  PROVE  /\ k < 4 =>
              /\ BitsOf(SixOfScale(k))
                   = ((32 + 8 * k)..(35 + 8 * k)) \cup ((36 + 8 * k)..(37 + 8 * k))
              /\ BitsOf(SixOfMin(k))
                   = ((64 + 8 * k)..(67 + 8 * k)) \cup ((68 + 8 * k)..(69 + 8 * k))
         /\ ~(k < 4) =>
              /\ BitsOf(SixOfScale(k))
                   = ((64 + 8 * k)..(67 + 8 * k)) \cup ((8 * k + 6)..(8 * k + 7))
              /\ BitsOf(SixOfMin(k))
                   = ((68 + 8 * k)..(71 + 8 * k)) \cup ((38 + 8 * k)..(39 + 8 * k))
<1>. DEFINE q == k % 4
            u == k \div 4
<1>1. /\ SixOfScale(k) = Bits(4 + 8 * u + q, 0, 4) \o Bits(4 + q, 4 + 2 * u, 2)
      /\ SixOfMin(k) = Bits(8 + 4 * u + q, 4 * u, 4) \o Bits(8 + q, 4 + 2 * u, 2)
  BY Zenon DEF SixOfScale, SixOfMin, Low
<1>2. CASE k < 4
  <2>1. q = k /\ u = 0
    BY <1>2
  <2>. HIDE DEF q, u
  <2>2. /\ FieldAt(4 + 8 * u + q, 0, 4, 32 + 8 * k, 35 + 8 * k)
        /\ FieldAt(4 + q, 4 + 2 * u, 2, 36 + 8 * k, 37 + 8 * k)
        /\ FieldAt(8 + 4 * u + q, 4 * u, 4, 64 + 8 * k, 67 + 8 * k)
        /\ FieldAt(8 + q, 4 + 2 * u, 2, 68 + 8 * k, 69 + 8 * k)
    BY <2>1 DEF FieldAt
  <2>3. /\ BitsOf(Bits(4 + 8 * u + q, 0, 4) \o Bits(4 + q, 4 + 2 * u, 2))
             = ((32 + 8 * k)..(35 + 8 * k)) \cup ((36 + 8 * k)..(37 + 8 * k))
        /\ BitsOf(Bits(8 + 4 * u + q, 4 * u, 4) \o Bits(8 + q, 4 + 2 * u, 2))
             = ((64 + 8 * k)..(67 + 8 * k)) \cup ((68 + 8 * k)..(69 + 8 * k))
    BY ONLY <2>2, TwoFields
  <2>. QED
    BY ONLY <1>1, <1>2, <2>3, Zenon
<1>3. CASE ~(k < 4)
  <2>1. q = k - 4 /\ u = 1
    BY <1>3
  <2>. HIDE DEF q, u
  <2>2. /\ FieldAt(4 + 8 * u + q, 0, 4, 64 + 8 * k, 67 + 8 * k)
        /\ FieldAt(4 + q, 4 + 2 * u, 2, 8 * k + 6, 8 * k + 7)
        /\ FieldAt(8 + 4 * u + q, 4 * u, 4, 68 + 8 * k, 71 + 8 * k)
        /\ FieldAt(8 + q, 4 + 2 * u, 2, 38 + 8 * k, 39 + 8 * k)
    BY <1>3, <2>1 DEF FieldAt
  <2>3. /\ BitsOf(Bits(4 + 8 * u + q, 0, 4) \o Bits(4 + q, 4 + 2 * u, 2))
             = ((64 + 8 * k)..(67 + 8 * k)) \cup ((8 * k + 6)..(8 * k + 7))
        /\ BitsOf(Bits(8 + 4 * u + q, 4 * u, 4) \o Bits(8 + q, 4 + 2 * u, 2))
             = ((68 + 8 * k)..(71 + 8 * k)) \cup ((38 + 8 * k)..(39 + 8 * k))
    BY ONLY <2>2, TwoFields
  <2>. QED
    BY ONLY <1>1, <1>3, <2>3, Zenon
<1>. QED
  BY <1>2, <1>3

(* Each bit of the twelve bytes is of one scale or one minimum.            *)
LEMMA SixOwned == Owned(ScaleSixes, MinSixes, 7, Run(32, 127), OwnSix)
<1>1. ASSUME NEW b \in Run(32, 127)
      PROVE  \E k \in 0..7 : OwnSix[b] \in {2 * k, 2 * k + 1}
  <2>1. b \in 32..127 /\ OwnSix[b] = OwnsSix(b)
    BY DEF Run, OwnSix
  <2>2. OwnsSix(b) \in 0..15
    BY <2>1 DEF OwnsSix
  <2>. DEFINE k == OwnsSix(b) \div 2
  <2>3. k \in 0..7 /\ (OwnsSix(b) = 2 * k \/ OwnsSix(b) = 2 * k + 1)
    BY <2>2
  <2>. QED
    BY <2>1, <2>3
<1>2. ASSUME NEW k \in 0..7
      PROVE  /\ ScaleSixes[k] = {b \in 32..127 : OwnsSix(b) = 2 * k}
             /\ MinSixes[k] = {b \in 32..127 : OwnsSix(b) = 2 * k + 1}
  <2>1. ScaleSixes[k] = BitsOf(SixOfScale(k)) /\ MinSixes[k] = BitsOf(SixOfMin(k))
    BY DEF ScaleSixes, MinSixes
  <2>2. CASE k < 4
    <3>1. \A b \in Int : b \in ((32 + 8 * k)..(35 + 8 * k)) \cup ((36 + 8 * k)..(37 + 8 * k))
                           <=> b \in 32..127 /\ OwnsSix(b) = 2 * k
      BY <2>2 DEF OwnsSix
    <3>2. \A b \in Int : b \in ((64 + 8 * k)..(67 + 8 * k)) \cup ((68 + 8 * k)..(69 + 8 * k))
                           <=> b \in 32..127 /\ OwnsSix(b) = 2 * k + 1
      BY <2>2 DEF OwnsSix
    <3>. QED
      BY <2>1, <2>2, <3>1, <3>2, SixAt
  <2>3. CASE ~(k < 4)
    <3>1. \A b \in Int : b \in ((64 + 8 * k)..(67 + 8 * k)) \cup ((8 * k + 6)..(8 * k + 7))
                           <=> b \in 32..127 /\ OwnsSix(b) = 2 * k
      BY <2>3 DEF OwnsSix
    <3>2. \A b \in Int : b \in ((68 + 8 * k)..(71 + 8 * k)) \cup ((38 + 8 * k)..(39 + 8 * k))
                           <=> b \in 32..127 /\ OwnsSix(b) = 2 * k + 1
      BY <2>3 DEF OwnsSix
    <3>. QED
      BY <2>1, <2>3, <3>1, <3>2, SixAt
  <2>. QED
    BY <2>2, <2>3
<1>3. ASSUME NEW x
      PROVE  {b \in Run(32, 127) : OwnSix[b] = x} = {b \in 32..127 : OwnsSix(b) = x}
  BY DEF Run, OwnSix
<1>4. ASSUME NEW k \in 0..7
      PROVE  /\ ScaleSixes[k] = {b \in Run(32, 127) : OwnSix[b] = 2 * k}
             /\ MinSixes[k] = {b \in Run(32, 127) : OwnSix[b] = 2 * k + 1}
  <2>. DEFINE x == 2 * k
              z == 2 * k + 1
  <2>1. /\ ScaleSixes[k] = {b \in 32..127 : OwnsSix(b) = x}
        /\ MinSixes[k] = {b \in 32..127 : OwnsSix(b) = z}
    BY <1>2
  <2>. HIDE DEF x, z
  <2>2. /\ ScaleSixes[k] = {b \in Run(32, 127) : OwnSix[b] = x}
        /\ MinSixes[k] = {b \in Run(32, 127) : OwnSix[b] = z}
    BY <1>3, <2>1, ZenonT(40)
  <2>. QED
    BY <2>2 DEF x, z
<1>. QED
  BY <1>1, <1>4 DEF Owned

(* Q4_K: six bits of scale and of minimum, after two halves.               *)
LEMMA TilesQ4_K == Tiled("Q4_K", 255, 1151)
<1>. DEFINE sc(y) == SixOfScale(y \div 32)
            mn(y) == SixOfMin(y \div 32)
<1>1. \A y : Published("Q4_K", y)
               = Value(<<"u", Plane(16, 64, 32, 4, y)>>,
                       <<Half(0), <<"u", sc(y)>>>>, <<"minus", Half(2), <<"u", mn(y)>>>>)
  BY DEF Published, SixOfScale, SixOfMin
<1>. HIDE DEF sc, mn
<1>2. \A y : /\ Published("Q4_K", y).quant[2] = Plane(16, 64, 32, 4, y)
             /\ Published("Q4_K", y).scale = <<Half(0), <<"u", sc(y)>>>>
             /\ Published("Q4_K", y).offset = <<"minus", Half(2), <<"u", mn(y)>>>>
  BY ONLY <1>1, SMTT(30) DEF Value
<1>3. \A y \in 0..255 : y \div 32 \in 0..7
  OBVIOUS
<1>4. \A y \in 0..255 : BitsOf(sc(y)) = ScaleSixes[y \div 32] /\ BitsOf(mn(y)) = MinSixes[y \div 32]
  BY <1>3 DEF ScaleSixes, MinSixes, sc, mn
<1>5. PairedBy("Q4_K", 32, Half(0), "minus", Half(2), ScaleSixes, MinSixes)
  <2>. SUFFICES ASSUME NEW y \in 0..255
                PROVE  \E b, e : /\ Published("Q4_K", y).scale = <<Half(0), b>>
                                 /\ BitsOf(b[2]) = ScaleSixes[y \div 32]
                                 /\ Published("Q4_K", y).offset = <<"minus", Half(2), e>>
                                 /\ BitsOf(e[2]) = MinSixes[y \div 32]
    BY ZenonT(40) DEF PairedBy
  <2>1. <<"u", sc(y)>>[2] = sc(y) /\ <<"u", mn(y)>>[2] = mn(y)
    OBVIOUS
  <2>. WITNESS <<"u", sc(y)>>, <<"u", mn(y)>>
  <2>. QED
    BY <1>2, <1>4, <2>1, Zenon
<1>6. Takes("Q4_K", 255, 16, 64, 32, 4)
  BY ONLY <1>2 DEF Takes
<1>7. /\ Subs(32, 7) /\ Apart(Run(0, 15), Run(16, 31))
      /\ Apart(Run(0, 15) \cup Run(16, 31), Run(32, 127))
      /\ Splits(Run(128, 1151), (Run(0, 15) \cup Run(16, 31)) \cup Run(32, 127), 1151)
  BY DEF Subs, Apart, Splits, Run
<1>8. Sharing("Q4_K", 255, (Run(0, 15) \cup Run(16, 31)) \cup Run(32, 127))
  BY <1>5, <1>7, Halfs, SixOwned, PairSharing
<1>. QED
  BY <1>6, <1>7, <1>8, Planes, OnePlane

(* Q5_K: as Q4_K, with the fifth bits between them and the nibbles.        *)
LEMMA TilesQ5_K == Tiled("Q5_K", 255, 1407)
<1>. DEFINE sc(y) == SixOfScale(y \div 32)
            mn(y) == SixOfMin(y \div 32)
<1>1. \A y : Published("Q5_K", y)
               = Value(<<"u", Plane(48, 64, 32, 4, y) \o Plane(16, 256, 32, 1, y)>>,
                       <<Half(0), <<"u", sc(y)>>>>, <<"minus", Half(2), <<"u", mn(y)>>>>)
  BY DEF Published, SixOfScale, SixOfMin
<1>. HIDE DEF sc, mn
<1>2. \A y : /\ Published("Q5_K", y).quant[2] = Plane(48, 64, 32, 4, y) \o Plane(16, 256, 32, 1, y)
             /\ Published("Q5_K", y).scale = <<Half(0), <<"u", sc(y)>>>>
             /\ Published("Q5_K", y).offset = <<"minus", Half(2), <<"u", mn(y)>>>>
  BY ONLY <1>1, SMTT(30) DEF Value
<1>3. \A y \in 0..255 : y \div 32 \in 0..7
  OBVIOUS
<1>4. \A y \in 0..255 : BitsOf(sc(y)) = ScaleSixes[y \div 32] /\ BitsOf(mn(y)) = MinSixes[y \div 32]
  BY <1>3 DEF ScaleSixes, MinSixes, sc, mn
<1>5. PairedBy("Q5_K", 32, Half(0), "minus", Half(2), ScaleSixes, MinSixes)
  <2>. SUFFICES ASSUME NEW y \in 0..255
                PROVE  \E b, e : /\ Published("Q5_K", y).scale = <<Half(0), b>>
                                 /\ BitsOf(b[2]) = ScaleSixes[y \div 32]
                                 /\ Published("Q5_K", y).offset = <<"minus", Half(2), e>>
                                 /\ BitsOf(e[2]) = MinSixes[y \div 32]
    BY ZenonT(40) DEF PairedBy
  <2>1. <<"u", sc(y)>>[2] = sc(y) /\ <<"u", mn(y)>>[2] = mn(y)
    OBVIOUS
  <2>. WITNESS <<"u", sc(y)>>, <<"u", mn(y)>>
  <2>. QED
    BY <1>2, <1>4, <2>1, Zenon
<1>6. TakesTwo("Q5_K", 255, 48, 64, 32, 4, 16, 256, 32, 1)
  BY ONLY <1>2 DEF TakesTwo
<1>7. /\ Subs(32, 7) /\ Apart(Run(0, 15), Run(16, 31))
      /\ Apart(Run(0, 15) \cup Run(16, 31), Run(32, 127)) /\ Apart(Run(384, 1407), Run(128, 383))
      /\ Splits(Run(384, 1407) \cup Run(128, 383),
                (Run(0, 15) \cup Run(16, 31)) \cup Run(32, 127), 1407)
  BY DEF Subs, Apart, Splits, Run
<1>8. Sharing("Q5_K", 255, (Run(0, 15) \cup Run(16, 31)) \cup Run(32, 127))
  BY <1>5, <1>7, Halfs, SixOwned, PairSharing
<1>. QED
  BY <1>6, <1>7, <1>8, Planes, TwoPlanes

-----------------------------------------------------------------------------
(* The blocks of a result.                                                 *)

(* Every format's block is tiled.                                          *)
LEMMA AllTiled ==
  \A t \in Supported : Tiled(t, block_size(t) - 1, 8 * type_size[t] - 1)
<1>1. /\ Tiled("F32", 1 - 1, 8 * 4 - 1) /\ Tiled("F16", 1 - 1, 8 * 2 - 1)
      /\ Tiled("BF16", 1 - 1, 8 * 2 - 1) /\ Tiled("Q4_0", 32 - 1, 8 * 18 - 1)
      /\ Tiled("Q4_1", 32 - 1, 8 * 20 - 1) /\ Tiled("Q5_0", 32 - 1, 8 * 22 - 1)
      /\ Tiled("Q5_1", 32 - 1, 8 * 24 - 1) /\ Tiled("Q8_0", 32 - 1, 8 * 34 - 1)
      /\ Tiled("IQ4_NL", 32 - 1, 8 * 18 - 1)
  BY TilesPlain, TilesQ4_0, TilesQ4_1, TilesQ5_0, TilesQ5_1, TilesQ8_0, TilesIQ4_NL
<1>2. /\ Tiled("IQ4_XS", 256 - 1, 8 * 136 - 1) /\ Tiled("Q2_K", 256 - 1, 8 * 84 - 1)
      /\ Tiled("Q3_K", 256 - 1, 8 * 110 - 1) /\ Tiled("Q4_K", 256 - 1, 8 * 144 - 1)
      /\ Tiled("Q5_K", 256 - 1, 8 * 176 - 1) /\ Tiled("Q6_K", 256 - 1, 8 * 210 - 1)
  BY TilesIQ4_XS, TilesQ2_K, TilesQ3_K, TilesQ4_K, TilesQ5_K, TilesQ6_K
<1>3. \A t \in Supported :
        block_size(t) = Decoders[t].block /\ type_size[t] = Decoders[t].bytes
  BY Sizes
<1>4. ASSUME NEW t \in Supported
      PROVE  Tiled(t, Decoders[t].block - 1, 8 * Decoders[t].bytes - 1)
  BY <1>1, <1>2, SupportedNames DEF Decoders, Decoder
<1>. QED
  BY <1>3, <1>4

(* The bits h of a block of E bits, in block c of many.                    *)
Copy(c, E, h) == {x \in Nat : x \div E = c /\ x % E \in h}

Moved(by, h) == {by + b : b \in h}

(* They are the block's, moved.                                            *)
LEMMA CopyIs ==
  ASSUME NEW c, NEW E, NEW h, c \in Nat, E \in Nat \ {0}, h \subseteq 0..(E - 1)
  PROVE  Moved(c * E, h) = Copy(c, E, h)
<1>1. ASSUME NEW b \in h
      PROVE  c * E + b \in Copy(c, E, h)
  <2>. DEFINE x == c * E + b
  <2>1. b \in 0..(E - 1) /\ x = c * E + b
    OBVIOUS
  <2>. HIDE DEF x
  <2>2. x \in Nat /\ x \div E = c /\ x % E = b
    BY ONLY <2>1, c \in Nat, E \in Nat \ {0}, DivisionOf
  <2>. QED
    BY <2>2 DEF Copy, x
<1>2. ASSUME NEW x \in Copy(c, E, h)
      PROVE  x \in Moved(c * E, h)
  <2>1. x \in Nat /\ x \div E = c /\ x % E \in h
    BY DEF Copy
  <2>2. x = (x \div E) * E + (x % E)
    BY <2>1, Divided
  <2>. QED
    BY <2>1, <2>2 DEF Moved
<1>. QED
  BY <1>1, <1>2 DEF Moved

(* Parts of a block, in each of N blocks, are parts of them all.           *)
LEMMA PartsRepeat ==
  ASSUME NEW N, NEW E, NEW H, N \in Nat, E \in Nat \ {0}, Parts(H, 0..(E - 1)), NEW F,
         \A f \in F : \E c \in 0..(N - 1), h \in H : f = Copy(c, E, h),
         \A c \in 0..(N - 1), h \in H : Copy(c, E, h) \in F
  PROVE  Parts(F, 0..(N * E - 1))
<1>1. N * E \in Nat /\ UNION H = 0..(E - 1)
  BY DEF Parts
<1>2. ASSUME NEW x \in Nat
      PROVE  /\ x < N * E <=> x \div E < N
             /\ x \div E \in Nat /\ x % E \in 0..(E - 1)
  <2>1. x \div E \in Nat /\ x % E \in 0..(E - 1) /\ x = (x \div E) * E + (x % E)
    BY Divided
  <2>. DEFINE q == x \div E
              r == x % E
  <2>2. q \in Nat /\ r \in 0..(E - 1) /\ x = q * E + r
    BY <2>1
  <2>. HIDE DEF q, r
  <2>3. q * E + r < N * E <=> q < N
    BY <2>2, BelowProduct
  <2>4. x < N * E <=> q < N
    BY <2>2, <2>3, Zenon
  <2>. QED
    BY <2>1, <2>4 DEF q
<1>3. ASSUME NEW x \in 0..(N * E - 1)
      PROVE  \E f \in F : x \in f
  <2>1. x \in Nat /\ x < N * E
    BY <1>1
  <2>2. x \div E \in Nat /\ x \div E < N /\ x % E \in 0..(E - 1)
    BY <1>2, <2>1
  <2>3. x \div E \in 0..(N - 1)
    BY <2>2
  <2>4. PICK h \in H : x % E \in h
    BY <1>1, <2>2
  <2>5. x \in Copy(x \div E, E, h)
    BY <2>1, <2>4 DEF Copy
  <2>. QED
    BY <2>3, <2>5
<1>4. ASSUME NEW f \in F, NEW x \in f
      PROVE  x \in 0..(N * E - 1)
  <2>1. PICK c \in 0..(N - 1), h \in H : f = Copy(c, E, h)
    OBVIOUS
  <2>2. x \in Nat /\ x \div E < N
    BY <2>1 DEF Copy
  <2>3. x < N * E
    BY <1>2, <2>2
  <2>. QED
    BY <1>1, <2>2, <2>3
<1>5. ASSUME NEW f \in F, NEW g \in F, NEW x \in f, x \in g
      PROVE  f = g
  <2>1. PICK c \in 0..(N - 1), h \in H : f = Copy(c, E, h)
    OBVIOUS
  <2>2. PICK d \in 0..(N - 1), j \in H : g = Copy(d, E, j)
    OBVIOUS
  <2>3. c = d /\ x % E \in h /\ x % E \in j
    BY <1>5, <2>1, <2>2 DEF Copy
  <2>4. h = j
    BY <2>3 DEF Parts
  <2>. QED
    BY <2>1, <2>2, <2>3, <2>4, Zenon
<1>6. UNION F = 0..(N * E - 1)
  BY <1>3, <1>4
<1>. QED
  BY <1>5, <1>6 DEF Parts

(* As many as they are, where no two are the same.                         *)
LEMMA ManyImages ==
  ASSUME NEW count, NEW f, NEW Q, count \in Nat, DOMAIN f = 0..(count - 1),
         f \in [0..(count - 1) -> Q],
         Q = {f[y] : y \in 0..(count - 1)},
         \A y, z \in 0..(count - 1) : f[y] = f[z] => y = z
  PROVE  Cardinality(Q) = count
<1>. DEFINE I == 0..(count - 1)
<1>1. IsFiniteSet(I) /\ Cardinality(I) = count
  BY FS_Interval
<1>. HIDE DEF I
<1>2. f \in Surjection(I, Q) /\ f \in Injection(I, Q)
  BY DEF Surjection, Injection, IsInjective, I
<1>3. Cardinality(Q) = Cardinality(I)
  BY <1>1, <1>2, FS_Surjection
<1>. QED
  BY <1>1, <1>3

(* The bits of the values of a block, each field once.                     *)
BlockBits(t) ==
  {OwnBits(Published(t, z)) : z \in 0..(block_size(t) - 1)}
    \cup UNION {SharedBits(Published(t, z)) : z \in 0..(block_size(t) - 1)}

(* A field of a value is its field of the block, moved there.              *)
LEMMA FieldMoved ==
  ASSUME NEW at, NEW term
  PROVE  Field(at, term) = Moved(8 * at, BitsOf(term[2]))
  BY DEF Field, Moved, BitsOf

(* So are the fields of a value, its own and those it shares.              *)
LEMMA ValueMoved ==
  ASSUME NEW at, NEW v
  PROVE  /\ Own([at |-> at, value |-> v]) = Moved(8 * at, OwnBits(v))
         /\ Shared([at |-> at, value |-> v]) = {Moved(8 * at, h) : h \in SharedBits(v)}
<1>. DEFINE e == [at |-> at, value |-> v]
            D == DOMAIN v.scale
            O == 2..Len(v.offset)
<1>1. e.at = at /\ e.value = v
  OBVIOUS
<1>2. Own(e) = Moved(8 * at, OwnBits(v))
  BY <1>1, FieldMoved DEF Own, OwnBits
<1>. HIDE DEF e
<1>3. Shared(e) = {Field(at, v.scale[k]) : k \in D} \cup {Field(at, v.offset[k]) : k \in O}
  BY <1>1 DEF Shared
<1>4. SharedBits(v) = {BitsOf(v.scale[k][2]) : k \in D} \cup {BitsOf(v.offset[k][2]) : k \in O}
  BY DEF SharedBits
<1>. HIDE DEF D, O
<1>5. Shared(e) = {Moved(8 * at, BitsOf(v.scale[k][2])) : k \in D}
                  \cup {Moved(8 * at, BitsOf(v.offset[k][2])) : k \in O}
  BY <1>3, FieldMoved
<1>6. Shared(e) = {Moved(8 * at, h) : h \in SharedBits(v)}
  BY <1>4, <1>5
<1>. QED
  BY <1>2, <1>6 DEF e

(* The bits of value y of a result in place are those of its block.        *)
LEMMA LaidBits ==
  ASSUME name \in Supported, NEW y, y \in Nat
  PROVE  LET b == block_size(name)
             E == 8 * type_size[name]
         IN /\ Own(Laid(y)) = Copy(y \div b, E, OwnBits(Published(name, y % b)))
            /\ Shared(Laid(y))
                 = {Copy(y \div b, E, h) : h \in SharedBits(Published(name, y % b))}
<1>. DEFINE b == block_size(name)
            s == type_size[name]
            E == 8 * s
            c == y \div b
            v == Published(name, y % b)
            at == c * s
<1>1. b \in Nat \ {0} /\ s \in Nat \ {0}
  BY Sizes
<1>2. c \in Nat /\ y % b \in 0..(b - 1)
  BY <1>1, Divided
<1>3. 8 * at = c * E /\ E \in Nat \ {0}
  BY <1>1, <1>2
<1>4. Parts(BlockBits(name), 0..(E - 1))
  BY AllTiled DEF Tiled, BlockBits
<1>5. OwnBits(v) \in BlockBits(name) /\ SharedBits(v) \subseteq BlockBits(name)
  BY <1>2 DEF BlockBits
<1>. DEFINE e == [at |-> at, value |-> v]
<1>6. Laid(y) = e
  BY DEF Laid
<1>7. Own(e) = Moved(8 * at, OwnBits(v)) /\ Shared(e) = {Moved(8 * at, h) : h \in SharedBits(v)}
  BY ValueMoved
<1>. HIDE DEF v, E, c, at, e
<1>8. \A h \in BlockBits(name) : Moved(8 * at, h) = Copy(c, E, h)
  <2>. SUFFICES ASSUME NEW h \in BlockBits(name) PROVE Moved(8 * at, h) = Copy(c, E, h)
    OBVIOUS
  <2>1. h \subseteq 0..(E - 1)
    BY <1>4 DEF Parts
  <2>2. Moved(c * E, h) = Copy(c, E, h)
    BY <1>2, <1>3, <2>1, CopyIs
  <2>. QED
    BY <1>3, <2>2
<1>9. /\ Own(e) = Copy(c, E, OwnBits(v))
      /\ Shared(e) = {Copy(c, E, h) : h \in SharedBits(v)}
  BY <1>5, <1>7, <1>8
<1>. QED
  BY <1>6, <1>9 DEF c, E, v

(* "Every bit once" of a result in place.                                  *)
LEMMA LaidOnce ==
  ASSUME ElementsInv, BlocksInv
  PROVE  EveryBitOnce
<1>. SUFFICES ASSUME stage = "done"
              PROVE  LET Quants == {Own(dst[y]) : y \in DOMAIN dst}
                         Fields == Quants \cup UNION {Shared(dst[y]) : y \in DOMAIN dst}
                     IN /\ \A y \in DOMAIN dst : dst[y] # <<>>
                        /\ Cardinality(Quants) = elements
                        /\ UNION Fields = 0..(8 * bytes - 1)
                        /\ \A f, g \in Fields : f = g \/ f \cap g = {}
  BY DEF EveryBitOnce
<1>. DEFINE b == block_size(name)
            s == type_size[name]
            E == 8 * s
            N == Whole
            I == 0..(elements - 1)
            own(z) == OwnBits(Published(name, z))
            shared(z) == SharedBits(Published(name, z))
            H == BlockBits(name)
            Quants == {Own(dst[y]) : y \in DOMAIN dst}
            Fields == Quants \cup UNION {Shared(dst[y]) : y \in DOMAIN dst}
<1>1. /\ name \in Supported /\ elements \in Nat /\ elements = N * b /\ bytes = N * s
      /\ DOMAIN dst = I
  BY DEF BlocksInv
<1>2. b \in Nat \ {0} /\ s \in Nat \ {0}
  BY <1>1, Sizes
<1>3. N \in Nat /\ E \in Nat \ {0} /\ 8 * bytes = N * E
  <2>1. N \in Nat
    BY <1>1, <1>2, Divided DEF Whole
  <2>2. E \in Nat \ {0} /\ N * (8 * s) = 8 * (N * s)
    BY <1>2, <2>1
  <2>. QED
    BY <1>1, <2>1, <2>2, Zenon
<1>4. Tiled(name, b - 1, E - 1)
  BY <1>1, AllTiled
<1>5. ASSUME NEW y \in I
      PROVE  /\ y \in Nat /\ y \div b \in 0..(N - 1) /\ y % b \in 0..(b - 1)
             /\ y = (y \div b) * b + (y % b) /\ dst[y] = Laid(y)
             /\ Own(dst[y]) = Copy(y \div b, E, own(y % b))
             /\ Shared(dst[y]) = {Copy(y \div b, E, h) : h \in shared(y % b)}
  <2>. DEFINE q == y \div b
              r == y % b
  <2>1. y \in Nat /\ y < N * b
    BY <1>1
  <2>2. q \in Nat /\ r \in 0..(b - 1) /\ y = q * b + r
    BY <1>2, <2>1, Divided
  <2>3. Own(Laid(y)) = Copy(q, E, own(r)) /\ Shared(Laid(y)) = {Copy(q, E, h) : h \in shared(r)}
    BY <1>1, <2>1, LaidBits
  <2>4. \A x \in DOMAIN dst : x \div b < N => dst[x] = Laid(x)
    BY DEF BlocksInv
  <2>. HIDE DEF q, r, b, N, E
  <2>5. q * b + r < N * b <=> q < N
    BY <1>2, <1>3, <2>2, BelowProduct
  <2>6. q < N
    BY <2>1, <2>2, <2>5, Zenon
  <2>7. q \in 0..(N - 1)
    BY <1>3, <2>2, <2>6
  <2>8. dst[y] = Laid(y)
    BY <1>1, <2>4, <2>6 DEF q
  <2>. QED
    BY <2>1, <2>2, <2>3, <2>7, <2>8 DEF q, r
<1>6. ASSUME NEW c \in 0..(N - 1), NEW z \in 0..(b - 1)
      PROVE  c * b + z \in I /\ (c * b + z) \div b = c /\ (c * b + z) % b = z
  <2>. DEFINE x == c * b + z
  <2>1. c \in Nat /\ c < N
    BY <1>3
  <2>2. x < N * b
    BY <1>2, <1>3, <2>1, BelowProduct
  <2>3. x = c * b + z
    OBVIOUS
  <2>. HIDE DEF x
  <2>4. x \in Nat /\ x \div b = c /\ x % b = z
    BY ONLY <1>2, <2>1, <2>3, z \in 0..(b - 1), DivisionOf
  <2>5. x \in I
    BY <1>1, <2>2, <2>4
  <2>. QED
    BY <2>4, <2>5 DEF x
<1>7. Parts(H, 0..(E - 1))
  BY <1>4 DEF Tiled, BlockBits
<1>. HIDE DEF b, E, N, I
<1>8. ASSUME NEW f \in Fields
      PROVE  \E c \in 0..(N - 1), h \in H : f = Copy(c, E, h)
  <2>1. PICK y \in I : f = Own(dst[y]) \/ f \in Shared(dst[y])
    BY <1>1
  <2>2. own(y % b) \in H /\ shared(y % b) \subseteq H
    BY <1>5 DEF BlockBits, b
  <2>. DEFINE c == y \div b
              o == own(y % b)
              S == shared(y % b)
  <2>3. /\ c \in 0..(N - 1) /\ Own(dst[y]) = Copy(c, E, o)
        /\ Shared(dst[y]) = {Copy(c, E, h) : h \in S}
    BY <1>5
  <2>4. o \in H /\ S \subseteq H
    BY <2>2
  <2>. HIDE DEF c, o, S, H
  <2>5. CASE f = Own(dst[y])
    BY <2>3, <2>4, <2>5
  <2>6. CASE f \in Shared(dst[y])
    <3>1. PICK h \in S : f = Copy(c, E, h)
      BY <2>3, <2>6
    <3>. QED
      BY <2>3, <2>4, <3>1
  <2>. QED
    BY <2>1, <2>5, <2>6
<1>9. ASSUME NEW c \in 0..(N - 1), NEW h \in H
      PROVE  Copy(c, E, h) \in Fields
  <2>1. PICK z \in 0..(b - 1) : h = own(z) \/ h \in shared(z)
    BY DEF BlockBits, b
  <2>. DEFINE y == c * b + z
  <2>2. y \in I /\ y \div b = c /\ y % b = z
    BY <1>6
  <2>. HIDE DEF y
  <2>3. Own(dst[y]) = Copy(c, E, own(z)) /\ Shared(dst[y]) = {Copy(c, E, j) : j \in shared(z)}
    BY <1>5, <2>2
  <2>4. Own(dst[y]) \in Fields /\ Shared(dst[y]) \subseteq Fields
    BY <1>1, <2>2
  <2>. QED
    BY <2>1, <2>3, <2>4
<1>10. Parts(Fields, 0..(N * E - 1))
  <2>. HIDE DEF Fields, H
  <2>. QED
    BY <1>3, <1>7, <1>8, <1>9, PartsRepeat
<1>11. ASSUME NEW y \in I, NEW z \in I, Own(dst[y]) = Own(dst[z])
       PROVE  y = z
  <2>. DEFINE c == y \div b
              d == z \div b
              r == y % b
              q == z % b
  <2>1. /\ c \in 0..(N - 1) /\ r \in 0..(b - 1) /\ y = c * b + r
        /\ Own(dst[y]) = Copy(c, E, own(r))
    BY <1>5
  <2>2. d \in 0..(N - 1) /\ q \in 0..(b - 1) /\ z = d * b + q /\ Own(dst[z]) = Copy(d, E, own(q))
    BY <1>5
  <2>. HIDE DEF c, d, r, q
  <2>3. PICK x : x \in own(r)
    BY <1>4, <2>1 DEF Tiled
  <2>4. x \in 0..(E - 1)
    <3>1. own(r) \in H
      BY <2>1 DEF BlockBits, b
    <3>. QED
      BY <1>7, <2>3, <3>1 DEF Parts
  <2>. DEFINE w == c * E + x
  <2>5. c \in Nat /\ w = c * E + x
    BY <2>1
  <2>. HIDE DEF w
  <2>6. w \in Nat /\ w \div E = c /\ w % E = x
    BY ONLY <1>3, <2>4, <2>5, DivisionOf
  <2>7. w \in Copy(c, E, own(r))
    BY <2>3, <2>6 DEF Copy
  <2>8. w \in Copy(d, E, own(q))
    BY <1>11, <2>1, <2>2, <2>7, Zenon
  <2>9. c = d /\ x \in own(q)
    BY <2>6, <2>8 DEF Copy
  <2>10. r = q
    BY <1>4, <2>1, <2>2, <2>3, <2>9 DEF Tiled
  <2>. QED
    BY <2>1, <2>2, <2>9, <2>10, Zenon
<1>12. Cardinality(Quants) = elements
  <2>. DEFINE f == [y \in I |-> Own(dst[y])]
  <2>1. DOMAIN f = I /\ f \in [I -> Quants] /\ Quants = {f[y] : y \in I}
    BY <1>1
  <2>2. \A y, z \in I : f[y] = f[z] => y = z
    BY <1>11
  <2>. HIDE DEF f, Quants
  <2>. QED
    BY <1>1, <2>1, <2>2, ManyImages DEF I
<1>13. \A y \in DOMAIN dst : dst[y] # <<>>
  <2>1. \A y : "at" \in DOMAIN Laid(y)
    BY DEF Laid
  <2>2. DOMAIN <<>> = {}
    OBVIOUS
  <2>3. \A y \in DOMAIN dst : dst[y] = Laid(y)
    BY <1>1, <1>5
  <2>. QED
    BY <2>1, <2>2, <2>3
<1>14. UNION Fields = 0..(8 * bytes - 1) /\ \A f, g \in Fields : f = g \/ f \cap g = {}
  <2>. HIDE DEF Fields
  <2>. QED
    BY <1>3, <1>10 DEF Parts
<1>. QED
  BY <1>12, <1>13, <1>14, Zenon

(* Every bit of a tensor of any length, in every format that is decoded,   *)
(* is in one field of one value, scale or minimum.                         *)
THEOREM EveryBitOnceHolds == Spec => []EveryBitOnce
  BY BlocksInit, BlocksStep, LaidOnce, PTL DEF Spec
=============================================================================
