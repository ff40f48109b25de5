------------------------------- MODULE Formats ------------------------------
(***************************************************************************)
(* The block formats of src/crates/gguf-quants: the table of types         *)
(* (dtype.rs), and for each format that is decoded what its                *)
(* dequantize_block writes where, from which bits.                         *)
(*                                                                         *)
(* A type is the name of its variant, which is what {:?} prints.  Bit k of *)
(* byte b of a block is numbered 8 * b + k; a field is the sequence of its *)
(* bits, the lowest first, so that x | (h << n) is a concatenation.  What  *)
(* is left out is the arithmetic on the numbers the fields hold: a term    *)
(* <<kind, bits>> says how they are read ("u-8" is unsigned, less 8).      *)
(***************************************************************************)
EXTENDS Naturals, Sequences

CONSTANT None

-----------------------------------------------------------------------------
(* dtype.rs *)

Variants == <<"F32", "F16", "Q4_0", "Q4_1", None, None, "Q5_0", "Q5_1", "Q8_0",
  "Q8_1", "Q2_K", "Q3_K", "Q4_K", "Q5_K", "Q6_K", "Q8_K", "IQ2_XXS", "IQ2_XS",
  "IQ3_XXS", "IQ1_S", "IQ4_NL", "IQ3_S", "IQ2_S", "IQ4_XS", "I8", "I16", "I32",
  "I64", "F64", "IQ1_M", "BF16", "Q4_0_4_4", "Q4_0_4_8", "Q4_0_8_8", "TQ1_0", "TQ2_0">>

from_u32(v) == IF v + 1 \in DOMAIN Variants THEN Variants[v + 1] ELSE None

Types == {Variants[k] : k \in DOMAIN Variants} \ {None}

block_size(t) ==
  CASE t \in {"F32", "F16", "BF16", "F64", "I8", "I16", "I32", "I64"} -> 1
    [] t \in {"Q4_0", "Q4_1", "Q5_0", "Q5_1", "Q8_0", "Q8_1", "IQ4_NL",
              "Q4_0_4_4", "Q4_0_4_8", "Q4_0_8_8"} -> 32
    [] t \in {"Q2_K", "Q3_K", "Q4_K", "Q5_K", "Q6_K", "Q8_K", "IQ2_XXS", "IQ2_XS",
              "IQ2_S", "IQ3_XXS", "IQ3_S", "IQ1_S", "IQ1_M", "IQ4_XS", "TQ1_0",
              "TQ2_0"} -> 256

type_size ==
  [F32 |-> 4, F16 |-> 2, BF16 |-> 2, F64 |-> 8, I8 |-> 1, I16 |-> 2, I32 |-> 4, I64 |-> 8,
   Q4_0 |-> 2 + 16, Q4_1 |-> 2 + 2 + 16, Q5_0 |-> 2 + 4 + 16, Q5_1 |-> 2 + 2 + 4 + 16,
   Q8_0 |-> 2 + 32, Q8_1 |-> 4 + 4 + 32, Q2_K |-> 16 + 64 + 2 + 2,
   Q3_K |-> 32 + 64 + 12 + 2, Q4_K |-> 2 + 2 + 12 + 128, Q5_K |-> 2 + 2 + 12 + 32 + 128,
   Q6_K |-> 128 + 64 + 16 + 2, Q8_K |-> 4 + 256 + 16 * 2, IQ2_XXS |-> 2 + 64,
   IQ2_XS |-> 2 + 64 + 16, IQ2_S |-> 2 + 64 + 16 + 8, IQ3_XXS |-> 2 + 64 + 32,
   IQ3_S |-> 2 + 64 + 32 + 4 + 8, IQ1_S |-> 2 + 32 + 8, IQ1_M |-> 32 + 8 + 16,
   IQ4_NL |-> 2 + 16, IQ4_XS |-> 2 + 2 + 4 + 128, Q4_0_4_4 |-> 18, Q4_0_4_8 |-> 18,
   Q4_0_8_8 |-> 18, TQ1_0 |-> 2 + 53, TQ2_0 |-> 2 + 64]

(* None stands for no type.                                                *)
ASSUME NoneAssumption == None \notin DOMAIN type_size

is_supported(t) ==
  t \in {"F32", "F16", "BF16", "Q4_0", "Q4_1", "Q5_0", "Q5_1", "Q8_0", "IQ4_NL",
         "IQ4_XS", "Q2_K", "Q3_K", "Q4_K", "Q5_K", "Q6_K"}

-----------------------------------------------------------------------------
(* Fields of a block, and what is written to one value of it.              *)

Bits(byte, shift, width) == [k \in 1..width |-> 8 * byte + shift + k - 1]

Low(byte)  == Bits(byte, 0, 4)
High(byte) == Bits(byte, 4, 4)
Half(byte) == <<"f16", Bits(byte, 0, 16)>>

Value(quant, scale, offset) == [quant |-> quant, scale |-> scale, offset |-> offset]
Put(to, quant, scale, offset) == [to |-> to, value |-> Value(quant, scale, offset)]

copy_f32     == {Put(0, <<"f32", Bits(0, 0, 32)>>, <<>>, <<>>)}
dequant_f16  == {Put(0, Half(0), <<>>, <<>>)}
dequant_bf16 == {Put(0, <<"high half", Bits(0, 0, 16)>>, <<>>, <<>>)}

q4_0 == UNION {{Put(i,      <<"u-8", Low(2 + i)>>,  <<Half(0)>>, <<>>),
                Put(i + 16, <<"u-8", High(2 + i)>>, <<Half(0)>>, <<>>)} : i \in 0..15}

q4_1 == UNION {{Put(i,      <<"u", Low(4 + i)>>,  <<Half(0)>>, <<"plus", Half(2)>>),
                Put(i + 16, <<"u", High(4 + i)>>, <<Half(0)>>, <<"plus", Half(2)>>)} :
                  i \in 0..15}

(* The fifth bits are bits i and i + 16 of a little-endian u32.            *)
q5_0 == UNION {{Put(i,      <<"u-16", Low(6 + i) \o Bits(2, i, 1)>>, <<Half(0)>>, <<>>),
                Put(i + 16, <<"u-16", High(6 + i) \o Bits(2, i + 16, 1)>>, <<Half(0)>>, <<>>)} :
                  i \in 0..15}

q5_1 == UNION {{Put(i,      <<"u", Low(8 + i) \o Bits(4, i, 1)>>,
                    <<Half(0)>>, <<"plus", Half(2)>>),
                Put(i + 16, <<"u", High(8 + i) \o Bits(4, i + 16, 1)>>,
                    <<Half(0)>>, <<"plus", Half(2)>>)} : i \in 0..15}

q8_0 == {Put(i, <<"i8", Bits(2 + i, 0, 8)>>, <<Half(0)>>, <<>>) : i \in 0..31}

iq4_nl == UNION {{Put(i,      <<"kvalues", Low(2 + i)>>,  <<Half(0)>>, <<>>),
                  Put(i + 16, <<"kvalues", High(2 + i)>>, <<Half(0)>>, <<>>)} : i \in 0..15}

iq4_xs ==
  LET ls(ib) == <<"u-32", Bits(4 + ib \div 2, 4 * (ib % 2), 4) \o Bits(2, 2 * ib, 2)>>
  IN UNION {{Put(32 * ib + j, <<"kvalues", Low(8 + 16 * ib + j)>>, <<Half(0), ls(ib)>>, <<>>),
             Put(32 * ib + 16 + j, <<"kvalues", High(8 + 16 * ib + j)>>,
                 <<Half(0), ls(ib)>>, <<>>)} : ib \in 0..7, j \in 0..15}

(* o counts the outer loop, j the shifts, h the two halves of the body;    *)
(* `is` is 8 * o + 2 * j + h.                                              *)
q2_k ==
  {LET is == 8 * o + 2 * j + h
   IN Put(128 * o + 32 * j + 16 * h + l,
          <<"u", Bits(16 + 32 * o + 16 * h + l, 2 * j, 2)>>,
          <<Half(80), <<"u", Low(is)>>>>,
          <<"minus", Half(82), <<"u", High(is)>>>>) :
     o \in 0..1, j \in 0..3, h \in 0..1, l \in 0..15}

(* aux[3] from an aux[1] that has been overwritten already, and aux[2]     *)
(* from such an aux[0].                                                    *)
unpack_scalesInPlace(is) ==
  LET k == is \div 4  b == is % 4
  IN (IF k < 2 THEN Low(96 + 4 * k + b) ELSE Bits(104 + b, 2 * (k - 2), 2))
     \o Bits(104 + b, 2 * k, 2)

(* Byte b of aux[k]: a nibble of the first eight bytes, two bits of the    *)
(* last four.                                                              *)
unpack_scales(is) ==
  LET k == is \div 4  b == is % 4
  IN (IF k < 2 THEN Low(96 + 4 * k + b) ELSE High(96 + 4 * (k - 2) + b))
     \o Bits(104 + b, 2 * k, 2)

(* m moves up one bit with each shift, through both outer iterations.      *)
q3_k ==
  {Put(128 * o + 32 * j + 16 * h + l,
       <<"u-4", Bits(32 + 32 * o + 16 * h + l, 2 * j, 2) \o Bits(16 * h + l, 4 * o + j, 1)>>,
       <<Half(108), <<"u-32", unpack_scales(8 * o + 2 * j + h)>>>>,
       <<>>) :
     o \in 0..1, j \in 0..3, h \in 0..1, l \in 0..15}

(* unpack_scale_min of q4_k.rs and q5_k.rs, of scales at byte 4.           *)
unpack_scale(j) == IF j < 4 THEN Bits(4 + j, 0, 6) ELSE Low(4 + j + 4) \o Bits(4 + j - 4, 6, 2)
unpack_min(j)   == IF j < 4 THEN Bits(4 + j + 4, 0, 6) ELSE High(4 + j + 4) \o Bits(4 + j, 6, 2)

SubScale(is) == <<Half(0), <<"u", unpack_scale(is)>>>>
SubMin(is)   == <<"minus", Half(2), <<"u", unpack_min(is)>>>>

(* `is` is 2 * k and 2 * k + 1.                                            *)
q4_k == UNION {{Put(64 * k + l, <<"u", Low(16 + 32 * k + l)>>, SubScale(2 * k), SubMin(2 * k)),
                Put(64 * k + 32 + l, <<"u", High(16 + 32 * k + l)>>,
                    SubScale(2 * k + 1), SubMin(2 * k + 1))} : k \in 0..3, l \in 0..31}

q5_k == UNION {{Put(64 * k + l, <<"u", Low(48 + 32 * k + l) \o Bits(16 + l, 2 * k, 1)>>,
                    SubScale(2 * k), SubMin(2 * k)),
                Put(64 * k + 32 + l, <<"u", High(48 + 32 * k + l) \o Bits(16 + l, 2 * k + 1, 1)>>,
                    SubScale(2 * k + 1), SubMin(2 * k + 1))} : k \in 0..3, l \in 0..31}

(* The four assignments of the body, with the second and third exchanged   *)
(* in what they take from qh.                                              *)
q6_kCrossed ==
  {LET nibble == IF c < 2 THEN Low(64 * o + l + 32 * (c % 2)) ELSE High(64 * o + l + 32 * (c % 2))
       pair == CASE c = 1 -> 2 [] c = 2 -> 1 [] OTHER -> c
   IN Put(128 * o + 32 * c + l, <<"u-32", nibble \o Bits(128 + 32 * o + l, 2 * pair, 2)>>,
          <<Half(208), <<"i8", Bits(192 + 8 * o + l \div 16 + 2 * c, 0, 8)>>>>, <<>>) :
     o \in 0..1, c \in 0..3, l \in 0..31}

(* c counts the four assignments of the body: q1 to q4.                    *)
q6_k ==
  {LET nibble == IF c < 2 THEN Low(64 * o + l + 32 * (c % 2)) ELSE High(64 * o + l + 32 * (c % 2))
   IN Put(128 * o + 32 * c + l, <<"u-32", nibble \o Bits(128 + 32 * o + l, 2 * c, 2)>>,
          <<Half(208), <<"i8", Bits(192 + 8 * o + l \div 16 + 2 * c, 0, 8)>>>>, <<>>) :
     o \in 0..1, c \in 0..3, l \in 0..31}

(* The arms of `dequantize`: BLOCK_SIZE and BYTES_PER_BLOCK of the         *)
(* format's own module, and its dequantize_block.                          *)
Decoder(block, bytes, writes) == [block |-> block, bytes |-> bytes, writes |-> writes]

Decoders ==
  [F32    |-> Decoder(1, 4, copy_f32),   F16  |-> Decoder(1, 2, dequant_f16),
   BF16   |-> Decoder(1, 2, dequant_bf16),
   Q4_0   |-> Decoder(32, 18, q4_0),     Q4_1 |-> Decoder(32, 20, q4_1),
   Q5_0   |-> Decoder(32, 22, q5_0),     Q5_1 |-> Decoder(32, 24, q5_1),
   Q8_0   |-> Decoder(32, 34, q8_0),     IQ4_NL |-> Decoder(32, 18, iq4_nl),
   IQ4_XS |-> Decoder(256, 136, iq4_xs), Q2_K |-> Decoder(256, 84, q2_k),
   Q3_K   |-> Decoder(256, 110, q3_k),   Q4_K |-> Decoder(256, 144, q4_k),
   Q5_K   |-> Decoder(256, 176, q5_k),   Q6_K |-> Decoder(256, 210, q6_k)]
=============================================================================
