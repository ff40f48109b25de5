-------------------------------- MODULE Blocks ------------------------------
(***************************************************************************)
(* From a tensor in the table to its values: what tensors_json says of it, *)
(* `floats` of the JavaScript model, and `dequantize` of the wasm module   *)
(* and of gguf-quants, which decodes block by block into a result of       *)
(* zeroes.  `dequantize` may also be called on its own, with any name and  *)
(* any lengths.                                                            *)
(***************************************************************************)
EXTENDS Formats, FiniteSets

CONSTANTS Tags,       \* the dtype tags a file may hold
          Names,      \* the names a caller may give
          Elements,   \* element counts (a bound)
          Slack       \* how far a caller's byte count may be off (a bound)

ASSUME CallAssumption == /\ Tags \subseteq Nat /\ Elements \subseteq Nat
                         /\ Slack \in Nat

VARIABLES stage,      \* "idle", "called", "decoding", "done", "refused"
          listed,     \* the call is floats() of a tensor in the table
          name,       \* the dtype asked for, by name
          bytes,      \* the length of the source
          elements,   \* the length of the result
          n,          \* the blocks decoded so far
          dst         \* a value and its block's offset, where one was written

vars == <<stage, listed, name, bytes, elements, n, dst>>

(* The list without its last entry.                                        *)
dtype_by_nameShort(given) ==
  IF given \in {"F32", "F16", "BF16", "Q4_0", "Q4_1", "Q5_0", "Q5_1", "Q8_0", "Q8_1",
                "Q2_K", "Q3_K", "Q4_K", "Q5_K", "Q6_K", "Q8_K", "IQ4_NL"}
  THEN given ELSE None

(* The names dtype_by_name knows: each is its own type's.                  *)
dtype_by_name(given) ==
  IF given \in {"F32", "F16", "BF16", "Q4_0", "Q4_1", "Q5_0", "Q5_1", "Q8_0", "Q8_1",
                "Q2_K", "Q3_K", "Q4_K", "Q5_K", "Q6_K", "Q8_K", "IQ4_NL", "IQ4_XS"}
  THEN given ELSE None

supported_dtypes ==
  {t \in {"F32", "F16", "BF16", "Q4_0", "Q4_1", "Q5_0", "Q5_1", "Q8_0", "Q8_1", "Q2_K",
          "Q3_K", "Q4_K", "Q5_K", "Q6_K", "Q8_K", "IQ4_NL", "IQ4_XS"} : is_supported(t)}

(* A tensor of the table: the parser takes whole blocks only.              *)
nbytes(t, count) == (count \div block_size(t)) * type_size[t]

Init == /\ stage = "idle" /\ listed = FALSE /\ name = None
        /\ bytes = 0 /\ elements = 0 /\ n = 0 /\ dst = <<>>

(* floats: refused here if the table does not say `readable`.              *)
floats(t, count) ==
  /\ stage = "idle" /\ t # None /\ count % block_size(t) = 0
  /\ listed' = TRUE /\ name' = t
  /\ bytes' = nbytes(t, count) /\ elements' = count
  /\ stage' = IF is_supported(t) THEN "called" ELSE "refused"
  /\ UNCHANGED <<n, dst>>

(* A caller of dequantize(dtype, bytes, elements).                         *)
CallerDequantize(given, length, count) ==
  /\ stage = "idle"
  /\ listed' = FALSE /\ name' = given /\ bytes' = length /\ elements' = count
  /\ stage' = "called"
  /\ UNCHANGED <<n, dst>>

(* Whole blocks, and as many bytes as they take.                           *)
RightLengths(t) == /\ elements % block_size(t) = 0
                   /\ bytes = (elements \div block_size(t)) * type_size[t]

(* dtype_of, the result of zeroes, and the checks of `dequantize`.         *)
dequantize ==
  /\ stage = "called"
  /\ LET t == dtype_by_name(name)
     IN IF t # None /\ RightLengths(t) /\ t \in DOMAIN Decoders
        THEN stage' = "decoding" /\ dst' = [y \in 0..(elements - 1) |-> <<>>]
        ELSE stage' = "refused" /\ UNCHANGED dst
  /\ UNCHANGED <<listed, name, bytes, elements, n>>

(* chunks_exact of the source zipped with chunks_exact_mut of the result.  *)
BlockLeft(d) == (n + 1) * d.bytes <= bytes /\ (n + 1) * d.block <= elements

DecodeBlock ==
  LET d == Decoders[name]
  IN /\ stage = "decoding" /\ BlockLeft(d)
     /\ dst' = [y \in DOMAIN dst |->
                  LET here == {w \in d.writes : w.to = y % d.block}
                  IN IF y \div d.block # n \/ here = {} THEN dst[y]
                     ELSE [at |-> n * d.bytes, value |-> (CHOOSE w \in here : TRUE).value]]
     /\ n' = n + 1
     /\ UNCHANGED <<stage, listed, name, bytes, elements>>

DecodeEnds == /\ stage = "decoding" /\ ~BlockLeft(Decoders[name])
              /\ stage' = "done"
              /\ UNCHANGED <<listed, name, bytes, elements, n, dst>>

Next == \/ \E v \in Tags, count \in Elements : floats(from_u32(v), count)
        \/ \E given \in Names, count \in Elements, extra \in 0..Slack :
             LET t == IF given \in Types THEN given ELSE "F32"
             IN CallerDequantize(given, nbytes(t, count) + extra, count)
        \/ dequantize \/ DecodeBlock \/ DecodeEnds

Spec == Init /\ [][Next]_vars

-----------------------------------------------------------------------------
(* Value y of a block by the layouts the formats publish.  The fields of a *)
(* width are packed in chunks: the first `stride` values of a chunk are    *)
(* the lowest fields of as many bytes, the next the fields above them.     *)
Plane(base, chunk, stride, width, y) ==
  Bits(base + (y \div chunk) * stride + ((y % chunk) % stride),
       width * ((y % chunk) \div stride), width)

Published(t, y) ==
  LET sub16 == y \div 16  sub32 == y \div 32
      q == sub32 % 4      u == sub32 \div 4
      scale6 == <<"u", Low(4 + 8 * u + q) \o Bits(4 + q, 4 + 2 * u, 2)>>
      min6   == <<"u", Bits(8 + 4 * u + q, 4 * u, 4) \o Bits(8 + q, 4 + 2 * u, 2)>>
      scale3 == <<"u-32", Plane(96, 16, 8, 4, sub16) \o Plane(104, 16, 4, 2, sub16)>>
      scaleX == <<"u-32", Plane(4, 2, 1, 4, sub32) \o Plane(2, 4, 1, 2, sub32)>>
      nibble(base) == Plane(base, 32, 16, 4, y)
      fifth(base)  == Plane(base, 8, 1, 1, y)
  IN CASE t = "F32"    -> Value(<<"f32", Bits(0, 0, 32)>>, <<>>, <<>>)
       [] t = "F16"    -> Value(Half(0), <<>>, <<>>)
       [] t = "BF16"   -> Value(<<"high half", Bits(0, 0, 16)>>, <<>>, <<>>)
       [] t = "Q4_0"   -> Value(<<"u-8", nibble(2)>>, <<Half(0)>>, <<>>)
       [] t = "Q4_1"   -> Value(<<"u", nibble(4)>>, <<Half(0)>>, <<"plus", Half(2)>>)
       [] t = "Q5_0"   -> Value(<<"u-16", nibble(6) \o fifth(2)>>, <<Half(0)>>, <<>>)
       [] t = "Q5_1"   -> Value(<<"u", nibble(8) \o fifth(4)>>, <<Half(0)>>, <<"plus", Half(2)>>)
       [] t = "Q8_0"   -> Value(<<"i8", Plane(2, 1, 1, 8, y)>>, <<Half(0)>>, <<>>)
       [] t = "IQ4_NL" -> Value(<<"kvalues", nibble(2)>>, <<Half(0)>>, <<>>)
       [] t = "IQ4_XS" -> Value(<<"kvalues", nibble(8)>>, <<Half(0), scaleX>>, <<>>)
       [] t = "Q2_K"   -> Value(<<"u", Plane(16, 128, 32, 2, y)>>, <<Half(80), <<"u", Low(sub16)>>>>,
                                <<"minus", Half(82), <<"u", High(sub16)>>>>)
       [] t = "Q3_K"   -> Value(<<"u-4", Plane(32, 128, 32, 2, y) \o Plane(0, 256, 32, 1, y)>>,
                                <<Half(108), scale3>>, <<>>)
       [] t = "Q4_K"   -> Value(<<"u", Plane(16, 64, 32, 4, y)>>, <<Half(0), scale6>>,
                                <<"minus", Half(2), min6>>)
       [] t = "Q5_K"   -> Value(<<"u", Plane(48, 64, 32, 4, y) \o Plane(16, 256, 32, 1, y)>>,
                                <<Half(0), scale6>>, <<"minus", Half(2), min6>>)
       [] t = "Q6_K"   -> Value(<<"u-32", Plane(0, 128, 64, 4, y) \o Plane(128, 128, 32, 2, y)>>,
                                <<Half(208), <<"i8", Plane(192, 1, 1, 8, sub16)>>>>, <<>>)

(* "byte-for-byte compatible with upstream" (lib.rs): every value of a     *)
(* decoded tensor is put together from the bits its format gives to it, in *)
(* the block it belongs to, whatever loops, shifts and masks found them.   *)
AsLaidOut ==
  stage = "done" =>
    \A y \in 0..(elements - 1) :
      dst[y] = [at    |-> (y \div block_size(name)) * type_size[name],
                value |-> Published(name, y % block_size(name))]

(* The bits of the source that a term of a value takes from the block at   *)
(* byte `at`; those of a value's own, and those it shares.                 *)
Field(at, term) == {8 * at + term[2][k] : k \in DOMAIN term[2]}

Own(e)    == Field(e.at, e.value.quant)
Shared(e) == {Field(e.at, e.value.scale[k]) : k \in DOMAIN e.value.scale}
             \cup {Field(e.at, e.value.offset[k]) : k \in 2..Len(e.value.offset)}

(* Nothing in a block is for nothing, and nothing serves twice: every bit  *)
(* of the source belongs to one value, or to one scale or minimum, and to  *)
(* one only; so no byte is left over and no value is left zero.            *)
EveryBitOnce ==
  stage = "done" =>
    LET Quants == {Own(dst[y]) : y \in DOMAIN dst}
        Fields == Quants \cup UNION {Shared(dst[y]) : y \in DOMAIN dst}
    IN /\ \A y \in DOMAIN dst : dst[y] # <<>>
       /\ Cardinality(Quants) = elements
       /\ UNION Fields = 0..(8 * bytes - 1)
       /\ \A f, g \in Fields : f = g \/ f \cap g = {}

(* The formats this build decodes are listed in six places: what the table *)
(* marks readable and what supported_dtypes advertises is decoded, under   *)
(* the name the table prints and unless the lengths are wrong; nothing     *)
(* else is.                                                                *)
ReadableDecodes ==
  /\ stage = "done" => is_supported(name) /\ name \in supported_dtypes
  /\ stage = "refused" /\ listed => ~is_supported(name)
  /\ stage = "refused" /\ name \in supported_dtypes =>
       elements % block_size(name) # 0 \/ bytes # nbytes(name, elements)

(* The bytes of 256 weights in the formats of ggml that are listed but not *)
(* decoded here, as ggml.c and gguf-py have them.                          *)
Upstream ==
  [IQ2_XXS |-> 66, IQ2_XS |-> 74, IQ2_S |-> 82, IQ3_XXS |-> 98, IQ3_S |-> 110,
   IQ1_S |-> 50, IQ1_M |-> 56, TQ1_0 |-> 54, TQ2_0 |-> 66]

(* "The block-byte layouts here MUST stay byte-for-byte compatible with    *)
(* upstream" (lib.rs): a tensor in the table takes the bytes upstream gave *)
(* it, whether or not this build decodes it.                               *)
SizesAsUpstream ==
  listed /\ name \in DOMAIN Upstream => bytes = (elements \div 256) * Upstream[name]
=============================================================================
