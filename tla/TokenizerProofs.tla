-------------------------- MODULE TokenizerProofs ---------------------------
(***************************************************************************)
(* The properties of Tokenizer, for every alphabet, text, pattern, merge   *)
(* list and vocabulary.                                                    *)
(*                                                                         *)
(* First what FlattenSeq, Only and VisibleText do to a sequence that is    *)
(* put together, by induction over sequences; then TypeOK, RoundTrip,      *)
(* SpecialsWhole and CutByPattern, each with its inductive invariant:      *)
(* Typed, Kept, Seen, and CutByPattern itself. Last what replaying a merge *)
(* list does to the symbols of a piece, and ByPriority with its inductive  *)
(* invariant, Replays.                                                     *)
(***************************************************************************)
EXTENDS Tokenizer, PreTokenizerProofs

(* Induction over sequences, from the front, with the property as a set.   *)
LEMMA SeqInduct ==
  ASSUME NEW S, NEW T, <<>> \in T, \A s \in Seq(S) : \A x \in S : s \in T => Append(s, x) \in T
  PROVE  Seq(S) \subseteq T
<1>. DEFINE N == {n \in Nat : \A s \in Seq(S) : Len(s) = n => s \in T}
<1>1. 0 \in N
  BY EmptySeq
<1>2. ASSUME NEW m \in Nat, m \in N
      PROVE  m + 1 \in N
  <2>. SUFFICES ASSUME NEW s \in Seq(S), Len(s) = m + 1
                PROVE  s \in T
    OBVIOUS
  <2>. DEFINE f == SubSeq(s, 1, m)
              x == s[m + 1]
  <2>1. f \in Seq(S) /\ Len(f) = m /\ x \in S
    OBVIOUS
  <2>2. s = Append(f, x)
    OBVIOUS
  <2>. HIDE DEF f, x
  <2>. QED
    BY <1>2, <2>1, <2>2
<1>3. Nat \subseteq N
  <2>. HIDE DEF N
  <2>. QED
    BY <1>1, <1>2, Induct
<1>. QED
  BY <1>3

(* FlattenSeq as a function of how many of the sequences are taken.        *)
FlatOf(seqs) ==
  CHOOSE f : f = [i \in 1..Len(seqs) |-> IF i = 1 THEN seqs[i] ELSE f[i - 1] \o seqs[i]]

(* FlatOf unfolded.                                                        *)
LEMMA FlatOfIs ==
  ASSUME NEW seqs, Len(seqs) \in Nat
  PROVE  FlatOf(seqs) = [i \in 1..Len(seqs) |-> IF i = 1 THEN seqs[i]
                                                ELSE FlatOf(seqs)[i - 1] \o seqs[i]]
<1>. DEFINE Is(f, n) == f = [i \in 1..n |-> IF i = 1 THEN seqs[i] ELSE f[i - 1] \o seqs[i]]
            N == {n \in Nat : \E f : Is(f, n)}
<1>1. 0 \in N
  <2>1. Is([i \in 1..0 |-> 0], 0)
    OBVIOUS
  <2>. QED
    BY <2>1
<1>2. ASSUME NEW m \in Nat, m \in N
      PROVE  m + 1 \in N
  <2>. PICK f : Is(f, m)
    BY <1>2
  <2>. DEFINE g == [i \in 1..(m + 1) |-> IF i = m + 1
                                         THEN (IF i = 1 THEN seqs[i] ELSE f[m] \o seqs[i])
                                         ELSE f[i]]
  <2>1. ASSUME NEW i \in 1..(m + 1)
        PROVE  g[i] = IF i = 1 THEN seqs[i] ELSE g[i - 1] \o seqs[i]
    <3>1. CASE i = m + 1
      BY <3>1
    <3>2. CASE i # m + 1
      <4>1. i \in 1..m /\ (i # 1 => i - 1 \in 1..m)
        BY <3>2
      <4>2. f[i] = IF i = 1 THEN seqs[i] ELSE f[i - 1] \o seqs[i]
        BY <4>1
      <4>. QED
        BY <3>2, <4>1, <4>2
    <3>. QED
      BY <3>1, <3>2
  <2>2. Is(g, m + 1)
    BY <2>1
  <2>. HIDE DEF g
  <2>3. \E h : Is(h, m + 1)
    BY <2>2, Zenon
  <2>. HIDE DEF Is
  <2>. QED
    BY <2>3
<1>3. Nat \subseteq N
  <2>. HIDE DEF N
  <2>. QED
    BY <1>1, <1>2, Induct
<1>4. \E f : Is(f, Len(seqs))
  BY <1>3
<1>. QED
  BY <1>4, Zenon DEF FlatOf

(* FlattenSeq in the terms of FlatOf.                                      *)
LEMMA FlattenIs ==
  ASSUME NEW seqs
  PROVE  FlattenSeq(seqs) = IF Len(seqs) = 0 THEN seqs ELSE FlatOf(seqs)[Len(seqs)]
  BY DEF FlattenSeq, FlatOf

(* Flattening one sequence more.                                           *)
LEMMA FlattenAppend ==
  ASSUME NEW S, NEW seqs \in Seq(Seq(S)), NEW x \in Seq(S)
  PROVE  FlattenSeq(Append(seqs, x)) = IF seqs = <<>> THEN x ELSE FlattenSeq(seqs) \o x
<1>. DEFINE more == Append(seqs, x)
            n == Len(seqs)
            f == FlatOf(seqs)
            g == FlatOf(more)
<1>1. /\ n \in Nat /\ more \in Seq(Seq(S)) /\ Len(more) = n + 1
      /\ more[n + 1] = x /\ \A i \in 1..n : more[i] = seqs[i]
  BY AppendProperties
<1>. HIDE DEF more, n
<1>2. /\ f = [i \in 1..n |-> IF i = 1 THEN seqs[i] ELSE f[i - 1] \o seqs[i]]
      /\ g = [i \in 1..(n + 1) |-> IF i = 1 THEN more[i] ELSE g[i - 1] \o more[i]]
  <2>1. f = [i \in 1..Len(seqs) |-> IF i = 1 THEN seqs[i] ELSE f[i - 1] \o seqs[i]]
    BY <1>1, FlatOfIs DEF n
  <2>2. g = [i \in 1..Len(more) |-> IF i = 1 THEN more[i] ELSE g[i - 1] \o more[i]]
    <3>1. Len(more) \in Nat
      BY <1>1
    <3>. QED
      BY <3>1, FlatOfIs DEF g
  <2>. QED
    BY <1>1, <2>1, <2>2 DEF n
<1>. HIDE DEF f, g
<1>3. \A i \in 1..n : f[i] = IF i = 1 THEN seqs[i] ELSE f[i - 1] \o seqs[i]
  BY <1>1, <1>2
<1>4. \A i \in 1..(n + 1) : g[i] = IF i = 1 THEN more[i] ELSE g[i - 1] \o more[i]
  BY <1>1, <1>2
<1>5. \A i \in Nat : i \in 1..n => g[i] = f[i]
  <2>. DEFINE N == {i \in Nat : i \in 1..n => g[i] = f[i]}
  <2>1. 0 \in N
    BY <1>1
  <2>2. ASSUME NEW m \in Nat, m \in N
        PROVE  m + 1 \in N
    <3>. SUFFICES ASSUME m + 1 \in 1..n PROVE g[m + 1] = f[m + 1]
      OBVIOUS
    <3>1. m + 1 \in 1..(n + 1) /\ more[m + 1] = seqs[m + 1]
      BY <1>1
    <3>2. CASE m = 0
      BY <1>3, <1>4, <3>1, <3>2
    <3>3. CASE m # 0
      <4>1. m \in 1..n /\ g[m] = f[m] /\ (m + 1) - 1 = m /\ m + 1 # 1
        BY <1>1, <2>2, <3>3
      <4>2. g[m + 1] = g[m] \o more[m + 1] /\ f[m + 1] = f[m] \o seqs[m + 1]
        BY <1>3, <1>4, <3>1, <4>1
      <4>. QED
        BY <3>1, <4>1, <4>2
    <3>. QED
      BY <3>2, <3>3
  <2>3. Nat \subseteq N
    <3>. HIDE DEF N
    <3>. QED
      BY <2>1, <2>2, Induct
  <2>. QED
    BY <2>3
<1>6. FlattenSeq(more) = g[n + 1]
  BY <1>1, FlattenIs DEF g
<1>7. CASE seqs = <<>>
  <2>1. n = 0
    BY <1>7 DEF n
  <2>. QED
    BY <1>1, <1>4, <1>6, <1>7, <2>1 DEF more
<1>8. CASE seqs # <<>>
  <2>1. n # 0
    BY <1>8, EmptySeq DEF n
  <2>2. FlattenSeq(seqs) = f[n]
    BY <2>1, FlattenIs DEF f, n
  <2>3. n \in 1..n /\ n + 1 \in 1..(n + 1) /\ n + 1 # 1 /\ (n + 1) - 1 = n
    BY <1>1, <2>1
  <2>4. g[n + 1] = g[n] \o x /\ g[n] = f[n]
    BY <1>1, <1>4, <1>5, <2>3
  <2>. QED
    BY <1>6, <1>8, <2>2, <2>4 DEF more
<1>. QED
  BY <1>7, <1>8

(* Flattening none.                                                        *)
LEMMA FlattenEmpty == FlattenSeq(<<>>) = <<>>
  BY FlattenIs

(* Flattening sequences over a set gives one over the set.                 *)
LEMMA FlattenType ==
  ASSUME NEW S, NEW seqs \in Seq(Seq(S))
  PROVE  FlattenSeq(seqs) \in Seq(S)
<1>. DEFINE T == {s \in Seq(Seq(S)) : FlattenSeq(s) \in Seq(S)}
<1>1. <<>> \in T
  BY FlattenEmpty, EmptySeq
<1>2. ASSUME NEW s \in Seq(Seq(S)), NEW x \in Seq(S), s \in T
      PROVE  Append(s, x) \in T
  <2>1. Append(s, x) \in Seq(Seq(S))
    BY AppendProperties
  <2>2. FlattenSeq(s) \o x \in Seq(S)
    BY <1>2, ConcatProperties
  <2>3. FlattenSeq(Append(s, x)) \in Seq(S)
    BY <2>2, FlattenAppend
  <2>. QED
    BY <2>1, <2>3
<1>. HIDE DEF T
<1>3. Seq(Seq(S)) \subseteq T
  BY <1>1, <1>2, SeqInduct
<1>. QED
  BY <1>3 DEF T

(* FlattenAppend without the case of the first.                            *)
LEMMA FlattenMore ==
  ASSUME NEW S, NEW seqs \in Seq(Seq(S)), NEW x \in Seq(S)
  PROVE  FlattenSeq(Append(seqs, x)) = FlattenSeq(seqs) \o x
<1>1. CASE seqs = <<>>
  BY <1>1, FlattenAppend, FlattenEmpty, ConcatEmptySeq
<1>2. CASE seqs # <<>>
  BY <1>2, FlattenAppend
<1>. QED
  BY <1>1, <1>2

(* Flattening one sequence gives it back.                                  *)
LEMMA FlattenOne ==
  ASSUME NEW S, NEW x \in Seq(S)
  PROVE  FlattenSeq(<<x>>) = x
<1>1. <<>> \in Seq(Seq(S)) /\ Append(<<>>, x) = <<x>>
  OBVIOUS
<1>. QED
  BY <1>1, FlattenAppend

(* Flattening distributes over concatenation.                              *)
LEMMA FlattenConcat ==
  ASSUME NEW S, NEW seqs \in Seq(Seq(S)), NEW more \in Seq(Seq(S))
  PROVE  FlattenSeq(seqs \o more) = FlattenSeq(seqs) \o FlattenSeq(more)
<1>. DEFINE T == {t \in Seq(Seq(S)) : FlattenSeq(seqs \o t) = FlattenSeq(seqs) \o FlattenSeq(t)}
<1>0. FlattenSeq(seqs) \in Seq(S)
  BY FlattenType
<1>1. <<>> \in T
  <2>1. seqs \o <<>> = seqs /\ <<>> \in Seq(Seq(S))
    BY ConcatEmptySeq, EmptySeq
  <2>2. FlattenSeq(seqs) \o <<>> = FlattenSeq(seqs)
    BY <1>0, ConcatEmptySeq
  <2>. QED
    BY <2>1, <2>2, FlattenEmpty
<1>2. ASSUME NEW t \in Seq(Seq(S)), NEW x \in Seq(S), t \in T
      PROVE  Append(t, x) \in T
  <2>1. /\ Append(t, x) \in Seq(Seq(S)) /\ seqs \o t \in Seq(Seq(S))
        /\ FlattenSeq(t) \in Seq(S)
    BY AppendProperties, ConcatProperties, FlattenType
  <2>2. seqs \o Append(t, x) = Append(seqs \o t, x)
    <3>1. Append(t, x) = t \o <<x>> /\ Append(seqs \o t, x) = (seqs \o t) \o <<x>>
      BY <2>1, AppendIsConcat
    <3>2. <<x>> \in Seq(Seq(S))
      OBVIOUS
    <3>. QED
      BY SMTT(30), <3>1, <3>2, ConcatAssociative
  <2>3. FlattenSeq(seqs \o Append(t, x)) = (FlattenSeq(seqs) \o FlattenSeq(t)) \o x
    BY <1>2, <2>1, <2>2, FlattenMore
  <2>4. FlattenSeq(Append(t, x)) = FlattenSeq(t) \o x
    BY FlattenMore
  <2>5. (FlattenSeq(seqs) \o FlattenSeq(t)) \o x = FlattenSeq(seqs) \o (FlattenSeq(t) \o x)
    BY SMTT(30), <1>0, <2>1, ConcatAssociative
  <2>. QED
    BY <2>1, <2>3, <2>4, <2>5
<1>. HIDE DEF T
<1>3. Seq(Seq(S)) \subseteq T
  BY <1>1, <1>2, SeqInduct
<1>. QED
  BY <1>3 DEF T

(* A sequence that goes on from another by one entry.                      *)
LEMMA GrowsBy ==
  ASSUME NEW R, NEW f \in Seq(R), NEW g \in Seq(R), NEW y \in R,
         Len(g) = Len(f) + 1, \A k \in 1..Len(f) : g[k] = f[k], g[Len(f) + 1] = y
  PROVE  g = Append(f, y)
<1>1. /\ Append(f, y) \in Seq(R) /\ Len(Append(f, y)) = Len(f) + 1
      /\ \A k \in 1..Len(f) : Append(f, y)[k] = f[k]
      /\ Append(f, y)[Len(f) + 1] = y
  BY AppendProperties
<1>2. Len(f) \in Nat
  BY LenProperties
<1>3. \A k \in 1..(Len(f) + 1) : g[k] = Append(f, y)[k]
  BY <1>1, <1>2
<1>. QED
  BY <1>1, <1>3, SeqEqual

(* A sequence is what its entries, each a sequence of its own, concatenate *)
(* to.                                                                     *)
LEMMA FlattenSingles ==
  ASSUME NEW S, NEW s \in Seq(S)
  PROVE  FlattenSeq([k \in DOMAIN s |-> <<s[k]>>]) = s
<1>. DEFINE each(t) == [k \in DOMAIN t |-> <<t[k]>>]
            T == {t \in Seq(S) : FlattenSeq(each(t)) = t}
<1>1. <<>> \in T
  <2>1. each(<<>>) = <<>>
    OBVIOUS
  <2>. QED
    BY <2>1, FlattenEmpty, EmptySeq
<1>2. ASSUME NEW t \in Seq(S), NEW x \in S, t \in T
      PROVE  Append(t, x) \in T
  <2>1. Append(t, x) \in Seq(S) /\ Append(t, x) = t \o <<x>>
    BY AppendProperties, AppendIsConcat
  <2>2. \A u \in Seq(S) : each(u) \in Seq(Seq(S)) /\ Len(each(u)) = Len(u)
    <3>1. SUFFICES ASSUME NEW u \in Seq(S)
                   PROVE  each(u) \in Seq(Seq(S)) /\ Len(each(u)) = Len(u)
      OBVIOUS
    <3>2. \A k \in 1..Len(u) : <<u[k]>> \in Seq(S)
      BY ElementOfSeq
    <3>3. DOMAIN u = 1..Len(u) /\ Len(u) \in Nat
      BY LenProperties
    <3>4. each(u) \in [1..Len(u) -> Seq(S)]
      BY <3>2, <3>3
    <3>5. each(u) \in Seq(Seq(S))
      BY <3>3, <3>4
    <3>. QED
      BY <3>3, <3>4, <3>5
  <2>3. <<x>> \in Seq(S)
    OBVIOUS
  <2>4. each(Append(t, x)) = Append(each(t), <<x>>)
    <3>0. Len(Append(t, x)) = Len(t) + 1 /\ Len(t) \in Nat
      BY AppendProperties, LenProperties
    <3>1. \A k \in 1..Len(t) : Append(t, x)[k] = t[k]
      BY AppendProperties
    <3>2. Append(t, x)[Len(t) + 1] = x
      BY AppendProperties
    <3>3. DOMAIN t = 1..Len(t) /\ DOMAIN Append(t, x) = 1..(Len(t) + 1)
      BY <2>1, <3>0, LenProperties
    <3>4. \A k \in 1..Len(t) : each(Append(t, x))[k] = each(t)[k]
      BY <3>0, <3>1, <3>3
    <3>5. each(Append(t, x))[Len(t) + 1] = <<x>>
      BY <3>0, <3>2, <3>3
    <3>. HIDE DEF each
    <3>6. Len(each(Append(t, x))) = Len(each(t)) + 1 /\ Len(each(t)) = Len(t)
      BY <2>1, <2>2, <3>0
    <3>7. \A k \in 1..Len(each(t)) : each(Append(t, x))[k] = each(t)[k]
      BY <3>4, <3>6
    <3>8. each(Append(t, x))[Len(each(t)) + 1] = <<x>>
      BY <3>5, <3>6
    <3>9. each(Append(t, x)) \in Seq(Seq(S)) /\ each(t) \in Seq(Seq(S))
      BY <2>1, <2>2
    <3>. QED
      BY <2>3, <3>6, <3>7, <3>8, <3>9, GrowsBy
  <2>. HIDE DEF each
  <2>5. FlattenSeq(Append(each(t), <<x>>)) = FlattenSeq(each(t)) \o <<x>>
    BY <2>2, <2>3, FlattenMore
  <2>6. FlattenSeq(each(t)) = t
    BY <1>2
  <2>. QED
    BY <2>1, <2>4, <2>5, <2>6
<1>. HIDE DEF T
<1>3. Seq(S) \subseteq T
  BY <1>1, <1>2, SeqInduct
<1>. QED
  BY <1>3 DEF T

(* Nothing is kept of nothing.                                             *)
LEMMA OnlyEmpty == ASSUME NEW A PROVE Only(<<>>, A) = <<>>
<1>1. [k \in DOMAIN <<>> |-> IF <<>>[k] \in A THEN <<<<>>[k]>> ELSE <<>>] = <<>>
  OBVIOUS
<1>. QED
  BY <1>1, FlattenEmpty DEF Only

(* What is kept of one entry more.                                         *)
LEMMA OnlyAppend ==
  ASSUME NEW S, NEW s \in Seq(S), NEW x \in S, NEW A
  PROVE  Only(Append(s, x), A) = Only(s, A) \o (IF x \in A THEN <<x>> ELSE <<>>)
<1>. DEFINE m(u) == [k \in DOMAIN u |-> IF u[k] \in A THEN <<u[k]>> ELSE <<>>]
            y == IF x \in A THEN <<x>> ELSE <<>>
<1>1. \A u \in Seq(S) : m(u) \in Seq(Seq(S)) /\ Len(m(u)) = Len(u)
  <2>1. SUFFICES ASSUME NEW u \in Seq(S)
                 PROVE  m(u) \in Seq(Seq(S)) /\ Len(m(u)) = Len(u)
    OBVIOUS
  <2>2. \A z \in S : <<z>> \in Seq(S)
    OBVIOUS
  <2>3. <<>> \in Seq(S)
    OBVIOUS
  <2>4. \A k \in 1..Len(u) : (IF u[k] \in A THEN <<u[k]>> ELSE <<>>) \in Seq(S)
    BY <2>2, <2>3, ElementOfSeq
  <2>5. DOMAIN u = 1..Len(u) /\ Len(u) \in Nat
    BY LenProperties
  <2>6. m(u) \in [1..Len(u) -> Seq(S)]
    BY <2>4, <2>5
  <2>7. m(u) \in Seq(Seq(S))
    BY <2>5, <2>6
  <2>. QED
    BY <2>5, <2>6, <2>7
<1>2. y \in Seq(S)
  OBVIOUS
<1>3. m(Append(s, x)) = Append(m(s), y)
  <2>0. Append(s, x) \in Seq(S) /\ Len(Append(s, x)) = Len(s) + 1 /\ Len(s) \in Nat
    BY AppendProperties, LenProperties
  <2>1. \A k \in 1..Len(s) : Append(s, x)[k] = s[k]
    BY AppendProperties
  <2>2. Append(s, x)[Len(s) + 1] = x
    BY AppendProperties
  <2>3. DOMAIN s = 1..Len(s) /\ DOMAIN Append(s, x) = 1..(Len(s) + 1)
    BY <2>0, LenProperties
  <2>4. \A k \in 1..Len(s) : m(Append(s, x))[k] = m(s)[k]
    BY <2>0, <2>1, <2>3
  <2>5. m(Append(s, x))[Len(s) + 1] = y
    BY <2>0, <2>2, <2>3
  <2>. HIDE DEF m, y
  <2>6. Len(m(Append(s, x))) = Len(m(s)) + 1 /\ Len(m(s)) = Len(s)
    BY <1>1, <2>0
  <2>7. \A k \in 1..Len(m(s)) : m(Append(s, x))[k] = m(s)[k]
    BY <2>4, <2>6
  <2>8. m(Append(s, x))[Len(m(s)) + 1] = y
    BY <2>5, <2>6
  <2>9. m(Append(s, x)) \in Seq(Seq(S)) /\ m(s) \in Seq(Seq(S))
    BY <1>1, <2>0
  <2>. QED
    BY <1>2, <2>6, <2>7, <2>8, <2>9, GrowsBy
<1>4. Only(Append(s, x), A) = FlattenSeq(m(Append(s, x))) /\ Only(s, A) = FlattenSeq(m(s))
  BY Zenon DEF Only
<1>. HIDE DEF m, y
<1>5. FlattenSeq(Append(m(s), y)) = FlattenSeq(m(s)) \o y /\ FlattenSeq(m(s)) \in Seq(S)
  BY <1>1, <1>2, FlattenMore, FlattenType
<1>. QED
  BY <1>3, <1>4, <1>5, Zenon DEF y

(* What is kept is over the same set.                                      *)
LEMMA OnlyType ==
  ASSUME NEW S, NEW s \in Seq(S), NEW A
  PROVE  Only(s, A) \in Seq(S)
<1>. DEFINE T == {u \in Seq(S) : Only(u, A) \in Seq(S)}
<1>1. <<>> \in T
  BY OnlyEmpty, EmptySeq
<1>2. ASSUME NEW u \in Seq(S), NEW x \in S, u \in T
      PROVE  Append(u, x) \in T
  <2>1. Append(u, x) \in Seq(S)
    BY AppendProperties
  <2>2. (IF x \in A THEN <<x>> ELSE <<>>) \in Seq(S)
    OBVIOUS
  <2>3. Only(Append(u, x), A) = Only(u, A) \o (IF x \in A THEN <<x>> ELSE <<>>)
    BY OnlyAppend
  <2>. DEFINE y == IF x \in A THEN <<x>> ELSE <<>>
  <2>. HIDE DEF y
  <2>4. Only(u, A) \o y \in Seq(S)
    BY <1>2, <2>2, ConcatProperties DEF y
  <2>. QED
    BY <2>1, <2>3, <2>4 DEF y
<1>. HIDE DEF T
<1>3. Seq(S) \subseteq T
  BY <1>1, <1>2, SeqInduct
<1>. QED
  BY <1>3 DEF T

(* Keeping distributes over concatenation.                                 *)
LEMMA OnlyConcat ==
  ASSUME NEW S, NEW s \in Seq(S), NEW t \in Seq(S), NEW A
  PROVE  Only(s \o t, A) = Only(s, A) \o Only(t, A)
<1>. DEFINE T == {u \in Seq(S) : Only(s \o u, A) = Only(s, A) \o Only(u, A)}
<1>1. <<>> \in T
  <2>1. Only(s, A) \in Seq(S)
    BY OnlyType
  <2>. QED
    BY OnlyEmpty, <2>1, ConcatEmptySeq, EmptySeq
<1>2. ASSUME NEW u \in Seq(S), NEW x \in S, u \in T
      PROVE  Append(u, x) \in T
  <2>. DEFINE y == IF x \in A THEN <<x>> ELSE <<>>
  <2>1. Append(u, x) \in Seq(S) /\ s \o u \in Seq(S)
    BY AppendProperties, ConcatProperties
  <2>2. s \o Append(u, x) = Append(s \o u, x)
    <3>1. Append(u, x) = u \o <<x>> /\ Append(s \o u, x) = (s \o u) \o <<x>>
      BY <2>1, AppendIsConcat
    <3>2. <<x>> \in Seq(S)
      OBVIOUS
    <3>. QED
      BY <3>1, <3>2, ConcatAssociative
  <2>3. y \in Seq(S)
    OBVIOUS
  <2>4. Only(Append(s \o u, x), A) = Only(s \o u, A) \o y
    BY <2>1, OnlyAppend
  <2>6. Only(Append(u, x), A) = Only(u, A) \o y
    BY OnlyAppend
  <2>7. Only(s, A) \in Seq(S) /\ Only(u, A) \in Seq(S)
    BY OnlyType
  <2>. HIDE DEF y
  <2>5. (Only(s, A) \o Only(u, A)) \o y = Only(s, A) \o (Only(u, A) \o y)
    BY SMTT(30), <2>3, <2>7, ConcatAssociative
  <2>. QED
    BY <1>2, <2>1, <2>2, <2>4, <2>5, <2>6
<1>. HIDE DEF T
<1>3. Seq(S) \subseteq T
  BY <1>1, <1>2, SeqInduct
<1>. QED
  BY <1>3 DEF T

(* All is kept of a sequence over the set.                                 *)
LEMMA OnlyAll ==
  ASSUME NEW S, NEW s \in Seq(S), NEW A, S \subseteq A
  PROVE  Only(s, A) = s
<1>1. [k \in DOMAIN s |-> IF s[k] \in A THEN <<s[k]>> ELSE <<>>] = [k \in DOMAIN s |-> <<s[k]>>]
  OBVIOUS
<1>. QED
  BY <1>1, FlattenSingles DEF Only

(* Nothing is kept of a sequence that avoids the set.                      *)
LEMMA OnlyNone ==
  ASSUME NEW S, NEW s \in Seq(S), NEW A, S \cap A = {}
  PROVE  Only(s, A) = <<>>
<1>. DEFINE T == {t \in Seq(S) : Only(t, A) = <<>>}
<1>1. <<>> \in T
  BY OnlyEmpty, EmptySeq
<1>2. ASSUME NEW t \in Seq(S), NEW x \in S, t \in T
      PROVE  Append(t, x) \in T
  <2>1. Append(t, x) \in Seq(S) /\ x \notin A
    BY AppendProperties
  <2>2. Only(Append(t, x), A) = Only(t, A) \o <<>>
    BY <2>1, OnlyAppend
  <2>3. <<>> \o <<>> = <<>>
    OBVIOUS
  <2>. QED
    BY <1>2, <2>1, <2>2, <2>3
<1>. HIDE DEF T
<1>3. Seq(S) \subseteq T
  BY <1>1, <1>2, SeqInduct
<1>. QED
  BY <1>3 DEF T

(* A sequence mapped entry by entry.                                       *)
Mapped(F, s) == [k \in DOMAIN s |-> F[s[k]]]

(* A function applied to each entry: where the result lies.                *)
LEMMA MapType ==
  ASSUME NEW S, NEW R, NEW F, \A x \in S : F[x] \in R, NEW s \in Seq(S)
  PROVE  Mapped(F, s) \in Seq(R)
<1>1. \A k \in 1..Len(s) : F[s[k]] \in R
  BY ElementOfSeq
<1>2. DOMAIN s = 1..Len(s) /\ Len(s) \in Nat
  BY LenProperties
<1>3. Mapped(F, s) \in [1..Len(s) -> R]
  BY <1>1, <1>2 DEF Mapped
<1>. QED
  BY <1>2, <1>3

(* Its length and its entries.                                             *)
LEMMA MapEntries ==
  ASSUME NEW S, NEW F, NEW s \in Seq(S)
  PROVE  /\ Len(Mapped(F, s)) = Len(s)
         /\ \A k \in 1..Len(s) : Mapped(F, s)[k] = F[s[k]]
<1>1. DOMAIN s = 1..Len(s) /\ Len(s) \in Nat
  BY LenProperties
<1>2. Mapped(F, s) = [k \in 1..Len(s) |-> F[s[k]]]
  BY <1>1 DEF Mapped
<1>. QED
  BY <1>1, <1>2

(* It distributes over concatenation.                                      *)
LEMMA MapConcat ==
  ASSUME NEW S, NEW F, NEW s \in Seq(S), NEW t \in Seq(S)
  PROVE  Mapped(F, s \o t) = Mapped(F, s) \o Mapped(F, t)
<1>. DEFINE m(u) == Mapped(F, u)
            R == {F[x] : x \in S}
<1>0. \A x \in S : F[x] \in R
  OBVIOUS
<1>. HIDE DEF R
<1>1. \A u \in Seq(S) : m(u) \in Seq(R)
  BY <1>0, MapType
<1>9. \A u \in Seq(S) : Len(m(u)) = Len(u)
  BY MapEntries
<1>2. \A u \in Seq(S) : \A k \in 1..Len(u) : m(u)[k] = F[u[k]]
  BY MapEntries
<1>. HIDE DEF m
<1>3. /\ s \o t \in Seq(S) /\ Len(s \o t) = Len(s) + Len(t)
      /\ Len(s) \in Nat /\ Len(t) \in Nat
  BY ConcatProperties, LenProperties
<1>4. /\ m(s \o t) \in Seq(R) /\ m(s) \in Seq(R) /\ m(t) \in Seq(R)
      /\ Len(m(s \o t)) = Len(s) + Len(t) /\ Len(m(s)) = Len(s) /\ Len(m(t)) = Len(t)
  BY <1>1, <1>3, <1>9
<1>8. m(s) \o m(t) \in Seq(R) /\ Len(m(s) \o m(t)) = Len(m(s)) + Len(m(t))
  <2>1. m(s) \in Seq(R) /\ m(t) \in Seq(R)
    BY <1>1
  <2>. QED
    BY <2>1, ConcatProperties
<1>5. m(s) \o m(t) \in Seq(R) /\ Len(m(s) \o m(t)) = Len(s) + Len(t)
  BY <1>4, <1>8
<1>6. ASSUME NEW k \in 1..(Len(s) + Len(t))
      PROVE  m(s \o t)[k] = (m(s) \o m(t))[k]
  <2>1. m(s \o t)[k] = F[(s \o t)[k]]
    BY <1>2, <1>3
  <2>2. CASE k <= Len(s)
    <3>1. (s \o t)[k] = s[k] /\ (m(s) \o m(t))[k] = m(s)[k]
      BY <1>3, <1>4, <2>2, ConcatProperties
    <3>2. k \in 1..Len(s)
      BY <1>3, <2>2
    <3>. QED
      BY <1>2, <2>1, <3>1, <3>2
  <2>3. CASE ~(k <= Len(s))
    <3>1. (s \o t)[k] = t[k - Len(s)] /\ (m(s) \o m(t))[k] = m(t)[k - Len(s)]
      BY <1>3, <1>4, <2>3, ConcatProperties
    <3>2. k - Len(s) \in 1..Len(t)
      BY <1>3, <2>3
    <3>. QED
      BY <1>2, <2>1, <3>1, <3>2
  <2>. QED
    BY <2>2, <2>3
<1>7. m(s \o t) = m(s) \o m(t)
  BY <1>4, <1>5, <1>6, SeqEqual
<1>. QED
  BY <1>7 DEF m

(* What becomes of a character is over the alphabet.                       *)
LEMMA VisibleIs == Visible \in [Characters -> Seq(Alphabet)]
<1>1. ASSUME NEW c \in Characters
      PROVE  Visible[c] \in Seq(Alphabet)
  <2>1. Visible[c] \in Seq(STRING)
    BY InputAssumption
  <2>2. \A k \in DOMAIN Visible[c] : Visible[c][k] \in Range(Visible[c])
    BY DEF Range
  <2>3. \A k \in DOMAIN Visible[c] : Visible[c][k] \in Alphabet
    BY <2>2 DEF Alphabet
  <2>. QED
    BY <2>1, <2>3, LenProperties
<1>. QED
  BY <1>1, InputAssumption

(* A text made visible is its characters made visible, flattened.          *)
LEMMA VisibleTextIs ==
  ASSUME NEW text
  PROVE  VisibleText(text) = FlattenSeq(Mapped(Visible, text))
  BY Zenon DEF VisibleText, Mapped

(* It is over the alphabet.                                                *)
LEMMA VisibleType ==
  ASSUME NEW text \in Seq(Characters)
  PROVE  VisibleText(text) \in Seq(Alphabet)
<1>1. Mapped(Visible, text) \in Seq(Seq(Alphabet))
  <2>1. \A c \in Characters : Visible[c] \in Seq(Alphabet)
    BY VisibleIs
  <2>. QED
    BY <2>1, MapType
<1>. QED
  BY <1>1, FlattenType, VisibleTextIs

(* Two texts are made visible one after the other: bytes do not depend     *)
(* on what is around them.                                                 *)
LEMMA VisibleConcat ==
  ASSUME NEW s \in Seq(Characters), NEW t \in Seq(Characters)
  PROVE  VisibleText(s \o t) = VisibleText(s) \o VisibleText(t)
<1>1. Mapped(Visible, s) \in Seq(Seq(Alphabet)) /\ Mapped(Visible, t) \in Seq(Seq(Alphabet))
  <2>1. \A c \in Characters : Visible[c] \in Seq(Alphabet)
    BY VisibleIs
  <2>. QED
    BY <2>1, MapType
<1>2. Mapped(Visible, s \o t) = Mapped(Visible, s) \o Mapped(Visible, t)
  BY MapConcat
<1>3. FlattenSeq(Mapped(Visible, s) \o Mapped(Visible, t))
        = FlattenSeq(Mapped(Visible, s)) \o FlattenSeq(Mapped(Visible, t))
  BY <1>1, FlattenConcat
<1>. QED
  BY <1>2, <1>3, VisibleTextIs

(* The empty text has no bytes.                                            *)
LEMMA VisibleEmpty == VisibleText(<<>>) = <<>>
<1>1. Mapped(Visible, <<>>) = <<>>
  BY DEF Mapped
<1>. QED
  BY <1>1, FlattenEmpty, VisibleTextIs

(* A special token is taken where one is found: an earliest, the longest   *)
(* of those.                                                               *)
LEMMA EarliestIs ==
  ASSUME NEW found, found # {}, NEW n \in Nat,
         \A f \in found : f.start \in Nat /\ Len(f.text) \in 0..n
  PROVE  /\ EarliestSpecial(found) \in found
         /\ \A g \in found :
              \/ EarliestSpecial(found).start < g.start
              \/ /\ EarliestSpecial(found).start = g.start
                 /\ Len(EarliestSpecial(found).text) >= Len(g.text)
<1>. DEFINE Starts == {f.start : f \in found}
<1>1. PICK i \in Starts : \A j \in Starts : i <= j
  <2>1. Starts \in SUBSET Nat /\ Starts # {}
    OBVIOUS
  <2>. HIDE DEF Starts
  <2>. QED
    BY <2>1, Least
<1>. DEFINE Left == {n - Len(f.text) : f \in {f \in found : f.start = i}}
<1>2. PICK l \in Left : \A k \in Left : l <= k
  <2>1. Left \in SUBSET Nat /\ Left # {}
    OBVIOUS
  <2>. HIDE DEF Left
  <2>. QED
    BY <2>1, Least
<1>3. PICK f \in found : f.start = i /\ l = n - Len(f.text)
  OBVIOUS
<1>4. ASSUME NEW g \in found
      PROVE  f.start < g.start \/ (f.start = g.start /\ Len(f.text) >= Len(g.text))
  <2>0. /\ f.start \in Nat /\ g.start \in Nat /\ Len(f.text) \in Nat /\ Len(g.text) \in Nat
        /\ n \in Nat
    OBVIOUS
  <2>1. f.start <= g.start
    BY <1>1, <1>3
  <2>2. CASE g.start = i
    <3>1. n - Len(f.text) <= n - Len(g.text)
      BY <1>2, <1>3, <2>2
    <3>. HIDE DEF Starts, Left
    <3>. QED
      BY <1>3, <2>0, <2>2, <3>1
  <2>. HIDE DEF Starts, Left
  <2>. QED
    BY <1>3, <2>0, <2>1, <2>2
<1>5. \E f_1 \in found : \A g \in found :
        f_1.start < g.start \/ (f_1.start = g.start /\ Len(f_1.text) >= Len(g.text))
  BY <1>4
<1>. QED
  BY <1>5, Zenon DEF EarliestSpecial

(* The merge of the lowest rank, leftmost.                                 *)
LEMMA LowestIs ==
  ASSUME NEW pairs, pairs # {}, \A p \in pairs : p.rank \in Nat /\ p.place \in Nat
  PROVE  /\ LowestPair(pairs) \in pairs
         /\ \A q \in pairs :
              \/ LowestPair(pairs).rank < q.rank
              \/ LowestPair(pairs).rank = q.rank /\ LowestPair(pairs).place <= q.place
<1>. DEFINE Ranks == {p.rank : p \in pairs}
<1>1. PICK r \in Ranks : \A j \in Ranks : r <= j
  <2>1. Ranks \in SUBSET Nat /\ Ranks # {}
    OBVIOUS
  <2>. HIDE DEF Ranks
  <2>. QED
    BY <2>1, Least
<1>. DEFINE Places == {p.place : p \in {p \in pairs : p.rank = r}}
<1>2. PICK i \in Places : \A k \in Places : i <= k
  <2>1. Places \in SUBSET Nat /\ Places # {}
    OBVIOUS
  <2>. HIDE DEF Places
  <2>. QED
    BY <2>1, Least
<1>3. PICK p \in pairs : p.rank = r /\ p.place = i
  OBVIOUS
<1>4. ASSUME NEW q \in pairs
      PROVE  p.rank < q.rank \/ (p.rank = q.rank /\ p.place <= q.place)
  <2>0. p.rank \in Nat /\ q.rank \in Nat /\ p.place \in Nat /\ q.place \in Nat
    OBVIOUS
  <2>1. p.rank <= q.rank
    BY <1>1, <1>3
  <2>2. CASE q.rank = r
    <3>1. p.place <= q.place
      BY <1>2, <1>3, <2>2
    <3>. HIDE DEF Ranks, Places
    <3>. QED
      BY <1>3, <2>0, <2>2, <3>1
  <2>. HIDE DEF Ranks, Places
  <2>. QED
    BY <1>3, <2>0, <2>1, <2>2
<1>5. \E p_1 \in pairs : \A q \in pairs :
        p_1.rank < q.rank \/ (p_1.rank = q.rank /\ p_1.place <= q.place)
  BY <1>4
<1>. QED
  BY <1>5, Zenon DEF LowestPair

(* Joining two neighbours: what is before and after them stays.            *)
LEMMA JoinedIs ==
  ASSUME NEW S, parts \in Seq(Seq(S)), NEW i \in 1..(Len(parts) - 1)
  PROVE  /\ Joined(i) = (SubSeq(parts, 1, i - 1) \o <<parts[i] \o parts[i + 1]>>)
                           \o SubSeq(parts, i + 2, Len(parts))
         /\ parts = (SubSeq(parts, 1, i - 1) \o <<parts[i], parts[i + 1]>>)
                       \o SubSeq(parts, i + 2, Len(parts))
<1>. DEFINE n == Len(parts)
            x == parts[i] \o parts[i + 1]
            f == [parts EXCEPT ![i] = @ \o parts[i + 1]]
<1>1. n \in Nat /\ i \in 1..n /\ i + 1 \in 1..n /\ DOMAIN parts = 1..n
  BY LenProperties
<1>2. parts[i] \in Seq(S) /\ parts[i + 1] \in Seq(S)
  BY <1>1, ElementOfSeq
<1>3. x \in Seq(S)
  BY <1>2, ConcatProperties
<1>4. f = [k \in 1..n |-> IF k = i THEN x ELSE parts[k]]
  BY <1>1
<1>. HIDE DEF x
<1>5. f \in Seq(Seq(S)) /\ Len(f) = n
  <2>1. \A k \in 1..n : parts[k] \in Seq(S)
    BY ElementOfSeq
  <2>2. f \in [1..n -> Seq(S)]
    BY <1>3, <1>4, <2>1
  <2>. QED
    BY <1>1, <2>2
<1>6. Joined(i) = SubSeq(f, 1, i) \o SubSeq(f, i + 2, n)
  <2>1. (i + 1) - 1 = i /\ (i + 1) + 1 = i + 2
    BY <1>1
  <2>2. Joined(i) = SubSeq(f, 1, (i + 1) - 1) \o SubSeq(f, (i + 1) + 1, Len(f))
    BY Zenon DEF Joined, RemoveAt
  <2>. QED
    BY <1>5, <2>1, <2>2
<1>. DEFINE before == SubSeq(parts, 1, i - 1)
            after == SubSeq(parts, i + 2, n)
<1>7. before \in Seq(Seq(S)) /\ after \in Seq(Seq(S))
  BY <1>1, SubSeqProperties
<1>9. SubSeq(f, i + 2, n) = after
  BY <1>1, <1>4, <1>5
<1>10. SubSeq(f, 1, i) = before \o <<x>>
  <2>1. i \in 1..Len(f) /\ f[i] = x
    BY <1>1, <1>4, <1>5
  <2>2. SubSeq(f, 1, i - 1) = before
    BY <1>1, <1>4, <1>5
  <2>. HIDE DEF f, before
  <2>3. SubSeq(f, 1, i) = SubSeq(f, 1, i - 1) \o <<f[i]>>
    <3>1. 1 \in 1..Len(f) /\ i \in 1..Len(f)
      BY <2>1
    <3>. QED
      BY <1>5, <3>1, SubSeqRecursiveSecond
  <2>. QED
    BY <2>1, <2>2, <2>3
<1>11. parts = (before \o <<parts[i], parts[i + 1]>>) \o after
  <2>1. before \o SubSeq(parts, i, i + 1) = SubSeq(parts, 1, i + 1)
    <3>1. /\ 1 \in 1..(Len(parts) + 1) /\ i - 1 \in (1 - 1)..Len(parts)
          /\ i + 1 \in (i - 1)..Len(parts) /\ (i - 1) + 1 = i
      BY <1>1
    <3>2. SubSeq(parts, 1, i - 1) \o SubSeq(parts, (i - 1) + 1, i + 1) = SubSeq(parts, 1, i + 1)
      BY <3>1, ConcatAdjacentSubSeq
    <3>. QED
      BY <3>1, <3>2
  <2>2. SubSeq(parts, 1, i + 1) \o after = SubSeq(parts, 1, n)
    <3>1. /\ 1 \in 1..(Len(parts) + 1) /\ i + 1 \in (1 - 1)..Len(parts)
          /\ Len(parts) \in (i + 1)..Len(parts) /\ (i + 1) + 1 = i + 2
      BY <1>1
    <3>2. SubSeq(parts, 1, i + 1) \o SubSeq(parts, (i + 1) + 1, Len(parts))
             = SubSeq(parts, 1, Len(parts))
      BY <3>1, ConcatAdjacentSubSeq
    <3>. QED
      BY <3>1, <3>2
  <2>3. SubSeq(parts, 1, n) = parts
    BY SubSeqFull
  <2>4. SubSeq(parts, i, i + 1) = <<parts[i], parts[i + 1]>>
    <3>. DEFINE two == SubSeq(parts, i, i + 1)
    <3>1. \A k \in i..(i + 1) : parts[k] \in Seq(S)
      BY <1>1, <1>2
    <3>2. two \in Seq(Seq(S)) /\ Len(two) = 2 /\ \A k \in 1..2 : two[k] = parts[i + k - 1]
      BY <1>1, <3>1, SubSeqProperties
    <3>3. i + 1 - 1 = i /\ i + 2 - 1 = i + 1
      BY <1>1
    <3>4. two[1] = parts[i] /\ two[2] = parts[i + 1]
      BY <3>2, <3>3
    <3>. HIDE DEF two
    <3>. DEFINE pair == <<parts[i], parts[i + 1]>>
    <3>5. pair \in Seq(Seq(S))
      BY <1>2
    <3>6. Len(pair) = 2 /\ pair[1] = parts[i] /\ pair[2] = parts[i + 1]
      OBVIOUS
    <3>. HIDE DEF pair
    <3>7. \A k \in 1..2 : two[k] = pair[k]
      BY <3>4, <3>6
    <3>8. two = pair
      BY <3>2, <3>5, <3>6, <3>7, SeqEqual
    <3>. QED
      BY <3>8 DEF two, pair
  <2>. QED
    BY <2>1, <2>2, <2>3, <2>4
<1>. QED
  BY <1>6, <1>9, <1>10, <1>11 DEF x

(* Joining two symbols leaves symbols.                                     *)
LEMMA JoinedIn ==
  ASSUME NEW S, NEW R, R \subseteq Seq(S), parts \in Seq(R), NEW i \in 1..(Len(parts) - 1),
         parts[i] \o parts[i + 1] \in R
  PROVE  Joined(i) \in Seq(R)
<1>0. parts \in Seq(Seq(S))
  BY LenProperties
<1>1. Len(parts) \in Nat
  BY LenProperties
<1>2. SubSeq(parts, 1, i - 1) \in Seq(R) /\ SubSeq(parts, i + 2, Len(parts)) \in Seq(R)
  <2>1. \A k \in 1..Len(parts) : parts[k] \in R
    BY ElementOfSeq
  <2>. QED
    BY <1>1, <2>1, SubSeqProperties
<1>3. <<parts[i] \o parts[i + 1]>> \in Seq(R)
  OBVIOUS
<1>4. SubSeq(parts, 1, i - 1) \o <<parts[i] \o parts[i + 1]>> \in Seq(R)
  BY <1>2, <1>3, ConcatProperties
<1>5. (SubSeq(parts, 1, i - 1) \o <<parts[i] \o parts[i + 1]>>)
         \o SubSeq(parts, i + 2, Len(parts)) \in Seq(R)
  BY <1>2, <1>4, ConcatProperties
<1>6. Joined(i) = (SubSeq(parts, 1, i - 1) \o <<parts[i] \o parts[i + 1]>>)
                     \o SubSeq(parts, i + 2, Len(parts))
  BY <1>0, JoinedIs
<1>. QED
  BY <1>5, <1>6

(* Joining two symbols keeps the text they spell: the bytes of the piece   *)
(* are neither lost nor moved.                                             *)
LEMMA JoinedFlat ==
  ASSUME NEW S, parts \in Seq(Seq(S)), NEW i \in 1..(Len(parts) - 1)
  PROVE  FlattenSeq(Joined(i)) = FlattenSeq(parts)
<1>. DEFINE b == SubSeq(parts, 1, i - 1)
            a == SubSeq(parts, i + 2, Len(parts))
            x == parts[i]
            y == parts[i + 1]
<1>1. Joined(i) = (b \o <<x \o y>>) \o a /\ parts = (b \o <<x, y>>) \o a
  BY JoinedIs
<1>2. x \in Seq(S) /\ y \in Seq(S)
  BY ElementOfSeq, LenProperties
<1>3. b \in Seq(Seq(S)) /\ a \in Seq(Seq(S))
  BY SubSeqProperties, ElementOfSeq, LenProperties
<1>. HIDE DEF a, b, x, y
<1>4. x \o y \in Seq(S)
  BY <1>2, ConcatProperties
<1>5. <<x \o y>> \in Seq(Seq(S)) /\ <<x, y>> \in Seq(Seq(S)) /\ <<x>> \in Seq(Seq(S))
  <2>1. \A z \in Seq(S) : <<z>> \in Seq(Seq(S))
    OBVIOUS
  <2>2. \A z \in Seq(S) : \A w \in Seq(S) : <<z, w>> \in Seq(Seq(S))
    OBVIOUS
  <2>. QED
    BY <1>2, <1>4, <2>1, <2>2
<1>6. FlattenSeq(<<x \o y>>) = x \o y
  BY <1>4, FlattenOne
<1>7. FlattenSeq(<<x, y>>) = x \o y
  <2>1. <<x, y>> = Append(<<x>>, y)
    OBVIOUS
  <2>2. FlattenSeq(Append(<<x>>, y)) = FlattenSeq(<<x>>) \o y
    BY <1>2, <1>5, FlattenMore
  <2>3. FlattenSeq(<<x>>) = x
    BY <1>2, FlattenOne
  <2>. QED
    BY <2>1, <2>2, <2>3
<1>8. b \o <<x \o y>> \in Seq(Seq(S)) /\ b \o <<x, y>> \in Seq(Seq(S))
  BY <1>3, <1>5, ConcatProperties
<1>9. FlattenSeq((b \o <<x \o y>>) \o a) = FlattenSeq(b \o <<x \o y>>) \o FlattenSeq(a)
  BY <1>3, <1>8, FlattenConcat
<1>10. FlattenSeq((b \o <<x, y>>) \o a) = FlattenSeq(b \o <<x, y>>) \o FlattenSeq(a)
  BY <1>3, <1>8, FlattenConcat
<1>11. FlattenSeq(b \o <<x \o y>>) = FlattenSeq(b) \o FlattenSeq(<<x \o y>>)
  BY <1>3, <1>5, FlattenConcat
<1>12. FlattenSeq(b \o <<x, y>>) = FlattenSeq(b) \o FlattenSeq(<<x, y>>)
  BY <1>3, <1>5, FlattenConcat
<1>. QED
  BY <1>1, <1>6, <1>7, <1>9, <1>10, <1>11, <1>12

(* What a part of a piece may be.                                          *)
Symbols == Seq(Alphabet) \ {<<>>}

(* The inductive invariant behind TypeOK: the parts are symbols, no        *)
(* piece lies behind the cursor, and the special token a run ends with     *)
(* fits in the text.                                                       *)
Typed ==
  /\ TypeOK
  /\ input \in Inputs
  /\ parts \in Seq(Symbols)
  /\ stage = "find" => cut <= cursor
  /\ stage \in {"split", "merge"} /\ special # None =>
       stop + Len(special) <= Len(input.text) + 1

(* Sequences of symbols are what TypeOK says of the parts.                 *)
LEMMA PartsTyped ==
  ASSUME NEW p \in Seq(Symbols)
  PROVE  \A k \in DOMAIN p : p[k] # <<>> /\ Range(p[k]) \subseteq Alphabet
<1>. TAKE k \in DOMAIN p
<1>1. p[k] \in Symbols
  BY ElementOfSeq, LenProperties
<1>2. p[k] # <<>> /\ p[k] \in Seq(Alphabet)
  BY <1>1 DEF Symbols
<1>3. \A j \in DOMAIN p[k] : p[k][j] \in Alphabet
  BY <1>2, ElementOfSeq, LenProperties
<1>. QED
  BY <1>2, <1>3 DEF Range

(* The input of an encode does not change, nor what is said of it.         *)
LEMMA SameInput ==
  ASSUME [Next]_vars
  PROVE  /\ input' = input
         /\ SpecialsPlain(input)' = SpecialsPlain(input)
         /\ SpecialsApart(input)' = SpecialsApart(input)
<1>1. input' = input
  BY DEF Next, Find, Finish, Cut, Merge, Emit, RunEnds, vars
<1>. QED
  BY <1>1, Zenon DEF SpecialsPlain, SpecialsApart

(* Typed holds at first.                                                   *)
LEMMA InitTyped == Init => Typed
<1>. SUFFICES ASSUME Init PROVE Typed
  OBVIOUS
<1>. USE DEF Init
<1>1. Len(input.text) \in Nat
  BY InputAssumption, LenProperties
<1>2. parts \in Seq(Symbols) /\ DOMAIN parts = {}
  BY EmptySeq
<1>. QED
  BY <1>1, <1>2 DEF Typed, TypeOK

(* What InputAssumption says of one input.                                 *)
LEMMA InputIs ==
  ASSUME input \in Inputs
  PROVE  /\ input.text \in Seq(Characters) /\ Len(input.text) \in Nat
         /\ input.pattern \in Patterns
         /\ input.merges \in Seq(Seq(STRING) \X Seq(STRING))
         /\ \A s \in input.specials :
              s \in Seq(Characters) /\ s # <<>> /\ s # None /\ Len(s) \in Nat \ {0}
<1>1. \A s \in Seq(Characters) : Len(s) \in Nat /\ (s # <<>> => Len(s) # 0)
  BY EmptySeq, LenProperties
<1>2. input.text \in Seq(Characters) /\ input.pattern \in Patterns
  BY InputAssumption
<1>3. input.merges \in Seq(Seq(STRING) \X Seq(STRING))
  BY InputAssumption
<1>4. \A s \in input.specials : s \in Seq(Characters) /\ s # <<>> /\ s # None
  BY InputAssumption
<1>. QED
  BY <1>1, <1>2, <1>3, <1>4

(* Find ends the run at a special token that occurs there, or at the end.  *)
LEMMA FindIs ==
  ASSUME input \in Inputs, cursor \in 1..(Len(input.text) + 1), Find
  PROVE  \/ /\ stop' = Len(input.text) + 1 /\ special' = None
            /\ \A i \in cursor..Len(input.text) : \A s \in input.specials :
                 ~OccursAt(s, input.text, i)
         \/ /\ special' \in input.specials /\ stop' \in cursor..Len(input.text)
            /\ OccursAt(special', input.text, stop')
            /\ \A i \in cursor..Len(input.text) : \A s \in input.specials :
                 OccursAt(s, input.text, i) =>
                   stop' < i \/ (stop' = i /\ Len(special') >= Len(s))
<1>. DEFINE found == {f \in Found : OccursAt(f.text, input.text, f.start)}
<1>1. \A i \in cursor..Len(input.text) : \A s \in input.specials :
         OccursAt(s, input.text, i) => [start |-> i, text |-> s] \in found
  BY DEF Found
<1>2. \A f \in found : /\ f.start \in cursor..Len(input.text) /\ f.text \in input.specials
                       /\ OccursAt(f.text, input.text, f.start)
  BY DEF Found
<1>3. Find => /\ found # {} => /\ stop' = EarliestSpecial(found).start
                               /\ special' = EarliestSpecial(found).text
              /\ found = {} => stop' = Len(input.text) + 1 /\ special' = None
  BY DEF Find
<1>. HIDE DEF found
<1>4. CASE found = {}
  BY <1>1, <1>3, <1>4
<1>5. CASE found # {}
  <2>. DEFINE e == EarliestSpecial(found)
              n == Len(input.text) + 1
  <2>1. n \in Nat /\ \A f \in found : f.start \in Nat /\ Len(f.text) \in 0..n
    <3>1. Len(input.text) \in Nat
      BY InputIs
    <3>2. SUFFICES ASSUME NEW f \in found
                   PROVE  f.start \in Nat /\ Len(f.text) \in 0..n
      BY <3>1
    <3>3. /\ f.start \in cursor..Len(input.text) /\ f.text \in input.specials
          /\ f.start + Len(f.text) <= Len(input.text) + 1
      BY <1>2 DEF OccursAt
    <3>4. Len(f.text) \in Nat
      BY <3>3, InputIs
    <3>. QED
      BY <3>1, <3>3, <3>4
  <2>. HIDE DEF n
  <2>2. /\ e \in found
        /\ \A g \in found : \/ e.start < g.start
                            \/ e.start = g.start /\ Len(e.text) >= Len(g.text)
    BY <1>5, <2>1, EarliestIs
  <2>3. stop' = e.start /\ special' = e.text
    BY <1>3, <1>5
  <2>. HIDE DEF e
  <2>4. /\ special' \in input.specials /\ stop' \in cursor..Len(input.text)
        /\ OccursAt(special', input.text, stop')
    BY <1>2, <2>2, <2>3
  <2>5. ASSUME NEW i \in cursor..Len(input.text), NEW s \in input.specials,
               OccursAt(s, input.text, i)
        PROVE  stop' < i \/ (stop' = i /\ Len(special') >= Len(s))
    <3>1. [start |-> i, text |-> s] \in found
      BY <1>1, <2>5
    <3>. DEFINE g == [start |-> i, text |-> s]
    <3>2. g.start = i /\ g.text = s
      OBVIOUS
    <3>. HIDE DEF g
    <3>3. \/ e.start < g.start
          \/ e.start = g.start /\ Len(e.text) >= Len(g.text)
      BY <2>2, <3>1 DEF g
    <3>. QED
      BY <2>3, <3>2, <3>3
  <2>. QED
    BY <2>4, <2>5
<1>. QED
  BY <1>4, <1>5

(* A piece takes something, and stays inside its run.                      *)
LEMMA NextPieceIs ==
  ASSUME input \in Inputs, cursor \in 1..(Len(input.text) + 1),
         stop \in 1..(Len(input.text) + 1), at \in cursor..(stop - 1)
  PROVE  NextPiece \in 1..(stop - at)
<1>. DEFINE run == SubSeq(input.text, cursor, stop - 1)
            i == at - cursor + 1
<1>0. input.text \in Seq(Characters) /\ Len(input.text) \in Nat /\ input.pattern \in Patterns
  BY InputIs
<1>1. run \in Seq(Characters) /\ Len(run) = stop - cursor
  BY <1>0
<1>. HIDE DEF run
<1>2. i \in 1..Len(run) /\ Len(run) - i + 1 = stop - at
  BY <1>0, <1>1
<1>. HIDE DEF i
<1>3. piece(run, i, input.pattern) \in 1..(Len(run) - i + 1)
  BY <1>0, <1>1, <1>2, PieceIs, ZenonT(30)
<1>. QED
  BY <1>2, <1>3 DEF NextPiece, run, i

(* A piece as it is cut: symbols of one visible character each, which      *)
(* spell its text.                                                         *)
LEMMA CutParts ==
  ASSUME NEW text \in Seq(Characters)
  PROVE  LET visible == VisibleText(text)
         IN /\ [k \in DOMAIN visible |-> <<visible[k]>>] \in Seq(Symbols)
            /\ FlattenSeq([k \in DOMAIN visible |-> <<visible[k]>>]) = visible
            /\ \A j \in DOMAIN [k \in DOMAIN visible |-> <<visible[k]>>] :
                 [k \in DOMAIN visible |-> <<visible[k]>>][j] \in {<<v>> : v \in Alphabet}
<1>. DEFINE visible == VisibleText(text)
<1>1. visible \in Seq(Alphabet)
  BY VisibleType
<1>. HIDE DEF visible
<1>. DEFINE each == [k \in DOMAIN visible |-> <<visible[k]>>]
<1>2. DOMAIN visible = 1..Len(visible) /\ Len(visible) \in Nat
  BY <1>1, LenProperties
<1>3. \A v \in Alphabet : <<v>> \in Symbols
  BY DEF Symbols
<1>4. \A k \in 1..Len(visible) : visible[k] \in Alphabet
  BY <1>1, ElementOfSeq
<1>5. \A k \in 1..Len(visible) : <<visible[k]>> \in Symbols
  BY <1>3, <1>4
<1>6. each \in [1..Len(visible) -> Symbols]
  BY <1>2, <1>5
<1>7. each \in Seq(Symbols)
  BY <1>2, <1>6
<1>8. FlattenSeq(each) = visible
  BY <1>1, FlattenSingles
<1>9. \A j \in DOMAIN each : each[j] \in {<<v>> : v \in Alphabet}
  BY <1>2, <1>4
<1>. QED
  BY <1>7, <1>8, <1>9 DEF visible

(* The pair that is merged is one that applies.                            *)
LEMMA ApplicableIs ==
  ASSUME NEW S, parts \in Seq(S), input \in Inputs, Applicable # {}
  PROVE  /\ LowestPair(Applicable) \in Applicable
         /\ LowestPair(Applicable).place \in 1..(Len(parts) - 1)
         /\ LowestPair(Applicable).rank \in DOMAIN input.merges
         /\ input.merges[LowestPair(Applicable).rank]
              = <<parts[LowestPair(Applicable).place], parts[LowestPair(Applicable).place + 1]>>
<1>1. Len(parts) \in Nat /\ DOMAIN input.merges \subseteq Nat
  BY InputIs, LenProperties
<1>2. \A p \in Applicable : /\ p.place \in 1..(Len(parts) - 1) /\ p.rank \in DOMAIN input.merges
                            /\ input.merges[p.rank] = <<parts[p.place], parts[p.place + 1]>>
  BY DEF Applicable, Pairs
<1>3. \A p \in Applicable : p.rank \in Nat /\ p.place \in Nat
  BY <1>1, <1>2
<1>4. LowestPair(Applicable) \in Applicable
  BY <1>3, LowestIs
<1>. QED
  BY <1>2, <1>4

(* Two symbols joined are a symbol.                                        *)
LEMMA SymbolsJoin ==
  ASSUME NEW a \in Symbols, NEW b \in Symbols
  PROVE  a \o b \in Symbols
<1>1. a \in Seq(Alphabet) /\ b \in Seq(Alphabet) /\ Len(a) # 0
  BY EmptySeq DEF Symbols
<1>2. a \o b \in Seq(Alphabet) /\ Len(a \o b) = Len(a) + Len(b)
  BY <1>1, ConcatProperties
<1>3. Len(a) \in Nat /\ Len(b) \in Nat
  BY <1>1, LenProperties
<1>4. Len(a \o b) # 0
  BY <1>1, <1>2, <1>3
<1>5. Len(<<>>) = 0
  OBVIOUS
<1>6. a \o b # <<>>
  BY <1>4, <1>5
<1>. QED
  BY <1>2, <1>6 DEF Symbols

(* A merge leaves symbols.                                                 *)
LEMMA MergeTyped ==
  ASSUME Typed, Merge
  PROVE  /\ parts' \in Seq(Symbols)
         /\ parts' = Joined(LowestPair(Applicable).place)
<1>. DEFINE i == LowestPair(Applicable).place
<1>1. parts' = Joined(i) /\ Applicable # {} /\ parts \in Seq(Symbols) /\ input \in Inputs
  BY DEF Merge, Typed
<1>2. i \in 1..(Len(parts) - 1)
  BY <1>1, ApplicableIs
<1>. HIDE DEF i
<1>3. parts[i] \in Symbols /\ parts[i + 1] \in Symbols
  BY <1>1, <1>2, ElementOfSeq, LenProperties
<1>5. parts[i] \o parts[i + 1] \in Symbols
  BY <1>3, SymbolsJoin
<1>6. Symbols \subseteq Seq(Alphabet)
  BY DEF Symbols
<1>7. Joined(i) \in Seq(Symbols)
  BY <1>1, <1>2, <1>5, <1>6, JoinedIn
<1>. QED
  BY <1>1, <1>7 DEF i

(* Every step keeps Typed, a conjunct at a time.                           *)
LEMMA NextTyped == Typed /\ [Next]_vars => Typed'
<1>. SUFFICES ASSUME Typed, [Next]_vars
              PROVE  Typed'
  OBVIOUS
<1>. DEFINE n == Len(input.text)
            Numbers == /\ cursor \in 1..(n + 1) /\ stop \in 1..(n + 1)
                       /\ at \in 1..(n + 1) /\ cut \in 1..at
                       /\ stage \in {"split", "merge"} => cursor <= at /\ at <= stop
                       /\ stage = "find" => cut <= cursor
                       /\ stage \in {"split", "merge"} /\ special # None =>
                            stop + Len(special) <= n + 1
            Names == /\ stage \in {"find", "split", "merge", "done", "failed"}
                     /\ special \in input.specials \cup {None}
                     /\ input \in Inputs
<1>1. Numbers /\ Names /\ parts \in Seq(Symbols)
  BY DEF Typed, TypeOK
<1>2. Numbers' /\ Names' /\ parts' \in Seq(Symbols) => Typed'
  <2>1. parts' \in Seq(Symbols) =>
          \A k \in DOMAIN parts' : parts'[k] # <<>> /\ Range(parts'[k]) \subseteq Alphabet
    BY PartsTyped
  <2>. QED
    BY <2>1 DEF Typed, TypeOK
<1>3. n \in Nat /\ \A s \in input.specials : s # None /\ Len(s) \in Nat \ {0}
  BY <1>1, InputIs
<1>4. CASE Find
  <2>1. /\ input' = input /\ cursor' = cursor /\ cut' = cut /\ parts' = parts
        /\ stage = "find" /\ stage' = "split" /\ at' = cursor /\ cursor <= n
    BY <1>4 DEF Find
  <2>2. \/ stop' = n + 1 /\ special' = None
        \/ /\ special' \in input.specials /\ stop' \in cursor..n
           /\ OccursAt(special', input.text, stop')
    BY <1>1, <1>4, FindIs
  <2>3. stop' \in cursor..(n + 1) /\ (special' # None => stop' + Len(special') <= n + 1)
        /\ special' \in input.specials \cup {None}
    <3>1. CASE stop' = n + 1 /\ special' = None
      BY <1>1, <1>3, <2>1, <3>1
    <3>2. CASE /\ special' \in input.specials /\ stop' \in cursor..n
               /\ OccursAt(special', input.text, stop')
      <4>1. Len(special') \in Nat /\ stop' + Len(special') <= n + 1
        BY <1>3, <3>2 DEF OccursAt
      <4>. QED
        BY <1>1, <1>3, <3>2, <4>1
    <3>. QED
      BY <2>2, <3>1, <3>2
  <2>. HIDE DEF n
  <2>4. Numbers'
    BY <1>1, <1>3, <2>1, <2>3 DEF n
  <2>5. Names'
    BY <1>1, <2>1, <2>3
  <2>. QED
    BY <1>1, <1>2, <2>1, <2>4, <2>5
<1>5. CASE Finish
  BY <1>1, <1>2, <1>5 DEF Finish
<1>6. CASE Cut
  <2>1. /\ input' = input /\ cursor' = cursor /\ stop' = stop /\ special' = special
        /\ stage = "split" /\ stage' = "merge" /\ at < stop
        /\ at' = at + NextPiece /\ cut' = at
    BY <1>6 DEF Cut
  <2>2. at \in cursor..(stop - 1)
    BY <1>1, <1>3, <2>1
  <2>3. NextPiece \in 1..(stop - at)
    BY <1>1, <2>2, NextPieceIs
  <2>4. parts' \in Seq(Symbols)
    <3>1. SubSeq(input.text, at, at + NextPiece - 1) \in Seq(Characters)
      <4>1. input.text \in Seq(Characters)
        BY <1>1, InputIs
      <4>2. \A k \in at..(at + NextPiece - 1) : k \in 1..n
        BY <1>1, <1>3, <2>1, <2>3
      <4>3. at \in Int /\ at + NextPiece - 1 \in Int
        BY <1>1, <2>3
      <4>. QED
        BY <4>1, <4>2, <4>3, SubSeqProperties, ElementOfSeq
    <3>. DEFINE text == SubSeq(input.text, at, at + NextPiece - 1)
                visible == VisibleText(text)
    <3>2. parts' = [k \in DOMAIN visible |-> <<visible[k]>>]
      BY <1>6 DEF Cut
    <3>. HIDE DEF text
    <3>3. [k \in DOMAIN visible |-> <<visible[k]>>] \in Seq(Symbols)
      BY <3>1, CutParts DEF text
    <3>. QED
      BY <3>2, <3>3
  <2>5. Numbers'
    BY <1>1, <1>3, <2>1, <2>3
  <2>. QED
    BY <1>1, <1>2, <2>1, <2>4, <2>5
<1>7. CASE Merge
  <2>1. parts' \in Seq(Symbols)
    BY <1>7, MergeTyped
  <2>. QED
    BY <1>1, <1>2, <1>7, <2>1 DEF Merge
<1>8. CASE Emit
  BY <1>1, <1>2, <1>8 DEF Emit
<1>9. CASE RunEnds
  <2>1. /\ input' = input /\ stop' = stop /\ special' = special /\ at' = at /\ cut' = cut
        /\ parts' = parts /\ stage = "split" /\ at = stop
        /\ special # None => cursor' = stop + Len(special) /\ stage' = "find"
        /\ special = None => cursor' = cursor /\ stage' = "done"
    BY <1>9 DEF RunEnds
  <2>2. CASE special = None
    BY <1>1, <1>2, <2>1, <2>2
  <2>3. CASE special # None
    <3>1. special \in input.specials
      BY <1>1, <2>3
    <3>2. Len(special) \in Nat \ {0} /\ stop + Len(special) <= n + 1
      BY <1>1, <1>3, <2>1, <2>3, <3>1
    <3>3. Numbers'
      BY <1>1, <1>3, <2>1, <2>3, <3>2
    <3>. QED
      BY <1>1, <1>2, <2>1, <2>3, <3>3
  <2>. QED
    BY <2>2, <2>3
<1>10. CASE UNCHANGED vars
  BY <1>1, <1>2, <1>10 DEF vars
<1>. QED
  BY <1>4, <1>5, <1>6, <1>7, <1>8, <1>9, <1>10 DEF Next

(* TypeOK holds in every state, whatever the inputs: cursor, stop and at   *)
(* stay in the text, a piece ends inside its run (`piece` takes at least   *)
(* one character and no more than the run has left, so the loop in split   *)
(* moves on), and no part of a piece is ever empty.                        *)
THEOREM TypeOKHolds == Spec => []TypeOK
<1>1. Typed => TypeOK
  BY DEF Typed
<1>. QED
  BY <1>1, InitTyped, NextTyped, PTL DEF Spec

(* decode goes token by token.                                             *)
LEMMA DecodeConcat ==
  ASSUME NEW S, NEW s \in Seq(Seq(S)), NEW t \in Seq(Seq(S))
  PROVE  decode(s \o t) = decode(s) \o decode(t)
<1>1. FlattenSeq(s \o t) = FlattenSeq(s) \o FlattenSeq(t)
  BY FlattenConcat
<1>2. FlattenSeq(s) \in Seq(S) /\ FlattenSeq(t) \in Seq(S)
  BY FlattenType
<1>3. Only(FlattenSeq(s) \o FlattenSeq(t), Alphabet)
        = Only(FlattenSeq(s), Alphabet) \o Only(FlattenSeq(t), Alphabet)
  BY <1>2, OnlyConcat
<1>. QED
  BY <1>1, <1>3 DEF decode

(* Of tokens over the alphabet decode drops nothing.                       *)
LEMMA DecodeVisible ==
  ASSUME NEW s \in Seq(Seq(Alphabet))
  PROVE  decode(s) = FlattenSeq(s)
<1>1. FlattenSeq(s) \in Seq(Alphabet)
  BY FlattenType
<1>. QED
  BY <1>1, OnlyAll DEF decode

(* The bytes of the text up to b are those up to a and those between.      *)
LEMMA TextGoesOn ==
  ASSUME input \in Inputs, NEW a \in 1..(Len(input.text) + 1), NEW b \in a..(Len(input.text) + 1)
  PROVE  /\ SubSeq(input.text, a, b - 1) \in Seq(Characters)
         /\ VisibleText(SubSeq(input.text, 1, b - 1))
              = VisibleText(SubSeq(input.text, 1, a - 1))
                  \o VisibleText(SubSeq(input.text, a, b - 1))
<1>. DEFINE t == input.text
<1>1. t \in Seq(Characters) /\ Len(t) \in Nat
  BY InputIs
<1>. HIDE DEF t
<1>2. /\ SubSeq(t, 1, a - 1) \in Seq(Characters) /\ SubSeq(t, a, b - 1) \in Seq(Characters)
  <2>1. \A k \in 1..Len(t) : t[k] \in Characters
    BY <1>1, ElementOfSeq
  <2>2. /\ a \in Int /\ b \in Int /\ \A k \in a..(b - 1) : k \in 1..Len(t)
        /\ \A k \in 1..(a - 1) : k \in 1..Len(t)
    BY <1>1 DEF t
  <2>. QED
    BY <2>1, <2>2, SubSeqProperties
<1>3. SubSeq(t, 1, a - 1) \o SubSeq(t, a, b - 1) = SubSeq(t, 1, b - 1)
  <2>1. /\ 1 \in 1..(Len(t) + 1) /\ a - 1 \in (1 - 1)..Len(t) /\ b - 1 \in (a - 1)..Len(t)
        /\ (a - 1) + 1 = a
    BY <1>1 DEF t
  <2>2. SubSeq(t, 1, a - 1) \o SubSeq(t, (a - 1) + 1, b - 1) = SubSeq(t, 1, b - 1)
    BY <1>1, <2>1, ConcatAdjacentSubSeq
  <2>. QED
    BY <2>1, <2>2
<1>. QED
  BY <1>2, <1>3, VisibleConcat DEF t

(* The bytes of the first n characters of the text.                        *)
Bytes(n) == VisibleText(SubSeq(input.text, 1, n))

(* A run ends where its special token occurs, or where the text does.      *)
RunsOn ==
  stage \in {"split", "merge"} =>
    /\ special = None => stop = Len(input.text) + 1
    /\ special # None => OccursAt(special, input.text, stop)

(* The inductive invariant behind RoundTrip: at every stage the tokens     *)
(* so far decode to the bytes of the text up to where the encoder has      *)
(* come, and the parts of the current piece spell the piece.               *)
Kept ==
  input.unk = None =>
    /\ out \in Seq(Seq(Alphabet \cup Characters))
    /\ stage = "find"  => decode(out) = Bytes(cursor - 1)
    /\ stage = "split" => decode(out) = Bytes(at - 1)
    /\ stage = "merge" => /\ decode(out) = Bytes(cut - 1)
                          /\ FlattenSeq(parts) = VisibleText(SubSeq(input.text, cut, at - 1))
    /\ stage = "done"  => decode(out) = VisibleText(input.text)

(* Both hold at first.                                                     *)
LEMMA InitKept == Init => RunsOn /\ Kept
<1>. SUFFICES ASSUME Init PROVE RunsOn /\ Kept
  OBVIOUS
<1>1. stage = "find" /\ out = <<>> /\ cursor = 1
  BY DEF Init
<1>2. decode(<<>>) = <<>>
  BY FlattenEmpty, OnlyEmpty DEF decode
<1>3. Bytes(0) = <<>>
  <2>1. SubSeq(input.text, 1, 0) = <<>>
    BY SubSeqEmpty
  <2>. QED
    BY <2>1, VisibleEmpty DEF Bytes
<1>4. out \in Seq(Seq(Alphabet \cup Characters))
  BY <1>1, EmptySeq
<1>. QED
  BY <1>1, <1>2, <1>3, <1>4 DEF RunsOn, Kept

(* Every step keeps RunsOn.                                                *)
LEMMA NextRunsOn == Typed /\ RunsOn /\ [Next]_vars => RunsOn'
<1>. SUFFICES ASSUME Typed, RunsOn, [Next]_vars
              PROVE  RunsOn'
  OBVIOUS
<1>1. CASE Find
  <2>1. input \in Inputs /\ cursor \in 1..(Len(input.text) + 1)
    BY DEF Typed, TypeOK
  <2>2. \A s \in input.specials : s # None
    BY <2>1, InputIs
  <2>3. input' = input
    BY <1>1 DEF Find
  <2>. QED
    BY <1>1, <2>1, <2>2, <2>3, FindIs DEF RunsOn
<1>2. CASE Finish
  BY <1>2 DEF Finish, RunsOn
<1>3. CASE Cut
  BY <1>3 DEF Cut, RunsOn
<1>4. CASE Merge
  BY <1>4 DEF Merge, RunsOn
<1>5. CASE Emit
  BY <1>5 DEF Emit, RunsOn
<1>6. CASE RunEnds
  BY <1>6 DEF RunEnds, RunsOn
<1>7. CASE UNCHANGED vars
  BY <1>7 DEF vars, RunsOn
<1>. QED
  BY <1>1, <1>2, <1>3, <1>4, <1>5, <1>6, <1>7 DEF Next

(* Every step keeps Kept. Cut spells the piece, Merge keeps what it        *)
(* spells, Emit adds it to the tokens, RunEnds adds the special token,     *)
(* whose text is its bytes.                                                *)
LEMMA NextKept == SpecialsPlain(input) /\ Typed /\ RunsOn /\ Kept /\ [Next]_vars => Kept'
<1>. SUFFICES ASSUME SpecialsPlain(input), Typed, RunsOn, Kept, [Next]_vars
              PROVE  Kept'
  OBVIOUS
<1>4. input' = input
  BY DEF Next, Find, Finish, Cut, Merge, Emit, RunEnds, vars
<1>. SUFFICES ASSUME input.unk = None
              PROVE  Kept'
  BY <1>4 DEF Kept
<1>. DEFINE n == Len(input.text)
            U == Alphabet \cup Characters
            More == /\ stage = "find"  => decode(out) = Bytes(cursor - 1)
                    /\ stage = "split" => decode(out) = Bytes(at - 1)
                    /\ stage = "merge" =>
                         /\ decode(out) = Bytes(cut - 1)
                         /\ FlattenSeq(parts) = VisibleText(SubSeq(input.text, cut, at - 1))
                    /\ stage = "done"  => decode(out) = VisibleText(input.text)
<1>1. /\ input \in Inputs /\ n \in Nat /\ cursor \in 1..(n + 1) /\ stop \in 1..(n + 1)
      /\ at \in 1..(n + 1) /\ cut \in 1..at /\ special \in input.specials \cup {None}
      /\ stage \in {"split", "merge"} => cursor <= at /\ at <= stop
      /\ stage \in {"split", "merge"} /\ special # None => stop + Len(special) <= n + 1
      /\ stage \in {"find", "split", "merge", "done", "failed"}
  BY InputIs DEF Typed, TypeOK
<1>2. parts \in Seq(Symbols) /\ parts \in Seq(Seq(Alphabet))
  BY DEF Typed, Symbols
<1>3. out \in Seq(Seq(U)) /\ More
  BY DEF Kept
<1>5. out' \in Seq(Seq(U)) /\ More' => Kept'
  BY DEF Kept
<1>6. input.text \in Seq(Characters) /\ SubSeq(input.text, 1, n) = input.text
  BY <1>1, InputIs, SubSeqFull
<1>. HIDE DEF n
<1>7. CASE Find
  BY <1>3, <1>4, <1>5, <1>7 DEF Find, Bytes
<1>8. CASE Finish
  <2>1. cursor - 1 = n /\ stage = "find"
    BY <1>1, <1>8 DEF Finish, n
  <2>2. decode(out) = VisibleText(input.text)
    BY <1>3, <1>6, <2>1 DEF Bytes
  <2>. QED
    BY <1>3, <1>4, <1>5, <1>8, <2>2 DEF Finish
<1>9. CASE Cut
  <2>1. stage = "split" /\ stage' = "merge" /\ cut' = at /\ at' = at + NextPiece /\ out' = out
    BY <1>9 DEF Cut
  <2>2. NextPiece \in 1..(stop - at)
    <3>1. at \in cursor..(stop - 1)
      BY <1>1, <1>9, <2>1 DEF Cut
    <3>. QED
      BY <1>1, <3>1, NextPieceIs DEF n
  <2>. DEFINE text == SubSeq(input.text, at, at + NextPiece - 1)
              visible == VisibleText(text)
  <2>3. text \in Seq(Characters)
    <3>1. at + NextPiece \in at..(Len(input.text) + 1)
      BY <1>1, <2>2 DEF n
    <3>. QED
      <4>. DEFINE b == at + NextPiece
      <4>1. at \in 1..(Len(input.text) + 1) /\ b \in at..(Len(input.text) + 1)
        BY <1>1, <3>1 DEF n
      <4>. HIDE DEF b
      <4>2. SubSeq(input.text, at, b - 1) \in Seq(Characters)
        BY <1>1, <4>1, TextGoesOn
      <4>3. b - 1 = at + NextPiece - 1
        BY <1>1, <2>2 DEF b
      <4>. QED
        BY <4>2, <4>3
  <2>4. parts' = [k \in DOMAIN visible |-> <<visible[k]>>]
    BY <1>9 DEF Cut
  <2>. HIDE DEF text
  <2>5. FlattenSeq([k \in DOMAIN visible |-> <<visible[k]>>]) = visible
    BY <2>3, CutParts
  <2>6. FlattenSeq(parts') = VisibleText(SubSeq(input.text, cut', at' - 1))
    <3>1. SubSeq(input.text, cut', at' - 1) = text
      <4>1. at' - 1 = at + NextPiece - 1
        BY <1>1, <2>1, <2>2
      <4>. QED
        BY <2>1, <4>1 DEF text
    <3>. QED
      BY <2>4, <2>5, <3>1
  <2>. QED
    BY <1>3, <1>4, <1>5, <2>1, <2>6 DEF Bytes
<1>10. CASE Merge
  <2>1. parts' = Joined(LowestPair(Applicable).place)
    BY <1>10, MergeTyped
  <2>2. LowestPair(Applicable).place \in 1..(Len(parts) - 1)
    BY <1>1, <1>2, <1>10, ApplicableIs DEF Merge
  <2>3. FlattenSeq(parts') = FlattenSeq(parts)
    BY <1>2, <2>1, <2>2, JoinedFlat
  <2>. QED
    BY <1>3, <1>4, <1>5, <1>10, <2>3 DEF Merge, Bytes
<1>11. CASE Emit
  <2>1. CASE Range(parts) \subseteq input.tokens
    <3>1. out' = out \o [k \in DOMAIN parts |->
                           IF parts[k] \in input.tokens THEN parts[k] ELSE input.unk]
      BY <1>11, <2>1 DEF Emit
    <3>2. [k \in DOMAIN parts |-> IF parts[k] \in input.tokens THEN parts[k] ELSE input.unk]
            = [k \in DOMAIN parts |-> parts[k]]
      BY <2>1 DEF Range
    <3>3. [k \in DOMAIN parts |-> parts[k]] = parts
      BY <1>2
    <3>4. out' = out \o parts
      BY <3>1, <3>2, <3>3
    <3>5. parts \in Seq(Seq(U))
      BY <1>2
    <3>. HIDE DEF U
    <3>6. out \o parts \in Seq(Seq(U)) /\ decode(out \o parts) = decode(out) \o decode(parts)
      BY <1>3, <3>5, ConcatProperties, DecodeConcat
    <3>7. decode(parts) = FlattenSeq(parts)
      BY <1>2, DecodeVisible
    <3>8. /\ stage = "merge" /\ stage' = "split" /\ at' = at
      BY <1>11, <2>1 DEF Emit
    <3>9. Bytes(at - 1) = Bytes(cut - 1) \o VisibleText(SubSeq(input.text, cut, at - 1))
      <4>1. cut \in 1..(Len(input.text) + 1) /\ at \in cut..(Len(input.text) + 1)
        BY <1>1 DEF n
      <4>. QED
        BY <1>1, <4>1, TextGoesOn DEF Bytes
    <3>10. decode(out') = Bytes(at - 1)
      BY <1>3, <3>4, <3>6, <3>7, <3>8, <3>9
    <3>11. Bytes(at - 1)' = Bytes(at - 1)
      BY <1>4, <3>8 DEF Bytes
    <3>12. More'
      BY <3>8, <3>10, <3>11
    <3>. QED
      BY <1>5, <3>4, <3>6, <3>12
  <2>2. CASE ~(Range(parts) \subseteq input.tokens)
    <3>1. stage' = "failed" /\ out' = out
      BY <1>11, <2>2 DEF Emit
    <3>. QED
      BY <1>3, <1>5, <3>1
  <2>. QED
    BY <2>1, <2>2
<1>12. CASE RunEnds
  <2>0. stage = "split" /\ at = stop /\ decode(out) = Bytes(at - 1)
    BY <1>3, <1>12 DEF RunEnds
  <2>1. CASE special = None
    <3>1. at - 1 = n
      BY <1>1, <2>0, <2>1 DEF RunsOn, n
    <3>2. decode(out) = VisibleText(input.text)
      BY <1>6, <2>0, <3>1 DEF Bytes
    <3>3. stage' = "done" /\ out' = out
      BY <1>12, <2>1 DEF RunEnds
    <3>. QED
      BY <1>3, <1>4, <1>5, <3>2, <3>3
  <2>2. CASE special # None
    <3>1. out' = Append(out, special) /\ cursor' = stop + Len(special) /\ stage' = "find"
      BY <1>12, <2>2 DEF RunEnds
    <3>2. /\ special \in input.specials /\ special \in Seq(Characters)
          /\ Len(special) \in Nat /\ special = VisibleText(special)
      BY <1>1, <2>2, InputIs DEF SpecialsPlain
    <3>3. OccursAt(special, input.text, stop)
      BY <2>0, <2>2 DEF RunsOn
    <3>4. special \in Seq(Alphabet)
      BY <3>2, VisibleType
    <3>5. special \in Seq(U) /\ <<special>> \in Seq(Seq(U)) /\ <<special>> \in Seq(Seq(Alphabet))
      <4>1. special \in Seq(U)
        BY <3>2
      <4>2. \A S : \A s \in S : <<s>> \in Seq(S)
        OBVIOUS
      <4>. QED
        BY <3>4, <4>1, <4>2
    <3>6. out' = out \o <<special>>
      BY <1>3, <3>1, <3>5, AppendIsConcat
    <3>. HIDE DEF U
    <3>7. /\ out \o <<special>> \in Seq(Seq(U))
          /\ decode(out \o <<special>>) = decode(out) \o decode(<<special>>)
      BY <1>3, <3>5, ConcatProperties, DecodeConcat
    <3>8. decode(<<special>>) = special
      BY <3>4, <3>5, DecodeVisible, FlattenOne
    <3>9. Bytes(stop + Len(special) - 1) = Bytes(stop - 1) \o VisibleText(special)
      <4>1. /\ stop \in 1..(Len(input.text) + 1)
            /\ stop + Len(special) \in stop..(Len(input.text) + 1)
        BY <1>1, <2>0, <2>2, <3>2 DEF n
      <4>2. SubSeq(input.text, stop, stop + Len(special) - 1) = special
        BY <3>3 DEF OccursAt
      <4>. DEFINE b == stop + Len(special)
      <4>3. b \in stop..(Len(input.text) + 1)
        BY <4>1
      <4>. HIDE DEF b
      <4>4. Bytes(b - 1) = Bytes(stop - 1) \o VisibleText(SubSeq(input.text, stop, b - 1))
        BY <1>1, <4>1, <4>3, TextGoesOn DEF Bytes
      <4>5. b - 1 = stop + Len(special) - 1
        BY <1>1, <3>2 DEF b
      <4>. QED
        BY <4>2, <4>4, <4>5
    <3>10. decode(out') = Bytes(stop + Len(special) - 1)
      BY <2>0, <3>2, <3>6, <3>7, <3>8, <3>9
    <3>11. Bytes(cursor - 1)' = Bytes(stop + Len(special) - 1)
      <4>1. (cursor - 1)' = stop + Len(special) - 1
        BY <1>1, <3>1, <3>2
      <4>. QED
        BY <1>4, <4>1 DEF Bytes
    <3>12. More'
      BY <3>1, <3>10, <3>11
    <3>. QED
      BY <1>5, <3>6, <3>7, <3>12
  <2>. QED
    BY <2>1, <2>2
<1>13. CASE UNCHANGED vars
  BY <1>3, <1>5, <1>13 DEF vars, Bytes
<1>. QED
  BY <1>7, <1>8, <1>9, <1>10, <1>11, <1>12, <1>13 DEF Next

(* What was encoded comes back, byte for byte (encode and decode), for     *)
(* every text, pattern, merge list and vocabulary: wherever the special    *)
(* tokens are plain and no piece goes unknown. Where they are not plain    *)
(* it is false, as Tokenizer_decode.cfg shows.                             *)
THEOREM RoundTripHolds == Spec => [](SpecialsPlain(input) => RoundTrip)
<1>. DEFINE Inv == Typed /\ RunsOn /\ (SpecialsPlain(input) => Kept)
<1>1. Inv => (SpecialsPlain(input) => RoundTrip)
  BY DEF Kept, RoundTrip
<1>2. Init => Inv
  BY InitTyped, InitKept
<1>3. Inv /\ [Next]_vars => Inv'
  BY SameInput, NextTyped, NextRunsOn, NextKept
<1>. QED
  BY <1>1, <1>2, <1>3, PTL DEF Spec

(* The special tokens that begin at a position.                            *)
Here(text, specials, i) == {s \in specials : OccursAt(s, text, i)}

(* The longest of them.                                                    *)
LongestHere(text, specials, i) ==
  CHOOSE s \in Here(text, specials, i) :
    \A t \in Here(text, specials, i) : Len(t) <= Len(s)

(* One step of a reader from the left, as Marks takes it.                  *)
ReadOn(text, specials, f, i) ==
  IF i > Len(text) THEN <<>>
  ELSE IF Here(text, specials, i) = {} THEN f[i + 1]
  ELSE <<LongestHere(text, specials, i)>> \o f[i + Len(LongestHere(text, specials, i))]

(* What the reader sees from each position on.                             *)
MarksFrom(text, specials) ==
  CHOOSE f : f = [i \in 1..(Len(text) + 1) |-> ReadOn(text, specials, f, i)]

(* Marks is what the reader sees from the first.                           *)
LEMMA MarksIs ==
  ASSUME NEW text, NEW specials
  PROVE  Marks(text, specials) = MarksFrom(text, specials)[1]
  BY DEF Marks, MarksFrom, ReadOn, LongestHere, Here

(* A longest one exists where any begins: none is longer than the text.    *)
LEMMA LongestIs ==
  ASSUME NEW C, NEW text \in Seq(C), NEW specials \in SUBSET Seq(C),
         NEW i \in 1..Len(text), Here(text, specials, i) # {}
  PROVE  /\ LongestHere(text, specials, i) \in specials
         /\ OccursAt(LongestHere(text, specials, i), text, i)
         /\ \A s \in specials : OccursAt(s, text, i) =>
              Len(s) <= Len(LongestHere(text, specials, i))
<1>. DEFINE H == Here(text, specials, i)
            n == Len(text) + 1
            Left == {n - Len(s) : s \in H}
<1>1. \A s \in H : s \in specials /\ Len(s) \in Nat /\ n - Len(s) \in Nat
  <2>1. SUFFICES ASSUME NEW s \in H
                 PROVE  s \in specials /\ Len(s) \in Nat /\ n - Len(s) \in Nat
    OBVIOUS
  <2>2. s \in specials /\ s \in Seq(C) /\ i + Len(s) <= Len(text) + 1
    BY DEF Here, OccursAt
  <2>. QED
    BY <2>2, LenProperties
<1>2. PICK l \in Left : \A k \in Left : l <= k
  <2>1. Left \in SUBSET Nat /\ Left # {}
    BY <1>1
  <2>. HIDE DEF Left
  <2>. QED
    BY <2>1, Least
<1>3. PICK s \in H : l = n - Len(s)
  OBVIOUS
<1>4. \A t \in H : Len(t) <= Len(s)
  <2>. TAKE t \in H
  <2>1. n - Len(s) <= n - Len(t)
    BY <1>2, <1>3
  <2>. HIDE DEF Left, H
  <2>. QED
    BY <1>1, <2>1
<1>5. LongestHere(text, specials, i) \in H /\ \A t \in H : Len(t) <= Len(LongestHere(text, specials, i))
  <2>. HIDE DEF Left
  <2>. QED
    BY <1>4, Zenon DEF LongestHere
<1>. QED
  BY <1>5 DEF Here

(* The recursion of MarksFrom is well founded: the reader moves on,        *)
(* since no special token is empty.                                        *)
LEMMA MarksFromIs ==
  ASSUME NEW C, NEW text \in Seq(C), NEW specials \in SUBSET Seq(C), <<>> \notin specials
  PROVE  MarksFrom(text, specials)
           = [i \in 1..(Len(text) + 1) |-> ReadOn(text, specials, MarksFrom(text, specials), i)]
<1>. DEFINE n == Len(text)
            D == 1..(n + 1)
            Fine(f, k) == \A i \in (n + 1 - k)..(n + 1) : f[i] = ReadOn(text, specials, f, i)
            N == {k \in Nat : k <= n => \E f : f = [i \in D |-> f[i]] /\ Fine(f, k)}
<1>0. n \in Nat
  BY LenProperties
<1>. HIDE DEF n
<1>1. \A f : ReadOn(text, specials, f, n + 1) = <<>>
  BY <1>0 DEF ReadOn, n
<1>2. 0 \in N
  <2>. DEFINE f == [i \in D |-> <<>>]
  <2>1. f = [i \in D |-> f[i]]
    OBVIOUS
  <2>2. f[n + 1] = <<>>
    BY <1>0
  <2>. HIDE DEF f
  <2>3. Fine(f, 0)
    BY <1>0, <1>1, <2>2
  <2>. HIDE DEF Fine
  <2>. QED
    BY <2>1, <2>3
<1>3. ASSUME NEW i \in 1..n, NEW f, NEW g, \A j \in (i + 1)..(n + 1) : f[j] = g[j]
      PROVE  ReadOn(text, specials, f, i) = ReadOn(text, specials, g, i)
  <2>1. CASE Here(text, specials, i) = {}
    <3>1. i + 1 \in (i + 1)..(n + 1)
      BY <1>0
    <3>. QED
      BY <1>3, <2>1, <3>1 DEF ReadOn
  <2>2. CASE Here(text, specials, i) # {}
    <3>. DEFINE s == LongestHere(text, specials, i)
    <3>1. s \in specials /\ OccursAt(s, text, i)
      <4>1. i \in 1..Len(text)
        BY DEF n
      <4>. QED
        BY <2>2, <4>1, LongestIs
    <3>. HIDE DEF s
    <3>2. Len(s) \in Nat \ {0}
      BY <3>1, EmptySeq, LenProperties
    <3>3. i + Len(s) <= n + 1
      BY <3>1 DEF OccursAt, n
    <3>4. i + Len(s) \in (i + 1)..(n + 1)
      BY <1>0, <3>2, <3>3
    <3>5. f[i + Len(s)] = g[i + Len(s)]
      BY <1>3, <3>4
    <3>. QED
      BY <2>2, <3>5 DEF ReadOn, s
  <2>. QED
    BY <2>1, <2>2
<1>4. ASSUME NEW k \in Nat, k \in N
      PROVE  k + 1 \in N
  <2>. SUFFICES ASSUME k + 1 <= n
                PROVE  \E f : f = [i \in D |-> f[i]] /\ Fine(f, k + 1)
    OBVIOUS
  <2>1. k <= n
    BY <1>0
  <2>2. PICK f : f = [i \in D |-> f[i]] /\ Fine(f, k)
    BY <1>4, <2>1
  <2>. DEFINE a == n - k
              g == [i \in D |-> IF i = a THEN ReadOn(text, specials, f, a) ELSE f[i]]
  <2>3. a \in 1..n /\ n + 1 - (k + 1) = a /\ n + 1 - k = a + 1
    BY <1>0
  <2>4. g = [i \in D |-> g[i]]
    OBVIOUS
  <2>5. \A j \in (a + 1)..(n + 1) : g[j] = f[j]
    BY <1>0, <2>3
  <2>6. g[a] = ReadOn(text, specials, f, a)
    BY <1>0, <2>3
  <2>7. \A j \in (a + 1)..(n + 1) : f[j] = ReadOn(text, specials, f, j)
    BY <2>2, <2>3
  <2>. HIDE DEF g, a
  <2>8. ASSUME NEW i \in a..(n + 1)
        PROVE  g[i] = ReadOn(text, specials, g, i)
    <3>1. CASE i = n + 1
      BY <1>0, <1>1, <2>3, <2>5, <2>7, <3>1
    <3>2. CASE i # n + 1
      <4>1. i \in 1..n /\ \A j \in (i + 1)..(n + 1) : g[j] = f[j]
        BY <1>0, <2>3, <2>5, <3>2
      <4>2. ReadOn(text, specials, g, i) = ReadOn(text, specials, f, i)
        BY <1>3, <4>1
      <4>3. CASE i = a
        BY <2>6, <4>2, <4>3
      <4>4. CASE i # a
        BY <1>0, <2>3, <2>5, <2>7, <4>2, <4>4
      <4>. QED
        BY <4>3, <4>4
    <3>. QED
      BY <3>1, <3>2
  <2>9. Fine(g, k + 1)
    BY <2>3, <2>8
  <2>. HIDE DEF Fine
  <2>. QED
    BY <2>4, <2>9
<1>5. n \in N
  <2>. HIDE DEF N
  <2>1. Nat \subseteq N
    BY <1>2, <1>4, Induct
  <2>. QED
    BY <1>0, <2>1
<1>6. PICK f : f = [i \in D |-> f[i]] /\ Fine(f, n)
  BY <1>0, <1>5
<1>7. \A i \in D : f[i] = ReadOn(text, specials, f, i)
  BY <1>0, <1>6
<1>8. f = [i \in D |-> ReadOn(text, specials, f, i)]
  BY <1>6, <1>7, Zenon
<1>9. \E h : h = [i \in 1..(Len(text) + 1) |-> ReadOn(text, specials, h, i)]
  BY <1>8, Zenon DEF n
<1>. QED
  BY <1>9, Zenon DEF MarksFrom

(* A step of the reader.                                                   *)
LEMMA MarksStep ==
  ASSUME NEW C, NEW text \in Seq(C), NEW specials \in SUBSET Seq(C), <<>> \notin specials
  PROVE  /\ MarksFrom(text, specials)[Len(text) + 1] = <<>>
         /\ \A i \in 1..Len(text) :
              /\ Here(text, specials, i) = {} =>
                   MarksFrom(text, specials)[i] = MarksFrom(text, specials)[i + 1]
              /\ Here(text, specials, i) # {} =>
                   MarksFrom(text, specials)[i]
                     = <<LongestHere(text, specials, i)>>
                         \o MarksFrom(text, specials)[i + Len(LongestHere(text, specials, i))]
<1>. DEFINE F == MarksFrom(text, specials)
<1>1. F = [i \in 1..(Len(text) + 1) |-> ReadOn(text, specials, F, i)]
  BY MarksFromIs
<1>. HIDE DEF F
<1>2. Len(text) \in Nat
  BY LenProperties
<1>3. \A i \in 1..(Len(text) + 1) : F[i] = ReadOn(text, specials, F, i)
  BY <1>1
<1>4. F[Len(text) + 1] = <<>>
  <2>1. Len(text) + 1 \in 1..(Len(text) + 1) /\ Len(text) + 1 > Len(text)
    BY <1>2
  <2>2. ReadOn(text, specials, F, Len(text) + 1) = <<>>
    BY <2>1 DEF ReadOn
  <2>. QED
    BY <1>3, <2>1, <2>2
<1>5. \A i \in 1..Len(text) : i \in 1..(Len(text) + 1) /\ ~(i > Len(text))
  BY <1>2
<1>. QED
  BY <1>3, <1>4, <1>5 DEF ReadOn, F

(* The reader sees special tokens only.                                    *)
LEMMA MarksType ==
  ASSUME NEW C, NEW text \in Seq(C), NEW specials \in SUBSET Seq(C), <<>> \notin specials,
         NEW i \in 1..(Len(text) + 1)
  PROVE  MarksFrom(text, specials)[i] \in Seq(specials)
<1>. DEFINE n == Len(text)
            F == MarksFrom(text, specials)
            N == {k \in Nat : \A j \in (n + 1 - k)..(n + 1) : j >= 1 => F[j] \in Seq(specials)}
<1>0. n \in Nat
  BY LenProperties
<1>1. /\ F[n + 1] = <<>>
      /\ \A j \in 1..n : /\ Here(text, specials, j) = {} => F[j] = F[j + 1]
                         /\ Here(text, specials, j) # {} =>
                              F[j] = <<LongestHere(text, specials, j)>>
                                        \o F[j + Len(LongestHere(text, specials, j))]
  BY MarksStep
<1>2. \A j \in 1..n : Here(text, specials, j) # {} =>
         /\ LongestHere(text, specials, j) \in specials
         /\ OccursAt(LongestHere(text, specials, j), text, j)
  BY LongestIs
<1>3. \A s \in specials : Len(s) \in Nat \ {0}
  BY EmptySeq, LenProperties
<1>. HIDE DEF F
<1>4. 0 \in N
  <2>1. F[n + 1] \in Seq(specials)
    BY <1>1, EmptySeq
  <2>2. \A j \in (n + 1 - 0)..(n + 1) : j = n + 1
    BY <1>0
  <2>. HIDE DEF n
  <2>. QED
    BY <2>1, <2>2
<1>5. ASSUME NEW k \in Nat, k \in N
      PROVE  k + 1 \in N
  <2>. SUFFICES ASSUME NEW j \in (n + 1 - (k + 1))..(n + 1), j >= 1
                PROVE  F[j] \in Seq(specials)
    BY <1>0
  <2>0. \A h \in (n + 1 - k)..(n + 1) : h >= 1 => F[h] \in Seq(specials)
    BY <1>5
  <2>1. CASE j >= n + 1 - k
    BY <1>0, <2>0, <2>1
  <2>2. CASE ~(j >= n + 1 - k)
    <3>1. j \in 1..n /\ j = n - k
      BY <1>0, <2>2
    <3>2. CASE Here(text, specials, j) = {}
      <4>1. F[j] = F[j + 1]
        BY <1>1, <3>1, <3>2
      <4>2. j + 1 \in (n + 1 - k)..(n + 1) /\ j + 1 >= 1
        BY <1>0, <3>1
      <4>. HIDE DEF n
      <4>. QED
        BY <2>0, <4>1, <4>2
    <3>3. CASE Here(text, specials, j) # {}
      <4>. DEFINE s == LongestHere(text, specials, j)
      <4>1. s \in specials /\ j + Len(s) <= n + 1 /\ F[j] = <<s>> \o F[j + Len(s)]
        BY <1>1, <1>2, <3>1, <3>3 DEF OccursAt
      <4>. HIDE DEF s
      <4>2. F[j + Len(s)] \in Seq(specials)
        <5>1. Len(s) \in Nat \ {0}
          BY <1>3, <4>1
        <5>2. j + Len(s) \in (n + 1 - k)..(n + 1) /\ j + Len(s) >= 1
          BY <1>0, <3>1, <4>1, <5>1
        <5>. DEFINE h == j + Len(s)
        <5>. HIDE DEF n, h
        <5>3. F[h] \in Seq(specials)
          BY <2>0, <5>2 DEF h
        <5>. QED
          BY <5>3 DEF h
      <4>3. <<s>> \in Seq(specials)
        BY <4>1
      <4>. QED
        BY <4>1, <4>2, <4>3, ConcatProperties
    <3>. QED
      BY <3>2, <3>3
  <2>. QED
    BY <2>1, <2>2
<1>6. n \in N
  <2>. HIDE DEF N
  <2>. QED
    BY <1>0, <1>4, <1>5, Induct
<1>7. i \in (n + 1 - n)..(n + 1) /\ i >= 1
  BY <1>0
<1>. QED
  BY <1>6, <1>7 DEF F

(* The reader sees the same from two positions if nothing begins between   *)
(* them.                                                                   *)
LEMMA MarksSkip ==
  ASSUME NEW C, NEW text \in Seq(C), NEW specials \in SUBSET Seq(C), <<>> \notin specials,
         NEW a \in 1..(Len(text) + 1), NEW b \in a..(Len(text) + 1),
         \A i \in a..(b - 1) : \A s \in specials : ~OccursAt(s, text, i)
  PROVE  MarksFrom(text, specials)[a] = MarksFrom(text, specials)[b]
<1>. DEFINE n == Len(text)
            F == MarksFrom(text, specials)
            N == {k \in Nat : a + k <= b => F[a] = F[a + k]}
<1>0. n \in Nat
  BY LenProperties
<1>1. /\ F[n + 1] = <<>>
      /\ \A j \in 1..n : /\ Here(text, specials, j) = {} => F[j] = F[j + 1]
                         /\ Here(text, specials, j) # {} =>
                              F[j] = <<LongestHere(text, specials, j)>>
                                        \o F[j + Len(LongestHere(text, specials, j))]
  BY MarksStep
<1>. HIDE DEF F
<1>2. 0 \in N
  OBVIOUS
<1>3. ASSUME NEW k \in Nat, k \in N
      PROVE  k + 1 \in N
  <2>. SUFFICES ASSUME a + (k + 1) <= b
                PROVE  F[a] = F[a + (k + 1)]
    OBVIOUS
  <2>1. a + k \in a..(b - 1) /\ a + k \in 1..n /\ a + k <= b /\ a + (k + 1) = (a + k) + 1
    BY <1>0
  <2>2. Here(text, specials, a + k) = {}
    BY <2>1 DEF Here
  <2>3. F[a + k] = F[(a + k) + 1]
    BY <1>1, <2>1, <2>2
  <2>. QED
    BY <1>3, <2>1, <2>3
<1>4. b - a \in N
  <2>1. Nat \subseteq N
    <3>. HIDE DEF N
    <3>. QED
      BY <1>2, <1>3, Induct
  <2>2. b - a \in Nat
    BY <1>0
  <2>. HIDE DEF N
  <2>. QED
    BY <2>1, <2>2
<1>5. a + (b - a) = b /\ b <= b
  BY <1>0
<1>. QED
  BY <1>4, <1>5 DEF F

(* Of two that occur at the same place, those as long as each other are    *)
(* the same: a longest one is the longest.                                 *)
LEMMA LongestUnique ==
  ASSUME NEW C, NEW text \in Seq(C), NEW specials \in SUBSET Seq(C),
         NEW i \in 1..Len(text), NEW s \in specials, OccursAt(s, text, i),
         \A t \in specials : OccursAt(t, text, i) => Len(t) <= Len(s)
  PROVE  Here(text, specials, i) # {} /\ LongestHere(text, specials, i) = s
<1>. DEFINE l == LongestHere(text, specials, i)
<1>1. Here(text, specials, i) # {}
  BY DEF Here
<1>2. /\ l \in specials /\ OccursAt(l, text, i)
      /\ \A t \in specials : OccursAt(t, text, i) => Len(t) <= Len(l)
  BY <1>1, LongestIs
<1>. HIDE DEF l
<1>3. Len(l) <= Len(s) /\ Len(s) <= Len(l) /\ Len(l) \in Nat /\ Len(s) \in Nat
  BY <1>2, LenProperties
<1>4. Len(l) = Len(s)
  BY <1>3
<1>5. SubSeq(text, i, i + Len(l) - 1) = l /\ SubSeq(text, i, i + Len(s) - 1) = s
  BY <1>2 DEF OccursAt
<1>6. l = s
  BY <1>4, <1>5
<1>. QED
  BY <1>1, <1>6 DEF l

(* What a token may be.                                                    *)
Tokens == Seq(Alphabet \cup Characters) \cup {input.unk}

(* What the reader sees of the input from a position on.                   *)
Read(i) == MarksFrom(input.text, input.specials)[i]

(* The inductive invariant behind SpecialsWhole: the special tokens        *)
(* among those so far, and what a reader would see of the rest, are what   *)
(* a reader sees of all of the text; and no part of a piece is a special   *)
(* token.                                                                  *)
Seen ==
  /\ out \in Seq(Tokens)
  /\ parts \in Seq(Symbols \ input.specials)
  /\ stage = "find" => Only(out, input.specials) \o Read(cursor) = Read(1)
  /\ stage \in {"split", "merge"} => Only(out, input.specials) \o Read(stop) = Read(1)
  /\ stage \in {"split", "merge"} /\ special # None =>
       /\ stop <= Len(input.text)
       /\ Here(input.text, input.specials, stop) # {}
       /\ LongestHere(input.text, input.specials, stop) = special
  /\ stage = "done" => Only(out, input.specials) = Read(1)

(* The lemmas about the reader, for the input.                             *)
LEMMA ReadIs ==
  ASSUME input \in Inputs
  PROVE  /\ input.text \in Seq(Characters) /\ Len(input.text) \in Nat
         /\ input.specials \in SUBSET Seq(Characters) /\ <<>> \notin input.specials
         /\ Read(Len(input.text) + 1) = <<>>
         /\ \A i \in 1..(Len(input.text) + 1) : Read(i) \in Seq(Tokens)
         /\ \A i \in 1..Len(input.text) : Here(input.text, input.specials, i) # {} =>
              Read(i) = <<LongestHere(input.text, input.specials, i)>>
                          \o Read(i + Len(LongestHere(input.text, input.specials, i)))
<1>1. /\ input.text \in Seq(Characters) /\ Len(input.text) \in Nat
      /\ input.specials \in SUBSET Seq(Characters) /\ <<>> \notin input.specials
  BY InputIs
<1>2. Read(Len(input.text) + 1) = <<>>
  BY <1>1, MarksStep DEF Read
<1>3. \A i \in 1..(Len(input.text) + 1) : Read(i) \in Seq(input.specials)
  BY <1>1, MarksType DEF Read
<1>4. Seq(input.specials) \subseteq Seq(Tokens)
  <2>1. Seq(Characters) \subseteq Seq(Alphabet \cup Characters)
    OBVIOUS
  <2>2. input.specials \subseteq Tokens
    BY <1>1, <2>1 DEF Tokens
  <2>. HIDE DEF Tokens
  <2>. QED
    BY <2>2
<1>5. \A i \in 1..Len(input.text) : Here(input.text, input.specials, i) # {} =>
        Read(i) = <<LongestHere(input.text, input.specials, i)>>
                    \o Read(i + Len(LongestHere(input.text, input.specials, i)))
  <2>. DEFINE t == input.text
              A == input.specials
              F == MarksFrom(t, A)
  <2>1. t \in Seq(Characters) /\ A \in SUBSET Seq(Characters) /\ <<>> \notin A
    BY <1>1
  <2>. HIDE DEF t, A
  <2>2. \A i \in 1..Len(t) : Here(t, A, i) # {} =>
          F[i] = <<LongestHere(t, A, i)>> \o F[i + Len(LongestHere(t, A, i))]
    BY <2>1, MarksStep
  <2>. QED
    BY <2>2 DEF t, A, Read
<1>. QED
  BY <1>1, <1>2, <1>3, <1>4, <1>5

(* Seen holds at first.                                                    *)
LEMMA InitSeen == Init => Seen
<1>. SUFFICES ASSUME Init PROVE Seen
  OBVIOUS
<1>1. stage = "find" /\ out = <<>> /\ cursor = 1 /\ parts = <<>> /\ input \in Inputs
  BY DEF Init
<1>2. Only(<<>>, input.specials) = <<>>
  BY OnlyEmpty
<1>3. Read(1) \in Seq(Tokens)
  <2>1. 1 \in 1..(Len(input.text) + 1)
    BY <1>1, ReadIs
  <2>. QED
    BY <1>1, <2>1, ReadIs
<1>4. <<>> \o Read(1) = Read(1)
  BY <1>3, ConcatEmptySeq
<1>5. out \in Seq(Tokens) /\ parts \in Seq(Symbols \ input.specials)
  BY <1>1, EmptySeq
<1>. QED
  BY <1>1, <1>2, <1>4, <1>5 DEF Seen

(* Every step keeps Seen. Find passes over no special token and stops at   *)
(* the longest; no merge makes one; RunEnds takes the one that was         *)
(* found.                                                                  *)
LEMMA NextSeen == SpecialsApart(input) /\ Typed /\ RunsOn /\ Seen /\ [Next]_vars => Seen'
<1>. SUFFICES ASSUME SpecialsApart(input), Typed, RunsOn, Seen, [Next]_vars
              PROVE  Seen'
  OBVIOUS
<1>. DEFINE n == Len(input.text)
            A == input.specials
            In == stage \in {"split", "merge"}
            Ends == special # None => /\ stop <= n
                                      /\ Here(input.text, A, stop) # {}
                                      /\ LongestHere(input.text, A, stop) = special
            Marked == /\ stage = "find" => Only(out, A) \o Read(cursor) = Read(1)
                      /\ In => Only(out, A) \o Read(stop) = Read(1)
                      /\ In => Ends
                      /\ stage = "done" => Only(out, A) = Read(1)
<1>0. input' = input
  BY DEF Next, Find, Finish, Cut, Merge, Emit, RunEnds, vars
<1>1. /\ input \in Inputs /\ n \in Nat /\ cursor \in 1..(n + 1) /\ stop \in 1..(n + 1)
      /\ at \in 1..(n + 1) /\ cut \in 1..at /\ special \in A \cup {None}
      /\ In => cursor <= at /\ at <= stop
      /\ In /\ special # None => stop + Len(special) <= n + 1
  BY InputIs DEF Typed, TypeOK
<1>2. /\ input.text \in Seq(Characters) /\ A \in SUBSET Seq(Characters) /\ <<>> \notin A
      /\ \A s \in A : s # None
  BY <1>1, InputIs
<1>3. out \in Seq(Tokens) /\ parts \in Seq(Symbols \ A) /\ Marked
  BY DEF Seen
<1>4. /\ Tokens' = Tokens /\ A' = A /\ n' = n /\ (Symbols \ A)' = Symbols \ A
      /\ Read(1)' = Read(1) /\ Read(cursor)' = Read(cursor') /\ Read(stop)' = Read(stop')
      /\ Here(input.text, A, stop)' = Here(input.text, A, stop')
      /\ LongestHere(input.text, A, stop)' = LongestHere(input.text, A, stop')
  BY <1>0 DEF Tokens, Read, Here, LongestHere, OccursAt, Symbols, Alphabet
<1>. DEFINE MarkedNext ==
              /\ stage' = "find" => Only(out', A) \o Read(cursor') = Read(1)
              /\ In' => Only(out', A) \o Read(stop') = Read(1)
              /\ In' /\ special' # None =>
                   /\ stop' <= n
                   /\ Here(input.text, A, stop') # {}
                   /\ LongestHere(input.text, A, stop') = special'
              /\ stage' = "done" => Only(out', A) = Read(1)
<1>5. out' \in Seq(Tokens) /\ parts' \in Seq(Symbols \ A) /\ MarkedNext => Seen'
  BY <1>4 DEF Seen
<1>6. CASE Find
  <2>1. /\ stage' = "split" /\ stage = "find" /\ out' = out /\ parts' = parts
    BY <1>6 DEF Find
  <2>2. \/ /\ stop' = n + 1 /\ special' = None
           /\ \A i \in cursor..n : \A s \in A : ~OccursAt(s, input.text, i)
        \/ /\ special' \in A /\ stop' \in cursor..n
           /\ OccursAt(special', input.text, stop')
           /\ \A i \in cursor..n : \A s \in A : OccursAt(s, input.text, i) =>
                stop' < i \/ (stop' = i /\ Len(special') >= Len(s))
    BY <1>1, <1>6, FindIs
  <2>3. /\ stop' \in cursor..(n + 1)
        /\ \A i \in cursor..(stop' - 1) : \A s \in A : ~OccursAt(s, input.text, i)
    <3>1. CASE /\ stop' = n + 1 /\ special' = None
               /\ \A i \in cursor..n : \A s \in A : ~OccursAt(s, input.text, i)
      BY <1>1, <3>1
    <3>2. CASE /\ special' \in A /\ stop' \in cursor..n
               /\ OccursAt(special', input.text, stop')
               /\ \A i \in cursor..n : \A s \in A : OccursAt(s, input.text, i) =>
                    stop' < i \/ (stop' = i /\ Len(special') >= Len(s))
      <4>1. \A i \in cursor..(stop' - 1) : i \in cursor..n /\ ~(stop' < i) /\ stop' # i
        <5>. DEFINE b == stop'
        <5>1. b \in cursor..n /\ cursor \in 1..(n + 1) /\ n \in Nat
          BY <1>1, <3>2
        <5>. HIDE DEF b, n
        <5>2. \A i \in cursor..(b - 1) : i \in cursor..n /\ ~(b < i) /\ b # i
          BY <5>1
        <5>. QED
          BY <5>2 DEF b
      <4>2. stop' \in cursor..(n + 1)
        BY <1>1, <3>2
      <4>. QED
        BY <3>2, <4>1, <4>2
    <3>. QED
      BY <2>2, <3>1, <3>2
  <2>4. Read(cursor) = Read(stop')
    <3>. DEFINE b == stop'
    <3>1. /\ b \in cursor..(Len(input.text) + 1)
          /\ \A i \in cursor..(b - 1) : \A s \in A : ~OccursAt(s, input.text, i)
      BY <2>3
    <3>. DEFINE t == input.text
                S == A
    <3>2. /\ t \in Seq(Characters) /\ S \in SUBSET Seq(Characters) /\ <<>> \notin S
          /\ cursor \in 1..(Len(t) + 1)
      BY <1>1, <1>2
    <3>. HIDE DEF b, t, S
    <3>3. b \in cursor..(Len(t) + 1) /\ \A i \in cursor..(b - 1) : \A s \in S : ~OccursAt(s, t, i)
      BY <3>1 DEF t, S
    <3>4. MarksFrom(t, S)[cursor] = MarksFrom(t, S)[b]
      BY <3>2, <3>3, MarksSkip
    <3>. QED
      BY <3>4 DEF Read, b, t, S
  <2>5. special' # None =>
          /\ stop' <= n
          /\ Here(input.text, A, stop') # {}
          /\ LongestHere(input.text, A, stop') = special'
    <3>. SUFFICES ASSUME special' # None
                  PROVE  /\ stop' <= n
                         /\ Here(input.text, A, stop') # {}
                         /\ LongestHere(input.text, A, stop') = special'
      OBVIOUS
    <3>. DEFINE b == stop'
                l == special'
    <3>1. /\ l \in A /\ b \in cursor..n /\ OccursAt(l, input.text, b)
          /\ \A s \in A : OccursAt(s, input.text, b) =>
               b < b \/ (b = b /\ Len(l) >= Len(s))
      BY <2>2
    <3>2. b \in 1..Len(input.text) /\ b <= n /\ ~(b < b)
      BY <1>1, <3>1
    <3>3. \A s \in A : OccursAt(s, input.text, b) => Len(s) <= Len(l)
      <4>1. \A s \in A : Len(s) \in Nat
        BY <1>2, LenProperties
      <4>. HIDE DEF b, l
      <4>. QED
        BY <3>1, <3>2, <4>1
    <3>. HIDE DEF b, l
    <3>4. Here(input.text, A, b) # {} /\ LongestHere(input.text, A, b) = l
      BY <1>2, <3>1, <3>2, <3>3, LongestUnique
    <3>. QED
      BY <3>2, <3>4 DEF b, l
  <2>. QED
    BY <1>3, <1>5, <2>1, <2>4, <2>5
<1>7. CASE Finish
  <2>1. stage = "find" /\ cursor = n + 1
    BY <1>1, <1>7 DEF Finish
  <2>2. Read(cursor) = <<>> /\ Only(out, A) \in Seq(Tokens)
    BY <1>1, <1>3, <2>1, ReadIs, OnlyType
  <2>3. Only(out, A) = Read(1)
    BY <1>3, <2>1, <2>2, ConcatEmptySeq
  <2>. QED
    BY <1>3, <1>5, <1>7, <2>3 DEF Finish
<1>8. CASE Cut
  <2>1. /\ stage = "split" /\ stage' = "merge" /\ out' = out /\ stop' = stop /\ special' = special
    BY <1>8 DEF Cut
  <2>2. parts' \in Seq(Symbols \ A)
    <3>1. NextPiece \in 1..(stop - at)
      <4>1. at \in cursor..(stop - 1)
        BY <1>1, <1>8, <2>1 DEF Cut
      <4>. QED
        BY <1>1, <4>1, NextPieceIs
    <3>. DEFINE text == SubSeq(input.text, at, at + NextPiece - 1)
                visible == VisibleText(text)
    <3>2. text \in Seq(Characters)
      <4>1. \A k \in at..(at + NextPiece - 1) : k \in 1..n
        BY <1>1, <2>1, <3>1
      <4>2. at \in Int /\ at + NextPiece - 1 \in Int
        BY <1>1, <3>1
      <4>. QED
        BY <1>2, <4>1, <4>2, SubSeqProperties, ElementOfSeq
    <3>3. parts' = [k \in DOMAIN visible |-> <<visible[k]>>]
      BY <1>8 DEF Cut
    <3>. HIDE DEF text
    <3>4. /\ [k \in DOMAIN visible |-> <<visible[k]>>] \in Seq(Symbols)
          /\ \A j \in DOMAIN [k \in DOMAIN visible |-> <<visible[k]>>] :
               [k \in DOMAIN visible |-> <<visible[k]>>][j] \in {<<v>> : v \in Alphabet}
      BY <3>2, CutParts
    <3>5. /\ parts' \in Seq(Symbols)
          /\ \A j \in DOMAIN parts' : parts'[j] \in {<<v>> : v \in Alphabet}
      BY <3>3, <3>4, Zenon
    <3>6. \A z \in {<<v>> : v \in Alphabet} : z \notin A
      BY <1>1 DEF SpecialsApart
    <3>7. \A j \in DOMAIN parts' : parts'[j] \notin A
      BY <3>5, <3>6
    <3>8. \A j \in 1..Len(parts') : parts'[j] \in Symbols \ A
      BY <3>5, <3>7, ElementOfSeq, LenProperties
    <3>. DEFINE p == parts'
    <3>9. p \in Seq(Symbols) /\ \A j \in 1..Len(p) : p[j] \in Symbols \ A
      BY <3>5, <3>8
    <3>. HIDE DEF p
    <3>10. p \in Seq(Symbols \ A)
      BY <3>9, LenProperties
    <3>. QED
      BY <3>10 DEF p
  <2>. QED
    BY <1>3, <1>5, <2>1, <2>2
<1>9. CASE Merge
  <2>. DEFINE i == LowestPair(Applicable).place
              r == LowestPair(Applicable).rank
  <2>1. parts \in Seq(Symbols) /\ Applicable # {}
    BY <1>9 DEF Typed, Merge
  <2>2. /\ i \in 1..(Len(parts) - 1) /\ r \in DOMAIN input.merges
        /\ input.merges[r] = <<parts[i], parts[i + 1]>>
    BY <1>1, <2>1, ApplicableIs
  <2>3. parts' = Joined(i) /\ parts' \in Seq(Symbols)
    BY <1>9, MergeTyped
  <2>. HIDE DEF i, r
  <2>4. input.merges[r][1] \o input.merges[r][2] = parts[i] \o parts[i + 1]
    <3>. DEFINE e == input.merges[r]
                x == parts[i]
                y == parts[i + 1]
    <3>1. e = <<x, y>>
      BY <2>2
    <3>. HIDE DEF e, x, y
    <3>2. e[1] = x /\ e[2] = y
      BY <3>1
    <3>. QED
      BY <3>2 DEF e, x, y
  <2>5. parts[i] \o parts[i + 1] \notin A
    BY <1>1, <2>2, <2>4 DEF SpecialsApart
  <2>6. parts[i] \o parts[i + 1] \in Symbols
    <3>1. parts[i] \in Symbols /\ parts[i + 1] \in Symbols
      BY <2>1, <2>2, ElementOfSeq, LenProperties
    <3>. QED
      BY <3>1, SymbolsJoin
  <2>7. Symbols \ A \subseteq Seq(Alphabet)
    BY DEF Symbols
  <2>8. Joined(i) \in Seq(Symbols \ A)
    BY <1>3, <2>2, <2>5, <2>6, <2>7, JoinedIn
  <2>. QED
    BY <1>3, <1>5, <1>9, <2>3, <2>8 DEF Merge
<1>10. CASE Emit
  <2>0. stage = "merge" /\ parts' = parts /\ stop' = stop /\ special' = special
    BY <1>10 DEF Emit
  <2>1. CASE stage' = "failed" /\ out' = out
    BY <1>3, <1>5, <2>0, <2>1
  <2>. DEFINE M == (Symbols \ A) \cup {input.unk}
              m == [k \in DOMAIN parts |->
                      IF parts[k] \in input.tokens THEN parts[k] ELSE input.unk]
  <2>2. CASE stage' = "split" /\ out' = out \o m
    <3>1. m \in Seq(M)
      <4>1. \A k \in 1..Len(parts) : parts[k] \in M
        BY <1>3, ElementOfSeq
      <4>2. DOMAIN parts = 1..Len(parts) /\ Len(parts) \in Nat
        BY <1>3, LenProperties
      <4>3. m \in [1..Len(parts) -> M]
        BY <4>1, <4>2
      <4>. QED
        BY <4>2, <4>3
    <3>2. M \cap A = {}
      BY <1>1 DEF SpecialsApart
    <3>3. M \subseteq Tokens
      <4>1. Seq(Alphabet) \subseteq Seq(Alphabet \cup Characters)
        OBVIOUS
      <4>. QED
        BY <4>1 DEF Tokens, Symbols
    <3>. HIDE DEF M, m
    <3>4. Only(m, A) = <<>>
      BY <3>1, <3>2, OnlyNone
    <3>5. m \in Seq(Tokens)
      BY <3>1, <3>3
    <3>6. Only(out \o m, A) = Only(out, A) \o Only(m, A) /\ out \o m \in Seq(Tokens)
      BY <1>3, <3>5, OnlyConcat, ConcatProperties
    <3>7. Only(out, A) \in Seq(Tokens)
      BY <1>3, OnlyType
    <3>8. Only(out', A) = Only(out, A)
      BY <2>2, <3>4, <3>6, <3>7, ConcatEmptySeq
    <3>. QED
      BY <1>3, <1>5, <2>0, <2>2, <3>6, <3>8
  <2>. QED
    BY <1>10, <2>1, <2>2 DEF Emit
<1>11. CASE RunEnds
  <2>0. stage = "split" /\ at = stop /\ parts' = parts
    BY <1>11 DEF RunEnds
  <2>1. CASE special = None
    <3>1. stage' = "done" /\ out' = out
      BY <1>11, <2>1 DEF RunEnds
    <3>2. stop = n + 1
      BY <2>0, <2>1 DEF RunsOn
    <3>3. Read(stop) = <<>> /\ Only(out, A) \in Seq(Tokens)
      BY <1>1, <1>3, <3>2, ReadIs, OnlyType
    <3>4. Only(out, A) = Read(1)
      BY <1>3, <2>0, <3>3, ConcatEmptySeq
    <3>. QED
      BY <1>3, <1>5, <2>0, <3>1, <3>4
  <2>2. CASE special # None
    <3>1. out' = Append(out, special) /\ cursor' = stop + Len(special) /\ stage' = "find"
      BY <1>11, <2>2 DEF RunEnds
    <3>2. special \in A /\ special \in Tokens
      BY <1>1, <1>2, <2>2 DEF Tokens
    <3>3. /\ stop \in 1..n /\ Here(input.text, A, stop) # {}
          /\ LongestHere(input.text, A, stop) = special
      BY <1>1, <1>3, <2>0, <2>2
    <3>4. Read(stop) = <<special>> \o Read(stop + Len(special))
      BY <1>1, <3>3, ReadIs
    <3>5. Read(stop + Len(special)) \in Seq(Tokens)
      <4>1. stop + Len(special) <= n + 1 /\ Len(special) \in Nat
        BY <1>1, <2>0, <2>2, <3>2, InputIs
      <4>2. stop + Len(special) \in 1..(Len(input.text) + 1)
        BY <1>1, <4>1
      <4>. QED
        BY <1>1, <4>2, ReadIs
    <3>6. Only(Append(out, special), A) = Only(out, A) \o (IF special \in A THEN <<special>> ELSE <<>>)
      BY <1>3, <3>2, OnlyAppend
    <3>7. Only(out', A) = Only(out, A) \o <<special>>
      BY <3>1, <3>2, <3>6
    <3>8. Only(out, A) \in Seq(Tokens) /\ <<special>> \in Seq(Tokens)
      <4>1. \A S : \A z \in S : <<z>> \in Seq(S)
        OBVIOUS
      <4>. QED
        BY <1>3, <3>2, <4>1, OnlyType
    <3>9. (Only(out, A) \o <<special>>) \o Read(stop + Len(special))
            = Only(out, A) \o (<<special>> \o Read(stop + Len(special)))
      BY <3>5, <3>8, ConcatAssociative
    <3>10. Only(out', A) \o Read(cursor') = Read(1)
      BY <1>3, <2>0, <3>1, <3>4, <3>7, <3>9
    <3>11. out' \in Seq(Tokens)
      BY <1>3, <3>1, <3>2, AppendProperties
    <3>. QED
      BY <1>3, <1>5, <2>0, <3>1, <3>10, <3>11
  <2>. QED
    BY <2>1, <2>2
<1>12. CASE UNCHANGED vars
  BY <1>3, <1>5, <1>12 DEF vars
<1>. QED
  BY <1>6, <1>7, <1>8, <1>9, <1>10, <1>11, <1>12 DEF Next

(* The tokens hold exactly the special tokens that a reader from the       *)
(* left sees (the loop of encode that looks for the earliest, and of       *)
(* those the longest), for every input whose special tokens are apart      *)
(* from what bytes and merges give.                                        *)
THEOREM SpecialsWholeHolds == Spec => [](SpecialsApart(input) => SpecialsWhole)
<1>. DEFINE Inv == Typed /\ RunsOn /\ (SpecialsApart(input) => Seen)
<1>1. Inv => (SpecialsApart(input) => SpecialsWhole)
  BY MarksIs DEF Seen, SpecialsWhole, Read
<1>2. Init => Inv
  BY InitTyped, InitKept, InitSeen
<1>3. Inv /\ [Next]_vars => Inv'
  BY SameInput, NextTyped, NextRunsOn, NextSeen
<1>. QED
  BY <1>1, <1>2, <1>3, PTL DEF Spec

(* The next piece is what the pattern takes of the rest of the run.        *)
LEMMA NextPieceByPattern ==
  ASSUME input \in Inputs, cursor \in 1..(Len(input.text) + 1),
         stop \in 1..(Len(input.text) + 1), at \in cursor..(stop - 1)
  PROVE  NextPiece = ByPattern(SubSeq(input.text, cursor, stop - 1), at - cursor + 1,
                               input.pattern)
<1>. DEFINE run == SubSeq(input.text, cursor, stop - 1)
            i == at - cursor + 1
<1>0. input.text \in Seq(Characters) /\ Len(input.text) \in Nat /\ input.pattern \in Patterns
  BY InputIs
<1>1. run \in Seq(Characters) /\ Len(run) = stop - cursor
  BY <1>0
<1>. HIDE DEF run
<1>2. i \in 1..Len(run)
  BY <1>0, <1>1
<1>. HIDE DEF i
<1>3. piece(run, i, input.pattern) = ByPattern(run, i, input.pattern)
  BY <1>0, <1>1, <1>2, PieceByPattern
<1>. QED
  BY <1>3, Zenon DEF NextPiece, run, i

(* Every step keeps CutByPattern: Cut makes it true, Merge moves neither   *)
(* end of the piece.                                                       *)
LEMMA NextCut ==
  ASSUME Typed, CutByPattern, [Next]_vars
  PROVE  CutByPattern'
<1>1. CASE Cut
  <2>1. /\ input' = input /\ cursor' = cursor /\ stop' = stop /\ stage = "split" /\ at < stop
        /\ at' = at + NextPiece /\ cut' = at
    BY <1>1 DEF Cut
  <2>2. /\ input \in Inputs /\ cursor \in 1..(Len(input.text) + 1)
        /\ stop \in 1..(Len(input.text) + 1) /\ at \in cursor..(stop - 1)
    <3>1. input \in Inputs /\ Len(input.text) \in Nat
      BY InputIs DEF Typed
    <3>. QED
      BY <2>1, <3>1 DEF Typed, TypeOK
  <2>3. NextPiece \in Nat /\ at \in Int
    BY <2>2, NextPieceIs
  <2>4. at' - cut' = NextPiece
    BY <2>1, <2>3
  <2>5. NextPiece = ByPattern(SubSeq(input.text, cursor, stop - 1), at - cursor + 1,
                              input.pattern)
    BY <2>2, NextPieceByPattern
  <2>. QED
    BY <2>1, <2>4, <2>5, Zenon DEF CutByPattern
<1>2. CASE Merge
  BY <1>2, Zenon DEF Merge, CutByPattern
<1>3. CASE Find
  BY <1>3 DEF Find, CutByPattern
<1>4. CASE Finish
  BY <1>4 DEF Finish, CutByPattern
<1>5. CASE Emit
  BY <1>5 DEF Emit, CutByPattern
<1>6. CASE RunEnds
  BY <1>6 DEF RunEnds, CutByPattern
<1>7. CASE UNCHANGED vars
  BY <1>7, Zenon DEF vars, CutByPattern
<1>. QED
  BY <1>1, <1>2, <1>3, <1>4, <1>5, <1>6, <1>7 DEF Next

(* Each piece is what the upstream pattern takes there, matched greedily   *)
(* and with backtracking (`piece`, which does it without), for every       *)
(* text under every pattern.                                               *)
THEOREM CutByPatternHolds == Spec => []CutByPattern
<1>1. Init => Typed /\ CutByPattern
  <2>1. Init => CutByPattern
    BY DEF Init, CutByPattern
  <2>. QED
    BY <2>1, InitTyped
<1>2. (Typed /\ CutByPattern) /\ [Next]_vars => (Typed /\ CutByPattern)'
  BY NextTyped, NextCut
<1>. QED
  BY <1>1, <1>2, PTL DEF Spec

(* AppliedAll as a function of how many of the symbols are taken.          *)
AppliedOf(merge, symbols) ==
  CHOOSE f : f = [k \in 0..Len(symbols) |->
                    IF k = 0 THEN <<>> ELSE AppliedTo(merge, f[k - 1], symbols[k])]

(* AppliedOf unfolded.                                                     *)
LEMMA AppliedOfIs ==
  ASSUME NEW merge, NEW symbols, Len(symbols) \in Nat
  PROVE  /\ AppliedAll(merge, symbols) = AppliedOf(merge, symbols)[Len(symbols)]
         /\ AppliedOf(merge, symbols)[0] = <<>>
         /\ AppliedOf(merge, symbols)
              = [k \in 0..Len(symbols) |->
                   IF k = 0 THEN <<>>
                   ELSE AppliedTo(merge, AppliedOf(merge, symbols)[k - 1], symbols[k])]
<1>. DEFINE Is(f, n) == f = [k \in 0..n |->
                               IF k = 0 THEN <<>> ELSE AppliedTo(merge, f[k - 1], symbols[k])]
            N == {n \in Nat : \E f : Is(f, n)}
<1>1. 0 \in N
  <2>. DEFINE f == [k \in 0..0 |-> <<>>]
  <2>1. Is(f, 0)
    OBVIOUS
  <2>. QED
    BY <2>1
<1>2. ASSUME NEW m \in Nat, m \in N
      PROVE  m + 1 \in N
  <2>. PICK f : Is(f, m)
    BY <1>2
  <2>. DEFINE g == [k \in 0..(m + 1) |-> IF k = m + 1 THEN AppliedTo(merge, f[m], symbols[k])
                                         ELSE f[k]]
  <2>0. m + 1 # 0 /\ (m + 1) - 1 = m /\ \A k \in 0..m : k \in 0..(m + 1) /\ k # m + 1
    OBVIOUS
  <2>1. ASSUME NEW k \in 0..(m + 1)
        PROVE  g[k] = IF k = 0 THEN <<>> ELSE AppliedTo(merge, g[k - 1], symbols[k])
    <3>1. CASE k = m + 1
      <4>1. g[k] = AppliedTo(merge, f[m], symbols[k]) /\ g[m] = f[m]
        BY <3>1
      <4>. QED
        BY <2>0, <3>1, <4>1
    <3>2. CASE k # m + 1
      <4>1. k \in 0..m /\ (k # 0 => k - 1 \in 0..m)
        BY <3>2
      <4>2. f[k] = IF k = 0 THEN <<>> ELSE AppliedTo(merge, f[k - 1], symbols[k])
        BY <4>1
      <4>3. g[k] = f[k] /\ (k # 0 => g[k - 1] = f[k - 1])
        BY <2>0, <4>1
      <4>. QED
        BY <4>2, <4>3
    <3>. QED
      BY <3>1, <3>2
  <2>2. Is(g, m + 1)
    BY <2>1
  <2>. HIDE DEF g
  <2>3. \E h : Is(h, m + 1)
    BY <2>2, Zenon
  <2>. HIDE DEF Is
  <2>. QED
    BY <2>3
<1>3. Nat \subseteq N
  <2>. HIDE DEF N
  <2>. QED
    BY <1>1, <1>2, Induct
<1>4. \E f : Is(f, Len(symbols))
  BY <1>3
<1>5. AppliedOf(merge, symbols)
        = [k \in 0..Len(symbols) |->
             IF k = 0 THEN <<>>
             ELSE AppliedTo(merge, AppliedOf(merge, symbols)[k - 1], symbols[k])]
  BY <1>4, Zenon DEF AppliedOf
<1>6. AppliedAll(merge, symbols) = AppliedOf(merge, symbols)[Len(symbols)]
  BY DEF AppliedAll, AppliedOf
<1>. DEFINE F == AppliedOf(merge, symbols)
<1>7. Is(F, Len(symbols))
  BY <1>5
<1>. HIDE DEF F
<1>8. F[0] = <<>>
  BY <1>7
<1>. QED
  BY <1>5, <1>6, <1>8 DEF F

(* Replayed as a function of how many of the merges are applied.           *)
ReplayedOf(merges, symbols) ==
  CHOOSE f : f = [k \in 0..Len(merges) |->
                    IF k = 0 THEN symbols ELSE AppliedAll(merges[k], f[k - 1])]

(* ReplayedOf unfolded.                                                    *)
LEMMA ReplayedOfIs ==
  ASSUME NEW merges, NEW symbols, Len(merges) \in Nat
  PROVE  /\ Replayed(merges, symbols) = ReplayedOf(merges, symbols)[Len(merges)]
         /\ ReplayedOf(merges, symbols)[0] = symbols
         /\ \A k \in 1..Len(merges) :
              ReplayedOf(merges, symbols)[k]
                = AppliedAll(merges[k], ReplayedOf(merges, symbols)[k - 1])
<1>. DEFINE Is(f, n) == f = [k \in 0..n |->
                               IF k = 0 THEN symbols ELSE AppliedAll(merges[k], f[k - 1])]
            N == {n \in Nat : \E f : Is(f, n)}
<1>1. 0 \in N
  <2>. DEFINE f == [k \in 0..0 |-> symbols]
  <2>1. Is(f, 0)
    OBVIOUS
  <2>. QED
    BY <2>1
<1>2. ASSUME NEW m \in Nat, m \in N
      PROVE  m + 1 \in N
  <2>. PICK f : Is(f, m)
    BY <1>2
  <2>. DEFINE g == [k \in 0..(m + 1) |-> IF k = m + 1 THEN AppliedAll(merges[k], f[m])
                                         ELSE f[k]]
  <2>0. m + 1 # 0 /\ (m + 1) - 1 = m /\ \A k \in 0..m : k \in 0..(m + 1) /\ k # m + 1
    OBVIOUS
  <2>1. ASSUME NEW k \in 0..(m + 1)
        PROVE  g[k] = IF k = 0 THEN symbols ELSE AppliedAll(merges[k], g[k - 1])
    <3>1. CASE k = m + 1
      <4>1. g[k] = AppliedAll(merges[k], f[m]) /\ g[m] = f[m]
        BY <3>1
      <4>. QED
        BY <2>0, <3>1, <4>1
    <3>2. CASE k # m + 1
      <4>1. k \in 0..m /\ (k # 0 => k - 1 \in 0..m)
        BY <3>2
      <4>2. f[k] = IF k = 0 THEN symbols ELSE AppliedAll(merges[k], f[k - 1])
        BY <4>1
      <4>3. g[k] = f[k] /\ (k # 0 => g[k - 1] = f[k - 1])
        BY <2>0, <4>1
      <4>. QED
        BY <4>2, <4>3
    <3>. QED
      BY <3>1, <3>2
  <2>2. Is(g, m + 1)
    BY <2>1
  <2>. HIDE DEF g
  <2>3. \E h : Is(h, m + 1)
    BY <2>2, Zenon
  <2>. HIDE DEF Is
  <2>. QED
    BY <2>3
<1>3. Nat \subseteq N
  <2>. HIDE DEF N
  <2>. QED
    BY <1>1, <1>2, Induct
<1>4. \E f : Is(f, Len(merges))
  BY <1>3
<1>. DEFINE F == ReplayedOf(merges, symbols)
<1>5. Is(F, Len(merges))
  BY <1>4, Zenon DEF ReplayedOf
<1>6. Replayed(merges, symbols) = F[Len(merges)]
  BY DEF Replayed, ReplayedOf
<1>. HIDE DEF F
<1>7. F[0] = symbols /\ \A k \in 1..Len(merges) : F[k] = AppliedAll(merges[k], F[k - 1])
  BY <1>5
<1>. QED
  BY <1>6, <1>7 DEF F

(* A merge applied to one symbol more.                                     *)
LEMMA AppliedAppend ==
  ASSUME NEW S, NEW merge, NEW symbols \in Seq(S), NEW x \in S
  PROVE  AppliedAll(merge, Append(symbols, x)) = AppliedTo(merge, AppliedAll(merge, symbols), x)
<1>. DEFINE more == Append(symbols, x)
            n == Len(symbols)
            f == AppliedOf(merge, symbols)
            g == AppliedOf(merge, more)
<1>1. /\ n \in Nat /\ Len(more) = n + 1
      /\ more[n + 1] = x /\ \A i \in 1..n : more[i] = symbols[i]
  BY AppendProperties
<1>2. /\ AppliedAll(merge, symbols) = f[n]
      /\ f = [k \in 0..n |-> IF k = 0 THEN <<>> ELSE AppliedTo(merge, f[k - 1], symbols[k])]
  BY <1>1, AppliedOfIs DEF n
<1>3. /\ AppliedAll(merge, more) = g[n + 1]
      /\ g = [k \in 0..(n + 1) |-> IF k = 0 THEN <<>> ELSE AppliedTo(merge, g[k - 1], more[k])]
  <2>1. Len(more) \in Nat
    BY <1>1
  <2>. HIDE DEF more
  <2>2. /\ AppliedAll(merge, more) = g[Len(more)]
        /\ g = [k \in 0..Len(more) |-> IF k = 0 THEN <<>> ELSE AppliedTo(merge, g[k - 1], more[k])]
    BY <2>1, AppliedOfIs DEF g
  <2>. HIDE DEF g
  <2>. QED
    BY <1>1, <2>2
<1>. HIDE DEF f, g, more, n
<1>4. f[0] = <<>> /\ \A k \in 1..n : f[k] = AppliedTo(merge, f[k - 1], symbols[k])
  <2>1. \A k \in 0..n : f[k] = IF k = 0 THEN <<>> ELSE AppliedTo(merge, f[k - 1], symbols[k])
    BY <1>2
  <2>. QED
    BY <1>1, <2>1
<1>5. g[0] = <<>> /\ \A k \in 1..(n + 1) : g[k] = AppliedTo(merge, g[k - 1], more[k])
  <2>1. \A k \in 0..(n + 1) : g[k] = IF k = 0 THEN <<>> ELSE AppliedTo(merge, g[k - 1], more[k])
    BY <1>3
  <2>. QED
    BY <1>1, <2>1
<1>. DEFINE N == {k \in Nat : k <= n => g[k] = f[k]}
<1>6. 0 \in N
  BY <1>4, <1>5
<1>7. ASSUME NEW k \in Nat, k \in N
      PROVE  k + 1 \in N
  <2>. SUFFICES ASSUME k + 1 <= n
                PROVE  g[k + 1] = f[k + 1]
    OBVIOUS
  <2>1. k + 1 \in 1..n /\ k + 1 \in 1..(n + 1) /\ (k + 1) - 1 = k /\ k <= n
    BY <1>1
  <2>2. g[k] = f[k]
    BY <1>7, <2>1
  <2>3. g[k + 1] = AppliedTo(merge, g[k], more[k + 1]) /\ f[k + 1] = AppliedTo(merge, f[k], symbols[k + 1])
    BY <1>4, <1>5, <2>1
  <2>. QED
    BY <1>1, <2>1, <2>2, <2>3
<1>8. Nat \subseteq N
  <2>. HIDE DEF N
  <2>. QED
    BY <1>6, <1>7, Induct
<1>9. g[n] = f[n]
  BY <1>1, <1>8
<1>10. g[n + 1] = AppliedTo(merge, g[n], x)
  <2>1. n + 1 \in 1..(n + 1) /\ (n + 1) - 1 = n
    BY <1>1
  <2>2. g[n + 1] = AppliedTo(merge, g[(n + 1) - 1], more[n + 1])
    BY <1>5, <2>1
  <2>. QED
    BY <1>1, <2>1, <2>2
<1>. QED
  BY <1>2, <1>3, <1>9, <1>10 DEF more

(* A merge applied to nothing.                                             *)
LEMMA AppliedEmpty ==
  ASSUME NEW merge
  PROVE  AppliedAll(merge, <<>>) = <<>>
<1>1. \A s : Len(s) \in Nat => /\ AppliedAll(merge, s) = AppliedOf(merge, s)[Len(s)]
                               /\ AppliedOf(merge, s)[0] = <<>>
  BY AppliedOfIs
<1>2. Len(<<>>) = 0
  OBVIOUS
<1>. QED
  BY <1>1, <1>2

(* Where a merge gives the same for two beginnings, it gives the same for  *)
(* any end behind them.                                                    *)
LEMMA AppliedGoesOn ==
  ASSUME NEW S, NEW merge, NEW u \in Seq(S), NEW v \in Seq(S),
         AppliedAll(merge, u) = AppliedAll(merge, v)
  PROVE  \A w \in Seq(S) : AppliedAll(merge, u \o w) = AppliedAll(merge, v \o w)
<1>. DEFINE T == {w \in Seq(S) : AppliedAll(merge, u \o w) = AppliedAll(merge, v \o w)}
<1>1. <<>> \in T
  <2>1. u \o <<>> = u /\ v \o <<>> = v
    BY ConcatEmptySeq
  <2>. QED
    BY <2>1, EmptySeq
<1>2. ASSUME NEW w \in Seq(S), NEW x \in S, w \in T
      PROVE  Append(w, x) \in T
  <2>1. /\ u \o w \in Seq(S) /\ v \o w \in Seq(S) /\ Append(w, x) \in Seq(S)
        /\ u \o Append(w, x) = Append(u \o w, x) /\ v \o Append(w, x) = Append(v \o w, x)
    OBVIOUS
  <2>2. \A s \in Seq(S) :
          AppliedAll(merge, Append(s, x)) = AppliedTo(merge, AppliedAll(merge, s), x)
    BY AppliedAppend
  <2>3. AppliedAll(merge, u \o w) = AppliedAll(merge, v \o w)
    BY <1>2
  <2>4. AppliedAll(merge, u \o Append(w, x)) = AppliedAll(merge, v \o Append(w, x))
    BY <2>1, <2>2, <2>3, Zenon
  <2>. QED
    BY <2>1, <2>4
<1>3. Seq(S) \subseteq T
  <2>. HIDE DEF T
  <2>. QED
    BY <1>1, <1>2, SeqInduct
<1>. QED
  BY <1>3

(* No two neighbours are the merge's.                                      *)
Unmerged(merge, s) == \A i \in 1..(Len(s) - 1) : <<s[i], s[i + 1]>> # merge

(* A merge that applies nowhere changes nothing.                           *)
LEMMA AppliedNowhere ==
  ASSUME NEW S, NEW merge
  PROVE  \A s \in Seq(S) : Unmerged(merge, s) => AppliedAll(merge, s) = s
<1>. DEFINE T == {s \in Seq(S) : Unmerged(merge, s) => AppliedAll(merge, s) = s}
<1>1. <<>> \in T
  <2>1. Len(<<>>) = 0
    OBVIOUS
  <2>2. AppliedAll(merge, <<>>) = <<>>
    BY <2>1, AppliedEmpty
  <2>. QED
    BY <2>2, EmptySeq
<1>2. ASSUME NEW s \in Seq(S), NEW x \in S, s \in T
      PROVE  Append(s, x) \in T
  <2>. DEFINE n == Len(s)
              t == Append(s, x)
  <2>1. /\ n \in Nat /\ t \in Seq(S) /\ Len(t) = n + 1
        /\ t[n + 1] = x /\ \A i \in 1..n : t[i] = s[i]
    BY AppendProperties
  <2>. HIDE DEF t
  <2>. SUFFICES ASSUME Unmerged(merge, t)
                PROVE  AppliedAll(merge, t) = t
    BY <2>1 DEF t
  <2>. HIDE DEF n
  <2>2. Unmerged(merge, s)
    <3>1. SUFFICES ASSUME NEW i \in 1..(n - 1)
                   PROVE  <<s[i], s[i + 1]>> # merge
      BY DEF Unmerged, n
    <3>2. i \in 1..(Len(t) - 1) /\ i \in 1..n /\ i + 1 \in 1..n
      BY <2>1
    <3>. QED
      BY <2>1, <3>2 DEF Unmerged
  <2>3. AppliedAll(merge, s) = s
    BY <1>2, <2>2
  <2>4. AppliedAll(merge, t) = AppliedTo(merge, s, x)
    BY <2>3, AppliedAppend DEF t
  <2>5. ~(s # <<>> /\ <<Last(s), x>> = merge)
    <3>1. SUFFICES ASSUME s # <<>>, <<Last(s), x>> = merge
                   PROVE  FALSE
      OBVIOUS
    <3>2. n # 0
      BY <3>1, EmptySeq DEF n
    <3>3. n \in 1..(Len(t) - 1) /\ n \in 1..n
      BY <2>1, <3>2
    <3>4. t[n] = Last(s) /\ t[n + 1] = x
      BY <2>1, <3>3 DEF Last, n
    <3>. QED
      BY <3>1, <3>3, <3>4 DEF Unmerged
  <2>. QED
    BY <2>4, <2>5, Zenon DEF AppliedTo, t
<1>3. Seq(S) \subseteq T
  <2>. HIDE DEF T
  <2>. QED
    BY <1>1, <1>2, SeqInduct
<1>. QED
  BY <1>3

(* A symbol joined with another is not the other.                          *)
LEMMA JoinedLonger ==
  ASSUME NEW A, NEW a \in Seq(A), NEW b \in Seq(A)
  PROVE  /\ a # <<>> => a \o b # b
         /\ a # <<>> /\ b # <<>> => Len(a \o b) > 1
<1>1. Len(a) \in Nat /\ Len(b) \in Nat /\ Len(a \o b) = Len(a) + Len(b)
  BY LenProperties, ConcatProperties
<1>2. (a # <<>> => Len(a) # 0) /\ (b # <<>> => Len(b) # 0)
  BY EmptySeq
<1>. QED
  BY <1>1, <1>2

(* p and q differ in one place, where p has the pair m and q what m makes  *)
(* of it, and m is nowhere in p before that.                               *)
Alike(m, a, b, c, before, after, p, q) ==
  /\ m = <<a, b>> /\ c = a \o b
  /\ p = (before \o <<a, b>>) \o after /\ q = (before \o <<c>>) \o after
  /\ Unmerged(m, Append(before, a))

(* Whether or not a pair was merged before, where it comes first: merging  *)
(* it everywhere gives the same.                                           *)
LEMMA AppliedJoined ==
  ASSUME NEW a \in Symbols, NEW b \in Symbols, NEW c \in Symbols,
         NEW before \in Seq(Symbols), NEW after \in Seq(Symbols), NEW m, NEW p, NEW q,
         Alike(m, a, b, c, before, after, p, q)
  PROVE  AppliedAll(m, p) = AppliedAll(m, q)
<1>. DEFINE u == Append(before, a)
<1>0. /\ m = <<a, b>> /\ c = a \o b /\ u = Append(before, a)
      /\ p = (before \o <<a, b>>) \o after /\ q = (before \o <<c>>) \o after
      /\ Unmerged(m, u)
  BY DEF Alike
<1>1. /\ u \in Seq(Symbols) /\ Len(u) = Len(before) + 1 /\ Len(before) \in Nat
      /\ u[Len(before) + 1] = a /\ \A i \in 1..Len(before) : u[i] = before[i]
  BY AppendProperties
<1>. HIDE DEF u
<1>2. m[1] = a /\ m[2] = b
  BY <1>0
<1>3. c # b
  <2>1. a \in Seq(Alphabet) /\ b \in Seq(Alphabet) /\ a # <<>>
    BY DEF Symbols
  <2>. QED
    BY <1>0, <2>1, JoinedLonger
<1>4. AppliedAll(m, u) = u
  BY <1>0, <1>1, AppliedNowhere
<1>5. AppliedAll(m, before) = before
  <2>1. Unmerged(m, before)
    <3>1. SUFFICES ASSUME NEW i \in 1..(Len(before) - 1)
                   PROVE  <<before[i], before[i + 1]>> # m
      BY DEF Unmerged
    <3>2. i \in 1..(Len(u) - 1) /\ i \in 1..Len(before) /\ i + 1 \in 1..Len(before)
      BY <1>1
    <3>3. <<u[i], u[i + 1]>> # m
      BY <1>0, <3>2 DEF Unmerged
    <3>. QED
      BY <1>1, <3>2, <3>3
  <2>. QED
    BY <2>1, AppliedNowhere
<1>6. Front(u) = before /\ Last(u) = a /\ u # <<>>
  <2>1. Len(u) - 1 = Len(before) /\ Len(u) # 0 /\ Len(<<>>) = 0
    BY <1>1
  <2>2. Last(u) = a /\ u # <<>>
    BY <1>1, <2>1 DEF Last
  <2>3. SubSeq(u, 1, Len(before)) = before
    <3>1. SubSeq(u, 1, Len(before)) \in Seq(Symbols) /\ Len(SubSeq(u, 1, Len(before))) = Len(before)
          /\ \A i \in 1..Len(before) : SubSeq(u, 1, Len(before))[i] = u[i]
      <4>1. \A i \in 1..Len(u) : u[i] \in Symbols
        BY <1>1, ElementOfSeq
      <4>. QED
        BY <1>1, <4>1
    <3>. QED
      BY <1>1, <3>1, SeqEqual
  <2>. QED
    BY <2>1, <2>2, <2>3 DEF Front
<1>7. AppliedAll(m, Append(u, b)) = before \o <<c>>
  <2>3. AppliedAll(m, Append(u, b)) = AppliedTo(m, AppliedAll(m, u), b)
    <3>1. u \in Seq(Symbols) /\ b \in Symbols
      BY <1>1
    <3>. QED
      BY <3>1, AppliedAppend
  <2>1. AppliedAll(m, Append(u, b)) = AppliedTo(m, u, b)
    BY <1>4, <2>3, Zenon
  <2>2. <<Last(u), b>> = m
    BY <1>0, <1>6
  <2>. QED
    BY <1>0, <1>2, <1>6, <2>1, <2>2, Zenon DEF AppliedTo
<1>8. AppliedAll(m, Append(before, c)) = Append(before, c)
  <2>2. AppliedAll(m, Append(before, c)) = AppliedTo(m, before, c)
    BY <1>5, AppliedAppend
  <2>3. <<Last(before), c>> # m
    BY <1>0, <1>3
  <2>. QED
    BY <2>2, <2>3, Zenon DEF AppliedTo
<1>9. /\ before \o <<a, b>> = Append(u, b) /\ before \o <<c>> = Append(before, c)
      /\ Append(u, b) \in Seq(Symbols) /\ Append(before, c) \in Seq(Symbols)
  BY <1>0
<1>10. AppliedAll(m, Append(u, b) \o after) = AppliedAll(m, Append(before, c) \o after)
  <2>. DEFINE x == Append(u, b)
              y == Append(before, c)
  <2>1. x \in Seq(Symbols) /\ y \in Seq(Symbols) /\ AppliedAll(m, x) = AppliedAll(m, y)
    BY <1>7, <1>8, <1>9
  <2>. HIDE DEF x, y
  <2>2. \A w \in Seq(Symbols) : AppliedAll(m, x \o w) = AppliedAll(m, y \o w)
    BY <2>1, AppliedGoesOn
  <2>. QED
    BY <2>2 DEF x, y
<1>. QED
  BY <1>0, <1>9, <1>10, Zenon

(* Merges that apply nowhere are replayed without effect.                  *)
LEMMA ReplaysNothing ==
  ASSUME NEW S, NEW merges, Len(merges) \in Nat, NEW s \in Seq(S), NEW n \in 0..Len(merges),
         \A k \in 1..n : Unmerged(merges[k], s)
  PROVE  \A k \in 0..n : ReplayedOf(merges, s)[k] = s
<1>. DEFINE F == ReplayedOf(merges, s)
            N == {k \in Nat : k <= n => F[k] = s}
<1>1. F[0] = s /\ \A k \in 1..Len(merges) : F[k] = AppliedAll(merges[k], F[k - 1])
  BY ReplayedOfIs
<1>. HIDE DEF F
<1>2. 0 \in N
  BY <1>1
<1>3. ASSUME NEW k \in Nat, k \in N
      PROVE  k + 1 \in N
  <2>. SUFFICES ASSUME k + 1 <= n
                PROVE  F[k + 1] = s
    OBVIOUS
  <2>1. k + 1 \in 1..n /\ k + 1 \in 1..Len(merges) /\ (k + 1) - 1 = k /\ k <= n
    OBVIOUS
  <2>2. F[k + 1] = AppliedAll(merges[k + 1], s)
    BY <1>1, <1>3, <2>1
  <2>. QED
    BY <2>1, <2>2, AppliedNowhere
<1>4. Nat \subseteq N
  <2>. HIDE DEF N
  <2>. QED
    BY <1>2, <1>3, Induct
<1>. QED
  BY <1>4 DEF F

(* When no merge applies any more, none is left to replay.                 *)
LEMMA DoneReplays ==
  ASSUME input \in Inputs, parts \in Seq(Symbols), Applicable = {}
  PROVE  Replayed(input.merges, parts) = parts
<1>. DEFINE ms == input.merges
<1>1. Len(ms) \in Nat /\ DOMAIN ms = 1..Len(ms)
  BY InputIs, LenProperties
<1>2. ASSUME NEW k \in 1..Len(ms)
      PROVE  Unmerged(ms[k], parts)
  <2>1. SUFFICES ASSUME NEW j \in 1..(Len(parts) - 1), <<parts[j], parts[j + 1]>> = ms[k]
                 PROVE  FALSE
    BY DEF Unmerged
  <2>2. [place |-> j, rank |-> k] \in Applicable
    BY <1>1, <2>1 DEF Applicable, Pairs
  <2>. QED
    BY <2>2
<1>. HIDE DEF ms
<1>3. ReplayedOf(ms, parts)[Len(ms)] = parts
  <2>1. Len(ms) \in 0..Len(ms)
    BY <1>1
  <2>. QED
    BY <1>1, <1>2, <2>1, ReplaysNothing
<1>4. Replayed(ms, parts) = ReplayedOf(ms, parts)[Len(ms)]
  BY <1>1, ReplayedOfIs
<1>. QED
  BY <1>3, <1>4 DEF ms

(* The entries after a merge.                                              *)
LEMMA JoinedAt ==
  ASSUME parts \in Seq(Symbols), NEW i \in 1..(Len(parts) - 1)
  PROVE  /\ Joined(i) \in Seq(Symbols) /\ Len(Joined(i)) = Len(parts) - 1
         /\ \A j \in 1..(Len(parts) - 1) :
              /\ j < i => Joined(i)[j] = parts[j]
              /\ j = i => Joined(i)[j] = parts[i] \o parts[i + 1]
              /\ j > i => Joined(i)[j] = parts[j + 1]
<1>. DEFINE b == SubSeq(parts, 1, i - 1)
            a == SubSeq(parts, i + 2, Len(parts))
            c == parts[i] \o parts[i + 1]
<1>1. Symbols \subseteq Seq(Alphabet) /\ parts \in Seq(Seq(Alphabet)) /\ Len(parts) \in Nat
  BY LenProperties DEF Symbols
<1>2. \A j \in 1..Len(parts) : parts[j] \in Symbols
  BY ElementOfSeq
<1>3. c \in Symbols
  BY <1>1, <1>2, SymbolsJoin
<1>4. Joined(i) \in Seq(Symbols)
  BY <1>1, <1>3, JoinedIn
<1>5. Joined(i) = (b \o <<c>>) \o a
  BY <1>1, JoinedIs
<1>6. /\ b \in Seq(Symbols) /\ Len(b) = i - 1 /\ \A j \in 1..(i - 1) : b[j] = parts[j]
  <2>1. \A j \in 1..(i - 1) : parts[j] \in Symbols
    BY <1>1, <1>2
  <2>2. 1 \in Int /\ i - 1 \in Int /\ (i - 1) - 1 + 1 = i - 1
        /\ (IF 1 <= i - 1 THEN (i - 1) - 1 + 1 ELSE 0) = i - 1
        /\ \A j \in 1..(i - 1) : 1 + j - 1 = j
    BY <1>1
  <2>3. /\ b \in Seq(Symbols)
        /\ Len(b) = IF 1 <= i - 1 THEN (i - 1) - 1 + 1 ELSE 0
        /\ \A j \in 1..((i - 1) - 1 + 1) : b[j] = parts[1 + j - 1]
    BY <2>1, <2>2, SubSeqProperties
  <2>. HIDE DEF b
  <2>. QED
    BY <2>2, <2>3
<1>11. /\ a \in Seq(Symbols) /\ Len(a) = Len(parts) - i - 1
       /\ \A j \in 1..(Len(parts) - i - 1) : a[j] = parts[i + 1 + j]
  <2>. DEFINE l == Len(parts)
  <2>. HIDE DEF l
  <2>1. \A j \in (i + 2)..l : parts[j] \in Symbols
    BY <1>1, <1>2 DEF l
  <2>2. /\ i + 2 \in Int /\ l \in Int /\ l - (i + 2) + 1 = l - i - 1
        /\ (IF i + 2 <= l THEN l - (i + 2) + 1 ELSE 0) = l - i - 1
        /\ \A j \in 1..(l - i - 1) : (i + 2) + j - 1 = i + 1 + j
    BY <1>1 DEF l
  <2>. DEFINE m == i + 2
  <2>5. m \in Int /\ l \in Int /\ \A j \in m..l : parts[j] \in Symbols
    BY <2>1, <2>2
  <2>6. a = SubSeq(parts, m, l)
    BY DEF l
  <2>. HIDE DEF m, a
  <2>7. /\ a \in Seq(Symbols)
        /\ Len(a) = IF m <= l THEN l - m + 1 ELSE 0
        /\ \A j \in 1..(l - m + 1) : a[j] = parts[m + j - 1]
    BY <2>5, <2>6, SubSeqProperties
  <2>3. /\ a \in Seq(Symbols)
        /\ Len(a) = IF i + 2 <= l THEN l - (i + 2) + 1 ELSE 0
        /\ \A j \in 1..(l - (i + 2) + 1) : a[j] = parts[(i + 2) + j - 1]
    BY <2>7 DEF m
  <2>. HIDE DEF a
  <2>4. Len(a) = l - i - 1 /\ \A j \in 1..(l - i - 1) : a[j] = parts[i + 1 + j]
    BY <2>2, <2>3
  <2>. QED
    BY <2>3, <2>4 DEF l
<1>. HIDE DEF a, b, c
<1>. DEFINE d == b \o <<c>>
<1>7. /\ d \in Seq(Symbols) /\ Len(d) = i /\ \A j \in 1..(i - 1) : d[j] = parts[j]
      /\ d[i] = c
  <2>. DEFINE one == <<c>>
  <2>1. one \in Seq(Symbols) /\ Len(one) = 1 /\ one[1] = c
    BY <1>3
  <2>4. d = b \o one
    OBVIOUS
  <2>. HIDE DEF d, one
  <2>5. /\ d \in Seq(Symbols) /\ Len(d) = Len(b) + Len(one)
        /\ \A j \in 1..(Len(b) + Len(one)) :
             d[j] = IF j <= Len(b) THEN b[j] ELSE one[j - Len(b)]
    BY <1>6, <2>1, <2>4, ConcatProperties
  <2>2. /\ d \in Seq(Symbols) /\ Len(d) = (i - 1) + 1
        /\ \A j \in 1..((i - 1) + 1) : d[j] = IF j <= i - 1 THEN b[j] ELSE one[j - (i - 1)]
    BY <1>6, <2>1, <2>5
  <2>3. (i - 1) + 1 = i /\ i \in 1..i /\ ~(i <= i - 1) /\ i - (i - 1) = 1
        /\ \A j \in 1..(i - 1) : j \in 1..i /\ j <= i - 1
    BY <1>1
  <2>. QED
    BY <1>6, <2>1, <2>2, <2>3
<1>. HIDE DEF d
<1>8. Joined(i) = d \o a
  BY <1>5 DEF d
<1>9. /\ Len(d \o a) = Len(parts) - 1
      /\ \A j \in 1..(Len(parts) - 1) : (d \o a)[j] = IF j <= i THEN d[j] ELSE a[j - i]
  <2>1. i + (Len(parts) - i - 1) = Len(parts) - 1
    BY <1>1
  <2>2. /\ Len(d \o a) = Len(d) + Len(a)
        /\ \A j \in 1..(Len(d) + Len(a)) : (d \o a)[j] = IF j <= Len(d) THEN d[j] ELSE a[j - Len(d)]
    BY <1>7, <1>11, ConcatProperties
  <2>. DEFINE e == d \o a
  <2>. HIDE DEF e
  <2>3. /\ Len(e) = Len(d) + Len(a)
        /\ \A j \in 1..(Len(d) + Len(a)) : e[j] = IF j <= Len(d) THEN d[j] ELSE a[j - Len(d)]
    BY <2>2 DEF e
  <2>4. Len(d) = i /\ Len(d) + Len(a) = Len(parts) - 1
    BY <1>7, <1>11, <2>1
  <2>5. Len(e) = Len(parts) - 1 /\ \A j \in 1..(Len(parts) - 1) : e[j] = IF j <= i THEN d[j] ELSE a[j - i]
    BY <2>3, <2>4
  <2>. QED
    BY <2>5 DEF e
<1>10. \A j \in 1..(Len(parts) - 1) : j > i =>
         j - i \in 1..(Len(parts) - i - 1) /\ i + 1 + (j - i) = j + 1
  BY <1>1
<1>. QED
  <2>. DEFINE q == Joined(i)
              l == Len(parts)
  <2>0. l \in Nat
    BY <1>1
  <2>1. q \in Seq(Symbols) /\ Len(q) = l - 1
    BY <1>4, <1>8, <1>9
  <2>2. \A j \in 1..(l - 1) : q[j] = IF j <= i THEN d[j] ELSE a[j - i]
    BY <1>8, <1>9
  <2>. HIDE DEF q
  <2>3. ASSUME NEW j \in 1..(l - 1)
        PROVE  /\ j < i => q[j] = parts[j]
               /\ j = i => q[j] = c
               /\ j > i => q[j] = parts[j + 1]
    <3>1. j < i => j <= i /\ j \in 1..(i - 1)
      BY <2>0
    <3>2. j > i => ~(j <= i) /\ j - i \in 1..(l - i - 1) /\ i + 1 + (j - i) = j + 1
      BY <1>10
    <3>3. j = i => j <= i
      BY <2>0
    <3>. QED
      BY <1>7, <1>11, <2>2, <3>1, <3>2, <3>3
  <2>. QED
    BY <2>1, <2>3 DEF q, c

(* One step of encode's loop over merges changes nothing in what the       *)
(* replay of the merge list comes to: what stands before the merge in the  *)
(* list applies neither before nor after it, since nothing that training   *)
(* put there is made of its result.                                        *)
LEMMA MergeReplays ==
  ASSUME input \in Inputs, Trained(input.merges), parts \in Seq(Symbols), Applicable # {}
  PROVE  Replayed(input.merges, Joined(LowestPair(Applicable).place))
           = Replayed(input.merges, parts)
<1>. DEFINE ms == input.merges
            p == LowestPair(Applicable)
            r == p.rank
            i == p.place
            q == Joined(i)
            a == parts[i]
            b == parts[i + 1]
            c == a \o b
            before == SubSeq(parts, 1, i - 1)
            after == SubSeq(parts, i + 2, Len(parts))
<1>1. /\ Len(ms) \in Nat /\ DOMAIN ms = 1..Len(ms)
      /\ \A k \in 1..Len(ms) : ms[k] \in Seq(STRING) \X Seq(STRING)
  <2>1. ms \in Seq(Seq(STRING) \X Seq(STRING))
    BY InputIs
  <2>. HIDE DEF ms
  <2>. QED
    BY <2>1, LenProperties, ElementOfSeq
<1>2. r \in 1..Len(ms) /\ i \in 1..(Len(parts) - 1) /\ ms[r] = <<a, b>>
  BY <1>1, ApplicableIs
<1>3. ASSUME NEW k \in 1..Len(ms), NEW j \in 1..(Len(parts) - 1),
             <<parts[j], parts[j + 1]>> = ms[k]
      PROVE  r < k \/ (r = k /\ i <= j)
  <2>1. \A x \in Applicable : x.rank \in Nat /\ x.place \in Nat
    BY SMTT(30), <1>1, LenProperties DEF Applicable, Pairs
  <2>2. [place |-> j, rank |-> k] \in Applicable
    BY SMTT(30), <1>1, <1>3 DEF Applicable, Pairs
  <2>. DEFINE x == [place |-> j, rank |-> k]
  <2>3. x.place = j /\ x.rank = k
    OBVIOUS
  <2>. HIDE DEF x
  <2>4. p.rank < x.rank \/ (p.rank = x.rank /\ p.place <= x.place)
    BY <2>1, <2>2, LowestIs DEF x
  <2>. QED
    BY <2>3, <2>4
<1>4. /\ parts = (before \o <<a, b>>) \o after /\ q = (before \o <<c>>) \o after
      /\ before \in Seq(Symbols) /\ after \in Seq(Symbols)
      /\ a \in Symbols /\ b \in Symbols /\ c \in Symbols
      /\ Symbols \subseteq Seq(Alphabet) \ {<<>>}
      /\ Len(before) = i - 1 /\ \A j \in 1..(i - 1) : before[j] = parts[j]
  <2>. HIDE DEF i
  <2>1. Symbols \subseteq Seq(Alphabet) \ {<<>>} /\ Len(parts) \in Nat
    BY LenProperties DEF Symbols
  <2>2. parts \in Seq(Seq(Alphabet)) /\ \A j \in 1..Len(parts) : parts[j] \in Symbols
    BY <2>1, ElementOfSeq
  <2>3. a \in Symbols /\ b \in Symbols
    BY <1>2, <2>1, <2>2
  <2>4. c \in Symbols
    BY <2>3, SymbolsJoin
  <2>5. parts = (before \o <<a, b>>) \o after /\ q = (before \o <<c>>) \o after
    BY <1>2, <2>2, JoinedIs
  <2>6. /\ before \in Seq(Symbols) /\ after \in Seq(Symbols)
        /\ Len(before) = i - 1 /\ \A j \in 1..(i - 1) : before[j] = parts[j]
    BY <1>2, <2>1, <2>2, SubSeqProperties
  <2>. QED
    BY <2>1, <2>3, <2>4, <2>5, <2>6
<1>5. /\ q \in Seq(Symbols) /\ Len(q) = Len(parts) - 1 /\ Len(parts) \in Nat
      /\ \A j \in 1..(Len(parts) - 1) : /\ j < i => q[j] = parts[j]
                                        /\ j = i => q[j] = c
                                        /\ j > i => q[j] = parts[j + 1]
  BY <1>2, JoinedAt, LenProperties
<1>. HIDE DEF p, r, i, q, c, before, after
<1>. HIDE DEF a, b, ms
<1>6. ASSUME NEW k \in 1..Len(ms), k < r
      PROVE  Unmerged(ms[k], parts)
  BY <1>2, <1>3, <1>6 DEF Unmerged
<1>7. ASSUME NEW k \in 1..Len(ms), k < r
      PROVE  ms[k][1] # c /\ ms[k][2] # c
  <2>1. Len(c) > 1
    <3>1. a \in Seq(Alphabet) /\ b \in Seq(Alphabet) /\ a # <<>> /\ b # <<>>
      BY <1>4
    <3>. QED
      BY <3>1, JoinedLonger DEF c
  <2>2. ms[r][1] \o ms[r][2] = c
    BY <1>2 DEF c
  <2>3. Trained(ms)
    BY DEF ms
  <2>4. \A h \in 1..(r - 1) : ms[h][1] \o ms[h][2] # c
    BY <1>1, <1>2, <2>2, <2>3 DEF Trained
  <2>5. ASSUME NEW side \in {1, 2}
        PROVE  ms[k][side] # c
    <3>1. SUFFICES ASSUME ms[k][side] = c
                   PROVE  FALSE
      OBVIOUS
    <3>4. Len(ms[k][side]) > 1
      BY <2>1, <3>1, Zenon
    <3>5. \E h \in 1..(k - 1) : ms[k][side] = ms[h][1] \o ms[h][2]
      <4>1. k \in DOMAIN ms
        BY <1>1, Zenon
      <4>2. \A s \in {1, 2} :
              Len(ms[k][s]) > 1 => \E h \in 1..(k - 1) : ms[k][s] = ms[h][1] \o ms[h][2]
        BY <2>3, <4>1, Zenon DEF Trained
      <4>. QED
        BY <3>4, <4>2, Zenon
    <3>2. PICK h \in 1..(k - 1) : ms[k][side] = ms[h][1] \o ms[h][2]
      BY <3>5, Zenon
    <3>3. h \in 1..(r - 1)
      BY <1>2, <1>7
    <3>. QED
      BY <2>4, <3>1, <3>2, <3>3
  <2>. QED
    BY <2>5
<1>8. ASSUME NEW k \in 1..Len(ms), k < r
      PROVE  Unmerged(ms[k], q)
  <2>1. SUFFICES ASSUME NEW j \in 1..(Len(q) - 1), <<q[j], q[j + 1]>> = ms[k]
                 PROVE  FALSE
    BY DEF Unmerged
  <2>2. /\ j \in 1..(Len(parts) - 1) /\ j + 1 \in 1..(Len(parts) - 1)
        /\ Len(parts) \in Nat /\ i \in Nat
    BY <1>2, <1>5
  <2>3. ms[k][1] = q[j] /\ ms[k][2] = q[j + 1]
    BY <2>1
  <2>4. j # i /\ j + 1 # i
    BY <1>5, <1>7, <1>8, <2>2, <2>3
  <2>5. CASE j + 1 < i
    <3>1. j < i
      BY <2>2, <2>5
    <3>2. q[j] = parts[j] /\ q[j + 1] = parts[j + 1]
      BY <1>5, <2>2, <2>5, <3>1
    <3>. QED
      BY <1>6, <1>8, <2>1, <2>2, <3>2 DEF Unmerged
  <2>6. CASE j > i
    <3>1. j + 1 > i
      BY <2>2, <2>6
    <3>2. q[j] = parts[j + 1] /\ q[j + 1] = parts[(j + 1) + 1]
      BY <1>5, <2>2, <2>6, <3>1
    <3>. QED
      BY <1>6, <1>8, <2>1, <2>2, <3>2 DEF Unmerged
  <2>. QED
    BY <2>2, <2>4, <2>5, <2>6
<1>9. Unmerged(<<a, b>>, Append(before, a))
  <2>. DEFINE u == Append(before, a)
  <2>1. /\ Len(u) = i /\ u[i] = a /\ \A j \in 1..(i - 1) : u[j] = parts[j]
    <3>1. /\ Len(u) = Len(before) + 1 /\ u[Len(before) + 1] = a
          /\ \A j \in 1..Len(before) : u[j] = before[j]
      BY <1>4, AppendProperties
    <3>. HIDE DEF u
    <3>. QED
      BY <1>2, <1>4, <3>1
  <2>. HIDE DEF u
  <2>2. SUFFICES ASSUME NEW j \in 1..(i - 1), <<u[j], u[j + 1]>> = <<a, b>>
                 PROVE  FALSE
    BY <2>1 DEF Unmerged, u
  <2>3. u[j] = parts[j] /\ u[j + 1] = parts[j + 1]
    <3>1. j + 1 \in 1..(i - 1) \/ j + 1 = i
      BY <1>2
    <3>2. parts[i] = a
      BY DEF a
    <3>. QED
      BY <2>1, <3>1, <3>2
  <2>4. j \in 1..(Len(parts) - 1) /\ ~(r < r) /\ ~(i <= j)
    BY <1>2, <1>5
  <2>5. <<parts[j], parts[j + 1]>> = ms[r]
    BY <1>2, <2>2, <2>3
  <2>. QED
    BY <1>2, <1>3, <2>4, <2>5
<1>10. AppliedAll(ms[r], parts) = AppliedAll(ms[r], q)
  <2>. DEFINE m == ms[r]
  <2>1. Alike(m, a, b, c, before, after, parts, q)
    BY <1>2, <1>4, <1>9 DEF Alike, c
  <2>2. /\ a \in Symbols /\ b \in Symbols /\ c \in Symbols
        /\ before \in Seq(Symbols) /\ after \in Seq(Symbols)
    BY <1>4
  <2>. HIDE DEF m
  <2>3. AppliedAll(m, parts) = AppliedAll(m, q)
    BY <2>1, <2>2, AppliedJoined
  <2>. QED
    BY <2>3 DEF m
<1>. DEFINE F == ReplayedOf(ms, parts)
            G == ReplayedOf(ms, q)
<1>11. /\ Replayed(ms, parts) = F[Len(ms)] /\ Replayed(ms, q) = G[Len(ms)]
       /\ \A k \in 1..Len(ms) : F[k] = AppliedAll(ms[k], F[k - 1])
       /\ \A k \in 1..Len(ms) : G[k] = AppliedAll(ms[k], G[k - 1])
  <2>1. \A s : /\ Replayed(ms, s) = ReplayedOf(ms, s)[Len(ms)]
               /\ \A k \in 1..Len(ms) :
                    ReplayedOf(ms, s)[k] = AppliedAll(ms[k], ReplayedOf(ms, s)[k - 1])
    BY <1>1, ReplayedOfIs
  <2>. QED
    BY <2>1, Zenon
<1>12. F[r - 1] = parts /\ G[r - 1] = q
  <2>1. /\ r - 1 \in 0..Len(ms) /\ r - 1 \in 0..(r - 1)
        /\ \A k \in 1..(r - 1) : k \in 1..Len(ms) /\ k < r
    BY <1>1, <1>2
  <2>2. \A k \in 1..(r - 1) : Unmerged(ms[k], parts) /\ Unmerged(ms[k], q)
    BY <1>6, <1>8, <2>1
  <2>. DEFINE e == r - 1
  <2>3. e \in 0..Len(ms) /\ e \in 0..e /\ \A k \in 1..e : Unmerged(ms[k], parts) /\ Unmerged(ms[k], q)
    BY <2>1, <2>2
  <2>. HIDE DEF e
  <2>6. Len(ms) \in Nat /\ parts \in Seq(Symbols) /\ q \in Seq(Symbols)
    BY <1>1, <1>5
  <2>7. \A k \in 1..e : Unmerged(ms[k], parts)
    BY <2>3
  <2>8. \A k \in 1..e : Unmerged(ms[k], q)
    BY <2>3
  <2>4. \A k \in 0..e : ReplayedOf(ms, parts)[k] = parts
    BY <2>3, <2>6, <2>7, ReplaysNothing
  <2>5. \A k \in 0..e : ReplayedOf(ms, q)[k] = q
    BY <2>3, <2>6, <2>8, ReplaysNothing
  <2>. QED
    BY <2>3, <2>4, <2>5 DEF e
<1>. HIDE DEF F, G
<1>. DEFINE N == {k \in Nat : r + k <= Len(ms) => F[r + k] = G[r + k]}
<1>13. 0 \in N
  <2>1. r + 0 = r
    BY <1>2
  <2>2. F[r] = G[r]
    BY <1>2, <1>10, <1>11, <1>12
  <2>. QED
    BY <2>1, <2>2
<1>14. ASSUME NEW k \in Nat, k \in N
       PROVE  k + 1 \in N
  <2>. SUFFICES ASSUME r + (k + 1) <= Len(ms)
                PROVE  F[r + (k + 1)] = G[r + (k + 1)]
    OBVIOUS
  <2>1. r + (k + 1) \in 1..Len(ms) /\ (r + (k + 1)) - 1 = r + k /\ r + k <= Len(ms)
    BY <1>1, <1>2
  <2>. QED
    BY <1>11, <1>14, <2>1
<1>15. Nat \subseteq N
  <2>. HIDE DEF N
  <2>. QED
    BY <1>13, <1>14, Induct
<1>16. F[Len(ms)] = G[Len(ms)]
  <2>1. Len(ms) - r \in Nat /\ r + (Len(ms) - r) = Len(ms)
    BY <1>1, <1>2
  <2>. QED
    BY <1>15, <2>1
<1>. QED
  BY <1>11, <1>16 DEF ms, q, i, p

(* The symbols of a piece before any merge.                                *)
Start(text) == LET visible == VisibleText(text) IN [k \in DOMAIN visible |-> <<visible[k]>>]

(* The inductive invariant behind ByPriority: replaying the merges on the  *)
(* parts comes to what it came to when the piece was cut.                  *)
Replays ==
  stage = "merge" /\ Trained(input.merges) =>
    Replayed(input.merges, parts)
      = Replayed(input.merges, Start(SubSeq(input.text, cut, at - 1)))

(* Every step keeps Replays.                                               *)
LEMMA NextReplays == Typed /\ Replays /\ [Next]_vars => Replays'
<1>. SUFFICES ASSUME Typed, Replays, [Next]_vars
              PROVE  Replays'
  OBVIOUS
<1>0. input \in Inputs /\ parts \in Seq(Symbols)
  BY DEF Typed
<1>1. CASE Cut
  <2>1. /\ input' = input /\ at' = at + NextPiece /\ cut' = at
        /\ parts' = Start(SubSeq(input.text, at, at + NextPiece - 1))
    BY <1>1, Zenon DEF Cut, Start
  <2>3. at \in Int /\ NextPiece \in Int
    <3>1. input \in Inputs /\ Len(input.text) \in Nat
      BY InputIs DEF Typed
    <3>2. /\ cursor \in 1..(Len(input.text) + 1) /\ stop \in 1..(Len(input.text) + 1)
          /\ at \in cursor..(stop - 1)
      BY <1>1, <3>1 DEF Cut, Typed, TypeOK
    <3>. QED
      BY <3>1, <3>2, NextPieceIs
  <2>2. parts' = Start(SubSeq(input'.text, cut', at' - 1))
    <3>. DEFINE end == at' - 1
    <3>1. end = at + NextPiece - 1 /\ input'.text = input.text /\ cut' = at
      BY <2>1, <2>3
    <3>. HIDE DEF end
    <3>. QED
      BY <2>1, <3>1, Zenon DEF end
  <2>. QED
    BY <2>2, Zenon DEF Replays
<1>2. CASE Merge
  <2>1. /\ input' = input /\ at' = at /\ cut' = cut /\ stage' = stage
        /\ Applicable # {} /\ parts' = Joined(LowestPair(Applicable).place)
    BY <1>2 DEF Merge
  <2>2. Trained(input.merges) => Replayed(input.merges, parts') = Replayed(input.merges, parts)
    BY <1>0, <2>1, MergeReplays
  <2>. QED
    BY <2>1, <2>2, Zenon DEF Replays
<1>3. CASE Find
  BY <1>3 DEF Find, Replays
<1>4. CASE Finish
  BY <1>4 DEF Finish, Replays
<1>5. CASE Emit
  BY <1>5 DEF Emit, Replays
<1>6. CASE RunEnds
  BY <1>6 DEF RunEnds, Replays
<1>7. CASE UNCHANGED vars
  BY <1>7, Zenon DEF vars, Replays
<1>. QED
  BY <1>1, <1>2, <1>3, <1>4, <1>5, <1>6, <1>7 DEF Next

(* Merging the lowest rank first, with a rescan after each merge           *)
(* (encode_run), gives what replaying a trained merge list over the piece  *)
(* gives, for every such list and every text.                              *)
THEOREM ByPriorityHolds == Spec => []ByPriority
<1>1. Typed /\ Replays => ByPriority
  <2>. SUFFICES ASSUME Typed, Replays, stage = "merge", Applicable = {}, Trained(input.merges)
                PROVE  parts = Replayed(input.merges, Start(SubSeq(input.text, cut, at - 1)))
    BY Zenon DEF ByPriority, Start
  <2>1. Replayed(input.merges, parts) = parts
    BY DoneReplays DEF Typed
  <2>. QED
    BY <2>1, Zenon DEF Replays
<1>2. Init => Typed /\ Replays
  <2>1. Init => Replays
    BY DEF Init, Replays
  <2>. QED
    BY <2>1, InitTyped
<1>3. Typed /\ Replays /\ [Next]_vars => (Typed /\ Replays)'
  BY NextTyped, NextReplays
<1>. QED
  BY <1>1, <1>2, <1>3, PTL DEF Spec
=============================================================================
