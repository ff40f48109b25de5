------------------------- MODULE PreTokenizerProofs -------------------------
(***************************************************************************)
(* What `piece` takes, for every text: it stays in the text and takes at   *)
(* least a character, and it takes what the upstream pattern takes there.  *)
(*                                                                         *)
(* The second is proved alternative by alternative. GreediestIs says       *)
(* which of the matches of an alternative a greedy matcher comes to        *)
(* first; the ...Take lemmas find it for each form of alternative there    *)
(* is, and give the number of characters that the rule of the code gives;  *)
(* PieceByPattern puts the rules and the alternatives side by side.        *)
(***************************************************************************)
EXTENDS PreTokenizer, SequenceTheorems, WellFoundedInduction, TLAPS

(* Every set of naturals that has an element has a least one.              *)
LEMMA Least ==
  ASSUME NEW T \in SUBSET Nat, T # {}
  PROVE \E x \in T : \A y \in T : x <= y
<1>1. IsWellFoundedOn(OpToRel(<, Nat), Nat)
  BY NatLessThanWellFounded
<1>2. PICK x \in T : \A y \in T : ~(<<y, x>> \in OpToRel(<, Nat))
  BY <1>1, WFMin, Zenon
<1>3. ASSUME NEW y \in T, y < x PROVE FALSE
  <2>1. <<y, x>> \in Nat \X Nat /\ <<y,x>>[1] < <<y,x>>[2]
    BY <1>3
  <2>2. <<y, x>> \in OpToRel(<, Nat)
    BY <2>1, Zenon DEF OpToRel
  <2>. QED
    BY <1>2, <2>2
<1>4. \A y \in T : x <= y
  BY <1>3
<1>. QED
  BY <1>4

(* Induction over the naturals, with the property as a set.                *)
LEMMA Induct ==
  ASSUME NEW T, 0 \in T, \A m \in Nat : m \in T => m + 1 \in T
  PROVE  Nat \subseteq T
<1>. SUFFICES ASSUME Nat \ T # {} PROVE FALSE
  OBVIOUS
<1>1. PICK x \in Nat \ T : \A y \in Nat \ T : x <= y
  BY Least
<1>2. x - 1 \in Nat /\ ~(x <= x - 1)
  BY <1>1
<1>3. x - 1 \in T
  BY <1>1, <1>2
<1>4. x - 1 + 1 = x
  BY <1>1
<1>. QED
  BY <1>1, <1>2, <1>3, <1>4

(* The largest of a bounded set of naturals is in it and bounds it.        *)
LEMMA MaxIs ==
  ASSUME NEW m \in Nat, NEW S \in SUBSET (0..m), S # {}
  PROVE  Max(S) \in S /\ \A y \in S : y <= Max(S)
<1>. DEFINE T == {m - x : x \in S}
<1>1. PICK z \in T : \A y \in T : z <= y
  <2>1. \A x \in S : x \in 0..m /\ m - x \in Nat
    OBVIOUS
  <2>2. T \subseteq Nat /\ T # {}
    BY <2>1
  <2>. HIDE DEF T
  <2>. QED
    BY <2>2, Least
<1>2. PICK x \in S : z = m - x
  OBVIOUS
<1>3. \A y \in S : x >= y
  <2>. TAKE y \in S
  <2>1. m - x <= m - y
    BY <1>1, <1>2
  <2>. QED
    BY <2>1
<1>4. Max(S) \in S /\ \A y \in S : Max(S) >= y
  BY <1>3, Zenon DEF Max
<1>. QED
  BY <1>4

(* The least of a set of naturals is in it and bounds it from below.       *)
LEMMA MinIs ==
  ASSUME NEW S \in SUBSET Nat, S # {}
  PROVE  Min(S) \in S /\ \A y \in S : Min(S) <= y
  BY Least, Zenon DEF Min

(* A run stays in the text, is all of its class, and the character after   *)
(* it is not.                                                              *)
LEMMA RunIs ==
  ASSUME NEW C, NEW text \in Seq(C), NEW i \in 1..(Len(text) + 1), NEW class
  PROVE  /\ Run(text, i, class) \in 0..(Len(text) - i + 1)
         /\ \A j \in i..(i + Run(text, i, class) - 1) : text[j] \in class
         /\ i + Run(text, i, class) <= Len(text) => text[i + Run(text, i, class)] \notin class
<1>. DEFINE S == {k \in 0..(Len(text) - i + 1) :
                   \A j \in i..(i + k - 1) : text[j] \in class}
            r == Run(text, i, class)
<1>0. Len(text) \in Nat /\ i \in Nat /\ Len(text) - i + 1 \in Nat
  OBVIOUS
<1>1. 0 \in S
  BY <1>0
<1>2. r \in S /\ \A k \in S : k <= r
  <2>1. r = Max(S)
    BY DEF Run
  <2>2. S \in SUBSET (0..(Len(text) - i + 1)) /\ S # {}
    BY <1>1
  <2>. HIDE DEF S, r
  <2>. QED
    BY <1>0, <2>1, <2>2, MaxIs
<1>3. ASSUME i + r <= Len(text), text[i + r] \in class
      PROVE  FALSE
  <2>1. r \in 0..(Len(text) - i + 1) /\ \A j \in i..(i + r - 1) : text[j] \in class
    BY <1>2
  <2>. HIDE DEF r
  <2>2. \A j \in i..(i + (r + 1) - 1) : j \in i..(i + r - 1) \/ j = i + r
    BY <1>0, <2>1
  <2>3. r + 1 \in S
    BY <1>0, <1>3, <2>1, <2>2
  <2>. HIDE DEF S
  <2>. QED
    BY <1>2, <2>1, <2>3
<1>. QED
  BY <1>2, <1>3

(* At most one character leads, and it is in the text.                     *)
LEMMA LeadingIs ==
  ASSUME NEW C, NEW text \in Seq(C), NEW at \in 1..Len(text), NEW class
  PROVE  Leading(text, at, class) \in {0, 1} /\ at + Leading(text, at, class) \in at..(Len(text) + 1)
  BY DEF Leading

(* Rule 2 stays in the text.                                               *)
LEMMA WordBounds ==
  ASSUME NEW C, NEW text \in Seq(C), NEW at \in 1..Len(text), NEW pattern
  PROVE  Word(text, at, pattern) \in 0..(Len(text) - at + 1)
<1>. DEFINE lead == Leading(text, at, Absorbed(pattern))
            run  == Run(text, at + lead, Letters)
<1>1. lead \in {0, 1} /\ at + lead \in 1..(Len(text) + 1)
  BY LeadingIs
<1>. HIDE DEF lead
<1>2. run \in 0..(Len(text) - (at + lead) + 1)
  BY <1>1, RunIs
<1>3. Word(text, at, pattern) = IF run > 0 THEN lead + run ELSE 0
  BY DEF Word, lead
<1>. HIDE DEF run
<1>. QED
  BY <1>1, <1>2, <1>3

(* How many digits a pattern takes of a run of them.                       *)
LEMMA DigitsBounds ==
  ASSUME NEW pattern \in Patterns, NEW run \in Nat
  PROVE  MaxDigits(pattern, run) = IF pattern = "Qwen2" THEN (IF run < 1 THEN run ELSE 1)
                                   ELSE IF pattern = "Llama3" THEN (IF run < 3 THEN run ELSE 3)
                                   ELSE run
<1>1. ASSUME NEW top \in Nat PROVE Min({run, top}) = IF run < top THEN run ELSE top
  <2>1. {run, top} \in SUBSET Nat /\ {run, top} # {}
    OBVIOUS
  <2>2. Min({run, top}) \in {run, top} /\ \A y \in {run, top} : Min({run, top}) <= y
    BY <2>1, MinIs
  <2>. QED
    BY <2>2
<1>2. Min({run, 1}) = (IF run < 1 THEN run ELSE 1) /\ Min({run, 3}) = (IF run < 3 THEN run ELSE 3)
  BY <1>1
<1>3. pattern = "Qwen2" \/ pattern = "Llama3" \/ pattern = "Gpt2"
  BY DEF Patterns
<1>. QED
  BY <1>2, <1>3 DEF MaxDigits

(* Rule 3 stays in the text.                                               *)
LEMMA NumberBounds ==
  ASSUME NEW C, NEW text \in Seq(C), NEW at \in 1..Len(text), NEW pattern \in Patterns
  PROVE  Number(text, at, pattern) \in 0..(Len(text) - at + 1)
<1>. DEFINE lead == IF pattern = "Gpt2" THEN Leading(text, at, {" "}) ELSE 0
            run  == Run(text, at + lead, Digits)
<1>1. lead \in {0, 1} /\ at + lead \in 1..(Len(text) + 1)
  <2>1. Leading(text, at, {" "}) \in {0, 1}
    BY LeadingIs
  <2>2. lead \in {0, 1}
    BY <2>1, Zenon
  <2>3. Len(text) \in Nat
    OBVIOUS
  <2>. HIDE DEF lead
  <2>. QED
    BY <2>2, <2>3
<1>. HIDE DEF lead
<1>2. run \in 0..(Len(text) - (at + lead) + 1)
  BY <1>1, RunIs
<1>3. Number(text, at, pattern) = IF run > 0 THEN lead + MaxDigits(pattern, run) ELSE 0
  BY DEF Number, lead
<1>. HIDE DEF run
<1>4. run \in Nat /\ (run > 0 => MaxDigits(pattern, run) \in 0..run)
  BY <1>1, <1>2, DigitsBounds
<1>. QED
  BY <1>1, <1>2, <1>3, <1>4

(* Rule 4 stays in the text.                                               *)
LEMMA PunctuationBounds ==
  ASSUME NEW C, NEW text \in Seq(C), NEW at \in 1..Len(text), NEW pattern
  PROVE  Punctuation(text, at, pattern) \in 0..(Len(text) - at + 1)
<1>. DEFINE lead  == Leading(text, at, {" "})
            run   == Run(text, at + lead, Others)
            after == IF pattern = "Gpt2" THEN 0 ELSE Run(text, at + lead + run, Newlines)
<1>1. lead \in {0, 1} /\ at + lead \in 1..(Len(text) + 1)
  <2>1. lead \in {0, 1}
    BY LeadingIs
  <2>2. Len(text) \in Nat
    OBVIOUS
  <2>. HIDE DEF lead
  <2>. QED
    BY <2>1, <2>2
<1>. HIDE DEF lead
<1>2. run \in 0..(Len(text) - (at + lead) + 1)
  BY <1>1, RunIs
<1>. HIDE DEF run
<1>3. at + lead + run \in 1..(Len(text) + 1)
  BY <1>1, <1>2
<1>4. Run(text, at + lead + run, Newlines) \in 0..(Len(text) - (at + lead + run) + 1)
  BY <1>3, RunIs
<1>5. after \in 0..(Len(text) - (at + lead + run) + 1)
  BY <1>3, <1>4
<1>6. Punctuation(text, at, pattern) = IF run > 0 THEN lead + run + after ELSE 0
  BY DEF Punctuation, lead, run
<1>. HIDE DEF after
<1>. QED
  BY <1>1, <1>2, <1>3, <1>5, <1>6

(* Rules 5, 6 and 7 stay in the text.                                      *)
LEMMA BlankRules ==
  ASSUME NEW C, NEW text \in Seq(C), NEW at \in 1..Len(text), NEW pattern
  PROVE  /\ Breaks(text, at, pattern) \in 0..(Len(text) - at + 1)
         /\ Trailing(text, at) \in 0..(Len(text) - at + 1)
         /\ Run(text, at, Blanks) \in 0..(Len(text) - at + 1)
<1>. DEFINE run == Run(text, at, Blanks)
            m   == Len(text) - at + 1
            S   == {0} \cup {k \in 1..run : text[at + k - 1] \in Newlines}
<1>1. run \in 0..m /\ m \in Nat
  BY RunIs
<1>2. Max(S) \in 0..m
  <2>1. S \in SUBSET (0..m) /\ S # {}
    BY <1>1
  <2>. HIDE DEF S, m
  <2>2. Max(S) \in S
    BY <1>1, <2>1, MaxIs
  <2>. QED
    BY <2>1, <2>2
<1>3. Breaks(text, at, pattern) = IF pattern = "Gpt2" THEN 0 ELSE Max(S)
  BY DEF Breaks
<1>4. Trailing(text, at) = IF at + run > Len(text) THEN run ELSE IF run > 1 THEN run - 1 ELSE 0
  BY DEF Trailing
<1>. HIDE DEF S, run
<1>. QED
  BY <1>1, <1>2, <1>3, <1>4 DEF run

(* Rule 1 stays in the text.                                               *)
LEMMA ContractionBounds ==
  ASSUME NEW C, NEW text \in Seq(C), NEW at \in 1..Len(text), NEW pattern
  PROVE  Contraction(text, at, pattern) \in 0..(Len(text) - at + 1)
  BY DEF Contraction

(* What each of the rules takes at a position.                             *)
Rules(text, at, pattern) ==
  <<Contraction(text, at, pattern), Word(text, at, pattern),
    Number(text, at, pattern), Punctuation(text, at, pattern),
    Breaks(text, at, pattern), Trailing(text, at),
    Run(text, at, Blanks), 1>>

(* A piece is what the first rule that takes something takes: at least a   *)
(* character, and no more than are left.                                   *)
LEMMA PieceIs ==
  ASSUME NEW C, NEW text \in Seq(C), NEW at \in 1..Len(text), NEW pattern \in Patterns
  PROVE  \E k \in 1..8 : /\ piece(text, at, pattern) = Rules(text, at, pattern)[k]
                         /\ Rules(text, at, pattern)[k] > 0
                         /\ \A j \in 1..(k - 1) : Rules(text, at, pattern)[j] = 0
                         /\ Rules(text, at, pattern)[k] \in 1..(Len(text) - at + 1)
<1>. DEFINE r == Rules(text, at, pattern)
            m == Len(text) - at + 1
            S == {k \in DOMAIN r : r[k] > 0}
<1>1. DOMAIN r = 1..8 /\ r[8] = 1
  BY DEF Rules
<1>2. \A k \in 1..8 : r[k] \in 0..m
  <2>1. /\ r[1] = Contraction(text, at, pattern) /\ r[2] = Word(text, at, pattern)
        /\ r[3] = Number(text, at, pattern) /\ r[4] = Punctuation(text, at, pattern)
        /\ r[5] = Breaks(text, at, pattern) /\ r[6] = Trailing(text, at)
        /\ r[7] = Run(text, at, Blanks)
    BY DEF Rules
  <2>2. 1 \in 0..m
    OBVIOUS
  <2>3. \A k \in 1..8 : k = 1 \/ k = 2 \/ k = 3 \/ k = 4 \/ k = 5 \/ k = 6 \/ k = 7 \/ k = 8
    OBVIOUS
  <2>. HIDE DEF r, m
  <2>4. /\ r[1] \in 0..m /\ r[2] \in 0..m /\ r[3] \in 0..m /\ r[4] \in 0..m
        /\ r[5] \in 0..m /\ r[6] \in 0..m /\ r[7] \in 0..m
    BY <2>1, ContractionBounds, WordBounds, NumberBounds, PunctuationBounds, BlankRules DEF m
  <2>. QED
    BY <1>1, <2>2, <2>3, <2>4
<1>3. piece(text, at, pattern) = r[Min(S)]
  BY Zenon DEF piece, Rules
<1>. HIDE DEF r
<1>4. Min(S) \in S /\ \A y \in S : Min(S) <= y
  <2>1. S \in SUBSET Nat /\ S # {}
    BY <1>1
  <2>. HIDE DEF S
  <2>. QED
    BY <2>1, MinIs
<1>5. \A j \in 1..(Min(S) - 1) : r[j] = 0
  <2>. TAKE j \in 1..(Min(S) - 1)
  <2>1. Min(S) \in 1..8
    BY <1>1, <1>4
  <2>. HIDE DEF S
  <2>2. j \in 1..8 /\ ~(Min(S) <= j)
    BY <2>1
  <2>3. j \notin S
    BY <1>4, <2>2
  <2>4. ~(r[j] > 0)
    BY <1>1, <2>2, <2>3 DEF S
  <2>5. r[j] \in 0..m
    BY <1>2, <2>2
  <2>. QED
    BY <2>4, <2>5
<1>. QED
  <2>1. Min(S) \in 1..8 /\ r[Min(S)] > 0 /\ r[Min(S)] \in 1..m
    BY SMTT(30), <1>1, <1>2, <1>4
  <2>. HIDE DEF S, m
  <2>. QED
    BY <1>3, <1>5, <2>1 DEF r, m

(* Nothing of the class that begins where a run begins goes further than   *)
(* the run.                                                                *)
LEMMA RunLongest ==
  ASSUME NEW C, NEW text \in Seq(C), NEW i \in 1..(Len(text) + 1), NEW class,
         NEW e \in i..(Len(text) + 1), \A j \in i..(e - 1) : text[j] \in class
  PROVE  e <= i + Run(text, i, class)
<1>. DEFINE r == Run(text, i, class)
<1>1. /\ r \in 0..(Len(text) - i + 1)
      /\ i + r <= Len(text) => text[i + r] \notin class
  BY RunIs
<1>2. Len(text) \in Nat
  BY LenProperties
<1>. HIDE DEF r
<1>3. CASE ~(e <= i + r)
  <2>1. i + r \in i..(e - 1) /\ i + r <= Len(text)
    BY <1>1, <1>2, <1>3
  <2>. QED
    BY <1>1, <2>1
<1>. QED
  BY <1>3 DEF r

(* The greediest match is the one in which each item goes as far as it     *)
(* goes in any match that agrees with it before.                           *)
LEMMA GreediestIs ==
  ASSUME NEW m \in Nat, NEW matches \in SUBSET [1..m -> Int], NEW e \in matches,
         \A f \in matches : \A k \in 1..m :
           (\A j \in 1..(k - 1) : f[j] = e[j]) => f[k] <= e[k]
  PROVE  Greediest(matches) = e
<1>. DEFINE Beats(x, y) == \E k \in DOMAIN x : x[k] > y[k] /\ \A j \in 1..(k - 1) : x[j] = y[j]
<1>1. ASSUME NEW f \in matches, f # e
      PROVE  \E k \in 1..m : e[k] > f[k] /\ \A j \in 1..(k - 1) : e[j] = f[j]
  <2>. DEFINE Off == {k \in 1..m : f[k] # e[k]}
  <2>1. Off \in SUBSET Nat /\ Off # {}
    <3>1. f \in [1..m -> Int] /\ e \in [1..m -> Int]
      OBVIOUS
    <3>2. \E k \in 1..m : f[k] # e[k]
      BY <1>1, <3>1
    <3>. QED
      BY <3>2
  <2>2. PICK k \in Off : \A j \in Off : k <= j
    <3>. HIDE DEF Off
    <3>. QED
      BY <2>1, Least
  <2>3. \A j \in 1..(k - 1) : f[j] = e[j]
    <3>. TAKE j \in 1..(k - 1)
    <3>1. j \in 1..m /\ ~(k <= j)
      BY <2>2
    <3>2. j \notin Off
      BY <2>2, <3>1
    <3>. QED
      BY <3>1, <3>2
  <2>4. f[k] <= e[k] /\ f[k] # e[k] /\ f[k] \in Int /\ e[k] \in Int
    BY <2>2, <2>3
  <2>5. e[k] > f[k]
    BY <2>4
  <2>6. k \in 1..m /\ \A j \in 1..(k - 1) : e[j] = f[j]
    BY <2>2, <2>3
  <2>. QED
    BY <2>5, <2>6
<1>2. \A f \in matches \ {e} : Beats(e, f)
  <2>1. DOMAIN e = 1..m
    OBVIOUS
  <2>. QED
    BY <1>1, <2>1
<1>3. ASSUME NEW f \in matches, f # e, Beats(f, e)
      PROVE  FALSE
  <2>1. PICK k \in 1..m : e[k] > f[k] /\ \A j \in 1..(k - 1) : e[j] = f[j]
    BY <1>1, <1>3
  <2>2. PICK l \in 1..m : f[l] > e[l] /\ \A j \in 1..(l - 1) : f[j] = e[j]
    <3>1. DOMAIN f = 1..m
      OBVIOUS
    <3>. QED
      BY <1>3, <3>1
  <2>3. f[k] \in Int /\ e[k] \in Int /\ f[l] \in Int /\ e[l] \in Int
    OBVIOUS
  <2>4. CASE k < l
    <3>1. k \in 1..(l - 1)
      BY <2>4
    <3>. QED
      BY <2>1, <2>2, <2>3, <3>1
  <2>5. CASE l < k
    <3>1. l \in 1..(k - 1)
      BY <2>5
    <3>. QED
      BY <2>1, <2>2, <2>3, <3>1
  <2>6. CASE k = l
    BY <2>1, <2>2, <2>3, <2>6
  <2>. QED
    BY <2>4, <2>5, <2>6
<1>. HIDE DEF Beats
<1>4. \A x \in matches : (\A f \in matches \ {x} : Beats(x, f)) <=> x = e
  <2>1. ASSUME NEW x \in matches, \A f \in matches \ {x} : Beats(x, f), x # e
        PROVE  FALSE
    BY <1>3, <2>1
  <2>. QED
    BY <1>2, <2>1
<1>5. Greediest(matches) = CHOOSE x \in matches : \A f \in matches \ {x} : Beats(x, f)
  BY Zenon DEF Greediest, Beats
<1>. QED
  BY <1>4, <1>5

(* An item from one place to another.                                      *)
Fits(text, item, from, to) ==
  /\ to - from \in item.least..item.most
  /\ \A j \in from..(to - 1) : text[j] \in item.class

(* What the assertion (?!\S) asks of the place where a match ends.         *)
Closed(text, ends, to) == ends => to > Len(text) \/ text[to] \in Blanks

(* The matches of an alternative of one item.                              *)
LEMMA MatchOne ==
  ASSUME NEW C, NEW text \in Seq(C), NEW at \in 1..Len(text), NEW item, NEW ends,
         NEW M, M = Matched(text, at, [items |-> <<item>>, ends |-> ends])
  PROVE  /\ M \in SUBSET [1..1 -> Int]
         /\ \A f \in M : /\ f[1] \in at..(Len(text) + 1) /\ Fits(text, item, at, f[1])
                         /\ Closed(text, ends, f[1])
         /\ \A e \in at..(Len(text) + 1) :
              Fits(text, item, at, e) /\ Closed(text, ends, e) => <<e>> \in M
<1>. DEFINE S == at..(Len(text) + 1)
<1>0. Len(text) \in Nat
  BY LenProperties
<1>1. M = {f \in [1..1 -> S] :
             /\ \A k \in 1..1 :
                  /\ f[k] - Begin(f, k, at) \in <<item>>[k].least..<<item>>[k].most
                  /\ \A j \in Begin(f, k, at)..(f[k] - 1) : text[j] \in <<item>>[k].class
             /\ Closed(text, ends, f[1])}
  BY DEF Matched, Closed
<1>2. M = {f \in [1..1 -> S] : Fits(text, item, at, f[1]) /\ Closed(text, ends, f[1])}
  <2>1. \A f : Begin(f, 1, at) = at
    BY DEF Begin
  <2>2. <<item>>[1] = item
    OBVIOUS
  <2>3. 1 \in 1..1 /\ \A k \in 1..1 : k = 1
    OBVIOUS
  <2>. DEFINE items == <<item>>
  <2>. HIDE DEF items
  <2>4. \A f : (\A k \in 1..1 :
                  /\ f[k] - Begin(f, k, at) \in items[k].least..items[k].most
                  /\ \A j \in Begin(f, k, at)..(f[k] - 1) : text[j] \in items[k].class)
               <=> Fits(text, item, at, f[1])
    BY <2>1, <2>2, <2>3, Zenon DEF Fits, items
  <2>. QED
    BY <1>1, <2>4, Zenon DEF items
<1>3. \A e \in S : <<e>> \in [1..1 -> S] /\ <<e>>[1] = e
  OBVIOUS
<1>4. \A f \in [1..1 -> S] : f[1] \in S /\ f \in [1..1 -> Int]
  BY <1>0
<1>. QED
  BY <1>2, <1>3, <1>4

(* The matches of an alternative of two items.                             *)
LEMMA MatchTwo ==
  ASSUME NEW C, NEW text \in Seq(C), NEW at \in 1..Len(text), NEW item, NEW item2,
         NEW M, M = Matched(text, at, [items |-> <<item, item2>>, ends |-> FALSE])
  PROVE  /\ M \in SUBSET [1..2 -> Int]
         /\ \A f \in M : /\ f[1] \in at..(Len(text) + 1) /\ f[2] \in at..(Len(text) + 1)
                         /\ Fits(text, item, at, f[1]) /\ Fits(text, item2, f[1], f[2])
         /\ \A d, e \in at..(Len(text) + 1) :
              Fits(text, item, at, d) /\ Fits(text, item2, d, e) => <<d, e>> \in M
<1>. DEFINE S == at..(Len(text) + 1)
            items == <<item, item2>>
<1>0. Len(text) \in Nat
  BY LenProperties
<1>1. M = {f \in [1..2 -> S] :
             \A k \in 1..2 :
                  /\ f[k] - Begin(f, k, at) \in items[k].least..items[k].most
                  /\ \A j \in Begin(f, k, at)..(f[k] - 1) : text[j] \in items[k].class}
  BY SMTT(30) DEF Matched
<1>2. M = {f \in [1..2 -> S] : Fits(text, item, at, f[1]) /\ Fits(text, item2, f[1], f[2])}
  <2>1. \A f : Begin(f, 1, at) = at /\ Begin(f, 2, at) = f[1]
    BY DEF Begin
  <2>2. items[1] = item /\ items[2] = item2
    OBVIOUS
  <2>3. 1 \in 1..2 /\ 2 \in 1..2 /\ \A k \in 1..2 : k = 1 \/ k = 2
    OBVIOUS
  <2>. HIDE DEF items
  <2>4. \A f : (\A k \in 1..2 :
                  /\ f[k] - Begin(f, k, at) \in items[k].least..items[k].most
                  /\ \A j \in Begin(f, k, at)..(f[k] - 1) : text[j] \in items[k].class)
               <=> Fits(text, item, at, f[1]) /\ Fits(text, item2, f[1], f[2])
    BY <2>1, <2>2, <2>3, Zenon DEF Fits
  <2>. QED
    BY <1>1, <2>4, Zenon
<1>3. \A d, e \in S : <<d, e>> \in [1..2 -> S] /\ <<d, e>>[1] = d /\ <<d, e>>[2] = e
  OBVIOUS
<1>4. \A f \in [1..2 -> S] : f[1] \in S /\ f[2] \in S /\ f \in [1..2 -> Int]
  BY <1>0
<1>. QED
  BY <1>2, <1>3, <1>4

(* The matches of an alternative of three items.                           *)
LEMMA MatchThree ==
  ASSUME NEW C, NEW text \in Seq(C), NEW at \in 1..Len(text), NEW item, NEW item2, NEW item3,
         NEW M, M = Matched(text, at, [items |-> <<item, item2, item3>>, ends |-> FALSE])
  PROVE  /\ M \in SUBSET [1..3 -> Int]
         /\ \A f \in M : /\ f[1] \in at..(Len(text) + 1) /\ f[2] \in at..(Len(text) + 1)
                         /\ f[3] \in at..(Len(text) + 1)
                         /\ Fits(text, item, at, f[1]) /\ Fits(text, item2, f[1], f[2])
                         /\ Fits(text, item3, f[2], f[3])
         /\ \A c, d, e \in at..(Len(text) + 1) :
              Fits(text, item, at, c) /\ Fits(text, item2, c, d) /\ Fits(text, item3, d, e) =>
                <<c, d, e>> \in M
<1>. DEFINE S == at..(Len(text) + 1)
            items == <<item, item2, item3>>
<1>0. Len(text) \in Nat
  BY LenProperties
<1>1. M = {f \in [1..3 -> S] :
             \A k \in 1..3 :
                  /\ f[k] - Begin(f, k, at) \in items[k].least..items[k].most
                  /\ \A j \in Begin(f, k, at)..(f[k] - 1) : text[j] \in items[k].class}
  <2>1. DOMAIN items = 1..3
    OBVIOUS
  <2>. HIDE DEF items
  <2>. DEFINE a == [items |-> items, ends |-> FALSE]
  <2>2. a.items = items /\ ~a.ends
    OBVIOUS
  <2>3. M = Matched(text, at, a)
    BY DEF items
  <2>. HIDE DEF a
  <2>. QED
    BY <2>1, <2>2, <2>3, Zenon DEF Matched
<1>2. M = {f \in [1..3 -> S] : /\ Fits(text, item, at, f[1]) /\ Fits(text, item2, f[1], f[2])
                               /\ Fits(text, item3, f[2], f[3])}
  <2>1. \A f : Begin(f, 1, at) = at /\ Begin(f, 2, at) = f[1] /\ Begin(f, 3, at) = f[2]
    BY DEF Begin
  <2>2. items[1] = item /\ items[2] = item2 /\ items[3] = item3
    OBVIOUS
  <2>3. /\ 1 \in 1..3 /\ 2 \in 1..3 /\ 3 \in 1..3
        /\ \A k \in 1..3 : k = 1 \/ k = 2 \/ k = 3
    OBVIOUS
  <2>. HIDE DEF items
  <2>4. \A f : (\A k \in 1..3 :
                  /\ f[k] - Begin(f, k, at) \in items[k].least..items[k].most
                  /\ \A j \in Begin(f, k, at)..(f[k] - 1) : text[j] \in items[k].class)
               <=> /\ Fits(text, item, at, f[1]) /\ Fits(text, item2, f[1], f[2])
                   /\ Fits(text, item3, f[2], f[3])
    BY <2>1, <2>2, <2>3, Zenon DEF Fits
  <2>. QED
    BY <1>1, <2>4, Zenon
<1>3. \A c, d, e \in S : /\ <<c, d, e>> \in [1..3 -> S]
                         /\ <<c, d, e>>[1] = c /\ <<c, d, e>>[2] = d /\ <<c, d, e>>[3] = e
  OBVIOUS
<1>4. \A f \in [1..3 -> S] : f[1] \in S /\ f[2] \in S /\ f[3] \in S /\ f \in [1..3 -> Int]
  BY <1>0
<1>. QED
  BY <1>2, <1>3, <1>4

(* What an alternative takes: n characters, or nothing if it cannot match. *)
Takes(text, at, alternative, n) ==
  LET matches == Matched(text, at, alternative)
  IN /\ n = 0 => matches = {}
     /\ n # 0 => /\ matches # {}
                 /\ Greediest(matches)[Len(alternative.items)] = at + n

(* An item of a class fits exactly as far as the run goes, within its      *)
(* own bounds.                                                             *)
LEMMA FitsRun ==
  ASSUME NEW C, NEW text \in Seq(C), NEW i \in 1..(Len(text) + 1), NEW class, NEW least \in Nat,
         NEW most \in Nat, NEW e \in i..(Len(text) + 1)
  PROVE  /\ Fits(text, Item(class, least, most), i, e)
              => e <= i + Run(text, i, class) /\ e <= i + most /\ e >= i + least
         /\ e <= i + Run(text, i, class) /\ e <= i + most /\ e >= i + least
              => Fits(text, Item(class, least, most), i, e)
<1>. DEFINE r == Run(text, i, class)
<1>1. Len(text) \in Nat /\ r \in Nat /\ \A j \in i..(i + r - 1) : text[j] \in class
  BY RunIs
<1>2. Fits(text, Item(class, least, most), i, e)
        <=> e - i \in least..most /\ \A j \in i..(e - 1) : text[j] \in class
  BY DEF Fits, Item
<1>3. e - i \in least..most <=> e <= i + most /\ e >= i + least
  BY <1>1
<1>4. (\A j \in i..(e - 1) : text[j] \in class) => e <= i + r
  BY RunLongest
<1>. HIDE DEF r
<1>5. e <= i + r => \A j \in i..(e - 1) : text[j] \in class
  <2>1. e <= i + r => \A j \in i..(e - 1) : j \in i..(i + r - 1)
    BY <1>1
  <2>. QED
    BY <1>1, <2>1
<1>. QED
  BY <1>2, <1>3, <1>4, <1>5 DEF r

(* One or more of a class take the run, or as much of it as the item       *)
(* may.                                                                    *)
LEMMA SomeTakes ==
  ASSUME NEW C, NEW text \in Seq(C), NEW at \in 1..Len(text), NEW class, NEW top \in Nat \ {0},
         NEW run, run = Run(text, at, class)
  PROVE  Takes(text, at, Plain(<<Item(class, 1, top)>>), IF run < top THEN run ELSE top)
<1>. DEFINE a == Plain(<<Item(class, 1, top)>>)
            M == Matched(text, at, a)
            n == IF run < top THEN run ELSE top
            N == Len(text)
<1>0. N \in Nat /\ run \in 0..(N - at + 1) /\ at \in 1..(N + 1)
  BY LenProperties, RunIs
<1>1. /\ M \in SUBSET [1..1 -> Int]
      /\ \A f \in M : f[1] \in at..(N + 1) /\ Fits(text, Item(class, 1, top), at, f[1])
      /\ \A e \in at..(N + 1) : Fits(text, Item(class, 1, top), at, e) => <<e>> \in M
  BY MatchOne DEF Plain, Closed
<1>2. Len(a.items) = 1
  BY DEF Plain
<1>. HIDE DEF M, a
<1>3. \A f \in M : f[1] \in Int /\ f[1] <= at + n /\ f[1] >= at + 1
  <2>. TAKE f \in M
  <2>1. f[1] <= at + run /\ f[1] <= at + top /\ f[1] >= at + 1
    BY <1>0, <1>1, FitsRun
  <2>2. f[1] \in Int
    BY <1>1
  <2>. QED
    BY <1>0, <2>1, <2>2
<1>4. n \in Nat /\ at + n \in at..(N + 1) /\ n <= run /\ n <= top
  BY <1>0
<1>. HIDE DEF n
<1>5. CASE n = 0
  <2>1. \A f \in M : FALSE
    BY <1>3, <1>5
  <2>. QED
    BY <1>5, <2>1 DEF Takes, M, a, n
<1>6. CASE n # 0
  <2>. DEFINE e == at + n
  <2>1. e \in at..(N + 1) /\ e <= at + run /\ e <= at + top /\ e >= at + 1
    BY <1>0, <1>4, <1>6
  <2>. HIDE DEF e
  <2>2. Fits(text, Item(class, 1, top), at, e)
    BY <1>0, <2>1, FitsRun
  <2>3. <<e>> \in M
    BY <1>1, <2>1, <2>2
  <2>4. \A f \in M : \A k \in 1..1 : f[k] <= <<e>>[k]
    BY <1>3 DEF e
  <2>5. Greediest(M) = <<e>>
    BY <1>1, <2>3, <2>4, GreediestIs
  <2>6. Greediest(M)[1] = at + n /\ M # {}
    BY <2>3, <2>5 DEF e
  <2>. QED
    BY <1>2, <1>6, <2>6 DEF Takes, M, a, n
<1>. QED
  BY <1>5, <1>6

(* Whitespace that no word may follow: Trailing gives one character back   *)
(* where one follows.                                                      *)
LEMMA TrailingTakes ==
  ASSUME NEW C, NEW text \in Seq(C), NEW at \in 1..Len(text)
  PROVE  Takes(text, at, [items |-> <<Some(Blanks, text)>>, ends |-> TRUE], Trailing(text, at))
<1>. DEFINE item == Item(Blanks, 1, Len(text))
            a == [items |-> <<item>>, ends |-> TRUE]
            M == Matched(text, at, a)
            N == Len(text)
            run == Run(text, at, Blanks)
            n == Trailing(text, at)
<1>0. /\ N \in Nat \ {0} /\ run \in 0..(N - at + 1) /\ at \in 1..(N + 1)
      /\ \A j \in at..(at + run - 1) : text[j] \in Blanks
      /\ at + run <= N => text[at + run] \notin Blanks
  BY LenProperties, RunIs
<1>1. /\ M \in SUBSET [1..1 -> Int]
      /\ \A f \in M : f[1] \in at..(N + 1) /\ Fits(text, item, at, f[1]) /\ Closed(text, TRUE, f[1])
      /\ \A e \in at..(N + 1) : Fits(text, item, at, e) /\ Closed(text, TRUE, e) => <<e>> \in M
  <2>. HIDE DEF item
  <2>. QED
    BY MatchOne
<1>2. Len(a.items) = 1
  OBVIOUS
<1>3. n = IF at + run > N THEN run ELSE IF run > 1 THEN run - 1 ELSE 0
  BY DEF Trailing
<1>. HIDE DEF M, a, run, n
<1>4. \A f \in M : f[1] \in Int /\ f[1] <= at + n /\ f[1] >= at + 1
  <2>. TAKE f \in M
  <2>. DEFINE e == f[1]
  <2>1. e \in at..(N + 1) /\ e <= at + run /\ e >= at + 1
    BY <1>0, <1>1, FitsRun DEF run
  <2>2. e > N \/ text[e] \in Blanks
    BY <1>1 DEF Closed
  <2>. HIDE DEF e
  <2>3. CASE at + run > N
    BY <1>0, <1>3, <2>1, <2>3 DEF e
  <2>4. CASE ~(at + run > N)
    <3>1. e # at + run
      BY <1>0, <2>1, <2>2, <2>4
    <3>. QED
      BY <1>0, <1>3, <2>1, <2>4, <3>1 DEF e
  <2>. QED
    BY <2>3, <2>4
<1>5. n \in Nat /\ n <= run /\ at + n \in at..(N + 1)
  BY <1>0, <1>3
<1>6. CASE n = 0
  <2>1. \A f \in M : FALSE
    BY <1>0, <1>4, <1>6
  <2>. QED
    BY <1>6, <2>1 DEF Takes, M, a, n, Some
<1>7. CASE n # 0
  <2>. DEFINE e == at + n
  <2>1. e \in at..(N + 1) /\ e <= at + run /\ e <= at + N /\ e >= at + 1
    BY <1>0, <1>5, <1>7
  <2>2. Closed(text, TRUE, e)
    <3>1. CASE at + run > N
      BY <1>0, <1>3, <3>1 DEF Closed
    <3>2. CASE ~(at + run > N)
      <4>1. e \in at..(at + run - 1)
        BY <1>0, <1>3, <1>7, <3>2
      <4>. QED
        BY <1>0, <4>1 DEF Closed
    <3>. QED
      BY <3>1, <3>2
  <2>. HIDE DEF e
  <2>3. Fits(text, item, at, e)
    BY <1>0, <2>1, FitsRun DEF run
  <2>4. <<e>> \in M
    BY <1>1, <2>1, <2>2, <2>3
  <2>5. \A f \in M : \A k \in 1..1 : f[k] <= <<e>>[k]
    BY <1>4 DEF e
  <2>6. Greediest(M) = <<e>>
    BY <1>1, <2>4, <2>5, GreediestIs
  <2>7. Greediest(M)[1] = at + n /\ M # {}
    BY <2>4, <2>6 DEF e
  <2>. QED
    BY <1>2, <1>7, <2>7 DEF Takes, M, a, n, Some
<1>. QED
  BY <1>6, <1>7

(* An optional character and a run of others: where the character is there *)
(* it is taken, since none of the run can begin with it.                   *)
LEMMA OptionalTakes ==
  ASSUME NEW C, NEW text \in Seq(C), NEW at \in 1..Len(text), NEW first, NEW class,
         first \cap class = {},
         NEW lead, lead = Leading(text, at, first),
         NEW run, run = Run(text, at + lead, class)
  PROVE  Takes(text, at, Plain(<<Optional(first), Some(class, text)>>),
               IF run > 0 THEN lead + run ELSE 0)
<1>. DEFINE item == Item(first, 0, 1)
            item2 == Item(class, 1, Len(text))
            a == Plain(<<item, item2>>)
            M == Matched(text, at, a)
            N == Len(text)
            n == IF run > 0 THEN lead + run ELSE 0
<1>0. /\ N \in Nat \ {0} /\ at \in 1..(N + 1) /\ lead \in {0, 1} /\ at + lead \in 1..(N + 1)
      /\ lead = IF text[at] \in first THEN 1 ELSE 0
  BY LenProperties, LeadingIs DEF Leading
<1>1. /\ run \in 0..(N - (at + lead) + 1)
      /\ at + lead <= N /\ run = 0 => text[at + lead] \notin class
  <2>. DEFINE i == at + lead
  <2>1. i \in 1..(N + 1) /\ run = Run(text, i, class)
    BY <1>0
  <2>. HIDE DEF i
  <2>2. run \in 0..(N - i + 1) /\ (i + run <= N => text[i + run] \notin class)
    BY <2>1, RunIs
  <2>. QED
    BY <1>0, <2>1, <2>2 DEF i
<1>2. /\ M \in SUBSET [1..2 -> Int]
      /\ \A f \in M : /\ f[1] \in at..(N + 1) /\ f[2] \in at..(N + 1)
                      /\ Fits(text, item, at, f[1]) /\ Fits(text, item2, f[1], f[2])
      /\ \A d, e \in at..(N + 1) :
           Fits(text, item, at, d) /\ Fits(text, item2, d, e) => <<d, e>> \in M
  <2>. HIDE DEF item, item2
  <2>. QED
    BY MatchTwo DEF Plain
<1>3. Len(a.items) = 2
  BY DEF Plain
<1>. HIDE DEF M, a
<1>4. \A f \in M : /\ f[1] \in Int /\ f[2] \in Int /\ f[1] = at + lead /\ run > 0
                   /\ f[2] <= at + lead + run
  <2>. TAKE f \in M
  <2>. DEFINE d == f[1]
              e == f[2]
  <2>1. d \in at..(N + 1) /\ e \in at..(N + 1) /\ Fits(text, item, at, d) /\ Fits(text, item2, d, e)
    BY <1>2
  <2>. HIDE DEF d, e
  <2>2. /\ d - at \in 0..1 /\ \A j \in at..(d - 1) : text[j] \in first
        /\ e - d \in 1..N /\ \A j \in d..(e - 1) : text[j] \in class
    BY <2>1 DEF Fits, Item
  <2>3. text[d] \in class /\ (d = at + 1 => text[at] \in first)
    <3>1. d \in d..(e - 1) /\ (d = at + 1 => at \in at..(d - 1))
      BY <1>0, <2>1, <2>2
    <3>. QED
      BY <2>2, <3>1
  <2>4. d = at + lead
    <3>1. d = at \/ d = at + 1
      BY <1>0, <2>1, <2>2
    <3>2. CASE d = at
      <4>1. text[at] \notin first
        BY <2>3, <3>2
      <4>. QED
        BY <1>0, <3>2, <4>1
    <3>3. CASE d = at + 1
      BY <1>0, <2>3, <3>3
    <3>. QED
      BY <3>1, <3>2, <3>3
  <2>5. d \in 1..(N + 1) /\ e \in d..(N + 1)
    BY <1>0, <2>1, <2>2
  <2>6. e <= d + run
    <3>1. run = Run(text, d, class)
      BY <2>4
    <3>. QED
      BY <2>2, <2>5, <3>1, RunLongest
  <2>7. run > 0
    BY <1>1, <2>2, <2>5, <2>6
  <2>. QED
    BY <2>4, <2>5, <2>6, <2>7 DEF d, e
<1>5. CASE ~(run > 0)
  <2>1. n = 0 /\ \A f \in M : FALSE
    BY <1>4, <1>5
  <2>. QED
    BY <2>1 DEF Takes, M, a, n, Some, Optional
<1>6. CASE run > 0
  <2>. DEFINE d == at + lead
              e == at + lead + run
  <2>1. d \in at..(N + 1) /\ e \in at..(N + 1) /\ d \in 1..(N + 1) /\ e \in d..(N + 1)
        /\ e - d = run /\ e = d + run
    BY <1>0, <1>1, <1>6
  <2>2. Fits(text, item, at, d)
    <3>1. CASE lead = 0
      <4>1. d - at \in 0..1 /\ \A j \in at..(d - 1) : text[j] \in first
        BY <1>0, <3>1
      <4>. QED
        BY <4>1 DEF Fits, Item
    <3>2. CASE lead = 1
      <4>1. d - at \in 0..1 /\ text[at] \in first /\ \A j \in at..(d - 1) : j = at
        BY <1>0, <3>2
      <4>2. \A j \in at..(d - 1) : text[j] \in first
        BY <4>1
      <4>. HIDE DEF d
      <4>. QED
        BY <4>1, <4>2 DEF Fits, Item
    <3>. QED
      BY <1>0, <3>1, <3>2
  <2>. HIDE DEF d, e
  <2>3. Fits(text, item2, d, e)
    <3>1. run = Run(text, d, class)
      BY DEF d
    <3>2. e <= d + run /\ e <= d + N /\ e >= d + 1
      BY SMTT(30), <1>0, <1>1, <1>6, <2>1
    <3>. QED
      BY <1>0, <2>1, <3>1, <3>2, FitsRun
  <2>4. <<d, e>> \in M
    BY <1>2, <2>1, <2>2, <2>3
  <2>5. \A f \in M : f[1] <= d /\ f[2] <= e
    BY <1>4 DEF d, e
  <2>6. \A f \in M : \A k \in 1..2 : f[k] <= <<d, e>>[k]
    <3>1. <<d, e>>[1] = d /\ <<d, e>>[2] = e /\ \A k \in 1..2 : k = 1 \/ k = 2
      OBVIOUS
    <3>. QED
      BY <2>5, <3>1
  <2>7. Greediest(M) = <<d, e>>
    BY ZenonT(30), <1>2, <2>4, <2>6, GreediestIs
  <2>8. Greediest(M)[2] = at + n /\ M # {}
    <3>1. Greediest(M)[2] = e
      BY <2>7
    <3>2. e = at + n
      BY <1>0, <1>1, <1>6 DEF e
    <3>. QED
      BY <2>4, <3>1, <3>2
  <2>9. n # 0
    BY <1>0, <1>1, <1>6
  <2>. QED
    BY <1>3, <2>8, <2>9 DEF Takes, M, a, n, Some, Optional
<1>. QED
  BY <1>5, <1>6

(* The same, and a run of a third class after it.                          *)
LEMMA ThreeTake ==
  ASSUME NEW C, NEW text \in Seq(C), NEW at \in 1..Len(text), NEW first, NEW class, NEW last,
         first \cap class = {},
         NEW lead, lead = Leading(text, at, first),
         NEW run, run = Run(text, at + lead, class),
         NEW after, after = Run(text, at + lead + run, last)
  PROVE  Takes(text, at, Plain(<<Optional(first), Some(class, text), Many(last, text)>>),
               IF run > 0 THEN lead + run + after ELSE 0)
<1>. DEFINE item == Item(first, 0, 1)
            item2 == Item(class, 1, Len(text))
            item3 == Item(last, 0, Len(text))
            a == Plain(<<item, item2, item3>>)
            M == Matched(text, at, a)
            N == Len(text)
            n == IF run > 0 THEN lead + run + after ELSE 0
<1>0. /\ N \in Nat \ {0} /\ at \in 1..(N + 1) /\ lead \in {0, 1} /\ at + lead \in 1..(N + 1)
      /\ lead = IF text[at] \in first THEN 1 ELSE 0
  BY LenProperties, LeadingIs DEF Leading
<1>1. run \in 0..(N - (at + lead) + 1) /\ after \in 0..(N - (at + lead + run) + 1)
  <2>. DEFINE i == at + lead
              k == at + lead + run
  <2>1. i \in 1..(N + 1) /\ run = Run(text, i, class)
    BY <1>0
  <2>. HIDE DEF i
  <2>2. run \in 0..(N - i + 1)
    BY <2>1, RunIs
  <2>3. k \in 1..(N + 1) /\ after = Run(text, k, last)
    BY <1>0, <2>1, <2>2 DEF i
  <2>. HIDE DEF k
  <2>4. after \in 0..(N - k + 1)
    BY <2>3, RunIs
  <2>. QED
    BY <1>0, <2>2, <2>4 DEF i, k
<1>9. run \in Nat /\ run <= N /\ after \in Nat /\ after <= N
  BY <1>0, <1>1
<1>2. /\ M \in SUBSET [1..3 -> Int]
      /\ \A f \in M : /\ f[1] \in at..(N + 1) /\ f[2] \in at..(N + 1) /\ f[3] \in at..(N + 1)
                      /\ Fits(text, item, at, f[1]) /\ Fits(text, item2, f[1], f[2])
                      /\ Fits(text, item3, f[2], f[3])
      /\ \A c, d, e \in at..(N + 1) :
           Fits(text, item, at, c) /\ Fits(text, item2, c, d) /\ Fits(text, item3, d, e) =>
             <<c, d, e>> \in M
  <2>. HIDE DEF item, item2, item3
  <2>. QED
    BY MatchThree DEF Plain
<1>3. Len(a.items) = 3
  BY DEF Plain
<1>. HIDE DEF M, a
<1>4. \A f \in M : /\ f[1] \in Int /\ f[2] \in Int /\ f[1] = at + lead /\ run > 0
                   /\ f[2] <= at + lead + run
                   /\ f[2] = at + lead + run => f[3] <= at + lead + run + after
  <2>. TAKE f \in M
  <2>. DEFINE d == f[1]
              e == f[2]
              z == f[3]
  <2>1. /\ d \in at..(N + 1) /\ e \in at..(N + 1) /\ z \in at..(N + 1)
        /\ Fits(text, item, at, d) /\ Fits(text, item2, d, e) /\ Fits(text, item3, e, z)
    BY <1>2
  <2>. HIDE DEF d, e, z
  <2>2. /\ d - at \in 0..1 /\ \A j \in at..(d - 1) : text[j] \in first
        /\ e - d \in 1..N /\ \A j \in d..(e - 1) : text[j] \in class
        /\ z - e \in 0..N /\ \A j \in e..(z - 1) : text[j] \in last
    BY <2>1 DEF Fits, Item
  <2>3. text[d] \in class /\ (d = at + 1 => text[at] \in first)
    <3>1. d \in d..(e - 1) /\ (d = at + 1 => at \in at..(d - 1))
      <4>1. at \in Int /\ d \in Int /\ e \in Int /\ e - d >= 1
        BY <1>0, <2>1, <2>2
      <4>. QED
        BY <4>1
    <3>. QED
      BY <2>2, <3>1
  <2>4. d = at + lead
    <3>1. d = at \/ d = at + 1
      BY <1>0, <2>1, <2>2
    <3>2. CASE d = at
      <4>1. text[at] \notin first
        BY <2>3, <3>2
      <4>. QED
        BY <1>0, <3>2, <4>1
    <3>3. CASE d = at + 1
      BY <1>0, <2>3, <3>3
    <3>. QED
      BY <3>1, <3>2, <3>3
  <2>5. d \in 1..(N + 1) /\ e \in d..(N + 1) /\ e \in 1..(N + 1) /\ z \in e..(N + 1)
    BY <1>0, <2>1, <2>2
  <2>6. e <= d + run
    <3>1. run = Run(text, d, class)
      BY <2>4
    <3>. QED
      BY <2>2, <2>5, <3>1, RunLongest
  <2>7. run > 0
    BY <1>1, <2>2, <2>5, <2>6
  <2>8. ASSUME e = at + lead + run PROVE z <= e + after
    <3>1. after = Run(text, e, last)
      BY <2>8
    <3>. QED
      BY <2>2, <2>5, <3>1, RunLongest
  <2>. QED
    BY <2>4, <2>5, <2>6, <2>7, <2>8 DEF d, e, z
<1>5. CASE ~(run > 0)
  <2>1. n = 0 /\ \A f \in M : FALSE
    BY <1>4, <1>5
  <2>. QED
    BY <2>1 DEF Takes, M, a, n, Some, Optional, Many
<1>6. CASE run > 0
  <2>. DEFINE d == at + lead
              e == at + lead + run
              z == at + lead + run + after
  <2>1. /\ d \in at..(N + 1) /\ e \in at..(N + 1) /\ z \in at..(N + 1)
        /\ d \in 1..(N + 1) /\ e \in d..(N + 1) /\ e \in 1..(N + 1) /\ z \in e..(N + 1)
        /\ e = d + run /\ z = e + after
        /\ e <= d + N /\ e >= d + 1 /\ z <= e + N /\ z >= e + 0
        /\ e <= d + run /\ z <= e + after
    <3>1. /\ at \in Nat /\ at >= 1 /\ lead \in Nat /\ run \in Nat /\ run >= 1 /\ after \in Nat
          /\ N \in Nat /\ run <= N /\ after <= N /\ at + lead + run + after <= N + 1
      BY <1>0, <1>1, <1>6, <1>9
    <3>. HIDE DEF N
    <3>2. d \in Int /\ e \in Int /\ z \in Int
      BY SMTT(30), <3>1
    <3>3. d >= at /\ e >= d + 1 /\ z >= e /\ z <= N + 1
      BY SMTT(30), <3>1
    <3>4. e = d + run /\ z = e + after
      BY <3>1
    <3>. HIDE DEF d, e, z
    <3>5. d \in at..(N + 1) /\ e \in at..(N + 1) /\ z \in at..(N + 1)
      BY <3>1, <3>2, <3>3
    <3>6. d \in 1..(N + 1) /\ e \in d..(N + 1) /\ e \in 1..(N + 1) /\ z \in e..(N + 1)
      BY <3>1, <3>2, <3>3
    <3>7. e >= d + 1 /\ z >= e + 0 /\ e <= d + run /\ z <= e + after
      BY <3>2, <3>3, <3>4
    <3>9. e <= d + N /\ z <= e + N
      BY <3>1, <3>2, <3>3
    <3>. QED
      BY <3>4, <3>5, <3>6, <3>7, <3>9
  <2>2. Fits(text, item, at, d)
    <3>1. CASE lead = 0
      <4>1. d - at \in 0..1 /\ \A j \in at..(d - 1) : text[j] \in first
        BY <1>0, <3>1
      <4>. QED
        BY <4>1 DEF Fits, Item
    <3>2. CASE lead = 1
      <4>1. d - at \in 0..1 /\ text[at] \in first /\ \A j \in at..(d - 1) : j = at
        BY <1>0, <3>2
      <4>2. \A j \in at..(d - 1) : text[j] \in first
        BY <4>1
      <4>. HIDE DEF d
      <4>. QED
        BY <4>1, <4>2 DEF Fits, Item
    <3>. QED
      BY <1>0, <3>1, <3>2
  <2>0. run = Run(text, d, class) /\ after = Run(text, e, last)
    OBVIOUS
  <2>. HIDE DEF d, e, z
  <2>3. Fits(text, item2, d, e)
    <3>1. e <= d + run /\ e <= d + N /\ e >= d + 1
      BY <2>1
    <3>. QED
      BY <1>0, <2>0, <2>1, <3>1, FitsRun
  <2>10. Fits(text, item3, e, z)
    <3>1. z <= e + after /\ z <= e + N /\ z >= e + 0
      BY <2>1
    <3>. QED
      BY <1>0, <2>0, <2>1, <3>1, FitsRun
  <2>4. <<d, e, z>> \in M
    BY <1>2, <2>1, <2>2, <2>3, <2>10
  <2>5. \A f \in M : f[1] = d /\ f[2] <= e /\ (f[2] = e => f[3] <= z)
    BY <1>4 DEF d, e, z
  <2>6. \A f \in M : \A k \in 1..3 :
          (\A j \in 1..(k - 1) : f[j] = <<d, e, z>>[j]) => f[k] <= <<d, e, z>>[k]
    <3>1. /\ <<d, e, z>>[1] = d /\ <<d, e, z>>[2] = e /\ <<d, e, z>>[3] = z
          /\ \A k \in 1..3 : k = 1 \/ k = 2 \/ k = 3
      OBVIOUS
    <3>2. 2 \in 1..(3 - 1) /\ d <= d
      BY <2>1
    <3>. QED
      BY <2>5, <3>1, <3>2
  <2>7. Greediest(M) = <<d, e, z>>
    BY ZenonT(30), <1>2, <2>4, <2>6, GreediestIs
  <2>8. Greediest(M)[3] = at + n /\ M # {}
    <3>1. Greediest(M)[3] = z
      BY <2>7
    <3>2. z = at + n
      BY <1>0, <1>1, <1>6 DEF z
    <3>. QED
      BY <2>4, <3>1, <3>2
  <2>9. n # 0
    BY <1>0, <1>1, <1>6
  <2>. QED
    BY <1>3, <2>8, <2>9 DEF Takes, M, a, n, Some, Optional, Many
<1>. QED
  BY <1>5, <1>6

(* Whitespace and then line breaks, which are whitespace too: backtracking *)
(* gives the last line break of the run back, and no more.                 *)
LEMMA BreaksTake ==
  ASSUME NEW C, NEW text \in Seq(C), NEW at \in 1..Len(text), NEW pattern, pattern # "Gpt2",
         \A j \in 1..Len(text) : text[j] \in Newlines => text[j] \in Blanks
  PROVE  Takes(text, at, Plain(<<Many(Blanks, text), Some(Newlines, text)>>),
               Breaks(text, at, pattern))
<1>. DEFINE item == Item(Blanks, 0, Len(text))
            item2 == Item(Newlines, 1, Len(text))
            a == Plain(<<item, item2>>)
            M == Matched(text, at, a)
            N == Len(text)
            run == Run(text, at, Blanks)
            S == {0} \cup {k \in 1..run : text[at + k - 1] \in Newlines}
            n == Breaks(text, at, pattern)
<1>0. /\ N \in Nat \ {0} /\ at \in 1..(N + 1) /\ run \in 0..(N - at + 1)
      /\ \A j \in at..(at + run - 1) : text[j] \in Blanks
  BY LenProperties, RunIs
<1>1. n \in S /\ \A k \in S : k <= n
  <2>1. S \in SUBSET (0..run) /\ S # {} /\ run \in Nat
    BY <1>0
  <2>2. n = Max(S)
    BY DEF Breaks
  <2>. HIDE DEF S, n
  <2>. QED
    BY <2>1, <2>2, MaxIs
<1>2. /\ M \in SUBSET [1..2 -> Int]
      /\ \A f \in M : /\ f[1] \in at..(N + 1) /\ f[2] \in at..(N + 1)
                      /\ Fits(text, item, at, f[1]) /\ Fits(text, item2, f[1], f[2])
      /\ \A d, e \in at..(N + 1) :
           Fits(text, item, at, d) /\ Fits(text, item2, d, e) => <<d, e>> \in M
  <2>. HIDE DEF item, item2
  <2>. QED
    BY MatchTwo DEF Plain
<1>3. Len(a.items) = 2
  BY DEF Plain
<1>. HIDE DEF M, a, n
<1>4. \A f \in M : f[1] \in Int /\ f[2] \in Int /\ f[2] <= at + n /\ f[1] <= f[2] - 1 /\ n # 0
  <2>. TAKE f \in M
  <2>. DEFINE d == f[1]
              e == f[2]
  <2>1. d \in at..(N + 1) /\ e \in at..(N + 1) /\ Fits(text, item, at, d) /\ Fits(text, item2, d, e)
    BY <1>2
  <2>. HIDE DEF d, e
  <2>2. /\ \A j \in at..(d - 1) : text[j] \in Blanks
        /\ e - d \in 1..N /\ \A j \in d..(e - 1) : text[j] \in Newlines
    BY <2>1 DEF Fits, Item
  <2>3. \A j \in at..(e - 1) : text[j] \in Blanks
    <3>. TAKE j \in at..(e - 1)
    <3>1. j \in at..(d - 1) \/ (j \in d..(e - 1) /\ j \in 1..N)
      BY <1>0, <2>1
    <3>. QED
      BY <2>2, <3>1
  <2>4. e <= at + run
    BY <1>0, <2>1, <2>3, RunLongest
  <2>5. e - at \in 1..run /\ at + (e - at) - 1 = e - 1 /\ e - 1 \in d..(e - 1)
    BY <1>0, <2>1, <2>2, <2>4
  <2>6. e - at \in S
    BY <2>2, <2>5
  <2>7. e - at <= n /\ n \in Nat
    <3>1. n \in Nat
      BY <1>0, <1>1
    <3>. HIDE DEF S
    <3>. QED
      BY <1>1, <2>6, <3>1
  <2>. HIDE DEF S
  <2>8. e <= at + n /\ d <= e - 1 /\ n # 0
    BY <1>0, <2>1, <2>2, <2>5, <2>7
  <2>. QED
    BY <2>1, <2>8 DEF d, e
<1>5. CASE n = 0
  <2>1. \A f \in M : FALSE
    BY <1>4, <1>5
  <2>. QED
    BY <1>5, <2>1 DEF Takes, M, a, n, Some, Many
<1>6. CASE n # 0
  <2>. DEFINE d == at + n - 1
              e == at + n
  <2>0. n \in 1..run /\ text[d] \in Newlines
    BY <1>1, <1>6
  <2>1. /\ d \in at..(N + 1) /\ e \in at..(N + 1) /\ d \in 1..(N + 1) /\ e \in d..(N + 1)
        /\ e - d = 1 /\ e - 1 = d /\ d <= at + run /\ d <= at + N /\ d >= at + 0
    BY <1>0, <2>0
  <2>. HIDE DEF S, d, e
  <2>2. Fits(text, item, at, d)
    BY <1>0, <2>1, FitsRun
  <2>3. Fits(text, item2, d, e)
    <3>1. e - d \in 1..N /\ \A j \in d..(e - 1) : j = d
      BY <1>0, <2>1
    <3>. QED
      BY <2>0, <3>1 DEF Fits, Item
  <2>4. <<d, e>> \in M
    BY <1>2, <2>1, <2>2, <2>3
  <2>5. \A f \in M : f[1] <= d /\ f[2] <= e
    <3>. TAKE f \in M
    <3>1. f[1] \in Int /\ f[2] \in Int /\ f[2] <= e /\ f[1] <= f[2] - 1
      BY <1>4 DEF e
    <3>. QED
      BY <2>1, <3>1
  <2>6. \A f \in M : \A k \in 1..2 : f[k] <= <<d, e>>[k]
    <3>1. <<d, e>>[1] = d /\ <<d, e>>[2] = e /\ \A k \in 1..2 : k = 1 \/ k = 2
      OBVIOUS
    <3>. QED
      BY <2>5, <3>1
  <2>7. Greediest(M) = <<d, e>>
    BY <1>2, <2>4, <2>6, GreediestIs
  <2>8. Greediest(M)[2] = at + n /\ M # {}
    BY <2>4, <2>7 DEF e
  <2>. QED
    BY <1>3, <1>6, <2>8 DEF Takes, M, a, n, Some, Many
<1>. QED
  BY <1>5, <1>6

(* A character as the contractions compare it.                             *)
Fold(c, pattern) == IF pattern # "Gpt2" /\ c \in Letters THEN Lower[c] ELSE c

(* The class of a letter in either case holds what folds to the letter:    *)
(* Lower leaves these letters alone.                                       *)
LEMMA FoldIs ==
  ASSUME NEW c \in {"s", "t", "m", "d", "r", "e", "v", "l"}, NEW pattern, NEW x
  PROVE  x \in Cases(c, pattern) <=> Fold(x, pattern) = c
<1>1. \A d \in Letters \cap {"s", "t", "m", "d", "r", "e", "v", "l"} : Lower[d] = d
  BY CharacterAssumption
<1>2. c \in Letters => Lower[c] = c
  BY <1>1
<1>3. x \in Cases(c, pattern) <=> IF pattern = "Gpt2" THEN x = c ELSE (x \in Letters /\ Lower[x] = c) \/ x = c
  BY DEF Cases
<1>. QED
  BY <1>2, <1>3 DEF Fold

(* An item that takes one character takes one.                             *)
LEMMA FitsOnce ==
  ASSUME NEW text, NEW class, NEW i \in Nat, NEW e \in Nat
  PROVE  Fits(text, Once(class), i, e) <=> e = i + 1 /\ text[i] \in class
<1>1. Fits(text, Once(class), i, e)
        <=> e - i \in 1..1 /\ \A j \in i..(e - 1) : text[j] \in class
  BY DEF Fits, Once, Item
<1>2. e - i \in 1..1 <=> e = i + 1
  OBVIOUS
<1>3. e = i + 1 => \A j : j \in i..(e - 1) <=> j = i
  OBVIOUS
<1>. QED
  BY <1>1, <1>2, <1>3

(* Two single characters.                                                  *)
LEMMA TwoTake ==
  ASSUME NEW C, NEW text \in Seq(C), NEW at \in 1..Len(text), NEW class, NEW class2
  PROVE  Takes(text, at, Plain(<<Once(class), Once(class2)>>),
               IF text[at] \in class /\ at + 1 <= Len(text) /\ text[at + 1] \in class2
               THEN 2 ELSE 0)
<1>. DEFINE item == Once(class)
            item2 == Once(class2)
            a == Plain(<<item, item2>>)
            M == Matched(text, at, a)
            N == Len(text)
            Is == text[at] \in class /\ at + 1 <= N /\ text[at + 1] \in class2
<1>0. N \in Nat /\ at \in Nat /\ at >= 1
  BY LenProperties
<1>2. /\ M \in SUBSET [1..2 -> Int]
      /\ \A f \in M : /\ f[1] \in at..(N + 1) /\ f[2] \in at..(N + 1)
                      /\ Fits(text, item, at, f[1]) /\ Fits(text, item2, f[1], f[2])
      /\ \A d, e \in at..(N + 1) :
           Fits(text, item, at, d) /\ Fits(text, item2, d, e) => <<d, e>> \in M
  <2>. HIDE DEF item, item2
  <2>. QED
    BY MatchTwo DEF Plain
<1>3. Len(a.items) = 2
  BY DEF Plain
<1>. HIDE DEF M, a
<1>4. \A f \in M : f[1] = at + 1 /\ f[2] = at + 2 /\ Is
  <2>. TAKE f \in M
  <2>. DEFINE d == f[1]
              e == f[2]
  <2>1. d \in at..(N + 1) /\ e \in at..(N + 1) /\ Fits(text, item, at, d) /\ Fits(text, item2, d, e)
    BY <1>2
  <2>. HIDE DEF d, e
  <2>2. d \in Nat /\ e \in Nat
    BY <1>0, <2>1
  <2>3. d = at + 1 /\ text[at] \in class /\ e = d + 1 /\ text[d] \in class2
    BY <1>0, <2>1, <2>2, FitsOnce
  <2>4. e = at + 2 /\ at + 1 <= N
    BY <1>0, <2>1, <2>2, <2>3
  <2>. QED
    BY <2>3, <2>4 DEF d, e
<1>5. CASE ~Is
  <2>1. \A f \in M : FALSE
    BY <1>4, <1>5
  <2>2. Takes(text, at, a, 0)
    BY <2>1 DEF Takes, M
  <2>. QED
    BY <1>5, <2>2 DEF a
<1>6. CASE Is
  <2>. DEFINE d == at + 1
              e == at + 2
  <2>1. d \in at..(N + 1) /\ e \in at..(N + 1) /\ d \in Nat /\ e \in Nat /\ e = d + 1
    BY <1>0, <1>6
  <2>2. text[at] \in class /\ text[d] \in class2
    BY <1>6
  <2>3. d = at + 1
    OBVIOUS
  <2>. HIDE DEF d, e, Is
  <2>4. Fits(text, item, at, d)
    BY <1>0, <2>1, <2>2, <2>3, FitsOnce
  <2>5. Fits(text, item2, d, e)
    BY <2>1, <2>2, FitsOnce
  <2>6. <<d, e>> \in M
    BY <1>2, <2>1, <2>4, <2>5
  <2>7. \A f \in M : f = <<d, e>>
    <3>. TAKE f \in M
    <3>1. f \in [1..2 -> Int] /\ f[1] = d /\ f[2] = e
      BY <1>2, <1>4 DEF d, e
    <3>. QED
      BY <3>1
  <2>8. \A f \in M : \A k \in 1..2 : f[k] <= <<d, e>>[k]
    <3>1. <<d, e>>[1] = d /\ <<d, e>>[2] = e /\ \A k \in 1..2 : k = 1 \/ k = 2
      OBVIOUS
    <3>2. d <= d /\ e <= e
      BY <2>1
    <3>. QED
      BY <2>7, <3>1, <3>2
  <2>9. Greediest(M) = <<d, e>>
    BY <1>2, <2>6, <2>8, GreediestIs
  <2>10. Greediest(M)[2] = at + 2 /\ M # {}
    BY <2>6, <2>9 DEF e
  <2>11. Takes(text, at, a, 2)
    BY <1>3, <2>10 DEF Takes, M
  <2>. QED
    BY <1>6, <2>11 DEF a, Is
<1>. QED
  BY <1>5, <1>6

(* Three single characters.                                                *)
LEMMA OnceThree ==
  ASSUME NEW C, NEW text \in Seq(C), NEW at \in 1..Len(text), NEW class, NEW class2, NEW class3
  PROVE  Takes(text, at, Plain(<<Once(class), Once(class2), Once(class3)>>),
               IF /\ text[at] \in class /\ at + 2 <= Len(text)
                  /\ text[at + 1] \in class2 /\ text[at + 2] \in class3
               THEN 3 ELSE 0)
<1>. DEFINE item == Once(class)
            item2 == Once(class2)
            item3 == Once(class3)
            a == Plain(<<item, item2, item3>>)
            M == Matched(text, at, a)
            N == Len(text)
            Is == /\ text[at] \in class /\ at + 2 <= Len(text)
                  /\ text[at + 1] \in class2 /\ text[at + 2] \in class3
<1>0. N \in Nat /\ at \in Nat /\ at >= 1
  BY LenProperties
<1>2. /\ M \in SUBSET [1..3 -> Int]
      /\ \A f \in M : /\ f[1] \in at..(N + 1) /\ f[2] \in at..(N + 1) /\ f[3] \in at..(N + 1)
                      /\ Fits(text, item, at, f[1]) /\ Fits(text, item2, f[1], f[2])
                      /\ Fits(text, item3, f[2], f[3])
      /\ \A c, d, e \in at..(N + 1) :
           Fits(text, item, at, c) /\ Fits(text, item2, c, d) /\ Fits(text, item3, d, e) =>
             <<c, d, e>> \in M
  <2>. HIDE DEF item, item2, item3
  <2>. QED
    BY MatchThree DEF Plain
<1>3. Len(a.items) = 3
  BY DEF Plain
<1>. HIDE DEF M, a
<1>4. \A f \in M : f[1] = at + 1 /\ f[2] = at + 2 /\ f[3] = at + 3 /\ Is
  <2>. TAKE f \in M
  <2>. DEFINE c == f[1]
              d == f[2]
              e == f[3]
  <2>1. /\ c \in at..(N + 1) /\ d \in at..(N + 1) /\ e \in at..(N + 1)
        /\ Fits(text, item, at, c) /\ Fits(text, item2, c, d) /\ Fits(text, item3, d, e)
    BY <1>2
  <2>. HIDE DEF c, d, e
  <2>2. c \in Nat /\ d \in Nat /\ e \in Nat
    BY <1>0, <2>1
  <2>3. /\ c = at + 1 /\ text[at] \in class /\ d = c + 1 /\ text[c] \in class2
        /\ e = d + 1 /\ text[d] \in class3
    BY <1>0, <2>1, <2>2, FitsOnce
  <2>4. d = at + 2 /\ e = at + 3 /\ at + 2 <= N
    BY <1>0, <2>1, <2>2, <2>3
  <2>. QED
    BY <2>3, <2>4 DEF c, d, e
<1>5. CASE ~Is
  <2>1. \A f \in M : FALSE
    BY <1>4, <1>5
  <2>2. Takes(text, at, a, 0)
    BY <2>1 DEF Takes, M
  <2>. QED
    BY <1>5, <2>2 DEF a
<1>6. CASE Is
  <2>. DEFINE c == at + 1
              d == at + 2
              e == at + 3
  <2>1. /\ c \in at..(N + 1) /\ d \in at..(N + 1) /\ e \in at..(N + 1)
        /\ c \in Nat /\ d \in Nat /\ e \in Nat /\ d = c + 1 /\ e = d + 1
    BY <1>0, <1>6
  <2>2. text[at] \in class /\ text[c] \in class2 /\ text[d] \in class3
    BY <1>6
  <2>3. c = at + 1
    OBVIOUS
  <2>. HIDE DEF c, d, e, Is
  <2>4. Fits(text, item, at, c)
    BY <1>0, <2>1, <2>2, <2>3, FitsOnce
  <2>5. Fits(text, item2, c, d)
    BY <2>1, <2>2, FitsOnce
  <2>12. Fits(text, item3, d, e)
    BY <2>1, <2>2, FitsOnce
  <2>6. <<c, d, e>> \in M
    BY <1>2, <2>1, <2>4, <2>5, <2>12
  <2>7. \A f \in M : f = <<c, d, e>>
    <3>. TAKE f \in M
    <3>1. f \in [1..3 -> Int] /\ f[1] = c /\ f[2] = d /\ f[3] = e
      BY <1>2, <1>4 DEF c, d, e
    <3>. QED
      BY <3>1
  <2>8. \A f \in M : \A k \in 1..3 : f[k] <= <<c, d, e>>[k]
    <3>1. /\ <<c, d, e>>[1] = c /\ <<c, d, e>>[2] = d /\ <<c, d, e>>[3] = e
          /\ \A k \in 1..3 : k = 1 \/ k = 2 \/ k = 3
      OBVIOUS
    <3>2. c <= c /\ d <= d /\ e <= e
      BY <2>1
    <3>. QED
      BY <2>7, <3>1, <3>2
  <2>9. Greediest(M) = <<c, d, e>>
    BY <1>2, <2>6, <2>8, GreediestIs
  <2>10. Greediest(M)[3] = at + 3 /\ M # {}
    BY <2>6, <2>9 DEF e
  <2>11. Takes(text, at, a, 3)
    BY <1>3, <2>10 DEF Takes, M
  <2>. QED
    BY <1>6, <2>11 DEF a, Is
<1>. QED
  BY <1>5, <1>6

(* An apostrophe and one letter, in either case.                           *)
Short(text, at, c, pattern) ==
  /\ text[at] = "'" /\ at + 1 <= Len(text) /\ Fold(text[at + 1], pattern) = c

(* An apostrophe and two letters, in either case.                          *)
Long(text, at, c, d, pattern) ==
  /\ text[at] = "'" /\ at + 2 <= Len(text)
  /\ Fold(text[at + 1], pattern) = c /\ Fold(text[at + 2], pattern) = d

(* Two short sequences, joined.                                            *)
LEMMA PairAfter ==
  ASSUME NEW a, NEW b, NEW c
  PROVE  <<a>> \o <<b>> = <<a, b>> /\ <<a>> \o <<b, c>> = <<a, b, c>>
<1>. DEFINE S == {a, b, c}
            s == <<a>>
            u == <<b>>
            t == <<b, c>>
            r == <<a, b>>
            v == <<a, b, c>>
<1>1. s \in Seq(S) /\ u \in Seq(S) /\ t \in Seq(S) /\ r \in Seq(S) /\ v \in Seq(S)
  OBVIOUS
<1>2. /\ Len(s) = 1 /\ Len(u) = 1 /\ Len(t) = 2 /\ Len(r) = 2 /\ Len(v) = 3
      /\ s[1] = a /\ u[1] = b /\ t[1] = b /\ t[2] = c /\ r[1] = a /\ r[2] = b
      /\ v[1] = a /\ v[2] = b /\ v[3] = c
  OBVIOUS
<1>. HIDE DEF s, t, u, r, v, S
<1>3. /\ s \o u \in Seq(S) /\ Len(s \o u) = 2 /\ (s \o u)[1] = a /\ (s \o u)[2] = b
  <2>1. /\ s \o u \in Seq(S) /\ Len(s \o u) = Len(s) + Len(u)
        /\ \A i \in 1..(Len(s) + Len(u)) :
             (s \o u)[i] = IF i <= Len(s) THEN s[i] ELSE u[i - Len(s)]
    BY <1>1, ConcatProperties
  <2>2. 1 \in 1..2 /\ 2 \in 1..2 /\ 1 <= 1 /\ ~(2 <= 1) /\ 2 - 1 = 1
    OBVIOUS
  <2>. QED
    BY <1>2, <2>1, <2>2
<1>4. /\ s \o t \in Seq(S) /\ Len(s \o t) = 3
      /\ (s \o t)[1] = a /\ (s \o t)[2] = b /\ (s \o t)[3] = c
  <2>1. /\ s \o t \in Seq(S) /\ Len(s \o t) = Len(s) + Len(t)
        /\ \A i \in 1..(Len(s) + Len(t)) :
             (s \o t)[i] = IF i <= Len(s) THEN s[i] ELSE t[i - Len(s)]
    BY <1>1, ConcatProperties
  <2>2. /\ 1 \in 1..3 /\ 2 \in 1..3 /\ 3 \in 1..3 /\ 1 <= 1 /\ ~(2 <= 1) /\ ~(3 <= 1)
        /\ 2 - 1 = 1 /\ 3 - 1 = 2
    OBVIOUS
  <2>. QED
    BY <1>2, <2>1, <2>2
<1>5. s \o u = r
  <2>1. \A i \in 1..2 : (s \o u)[i] = r[i]
    <3>1. \A i \in 1..2 : i = 1 \/ i = 2
      OBVIOUS
    <3>. QED
      BY <1>2, <1>3, <3>1
  <2>. QED
    BY <1>1, <1>2, <1>3, <2>1, SeqEqual
<1>6. s \o t = v
  <2>1. \A i \in 1..3 : (s \o t)[i] = v[i]
    <3>1. \A i \in 1..3 : i = 1 \/ i = 2 \/ i = 3
      OBVIOUS
    <3>. QED
      BY <1>2, <1>4, <3>1
  <2>. QED
    BY <1>1, <1>2, <1>4, <2>1, SeqEqual
<1>. QED
  BY <1>5, <1>6 DEF s, t, u, r, v

(* A contraction as items.                                                 *)
LEMMA SpelledIs ==
  ASSUME NEW c, NEW d, NEW pattern
  PROVE  /\ Spelled(<<c>>, pattern) = Plain(<<Once({"'"}), Once(Cases(c, pattern))>>)
         /\ Spelled(<<c, d>>, pattern)
              = Plain(<<Once({"'"}), Once(Cases(c, pattern)), Once(Cases(d, pattern))>>)
<1>. DEFINE o == Once({"'"})
            x == Once(Cases(c, pattern))
            y == Once(Cases(d, pattern))
            F1 == [k \in DOMAIN <<c>> |-> Once(Cases(<<c>>[k], pattern))]
            F2 == [k \in DOMAIN <<c, d>> |-> Once(Cases(<<c, d>>[k], pattern))]
<1>1. F1 = <<x>>
  <2>1. DOMAIN <<c>> = 1..1 /\ DOMAIN <<x>> = 1..1 /\ <<c>>[1] = c /\ <<x>>[1] = x
        /\ \A k \in 1..1 : k = 1
    OBVIOUS
  <2>. QED
    BY <2>1
<1>2. F2 = <<x, y>>
  <2>1. /\ DOMAIN <<c, d>> = 1..2 /\ DOMAIN <<x, y>> = 1..2
        /\ <<c, d>>[1] = c /\ <<x, y>>[1] = x /\ <<c, d>>[2] = d /\ <<x, y>>[2] = y
        /\ \A k \in 1..2 : k = 1 \/ k = 2
    OBVIOUS
  <2>. HIDE DEF x, y
  <2>2. \A k \in 1..2 : F2[k] = <<x, y>>[k]
    BY <2>1 DEF x, y
  <2>3. DOMAIN F2 = 1..2 /\ F2 = [k \in 1..2 |-> F2[k]]
    BY <2>1
  <2>4. <<x, y>> = [k \in 1..2 |-> <<x, y>>[k]]
    OBVIOUS
  <2>. HIDE DEF F2
  <2>. QED
    BY <2>2, <2>3, <2>4
<1>3. Spelled(<<c>>, pattern) = Plain(<<o>> \o F1) /\ Spelled(<<c, d>>, pattern) = Plain(<<o>> \o F2)
  BY DEF Spelled
<1>. HIDE DEF F1, F2, o, x, y
<1>4. <<o>> \o <<x>> = <<o, x>> /\ <<o>> \o <<x, y>> = <<o, x, y>>
  BY PairAfter
<1>. QED
  BY <1>1, <1>2, <1>3, <1>4 DEF o, x, y

(* The second half of SpelledIs, to be cited alone.                        *)
LEMMA SpelledTwo ==
  ASSUME NEW c, NEW d, NEW pattern
  PROVE  Spelled(<<c, d>>, pattern)
           = Plain(<<Once({"'"}), Once(Cases(c, pattern)), Once(Cases(d, pattern))>>)
  BY SpelledIs

(* A contraction of one letter takes two characters where it is.           *)
LEMMA ShortTakes ==
  ASSUME NEW C, NEW text \in Seq(C), NEW at \in 1..Len(text), NEW pattern,
         NEW c \in {"s", "t", "m", "d", "r", "e", "v", "l"}
  PROVE  Takes(text, at, Spelled(<<c>>, pattern), IF Short(text, at, c, pattern) THEN 2 ELSE 0)
<1>. DEFINE class == Cases(c, pattern)
<1>1. Spelled(<<c>>, pattern) = Plain(<<Once({"'"}), Once(class)>>)
  BY SpelledIs
<1>2. text[at + 1] \in class <=> Fold(text[at + 1], pattern) = c
  BY FoldIs
<1>3. text[at] \in {"'"} <=> text[at] = "'"
  OBVIOUS
<1>4. Short(text, at, c, pattern)
        <=> text[at] \in {"'"} /\ at + 1 <= Len(text) /\ text[at + 1] \in class
  BY <1>2, <1>3 DEF Short
<1>. HIDE DEF class
<1>5. Takes(text, at, Plain(<<Once({"'"}), Once(class)>>),
            IF text[at] \in {"'"} /\ at + 1 <= Len(text) /\ text[at + 1] \in class
            THEN 2 ELSE 0)
  BY TwoTake
<1>. QED
  BY <1>1, <1>4, <1>5

(* A contraction of two letters takes three characters where it is.        *)
LEMMA LongTakes ==
  ASSUME NEW C, NEW text \in Seq(C), NEW at \in 1..Len(text), NEW pattern,
         NEW c \in {"s", "t", "m", "d", "r", "e", "v", "l"},
         NEW d \in {"s", "t", "m", "d", "r", "e", "v", "l"}
  PROVE  Takes(text, at, Spelled(<<c, d>>, pattern),
               IF Long(text, at, c, d, pattern) THEN 3 ELSE 0)
<1>. DEFINE class == Cases(c, pattern)
            class2 == Cases(d, pattern)
<1>1. Spelled(<<c, d>>, pattern) = Plain(<<Once({"'"}), Once(class), Once(class2)>>)
  BY SpelledTwo
<1>2. /\ text[at + 1] \in class <=> Fold(text[at + 1], pattern) = c
      /\ text[at + 2] \in class2 <=> Fold(text[at + 2], pattern) = d
  BY FoldIs
<1>3. text[at] \in {"'"} <=> text[at] = "'"
  OBVIOUS
<1>4. Long(text, at, c, d, pattern)
        <=> /\ text[at] \in {"'"} /\ at + 2 <= Len(text)
            /\ text[at + 1] \in class /\ text[at + 2] \in class2
  BY <1>2, <1>3 DEF Long
<1>. HIDE DEF class, class2
<1>5. Takes(text, at, Plain(<<Once({"'"}), Once(class), Once(class2)>>),
            IF /\ text[at] \in {"'"} /\ at + 2 <= Len(text)
               /\ text[at + 1] \in class /\ text[at + 2] \in class2
            THEN 3 ELSE 0)
  BY OnceThree
<1>. QED
  BY <1>1, <1>4, <1>5

(* Rule 1 in the terms of the contractions it tries together.              *)
LEMMA ContractionIs ==
  ASSUME NEW C, NEW text \in Seq(C), NEW at \in 1..Len(text), NEW pattern
  PROVE  Contraction(text, at, pattern)
           = IF \E c \in {"s", "t", "m", "d"} : Short(text, at, c, pattern) THEN 2
             ELSE IF \/ Long(text, at, "r", "e", pattern) \/ Long(text, at, "v", "e", pattern)
                     \/ Long(text, at, "l", "l", pattern) THEN 3
             ELSE 0
<1>. DEFINE x == Fold(text[at + 1], pattern)
            y == Fold(text[at + 2], pattern)
<1>1. Contraction(text, at, pattern)
        = IF (text[at] = "'" /\ at + 1 <= Len(text)) /\ x \in {"s", "t", "m", "d"} THEN 2
          ELSE IF (text[at] = "'" /\ at + 2 <= Len(text))
                  /\ <<x, y>> \in {<<"r", "e">>, <<"v", "e">>, <<"l", "l">>} THEN 3
          ELSE 0
  BY Zenon DEF Contraction, Fold
<1>2. /\ \A c : Short(text, at, c, pattern) <=> (text[at] = "'" /\ at + 1 <= Len(text)) /\ x = c
      /\ \A c, d : Long(text, at, c, d, pattern)
                     <=> (text[at] = "'" /\ at + 2 <= Len(text)) /\ x = c /\ y = d
  BY DEF Short, Long
<1>. HIDE DEF x, y
<1>3. <<x, y>> \in {<<"r", "e">>, <<"v", "e">>, <<"l", "l">>}
        <=> (x = "r" /\ y = "e") \/ (x = "v" /\ y = "e") \/ (x = "l" /\ y = "l")
  OBVIOUS
<1>. QED
  BY <1>1, <1>2, <1>3

(* What the pattern takes is what its first matching alternative takes.    *)
LEMMA FirstTakes ==
  ASSUME NEW text, NEW at \in Nat, NEW pattern,
         NEW A, A = Alternatives(text, pattern), NEW m \in Nat, DOMAIN A = 1..m,
         NEW k \in 1..m, NEW n \in Nat \ {0}, Takes(text, at, A[k], n),
         \A j \in 1..(k - 1) : Takes(text, at, A[j], 0)
  PROVE  ByPattern(text, at, pattern) = n
<1>. DEFINE S == {j \in DOMAIN A : Matched(text, at, A[j]) # {}}
<1>1. S \in SUBSET Nat /\ k \in S
  BY DEF Takes
<1>2. \A j \in S : ~(j \in 1..(k - 1))
  BY DEF Takes
<1>3. Min(S) = k
  <2>0. S # {}
    BY <1>1
  <2>. HIDE DEF S
  <2>1. Min(S) \in S /\ \A y \in S : Min(S) <= y
    BY <1>1, <2>0, MinIs
  <2>2. Min(S) \in 1..m
    BY <2>1 DEF S
  <2>. QED
    BY <1>1, <1>2, <2>1, <2>2
<1>4. ByPattern(text, at, pattern)
        = Greediest(Matched(text, at, A[Min(S)]))[Len(A[Min(S)].items)] - at
  BY Zenon DEF ByPattern
<1>5. Greediest(Matched(text, at, A[k]))[Len(A[k].items)] = at + n
  BY DEF Takes
<1>. HIDE DEF S
<1>. QED
  BY <1>3, <1>4, <1>5

(* The entries of three sequences joined.                                  *)
LEMMA Appended ==
  ASSUME NEW S, NEW s \in Seq(S), NEW t \in Seq(S), NEW u \in Seq(S),
         NEW A, A = s \o t \o u
  PROVE  /\ DOMAIN A = 1..(Len(s) + Len(t) + Len(u))
         /\ \A i \in 1..Len(s) : A[i] = s[i]
         /\ \A i \in 1..Len(t) : A[Len(s) + i] = t[i]
         /\ \A i \in 1..Len(u) : A[Len(s) + Len(t) + i] = u[i]
<1>. DEFINE v == s \o t
<1>0. Len(s) \in Nat /\ Len(t) \in Nat /\ Len(u) \in Nat
  BY LenProperties
<1>1. /\ v \in Seq(S) /\ Len(v) = Len(s) + Len(t)
      /\ \A i \in 1..(Len(s) + Len(t)) : v[i] = IF i <= Len(s) THEN s[i] ELSE t[i - Len(s)]
  BY ConcatProperties
<1>. HIDE DEF v
<1>2. /\ A \in Seq(S) /\ Len(A) = Len(v) + Len(u)
      /\ \A i \in 1..(Len(v) + Len(u)) : A[i] = IF i <= Len(v) THEN v[i] ELSE u[i - Len(v)]
  <2>1. A = v \o u
    BY DEF v
  <2>2. /\ v \o u \in Seq(S) /\ Len(v \o u) = Len(v) + Len(u)
        /\ \A i \in 1..(Len(v) + Len(u)) :
             (v \o u)[i] = IF i <= Len(v) THEN v[i] ELSE u[i - Len(v)]
    <3>1. v \in Seq(S)
      BY <1>1
    <3>. QED
      BY <3>1, ConcatProperties, Zenon
  <2>. QED
    BY <2>1, <2>2, Zenon
<1>3. DOMAIN A = 1..Len(A)
  BY <1>2, LenProperties
<1>4. \A i \in 1..(Len(s) + Len(t)) : A[i] = v[i]
  <2>. TAKE i \in 1..(Len(s) + Len(t))
  <2>1. i \in 1..(Len(v) + Len(u)) /\ i <= Len(v)
    BY <1>0, <1>1
  <2>. QED
    BY <1>2, <2>1
<1>5. ASSUME NEW i \in 1..Len(s) PROVE A[i] = s[i]
  <2>1. i \in 1..(Len(s) + Len(t)) /\ i <= Len(s)
    BY <1>0
  <2>. QED
    BY <1>1, <1>4, <2>1
<1>6. ASSUME NEW i \in 1..Len(t) PROVE A[Len(s) + i] = t[i]
  <2>1. Len(s) + i \in 1..(Len(s) + Len(t)) /\ ~(Len(s) + i <= Len(s)) /\ (Len(s) + i) - Len(s) = i
    BY <1>0
  <2>. QED
    BY <1>1, <1>4, <2>1
<1>7. ASSUME NEW i \in 1..Len(u) PROVE A[Len(s) + Len(t) + i] = u[i]
  <2>. DEFINE k == Len(s) + Len(t) + i
  <2>1. k \in 1..(Len(v) + Len(u)) /\ ~(k <= Len(v)) /\ k - Len(v) = i
    BY <1>0, <1>1
  <2>. HIDE DEF k
  <2>2. A[k] = u[i]
    BY <1>2, <2>1
  <2>. QED
    BY <2>2 DEF k
<1>. QED
  BY <1>1, <1>2, <1>3, <1>5, <1>6, <1>7

(* The parts of Alternatives, by name.                                     *)
Contractions(pattern) ==
  <<Spelled(<<"s">>, pattern), Spelled(<<"t">>, pattern),
    Spelled(<<"r", "e">>, pattern), Spelled(<<"v", "e">>, pattern),
    Spelled(<<"m">>, pattern), Spelled(<<"l", "l">>, pattern),
    Spelled(<<"d">>, pattern)>>

(* Whitespace, the last two of every pattern.                              *)
Space(text) == <<[items |-> <<Some(Blanks, text)>>, ends |-> TRUE],
                 Plain(<<Some(Blanks, text)>>)>>

(* What the GPT-2 pattern has between the two.                             *)
OfGpt2(text) == <<Plain(<<Optional({" "}), Some(Letters, text)>>),
                  Plain(<<Optional({" "}), Some(Digits, text)>>),
                  Plain(<<Optional({" "}), Some(Others, text)>>)>>

(* What the later patterns have between the two.                           *)
OfLater(text, pattern) ==
  <<Plain(<<Optional(Characters \ (Newlines \cup Letters \cup Digits)),
                           Some(Letters, text)>>),
    Plain(<<Item(Digits, 1, IF pattern = "Llama3" THEN 3 ELSE 1)>>),
    Plain(<<Optional({" "}), Some(Others, text), Many(Newlines, text)>>),
    Plain(<<Many(Blanks, text), Some(Newlines, text)>>)>>

(* The alternatives of a pattern, one by one: m of them lie between        *)
(* contractions and whitespace.                                            *)
AreAlternatives(text, pattern, A, B, m) ==
  /\ DOMAIN A = 1..(9 + m)
  /\ \A i \in 1..7 : A[i] = Contractions(pattern)[i]
  /\ \A i \in 1..m : A[7 + i] = B[i]
  /\ A[8 + m] = Space(text)[1] /\ A[9 + m] = Space(text)[2]

(* The alternatives one by one.                                            *)
LEMMA AlternativesAre ==
  ASSUME NEW text, NEW pattern, NEW A, A = Alternatives(text, pattern),
         NEW B, B = (IF pattern = "Gpt2" THEN OfGpt2(text) ELSE OfLater(text, pattern)),
         NEW m, m = (IF pattern = "Gpt2" THEN 3 ELSE 4)
  PROVE  AreAlternatives(text, pattern, A, B, m)
<1>. DEFINE s == Contractions(pattern)
            u == Space(text)
            S == {s[i] : i \in 1..7} \cup {B[i] : i \in 1..m} \cup {u[1], u[2]}
<1>1. A = s \o B \o u
  BY Zenon DEF Alternatives, Contractions, OfGpt2, OfLater, Space
<1>2. Len(s) = 7 /\ s = [i \in 1..7 |-> s[i]]
  BY DEF Contractions
<1>3. Len(u) = 2 /\ u = [i \in 1..2 |-> u[i]]
  BY DEF Space
<1>4. Len(B) = m /\ m \in Nat /\ B = [i \in 1..m |-> B[i]]
  <2>0. \A a, b, c, d : /\ Len(<<a, b, c>>) = 3 /\ <<a, b, c>> = [i \in 1..3 |-> <<a, b, c>>[i]]
                        /\ Len(<<a, b, c, d>>) = 4
                        /\ <<a, b, c, d>> = [i \in 1..4 |-> <<a, b, c, d>>[i]]
    OBVIOUS
  <2>1. CASE pattern = "Gpt2"
    <3>1. \E a, b, c : B = <<a, b, c>>
      BY <2>1, Zenon DEF OfGpt2
    <3>2. m = 3
      BY <2>1
    <3>. QED
      BY <2>0, <3>1, <3>2
  <2>2. CASE pattern # "Gpt2"
    <3>1. \E a, b, c, d : B = <<a, b, c, d>>
      BY <2>2, Zenon DEF OfLater
    <3>2. m = 4
      BY <2>2
    <3>. QED
      BY <2>0, <3>1, <3>2
  <2>. QED
    BY <2>1, <2>2
<1>. HIDE DEF s, u
<1>5. s \in Seq(S) /\ B \in Seq(S) /\ u \in Seq(S)
  <2>1. \A i \in 1..7 : s[i] \in S
    OBVIOUS
  <2>2. \A i \in 1..m : B[i] \in S
    OBVIOUS
  <2>3. \A i \in 1..2 : u[i] \in S
    <3>1. \A i \in 1..2 : i = 1 \/ i = 2
      OBVIOUS
    <3>. QED
      BY <3>1
  <2>. HIDE DEF S
  <2>4. s \in [1..7 -> S] /\ B \in [1..m -> S] /\ u \in [1..2 -> S]
    BY <1>2, <1>3, <1>4, <2>1, <2>2, <2>3
  <2>5. \A k \in Nat : [1..k -> S] \subseteq Seq(S)
    BY SeqDef, Zenon
  <2>. QED
    BY <1>4, <2>4, <2>5
<1>. HIDE DEF S
<1>6. /\ DOMAIN A = 1..(7 + m + 2)
      /\ \A i \in 1..7 : A[i] = s[i]
      /\ \A i \in 1..m : A[7 + i] = B[i]
      /\ \A i \in 1..2 : A[7 + m + i] = u[i]
  BY SMTT(30), <1>1, <1>2, <1>3, <1>4, <1>5, Appended
<1>7. 7 + m + 2 = 9 + m /\ 7 + m + 1 = 8 + m /\ 1 \in 1..2 /\ 2 \in 1..2
  BY <1>4
<1>. QED
  BY <1>6, <1>7 DEF s, u, AreAlternatives

(* What the alternatives for contractions take.                            *)
LEMMA ContractionsTake ==
  ASSUME NEW C, NEW text \in Seq(C), NEW at \in 1..Len(text), NEW pattern,
         NEW A, \A i \in 1..7 : A[i] = Contractions(pattern)[i]
  PROVE  /\ Takes(text, at, A[1], IF Short(text, at, "s", pattern) THEN 2 ELSE 0)
         /\ Takes(text, at, A[2], IF Short(text, at, "t", pattern) THEN 2 ELSE 0)
         /\ Takes(text, at, A[3], IF Long(text, at, "r", "e", pattern) THEN 3 ELSE 0)
         /\ Takes(text, at, A[4], IF Long(text, at, "v", "e", pattern) THEN 3 ELSE 0)
         /\ Takes(text, at, A[5], IF Short(text, at, "m", pattern) THEN 2 ELSE 0)
         /\ Takes(text, at, A[6], IF Long(text, at, "l", "l", pattern) THEN 3 ELSE 0)
         /\ Takes(text, at, A[7], IF Short(text, at, "d", pattern) THEN 2 ELSE 0)
<1>1. /\ A[1] = Spelled(<<"s">>, pattern) /\ A[2] = Spelled(<<"t">>, pattern)
      /\ A[3] = Spelled(<<"r", "e">>, pattern) /\ A[4] = Spelled(<<"v", "e">>, pattern)
      /\ A[5] = Spelled(<<"m">>, pattern) /\ A[6] = Spelled(<<"l", "l">>, pattern)
      /\ A[7] = Spelled(<<"d">>, pattern)
  <2>1. \A a, b, c, d, e, f, g :
          LET s == <<a, b, c, d, e, f, g>>
          IN s[1] = a /\ s[2] = b /\ s[3] = c /\ s[4] = d /\ s[5] = e /\ s[6] = f /\ s[7] = g
    OBVIOUS
  <2>2. /\ 1 \in 1..7 /\ 2 \in 1..7 /\ 3 \in 1..7 /\ 4 \in 1..7 /\ 5 \in 1..7 /\ 6 \in 1..7
        /\ 7 \in 1..7
    OBVIOUS
  <2>. QED
    BY <2>1, <2>2, Zenon DEF Contractions
<1>2. \A c \in {"s", "t", "m", "d", "r", "e", "v", "l"} :
        /\ Takes(text, at, Spelled(<<c>>, pattern), IF Short(text, at, c, pattern) THEN 2 ELSE 0)
        /\ \A d \in {"s", "t", "m", "d", "r", "e", "v", "l"} :
             Takes(text, at, Spelled(<<c, d>>, pattern),
                   IF Long(text, at, c, d, pattern) THEN 3 ELSE 0)
  BY ShortTakes, LongTakes
<1>3. /\ "s" \in {"s", "t", "m", "d", "r", "e", "v", "l"}
      /\ "t" \in {"s", "t", "m", "d", "r", "e", "v", "l"}
      /\ "m" \in {"s", "t", "m", "d", "r", "e", "v", "l"}
      /\ "d" \in {"s", "t", "m", "d", "r", "e", "v", "l"}
      /\ "r" \in {"s", "t", "m", "d", "r", "e", "v", "l"}
      /\ "e" \in {"s", "t", "m", "d", "r", "e", "v", "l"}
      /\ "v" \in {"s", "t", "m", "d", "r", "e", "v", "l"}
      /\ "l" \in {"s", "t", "m", "d", "r", "e", "v", "l"}
  OBVIOUS
<1>. QED
  BY <1>1, <1>2, <1>3, Zenon

(* The contractions together: what the first rule takes, or nothing.       *)
LEMMA RuleOne ==
  ASSUME NEW C, NEW text \in Seq(C), NEW at \in 1..Len(text), NEW pattern,
         NEW A, A = Alternatives(text, pattern), NEW m \in Nat, m >= 7, DOMAIN A = 1..m,
         \A i \in 1..7 : A[i] = Contractions(pattern)[i],
         NEW n, n = Contraction(text, at, pattern)
  PROVE  /\ n = 0 => \A j \in 1..7 : Takes(text, at, A[j], 0)
         /\ n # 0 => ByPattern(text, at, pattern) = n
<1>. DEFINE S(c) == Short(text, at, c, pattern)
            L(c, d) == Long(text, at, c, d, pattern)
            T(j, k) == Takes(text, at, A[j], k)
<1>0. at \in Nat
  BY LenProperties
<1>1. /\ T(1, IF S("s") THEN 2 ELSE 0) /\ T(2, IF S("t") THEN 2 ELSE 0)
      /\ T(3, IF L("r", "e") THEN 3 ELSE 0) /\ T(4, IF L("v", "e") THEN 3 ELSE 0)
      /\ T(5, IF S("m") THEN 2 ELSE 0) /\ T(6, IF L("l", "l") THEN 3 ELSE 0)
      /\ T(7, IF S("d") THEN 2 ELSE 0)
  BY ContractionsTake
<1>2. n = IF S("s") \/ S("t") \/ S("m") \/ S("d") THEN 2
          ELSE IF L("r", "e") \/ L("v", "e") \/ L("l", "l") THEN 3 ELSE 0
  BY ContractionIs
<1>3. /\ S("t") => ~S("s")
      /\ S("m") => ~S("s") /\ ~S("t") /\ ~L("r", "e") /\ ~L("v", "e")
      /\ S("d") => /\ ~S("s") /\ ~S("t") /\ ~L("r", "e") /\ ~L("v", "e") /\ ~S("m")
                   /\ ~L("l", "l")
      /\ L("v", "e") => ~L("r", "e")
      /\ L("l", "l") => ~L("r", "e") /\ ~L("v", "e")
  BY DEF Short, Long
<1>4. ASSUME NEW k \in 1..7, NEW i \in {2, 3}, T(k, i), \A j \in 1..(k - 1) : T(j, 0)
      PROVE  ByPattern(text, at, pattern) = i
  <2>1. k \in 1..m /\ i \in Nat \ {0}
    OBVIOUS
  <2>. QED
    BY SMTT(30), <1>0, <1>4, <2>1, FirstTakes
<1>. HIDE DEF S, L, T
<1>5. /\ 1 \in 1..7 /\ 2 \in 1..7 /\ 3 \in 1..7 /\ 4 \in 1..7 /\ 5 \in 1..7 /\ 6 \in 1..7
      /\ 7 \in 1..7 /\ 2 \in {2, 3} /\ 3 \in {2, 3}
  OBVIOUS
<1>6. CASE S("s")
  <2>1. T(1, 2) /\ \A j \in 1..(1 - 1) : T(j, 0)
    BY <1>1, <1>6
  <2>. QED
    BY <1>2, <1>4, <1>5, <1>6, <2>1
<1>7. CASE S("t")
  <2>1. T(2, 2) /\ T(1, 0)
    BY <1>1, <1>3, <1>7
  <2>2. \A j \in 1..(2 - 1) : j = 1
    OBVIOUS
  <2>. QED
    BY <1>2, <1>4, <1>5, <1>7, <2>1, <2>2
<1>8. CASE S("m")
  <2>1. T(5, 2) /\ T(1, 0) /\ T(2, 0) /\ T(3, 0) /\ T(4, 0)
    BY <1>1, <1>3, <1>8
  <2>2. \A j \in 1..(5 - 1) : j = 1 \/ j = 2 \/ j = 3 \/ j = 4
    OBVIOUS
  <2>. QED
    BY <1>2, <1>4, <1>5, <1>8, <2>1, <2>2
<1>9. CASE S("d")
  <2>1. T(7, 2) /\ T(1, 0) /\ T(2, 0) /\ T(3, 0) /\ T(4, 0) /\ T(5, 0) /\ T(6, 0)
    BY <1>1, <1>3, <1>9
  <2>2. \A j \in 1..(7 - 1) : j = 1 \/ j = 2 \/ j = 3 \/ j = 4 \/ j = 5 \/ j = 6
    OBVIOUS
  <2>. QED
    BY <1>2, <1>4, <1>5, <1>9, <2>1, <2>2
<1>10. CASE ~S("s") /\ ~S("t") /\ ~S("m") /\ ~S("d")
  <2>1. T(1, 0) /\ T(2, 0) /\ T(5, 0) /\ T(7, 0)
    BY <1>1, <1>10
  <2>2. CASE L("r", "e")
    <3>1. T(3, 3)
      BY <1>1, <2>2
    <3>2. \A j \in 1..(3 - 1) : j = 1 \/ j = 2
      OBVIOUS
    <3>. QED
      BY <1>2, <1>4, <1>5, <1>10, <2>1, <2>2, <3>1, <3>2
  <2>3. CASE L("v", "e")
    <3>1. T(4, 3) /\ T(3, 0)
      BY <1>1, <1>3, <2>3
    <3>2. \A j \in 1..(4 - 1) : j = 1 \/ j = 2 \/ j = 3
      OBVIOUS
    <3>. QED
      BY <1>2, <1>4, <1>5, <1>10, <2>1, <2>3, <3>1, <3>2
  <2>4. CASE L("l", "l")
    <3>1. T(6, 3) /\ T(3, 0) /\ T(4, 0)
      BY <1>1, <1>3, <2>4
    <3>2. \A j \in 1..(6 - 1) : j = 1 \/ j = 2 \/ j = 3 \/ j = 4 \/ j = 5
      OBVIOUS
    <3>. QED
      BY <1>2, <1>4, <1>5, <1>10, <2>1, <2>4, <3>1, <3>2
  <2>5. CASE ~L("r", "e") /\ ~L("v", "e") /\ ~L("l", "l")
    <3>1. T(3, 0) /\ T(4, 0) /\ T(6, 0) /\ n = 0
      BY <1>1, <1>2, <1>10, <2>5
    <3>2. \A j \in 1..7 : j = 1 \/ j = 2 \/ j = 3 \/ j = 4 \/ j = 5 \/ j = 6 \/ j = 7
      OBVIOUS
    <3>3. \A j \in 1..7 : T(j, 0)
      BY <2>1, <3>1, <3>2
    <3>. QED
      BY <3>1, <3>3 DEF T
  <2>. QED
    BY <2>2, <2>3, <2>4, <2>5
<1>. QED
  BY <1>6, <1>7, <1>8, <1>9, <1>10

(* What the other alternatives take.                                       *)
LEMMA WordTakes ==
  ASSUME NEW C, NEW text \in Seq(C), NEW at \in 1..Len(text), NEW pattern,
         NEW first, first = (IF pattern = "Gpt2" THEN {" "}
                             ELSE Characters \ (Newlines \cup Letters \cup Digits))
  PROVE  Takes(text, at, Plain(<<Optional(first), Some(Letters, text)>>),
               Word(text, at, pattern))
<1>. DEFINE lead == Leading(text, at, first)
            run == Run(text, at + lead, Letters)
<1>1. first = Absorbed(pattern)
  BY CharacterAssumption DEF Absorbed, Characters, Newlines
<1>2. first \cap Letters = {}
  BY CharacterAssumption DEF Characters
<1>3. Word(text, at, pattern) = IF run > 0 THEN lead + run ELSE 0
  BY <1>1, Zenon DEF Word
<1>. QED
  BY <1>2, <1>3, OptionalTakes

(* The alternative for digits takes what rule 3 takes.                     *)
LEMMA NumberTakes ==
  ASSUME NEW C, NEW text \in Seq(C), NEW at \in 1..Len(text), NEW pattern \in Patterns
  PROVE  /\ pattern = "Gpt2" =>
              Takes(text, at, Plain(<<Optional({" "}), Some(Digits, text)>>),
                    Number(text, at, pattern))
         /\ pattern # "Gpt2" =>
              Takes(text, at, Plain(<<Item(Digits, 1, IF pattern = "Llama3" THEN 3 ELSE 1)>>),
                    Number(text, at, pattern))
<1>0. at \in Nat
  BY LenProperties
<1>1. CASE pattern = "Gpt2"
  <2>. DEFINE lead == Leading(text, at, {" "})
              run == Run(text, at + lead, Digits)
  <2>1. at + lead \in 1..(Len(text) + 1)
    <3>1. lead \in {0, 1}
      BY LeadingIs
    <3>. HIDE DEF lead
    <3>. QED
      BY <3>1, LenProperties
  <2>2. {" "} \cap Digits = {}
    BY CharacterAssumption
  <2>3. Number(text, at, pattern) = IF run > 0 THEN lead + MaxDigits(pattern, run) ELSE 0
    BY <1>1 DEF Number
  <2>4. MaxDigits(pattern, run) = run
    BY <1>1 DEF MaxDigits
  <2>5. Takes(text, at, Plain(<<Optional({" "}), Some(Digits, text)>>),
              IF run > 0 THEN lead + run ELSE 0)
    <3>. DEFINE first == {" "}
    <3>1. first \cap Digits = {} /\ lead = Leading(text, at, first)
      BY <2>2
    <3>. HIDE DEF first
    <3>2. Takes(text, at, Plain(<<Optional(first), Some(Digits, text)>>),
                IF run > 0 THEN lead + run ELSE 0)
      BY <3>1, OptionalTakes
    <3>. QED
      BY <3>2, Zenon DEF first
  <2>. HIDE DEF lead, run
  <2>. QED
    BY <1>1, <2>3, <2>4, <2>5
<1>2. CASE pattern # "Gpt2"
  <2>. DEFINE run == Run(text, at, Digits)
              top == IF pattern = "Llama3" THEN 3 ELSE 1
  <2>1. run \in Nat
    BY RunIs, LenProperties
  <2>2. Number(text, at, pattern) = IF run > 0 THEN MaxDigits(pattern, run) ELSE 0
    <3>1. Number(text, at, pattern)
            = IF Run(text, at + 0, Digits) > 0
              THEN 0 + MaxDigits(pattern, Run(text, at + 0, Digits)) ELSE 0
      BY <1>2 DEF Number
    <3>2. at + 0 = at
      BY <1>0
    <3>3. run > 0 => MaxDigits(pattern, run) \in Nat
      BY <2>1, DigitsBounds
    <3>. HIDE DEF run
    <3>4. Number(text, at, pattern) = IF run > 0 THEN 0 + MaxDigits(pattern, run) ELSE 0
      BY <3>1, <3>2 DEF run
    <3>. QED
      BY <3>3, <3>4
  <2>. HIDE DEF run
  <2>3. pattern = "Llama3" \/ pattern = "Qwen2"
    BY <1>2 DEF Patterns
  <2>4. Number(text, at, pattern) = IF run < top THEN run ELSE top
    BY <2>1, <2>2, <2>3, DigitsBounds
  <2>5. top \in Nat \ {0} /\ run = Run(text, at, Digits)
    BY DEF run
  <2>. HIDE DEF top
  <2>6. Takes(text, at, Plain(<<Item(Digits, 1, top)>>), IF run < top THEN run ELSE top)
    BY <2>5, SomeTakes
  <2>7. Takes(text, at, Plain(<<Item(Digits, 1, top)>>), Number(text, at, pattern))
    BY <2>4, <2>6
  <2>. QED
    BY <1>2, <2>7, Zenon DEF top
<1>. QED
  BY <1>1, <1>2

(* The alternative for punctuation takes what rule 4 takes.                *)
LEMMA PunctuationTakes ==
  ASSUME NEW C, NEW text \in Seq(C), NEW at \in 1..Len(text), NEW pattern
  PROVE  /\ pattern = "Gpt2" =>
              Takes(text, at, Plain(<<Optional({" "}), Some(Others, text)>>),
                    Punctuation(text, at, pattern))
         /\ pattern # "Gpt2" =>
              Takes(text, at, Plain(<<Optional({" "}), Some(Others, text), Many(Newlines, text)>>),
                    Punctuation(text, at, pattern))
<1>. DEFINE first == {" "}
            lead == Leading(text, at, first)
            run == Run(text, at + lead, Others)
            after == Run(text, at + lead + run, Newlines)
<1>0. first \cap Others = {}
  BY CharacterAssumption
<1>1. Punctuation(text, at, pattern)
        = IF run > 0 THEN lead + run + (IF pattern = "Gpt2" THEN 0 ELSE after) ELSE 0
  BY Zenon DEF Punctuation
<1>2. lead \in Nat /\ run \in Nat
  <2>1. lead \in {0, 1}
    BY LeadingIs
  <2>. DEFINE i == at + lead
  <2>. HIDE DEF lead
  <2>2. i \in 1..(Len(text) + 1)
    BY <2>1, LenProperties
  <2>. HIDE DEF i
  <2>3. Run(text, i, Others) \in Nat
    BY <2>2, RunIs
  <2>. QED
    BY <2>1, <2>3 DEF i
<1>. HIDE DEF first, lead, run, after
<1>3. /\ lead = Leading(text, at, first) /\ run = Run(text, at + lead, Others)
      /\ after = Run(text, at + lead + run, Newlines)
  BY Zenon DEF lead, run, after
<1>4. Takes(text, at, Plain(<<Optional(first), Some(Others, text)>>),
            IF run > 0 THEN lead + run ELSE 0)
  BY <1>0, <1>3, OptionalTakes
<1>5. Takes(text, at, Plain(<<Optional(first), Some(Others, text), Many(Newlines, text)>>),
            IF run > 0 THEN lead + run + after ELSE 0)
  BY <1>0, <1>3, ThreeTake
<1>6. CASE pattern = "Gpt2"
  <2>1. Punctuation(text, at, pattern) = IF run > 0 THEN lead + run ELSE 0
    BY <1>1, <1>2, <1>6
  <2>. QED
    BY <1>4, <1>6, <2>1, Zenon DEF first
<1>7. CASE pattern # "Gpt2"
  <2>1. Punctuation(text, at, pattern) = IF run > 0 THEN lead + run + after ELSE 0
    BY <1>1, <1>7, Zenon
  <2>. QED
    BY <1>5, <1>7, <2>1, Zenon DEF first
<1>. QED
  BY <1>6, <1>7

(* The last two alternatives take what rules 6 and 7 take.                 *)
LEMMA SpaceTakes ==
  ASSUME NEW C, NEW text \in Seq(C), NEW at \in 1..Len(text)
  PROVE  /\ Takes(text, at, Space(text)[1], Trailing(text, at))
         /\ Takes(text, at, Space(text)[2], Run(text, at, Blanks))
<1>. DEFINE run == Run(text, at, Blanks)
            top == Len(text)
<1>1. run \in 0..top /\ top \in Nat \ {0}
  BY RunIs, LenProperties
<1>2. Takes(text, at, Plain(<<Item(Blanks, 1, top)>>), IF run < top THEN run ELSE top)
  <2>1. top \in Nat \ {0} /\ run = Run(text, at, Blanks)
    BY <1>1
  <2>. HIDE DEF top, run
  <2>. QED
    BY <2>1, SomeTakes
<1>3. run = IF run < top THEN run ELSE top
  <2>. HIDE DEF run, top
  <2>. QED
    BY <1>1
<1>4. Space(text)[2] = Plain(<<Item(Blanks, 1, top)>>)
  BY DEF Space, Some
<1>5. Space(text)[1] = [items |-> <<Some(Blanks, text)>>, ends |-> TRUE]
  BY DEF Space
<1>. QED
  BY <1>2, <1>3, <1>4, <1>5, TrailingTakes, Zenon

(* Some rule other than the last takes something: the character the piece  *)
(* begins with is of some class.                                           *)
LEMMA SomeRule ==
  ASSUME NEW text \in Seq(Characters), NEW at \in 1..Len(text), NEW pattern \in Patterns
  PROVE  \/ Word(text, at, pattern) # 0 \/ Number(text, at, pattern) # 0
         \/ Punctuation(text, at, pattern) # 0 \/ Run(text, at, Blanks) # 0
<1>. DEFINE c == text[at]
<1>0. Len(text) \in Nat /\ at \in Nat /\ at + 0 = at /\ at \in 1..(Len(text) + 1) /\ at <= Len(text)
  BY LenProperties
<1>1. c \in Letters \/ c \in Digits \/ c \in Blanks \/ c \in Others
  <2>1. c \in Characters
    BY ElementOfSeq
  <2>. QED
    BY <2>1 DEF Characters
<1>2. ASSUME NEW class, c \in class
      PROVE  Run(text, at, class) \in Nat /\ Run(text, at, class) > 0
  <2>. DEFINE run == Run(text, at, class)
  <2>1. run \in 0..(Len(text) - at + 1) /\ (at + run <= Len(text) => text[at + run] \notin class)
    BY <1>0, RunIs
  <2>. HIDE DEF run
  <2>2. run # 0
    BY <1>0, <1>2, <2>1
  <2>. QED
    BY <2>1, <2>2 DEF run
<1>3. CASE c \in Letters
  <2>1. c \notin Absorbed(pattern)
    BY <1>3, CharacterAssumption DEF Absorbed
  <2>2. Leading(text, at, Absorbed(pattern)) = 0
    BY <2>1 DEF Leading
  <2>3. Word(text, at, pattern) = Run(text, at, Letters)
    <3>1. Run(text, at, Letters) \in Nat /\ Run(text, at, Letters) > 0
      BY <1>2, <1>3
    <3>. QED
      BY <1>0, <2>2, <3>1 DEF Word
  <2>. QED
    BY <1>2, <1>3, <2>3
<1>4. CASE c \in Digits
  <2>. DEFINE lead == IF pattern = "Gpt2" THEN Leading(text, at, {" "}) ELSE 0
              run == Run(text, at, Digits)
  <2>1. c # " "
    BY <1>4, CharacterAssumption
  <2>2. lead = 0
    BY <2>1 DEF Leading
  <2>3. run \in Nat /\ run > 0
    BY <1>2, <1>4
  <2>4. MaxDigits(pattern, run) \in Nat /\ MaxDigits(pattern, run) > 0
    <3>. HIDE DEF run
    <3>. QED
      BY <2>3, DigitsBounds
  <2>5. Number(text, at, pattern)
          = IF Run(text, at + lead, Digits) > 0
            THEN lead + MaxDigits(pattern, Run(text, at + lead, Digits)) ELSE 0
    BY Zenon DEF Number
  <2>. HIDE DEF lead
  <2>6. at + lead = at
    BY <1>0, <2>2
  <2>7. Number(text, at, pattern) = IF run > 0 THEN 0 + MaxDigits(pattern, run) ELSE 0
    BY <2>2, <2>5, <2>6
  <2>. QED
    BY <2>3, <2>4, <2>7
<1>5. CASE c \in Others
  <2>. DEFINE lead == Leading(text, at, {" "})
              run == Run(text, at, Others)
              after == Run(text, at + run, Newlines)
  <2>1. c # " "
    BY <1>5, CharacterAssumption
  <2>2. lead = 0
    BY <2>1 DEF Leading
  <2>3. run \in Nat /\ run > 0 /\ run \in 0..(Len(text) - at + 1)
    BY <1>0, <1>2, <1>5, RunIs
  <2>4. after \in Nat
    <3>. HIDE DEF run
    <3>. DEFINE i == at + run
    <3>1. i \in 1..(Len(text) + 1)
      BY <1>0, <2>3
    <3>. HIDE DEF i
    <3>2. Run(text, i, Newlines) \in Nat
      BY <1>0, <3>1, RunIs
    <3>. QED
      BY <3>2 DEF i
  <2>5. Punctuation(text, at, pattern)
          = IF Run(text, at + lead, Others) > 0
            THEN lead + Run(text, at + lead, Others)
                 + (IF pattern = "Gpt2" THEN 0
                    ELSE Run(text, at + lead + Run(text, at + lead, Others), Newlines))
            ELSE 0
    BY Zenon DEF Punctuation
  <2>. HIDE DEF lead
  <2>6. at + lead = at
    BY <1>0, <2>2
  <2>7. Punctuation(text, at, pattern)
          = IF run > 0 THEN 0 + run + (IF pattern = "Gpt2" THEN 0 ELSE after) ELSE 0
    BY <2>2, <2>5, <2>6
  <2>. HIDE DEF run, after
  <2>. QED
    BY <2>3, <2>4, <2>7
<1>6. CASE c \in Blanks
  BY <1>2, <1>6
<1>. QED
  BY <1>1, <1>3, <1>4, <1>5, <1>6

(* The rules, tried in order, take what the pattern takes.                 *)
LEMMA PieceByPattern ==
  ASSUME NEW text \in Seq(Characters), NEW at \in 1..Len(text), NEW pattern \in Patterns
  PROVE  piece(text, at, pattern) = ByPattern(text, at, pattern)
<1>. DEFINE A == Alternatives(text, pattern)
            B == IF pattern = "Gpt2" THEN OfGpt2(text) ELSE OfLater(text, pattern)
            m == IF pattern = "Gpt2" THEN 3 ELSE 4
            r == Rules(text, at, pattern)
            T(j, n) == Takes(text, at, A[j], n)
<1>0. at \in Nat
  BY LenProperties
<1>1. PICK k \in 1..8 : /\ piece(text, at, pattern) = r[k]
                        /\ r[k] > 0 /\ r[k] \in Nat
                        /\ \A j \in 1..(k - 1) : r[j] = 0
  <2>1. \E k \in 1..8 : /\ piece(text, at, pattern) = r[k]
                        /\ r[k] > 0
                        /\ \A j \in 1..(k - 1) : r[j] = 0
                        /\ r[k] \in 1..(Len(text) - at + 1)
    BY PieceIs
  <2>. HIDE DEF r
  <2>. QED
    BY SMTT(30), <2>1
<1>2. /\ r[1] = Contraction(text, at, pattern) /\ r[2] = Word(text, at, pattern)
      /\ r[3] = Number(text, at, pattern) /\ r[4] = Punctuation(text, at, pattern)
      /\ r[5] = Breaks(text, at, pattern) /\ r[6] = Trailing(text, at)
      /\ r[7] = Run(text, at, Blanks)
  BY DEF Rules
<1>3. m \in {3, 4} /\ (pattern = "Gpt2" => m = 3) /\ (pattern # "Gpt2" => m = 4)
  OBVIOUS
<1>. HIDE DEF r, m, A
<1>4. /\ DOMAIN A = 1..(9 + m)
      /\ \A i \in 1..7 : A[i] = Contractions(pattern)[i]
      /\ \A i \in 1..m : A[7 + i] = B[i]
      /\ A[8 + m] = Space(text)[1] /\ A[9 + m] = Space(text)[2]
  <2>1. /\ A = Alternatives(text, pattern)
        /\ B = (IF pattern = "Gpt2" THEN OfGpt2(text) ELSE OfLater(text, pattern))
        /\ m = (IF pattern = "Gpt2" THEN 3 ELSE 4)
    BY Zenon DEF A, m
  <2>. HIDE DEF B
  <2>2. AreAlternatives(text, pattern, A, B, m)
    BY <2>1, AlternativesAre, Zenon
  <2>. QED
    BY <2>2, Zenon DEF AreAlternatives
<1>5. /\ r[1] = 0 => \A j \in 1..7 : T(j, 0)
      /\ r[1] # 0 => ByPattern(text, at, pattern) = r[1]
  <2>1. 9 + m \in Nat /\ 9 + m >= 7
    BY <1>3
  <2>2. A = Alternatives(text, pattern)
    BY DEF A
  <2>. HIDE DEF B
  <2>. QED
    BY SMTT(30), <1>2, <1>4, <2>1, <2>2, RuleOne
<1>6. /\ pattern = "Gpt2" => T(8, r[2]) /\ T(9, r[3]) /\ T(10, r[4])
      /\ pattern # "Gpt2" => T(8, r[2]) /\ T(9, r[3]) /\ T(10, r[4]) /\ T(11, r[5])
  <2>1. 7 + 1 = 8 /\ 7 + 2 = 9 /\ 7 + 3 = 10 /\ 7 + 4 = 11
    OBVIOUS
  <2>2. CASE pattern = "Gpt2"
    <3>1. A[8] = OfGpt2(text)[1] /\ A[9] = OfGpt2(text)[2] /\ A[10] = OfGpt2(text)[3]
      <4>1. B = OfGpt2(text) /\ 1 \in 1..m /\ 2 \in 1..m /\ 3 \in 1..m
        BY <1>3, <2>2
      <4>. HIDE DEF B
      <4>. QED
        BY <1>4, <2>1, <4>1
    <3>2. \A a, b, c : <<a, b, c>>[1] = a /\ <<a, b, c>>[2] = b /\ <<a, b, c>>[3] = c
      OBVIOUS
    <3>3. /\ A[8] = Plain(<<Optional({" "}), Some(Letters, text)>>)
          /\ A[9] = Plain(<<Optional({" "}), Some(Digits, text)>>)
          /\ A[10] = Plain(<<Optional({" "}), Some(Others, text)>>)
      BY <3>1, <3>2, Zenon DEF OfGpt2
    <3>4. Takes(text, at, Plain(<<Optional({" "}), Some(Letters, text)>>), r[2])
      <4>. DEFINE first == {" "}
      <4>1. first = (IF pattern = "Gpt2" THEN {" "}
                     ELSE Characters \ (Newlines \cup Letters \cup Digits))
        BY <2>2
      <4>. HIDE DEF first
      <4>2. Takes(text, at, Plain(<<Optional(first), Some(Letters, text)>>), r[2])
        BY <1>2, <4>1, WordTakes
      <4>. QED
        BY <4>2, Zenon DEF first
    <3>5. Takes(text, at, Plain(<<Optional({" "}), Some(Digits, text)>>), r[3])
      BY <1>2, <2>2, NumberTakes
    <3>6. Takes(text, at, Plain(<<Optional({" "}), Some(Others, text)>>), r[4])
      BY <1>2, <2>2, PunctuationTakes
    <3>. QED
      BY <2>2, <3>3, <3>4, <3>5, <3>6
  <2>3. CASE pattern # "Gpt2"
    <3>. DEFINE first == Characters \ (Newlines \cup Letters \cup Digits)
                top == IF pattern = "Llama3" THEN 3 ELSE 1
    <3>1. /\ A[8] = OfLater(text, pattern)[1] /\ A[9] = OfLater(text, pattern)[2]
          /\ A[10] = OfLater(text, pattern)[3] /\ A[11] = OfLater(text, pattern)[4]
      <4>1. B = OfLater(text, pattern) /\ 1 \in 1..m /\ 2 \in 1..m /\ 3 \in 1..m /\ 4 \in 1..m
        BY <1>3, <2>3
      <4>. HIDE DEF B
      <4>. QED
        BY <1>4, <2>1, <4>1
    <3>2. \A a, b, c, d : /\ <<a, b, c, d>>[1] = a /\ <<a, b, c, d>>[2] = b
                          /\ <<a, b, c, d>>[3] = c /\ <<a, b, c, d>>[4] = d
      OBVIOUS
    <3>3. /\ A[8] = Plain(<<Optional(first), Some(Letters, text)>>)
          /\ A[9] = Plain(<<Item(Digits, 1, top)>>)
          /\ A[10] = Plain(<<Optional({" "}), Some(Others, text), Many(Newlines, text)>>)
          /\ A[11] = Plain(<<Many(Blanks, text), Some(Newlines, text)>>)
      BY <3>1, <3>2, Zenon DEF OfLater
    <3>4. Takes(text, at, Plain(<<Optional(first), Some(Letters, text)>>), r[2])
      <4>1. first = (IF pattern = "Gpt2" THEN {" "}
                     ELSE Characters \ (Newlines \cup Letters \cup Digits))
        BY <2>3
      <4>. HIDE DEF first
      <4>. QED
        BY <1>2, <4>1, WordTakes
    <3>5. Takes(text, at, Plain(<<Item(Digits, 1, top)>>), r[3])
      BY <1>2, <2>3, NumberTakes
    <3>6. Takes(text, at, Plain(<<Optional({" "}), Some(Others, text), Many(Newlines, text)>>), r[4])
      BY <1>2, <2>3, PunctuationTakes
    <3>7. Takes(text, at, Plain(<<Many(Blanks, text), Some(Newlines, text)>>), r[5])
      <4>1. \A j \in 1..Len(text) : text[j] \in Newlines => text[j] \in Blanks
        <5>1. \A j \in 1..Len(text) : text[j] \in Characters
          BY ElementOfSeq
        <5>2. Newlines \cap Characters \subseteq Blanks
          BY CharacterAssumption DEF Characters
        <5>. QED
          BY <5>1, <5>2
      <4>. QED
        BY <1>2, <2>3, <4>1, BreaksTake
    <3>. HIDE DEF first, top
    <3>. QED
      BY <2>3, <3>3, <3>4, <3>5, <3>6, <3>7
  <2>. QED
    BY <2>2, <2>3
<1>7. T(8 + m, r[6]) /\ T(9 + m, r[7])
  BY <1>2, <1>4, SpaceTakes
<1>. HIDE DEF T
<1>8. ASSUME NEW j \in 1..(9 + m), T(j, r[k]), \A i \in 1..(j - 1) : T(i, 0)
      PROVE  piece(text, at, pattern) = ByPattern(text, at, pattern)
  <2>1. 9 + m \in Nat /\ r[k] \in Nat \ {0}
    BY <1>1, <1>3
  <2>2. /\ A = Alternatives(text, pattern) /\ DOMAIN A = 1..(9 + m)
        /\ Takes(text, at, A[j], r[k]) /\ \A i \in 1..(j - 1) : Takes(text, at, A[i], 0)
    BY <1>4, <1>8, Zenon DEF A, T
  <2>3. ByPattern(text, at, pattern) = r[k]
    BY <1>0, <2>1, <2>2, FirstTakes
  <2>. QED
    BY <1>1, <2>3
<1>9. CASE k = 1
  BY <1>1, <1>5, <1>9
<1>10. ASSUME k # 1
       PROVE  r[1] = 0 /\ \A j \in 1..7 : T(j, 0)
  <2>1. 1 \in 1..(k - 1)
    BY <1>10
  <2>. QED
    BY <1>1, <1>5, <2>1
<1>11. CASE k = 2
  <2>1. T(8, r[k]) /\ 8 \in 1..(9 + m) /\ 8 - 1 = 7 /\ k # 1
    BY <1>3, <1>6, <1>11
  <2>. QED
    BY <1>8, <1>10, <2>1
<1>12. CASE k = 3
  <2>1. T(9, r[k]) /\ 9 \in 1..(9 + m) /\ k # 1
    BY <1>3, <1>6, <1>12
  <2>2. r[2] = 0
    BY <1>1, <1>12
  <2>3. T(8, 0) /\ \A i \in 1..(9 - 1) : i \in 1..7 \/ i = 8
    BY <1>6, <2>2
  <2>. QED
    BY <1>8, <1>10, <2>1, <2>3
<1>13. CASE k = 4
  <2>1. T(10, r[k]) /\ 10 \in 1..(9 + m) /\ k # 1
    BY <1>3, <1>6, <1>13
  <2>2. r[2] = 0 /\ r[3] = 0
    BY <1>1, <1>13
  <2>3. T(8, 0) /\ T(9, 0) /\ \A i \in 1..(10 - 1) : i \in 1..7 \/ i = 8 \/ i = 9
    BY <1>6, <2>2
  <2>. QED
    BY <1>8, <1>10, <2>1, <2>3
<1>14. CASE k = 5
  <2>1. pattern # "Gpt2"
    BY <1>1, <1>2, <1>14 DEF Breaks
  <2>2. T(11, r[k]) /\ 11 \in 1..(9 + m) /\ k # 1
    BY <1>3, <1>6, <1>14, <2>1
  <2>3. r[2] = 0 /\ r[3] = 0 /\ r[4] = 0
    BY <1>1, <1>14
  <2>4. T(8, 0) /\ T(9, 0) /\ T(10, 0) /\ \A i \in 1..(11 - 1) : i \in 1..7 \/ i = 8 \/ i = 9 \/ i = 10
    BY <1>6, <2>3
  <2>. QED
    BY <1>8, <1>10, <2>2, <2>4
<1>15. ASSUME k \in {6, 7}
       PROVE  \A i \in 1..(7 + m) : T(i, 0)
  <2>1. k # 1 /\ r[2] = 0 /\ r[3] = 0 /\ r[4] = 0 /\ r[5] = 0
    BY <1>1, <1>15
  <2>2. T(8, 0) /\ T(9, 0) /\ T(10, 0) /\ (pattern # "Gpt2" => T(11, 0))
    BY <1>6, <2>1
  <2>3. CASE pattern = "Gpt2"
    <3>1. \A i \in 1..(7 + m) : i \in 1..7 \/ i = 8 \/ i = 9 \/ i = 10
      BY <1>3, <2>3
    <3>. QED
      BY <1>10, <2>1, <2>2, <3>1
  <2>4. CASE pattern # "Gpt2"
    <3>1. \A i \in 1..(7 + m) : i \in 1..7 \/ i = 8 \/ i = 9 \/ i = 10 \/ i = 11
      BY <1>3, <2>4
    <3>. QED
      BY <1>10, <2>1, <2>2, <2>4, <3>1
  <2>. QED
    BY <2>3, <2>4
<1>16. CASE k = 6
  <2>1. T(8 + m, r[k]) /\ 8 + m \in 1..(9 + m) /\ (8 + m) - 1 = 7 + m
    BY <1>3, <1>7, <1>16
  <2>2. \A i \in 1..((8 + m) - 1) : T(i, 0)
    BY <1>15, <1>16, <2>1
  <2>. QED
    BY <1>8, <2>1, <2>2
<1>17. CASE k = 7
  <2>1. T(9 + m, r[k]) /\ 9 + m \in 1..(9 + m)
    BY <1>3, <1>7, <1>17
  <2>2. r[6] = 0
    BY <1>1, <1>17
  <2>3. T(8 + m, 0) /\ \A i \in 1..((9 + m) - 1) : i \in 1..(7 + m) \/ i = 8 + m
    BY <1>3, <1>7, <2>2
  <2>4. \A i \in 1..((9 + m) - 1) : T(i, 0)
    BY <1>15, <1>17, <2>3
  <2>. QED
    BY <1>8, <2>1, <2>4
<1>18. CASE k = 8
  <2>1. r[2] = 0 /\ r[3] = 0 /\ r[4] = 0 /\ r[7] = 0
    BY <1>1, <1>18
  <2>. QED
    BY <1>2, <2>1, SomeRule
<1>. QED
  BY <1>9, <1>11, <1>12, <1>13, <1>14, <1>16, <1>17, <1>18
=============================================================================
