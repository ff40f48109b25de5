---------------------------- MODULE PreTokenizer ----------------------------
(***************************************************************************)
(* `piece` of src/crates/gguf-tokenizer/src/pre.rs: how many characters of *)
(* a run of text the next pre-token takes.  The rules are tried in order,  *)
(* and a rule that does not apply takes 0.                                 *)
(*                                                                         *)
(* Characters are told apart as far as the rules do: by class, and by name *)
(* where a rule names them.  The classes are disjoint here; the Unicode    *)
(* tables behind is_alphabetic, is_numeric and is_whitespace are left out. *)
(***************************************************************************)
EXTENDS Integers, Sequences, FiniteSetsExt

CONSTANTS Letters, Digits, Blanks, Others,  \* the characters by class
          Lower                             \* to_ascii_lowercase on letters

Newlines   == {"\r", "\n"}
Characters == Letters \cup Digits \cup Blanks \cup Others
Patterns   == {"Gpt2", "Qwen2", "Llama3"}

ASSUME CharacterAssumption ==
  /\ Lower \in [Letters -> Letters]
  /\ \A c \in Letters \cap {"s", "t", "m", "d", "r", "e", "v", "l"} : Lower[c] = c
  /\ Letters \cap Digits = {} /\ Blanks \cap Others = {}
  /\ (Letters \cup Digits) \cap (Blanks \cup Others) = {}
  /\ " " \notin Letters \cup Digits \cup Others
  /\ Newlines \cap (Letters \cup Digits \cup Others) = {}

(* How far the characters of a class go from position i.                   *)
Run(text, i, class) ==
  Max({k \in 0..(Len(text) - i + 1) :
         \A j \in i..(i + k - 1) : text[j] \in class})

Leading(text, at, class) == IF text[at] \in class THEN 1 ELSE 0

(* 1. 's 't 'm 'd 're 've 'll, in either case but for GPT-2.               *)
Contraction(text, at, pattern) ==
  LET Fold(c) == IF pattern # "Gpt2" /\ c \in Letters THEN Lower[c] ELSE c
      Is(n)   == text[at] = "'" /\ at + n <= Len(text)
  IN IF Is(1) /\ Fold(text[at + 1]) \in {"s", "t", "m", "d"} THEN 2
     ELSE IF Is(2) /\ <<Fold(text[at + 1]), Fold(text[at + 2])>> \in
                        {<<"r", "e">>, <<"v", "e">>, <<"l", "l">>} THEN 3
     ELSE 0

(* 2. A run of letters and the character before it, if it may be absorbed. *)
Absorbed(pattern) == IF pattern = "Gpt2" THEN {" "}
                     ELSE (Blanks \cup Others) \ Newlines

Word(text, at, pattern) ==
  LET lead == Leading(text, at, Absorbed(pattern))
      run  == Run(text, at + lead, Letters)
  IN IF run > 0 THEN lead + run ELSE 0

(* 3. Digits, as many as the pattern takes at a time.                      *)
MaxDigits(pattern, run) == CASE pattern = "Qwen2"  -> Min({run, 1})
                             [] pattern = "Llama3" -> Min({run, 3})
                             [] pattern = "Gpt2"   -> run

Number(text, at, pattern) ==
  LET lead == IF pattern = "Gpt2" THEN Leading(text, at, {" "}) ELSE 0
      run  == Run(text, at + lead, Digits)
  IN IF run > 0 THEN lead + MaxDigits(pattern, run) ELSE 0

(* 4. Punctuation, a space before it, and line breaks after it.            *)
Punctuation(text, at, pattern) ==
  LET lead  == Leading(text, at, {" "})
      run   == Run(text, at + lead, Others)
      after == IF pattern = "Gpt2" THEN 0 ELSE Run(text, at + lead + run, Newlines)
  IN IF run > 0 THEN lead + run + after ELSE 0

(* 5. Whitespace up to the last line break in it.                          *)
Breaks(text, at, pattern) ==
  IF pattern = "Gpt2" THEN 0
  ELSE Max({0} \cup {k \in 1..Run(text, at, Blanks) : text[at + k - 1] \in Newlines})

(* 6. Whitespace at the end, or all but the last character of it: and the  *)
(* same without leaving one to the word that follows.                      *)
TrailingAndLeading(text, at) == Run(text, at, Blanks)

Trailing(text, at) ==
  LET run == Run(text, at, Blanks)
  IN IF at + run > Len(text) THEN run ELSE IF run > 1 THEN run - 1 ELSE 0

(* The first rule that takes something; 7. is whatever whitespace is left. *)
piece(text, at, pattern) ==
  LET rules == <<Contraction(text, at, pattern), Word(text, at, pattern),
                 Number(text, at, pattern), Punctuation(text, at, pattern),
                 Breaks(text, at, pattern), Trailing(text, at),
                 Run(text, at, Blanks), 1>>
  IN rules[Min({k \in DOMAIN rules : rules[k] > 0})]

-----------------------------------------------------------------------------
(* The patterns themselves, as the regular expressions they are upstream.  *)
(* An alternative is a sequence of items, each a class and how often it    *)
(* may repeat; `ends` is the assertion (?!\S).                             *)
Item(class, least, most) == [class |-> class, least |-> least, most |-> most]
Once(class)         == Item(class, 1, 1)
Optional(class)     == Item(class, 0, 1)
Many(class, text)   == Item(class, 0, Len(text))
Some(class, text)   == Item(class, 1, Len(text))
Plain(items)        == [items |-> items, ends |-> FALSE]

Cases(c, pattern) == IF pattern = "Gpt2" THEN {c}
                     ELSE {d \in Letters : Lower[d] = c} \cup {c}

Spelled(letters, pattern) ==
  Plain(<<Once({"'"})>> \o [k \in DOMAIN letters |-> Once(Cases(letters[k], pattern))])

Alternatives(text, pattern) ==
  LET contractions == <<Spelled(<<"s">>, pattern), Spelled(<<"t">>, pattern),
                        Spelled(<<"r", "e">>, pattern), Spelled(<<"v", "e">>, pattern),
                        Spelled(<<"m">>, pattern), Spelled(<<"l", "l">>, pattern),
                        Spelled(<<"d">>, pattern)>>
      space   == <<[items |-> <<Some(Blanks, text)>>, ends |-> TRUE],
                   Plain(<<Some(Blanks, text)>>)>>
      gpt2    == <<Plain(<<Optional({" "}), Some(Letters, text)>>),
                   Plain(<<Optional({" "}), Some(Digits, text)>>),
                   Plain(<<Optional({" "}), Some(Others, text)>>)>>
      later   == <<Plain(<<Optional(Characters \ (Newlines \cup Letters \cup Digits)),
                           Some(Letters, text)>>),
                   Plain(<<Item(Digits, 1, IF pattern = "Llama3" THEN 3 ELSE 1)>>),
                   Plain(<<Optional({" "}), Some(Others, text), Many(Newlines, text)>>),
                   Plain(<<Many(Blanks, text), Some(Newlines, text)>>)>>
  IN contractions \o (IF pattern = "Gpt2" THEN gpt2 ELSE later) \o space

(* The ways an alternative can match at a position, each as where its      *)
(* items end, and the one a greedy matcher comes to first: each item takes *)
(* all it can before the next one is tried.                                *)
Begin(ends, k, at) == IF k = 1 THEN at ELSE ends[k - 1]

Matched(text, at, alternative) ==
  LET items == alternative.items
  IN {ends \in [DOMAIN items -> at..(Len(text) + 1)] :
        /\ \A k \in DOMAIN items :
             /\ ends[k] - Begin(ends, k, at) \in items[k].least..items[k].most
             /\ \A j \in Begin(ends, k, at)..(ends[k] - 1) : text[j] \in items[k].class
        /\ alternative.ends =>
             \/ ends[Len(items)] > Len(text)
             \/ text[ends[Len(items)]] \in Blanks}

Greediest(matches) ==
  CHOOSE e \in matches : \A f \in matches \ {e} :
    \E k \in DOMAIN e : e[k] > f[k] /\ \A j \in 1..(k - 1) : e[j] = f[j]

(* What the pattern takes at a position of a text.                         *)
ByPattern(text, at, pattern) ==
  LET alternatives == Alternatives(text, pattern)
      matching     == {k \in DOMAIN alternatives : Matched(text, at, alternatives[k]) # {}}
      first        == alternatives[Min(matching)]
  IN Greediest(Matched(text, at, first))[Len(first.items)] - at
=============================================================================
