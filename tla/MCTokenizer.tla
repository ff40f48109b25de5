----------------------------- MODULE MCTokenizer ----------------------------
(***************************************************************************)
(* Every text of up to MaxText of ten characters, under each pattern, with *)
(* three special tokens that begin or overlap one another; longer texts of *)
(* the characters in those, and of digits and whitespace; every text of up *)
(* to MaxWord of two letters, with every trained list of three merges and  *)
(* one that no training leaves; and a character of two bytes, with a       *)
(* vocabulary that lacks a token.                                          *)
(***************************************************************************)
EXTENDS Tokenizer

CONSTANTS MaxText, MaxWord   \* bounds on the texts tried

MCLetters == {"s", "S", "r", "e", "e-acute"}
MCDigits  == {"1"}
MCBlanks  == {" ", "\t", "\n"}
MCOthers  == {"'", "."}
MCLower   == [c \in MCLetters |-> IF c = "S" THEN "s" ELSE c]
MCVisible == [c \in Characters |->
                CASE c = " "  -> <<"G.">> [] c = "\t" -> <<"I.">> [] c = "\n" -> <<"J.">>
                  [] c = "e-acute" -> <<"A-tilde", "copyright">> [] OTHER -> <<c>>]

Texts(chars, n) == UNION {[1..k -> chars] : k \in 0..n}
Singles == {<<v>> : v \in UNION {Range(MCVisible[c]) : c \in Characters}}
Made(merges) == {merges[k][1] \o merges[k][2] : k \in DOMAIN merges}

Given(texts, patterns, lists, specials, lacking, unks) ==
  {[text |-> t, pattern |-> p, merges |-> m, specials |-> specials,
    tokens |-> (Singles \cup Made(m)) \ lacking, unk |-> u] :
       t \in texts, p \in patterns, m \in lists, u \in unks}

Symbols == Texts({"s", "e"}, 2) \ {<<>>}
Lists   == {m \in Texts(Symbols \X Symbols, 2) : Trained(m)}
TrainedLists == {m \in {Append(l, p) : l \in Lists, p \in Symbols \X Symbols} : Trained(m)}
Untrained == << <<<<"s", "e">>, <<"s">>>>, <<<<"s">>, <<"e">>>>, <<<<"s">>, <<"e">>>> >>
Words == << <<<<"G.">>, <<"e">>>>, <<<<"r">>, <<"e">>>>, <<<<"G.">>, <<"r">>>> >>
Overlapping == {<<"'", ".">>, <<"'", ".", "'">>, <<".", "'">>}
TwoBytes    == << <<<<"A-tilde">>, <<"copyright">>>> >>

MCInputs ==
  Given(Texts(Characters \ {"e-acute"}, MaxText), Patterns, {Words}, Overlapping, {}, {None})
  \cup Given(Texts({"1", " ", "\n"}, MaxText + 1), Patterns, {Words}, {}, {}, {None})
  \cup Given(Texts({"'", ".", "e"}, MaxText + 2), {"Llama3"}, {Words}, Overlapping, {}, {None})
  \cup Given(Texts({"s", "e"}, MaxWord), {"Qwen2"}, TrainedLists \cup {Untrained}, {}, {}, {None})
  \cup Given(Texts({"e-acute", "e", " "}, 3), {"Gpt2"}, {TwoBytes, <<>>}, {}, {<<"copyright">>},
             {None, <<"?">>})

(* The inputs are of the kind that RoundTripHolds and SpecialsWholeHolds    *)
(* are about.                                                              *)
ASSUME PlainAndApart == \A given \in MCInputs : SpecialsPlain(given) /\ SpecialsApart(given)

(* A run of spaces as a token of its own, as vocabularies for code have.   *)
Indents == Given(Texts({" ", "e"}, 4), {"Gpt2"}, {Words}, {<<" ", " ">>}, {}, {None})
=============================================================================
