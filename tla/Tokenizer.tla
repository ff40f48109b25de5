----------------------------- MODULE Tokenizer ------------------------------
(***************************************************************************)
(* `encode` and `decode` of src/crates/gguf-tokenizer/src/lib.rs.  The     *)
(* text is cut at its special tokens; what lies between two of them is a   *)
(* run, cut into pieces by PreTokenizer, and the bytes of a piece are      *)
(* merged, the merge of the lowest rank first.                             *)
(*                                                                         *)
(* A token is its text.  Visible[c] is what Alphabet::visible makes of the *)
(* UTF-8 bytes of character c: a character for each byte.  The pieces of a *)
(* run are cut one by one, each when the one before it has been merged.    *)
(***************************************************************************)
EXTENDS PreTokenizer, SequencesExt

CONSTANTS Visible,    \* [Characters -> sequences of visible characters]
          Inputs,     \* [text, pattern, merges, tokens, specials, unk]
          None

(* Empty specials are filtered out when the tokenizer is made.             *)
ASSUME InputAssumption ==
  /\ Visible \in [Characters -> Seq(STRING)]
  /\ \A given \in Inputs :
       /\ given.text \in Seq(Characters) /\ given.pattern \in Patterns
       /\ given.merges \in Seq(Seq(STRING) \X Seq(STRING))
       /\ \A s \in given.specials : s \in Seq(Characters) /\ s # <<>> /\ s # None

VARIABLES
  input,      \* the text and the tokenizer it is given to
  stage,      \* "find", "split", "merge", "done", "failed"
  cursor,     \* encode's cursor: where the current run begins
  stop,       \* where the run ends, and
  special,    \*   the special token found there, or None
  at,         \* where the next piece of the run begins
  cut,        \* where the current piece began
  parts,      \* the symbols of the current piece
  out         \* the tokens so far

vars == <<input, stage, cursor, stop, special, at, cut, parts, out>>

Alphabet == UNION {Range(Visible[c]) : c \in Characters}

VisibleText(text) == FlattenSeq([k \in DOMAIN text |-> Visible[text[k]]])

OccursAt(s, text, i) == /\ i + Len(s) <= Len(text) + 1
                        /\ SubSeq(text, i, i + Len(s) - 1) = s

(* The specials found from the cursor on, each where it comes first, and   *)
(* which of them is taken: the earliest, the longest of those.             *)
Found == {[start |-> i, text |-> s] : i \in cursor..Len(input.text), s \in input.specials}

LongestSpecial(found) ==
  CHOOSE f \in found : \A g \in found :
    \/ Len(f.text) > Len(g.text)
    \/ Len(f.text) = Len(g.text) /\ f.start <= g.start

EarliestSpecial(found) ==
  CHOOSE f \in found : \A g \in found :
    \/ f.start < g.start
    \/ f.start = g.start /\ Len(f.text) >= Len(g.text)

Init == /\ input \in Inputs
        /\ stage = "find" /\ cursor = 1 /\ stop = 1 /\ special = None
        /\ at = 1 /\ cut = 1 /\ parts = <<>> /\ out = <<>>

(* One iteration of encode, up to the run before the special token.        *)
Find ==
  /\ stage = "find" /\ cursor <= Len(input.text)
  /\ LET found == {f \in Found : OccursAt(f.text, input.text, f.start)}
     IN IF found # {}
        THEN stop' = EarliestSpecial(found).start /\ special' = EarliestSpecial(found).text
        ELSE stop' = Len(input.text) + 1 /\ special' = None
  /\ stage' = "split" /\ at' = cursor
  /\ UNCHANGED <<input, cursor, cut, parts, out>>

Finish == /\ stage = "find" /\ cursor > Len(input.text)
          /\ stage' = "done"
          /\ UNCHANGED <<input, cursor, stop, special, at, cut, parts, out>>

(* How far the next piece goes: looked for in all of the text, and in the  *)
(* run.                                                                    *)
NextPieceOfText == piece(input.text, at, input.pattern)

NextPiece == piece(SubSeq(input.text, cursor, stop - 1), at - cursor + 1, input.pattern)

Cut ==
  /\ stage = "split" /\ at < stop
  /\ at' = at + NextPiece /\ cut' = at
  /\ LET visible == VisibleText(SubSeq(input.text, at, at + NextPiece - 1))
     IN parts' = [k \in DOMAIN visible |-> <<visible[k]>>]
  /\ stage' = "merge"
  /\ UNCHANGED <<input, cursor, stop, special, out>>

(* The places where some merge applies, with its rank: where a merge is    *)
(* listed twice the first counts.                                          *)
Pairs == {[place |-> i, rank |-> r] :
            i \in 1..(Len(parts) - 1), r \in DOMAIN input.merges}

Applicable == {p \in Pairs : input.merges[p.rank] = <<parts[p.place], parts[p.place + 1]>>}

LeftmostPair(pairs) ==
  CHOOSE p \in pairs : \A q \in pairs :
    \/ p.place < q.place
    \/ p.place = q.place /\ p.rank <= q.rank

LowestPair(pairs) ==
  CHOOSE p \in pairs : \A q \in pairs :
    \/ p.rank < q.rank
    \/ p.rank = q.rank /\ p.place <= q.place

(* parts[i] and parts[i + 1] joined: the second kept, and removed.         *)
JoinedAndKept(i) == [parts EXCEPT ![i] = @ \o parts[i + 1]]

Joined(i) == RemoveAt([parts EXCEPT ![i] = @ \o parts[i + 1]], i + 1)

Merge ==
  /\ stage = "merge" /\ Applicable # {}
  /\ parts' = Joined(LowestPair(Applicable).place)
  /\ UNCHANGED <<input, stage, cursor, stop, special, at, cut, out>>

(* No merge applies: each part is a token, or the unknown token, or there  *)
(* is none and encode fails.                                               *)
Emit ==
  /\ stage = "merge" /\ Applicable = {}
  /\ IF input.unk # None \/ Range(parts) \subseteq input.tokens
     THEN /\ out' = out \o [k \in DOMAIN parts |->
                              IF parts[k] \in input.tokens THEN parts[k] ELSE input.unk]
          /\ stage' = "split"
     ELSE stage' = "failed" /\ UNCHANGED out
  /\ UNCHANGED <<input, cursor, stop, special, at, cut, parts>>

(* The run is done: its special token follows, or the text ends with it.   *)
RunEnds ==
  /\ stage = "split" /\ at = stop
  /\ IF special # None
     THEN /\ out' = Append(out, special) /\ cursor' = stop + Len(special)
          /\ stage' = "find"
     ELSE stage' = "done" /\ UNCHANGED <<out, cursor>>
  /\ UNCHANGED <<input, stop, special, at, cut, parts>>

Next == Find \/ Finish \/ Cut \/ Merge \/ Emit \/ RunEnds

Spec == Init /\ [][Next]_vars

(* The entries of a sequence that are in a set.                            *)
Only(s, set) == FlattenSeq([k \in DOMAIN s |-> IF s[k] \in set THEN <<s[k]>> ELSE <<>>])

(* decode(out): characters that are no byte's are dropped.                 *)
decode(tokens) == Only(FlattenSeq(tokens), Alphabet)

-----------------------------------------------------------------------------
(* Type invariant; a piece ends inside its run.                            *)
TypeOK ==
  /\ stage \in {"find", "split", "merge", "done", "failed"}
  /\ cursor \in 1..(Len(input.text) + 1) /\ stop \in 1..(Len(input.text) + 1)
  /\ special \in input.specials \cup {None}
  /\ at \in 1..(Len(input.text) + 1) /\ cut \in 1..at
  /\ stage \in {"split", "merge"} => cursor <= at /\ at <= stop
  /\ \A k \in DOMAIN parts : parts[k] # <<>> /\ Range(parts[k]) \subseteq Alphabet

(* "Ordered alternation is what the scanner reproduces ... Where upstream  *)
(* relies on backtracking the scanner computes the same answer directly"   *)
(* (pre.rs): each piece is what the pattern's first matching alternative   *)
(* takes there when it is matched greedily with backtracking.              *)
CutByPattern ==
  stage = "merge" =>
    at - cut = ByPattern(SubSeq(input.text, cursor, stop - 1), cut - cursor + 1,
                         input.pattern)

(* A merge list as training leaves it: no merge is listed twice, no two    *)
(* make the same token, and the parts of one are single characters or were *)
(* made by earlier ones.                                                   *)
Trained(merges) ==
  \A k \in DOMAIN merges :
    /\ \A j \in 1..(k - 1) :
         merges[j][1] \o merges[j][2] # merges[k][1] \o merges[k][2]
    /\ \A side \in {1, 2} :
         Len(merges[k][side]) > 1 =>
           \E j \in 1..(k - 1) : merges[k][side] = merges[j][1] \o merges[j][2]

(* A symbol behind those a merge was applied to: joined with the last of   *)
(* them, if the two are the merge's.                                       *)
AppliedTo(merge, done, s) ==
  IF done # <<>> /\ <<Last(done), s>> = merge
  THEN Front(done) \o <<merge[1] \o merge[2]>>
  ELSE Append(done, s)

(* One merge applied everywhere, from the left.                            *)
AppliedAll(merge, symbols) ==
  LET done[k \in 0..Len(symbols)] ==
        IF k = 0 THEN <<>> ELSE AppliedTo(merge, done[k - 1], symbols[k])
  IN done[Len(symbols)]

(* Each merge of a list applied everywhere, in the order of the list.      *)
Replayed(merges, symbols) ==
  LET done[k \in 0..Len(merges)] ==
        IF k = 0 THEN symbols ELSE AppliedAll(merges[k], done[k - 1])
  IN done[Len(merges)]

(* "The GGUF merge list is in priority order and the lowest rank wins":    *)
(* a piece comes out as if the merges had been replayed over it once, in   *)
(* the order in which training made them.                                  *)
ByPriority ==
  stage = "merge" /\ Applicable = {} /\ Trained(input.merges) =>
    LET visible == VisibleText(SubSeq(input.text, cut, at - 1))
    IN parts = Replayed(input.merges, [k \in DOMAIN visible |-> <<visible[k]>>])

(* The special tokens of a text, read from the left one character at a    *)
(* time: the longest that begins here, or none and on to the next.         *)
Marks(text, specials) ==
  LET Here(i) == {s \in specials : OccursAt(s, text, i)}
      Longest(i) == CHOOSE s \in Here(i) : \A t \in Here(i) : Len(t) <= Len(s)
      from[i \in 1..(Len(text) + 1)] ==
        IF i > Len(text) THEN <<>>
        ELSE IF Here(i) = {} THEN from[i + 1]
        ELSE <<Longest(i)>> \o from[i + Len(Longest(i))]
  IN from[1]

(* "Literal strings that must never be split": the tokens hold exactly the *)
(* special tokens that a reader from the left sees in the text, however    *)
(* they begin or overlap one another.                                      *)
SpecialsWhole ==
  stage = "done" =>
    Only(out, input.specials) = Marks(input.text, input.specials)

(* "Token ids back to text" (decode): what was encoded comes back, byte    *)
(* for byte, unless a piece had no token of its own.                       *)
RoundTrip ==
  stage = "done" /\ input.unk = None => decode(out) = VisibleText(input.text)

(* What those two promises need of the input.  Written out as characters   *)
(* of bytes, the special tokens are themselves; and no special token is    *)
(* what a byte, a merge or the lack of a token gives.                      *)
SpecialsPlain(given) == \A s \in given.specials : VisibleText(s) = s

SpecialsApart(given) ==
  \A s \in given.specials :
    /\ s # given.unk
    /\ s \notin {<<v>> : v \in Alphabet}
    /\ \A k \in DOMAIN given.merges : given.merges[k][1] \o given.merges[k][2] # s
=============================================================================
