------------------------------- MODULE Header -------------------------------
(***************************************************************************)
(* What a reader learns from a prefix of a checkpoint.  The answer depends *)
(* on the version and on how much of it is there: too little of a header   *)
(* asks for more, a malformed one is refused once the malformed part is    *)
(* there, and a whole one parses.  That the parser answers in this shape   *)
(* is what the module Parser is about.                                     *)
(***************************************************************************)
EXTENDS Objects

CONSTANTS
  First, Largest,     \* FIRST and LARGEST
  Needs,              \* Needs[v]: how much of v its header takes
  Malformed,          \* Malformed[v]: how much shows that v is no GGUF, or None
  Table               \* Table[v]: the tensor ranges in v's header

ASSUME HeaderAssumption ==
  /\ First \in Nat \ {0} /\ Largest \in Nat /\ First <= Largest
  /\ Needs \in [Versions -> Nat \ {0}]
  /\ Malformed \in [Versions -> Nat \cup {None}]
  /\ \A v \in Versions : Table[v] \subseteq [at : Nat, length : Nat \ {0}]

(* GgufHeader::from_bytes on the first n bytes of version v.               *)
Parse(v, n) ==
  IF Malformed[v] # None /\ n >= Malformed[v] THEN "malformed"
  ELSE IF n >= Needs[v] THEN "parsed" ELSE "short"

(* The next prefix with one of its two bounds forgotten.                   *)
GrownPastLargest(n, total) == Lesser(n * 4, total)
GrownPastTotal(n, total)   == Lesser(n * 4, Largest)

(* The next prefix after n bytes were too few.                             *)
Grown(n, total) == Lesser(Lesser(n * 4, total), Largest)

TableFits(v, n) == \A t \in Table[v] : t.at + t.length <= n
=============================================================================
