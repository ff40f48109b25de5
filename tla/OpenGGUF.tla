------------------------------ MODULE OpenGGUF ------------------------------
(***************************************************************************)
(* `openGGUF` of src/js/index.mjs over a URL source: prepare the source,   *)
(* read a growing prefix until the header parses, check the tensor table   *)
(* against the size, then read tensors for as long as the model lives.     *)
(*                                                                         *)
(* Each step of HttpSource that concerns a caller is taken together with   *)
(* what the caller's continuation does with it.                            *)
(***************************************************************************)
EXTENDS HttpSource, Header

CONSTANT HasPredicate  \* the module exports header_needs_more_bytes

ASSUME PredicateAssumption == HasPredicate \in BOOLEAN

VARIABLES
  stage,              \* how far each open has come
  length,             \* openGGUF's own copy of source.size()
  want,               \* the prefix the header loop is reading
  header              \* the version the parsed header is of

locals == <<stage, length, want, header>>

OpenInit == /\ Init
            /\ stage  = [c \in Callers |-> "new"]
            /\ length = [c \in Callers |-> 0]
            /\ want   = [c \in Callers |-> 0]
            /\ header = [c \in Callers |-> None]

Open(c) == /\ stage[c] = "new"
           /\ StartPrepare(c)
           /\ stage' = [stage EXCEPT ![c] = "preparing"]
           /\ UNCHANGED <<length, want, header>>

Prepared(c) == /\ FinishPrepare(c)
               /\ stage' = [stage EXCEPT ![c] =
                              IF model'[c] = "open" THEN "prepared" ELSE "failed"]
               /\ UNCHANGED <<length, want, header>>

(* After `await source.prepare()`: take the size, enter the loop.          *)
BeginHeader(c) ==
  /\ stage[c] = "prepared"
  /\ length' = [length EXCEPT ![c] = size]
  /\ want'   = [want EXCEPT ![c] = Lesser(First, size)]
  /\ stage'  = [stage EXCEPT ![c] = IF size > 0 THEN "header" ELSE "failed"]
  /\ UNCHANGED <<vars, header>>

ReadHeader(c) == /\ stage[c] = "header"
                 /\ StartRead(c, [at |-> 0, length |-> want[c]])
                 /\ UNCHANGED locals

(* The condition of the loop, one short at the bound.                      *)
LoopEndsEarly(n, total) == n < Lesser(Largest, total)

(* The condition of the loop over `want`.                                  *)
LoopGoesOn(n, total) == n <= Lesser(Largest, total)

(* A table that is not checked against the size.                           *)
HeaderParsesUnchecked(c, v) ==
  /\ Parse(v, want[c]) = "parsed"
  /\ header' = [header EXCEPT ![c] = v]
  /\ stage'  = [stage EXCEPT ![c] = "open"]
  /\ UNCHANGED want

(* The three ways a prefix leaves the loop body.  A header that parses has *)
(* checkRange(entry, name, size) applied to each of its tensors.           *)
HeaderParses(c, v) ==
  /\ Parse(v, want[c]) = "parsed"
  /\ header' = [header EXCEPT ![c] = v]
  /\ stage'  = [stage EXCEPT ![c] =
                  IF TableFits(v, length[c]) THEN "open" ELSE "unreadable"]
  /\ UNCHANGED want

GivesUpAtEnd(c, v) == want[c] >= length[c]

GivesUp(c, v) == \/ HasPredicate /\ Parse(v, want[c]) = "malformed"
                 \/ want[c] >= length[c]

HeaderFails(c, v) ==
  /\ Parse(v, want[c]) # "parsed" /\ GivesUp(c, v)
  /\ stage' = [stage EXCEPT ![c] = "unreadable"]
  /\ UNCHANGED <<want, header>>

HeaderGrows(c, v) ==
  /\ Parse(v, want[c]) # "parsed" /\ ~GivesUp(c, v)
  /\ want' = [want EXCEPT ![c] = Grown(@, length[c])]
  /\ stage' = [stage EXCEPT ![c] =
                 IF LoopGoesOn(want'[c], length[c]) THEN @ ELSE "unreadable"]
  /\ UNCHANGED header

HeaderArrives(c) ==
  /\ stage[c] = "header"
  /\ FinishRead(c)
  /\ LET v == reply[c].body.version
     IN HeaderParses(c, v) \/ HeaderFails(c, v) \/ HeaderGrows(c, v)
  /\ UNCHANGED length

(* bytes(name), and the tensor reads inside floats() and rows().           *)
ReadTensor(c) == /\ stage[c] = "open"
                 /\ \E t \in Table[header[c]] : StartRead(c, t)
                 /\ UNCHANGED locals

TensorArrives(c) == /\ stage[c] = "open"
                    /\ FinishRead(c)
                    /\ UNCHANGED locals

(* A rejected call fails an open under way; an open model outlives it.     *)
Transport(c) ==
  /\ Check(c) \/ Lose(c) \/ ShortRead(c)
  /\ stage' = [stage EXCEPT ![c] =
                 IF phase'[c] = "idle" /\ @ # "open" THEN "failed" ELSE @]
  /\ UNCHANGED <<length, want, header>>

Elsewhere == /\ Replace \/ \E c \in Callers : Answer(c)
             /\ UNCHANGED locals

Client(c) == \/ Prepared(c) \/ BeginHeader(c) \/ ReadHeader(c)
             \/ HeaderArrives(c) \/ TensorArrives(c) \/ Transport(c)

OpenNext == Elsewhere \/ \E c \in Callers : Open(c) \/ ReadTensor(c) \/ Client(c)

(* fetch() and arrayBuffer() settle, with a response or a rejection, and   *)
(* the continuation is run.                                                *)
Fairness == \A c \in Callers : WF_<<vars, locals>>(Client(c))

OpenSpec == OpenInit /\ [][OpenNext]_<<vars, locals>> /\ Fairness

-----------------------------------------------------------------------------
(* Type invariant of what openGGUF adds to the source.                     *)
OpenTypeOK ==
  /\ TypeOK
  /\ stage \in [Callers -> {"new", "preparing", "prepared", "header", "open",
                            "failed", "unreadable"}]
  /\ length \in [Callers -> Nat] /\ want \in [Callers -> Nat]
  /\ header \in [Callers -> Versions \cup {None}]

(* "A header parsed from version A and a weight fetched from version B     *)
(* both succeed, and the result is a model that is quietly wrong": every   *)
(* byte an open model has, the header's growing prefixes included, is of   *)
(* the version its tensor table was read from.                             *)
TableMatchesBytes ==
  \A c \in Callers : stage[c] = "open" =>
     \A d \in got[c] : d.body.version = header[c]

(* A tensor of an open model is inside the object its reads are held to,   *)
(* though it was checked against a size taken before the header was read.  *)
TensorsInsideObject ==
  \A c \in Callers : stage[c] = "open" => TableFits(header[c], Length[header[c]])

(* The loop gives up only on a header that no permitted prefix would have  *)
(* parsed: one that is malformed, longer than LARGEST or than its file, or *)
(* whose tensors do not fit its file.                                      *)
RefusedForCause ==
  \A c \in Callers : \A d \in got[c] :
     stage[c] = "unreadable" =>
        LET v == d.body.version
        IN \/ Parse(v, Lesser(Largest, Length[v])) # "parsed"
           \/ ~TableFits(v, Length[v])

(* "LARGEST: the largest a header may be", and a read "doubles until it    *)
(* parses": an open ends, in a model or in an error.                       *)
OpenSettles ==
  \A c \in Callers : stage[c] = "preparing" ~>
                     stage[c] \in {"open", "failed", "unreadable"}
=============================================================================
