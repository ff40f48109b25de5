-------------------------- MODULE HttpSourceProofs --------------------------
(***************************************************************************)
(* Theorems about the URL source, for any number of models, versions and   *)
(* validators.  Those about identity need a server that is consistent in   *)
(* the sense of ConsistentServer, whatever else it gets wrong.  Those      *)
(* about ranges and lengths, in the second part, need no validator, and    *)
(* the first of them no care by the application: a server may answer with  *)
(* any of the faults, but what it says of a range in a reply is about the  *)
(* bytes it sends with it.                                                 *)
(***************************************************************************)
EXTENDS HttpSource, TLAPS

(* What the fields of a reply say of the version it was made from.         *)
Genuine(r, req, v, way) ==
  /\ r \in Replies
  /\ r.body.version = v
  /\ r.etag = ShownETag(v, way)
  /\ r.modified = ShownModified(v, way)
  /\ r.status = 206 => RangeApplies(req, v, way)

(* A reply put together by the server is genuine.                          *)
LEMMA ResponseGenuine ==
  ASSUME NEW req \in Requests, NEW v \in Versions, NEW way \in Ways,
         NEW status \in Statuses, NEW range \in Ranges \cup {None},
         NEW at \in Nat, NEW count \in Nat,
         status = 206 => RangeApplies(req, v, way)
  PROVE  Genuine(Response(status, range, v, way, at, count), req, v, way)
<1>1. /\ ETag[v] \in StrongTags \cup WeakTags \cup {None}
      /\ Modified[v] \in Dates \cup {None}
  BY ValidatorAssumption
<1>2. /\ ShownETag(v, way) \in StrongTags \cup WeakTags \cup {None}
      /\ ShownModified(v, way) \in Dates \cup {None}
  BY <1>1 DEF ShownETag, ShownModified
<1>3. [version |-> v, at |-> at, count |-> count] \in Chunks
  BY DEF Chunks
<1>. QED
  BY <1>2, <1>3 DEF Genuine, Response, Replies

(* A 200 carries the whole object and no claim about the range.            *)
LEMMA WholeGenuine ==
  ASSUME NEW req \in Requests, NEW v \in Versions, NEW way \in Ways
  PROVE  Genuine(Whole(v, way), req, v, way)
<1>1. Length[v] \in Nat
  BY ObjectAssumption
<1>2. 200 \in Statuses /\ 200 # 206
  BY DEF Statuses
<1>. QED
  BY <1>1, <1>2, ResponseGenuine DEF Whole

(* What a correct server answers is genuine.                               *)
LEMMA RightGenuine ==
  ASSUME NEW req \in Requests, NEW v \in Versions, NEW way \in Ways
  PROVE  Genuine(Right(req, v, way), req, v, way)
<1>1. Length[v] \in Nat
  BY ObjectAssumption
<1>2. req.first \in Nat /\ req.last \in Nat /\ req.first <= req.last
  BY DEF Requests
<1>3. CASE ~RangeApplies(req, v, way)
  <2>1. Genuine(Whole(v, way), req, v, way)
    BY WholeGenuine
  <2>. QED
    BY <1>3, <2>1 DEF Right
<1>4. CASE RangeApplies(req, v, way) /\ req.first >= Length[v]
  <2>1. Genuine(NoBytes(416, v, way), req, v, way)
    BY ResponseGenuine DEF NoBytes, Statuses
  <2>. QED
    BY <1>4, <2>1 DEF Right
<1>5. CASE RangeApplies(req, v, way) /\ ~(req.first >= Length[v])
  <2>. DEFINE last  == Lesser(req.last, Length[v] - 1)
              range == [first |-> req.first, last |-> last, total |-> Length[v]]
              count == last - req.first + 1
  <2>1. last \in Nat /\ count \in Nat
    BY <1>1, <1>2, <1>5 DEF Lesser
  <2>2. range \in Ranges
    BY <1>1, <1>2, <2>1 DEF Ranges
  <2>3. Partial(req, v, way) = Response(206, range, v, way, req.first, count)
    BY DEF Partial
  <2>. HIDE DEF last, range, count
  <2>4. Genuine(Response(206, range, v, way, req.first, count), req, v, way)
    <3>1. 206 \in Statuses
      BY DEF Statuses
    <3>. QED
      BY SMTT(30), <1>2, <1>5, <2>1, <2>2, <3>1, ResponseGenuine, Zenon
  <2>. QED
    BY <1>5, <2>3, <2>4 DEF Right
<1>. QED
  BY <1>3, <1>4, <1>5

(* So is what a wrong one does: no fault forges a validator.               *)
LEMMA WrongGenuine ==
  ASSUME NEW req \in Requests, NEW v \in Versions, NEW way \in Ways,
         NEW f \in FaultNames
  PROVE  Genuine(Wrong(f, req, v, way), req, v, way)
<1>. DEFINE right == Right(req, v, way)
            Shift(range) == [first |-> range.first + 1, last |-> range.last + 1,
                             total |-> range.total]
            With(range, at, count) == Response(right.status, range, v, way, at, count)
<1>1. Genuine(right, req, v, way)
  BY RightGenuine
<1>2. /\ right.status \in Statuses
      /\ right.status = 206 => RangeApplies(req, v, way)
      /\ right.range \in Ranges \cup {None}
      /\ right.body.at \in Nat /\ right.body.count \in Nat
  BY <1>1 DEF Genuine, Replies, Chunks
<1>. HIDE DEF right
<1>3. ASSUME NEW range \in Ranges \cup {None}, NEW at \in Nat, NEW count \in Nat
      PROVE  Genuine(With(range, at, count), req, v, way)
  BY <1>2, ResponseGenuine, Zenon
<1>5. Genuine(Whole(v, way), req, v, way)
  BY WholeGenuine
<1>6. Genuine(NoBytes(503, v, way), req, v, way)
  BY ResponseGenuine DEF NoBytes, Statuses
<1>7. ASSUME right.range # None
      PROVE  /\ Shift(right.range) \in Ranges
             /\ [right.range EXCEPT !.total = 0] \in Ranges
  <2>1. right.range \in Ranges
    BY <1>2, <1>7
  <2>2. \A range \in Ranges :
          /\ Shift(range) \in Ranges
          /\ [range EXCEPT !.total = 0] \in Ranges
    BY DEF Ranges
  <2>. QED
    BY <2>1, <2>2
<1>. HIDE DEF With, Shift
<1>9. Genuine(With(None, right.body.at, right.body.count), req, v, way)
  BY <1>2, <1>3
<1>10. right.range # None =>
         Genuine(With(Shift(right.range),
                      right.body.at + 1, right.body.count), req, v, way)
  <2>1. right.body.at + 1 \in Nat
    BY <1>2
  <2>. QED
    BY <1>2, <1>3, <1>7, <2>1
<1>11. right.range # None =>
         Genuine(With([right.range EXCEPT !.total = 0],
                      right.body.at, right.body.count), req, v, way)
  BY <1>2, <1>3, <1>7
<1>12. right.body.count > 0 =>
         Genuine(With(right.range, right.body.at, right.body.count - 1), req, v, way)
  <2>1. right.body.count > 0 => right.body.count - 1 \in Nat
    BY <1>2
  <2>. QED
    BY <1>2, <1>3, <2>1
<1>. QED
  BY <1>1, <1>5, <1>6, <1>9, <1>10, <1>11, <1>12 DEF Wrong, right, With, Shift

(* What Answer may put in `reply`.                                         *)
LEMMA AnswersGenuine ==
  ASSUME NEW req \in Requests, NEW v \in Versions,
         NEW ways \in SUBSET Ways,
         NEW r \in Answers(req, v, ways)
  PROVE  \E way \in ways : Genuine(r, req, v, way)
<1>1. CASE \E way \in ways : r = Right(req, v, way)
  BY <1>1, RightGenuine
<1>2. CASE \E f \in Faults, way \in ways : r = Wrong(f, req, v, way)
  BY <1>2, WrongGenuine, ServerAssumption
<1>. QED
  BY <1>1, <1>2 DEF Answers

(* The headers a server may show are among the two that are looked at.     *)
LEMMA WaysForType == \A kind : WaysFor(kind) \in SUBSET Ways
  BY ServerAssumption DEF WaysFor

(* The identity checkRange takes from a reply, and prepare pins.           *)
LEMMA IdentityType ==
  ASSUME NEW r \in Replies
  PROVE  Identity(r) \in StrongTags \cup Dates \cup {None}
  BY DEF Identity, IdentityOf, Replies

-----------------------------------------------------------------------------
(* Type correctness.                                                       *)
TypeInv == TypeOK /\ CallsOK

(* The initial state is well typed.                                        *)
LEMMA TypeInit == Init => TypeInv
  BY DEF Init, TypeInv, TypeOK, CallsOK

(* A call that settles leaves the other calls as they are.                 *)
LEMMA SettleType ==
  ASSUME TypeInv, NEW c \in Callers, Settle(c),
         model' \in [Callers -> {"new", "open", "refused"}],
         \A d \in Callers : d # c => model'[d] = model[d]
  PROVE  /\ op' \in [Callers -> {"none", "prepare", "read"}]
         /\ phase' \in [Callers -> {"idle", "sent", "replied", "body"}]
         /\ asked' \in [Callers -> Requests \cup {None}]
         /\ reply' \in [Callers -> Replies \cup {None}]
         /\ CallsOK'
<1>1. /\ op' \in [Callers -> {"none", "prepare", "read"}]
      /\ phase' \in [Callers -> {"idle", "sent", "replied", "body"}]
      /\ asked' \in [Callers -> Requests \cup {None}]
      /\ reply' \in [Callers -> Replies \cup {None}]
  BY DEF TypeInv, TypeOK, Settle
<1>2. ASSUME NEW d \in Callers, d # c
      PROVE  /\ op'[d] = op[d] /\ phase'[d] = phase[d]
             /\ asked'[d] = asked[d] /\ reply'[d] = reply[d]
  BY <1>2 DEF TypeInv, TypeOK, Settle
<1>3. op'[c] = "none" /\ phase'[c] = "idle"
  BY DEF TypeInv, TypeOK, Settle
<1>4. CallsOK'
  BY <1>2, <1>3 DEF TypeInv, CallsOK
<1>. QED
  BY <1>1, <1>4

(* A call that rejects keeps the types.                                    *)
LEMMA RejectType ==
  ASSUME TypeInv, NEW c \in Callers, Reject(c)
  PROVE  TypeInv'
<1>1. /\ model' \in [Callers -> {"new", "open", "refused"}]
      /\ \A d \in Callers : d # c => model'[d] = model[d]
  BY DEF TypeInv, TypeOK, Reject
<1>2. Settle(c)
  BY DEF Reject
<1>. QED
  BY <1>1, <1>2, SettleType DEF TypeInv, TypeOK, Reject, source

(* A request that is sent is one the server can be asked.                  *)
LEMMA SendType ==
  ASSUME TypeInv, NEW c \in Callers, NEW kind \in {"prepare", "read"},
         NEW req \in Requests, Send(c, kind, req), phase[c] = "idle",
         kind = "read" => model[c] = "open",
         UNCHANGED <<object, source, model, pinned, got>>
  PROVE  TypeInv'
<1>1. TypeOK'
  BY DEF TypeInv, TypeOK, Send, source
<1>2. ASSUME NEW d \in Callers, d # c
      PROVE  /\ op'[d] = op[d] /\ phase'[d] = phase[d]
             /\ asked'[d] = asked[d] /\ reply'[d] = reply[d]
  BY <1>2 DEF TypeInv, TypeOK, Send
<1>3. op'[c] = kind /\ phase'[c] = "sent" /\ asked'[c] = req
  BY DEF TypeInv, TypeOK, Send
<1>4. CallsOK'
  BY <1>2, <1>3 DEF TypeInv, CallsOK
<1>. QED
  BY <1>1, <1>4 DEF TypeInv

(* An answer keeps the types and is genuine.                               *)
LEMMA AnswerType ==
  ASSUME TypeInv, NEW c \in Callers, Answer(c)
  PROVE  /\ TypeInv'
         /\ \E way \in WaysFor(op[c]) : Genuine(reply'[c], asked[c], object, way)
<1>1. asked[c] \in Requests /\ object \in Versions
  BY DEF TypeInv, TypeOK, CallsOK, Answer
<1>2. PICK r \in Answers(asked[c], object, WaysFor(op[c])) :
        reply' = [reply EXCEPT ![c] = r]
  BY DEF Answer
<1>3. PICK way \in WaysFor(op[c]) : Genuine(r, asked[c], object, way)
  BY <1>1, AnswersGenuine, WaysForType
<1>4. r \in Replies
  BY <1>3 DEF Genuine
<1>5. reply'[c] = r
  BY <1>2 DEF TypeInv, TypeOK
<1>6. TypeOK'
  BY <1>2, <1>4 DEF TypeInv, TypeOK, Answer, source
<1>7. CallsOK'
  BY <1>2, <1>4, <1>5 DEF TypeInv, TypeOK, CallsOK, Answer
<1>. QED
  BY <1>3, <1>5, <1>6, <1>7 DEF TypeInv

(* A step of the source, whatever the range that is read: openGGUF reads   *)
(* ranges of its own, which the lemmas are to cover.                       *)
Askable == [at : Nat, length : Nat \ {0}]

Moves(c) == \/ StartPrepare(c) \/ \E r \in Askable : StartRead(c, r)
            \/ Answer(c) \/ Lose(c) \/ Check(c)
            \/ FinishPrepare(c) \/ FinishRead(c) \/ ShortRead(c)

Move == Replace \/ \E c \in Callers : Moves(c)

(* The steps of the specification are among them.                          *)
LEMMA NextMoves == [Next]_vars => [Move]_vars
  BY ServerAssumption DEF Next, Step, Move, Moves, Askable

(* Every step preserves the types, and what a call in flight carries.      *)
LEMMA TypeStep == TypeInv /\ [Move]_vars => TypeInv'
<1>. SUFFICES ASSUME TypeInv, [Move]_vars PROVE TypeInv'
  OBVIOUS
<1>1. CASE UNCHANGED vars
  BY <1>1 DEF vars, TypeInv, TypeOK, CallsOK
<1>2. CASE Replace
  BY <1>2 DEF Replace, source, calls, TypeInv, TypeOK, CallsOK
<1>3. ASSUME NEW c \in Callers, Moves(c)
      PROVE  TypeInv'
  <2>1. CASE StartPrepare(c)
    <3>1. [first |-> 0, last |-> 0, ifRange |-> None] \in Requests
      BY DEF Requests
    <3>. QED
      BY <2>1, <3>1, SendType DEF StartPrepare
  <2>2. ASSUME NEW r \in Askable, StartRead(c, r)
        PROVE  TypeInv'
    <3>1. r.at \in Nat /\ r.length \in Nat \ {0}
      BY DEF Askable
    <3>2. validator \in Validators \cup {None}
      BY DEF TypeInv, TypeOK, Validators
    <3>3. [first |-> r.at, last |-> r.at + r.length - 1, ifRange |-> validator]
            \in Requests
      BY <3>1, <3>2 DEF Requests
    <3>. QED
      BY <2>2, <3>3, SendType DEF StartRead
  <2>3. CASE Answer(c)
    BY <2>3, AnswerType
  <2>4. CASE Lose(c) \/ ShortRead(c)
    BY <2>4, RejectType DEF Lose, ShortRead
  <2>5. CASE Check(c)
    <3>1. CASE Reject(c)
      BY <3>1, RejectType
    <3>2. CASE /\ phase[c] = "replied" /\ Accepts(reply[c], asked[c])
               /\ phase' = [phase EXCEPT ![c] = "body"]
               /\ UNCHANGED <<object, source, model, op, asked, reply, pinned, got>>
      BY <3>2 DEF Accepts, Usable, TypeInv, TypeOK, CallsOK, source
    <3>. QED
      BY <2>5, <3>1, <3>2 DEF Check
  <2>6. CASE FinishPrepare(c)
    <3>1. reply[c] \in Replies /\ reply[c].range \in Ranges
      BY <2>6 DEF FinishPrepare, TypeInv, CallsOK, Replies
    <3>2. /\ reply[c].range.total \in Nat /\ reply[c].body.version \in Versions
          /\ Identity(reply[c]) \in StrongTags \cup Dates \cup {None}
      BY <3>1, IdentityType DEF Ranges, Replies, Chunks
    <3>3. /\ model' \in [Callers -> {"new", "open", "refused"}]
          /\ \A d \in Callers : d # c => model'[d] = model[d]
      BY <2>6 DEF FinishPrepare, TypeInv, TypeOK
    <3>4. size' \in Nat \cup {None} /\ validator' \in StrongTags \cup Dates \cup {None}
          /\ pinned' \in Versions \cup {None}
      BY <2>6, <3>2 DEF FinishPrepare, TypeInv, TypeOK
    <3>. QED
      BY <2>6, <3>3, <3>4, SettleType DEF FinishPrepare, TypeInv, TypeOK
  <2>7. CASE FinishRead(c)
    <3>1. asked[c] \in Requests /\ reply[c].body \in Chunks
      BY <2>7 DEF FinishRead, TypeInv, CallsOK, Replies
    <3>2. got' \in [Callers -> SUBSET Delivered]
      BY <2>7, <3>1 DEF FinishRead, TypeInv, TypeOK, Delivered
    <3>. QED
      BY <2>7, <3>2, SettleType DEF FinishRead, TypeInv, TypeOK, source
  <2>. QED
    BY <1>3, <2>1, <2>2, <2>3, <2>4, <2>5, <2>6, <2>7 DEF Moves
<1>. QED
  BY <1>1, <1>2, <1>3 DEF Move

(* Every variable of the source, of its calls and of the history keeps its *)
(* type, whatever replies the server sends.                                *)
THEOREM TypeCorrect == Spec => []TypeOK
<1>1. TypeInv => TypeOK
  BY DEF TypeInv
<1>. QED
  BY TypeInit, TypeStep, NextMoves, <1>1, PTL DEF Spec

-----------------------------------------------------------------------------
(* Pinning, under ConsistentServer.                                        *)

(* An identity that is shown is one of the version's own two headers.      *)
LEMMA IdentityIsHeader ==
  ASSUME NEW v, NEW way, ShownIdentity(v, way) # None
  PROVE  ShownIdentity(v, way) \in {ETag[v], Modified[v]}
  BY ValidatorAssumption DEF ShownIdentity, IdentityOf, ShownETag, ShownModified

(* Only the pinned version carries the validator.                          *)
LEMMA CarrierIsPinned ==
  ASSUME ConsistentServer, TypeInv, PinIsValidated, validator # None,
         NEW v \in Versions, validator \in {ETag[v], Modified[v]}
  PROVE  v = pinned
<1>1. pinned \in Versions
  BY DEF PinIsValidated, TypeInv, TypeOK
<1>2. PICK way \in ProbeWays : validator = ShownIdentity(pinned, way)
  BY DEF PinIsValidated
<1>. QED
  BY <1>1, <1>2 DEF ConsistentServer, Distinguishes

(* What a reply that has been read carries.                                *)
LEMMA ReplyIdentity ==
  ASSUME TypeInv, RepliesGenuine, NEW c \in Callers, phase[c] \in {"replied", "body"}
  PROVE  /\ reply[c].body.version \in Versions
         /\ \E way \in WaysFor(op[c]) :
              /\ Identity(reply[c]) = ShownIdentity(reply[c].body.version, way)
              /\ reply[c].status = 206
                   => RangeApplies(asked[c], reply[c].body.version, way)
<1>1. reply[c] \in Replies
  BY DEF TypeInv, CallsOK
<1>2. reply[c].body.version \in Versions
  BY <1>1 DEF Replies, Chunks
<1>. QED
  BY <1>2 DEF RepliesGenuine, Identity, ShownIdentity

(* The reply of a read that passes checkRange is of the pinned version.    *)
LEMMA AcceptedRead ==
  ASSUME ConsistentServer, TypeInv, PinInv, NEW c \in Callers,
         phase[c] = "replied", op[c] = "read", Accepts(reply[c], asked[c])
  PROVE  reply[c].body.version = pinned
<1>. DEFINE v == reply[c].body.version
<1>1. validator # None /\ asked[c].ifRange = validator
  BY DEF TypeInv, CallsOK, PinInv, PinIsValidated, AcceptedIsPinned
<1>2. PICK way \in ReadWays : /\ Identity(reply[c]) = ShownIdentity(v, way)
                              /\ RangeApplies(asked[c], v, way)
  BY ReplyIdentity DEF PinInv, Accepts, Usable, WaysFor
<1>3. v \in Versions
  BY ReplyIdentity DEF PinInv
<1>4. validator \in {ETag[v], Modified[v]}
  <2>1. CASE way.compares
    <3>1. validator \notin {None} \cup WeakTags
      BY <1>1, ValidatorAssumption DEF TypeInv, TypeOK
    <3>. QED
      BY <1>1, <1>2, <2>1, <3>1 DEF RangeApplies
  <2>2. CASE ~way.compares
    <3>1. ShownIdentity(v, way) # None
      BY <1>3, <2>2 DEF ConsistentServer
    <3>2. validator = ShownIdentity(v, way)
      BY <1>1, <1>2, <3>1 DEF Accepts, SameIdentity
    <3>. QED
      BY <3>1, <3>2, IdentityIsHeader
  <2>. QED
    BY <2>1, <2>2
<1>. QED
  BY <1>1, <1>3, <1>4, CarrierIsPinned DEF PinInv

(* What an accepted probe leads to: the first one pins, and those after it *)
(* find what is pinned already.                                            *)
LEMMA FinishedProbe ==
  ASSUME ConsistentServer, TypeInv, PinInv, NEW c \in Callers, FinishPrepare(c)
  PROVE  /\ reply[c].body.version \in Versions
         /\ \E way \in ProbeWays : Identity(reply[c]) = ShownIdentity(reply[c].body.version, way)
         /\ Identity(reply[c]) # None
         /\ validator # None => UNCHANGED <<validator, pinned>>
         /\ size # None => UNCHANGED size
<1>. DEFINE v == reply[c].body.version
<1>0. phase[c] = "body" /\ op[c] = "prepare"
  BY DEF FinishPrepare
<1>1. v \in Versions /\ \E way \in ProbeWays : Identity(reply[c]) = ShownIdentity(v, way)
  BY <1>0, ReplyIdentity DEF PinInv, WaysFor
<1>2. PICK way \in ProbeWays : Identity(reply[c]) = ShownIdentity(v, way)
  BY <1>1
<1>3. Identity(reply[c]) # None
  BY <1>1, <1>2 DEF ConsistentServer
<1>4. size # None => UNCHANGED size
  BY <1>0 DEF PinInv, AcceptedIsPinned, FinishPrepare
<1>5. ASSUME validator # None
      PROVE  UNCHANGED <<validator, pinned>>
  <2>1. Identity(reply[c]) = validator
    BY <1>0, <1>5 DEF PinInv, AcceptedIsPinned
  <2>2. validator \in {ETag[v], Modified[v]}
    BY <1>2, <1>5, <2>1, IdentityIsHeader
  <2>3. v = pinned
    BY <1>1, <1>5, <2>2, CarrierIsPinned DEF PinInv
  <2>. QED
    BY <2>1, <2>3 DEF FinishPrepare
<1>. QED
  BY <1>1, <1>3, <1>4, <1>5

(* Nothing is pinned, asked or delivered in the initial state.             *)
LEMMA PinInit == Init => PinInv
<1>. SUFFICES ASSUME Init PROVE PinInv
  OBVIOUS
<1>1. OneProbe /\ RepliesGenuine /\ AcceptedIsPinned /\ GotPinned
  BY DEF Init, OneProbe, RepliesGenuine, AcceptedIsPinned, GotPinned
<1>2. PinIsValidated
  BY DEF Init, PinIsValidated
<1>. QED
  BY <1>1, <1>2 DEF PinInv

(* The calls of the others, and what has been delivered, when c moves.     *)
OthersKept(c) ==
  \A d \in Callers : d # c =>
    /\ op'[d] = op[d] /\ phase'[d] = phase[d]
    /\ asked'[d] = asked[d] /\ reply'[d] = reply[d]

(* A call that settles is idle, and the others are where they were.        *)
LEMMA SettleOthers ==
  ASSUME TypeInv, NEW c \in Callers, Settle(c)
  PROVE  OthersKept(c) /\ op'[c] = "none" /\ phase'[c] = "idle"
  BY DEF TypeInv, TypeOK, Settle, OthersKept

(* A call that goes away takes nothing from the calls that stay.           *)
LEMMA SettleCalls ==
  ASSUME TypeInv, PinInv, NEW c \in Callers, Settle(c)
  PROVE  OneProbe' /\ RepliesGenuine'
<1>1. OthersKept(c) /\ op'[c] = "none" /\ phase'[c] = "idle"
  BY SettleOthers
<1>2. OneProbe'
  BY <1>1 DEF PinInv, OneProbe, OthersKept
<1>3. RepliesGenuine'
  BY <1>1 DEF PinInv, RepliesGenuine, OthersKept
<1>. QED
  BY <1>2, <1>3

(* Nor from what the accepted replies of the others stand for.             *)
LEMMA SettleAccepted ==
  ASSUME TypeInv, PinInv, NEW c \in Callers, Settle(c),
         UNCHANGED <<source, pinned>>
  PROVE  AcceptedIsPinned'
<1>1. OthersKept(c) /\ op'[c] = "none" /\ phase'[c] = "idle"
  BY SettleOthers
<1>. QED
  BY <1>1 DEF PinInv, AcceptedIsPinned, OthersKept, source, Identity

(* A call that rejects, for whatever reason, leaves the pin as it was.     *)
LEMMA RejectPin ==
  ASSUME TypeInv, PinInv, NEW c \in Callers, Reject(c)
  PROVE  PinInv'
<1>1. Settle(c) /\ UNCHANGED <<source, pinned, got>>
  BY DEF Reject
<1>2. OneProbe' /\ RepliesGenuine' /\ AcceptedIsPinned'
  BY <1>1, SettleCalls, SettleAccepted
<1>3. \A d \in Callers : model'[d] = "open" => model[d] = "open"
  BY DEF Reject, TypeInv, TypeOK
<1>4. PinIsValidated' /\ GotPinned'
  BY <1>1, <1>3 DEF PinInv, PinIsValidated, GotPinned, source
<1>. QED
  BY <1>2, <1>4 DEF PinInv

(* A read goes out with the validator, and a probe while no other is out.  *)
LEMMA SendPin ==
  ASSUME TypeInv, PinInv, NEW c \in Callers, NEW kind \in {"prepare", "read"},
         NEW req \in Requests, Send(c, kind, req),
         UNCHANGED <<object, source, model, pinned, got>>,
         kind = "read" => req.ifRange = validator,
         kind = "prepare" => \A d \in Callers : op[d] # "prepare"
  PROVE  PinInv'
<1>1. OthersKept(c) /\ op'[c] = kind /\ phase'[c] = "sent" /\ asked'[c] = req
  BY DEF TypeInv, TypeOK, Send, OthersKept
<1>2. OneProbe'
  BY <1>1 DEF PinInv, OneProbe, OthersKept
<1>3. RepliesGenuine'
  BY <1>1 DEF PinInv, RepliesGenuine, OthersKept
<1>4. AcceptedIsPinned'
  BY <1>1 DEF PinInv, AcceptedIsPinned, OthersKept, source, Identity
<1>5. PinIsValidated' /\ GotPinned'
  BY DEF PinInv, PinIsValidated, GotPinned, source
<1>. QED
  BY <1>2, <1>3, <1>4, <1>5 DEF PinInv

(* Whatever the server answers, it is not believed yet.                    *)
LEMMA AnswerPin ==
  ASSUME TypeInv, PinInv, NEW c \in Callers, Answer(c)
  PROVE  PinInv'
<1>1. /\ op' = op /\ asked' = asked /\ UNCHANGED <<source, model, pinned, got>>
      /\ phase'[c] = "replied"
      /\ \A d \in Callers : d # c => phase'[d] = phase[d] /\ reply'[d] = reply[d]
  BY DEF TypeInv, TypeOK, Answer
<1>2. PICK way \in WaysFor(op[c]) : Genuine(reply'[c], asked[c], object, way)
  BY AnswerType
<1>3. RepliesGenuine'
  <2>. SUFFICES ASSUME NEW d \in Callers, phase'[d] \in {"replied", "body"}
                PROVE  \E t \in WaysFor(op'[d]) :
                         /\ reply'[d].etag = ShownETag(reply'[d].body.version, t)
                         /\ reply'[d].modified = ShownModified(reply'[d].body.version, t)
                         /\ reply'[d].status = 206
                              => RangeApplies(asked'[d], reply'[d].body.version, t)
    BY DEF RepliesGenuine
  <2>1. CASE d = c
    BY <1>1, <1>2, <2>1 DEF Genuine
  <2>2. CASE d # c
    BY <1>1, <2>2 DEF PinInv, RepliesGenuine
  <2>. QED
    BY <2>1, <2>2
<1>4. OneProbe' /\ PinIsValidated' /\ GotPinned'
  BY <1>1 DEF PinInv, OneProbe, PinIsValidated, GotPinned, source
<1>5. AcceptedIsPinned'
  BY <1>1 DEF PinInv, AcceptedIsPinned, source, Identity
<1>. QED
  BY <1>3, <1>4, <1>5 DEF PinInv

(* checkRange lets the reply of c through.                                 *)
LEMMA AcceptPin ==
  ASSUME ConsistentServer, TypeInv, PinInv, NEW c \in Callers,
         phase[c] = "replied", Accepts(reply[c], asked[c]),
         phase' = [phase EXCEPT ![c] = "body"],
         UNCHANGED <<object, source, model, op, asked, reply, pinned, got>>
  PROVE  PinInv'
<1>1. phase'[c] = "body" /\ \A d \in Callers : d # c => phase'[d] = phase[d]
  BY DEF TypeInv, TypeOK
<1>2. OneProbe' /\ PinIsValidated' /\ GotPinned'
  BY DEF PinInv, OneProbe, PinIsValidated, GotPinned, source
<1>3. RepliesGenuine'
  BY <1>1 DEF PinInv, RepliesGenuine
<1>4. op[c] = "read" => reply[c].body.version = pinned
  BY AcceptedRead
<1>5. ASSUME op[c] = "prepare", validator # None
      PROVE  Identity(reply[c]) = validator
  <2>1. PICK way \in ProbeWays : Identity(reply[c]) = ShownIdentity(reply[c].body.version, way)
    BY <1>5, ReplyIdentity DEF PinInv, WaysFor
  <2>2. Identity(reply[c]) # None
    BY <2>1, ReplyIdentity DEF PinInv, ConsistentServer
  <2>. QED
    BY <1>5, <2>2 DEF Accepts, SameIdentity
<1>6. size # None => reply[c].range.total = size
  BY DEF Accepts, SameTotal
<1>7. AcceptedIsPinned'
  BY <1>1, <1>4, <1>5, <1>6 DEF PinInv, AcceptedIsPinned, source, Identity
<1>. QED
  BY <1>2, <1>3, <1>7 DEF PinInv

(* The end of a probe: the one step that writes the pin.                   *)
LEMMA FinishPreparePin ==
  ASSUME ConsistentServer, TypeInv, PinInv, NEW c \in Callers, FinishPrepare(c)
  PROVE  PinInv'
<1>. DEFINE v     == reply[c].body.version
            found == Identity(reply[c])
<1>1. Settle(c) /\ got' = got
  BY DEF FinishPrepare
<1>2. OneProbe' /\ RepliesGenuine'
  BY <1>1, SettleCalls
<1>3. /\ v \in Versions /\ \E way \in ProbeWays : found = ShownIdentity(v, way)
      /\ found # None
      /\ validator # None => UNCHANGED <<validator, pinned>>
      /\ size # None => UNCHANGED size
  BY FinishedProbe
<1>4. OthersKept(c) /\ op'[c] = "none" /\ phase'[c] = "idle"
  BY <1>1, SettleOthers
<1>7. PinIsValidated'
  <2>1. CASE reply[c].range.total > 0
    <3>1. validator' = found /\ pinned' = v
      BY <1>3, <2>1 DEF FinishPrepare
    <3>2. v # None
      BY <1>3, ObjectAssumption
    <3>. QED
      BY <1>3, <3>1, <3>2 DEF PinIsValidated
  <2>2. CASE ~(reply[c].range.total > 0)
    <3>1. UNCHANGED <<validator, pinned>>
      BY <2>2 DEF FinishPrepare
    <3>2. \A d \in Callers : model'[d] = "open" => model[d] = "open"
      BY <2>2 DEF FinishPrepare, TypeInv, TypeOK
    <3>. QED
      BY <3>1, <3>2 DEF PinInv, PinIsValidated
  <2>. QED
    BY <2>1, <2>2
<1>8. AcceptedIsPinned'
  <2>. SUFFICES ASSUME NEW d \in Callers, d # c
                PROVE  /\ op[d] = "read" => asked[d].ifRange = validator'
                       /\ phase[d] = "body" /\ op[d] = "read" =>
                            reply[d].body.version = pinned'
                       /\ phase[d] = "body" => op[d] # "prepare"
    BY <1>4 DEF AcceptedIsPinned, OthersKept
  <2>1. op[d] # "prepare"
    BY DEF PinInv, OneProbe, FinishPrepare
  <2>2. op[d] = "read" => validator # None
    BY DEF TypeInv, CallsOK, PinInv, PinIsValidated
  <2>. QED
    BY <1>3, <2>1, <2>2 DEF PinInv, AcceptedIsPinned
<1>9. GotPinned'
  <2>1. CASE validator # None
    BY <1>1, <1>3, <2>1 DEF PinInv, GotPinned
  <2>2. CASE validator = None
    <3>1. \A d \in Callers : got[d] = {}
      BY <2>2, ObjectAssumption
      DEF PinInv, GotPinned, PinIsValidated, TypeInv, TypeOK, Delivered, Chunks
    <3>. QED
      BY <1>1, <3>1 DEF GotPinned
  <2>. QED
    BY <2>1, <2>2
<1>. QED
  BY <1>2, <1>7, <1>8, <1>9 DEF PinInv

(* The end of a read: what is delivered is of the pinned version.          *)
LEMMA FinishReadPin ==
  ASSUME TypeInv, PinInv, NEW c \in Callers, FinishRead(c)
  PROVE  PinInv'
<1>1. Settle(c) /\ UNCHANGED <<source, model, pinned>>
  BY DEF FinishRead
<1>2. OneProbe' /\ RepliesGenuine' /\ AcceptedIsPinned'
  BY <1>1, SettleCalls, SettleAccepted
<1>3. reply[c].body.version = pinned
  BY DEF FinishRead, PinInv, AcceptedIsPinned
<1>4. GotPinned'
  BY <1>1, <1>3 DEF FinishRead, PinInv, GotPinned, TypeInv, TypeOK
<1>5. PinIsValidated'
  BY <1>1 DEF PinInv, PinIsValidated, source
<1>. QED
  BY <1>2, <1>4, <1>5 DEF PinInv

(* Every step preserves the invariant.                                     *)
LEMMA PinStep == ConsistentServer /\ TypeInv /\ PinInv /\ [Move]_vars => PinInv'
<1>. SUFFICES ASSUME ConsistentServer, TypeInv, PinInv, [Move]_vars PROVE PinInv'
  OBVIOUS
<1>1. CASE UNCHANGED vars \/ Replace
  BY <1>1 DEF Replace, vars, source, calls, PinInv, OneProbe, PinIsValidated,
              RepliesGenuine, AcceptedIsPinned, GotPinned, Identity
<1>2. ASSUME NEW c \in Callers, Moves(c)
      PROVE  PinInv'
  <2>1. CASE StartPrepare(c)
    <3>1. [first |-> 0, last |-> 0, ifRange |-> None] \in Requests
      BY DEF Requests
    <3>. QED
      BY <2>1, <3>1, SendPin DEF StartPrepare, ConsistentServer
  <2>2. ASSUME NEW r \in Askable, StartRead(c, r)
        PROVE  PinInv'
    <3>. DEFINE req == [first |-> r.at, last |-> r.at + r.length - 1,
                        ifRange |-> validator]
    <3>1. req \in Requests
      BY DEF Askable, Requests, Validators, TypeInv, TypeOK
    <3>2. req.ifRange = validator
      OBVIOUS
    <3>. HIDE DEF req
    <3>3. Send(c, "read", req) /\ UNCHANGED <<object, source, model, pinned, got>>
      BY <2>2 DEF StartRead, req
    <3>. QED
      BY <3>1, <3>2, <3>3, SendPin
  <2>3. CASE Answer(c)
    BY <2>3, AnswerPin
  <2>4. CASE Lose(c) \/ ShortRead(c)
    BY <2>4, RejectPin DEF Lose, ShortRead
  <2>5. CASE Check(c)
    BY <2>5, RejectPin, AcceptPin DEF Check
  <2>6. CASE FinishPrepare(c)
    BY <2>6, FinishPreparePin
  <2>7. CASE FinishRead(c)
    BY <2>7, FinishReadPin
  <2>. QED
    BY <1>2, <2>1, <2>2, <2>3, <2>4, <2>5, <2>6, <2>7 DEF Moves
<1>. QED
  BY <1>1, <1>2 DEF Move

-----------------------------------------------------------------------------
(* The inductive invariant holds of every state of the specification.      *)
THEOREM PinInvariant ==
  ASSUME ConsistentServer
  PROVE  Spec => [](TypeInv /\ PinInv)
  BY TypeInit, TypeStep, PinInit, PinStep, NextMoves, PTL DEF Spec

(* "Given a validator, what is read is all from one object or it is an     *)
(* error": the bytes a model received are never of two versions.           *)
THEOREM OneObjectHolds ==
  ASSUME ConsistentServer
  PROVE  Spec => []OneObject
<1>1. PinInv => OneObject
  BY DEF PinInv, GotPinned, OneObject
<1>. QED
  BY <1>1, PinInvariant, PTL

(* "Pinned here, and required to still hold on every read after this": no  *)
(* step moves or drops an identity or a size the source has.               *)
LEMMA PinStaysStep ==
  ASSUME ConsistentServer, TypeInv, PinInv, Move
  PROVE  /\ validator # None => validator' = validator
         /\ size # None => size' = size
<1>1. CASE Replace
  BY <1>1 DEF Replace, source
<1>2. ASSUME NEW c \in Callers, Moves(c)
      PROVE  /\ validator # None => validator' = validator
             /\ size # None => size' = size
  <2>1. CASE FinishPrepare(c)
    BY <2>1, FinishedProbe
  <2>2. CASE ~FinishPrepare(c)
    <3>1. UNCHANGED source
      BY <1>2, <2>2 DEF Moves, StartPrepare, StartRead, Answer, Lose, Check,
                        Reject, FinishRead, ShortRead
    <3>. QED
      BY <3>1 DEF source
  <2>. QED
    BY <2>1, <2>2
<1>. QED
  BY <1>1, <1>2 DEF Move

(* Every behaviour keeps the identity and the size that were pinned.       *)
THEOREM PinStaysHolds ==
  ASSUME ConsistentServer
  PROVE  Spec => PinStays
<1>1. ASSUME TypeInv, PinInv, [Next]_vars
      PROVE  [/\ validator # None => validator' = validator
              /\ size # None => size' = size]_vars
  BY <1>1, PinStaysStep, NextMoves
<1>. QED
  BY <1>1, PinInvariant, PTL DEF Spec, PinStays

(* What the refinement mapping of Promise puts in `read`.                  *)
seen == [c \in Callers |-> {d.body.version : d \in got[c]}]

(* An open that is accepted pins, or finds the pin there.                  *)
LEMMA FinishPreparePins ==
  ASSUME ConsistentServer, TypeInv, PinInv, NEW c \in Callers, FinishPrepare(c)
  PROVE  Promise!Pin \/ UNCHANGED <<pinned, seen>>
<1>1. UNCHANGED seen
  BY DEF FinishPrepare, seen
<1>2. CASE validator # None
  BY <1>1, <1>2, FinishedProbe
<1>3. CASE validator = None
  <2>1. pinned = None
    BY <1>3 DEF PinInv, PinIsValidated
  <2>2. pinned' = pinned \/ pinned' \in Versions
    BY FinishedProbe DEF FinishPrepare
  <2>. QED
    BY <1>1, <2>1, <2>2 DEF Promise!Pin, seen
<1>. QED
  BY <1>2, <1>3

(* A read that is delivered brings bytes of the pinned version.            *)
LEMMA FinishReadDelivers ==
  ASSUME TypeInv, PinInv, NEW c \in Callers, FinishRead(c)
  PROVE  Promise!Deliver(c)
<1>. DEFINE chunk == [asked |-> asked[c], body |-> reply[c].body]
<1>1. reply[c].body.version = pinned /\ pinned # None
  BY DEF FinishRead, TypeInv, CallsOK, PinInv, PinIsValidated, AcceptedIsPinned
<1>2. got' = [got EXCEPT ![c] = @ \cup {chunk}] /\ UNCHANGED pinned
  BY DEF FinishRead
<1>3. chunk.body.version = pinned
  BY <1>1
<1>. HIDE DEF chunk
<1>4. /\ got'[c] = got[c] \cup {chunk}
      /\ \A d \in Callers : d # c => got'[d] = got[d]
  BY <1>2 DEF TypeInv, TypeOK
<1>5. {d.body.version : d \in got'[c]} = {d.body.version : d \in got[c]} \cup {pinned}
  BY <1>3, <1>4
<1>6. seen' = [seen EXCEPT ![c] = @ \cup {pinned}]
  BY <1>4, <1>5 DEF seen
<1>. QED
  BY <1>1, <1>2, <1>6 DEF Promise!Deliver, seen

(* The source implements PinnedObject: an open that is accepted is Pin or  *)
(* finds the pin there, a read that is delivered is Deliver, and all the   *)
(* rest of the protocol is invisible.                                      *)
THEOREM KeepsPromiseHolds ==
  ASSUME ConsistentServer
  PROVE  Spec => KeepsPromise
<1>1. Init => Promise!Init
  BY DEF Init, Promise!Init
<1>2. ASSUME TypeInv, PinInv, [Next]_vars
      PROVE  [Promise!Next]_<<pinned, seen>>
  <2>1. CASE UNCHANGED vars \/ Replace
    BY <2>1 DEF vars, Replace, seen
  <2>2. ASSUME NEW c \in Callers, Step(c)
        PROVE  [Promise!Next]_<<pinned, seen>>
    <3>1. CASE FinishPrepare(c)
      BY <1>2, <3>1, FinishPreparePins DEF Promise!Next
    <3>2. CASE FinishRead(c)
      BY <1>2, <3>2, FinishReadDelivers DEF Promise!Next
    <3>3. CASE ~FinishPrepare(c) /\ ~FinishRead(c)
      <4>1. UNCHANGED <<pinned, got>>
        BY <2>2, <3>3 DEF Step, StartPrepare, StartRead, Answer, Lose, Check,
                          Reject, ShortRead
      <4>. QED
        BY <4>1 DEF seen
    <3>. QED
      BY <3>1, <3>2, <3>3
  <2>. QED
    BY <1>2, <2>1, <2>2 DEF Next
<1>. QED
  BY <1>1, <1>2, PinInvariant, PTL DEF Spec, KeepsPromise, Promise!Spec, seen

-----------------------------------------------------------------------------
(* A Content-Range names the first byte of the body, and the length of the *)
(* version the body is of, unless the total is the 0 of a broken server.   *)
TellsItsBody(r) ==
  r.range # None => /\ r.range.first = r.body.at
                    /\ r.range.total \in {0, Length[r.body.version]}

RangesTold == \A c \in Callers : phase[c] \in {"replied", "body"} => TellsItsBody(reply[c])

RangesAccepted == \A c \in Callers : phase[c] = "body" => SameRange(reply[c], asked[c])

RangeInv == RangesTold /\ RangesAccepted /\ AsAsked

(* A correct answer tells what its body is.                                *)
LEMMA RightTells ==
  ASSUME NEW req \in Requests, NEW v \in Versions, NEW way \in Ways
  PROVE  TellsItsBody(Right(req, v, way))
  BY DEF TellsItsBody, Right, Whole, NoBytes, Partial, Response

(* So does a wrong one: a part that was shifted says so.                   *)
LEMMA WrongTells ==
  ASSUME NEW req \in Requests, NEW v \in Versions, NEW way \in Ways,
         NEW f \in FaultNames
  PROVE  TellsItsBody(Wrong(f, req, v, way))
<1>. DEFINE right == Right(req, v, way)
<1>1. TellsItsBody(right) /\ right.body.version = v
  BY RightTells, RightGenuine DEF Genuine
<1>2. right.range # None => right.range \in Ranges
  BY RightGenuine DEF Genuine, Replies
<1>. HIDE DEF right
<1>3. right.range # None =>
        /\ right.range.first + 1 = right.body.at + 1
        /\ [right.range EXCEPT !.total = 0].first = right.body.at
        /\ [right.range EXCEPT !.total = 0].total = 0
  BY <1>1, <1>2 DEF TellsItsBody, Ranges
<1>. QED
  BY <1>1, <1>3 DEF Wrong, Whole, NoBytes, Response, TellsItsBody, right

(* Whatever the server answers, the range it claims is that of its body.   *)
LEMMA AnswersTell ==
  ASSUME NEW req \in Requests, NEW v \in Versions,
         NEW ways \in SUBSET Ways, NEW r \in Answers(req, v, ways)
  PROVE  TellsItsBody(r)
<1>1. CASE \E way \in ways : r = Right(req, v, way)
  BY <1>1, RightTells
<1>2. CASE \E f \in Faults, way \in ways : r = Wrong(f, req, v, way)
  BY <1>2, WrongTells, ServerAssumption
<1>. QED
  BY <1>1, <1>2 DEF Answers

(* The reply that Answer leaves behind.                                    *)
LEMMA AnswerTells ==
  ASSUME TypeInv, NEW c \in Callers, Answer(c)
  PROVE  TellsItsBody(reply'[c])
<1>1. asked[c] \in Requests /\ object \in Versions
  BY DEF TypeInv, TypeOK, CallsOK, Answer
<1>2. PICK r \in Answers(asked[c], object, WaysFor(op[c])) :
        reply' = [reply EXCEPT ![c] = r]
  BY DEF Answer
<1>3. TellsItsBody(r)
  BY <1>1, AnswersTell, WaysForType
<1>. QED
  BY <1>2, <1>3 DEF TypeInv, TypeOK

(* No call and no bytes at first.                                          *)
LEMMA RangeInit == Init => RangeInv
  BY DEF Init, RangeInv, RangesTold, RangesAccepted, AsAsked

(* A call that settles leaves the replies of the others.                   *)
LEMMA SettleRanges ==
  ASSUME TypeInv, RangeInv, NEW c \in Callers, Settle(c)
  PROVE  RangesTold' /\ RangesAccepted'
<1>1. OthersKept(c) /\ phase'[c] = "idle"
  BY SettleOthers
<1>. QED
  BY <1>1 DEF RangeInv, RangesTold, RangesAccepted, SameRange, TellsItsBody, OthersKept

(* Every step keeps what is delivered to what was asked for.               *)
LEMMA RangeStep == TypeInv /\ RangeInv /\ [Move]_vars => RangeInv'
<1>. SUFFICES ASSUME TypeInv, RangeInv, [Move]_vars PROVE RangeInv'
  OBVIOUS
<1>1. CASE UNCHANGED vars \/ Replace
  BY <1>1 DEF vars, Replace, calls, RangeInv, RangesTold, RangesAccepted, AsAsked,
              SameRange, TellsItsBody
<1>2. ASSUME NEW c \in Callers, Moves(c)
      PROVE  RangeInv'
  <2>1. CASE StartPrepare(c) \/ \E r \in Askable : StartRead(c, r)
    <3>1. /\ \A d \in Callers : d # c => /\ phase'[d] = phase[d] /\ asked'[d] = asked[d]
                                         /\ reply'[d] = reply[d]
          /\ phase'[c] = "sent" /\ got' = got
      BY <2>1 DEF StartPrepare, StartRead, Send, TypeInv, TypeOK
    <3>. QED
      BY <3>1 DEF RangeInv, RangesTold, RangesAccepted, AsAsked, SameRange, TellsItsBody
  <2>2. CASE Answer(c)
    <3>1. TellsItsBody(reply'[c])
      BY <2>2, AnswerTells
    <3>2. /\ \A d \in Callers : d # c => phase'[d] = phase[d] /\ reply'[d] = reply[d]
          /\ phase'[c] = "replied" /\ asked' = asked /\ got' = got
      BY <2>2 DEF Answer, TypeInv, TypeOK
    <3>. QED
      BY <3>1, <3>2 DEF RangeInv, RangesTold, RangesAccepted, AsAsked, SameRange, TellsItsBody
  <2>3. CASE Reject(c) \/ FinishPrepare(c)
    <3>1. Settle(c) /\ got' = got
      BY <2>3 DEF Reject, FinishPrepare
    <3>. QED
      BY <3>1, SettleRanges DEF RangeInv, AsAsked
  <2>4. CASE /\ phase[c] = "replied" /\ Accepts(reply[c], asked[c])
             /\ phase' = [phase EXCEPT ![c] = "body"]
             /\ UNCHANGED <<asked, reply, got>>
    <3>1. phase'[c] = "body" /\ \A d \in Callers : d # c => phase'[d] = phase[d]
      BY <2>4 DEF TypeInv, TypeOK
    <3>. QED
      BY <2>4, <3>1 DEF Accepts, RangeInv, RangesTold, RangesAccepted, AsAsked,
                        SameRange, TellsItsBody
  <2>5. CASE FinishRead(c)
    <3>. DEFINE chunk == [asked |-> asked[c], body |-> reply[c].body]
    <3>1. Settle(c) /\ got' = [got EXCEPT ![c] = @ \cup {chunk}]
      BY <2>5 DEF FinishRead
    <3>2. /\ reply[c] \in Replies /\ reply[c].range # None /\ asked[c] \in Requests
          /\ TellsItsBody(reply[c]) /\ SameRange(reply[c], asked[c])
      BY <2>5 DEF FinishRead, TypeInv, CallsOK, RangeInv, RangesTold, RangesAccepted
    <3>3. chunk.body.at = chunk.asked.first
      BY <3>2 DEF TellsItsBody, SameRange
    <3>4. chunk.body.at + chunk.body.count - 1 = chunk.asked.last
      BY <2>5, <3>2, <3>3 DEF FinishRead, Requests
    <3>. HIDE DEF chunk
    <3>5. AsAsked'
      BY <3>1, <3>3, <3>4 DEF RangeInv, AsAsked, TypeInv, TypeOK
    <3>. QED
      BY <3>1, <3>5, SettleRanges DEF RangeInv
  <2>. QED
    BY <1>2, <2>1, <2>2, <2>3, <2>4, <2>5 DEF Moves, Lose, Check, ShortRead
<1>. QED
  BY <1>1, <1>2 DEF Move

(* What a model received is the range it asked for, in full, under every   *)
(* fault of the server and every interleaving of opens and reads.          *)
THEOREM AsAskedHolds == Spec => []AsAsked
<1>1. RangeInv => AsAsked
  BY DEF RangeInv
<1>. QED
  BY TypeInit, TypeStep, RangeInit, RangeStep, NextMoves, <1>1, PTL DEF Spec

-----------------------------------------------------------------------------
(* Lengths, when the application awaits an open before the next.           *)

(* A model that is open has a size, and it is not 0.                       *)
Sized == \A c \in Callers : model[c] = "open" => size # None /\ size > 0

AcceptedOfSize ==
  \A c \in Callers : phase[c] = "body" /\ size # None => reply[c].range.total = size

GotOfSize == \A c \in Callers : \A d \in got[c] : Length[d.body.version] = size

LengthInv == OneProbe /\ Sized /\ AcceptedOfSize /\ GotOfSize

(* No model, no call and no bytes at first.                                *)
LEMMA LengthInit == Init => LengthInv
  BY DEF Init, LengthInv, OneProbe, Sized, AcceptedOfSize, GotOfSize

(* The size a source has is not moved by a later open.                     *)
LEMMA SizeKept ==
  ASSUME LengthInv, NEW c \in Callers, FinishPrepare(c), size # None
  PROVE  size' = size
  BY DEF LengthInv, AcceptedOfSize, FinishPrepare

(* A call that settles, the size being what it was or not yet there.       *)
LEMMA SettleLengths ==
  ASSUME TypeInv, LengthInv, NEW c \in Callers, Settle(c),
         size' = size \/ (size = None /\ op[c] = "prepare")
  PROVE  OneProbe' /\ AcceptedOfSize'
<1>1. OthersKept(c) /\ op'[c] = "none" /\ phase'[c] = "idle"
  BY SettleOthers
<1>2. OneProbe'
  BY <1>1 DEF LengthInv, OneProbe, OthersKept
<1>3. ASSUME NEW d \in Callers, phase'[d] = "body", size' # None
      PROVE  reply'[d].range.total = size'
  <2>1. d # c /\ phase[d] = "body" /\ reply'[d] = reply[d]
    BY <1>1, <1>3 DEF OthersKept
  <2>2. CASE size' = size
    BY <1>3, <2>1, <2>2 DEF LengthInv, AcceptedOfSize
  <2>3. CASE size = None /\ op[c] = "prepare"
    BY <2>1, <2>3 DEF TypeInv, TypeOK, CallsOK, LengthInv, OneProbe, Sized
  <2>. QED
    BY <2>2, <2>3
<1>. QED
  BY <1>2, <1>3 DEF AcceptedOfSize

(* What a read delivers is of a version of the size the source has.        *)
LEMMA ReadOfSize ==
  ASSUME TypeInv, RangeInv, LengthInv, NEW c \in Callers, FinishRead(c)
  PROVE  Length[reply[c].body.version] = size
<1>1. size # None /\ size > 0 /\ reply[c].range.total = size
  BY DEF FinishRead, TypeInv, CallsOK, LengthInv, Sized, AcceptedOfSize
<1>2. reply[c].range # None /\ TellsItsBody(reply[c])
  BY DEF FinishRead, TypeInv, CallsOK, RangeInv, RangesTold
<1>. QED
  BY <1>1, <1>2 DEF TellsItsBody, TypeInv, TypeOK

(* Every step keeps the lengths together.                                  *)
LEMMA LengthStep ==
  OneOpenAtATime /\ TypeInv /\ RangeInv /\ LengthInv /\ [Move]_vars => LengthInv'
<1>. SUFFICES ASSUME OneOpenAtATime, TypeInv, RangeInv, LengthInv, [Move]_vars
              PROVE  LengthInv'
  OBVIOUS
<1>1. CASE UNCHANGED vars \/ Replace
  BY <1>1 DEF vars, Replace, source, calls, LengthInv, OneProbe, Sized,
              AcceptedOfSize, GotOfSize
<1>2. ASSUME NEW c \in Callers, Moves(c)
      PROVE  LengthInv'
  <2>1. CASE StartPrepare(c) \/ \E r \in Askable : StartRead(c, r)
    <3>1. /\ \A d \in Callers : d # c => /\ phase'[d] = phase[d] /\ op'[d] = op[d]
                                         /\ reply'[d] = reply[d]
          /\ phase'[c] = "sent"
          /\ op'[c] = "prepare" => \A d \in Callers : op[d] # "prepare"
          /\ UNCHANGED <<size, model, got>>
      BY <2>1 DEF StartPrepare, StartRead, Send, TypeInv, TypeOK, source
    <3>. QED
      BY <3>1 DEF LengthInv, OneProbe, Sized, AcceptedOfSize, GotOfSize
  <2>2. CASE Answer(c)
    <3>1. /\ \A d \in Callers : d # c => phase'[d] = phase[d] /\ reply'[d] = reply[d]
          /\ phase'[c] = "replied" /\ UNCHANGED <<op, size, model, got>>
      BY <2>2 DEF Answer, TypeInv, TypeOK, source
    <3>. QED
      BY <3>1 DEF LengthInv, OneProbe, Sized, AcceptedOfSize, GotOfSize
  <2>3. CASE Reject(c)
    <3>1. Settle(c) /\ UNCHANGED <<size, got>>
      BY <2>3 DEF Reject, source
    <3>2. \A d \in Callers : model'[d] = "open" => model[d] = "open"
      BY <2>3 DEF Reject, TypeInv, TypeOK
    <3>. QED
      BY <3>1, <3>2, SettleLengths DEF LengthInv, Sized, GotOfSize
  <2>4. CASE /\ phase[c] = "replied" /\ Accepts(reply[c], asked[c])
             /\ phase' = [phase EXCEPT ![c] = "body"]
             /\ UNCHANGED <<source, model, op, reply, got>>
    <3>1. phase'[c] = "body" /\ \A d \in Callers : d # c => phase'[d] = phase[d]
      BY <2>4 DEF TypeInv, TypeOK
    <3>. QED
      BY <2>4, <3>1 DEF Accepts, SameTotal, source, LengthInv, OneProbe, Sized,
                        AcceptedOfSize, GotOfSize
  <2>5. CASE FinishPrepare(c)
    <3>1. /\ Settle(c) /\ got' = got /\ op[c] = "prepare"
          /\ size' = size \/ size = None
      BY <2>5, SizeKept DEF FinishPrepare
    <3>2. reply[c].range.total \in Nat
      BY <2>5 DEF FinishPrepare, TypeInv, CallsOK, Replies, Ranges
    <3>3. size' = reply[c].range.total /\ size' # None
      BY <2>5, <3>2, ObjectAssumption DEF FinishPrepare
    <3>4. \A d \in Callers : d # c => model'[d] = model[d]
      BY <2>5 DEF FinishPrepare, TypeInv, TypeOK
    <3>5. model'[c] = "open" => size' > 0
      BY <2>5, <3>3 DEF FinishPrepare, TypeInv, TypeOK
    <3>6. Sized'
      BY <3>1, <3>3, <3>4, <3>5 DEF LengthInv, Sized
    <3>7. GotOfSize'
      <4>1. size = None => \A d \in Callers : got[d] = {}
        <5>. SUFFICES ASSUME NEW d \in Callers, NEW e \in got[d] PROVE size # None
          OBVIOUS
        <5>1. Length[e.body.version] = size
          BY DEF LengthInv, GotOfSize
        <5>2. e.body.version \in Versions
          BY DEF TypeInv, TypeOK, Delivered, Chunks
        <5>. QED
          BY <5>1, <5>2, ObjectAssumption
      <4>. QED
        BY <3>1, <4>1 DEF LengthInv, GotOfSize
    <3>. QED
      BY <3>1, <3>6, <3>7, SettleLengths DEF LengthInv
  <2>6. CASE FinishRead(c)
    <3>1. Settle(c) /\ UNCHANGED <<size, model>>
      BY <2>6 DEF FinishRead, source
    <3>2. Length[reply[c].body.version] = size
      BY <2>6, ReadOfSize
    <3>3. GotOfSize'
      BY <2>6, <3>1, <3>2 DEF FinishRead, LengthInv, GotOfSize, TypeInv, TypeOK
    <3>. QED
      BY <3>1, <3>3, SettleLengths DEF LengthInv, Sized
  <2>. QED
    BY <1>2, <2>1, <2>2, <2>3, <2>4, <2>5, <2>6 DEF Moves, Lose, Check, ShortRead
<1>. QED
  BY <1>1, <1>2 DEF Move

(* Even of a source without a validator, the versions mixed in one model   *)
(* are of one length, if opens of it do not overlap.                       *)
THEOREM OneLengthHolds ==
  ASSUME OneOpenAtATime
  PROVE  Spec => []OneLength
<1>1. LengthInv => OneLength
  BY DEF LengthInv, GotOfSize, OneLength
<1>. QED
  BY TypeInit, TypeStep, RangeInit, RangeStep, LengthInit, LengthStep, NextMoves,
     <1>1, PTL DEF Spec
=============================================================================
