----------------------------- MODULE HttpSource -----------------------------
(***************************************************************************)
(* `fromURL` of src/js/index.mjs: one source object over HTTP Range,       *)
(* shared by the models opened on it, and the server it talks to.          *)
(*                                                                         *)
(* The source's closure holds two variables, `size` and `validator`.       *)
(* `prepare` and `read` are asynchronous: every `await` is a point where   *)
(* other calls on the same source, and the server, may take steps.  A call *)
(* goes through the phases                                                 *)
(*                                                                         *)
(*     sent     the fetch is under way                                     *)
(*     replied  the response has arrived, its headers are not looked at    *)
(*     body     checkRange has accepted it, arrayBuffer() is under way     *)
(*                                                                         *)
(* The server is outside the repository.  It is modelled from what the     *)
(* client sends and from the cases its comments and tests name.            *)
(***************************************************************************)
EXTENDS Objects

CONSTANTS
  Callers,            \* the openGGUF calls that share the source
  ETag, Modified,     \* the headers of version v, or None
  StrongTags, WeakTags, Dates,
  AllowUnvalidated,   \* the option of the same name
  Reads,              \* the ranges [at, length] models read
  ProbeWays,          \* the ways a probe may be answered, and a read: which
  ReadWays,           \*   headers are shown, and if If-Range is compared
  Faults,             \* what else the server may get wrong
  OneOpenAtATime      \* the application awaits an open before the next one

HeaderNames == {"etag", "modified"}
Ways        == [shows : SUBSET HeaderNames, compares : BOOLEAN]
FaultNames  == {"whole", "status", "shifted", "noRange", "zeroTotal", "short"}

ASSUME ValidatorAssumption ==
  /\ None \notin StrongTags \cup WeakTags \cup Dates
  /\ ETag \in [Versions -> StrongTags \cup WeakTags \cup {None}]
  /\ Modified \in [Versions -> Dates \cup {None}]
  /\ StrongTags \cap WeakTags = {} /\ Dates \cap WeakTags = {}

ASSUME ServerAssumption ==
  /\ OneOpenAtATime \in BOOLEAN /\ AllowUnvalidated \in BOOLEAN
  /\ ProbeWays \subseteq Ways /\ ReadWays \subseteq Ways
  /\ Faults \subseteq FaultNames
  /\ Reads \subseteq [at : Nat, length : Nat \ {0}]

VARIABLES
  object,             \* the version the URL names now
  size, validator,    \* the closure's variables, None before an open
  model,              \* what became of each open
  op, phase, asked, reply,  \* the call each caller has in flight
  pinned,             \* history: the version the last accepted probe was of
  got                 \* history: the chunks delivered to each caller

source == <<size, validator>>
calls  == <<op, phase, asked, reply>>
vars   == <<object, size, validator, model, op, phase, asked, reply, pinned, got>>

-----------------------------------------------------------------------------
(* Messages *)

Validators == StrongTags \cup WeakTags \cup Dates
Requests   == {r \in [first : Nat, last : Nat, ifRange : Validators \cup {None}] :
                 r.first <= r.last}
Ranges     == [first : Nat, last : Nat, total : Nat]
Chunks     == [version : Versions, at : Nat, count : Nat]
Statuses   == {200, 206, 416, 503}
Replies    == [status : Statuses, range : Ranges \cup {None},
               etag : StrongTags \cup WeakTags \cup {None},
               modified : Dates \cup {None}, body : Chunks]
Delivered  == [asked : Requests, body : Chunks]

(* The validators a reply shows, and strongETag(etag) ?? last-modified, as *)
(* checkRange and prepare spell it.                                        *)
ShownETag(v, way)     == IF "etag" \in way.shows THEN ETag[v] ELSE None
ShownModified(v, way) == IF "modified" \in way.shows THEN Modified[v] ELSE None
IdentityWithWeakTags(etag, modified) == IF etag # None THEN etag ELSE modified
IdentityOf(etag, modified) == IF etag \in StrongTags THEN etag ELSE modified
Identity(response) == IdentityOf(response.etag, response.modified)

Response(status, range, v, way, at, count) ==
  [status   |-> status,
   range    |-> range,
   etag     |-> ShownETag(v, way),
   modified |-> ShownModified(v, way),
   body     |-> [version |-> v, at |-> at, count |-> count]]

(* The server.  A 206 carries the part of the range the object has.        *)
Partial(req, v, way) ==
  LET last == Lesser(req.last, Length[v] - 1)
  IN Response(206, [first |-> req.first, last |-> last, total |-> Length[v]],
              v, way, req.first, last - req.first + 1)

Whole(v, way)           == Response(200, None, v, way, 0, Length[v])
NoBytes(status, v, way) == Response(status, None, v, way, 0, 0)

(* If-Range: the range applies when the validator is the object's own.     *)
(* One that cannot be a strong comparison is ignored.                      *)
RangeApplies(req, v, way) ==
  \/ ~way.compares
  \/ req.ifRange \in {None} \cup WeakTags
  \/ req.ifRange \in {ETag[v], Modified[v]}

Right(req, v, way) ==
  IF ~RangeApplies(req, v, way) THEN Whole(v, way)
  ELSE IF req.first >= Length[v] THEN NoBytes(416, v, way)
  ELSE Partial(req, v, way)

Wrong(fault, req, v, way) ==
  LET right == Right(req, v, way)
      body  == right.body
      With(range, at, count) == Response(right.status, range, v, way, at, count)
  IN CASE fault = "whole"   -> Whole(v, way)
       [] fault = "status"  -> NoBytes(503, v, way)
       [] fault = "noRange" -> With(None, body.at, body.count)
       [] fault = "shifted" /\ right.range # None ->
            With([first |-> right.range.first + 1, last |-> right.range.last + 1,
                  total |-> right.range.total],
                 body.at + 1, body.count)
       [] fault = "zeroTotal" /\ right.range # None ->
            With([right.range EXCEPT !.total = 0], body.at, body.count)
       [] fault = "short" /\ body.count > 0 ->
            With(right.range, body.at, body.count - 1)
       [] OTHER -> right

WaysFor(kind) == IF kind = "prepare" THEN ProbeWays ELSE ReadWays

Answers(req, v, ways) ==
  {Right(req, v, way) : way \in ways} \cup
  {Wrong(f, req, v, way) : f \in Faults, way \in ways}

(* What checkRange asks of a response, in its order.                       *)
Usable(response) == response.status = 206 /\ response.range # None
SameRange(response, req) == /\ response.range.first = req.first
                            /\ response.range.last = req.last
SameTotal(response) == size # None => response.range.total = size
SameIdentity(response) == validator # None /\ Identity(response) # None
                            => Identity(response) = validator

(* checkRange with one of its comparisons forgotten.                       *)
AcceptsAnyRange(response, req) ==
  Usable(response) /\ SameTotal(response) /\ SameIdentity(response)
AcceptsAnyTotal(response, req) ==
  Usable(response) /\ SameRange(response, req) /\ SameIdentity(response)
AcceptsAnyIdentity(response, req) ==
  Usable(response) /\ SameRange(response, req) /\ SameTotal(response)

(* checkRange(response, offset, length)                                    *)
Accepts(response, req) ==
  /\ Usable(response) /\ SameRange(response, req)
  /\ SameTotal(response) /\ SameIdentity(response)

-----------------------------------------------------------------------------
Init ==
  /\ object \in Versions
  /\ size = None /\ validator = None
  /\ model = [c \in Callers |-> "new"]
  /\ op    = [c \in Callers |-> "none"]
  /\ phase = [c \in Callers |-> "idle"]
  /\ asked = [c \in Callers |-> None]
  /\ reply = [c \in Callers |-> None]
  /\ pinned = None
  /\ got = [c \in Callers |-> {}]

(* The owner of the URL puts another object there, older or newer.         *)
Replace == /\ object' \in Versions \ {object}
           /\ UNCHANGED <<source, model, calls, pinned, got>>

Send(c, kind, req) ==
  /\ op'    = [op EXCEPT ![c] = kind]
  /\ phase' = [phase EXCEPT ![c] = "sent"]
  /\ asked' = [asked EXCEPT ![c] = req]
  /\ UNCHANGED reply

Settle(c) ==
  /\ op'    = [op EXCEPT ![c] = "none"]
  /\ phase' = [phase EXCEPT ![c] = "idle"]
  /\ asked' = [asked EXCEPT ![c] = None]
  /\ reply' = [reply EXCEPT ![c] = None]

(* The call rejects.  An open that rejects leaves no model behind.         *)
Reject(c) ==
  /\ Settle(c)
  /\ model' = [model EXCEPT ![c] = IF op[c] = "prepare" THEN "refused" ELSE @]
  /\ UNCHANGED <<object, source, pinned, got>>

(* prepare(): the one-byte probe.  A refused open may be tried again.      *)
StartPrepare(c) ==
  /\ phase[c] = "idle" /\ model[c] # "open"
  /\ OneOpenAtATime => \A d \in Callers : op[d] # "prepare"
  /\ Send(c, "prepare", [first |-> 0, last |-> 0, ifRange |-> None])
  /\ UNCHANGED <<object, source, model, pinned, got>>

(* read() that forgets If-Range.                                           *)
StartUnpinnedRead(c, r) ==
  /\ phase[c] = "idle" /\ model[c] = "open"
  /\ Send(c, "read", [first |-> r.at, last |-> r.at + r.length - 1,
                      ifRange |-> None])
  /\ UNCHANGED <<object, source, model, pinned, got>>

(* read(offset, length), by a model that is open.                          *)
StartRead(c, r) ==
  /\ phase[c] = "idle" /\ model[c] = "open"
  /\ Send(c, "read", [first |-> r.at, last |-> r.at + r.length - 1,
                      ifRange |-> validator])
  /\ UNCHANGED <<object, source, model, pinned, got>>

(* The server answers from the version it has at that moment.              *)
Answer(c) ==
  /\ phase[c] = "sent"
  /\ \E response \in Answers(asked[c], object, WaysFor(op[c])) :
        reply' = [reply EXCEPT ![c] = response]
  /\ phase' = [phase EXCEPT ![c] = "replied"]
  /\ UNCHANGED <<object, source, model, op, asked, pinned, got>>

(* fetch() or arrayBuffer() rejects: the network, or the caller's signal.  *)
Lose(c) == /\ phase[c] \in {"sent", "body"}
           /\ Reject(c)

(* The continuation of the fetch: checkRange.                              *)
Check(c) ==
  /\ phase[c] = "replied"
  /\ \/ /\ Accepts(reply[c], asked[c])
        /\ phase' = [phase EXCEPT ![c] = "body"]
        /\ UNCHANGED <<object, source, model, op, asked, reply, pinned, got>>
     \/ /\ ~Accepts(reply[c], asked[c])
        /\ Reject(c)

(* The continuation of arrayBuffer() in prepare.  The assignments come     *)
(* before the refusals, so an open that is refused has already written     *)
(* `size`, and `validator` too unless it was the size that was wrong.      *)
FinishPrepare(c) ==
  /\ phase[c] = "body" /\ op[c] = "prepare"
  /\ LET total == reply[c].range.total
         found == Identity(reply[c])
         opens == total > 0 /\ (found # None \/ AllowUnvalidated)
     IN /\ size' = total
        /\ validator' = IF total > 0 THEN found ELSE validator
        /\ model' = [model EXCEPT ![c] = IF opens THEN "open" ELSE "refused"]
        /\ pinned' = IF opens THEN reply[c].body.version ELSE pinned
  /\ Settle(c)
  /\ UNCHANGED <<object, got>>

(* The continuation of arrayBuffer() in read.                              *)
FinishRead(c) ==
  /\ phase[c] = "body" /\ op[c] = "read"
  /\ reply[c].body.count = asked[c].last - asked[c].first + 1
  /\ got' = [got EXCEPT ![c] = @ \cup {[asked |-> asked[c], body |-> reply[c].body]}]
  /\ Settle(c)
  /\ UNCHANGED <<object, source, model, pinned>>

ShortRead(c) ==
  /\ phase[c] = "body" /\ op[c] = "read"
  /\ reply[c].body.count # asked[c].last - asked[c].first + 1
  /\ Reject(c)

Step(c) == \/ StartPrepare(c) \/ \E r \in Reads : StartRead(c, r)
           \/ Answer(c) \/ Lose(c) \/ Check(c)
           \/ FinishPrepare(c) \/ FinishRead(c) \/ ShortRead(c)

Next == Replace \/ \E c \in Callers : Step(c)

Spec == Init /\ [][Next]_vars

-----------------------------------------------------------------------------
(* What the promise of fromURL takes from its surroundings: opens of one   *)
(* source do not overlap; a probe shows a validator; no other version      *)
(* carries that validator; and each answer to a read either compared it    *)
(* or shows one again.                                                     *)
ShownIdentity(v, way) == IdentityOf(ShownETag(v, way), ShownModified(v, way))

Distinguishes ==
  \A v, u \in Versions : \A way \in ProbeWays :
     ShownIdentity(v, way) \in {ETag[u], Modified[u]} => u = v

ConsistentServer ==
  /\ OneOpenAtATime
  /\ \A v \in Versions : \A way \in ProbeWays : ShownIdentity(v, way) # None
  /\ Distinguishes
  /\ \A v \in Versions : \A way \in ReadWays :
        way.compares \/ ShownIdentity(v, way) # None

-----------------------------------------------------------------------------
(* Type invariant: what each variable of the source and of a call holds.   *)
TypeOK ==
  /\ object \in Versions
  /\ size \in Nat \cup {None}
  /\ validator \in StrongTags \cup Dates \cup {None}
  /\ model \in [Callers -> {"new", "open", "refused"}]
  /\ op \in [Callers -> {"none", "prepare", "read"}]
  /\ phase \in [Callers -> {"idle", "sent", "replied", "body"}]
  /\ asked \in [Callers -> Requests \cup {None}]
  /\ reply \in [Callers -> Replies \cup {None}]
  /\ pinned \in Versions \cup {None}
  /\ got \in [Callers -> SUBSET Delivered]

(* What a call in flight carries.                                          *)
CallsOK ==
  \A c \in Callers :
    /\ phase[c] = "idle" <=> op[c] = "none"
    /\ phase[c] # "idle" => asked[c] \in Requests
    /\ phase[c] \in {"replied", "body"} => reply[c] \in Replies
    /\ phase[c] = "body" => reply[c].status = 206 /\ reply[c].range # None
    /\ op[c] = "read" => model[c] = "open"

(* Why the promise is kept under ConsistentServer: the validator is one    *)
(* the pinned version shows and no other has, it goes out with every read, *)
(* and a reply that has passed checkRange is of that version, whether the  *)
(* server compared the validator or showed one.                            *)
OneProbe == \A c, d \in Callers : op[c] = "prepare" /\ op[d] = "prepare" => c = d

PinIsValidated ==
  /\ validator = None <=> pinned = None
  /\ validator # None => \E way \in ProbeWays : validator = ShownIdentity(pinned, way)
  /\ \A c \in Callers : model[c] = "open" => validator # None

RepliesGenuine ==
  \A c \in Callers : phase[c] \in {"replied", "body"} =>
    \E way \in WaysFor(op[c]) :
      /\ reply[c].etag = ShownETag(reply[c].body.version, way)
      /\ reply[c].modified = ShownModified(reply[c].body.version, way)
      /\ reply[c].status = 206
           => RangeApplies(asked[c], reply[c].body.version, way)

AcceptedIsPinned ==
  \A c \in Callers :
    /\ op[c] = "read" => asked[c].ifRange = validator
    /\ phase[c] = "body" /\ op[c] = "read" => reply[c].body.version = pinned
    /\ phase[c] = "body" /\ op[c] = "prepare" =>
         /\ validator # None => Identity(reply[c]) = validator
         /\ size # None => reply[c].range.total = size

GotPinned == \A c \in Callers : \A d \in got[c] : d.body.version = pinned

PinInv == OneProbe /\ PinIsValidated /\ RepliesGenuine /\ AcceptedIsPinned /\ GotPinned

(* "given a validator, what is read is all from one object or it is an     *)
(* error" (index.mjs, fromURL): all the bytes one model received are bytes *)
(* of one version, however the object was replaced between its reads.      *)
OneObject ==
  \A c \in Callers : \A d, e \in got[c] : d.body.version = e.body.version

(* Without a validator the size check is what is left: the versions mixed  *)
(* in one model are at least of one length.                                *)
OneLength ==
  \A c \in Callers : \A d, e \in got[c] :
     Length[d.body.version] = Length[e.body.version]

(* What a model received is the range it asked for, in full, whatever else *)
(* the server put in a 200, a 206 with another range or a short body.      *)
AsAsked ==
  \A c \in Callers : \A d \in got[c] :
     /\ d.body.at = d.asked.first
     /\ d.body.at + d.body.count - 1 = d.asked.last

(* "Pinned here, and required to still hold on every read after this"      *)
(* (prepare): once the source has an identity and a size, no later open of *)
(* it, and no answer to one, moves or drops them.                          *)
PinStays == [][/\ validator # None => validator' = validator
               /\ size # None => size' = size]_vars

(* The abstract promise, with the pinned version as its pin.               *)
Promise == INSTANCE PinnedObject
             WITH pin <- pinned,
                  read <- [c \in Callers |-> {d.body.version : d \in got[c]}]

KeepsPromise == Promise!Spec
=============================================================================
