--------------------------- MODULE OpenGGUFProofs ---------------------------
(***************************************************************************)
(* Theorems about openGGUF over a URL source: for any objects and headers, *)
(* any bounds of the prefix, and any number of models on one source.       *)
(***************************************************************************)
EXTENDS OpenGGUF, HttpSourceProofs

locked == <<vars, locals>>

(* Types, and what a stage says of the source's side of the call.          *)
SizeKnown == \A c \in Callers : model[c] = "open" => size # None

LocalsOK ==
  /\ stage \in [Callers -> {"new", "preparing", "prepared", "header", "open",
                            "failed", "unreadable"}]
  /\ length \in [Callers -> Nat] /\ want \in [Callers -> Nat]
  /\ header \in [Callers -> Versions \cup {None}]

StagedAt(c) ==
  /\ op[c] = "prepare" => stage[c] = "preparing"
  /\ stage[c] \in {"prepared", "header", "open", "unreadable"} => model[c] = "open"
  /\ stage[c] = "header" => length[c] > 0 /\ want[c] > 0
  /\ stage[c] = "open" => header[c] \in Versions

Staged == \A c \in Callers : StagedAt(c)

OpenTypeInv == TypeInv /\ SizeKnown /\ LocalsOK /\ Staged

(* Nothing is open at first.                                               *)
LEMMA OpenTypeInit == OpenInit => OpenTypeInv
<1>. SUFFICES ASSUME OpenInit PROVE OpenTypeInv
  OBVIOUS
<1>1. TypeInv
  BY TypeInit DEF OpenInit
<1>. QED
  BY <1>1 DEF OpenInit, Init, OpenTypeInv, SizeKnown, LocalsOK, Staged, StagedAt

(* A step of openGGUF is a step of the source, or none of it.              *)
LEMMA ClientMoves ==
  ASSUME OpenTypeInv, NEW c \in Callers, Open(c) \/ ReadTensor(c) \/ Client(c)
  PROVE  Moves(c) \/ UNCHANGED vars
<1>1. CASE Open(c)
  BY <1>1 DEF Open, Moves
<1>2. CASE ReadTensor(c)
  <2>1. header[c] \in Versions
    BY <1>2 DEF ReadTensor, OpenTypeInv, Staged, StagedAt
  <2>2. Table[header[c]] \subseteq Askable
    BY <2>1, HeaderAssumption DEF Askable
  <2>. QED
    BY <1>2, <2>2 DEF ReadTensor, Moves
<1>3. CASE ReadHeader(c)
  <2>1. want[c] \in Nat \ {0}
    BY <1>3 DEF ReadHeader, OpenTypeInv, LocalsOK, Staged, StagedAt
  <2>2. [at |-> 0, length |-> want[c]] \in Askable
    BY <2>1 DEF Askable
  <2>. QED
    BY <1>3, <2>2 DEF ReadHeader, Moves
<1>4. CASE Prepared(c) \/ BeginHeader(c) \/ HeaderArrives(c) \/ TensorArrives(c) \/ Transport(c)
  BY <1>4 DEF Prepared, BeginHeader, HeaderArrives, TensorArrives, Transport, Moves
<1>. QED
  BY <1>1, <1>2, <1>3, <1>4 DEF Client

(* So the lemmas about the source apply to every step.                     *)
LEMMA OpenMoves == OpenTypeInv /\ [OpenNext]_locked => [Move]_vars
<1>. SUFFICES ASSUME OpenTypeInv, [OpenNext]_locked PROVE [Move]_vars
  OBVIOUS
<1>1. CASE UNCHANGED locked
  BY <1>1 DEF locked
<1>2. CASE Elsewhere
  BY <1>2 DEF Elsewhere, Move, Moves
<1>3. ASSUME NEW c \in Callers, Open(c) \/ ReadTensor(c) \/ Client(c)
      PROVE  [Move]_vars
  BY <1>3, ClientMoves DEF Move
<1>. QED
  BY <1>1, <1>2, <1>3 DEF OpenNext

(* A step of one caller leaves the calls of the others.                    *)
LEMMA MovesOthers ==
  ASSUME TypeInv, NEW c \in Callers, Moves(c) \/ UNCHANGED vars,
         NEW d \in Callers, d # c
  PROVE  op'[d] = op[d] /\ model'[d] = model[d]
<1>1. CASE Reject(c) \/ FinishPrepare(c) \/ FinishRead(c)
  BY <1>1 DEF Reject, FinishPrepare, FinishRead, Settle, TypeInv, TypeOK
<1>2. CASE StartPrepare(c) \/ (\E r \in Askable : StartRead(c, r))
  BY <1>2 DEF StartPrepare, StartRead, Send, TypeInv, TypeOK
<1>. QED
  BY <1>1, <1>2 DEF Moves, Answer, Lose, Check, ShortRead, vars

(* And the server and the owner of the object leave all of them.           *)
LEMMA ElsewhereKeeps == Elsewhere => UNCHANGED <<op, model, size, pinned, got, locals>>
  BY DEF Elsewhere, Replace, Answer, source, calls

(* A size, once there, is replaced by a number only.                       *)
LEMMA SizeKnownStep == TypeInv /\ SizeKnown /\ [Move]_vars => SizeKnown'
<1>. SUFFICES ASSUME TypeInv, SizeKnown, [Move]_vars PROVE SizeKnown'
  OBVIOUS
<1>1. CASE UNCHANGED vars \/ Replace
  BY <1>1 DEF vars, Replace, source, SizeKnown
<1>2. ASSUME NEW c \in Callers, Moves(c)
      PROVE  SizeKnown'
  <2>1. CASE FinishPrepare(c)
    <3>1. size' = reply[c].range.total /\ size' \in Nat
      BY <2>1 DEF FinishPrepare, TypeInv, CallsOK, Replies, Ranges
    <3>. QED
      BY <3>1, ObjectAssumption DEF SizeKnown
  <2>2. CASE ~FinishPrepare(c)
    <3>1. UNCHANGED size
      BY <1>2, <2>2 DEF Moves, StartPrepare, StartRead, Answer, Lose, Check,
                        Reject, FinishRead, ShortRead, source
    <3>2. \A d \in Callers : model'[d] = "open" => model[d] = "open"
      BY <1>2, <2>2 DEF Moves, StartPrepare, StartRead, Answer, Lose, Check,
                        Reject, FinishRead, ShortRead, TypeInv, TypeOK
    <3>. QED
      BY <3>1, <3>2 DEF SizeKnown
  <2>. QED
    BY <2>1, <2>2
<1>. QED
  BY <1>1, <1>2 DEF Move

(* The next prefix is within both bounds and not empty.                    *)
LEMMA GrownBounds ==
  ASSUME NEW n \in Nat \ {0}, NEW total \in Nat \ {0}
  PROVE  /\ Grown(n, total) \in Nat \ {0}
         /\ Grown(n, total) <= Lesser(Largest, total)
         /\ Lesser(First, total) \in Nat \ {0}
         /\ Lesser(First, total) <= Lesser(Largest, total)
  BY HeaderAssumption DEF Grown, Lesser

(* A prefix arrives: what becomes of the caller's own variables.           *)
LEMMA HeaderArrivesLocals ==
  ASSUME OpenTypeInv, NEW c \in Callers, HeaderArrives(c)
  PROVE  LocalsOK' /\ StagedAt(c)'
<1>. DEFINE v == reply[c].body.version
<1>1. v \in Versions
  BY DEF HeaderArrives, FinishRead, OpenTypeInv, TypeInv, CallsOK, Replies, Chunks
<1>2. /\ stage[c] = "header" /\ model[c] = "open" /\ length[c] \in Nat \ {0}
      /\ want[c] \in Nat \ {0}
  BY DEF HeaderArrives, OpenTypeInv, LocalsOK, Staged, StagedAt
<1>3. op'[c] = "none" /\ model' = model /\ length' = length
  BY DEF HeaderArrives, FinishRead, Settle, OpenTypeInv, TypeInv, TypeOK
<1>. HIDE DEF v
<1>4. CASE HeaderParses(c, v)
  BY <1>1, <1>2, <1>3, <1>4 DEF HeaderParses, OpenTypeInv, LocalsOK, StagedAt
<1>5. CASE HeaderFails(c, v)
  BY <1>2, <1>3, <1>5 DEF HeaderFails, OpenTypeInv, LocalsOK, StagedAt
<1>6. CASE HeaderGrows(c, v)
  <2>1. want' = [want EXCEPT ![c] = Grown(want[c], length[c])] /\ want' \in [Callers -> Nat]
    BY <1>2, <1>6, GrownBounds DEF HeaderGrows, OpenTypeInv, LocalsOK
  <2>2. want'[c] \in Nat \ {0}
    BY <1>2, <2>1, GrownBounds DEF OpenTypeInv, LocalsOK
  <2>3. stage'[c] \in {"header", "unreadable"} /\ LocalsOK'
    BY <1>2, <1>3, <1>6, <2>1 DEF HeaderGrows, OpenTypeInv, LocalsOK
  <2>. QED
    BY <1>2, <1>3, <2>2, <2>3 DEF StagedAt
<1>. QED
  BY <1>4, <1>5, <1>6 DEF HeaderArrives, v

(* Every step of one caller keeps the types of its variables and its       *)
(* stage in line with its call.                                            *)
LEMMA ClientLocals ==
  ASSUME OpenTypeInv, NEW c \in Callers, Open(c) \/ ReadTensor(c) \/ Client(c)
  PROVE  LocalsOK' /\ StagedAt(c)'
<1>. USE DEF OpenTypeInv
<1>1. CASE Open(c)
  BY <1>1 DEF Open, StartPrepare, LocalsOK, StagedAt
<1>2. CASE ReadTensor(c) \/ ReadHeader(c)
  <2>1. op'[c] = "read" /\ UNCHANGED <<model, locals>>
    BY <1>2 DEF ReadTensor, ReadHeader, StartRead, Send, TypeInv, TypeOK
  <2>. QED
    BY <2>1 DEF LocalsOK, Staged, StagedAt, locals
<1>3. CASE Prepared(c)
  <2>1. op'[c] = "none"
    BY <1>3 DEF Prepared, FinishPrepare, Settle, TypeInv, TypeOK
  <2>. QED
    BY <1>3, <2>1 DEF Prepared, LocalsOK, StagedAt
<1>4. CASE BeginHeader(c)
  <2>1. size \in Nat /\ model[c] = "open"
    BY <1>4 DEF BeginHeader, SizeKnown, TypeInv, TypeOK, Staged, StagedAt
  <2>2. Lesser(First, size) \in Nat /\ (size > 0 => Lesser(First, size) > 0)
    BY <2>1, HeaderAssumption DEF Lesser
  <2>3. op[c] # "prepare" /\ UNCHANGED <<op, model>>
    BY <1>4 DEF BeginHeader, Staged, StagedAt, vars
  <2>. QED
    BY <1>4, <2>1, <2>2, <2>3 DEF BeginHeader, LocalsOK, StagedAt
<1>5. CASE HeaderArrives(c)
  BY <1>5, HeaderArrivesLocals
<1>6. CASE TensorArrives(c)
  <2>1. op'[c] = "none" /\ UNCHANGED <<model, locals>>
    BY <1>6 DEF TensorArrives, FinishRead, Settle, TypeInv, TypeOK
  <2>. QED
    BY <2>1 DEF LocalsOK, Staged, StagedAt, locals
<1>7. CASE Transport(c)
  <2>1. CASE Reject(c)
    <3>1. op'[c] = "none" /\ phase'[c] = "idle"
      BY <2>1 DEF Reject, Settle, TypeInv, TypeOK
    <3>2. stage[c] = "open" => model'[c] = "open"
      BY <2>1 DEF Reject, TypeInv, TypeOK, Staged, StagedAt
    <3>. QED
      BY <1>7, <3>1, <3>2 DEF Transport, LocalsOK, Staged, StagedAt
  <2>2. CASE phase'[c] = "body" /\ UNCHANGED <<op, model>>
    BY <1>7, <2>2 DEF Transport, LocalsOK, Staged, StagedAt
  <2>. QED
    BY <1>7, <2>1, <2>2 DEF Transport, Check, Lose, ShortRead, TypeInv, TypeOK
<1>. QED
  BY <1>1, <1>2, <1>3, <1>4, <1>5, <1>6, <1>7 DEF Client

(* A step of one caller leaves the others' variables.                      *)
LEMMA LocalsOthers ==
  ASSUME LocalsOK, NEW c \in Callers, Open(c) \/ ReadTensor(c) \/ Client(c),
         NEW d \in Callers, d # c
  PROVE  /\ stage'[d] = stage[d] /\ length'[d] = length[d]
         /\ want'[d] = want[d] /\ header'[d] = header[d]
<1>1. CASE HeaderArrives(c)
  BY <1>1 DEF HeaderArrives, HeaderParses, HeaderFails, HeaderGrows, LocalsOK
<1>2. CASE ~HeaderArrives(c)
  BY <1>2 DEF Open, ReadTensor, Client, Prepared, BeginHeader, ReadHeader,
              TensorArrives, Transport, LocalsOK, locals
<1>. QED
  BY <1>1, <1>2

(* Every step keeps the types.                                             *)
LEMMA OpenTypeStep == OpenTypeInv /\ [OpenNext]_locked => OpenTypeInv'
<1>. SUFFICES ASSUME OpenTypeInv, [OpenNext]_locked PROVE OpenTypeInv'
  OBVIOUS
<1>1. TypeInv' /\ SizeKnown'
  BY OpenMoves, TypeStep, SizeKnownStep DEF OpenTypeInv
<1>2. CASE UNCHANGED locked \/ Elsewhere
  <2>1. UNCHANGED <<op, model, locals>>
    BY <1>2, ElsewhereKeeps DEF locked, vars
  <2>. QED
    BY <1>1, <2>1 DEF locals, OpenTypeInv, LocalsOK, Staged, StagedAt
<1>3. ASSUME NEW c \in Callers, Open(c) \/ ReadTensor(c) \/ Client(c)
      PROVE  OpenTypeInv'
  <2>1. LocalsOK' /\ StagedAt(c)'
    BY <1>3, ClientLocals
  <2>2. ASSUME NEW d \in Callers, d # c
        PROVE  StagedAt(d)'
    <3>1. /\ op'[d] = op[d] /\ model'[d] = model[d] /\ stage'[d] = stage[d]
          /\ length'[d] = length[d] /\ want'[d] = want[d] /\ header'[d] = header[d]
      BY <1>3, <2>2, ClientMoves, MovesOthers, LocalsOthers DEF OpenTypeInv
    <3>. QED
      BY <3>1 DEF OpenTypeInv, Staged, StagedAt
  <2>. QED
    BY <1>1, <2>1, <2>2 DEF OpenTypeInv, Staged
<1>. QED
  BY <1>2, <1>3 DEF OpenNext

(* Every variable keeps its type, whatever the server and the objects.     *)
THEOREM OpenTypeCorrect == OpenSpec => []OpenTypeOK
<1>1. OpenTypeInv => OpenTypeOK
  BY DEF OpenTypeInv, TypeInv, LocalsOK, OpenTypeOK
<1>. QED
  BY OpenTypeInit, OpenTypeStep, <1>1, PTL DEF OpenSpec, locked

-----------------------------------------------------------------------------
(* Under ConsistentServer, what each stage says of the pinned version.     *)
Longest(v) == Lesser(Largest, Length[v])

Cause(v) == Parse(v, Longest(v)) # "parsed" \/ ~TableFits(v, Length[v])

JudgedAt(c) ==
  /\ stage[c] = "header" => length[c] = size /\ want[c] <= Lesser(Largest, size)
  /\ stage[c] = "open" => header[c] = pinned /\ TableFits(pinned, Length[pinned])
  /\ stage[c] = "unreadable" => Cause(pinned)

Judged == \A c \in Callers : JudgedAt(c)

OpenInv == OpenTypeInv /\ PinInv /\ RangeInv /\ LengthInv /\ Judged

(* Nothing has been judged at first.                                       *)
LEMMA OpenInvInit == OpenInit => OpenInv
<1>. SUFFICES ASSUME OpenInit PROVE OpenInv
  OBVIOUS
<1>1. OpenTypeInv
  BY OpenTypeInit
<1>2. PinInv /\ RangeInv /\ LengthInv
  BY PinInit, RangeInit, LengthInit DEF OpenInit
<1>3. Judged
  BY DEF OpenInit, Judged, JudgedAt
<1>. QED
  BY <1>1, <1>2, <1>3 DEF OpenInv

(* While a model is open the pin and the size stay.                        *)
LEMMA PinKept ==
  ASSUME ConsistentServer, OpenInv, [Move]_vars,
         NEW c \in Callers, model[c] = "open"
  PROVE  pinned' = pinned /\ size' = size
<1>1. validator # None /\ size # None
  BY DEF OpenInv, PinInv, PinIsValidated, LengthInv, Sized
<1>2. CASE UNCHANGED vars
  BY <1>2 DEF vars
<1>3. CASE Replace
  BY <1>3 DEF Replace, source
<1>4. ASSUME NEW d \in Callers, Moves(d)
      PROVE  pinned' = pinned /\ size' = size
  <2>1. CASE FinishPrepare(d)
    BY <1>1, <2>1, FinishedProbe DEF OpenInv, OpenTypeInv
  <2>2. CASE ~FinishPrepare(d)
    BY <1>4, <2>2 DEF Moves, StartPrepare, StartRead, Answer, Lose, Check,
                      Reject, FinishRead, ShortRead, source
  <2>. QED
    BY <2>1, <2>2
<1>. QED
  BY <1>2, <1>3, <1>4 DEF Move

(* More of a version does not make a malformed header a good one.          *)
LEMMA MalformedStays ==
  ASSUME NEW v \in Versions, NEW n \in Nat, NEW m \in Nat, n <= m,
         Parse(v, n) = "malformed"
  PROVE  Parse(v, m) = "malformed"
<1>1. Malformed[v] # None => Malformed[v] \in Nat
  BY HeaderAssumption
<1>2. Needs[v] \in Nat
  BY HeaderAssumption
<1>. QED
  BY <1>1, <1>2 DEF Parse

(* A prefix arrives: it is one of the pinned version, of whose length      *)
(* openGGUF has a copy, so its verdict is about that version.              *)
LEMMA HeaderArrivesJudged ==
  ASSUME ConsistentServer, OpenInv, NEW c \in Callers, HeaderArrives(c)
  PROVE  JudgedAt(c)'
<1>. DEFINE v == reply[c].body.version
<1>1. v = pinned /\ v \in Versions
  BY DEF HeaderArrives, FinishRead, OpenInv, OpenTypeInv, TypeInv, CallsOK, Replies,
         Chunks, PinInv, AcceptedIsPinned
<1>2. Length[v] = size
  BY ReadOfSize DEF HeaderArrives, OpenInv, OpenTypeInv
<1>3. /\ stage[c] = "header" /\ length[c] \in Nat \ {0} /\ want[c] \in Nat \ {0}
      /\ length[c] = size /\ want[c] <= Lesser(Largest, size)
  BY DEF HeaderArrives, OpenInv, OpenTypeInv, LocalsOK, Staged, StagedAt, Judged, JudgedAt
<1>4. pinned' = pinned /\ size' = size /\ length' = length
  BY DEF HeaderArrives, FinishRead, source
<1>. HIDE DEF v
<1>5. CASE HeaderParses(c, v)
  <2>1. /\ stage'[c] = IF TableFits(v, length[c]) THEN "open" ELSE "unreadable"
        /\ header'[c] = v
    BY <1>5 DEF HeaderParses, OpenInv, OpenTypeInv, LocalsOK
  <2>. QED
    BY <1>1, <1>2, <1>3, <1>4, <2>1 DEF JudgedAt, Cause
<1>6. CASE HeaderFails(c, v)
  <2>1. stage'[c] = "unreadable"
    BY <1>6 DEF HeaderFails, OpenInv, OpenTypeInv, LocalsOK
  <2>2. Longest(v) \in Nat /\ want[c] <= Longest(v)
    BY <1>2, <1>3, HeaderAssumption DEF Longest, Lesser
  <2>3. Parse(v, Longest(v)) # "parsed"
    <3>1. CASE Parse(v, want[c]) = "malformed"
      BY <1>1, <1>3, <2>2, <3>1, MalformedStays
    <3>2. CASE want[c] >= length[c]
      <4>1. want[c] = Longest(v)
        BY <1>2, <1>3, <2>2, <3>2, HeaderAssumption DEF Longest, Lesser
      <4>. QED
        BY <1>6, <4>1 DEF HeaderFails
    <3>. QED
      BY <1>6, <3>1, <3>2 DEF HeaderFails, GivesUp
  <2>. QED
    BY <1>1, <1>4, <2>1, <2>3 DEF JudgedAt, Cause
<1>7. CASE HeaderGrows(c, v)
  <2>1. want'[c] = Grown(want[c], length[c])
    BY <1>7 DEF HeaderGrows, OpenInv, OpenTypeInv, LocalsOK
  <2>2. want'[c] <= Lesser(Largest, length[c])
    BY <1>3, <2>1, GrownBounds
  <2>3. stage'[c] = "header"
    BY <1>3, <1>7, <2>2 DEF HeaderGrows, LoopGoesOn, OpenInv, OpenTypeInv, LocalsOK
  <2>. QED
    BY <1>3, <1>4, <2>2, <2>3 DEF JudgedAt
<1>. QED
  BY <1>5, <1>6, <1>7 DEF HeaderArrives, v

(* Every step of a caller keeps its own stage true to the pin.             *)
LEMMA ClientJudged ==
  ASSUME ConsistentServer, OpenInv, [Move]_vars,
         NEW c \in Callers, Open(c) \/ ReadTensor(c) \/ Client(c)
  PROVE  JudgedAt(c)'
<1>. USE DEF OpenInv, OpenTypeInv
<1>1. CASE Open(c) \/ Prepared(c)
  <2>1. stage'[c] \in {"preparing", "prepared", "failed"}
    BY <1>1 DEF Open, Prepared, LocalsOK
  <2>. QED
    BY <2>1 DEF JudgedAt
<1>2. CASE BeginHeader(c)
  <2>1. size \in Nat /\ size' = size
    BY <1>2 DEF BeginHeader, SizeKnown, TypeInv, TypeOK, Staged, StagedAt, vars
  <2>2. /\ stage'[c] = IF size > 0 THEN "header" ELSE "failed"
        /\ length'[c] = size /\ want'[c] = Lesser(First, size)
    BY <1>2 DEF BeginHeader, LocalsOK
  <2>3. size > 0 => Lesser(First, size) <= Lesser(Largest, size)
    BY <2>1, HeaderAssumption DEF Lesser
  <2>. QED
    BY <2>1, <2>2, <2>3 DEF JudgedAt
<1>3. CASE HeaderArrives(c)
  BY <1>3, HeaderArrivesJudged
<1>4. CASE ReadTensor(c) \/ ReadHeader(c) \/ TensorArrives(c) \/ Transport(c)
  <2>1. /\ stage'[c] = stage[c] \/ stage'[c] = "failed"
        /\ UNCHANGED <<length, want, header>>
    BY <1>4 DEF ReadTensor, ReadHeader, TensorArrives, Transport, locals, LocalsOK
  <2>2. stage[c] \in {"header", "open", "unreadable"} => pinned' = pinned /\ size' = size
    BY PinKept DEF Staged, StagedAt
  <2>. QED
    BY <2>1, <2>2 DEF Judged, JudgedAt
<1>. QED
  BY <1>1, <1>2, <1>3, <1>4 DEF Client

(* Every step keeps the invariant.                                         *)
LEMMA OpenInvStep == ConsistentServer /\ OpenInv /\ [OpenNext]_locked => OpenInv'
<1>. SUFFICES ASSUME ConsistentServer, OpenInv, [OpenNext]_locked PROVE OpenInv'
  OBVIOUS
<1>1. OpenTypeInv' /\ [Move]_vars
  BY OpenTypeStep, OpenMoves DEF OpenInv
<1>2. PinInv' /\ RangeInv' /\ LengthInv'
  BY <1>1, PinStep, RangeStep, LengthStep DEF OpenInv, OpenTypeInv, ConsistentServer
<1>3. CASE UNCHANGED locked \/ Elsewhere
  <2>1. UNCHANGED <<size, pinned, locals>>
    BY <1>3, ElsewhereKeeps DEF locked, vars
  <2>. QED
    BY <1>1, <1>2, <2>1 DEF locals, OpenInv, Judged, JudgedAt
<1>4. ASSUME NEW c \in Callers, Open(c) \/ ReadTensor(c) \/ Client(c)
      PROVE  OpenInv'
  <2>1. JudgedAt(c)'
    BY <1>1, <1>4, ClientJudged
  <2>2. ASSUME NEW d \in Callers, d # c
        PROVE  JudgedAt(d)'
    <3>1. /\ stage'[d] = stage[d] /\ length'[d] = length[d]
          /\ want'[d] = want[d] /\ header'[d] = header[d]
      BY <1>4, <2>2, LocalsOthers DEF OpenInv, OpenTypeInv
    <3>2. stage[d] \in {"header", "open", "unreadable"} => pinned' = pinned /\ size' = size
      BY <1>1, PinKept DEF OpenInv, OpenTypeInv, Staged, StagedAt
    <3>. QED
      BY <3>1, <3>2 DEF OpenInv, Judged, JudgedAt
  <2>. QED
    BY <1>1, <1>2, <2>1, <2>2 DEF OpenInv, Judged
<1>. QED
  BY <1>3, <1>4 DEF OpenNext

(* The inductive invariant holds of every state of openGGUF.               *)
THEOREM OpenInvariant ==
  ASSUME ConsistentServer
  PROVE  OpenSpec => []OpenInv
  BY OpenInvInit, OpenInvStep, PTL DEF OpenSpec, locked

(* "A header parsed from version A and a weight fetched from version B"    *)
(* never make one model: the bytes of an open model are of the version     *)
(* its tensor table was read from.                                         *)
THEOREM TableMatchesBytesHolds ==
  ASSUME ConsistentServer
  PROVE  OpenSpec => []TableMatchesBytes
<1>1. OpenInv => TableMatchesBytes
  BY DEF OpenInv, PinInv, GotPinned, Judged, JudgedAt, TableMatchesBytes
<1>. QED
  BY <1>1, OpenInvariant, PTL

(* The tensors of an open model are inside the object its reads are held   *)
(* to, whatever size the object at the URL has now.                        *)
THEOREM TensorsInsideObjectHolds ==
  ASSUME ConsistentServer
  PROVE  OpenSpec => []TensorsInsideObject
<1>1. OpenInv => TensorsInsideObject
  BY DEF OpenInv, Judged, JudgedAt, TensorsInsideObject
<1>. QED
  BY <1>1, OpenInvariant, PTL

(* A header is refused only if no prefix the loop may read would do.       *)
THEOREM RefusedForCauseHolds ==
  ASSUME ConsistentServer
  PROVE  OpenSpec => []RefusedForCause
<1>1. OpenInv => RefusedForCause
  BY DEF OpenInv, PinInv, GotPinned, Judged, JudgedAt, Cause, Longest, RefusedForCause
<1>. QED
  BY <1>1, OpenInvariant, PTL

(* openGGUF uses the source as the source allows, so what was proved of    *)
(* the reads of a source holds of a model's reads.                         *)
THEOREM OpenDelivers ==
  ASSUME ConsistentServer
  PROVE  OpenSpec => [](OneObject /\ AsAsked)
<1>1. OpenInv => OneObject /\ AsAsked
  BY DEF OpenInv, RangeInv, PinInv, GotPinned, OneObject
<1>. QED
  BY <1>1, OpenInvariant, PTL
=============================================================================
