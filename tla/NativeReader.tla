---------------------------- MODULE NativeReader ----------------------------
(***************************************************************************)
(* `GgufReader` of src/crates/gguf/src/file.rs: a checkpoint opened on     *)
(* disk.  The size is measured once, the header is read in growing         *)
(* prefixes, and tensors or rows of them are read at any later time, all   *)
(* through one handle with one position.  A read is several reads of the   *)
(* system's, each of as many bytes as it likes, and another process may    *)
(* rewrite, truncate or extend the file before any of them.                *)
(***************************************************************************)
EXTENDS Header, Sequences

CONSTANT MaxRows      \* the longest list of rows a caller passes (a bound)

ASSUME ListAssumption == MaxRows \in Nat

VARIABLES
  disk,       \* the version the file has now
  cursor,     \* the position of the handle
  stage,      \* "closed", "opening", "open", "reading" (a call is under way),
              \*   "failed" (I/O), "unreadable"
  size,       \* GgufReader.size
  want,       \* the prefix the loop is about to read
  seen,       \* the versions the last prefix was read from
  asked,      \* the parts of the file the last call is for, None for no row
  rows,       \* those that were read, in order
  buffer,     \* the bytes of the next, each its place and version
  answer      \* what the last call returned, None for an error

vars == <<disk, cursor, stage, size, want, seen, asked, rows, buffer, answer>>

call == <<asked, rows, answer>>

Init == /\ disk \in Versions /\ cursor = 0
        /\ stage = "closed" /\ size = 0 /\ want = 0 /\ seen = {}
        /\ asked = <<>> /\ rows = <<>> /\ buffer = <<>> /\ answer = None

Rewrite == /\ disk' \in Versions \ {disk}
           /\ UNCHANGED <<cursor, stage, size, want, seen, buffer, call>>

(* What read_exact was given to fill.                                      *)
Wanted == IF stage = "opening" THEN want ELSE asked[Len(rows) + 1].length

(* One read of read_exact: some of the bytes that are still missing, if    *)
(* the file has them now.                                                  *)
ReadSome ==
  /\ stage \in {"opening", "reading"} /\ Len(buffer) < Wanted
  /\ \E n \in 1..(Wanted - Len(buffer)) :
       /\ cursor + n <= Length[disk]
       /\ buffer' = buffer \o [k \in 1..n |-> [version |-> disk, at |-> cursor + k - 1]]
       /\ cursor' = cursor + n
  /\ UNCHANGED <<disk, stage, size, want, seen, call>>

-----------------------------------------------------------------------------
(* File::open, metadata().len() and FIRST.min(whole).max(1).               *)
Open == /\ stage = "closed"
        /\ stage' = "opening" /\ cursor' = 0
        /\ size' = Length[disk]
        /\ want' = IF Length[disk] = 0 THEN 1 ELSE Lesser(First, Length[disk])
        /\ UNCHANGED <<disk, seen, buffer, call>>

(* from_bytes on a prefix; one read from several versions may be anything. *)
Verdicts(from) ==
  IF \E v \in Versions : from = {v} THEN {Parse(v, want) : v \in from}
  ELSE {"parsed", "short", "malformed"}

(* The end of the loop without its last condition, without the one on the  *)
(* size, and a step too early.                                             *)
GivesUpAtSize(verdict)    == verdict = "malformed" \/ want >= size
GivesUpAtLargest(verdict) == verdict = "malformed" \/ want >= Largest
GivesUpEarly(verdict)     == GivesUpAtSize(verdict) \/ want * 4 >= Largest

(* !error.needs_more_bytes() || want as u64 >= size || want >= LARGEST     *)
GivesUp(verdict) == verdict = "malformed" \/ want >= size \/ want >= Largest

(* The file ends before the prefix does, or the system fails the read.     *)
PrefixUnreadable ==
  /\ stage = "opening" /\ Len(buffer) < want
  /\ stage' = "failed"
  /\ UNCHANGED <<disk, cursor, size, want, seen, buffer, call>>

(* The prefix is there: it is parsed, and its buffer dropped.              *)
PrefixRead ==
  /\ stage = "opening" /\ Len(buffer) = want
  /\ seen' = {buffer[k].version : k \in DOMAIN buffer} /\ buffer' = <<>>
  /\ UNCHANGED <<disk, size, call>>

PrefixParses == /\ PrefixRead /\ "parsed" \in Verdicts(seen')
                /\ stage' = "open" /\ UNCHANGED <<cursor, want>>

PrefixRefused == /\ PrefixRead
                 /\ \E verdict \in Verdicts(seen') \ {"parsed"} : GivesUp(verdict)
                 /\ stage' = "unreadable" /\ UNCHANGED <<cursor, want>>

(* The next prefix is read from the start of the file.                     *)
PrefixGrows == /\ PrefixRead
               /\ \E verdict \in Verdicts(seen') \ {"parsed"} : ~GivesUp(verdict)
               /\ want' = Grown(want, size) /\ cursor' = 0 /\ UNCHANGED stage

OpenGoesOn == \/ PrefixUnreadable \/ PrefixParses \/ PrefixRefused \/ PrefixGrows
              \/ stage = "opening" /\ ReadSome

-----------------------------------------------------------------------------
(* A call without the seek of its own.                                     *)
TurnUnsought(list, done) ==
  /\ asked' = list /\ rows' = done /\ buffer' = <<>> /\ UNCHANGED cursor
  /\ IF Len(done) = Len(list) THEN stage' = "open" /\ answer' = done
     ELSE LET part == list[Len(done) + 1]
          IN /\ stage' = (IF part # None /\ part.at + part.length <= size
                          THEN "reading" ELSE "open")
             /\ answer' = None

(* A call from one part to its first read, or to its end: `range` refuses  *)
(* what is past the file as it was measured, and seeks.  An error anywhere *)
(* is the call's, and drops the rows before it.  An offset that overflows  *)
(* is past the file too.                                                   *)
Turn(list, done) ==
  /\ asked' = list /\ rows' = done /\ buffer' = <<>>
  /\ IF Len(done) = Len(list) THEN stage' = "open" /\ answer' = done /\ UNCHANGED cursor
     ELSE LET part == list[Len(done) + 1]
          IN /\ IF part # None /\ part.at + part.length <= size
                THEN stage' = "reading" /\ cursor' = part.at
                ELSE stage' = "open" /\ UNCHANGED cursor
             /\ answer' = None

(* The tensors of the header that was parsed.                              *)
TensorsRead ==
  UNION {Table[v] : v \in IF \E w \in Versions : seen = {w} THEN seen ELSE Versions}

(* tensor_bytes, and tensor_f32, which decodes what it returns.            *)
tensor_bytes(t) == /\ stage = "open" /\ t \in TensorsRead
                   /\ Turn(<<t>>, <<>>)
                   /\ UNCHANGED <<disk, size, want, seen>>

(* Where rows_f32 finds a row (RowRanges) of so many bytes.                *)
RowOf(t, length, row) ==
  IF (row + 1) * length <= t.length THEN [at |-> t.at + row * length, length |-> length]
  ELSE None

rows_f32(t, length, list) ==
  /\ stage = "open" /\ t \in TensorsRead
  /\ Turn([k \in DOMAIN list |-> RowOf(t, length, list[k])], <<>>)
  /\ UNCHANGED <<disk, size, want, seen>>

(* The bytes are there, and decoded where that is asked for.               *)
PartArrives == /\ stage = "reading" /\ Len(buffer) = Wanted
               /\ Turn(asked, Append(rows, buffer))
               /\ UNCHANGED <<disk, size, want, seen>>

(* The file ends before the part does, the system fails the read, or the   *)
(* format is none that is decoded.                                         *)
PartFails == /\ stage = "reading"
             /\ stage' = "open"
             /\ UNCHANGED <<disk, cursor, size, want, seen, buffer, call>>

Call == \E v \in Versions : \E t \in Table[v] :
          \/ tensor_bytes(t)
          \/ \E length \in {n \in 1..t.length : t.length % n = 0}, count \in 0..MaxRows :
             \E list \in [1..count -> 0..(t.length \div length)] : rows_f32(t, length, list)

Next == \/ Rewrite \/ Open \/ ReadSome
        \/ PrefixUnreadable \/ PrefixParses \/ PrefixRefused \/ PrefixGrows
        \/ Call \/ PartArrives \/ PartFails

Spec == Init /\ [][Next]_vars /\ WF_vars(OpenGoesOn)

-----------------------------------------------------------------------------
Part == [at : Nat, length : Nat \ {0}]
Byte == [version : Versions, at : Nat]

(* Type invariant; the prefix never takes more than LARGEST of memory, and *)
(* a call's buffer no more than the file as it was measured.               *)
TypeOK ==
  /\ disk \in Versions /\ cursor \in Nat
  /\ stage \in {"closed", "opening", "open", "reading", "failed", "unreadable"}
  /\ size \in Nat /\ want \in 0..Largest /\ seen \subseteq Versions
  /\ asked \in Seq(Part \cup {None})
  /\ rows \in Seq(Seq(Byte)) /\ buffer \in Seq(Byte)
  /\ answer \in Seq(Seq(Byte)) \cup {None}
  /\ stage = "reading" => Len(rows) < Len(asked) /\ Wanted <= size

(* No prefix is larger than the file when it was measured, except the one  *)
(* byte that finds an empty file empty.                                    *)
PrefixBounded == stage # "closed" => want <= size \/ (size = 0 /\ want = 1)

(* A prefix that was read is dropped for a longer one only, so the loop is *)
(* not repeated at a bound.                                                *)
PrefixGrowsOrEnds ==
  [][stage = "opening" /\ stage' = "opening" /\ buffer # <<>> /\ buffer' = <<>>
       => want' > want]_vars

(* The open gives up only on a header that no permitted prefix of the file *)
(* would have parsed, whatever happened to the file before and after its   *)
(* last prefix was read.                                                   *)
RefusedForCause ==
  stage = "unreadable" =>
    \A v \in Versions : seen = {v} => Parse(v, Lesser(Largest, size)) # "parsed"

(* Parts of the file in full: as many bytes as were asked for, each from   *)
(* its place, which was in the file when it was measured and when it was   *)
(* read.                                                                   *)
InFull(list, parts) ==
  \A k \in DOMAIN parts :
     /\ list[k] # None /\ Len(parts[k]) = list[k].length
     /\ \A j \in DOMAIN parts[k] :
          /\ parts[k][j].at = list[k].at + j - 1
          /\ parts[k][j].at < Lesser(size, Length[parts[k][j].version])

(* A call returns all the rows it was asked for, in their order, and each  *)
(* of their bytes is the file's at its place: neither a file that grew or  *)
(* was cut between two reads of one row, nor the position an earlier call  *)
(* left behind when it failed, shows through.                              *)
WholeTensors == answer # None => Len(answer) = Len(asked) /\ InFull(asked, answer)

(* An open ends, in a reader or in an error.                               *)
OpenSettles == stage = "opening" ~> stage \in {"open", "failed", "unreadable"}
=============================================================================
