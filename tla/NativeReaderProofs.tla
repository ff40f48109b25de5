------------------------- MODULE NativeReaderProofs -------------------------
(***************************************************************************)
(* Theorems about the native reader, for any file, any header, any list of *)
(* rows and any two bounds on the prefix, however often the file is        *)
(* rewritten, also between the reads that make up one read_exact.          *)
(***************************************************************************)
EXTENDS NativeReader, SequenceTheorems, TLAPS

(* The inductive invariant.  A prefix is at least a byte and, except for   *)
(* the byte that finds an empty file empty, inside the file as measured.   *)
(* The buffer of a read under way holds its bytes from the first on, each  *)
(* from its place, and the handle stands behind them, wherever an earlier  *)
(* read left it.  Rows a call has are in full before it goes on to others. *)
PrefixInside ==
  stage # "closed" =>
    /\ want >= 1
    /\ want <= size \/ (size = 0 /\ want = 1)

Filling(start, length) ==
  /\ cursor = start + Len(buffer) /\ Len(buffer) <= length
  /\ \A j \in DOMAIN buffer :
       /\ buffer[j].at = start + j - 1
       /\ buffer[j].at < Length[buffer[j].version]

PrefixFilling == stage = "opening" => Filling(0, want)

PartFilling ==
  stage = "reading" =>
    LET part == asked[Len(rows) + 1]
    IN /\ part # None /\ part.at + part.length <= size
       /\ Filling(part.at, part.length)

RowsInFull == Len(rows) <= Len(asked) /\ InFull(asked, rows)

NotOpened == stage = "closed" =>
  asked = <<>> /\ rows = <<>> /\ buffer = <<>> /\ answer = None

ReaderInv == /\ TypeOK /\ PrefixInside /\ PrefixFilling /\ PartFilling
             /\ RowsInFull /\ NotOpened /\ RefusedForCause /\ WholeTensors

(* Grown is a longer prefix, still inside both bounds.                     *)
LEMMA GrownGrows ==
  ASSUME NEW n \in Nat \ {0}, NEW total \in Nat, n < total, n < Largest
  PROVE  /\ Grown(n, total) \in Nat
         /\ n < Grown(n, total)
         /\ Grown(n, total) <= total /\ Grown(n, total) <= Largest
  BY HeaderAssumption DEF Grown, Lesser

(* A refusal of one prefix is a refusal of the longest one permitted.      *)
LEMMA RefusalIsFinal ==
  ASSUME NEW v \in Versions, NEW n \in Nat, NEW total \in Nat,
         n >= 1, n <= Largest, n <= total \/ (total = 0 /\ n = 1),
         Parse(v, n) # "parsed",
         Parse(v, n) = "malformed" \/ n >= total \/ n >= Largest
  PROVE  Parse(v, Lesser(Largest, total)) # "parsed"
<1>1. /\ Needs[v] \in Nat \ {0} /\ Malformed[v] \in Nat \cup {None}
      /\ Largest \in Nat
  BY HeaderAssumption
<1>2. CASE n >= total \/ n >= Largest
  <2>1. Lesser(Largest, total) = n \/ Lesser(Largest, total) = 0
    BY <1>1, <1>2 DEF Lesser
  <2>. QED
    BY <1>1, <2>1 DEF Parse
<1>3. CASE Parse(v, n) = "malformed" /\ n < total
  <2>1. Malformed[v] # None /\ n >= Malformed[v]
    BY <1>3 DEF Parse
  <2>2. Malformed[v] \in Nat
    BY <1>1, <2>1
  <2>3. Lesser(Largest, total) >= n
    BY <1>1, <1>3 DEF Lesser
  <2>4. Lesser(Largest, total) >= Malformed[v]
    BY <1>1, <2>1, <2>2, <2>3 DEF Lesser
  <2>. QED
    BY <2>1, <2>4 DEF Parse
<1>. QED
  BY <1>1, <1>2, <1>3

(* The invariant holds of a reader that has not been opened.               *)
LEMMA ReaderInit == Init => ReaderInv
<1>. SUFFICES ASSUME Init PROVE ReaderInv
  OBVIOUS
<1>1. /\ <<>> \in Seq(Part \cup {None}) /\ <<>> \in Seq(Seq(Byte)) /\ <<>> \in Seq(Byte)
      /\ Len(<<>>) = 0 /\ DOMAIN <<>> = {}
  BY EmptySeq
<1>2. InFull(<<>>, <<>>)
  BY <1>1 DEF InFull
<1>. QED
  BY <1>1, <1>2, HeaderAssumption
  DEF Init, ReaderInv, TypeOK, PrefixInside, PrefixFilling, PartFilling, RowsInFull,
      NotOpened, RefusedForCause, WholeTensors

(* Bytes that were read stand behind those there were.                     *)
LEMMA MoreBytes ==
  ASSUME NEW old \in Seq(Byte), NEW n \in Nat, NEW more \in [1..n -> Byte]
  PROVE  /\ old \o more \in Seq(Byte) /\ Len(old \o more) = Len(old) + n
         /\ DOMAIN (old \o more) = 1..(Len(old) + n)
         /\ \A j \in 1..Len(old) : (old \o more)[j] = old[j]
         /\ \A k \in 1..n : (old \o more)[Len(old) + k] = more[k]
<1>1. more \in Seq(Byte)
  BY SeqDef
<1>2. Len(more) = n
  <2>1. DOMAIN more = 1..n /\ DOMAIN more = 1..Len(more) /\ Len(more) \in Nat
    BY <1>1, LenProperties
  <2>. QED
    BY <2>1
<1>3. Len(old) \in Nat
  BY LenProperties
<1>4. /\ old \o more \in Seq(Byte) /\ Len(old \o more) = Len(old) + Len(more)
      /\ \A i \in 1..(Len(old) + Len(more)) :
           (old \o more)[i] = IF i <= Len(old) THEN old[i] ELSE more[i - Len(old)]
  BY <1>1, ConcatProperties
<1>5. DOMAIN (old \o more) = 1..(Len(old) + n)
  BY <1>2, <1>4, LenProperties
<1>6. ASSUME NEW k \in 1..n PROVE (old \o more)[Len(old) + k] = more[k]
  <2>1. Len(old) + k \in 1..(Len(old) + n) /\ ~(Len(old) + k <= Len(old))
    BY <1>3
  <2>2. (Len(old) + k) - Len(old) = k
    BY <1>3
  <2>. QED
    BY <1>2, <1>4, <2>1, <2>2
<1>. QED
  BY <1>2, <1>3, <1>4, <1>5, <1>6

(* One more read keeps every byte at its place.                            *)
LEMMA FillingGoesOn ==
  ASSUME NEW start \in Nat, NEW length \in Nat, Filling(start, length),
         disk \in Versions, buffer \in Seq(Byte), cursor \in Nat,
         NEW n \in 1..(length - Len(buffer)), cursor + n <= Length[disk],
         NEW extra \in [1..n -> Byte],
         \A k \in 1..n : extra[k].version = disk /\ extra[k].at = cursor + k - 1,
         buffer' = buffer \o extra, cursor' = cursor + n
  PROVE  /\ buffer' \in Seq(Byte) /\ cursor' \in Nat /\ Filling(start, length)'
         /\ buffer' # <<>>
<1>1. /\ Len(buffer) \in Nat /\ n \in Nat \ {0} /\ n + Len(buffer) <= length
      /\ Length[disk] \in Nat /\ DOMAIN buffer = 1..Len(buffer)
  BY LenProperties, ObjectAssumption
<1>2. PICK old : old = buffer
  OBVIOUS
<1>3. /\ buffer' \in Seq(Byte) /\ Len(buffer') = Len(buffer) + n
      /\ DOMAIN buffer' = 1..(Len(buffer) + n)
      /\ \A j \in 1..Len(buffer) : buffer'[j] = buffer[j]
      /\ \A k \in 1..n : buffer'[Len(buffer) + k] = extra[k]
  <2>1. old \in Seq(Byte) /\ n \in Nat /\ buffer' = old \o extra
    BY <1>1, <1>2
  <2>2. /\ old \o extra \in Seq(Byte) /\ Len(old \o extra) = Len(old) + n
        /\ DOMAIN (old \o extra) = 1..(Len(old) + n)
        /\ \A j \in 1..Len(old) : (old \o extra)[j] = old[j]
        /\ \A k \in 1..n : (old \o extra)[Len(old) + k] = extra[k]
    BY <2>1, MoreBytes
  <2>. QED
    BY <1>2, <2>1, <2>2
<1>4. /\ cursor = start + Len(buffer) /\ cursor' = start + Len(buffer')
      /\ Len(buffer') <= length
  BY <1>1, <1>3 DEF Filling
<1>5. ASSUME NEW j \in DOMAIN buffer'
      PROVE  buffer'[j].at = start + j - 1 /\ buffer'[j].at < Length[buffer'[j].version]
  <2>1. CASE j \in 1..Len(buffer)
    BY <1>1, <1>3, <2>1 DEF Filling
  <2>2. ASSUME NEW k \in 1..n, j = Len(buffer) + k
        PROVE  buffer'[j].at = start + j - 1 /\ buffer'[j].at < Length[buffer'[j].version]
    <3>1. buffer'[j].version = disk /\ buffer'[j].at = cursor + k - 1
      BY <1>3, <2>2
    <3>2. cursor + k - 1 = start + j - 1 /\ cursor + k - 1 < Length[disk]
      BY <1>1, <1>4, <2>2
    <3>. QED
      BY <3>1, <3>2
  <2>3. \/ j \in 1..Len(buffer)
        \/ \E k \in 1..n : j = Len(buffer) + k
    <3>1. j \in 1..(Len(buffer) + n)
      BY <1>3
    <3>2. CASE ~(j <= Len(buffer))
      <4>1. j - Len(buffer) \in 1..n /\ j = Len(buffer) + (j - Len(buffer))
        BY <1>1, <3>1, <3>2
      <4>. QED
        BY <4>1
    <3>. QED
      BY <1>1, <3>1, <3>2
  <2>. QED
    BY <2>1, <2>2, <2>3
<1>6. buffer' # <<>> /\ cursor' \in Nat
  BY <1>1, <1>3
<1>. QED
  BY <1>1, <1>3, <1>4, <1>5, <1>6 DEF Filling

(* What ReadSome does to them.                                             *)
LEMMA SomeRead ==
  ASSUME NEW start \in Nat, NEW length \in Nat, Filling(start, length),
         disk \in Versions, buffer \in Seq(Byte), cursor \in Nat,
         NEW n \in 1..(length - Len(buffer)), cursor + n <= Length[disk],
         buffer' = buffer \o [k \in 1..n |-> [version |-> disk, at |-> cursor + k - 1]],
         cursor' = cursor + n
  PROVE  /\ buffer' \in Seq(Byte) /\ cursor' \in Nat /\ Filling(start, length)'
         /\ buffer' # <<>>
<1>1. n \in Nat \ {0}
  BY LenProperties
<1>2. PICK extra : extra = [k \in 1..n |-> [version |-> disk, at |-> cursor + k - 1]]
  OBVIOUS
<1>3. \A k \in 1..n : [version |-> disk, at |-> cursor + k - 1] \in Byte
  BY <1>1 DEF Byte
<1>4. extra \in [1..n -> Byte]
  BY <1>2, <1>3
<1>5. \A k \in 1..n : extra[k].version = disk /\ extra[k].at = cursor + k - 1
  BY <1>2
<1>6. buffer' = buffer \o extra
  BY <1>2
<1>. QED
  BY <1>4, <1>5, <1>6, FillingGoesOn

(* A call that goes on to its next part, or to its end, has its rows in    *)
(* full, and the handle where the part begins.                             *)
LEMMA TurnKeeps ==
  ASSUME ReaderInv, stage \in {"open", "reading"},
         NEW list \in Seq(Part \cup {None}), NEW done \in Seq(Seq(Byte)),
         Len(done) <= Len(list), InFull(list, done), Turn(list, done),
         UNCHANGED <<disk, size, want, seen>>
  PROVE  ReaderInv'
<1>. DEFINE part == list[Len(done) + 1]
<1>1. /\ Len(list) \in Nat /\ Len(done) \in Nat /\ size \in Nat
      /\ <<>> \in Seq(Byte) /\ Len(<<>>) = 0
  BY LenProperties, EmptySeq DEF ReaderInv, TypeOK
<1>2. asked' = list /\ rows' = done /\ buffer' = <<>> /\ size' = size /\ disk' = disk
  BY DEF Turn
<1>3. stage' \in {"open", "reading"}
  BY DEF Turn
<1>4. InFull(asked, rows)'
  BY <1>2 DEF InFull
<1>5. RowsInFull'
  BY <1>2, <1>4 DEF RowsInFull
<1>6. answer' = None \/ (answer' = done /\ Len(done) = Len(list))
  BY DEF Turn
<1>7. WholeTensors'
  BY <1>2, <1>4, <1>6 DEF WholeTensors, InFull
<1>8. ASSUME stage' = "reading"
      PROVE  /\ Len(done) < Len(list) /\ part \in Part
             /\ part.at + part.length <= size /\ cursor' = part.at
  <2>1. /\ Len(done) # Len(list) /\ part # None
        /\ part.at + part.length <= size /\ cursor' = part.at
    BY <1>8 DEF Turn
  <2>2. Len(done) + 1 \in 1..Len(list)
    BY <1>1, <2>1
  <2>3. part \in Part \cup {None}
    BY <2>2, ElementOfSeq
  <2>. QED
    BY <1>1, <2>1, <2>3
<1>9. cursor' \in Nat
  BY <1>3, <1>8 DEF Turn, ReaderInv, TypeOK, Part
<1>10. PartFilling'
  <2>. SUFFICES ASSUME stage' = "reading"
                PROVE  /\ part # None /\ part.at + part.length <= size
                       /\ Filling(part.at, part.length)'
    BY <1>2 DEF PartFilling
  <2>1. part \in Part /\ part.at + part.length <= size /\ cursor' = part.at /\ part # None
    BY <1>8 DEF Turn
  <2>2. part.at \in Nat /\ part.length \in Nat
    BY <2>1 DEF Part
  <2>3. /\ cursor' = part.at + Len(buffer') /\ Len(buffer') <= part.length
        /\ DOMAIN buffer' = {}
    BY <1>1, <1>2, <2>1, <2>2
  <2>. QED
    BY <2>1, <2>3 DEF Filling
<1>11. TypeOK'
  <2>1. stage' = "reading" => Len(rows') < Len(asked') /\ Wanted' <= size'
    <3>. SUFFICES ASSUME stage' = "reading"
                  PROVE  Len(done) < Len(list) /\ part.length <= size
      BY <1>2 DEF Wanted
    <3>. QED
      BY <1>1, <1>8 DEF Part
  <2>. QED
    BY <1>1, <1>2, <1>3, <1>6, <1>9, <2>1 DEF ReaderInv, TypeOK
<1>. QED
  BY <1>2, <1>3, <1>5, <1>7, <1>10, <1>11
  DEF ReaderInv, PrefixInside, PrefixFilling, NotOpened, RefusedForCause

(* The list a call is for: one tensor, or rows of one.                     *)
LEMMA CallKeeps ==
  ASSUME ReaderInv, Call
  PROVE  ReaderInv'
<1>1. /\ <<>> \in Seq(Seq(Byte)) /\ Len(<<>>) = 0
      /\ \A list : InFull(list, <<>>)
  BY EmptySeq DEF InFull
<1>2. PICK v \in Versions : \E t \in Table[v] :
        \/ tensor_bytes(t)
        \/ \E length \in {n \in 1..t.length : t.length % n = 0}, count \in 0..MaxRows :
           \E list \in [1..count -> 0..(t.length \div length)] : rows_f32(t, length, list)
  BY DEF Call
<1>3. PICK t \in Table[v] :
        \/ tensor_bytes(t)
        \/ \E length \in {n \in 1..t.length : t.length % n = 0}, count \in 0..MaxRows :
           \E list \in [1..count -> 0..(t.length \div length)] : rows_f32(t, length, list)
  BY <1>2
<1>6. t \in Part
  BY HeaderAssumption DEF Part
<1>4. CASE tensor_bytes(t)
  <2>1. <<t>> \in Seq(Part \cup {None}) /\ Len(<<t>>) = 1
    BY <1>6
  <2>2. stage = "open" /\ Turn(<<t>>, <<>>) /\ UNCHANGED <<disk, size, want, seen>>
    BY <1>4 DEF tensor_bytes
  <2>3. PICK parts : parts = <<t>>
    OBVIOUS
  <2>4. /\ parts \in Seq(Part \cup {None}) /\ Len(parts) = 1 /\ InFull(parts, <<>>)
        /\ Turn(parts, <<>>)
    BY <1>1, <2>1, <2>2, <2>3
  <2>5. Len(<<>>) <= Len(parts)
    BY <1>1, <2>4
  <2>. QED
    BY <1>1, <2>2, <2>4, <2>5, TurnKeeps
<1>5. ASSUME NEW length \in {n \in 1..t.length : t.length % n = 0}, NEW count \in 0..MaxRows,
             NEW list \in [1..count -> 0..(t.length \div length)], rows_f32(t, length, list)
      PROVE  ReaderInv'
  <2>. DEFINE parts == [k \in DOMAIN list |-> RowOf(t, length, list[k])]
  <2>1. length \in Nat \ {0} /\ t.at \in Nat /\ t.length \in Nat /\ count \in Nat
    BY <1>6, ListAssumption DEF Part
  <2>2. ASSUME NEW row \in Nat PROVE RowOf(t, length, row) \in Part \cup {None}
    <3>1. row * length \in Nat
      BY <2>1
    <3>2. t.at + row * length \in Nat
      BY <2>1, <3>1
    <3>. QED
      BY <2>1, <3>2 DEF RowOf, Part
  <2>3. \A k \in 1..count : list[k] \in Nat
    <3>1. \A k \in 1..count : list[k] \in 0..(t.length \div length)
      OBVIOUS
    <3>2. t.length \div length \in Int
      BY <2>1
    <3>. QED
      BY <3>1, <3>2
  <2>4. parts \in [1..count -> Part \cup {None}]
    BY <2>2, <2>3
  <2>5. parts \in Seq(Part \cup {None})
    BY <2>1, <2>4, SeqDef
  <2>6. Len(parts) \in Nat
    BY <2>5, LenProperties
  <2>7. stage = "open" /\ Turn(parts, <<>>) /\ UNCHANGED <<disk, size, want, seen>>
    BY <1>5 DEF rows_f32
  <2>. HIDE DEF parts
  <2>8. PICK wanted : wanted = parts
    OBVIOUS
  <2>9. /\ wanted \in Seq(Part \cup {None}) /\ Len(<<>>) <= Len(wanted)
        /\ InFull(wanted, <<>>) /\ Turn(wanted, <<>>)
    BY <1>1, <2>5, <2>6, <2>7, <2>8
  <2>. QED
    BY <1>1, <2>7, <2>9, TurnKeeps
<1>. QED
  BY <1>3, <1>4, <1>5

(* A part that has arrived joins the rows of its call.                     *)
LEMMA PartKeeps ==
  ASSUME ReaderInv, PartArrives
  PROVE  ReaderInv'
<1>. DEFINE done == Append(rows, buffer)
            part == asked[Len(rows) + 1]
<1>1. /\ stage = "reading" /\ Len(buffer) = Wanted
      /\ Turn(asked, done) /\ UNCHANGED <<disk, size, want, seen>>
  BY DEF PartArrives
<1>2. /\ rows \in Seq(Seq(Byte)) /\ buffer \in Seq(Byte) /\ asked \in Seq(Part \cup {None})
      /\ Len(rows) < Len(asked) /\ Len(rows) \in Nat /\ Len(asked) \in Nat
      /\ DOMAIN rows = 1..Len(rows) /\ size \in Nat
  BY <1>1, LenProperties DEF ReaderInv, TypeOK
<1>3. /\ done \in Seq(Seq(Byte)) /\ Len(done) = Len(rows) + 1
      /\ \A k \in 1..Len(rows) : done[k] = rows[k]
      /\ done[Len(rows) + 1] = buffer
      /\ DOMAIN done = 1..(Len(rows) + 1)
  BY <1>2, AppendProperties, LenProperties
<1>4. /\ part # None /\ part.at + part.length <= size
      /\ Filling(part.at, part.length) /\ Len(buffer) = part.length
  BY <1>1 DEF ReaderInv, PartFilling, Wanted
<1>5. part.at \in Nat /\ part.length \in Nat
  <2>1. part \in Part \cup {None}
    BY <1>2, ElementOfSeq
  <2>. QED
    BY <1>4, <2>1 DEF Part
<1>6. ASSUME NEW j \in DOMAIN buffer
      PROVE  /\ buffer[j].at = part.at + j - 1
             /\ buffer[j].at < Lesser(size, Length[buffer[j].version])
  <2>1. j \in Nat /\ j <= part.length
    BY <1>2, <1>4, LenProperties
  <2>. QED
    BY <1>2, <1>4, <1>5, <1>6, <2>1 DEF Filling, Lesser
<1>. HIDE DEF done
<1>7. InFull(asked, done)
  <2>. SUFFICES ASSUME NEW k \in DOMAIN done
                PROVE  /\ asked[k] # None /\ Len(done[k]) = asked[k].length
                       /\ \A j \in DOMAIN done[k] :
                            /\ done[k][j].at = asked[k].at + j - 1
                            /\ done[k][j].at < Lesser(size, Length[done[k][j].version])
    BY DEF InFull
  <2>1. CASE k \in 1..Len(rows)
    <3>1. done[k] = rows[k] /\ k \in DOMAIN rows
      BY <1>2, <1>3, <2>1
    <3>. QED
      BY <3>1 DEF ReaderInv, RowsInFull, InFull
  <2>2. CASE k = Len(rows) + 1
    BY <1>3, <1>4, <1>6, <2>2
  <2>. QED
    BY <1>2, <1>3, <2>1, <2>2
<1>8. PICK list, more : list = asked /\ more = done
  OBVIOUS
<1>9. /\ list \in Seq(Part \cup {None}) /\ more \in Seq(Seq(Byte))
      /\ Len(more) <= Len(list) /\ InFull(list, more)
  BY <1>2, <1>3, <1>7, <1>8
<1>10. Turn(list, more)
  BY <1>1, <1>8
<1>. QED
  BY <1>1, <1>9, <1>10, TurnKeeps

(* A prefix that is there came from versions of the file.                  *)
LEMMA SeenTyped ==
  ASSUME ReaderInv, PrefixRead
  PROVE  seen' \subseteq Versions /\ <<>> \in Seq(Byte)
<1>1. buffer \in Seq(Byte)
  BY DEF ReaderInv, TypeOK
<1>2. \A k \in DOMAIN buffer : buffer[k] \in Byte
  BY <1>1, LenProperties, ElementOfSeq
<1>. QED
  BY <1>2, EmptySeq DEF PrefixRead, Byte

(* Every step of the reader, and of whoever writes the file, keeps it.     *)
LEMMA ReaderStep == ReaderInv /\ [Next]_vars => ReaderInv'
<1>. SUFFICES ASSUME ReaderInv, [Next]_vars PROVE ReaderInv'
  OBVIOUS
<1>0. /\ Length[disk] \in Nat
      /\ First \in Nat \ {0} /\ Largest \in Nat /\ First <= Largest
      /\ want \in Nat /\ size \in Nat
  BY ObjectAssumption, HeaderAssumption DEF ReaderInv, TypeOK
<1>1. ASSUME UNCHANGED <<size, want, seen, asked, rows, answer>>,
             UNCHANGED <<stage, buffer, cursor>>, disk' \in Versions
      PROVE  ReaderInv'
  BY <1>1
  DEF ReaderInv, TypeOK, PrefixInside, PrefixFilling, PartFilling, Filling, Wanted,
      RowsInFull, NotOpened, RefusedForCause, WholeTensors, InFull
<1>2. CASE ReadSome
  <2>1. /\ stage \in {"opening", "reading"}
        /\ UNCHANGED <<disk, stage, size, want, seen, asked, rows, answer>>
    BY <1>2 DEF ReadSome, call
  <2>2. PICK start \in Nat, length \in Nat :
          /\ length = Wanted /\ Filling(start, length)
          /\ stage = "opening" => start = 0 /\ length = want
          /\ stage = "reading" => /\ start = asked[Len(rows) + 1].at
                                  /\ length = asked[Len(rows) + 1].length
    <3>1. CASE stage = "opening"
      BY <1>0, <3>1 DEF ReaderInv, PrefixFilling, Wanted
    <3>2. CASE stage = "reading"
      <4>. DEFINE part == asked[Len(rows) + 1]
      <4>1. part \in Part \cup {None}
        BY <3>2, LenProperties, ElementOfSeq DEF ReaderInv, TypeOK
      <4>2. part # None /\ Filling(part.at, part.length)
        BY <3>2 DEF ReaderInv, PartFilling
      <4>3. part.at \in Nat /\ part.length \in Nat
        BY <4>1, <4>2 DEF Part
      <4>4. part.length = Wanted
        BY <3>2 DEF Wanted
      <4>. QED
        BY <3>2, <4>2, <4>3, <4>4
    <3>. QED
      BY <2>1, <3>1, <3>2
  <2>3. buffer' \in Seq(Byte) /\ cursor' \in Nat /\ Filling(start, length)'
    <3>1. /\ disk \in Versions /\ buffer \in Seq(Byte) /\ cursor \in Nat
          /\ Len(buffer) \in Nat
      BY LenProperties DEF ReaderInv, TypeOK
    <3>2. PICK n \in 1..(length - Len(buffer)) :
            /\ cursor + n <= Length[disk] /\ cursor' = cursor + n
            /\ buffer' = buffer \o [k \in 1..n |-> [version |-> disk, at |-> cursor + k - 1]]
      BY <1>2, <2>2 DEF ReadSome
    <3>. QED
      BY <2>2, <3>1, <3>2, SomeRead
  <2>4. PrefixFilling' /\ PartFilling'
    BY <2>1, <2>2, <2>3 DEF ReaderInv, PrefixFilling, PartFilling, Filling
  <2>. QED
    BY <2>1, <2>3, <2>4
    DEF ReaderInv, TypeOK, PrefixInside, Wanted, RowsInFull, NotOpened,
        RefusedForCause, WholeTensors, InFull
<1>3. CASE Open
  <2>1. /\ asked = <<>> /\ rows = <<>> /\ buffer = <<>> /\ answer = None
        /\ UNCHANGED <<disk, seen, asked, rows, answer, buffer>>
    BY <1>3 DEF ReaderInv, NotOpened, Open, call
  <2>2. want' \in 0..Largest /\ size' \in Nat /\ PrefixInside'
    BY <1>0, <1>3 DEF Open, PrefixInside, Lesser
  <2>3. stage' = "opening" /\ cursor' = 0
    BY <1>3 DEF Open
  <2>4. Len(<<>>) = 0 /\ DOMAIN <<>> = {}
    OBVIOUS
  <2>5. Filling(0, want)'
    BY <2>1, <2>2, <2>3, <2>4 DEF Filling
  <2>6. RowsInFull'
    BY <2>1, <2>4 DEF RowsInFull, InFull
  <2>. QED
    BY <2>1, <2>2, <2>3, <2>5, <2>6
    DEF ReaderInv, TypeOK, PrefixFilling, PartFilling, NotOpened, RefusedForCause, WholeTensors
<1>4. CASE PrefixUnreadable
  BY <1>4
  DEF PrefixUnreadable, call, ReaderInv, TypeOK, PrefixInside, PrefixFilling, PartFilling,
      RowsInFull, NotOpened, RefusedForCause, WholeTensors, InFull
<1>5. CASE PrefixParses
  BY <1>5, SeenTyped
  DEF PrefixParses, PrefixRead, call, ReaderInv, TypeOK, PrefixInside, PrefixFilling,
      PartFilling, RowsInFull, NotOpened, RefusedForCause, WholeTensors, InFull
<1>6. CASE PrefixRefused
  <2>1. PrefixRead /\ stage = "opening" /\ stage' = "unreadable" /\ UNCHANGED <<cursor, want, size>>
    BY <1>6 DEF PrefixRefused, PrefixRead
  <2>2. RefusedForCause'
    <3>. SUFFICES ASSUME NEW v \in Versions, seen' = {v}
                  PROVE  Parse(v, Lesser(Largest, size)) # "parsed"
      BY <2>1 DEF RefusedForCause
    <3>1. Verdicts(seen') = {Parse(v, want)}
      BY DEF Verdicts
    <3>2. Parse(v, want) # "parsed" /\ GivesUp(Parse(v, want))
      BY <1>6, <3>1 DEF PrefixRefused
    <3>3. want >= 1 /\ want <= Largest /\ (want <= size \/ (size = 0 /\ want = 1))
      BY <2>1, <1>0 DEF ReaderInv, TypeOK, PrefixInside
    <3>. QED
      BY <1>0, <3>2, <3>3, RefusalIsFinal DEF GivesUp
  <2>. QED
    BY <2>1, <2>2, SeenTyped
    DEF PrefixRead, call, ReaderInv, TypeOK, PrefixInside, PrefixFilling,
        PartFilling, RowsInFull, NotOpened, WholeTensors, InFull
<1>7. CASE PrefixGrows
  <2>1. /\ PrefixRead /\ stage = "opening" /\ stage' = "opening" /\ cursor' = 0
        /\ buffer' = <<>> /\ want' = Grown(want, size)
        /\ UNCHANGED <<disk, size, asked, rows, answer>>
    BY <1>7 DEF PrefixGrows, PrefixRead, call
  <2>2. want \in Nat \ {0} /\ want < size /\ want < Largest
    BY <1>0, <1>7, <2>1 DEF PrefixGrows, GivesUp, ReaderInv, PrefixInside
  <2>3. want' \in Nat /\ want' > want /\ want' <= size /\ want' <= Largest
    BY <1>0, <2>1, <2>2, GrownGrows
  <2>4. PrefixInside'
    BY <2>1, <2>2, <2>3 DEF PrefixInside
  <2>5. Filling(0, want)'
    <3>1. Len(<<>>) = 0 /\ DOMAIN <<>> = {}
      OBVIOUS
    <3>. QED
      BY <2>1, <2>3, <3>1 DEF Filling
  <2>. QED
    BY <1>0, <2>1, <2>3, <2>4, <2>5, SeenTyped
    DEF ReaderInv, TypeOK, PrefixFilling, PartFilling, RowsInFull, NotOpened,
        RefusedForCause, WholeTensors, InFull
<1>8. CASE PartFails
  BY <1>8
  DEF PartFails, call, ReaderInv, TypeOK, PrefixInside, PrefixFilling, PartFilling,
      RowsInFull, NotOpened, RefusedForCause, WholeTensors, InFull
<1>9. CASE Rewrite
  <2>1. disk' \in Versions /\ UNCHANGED <<cursor, stage, size, want, seen, buffer, asked, rows, answer>>
    BY <1>9 DEF Rewrite, call
  <2>. QED
    BY <1>1, <2>1
<1>10. CASE UNCHANGED vars
  <2>1. disk' \in Versions /\ UNCHANGED <<cursor, stage, size, want, seen, buffer, asked, rows, answer>>
    BY <1>10 DEF vars, ReaderInv, TypeOK
  <2>. QED
    BY <1>1, <2>1
<1>. QED
  BY <1>2, <1>3, <1>4, <1>5, <1>6, <1>7, <1>8, <1>9, <1>10, CallKeeps, PartKeeps DEF Next

(* Every state of a reader satisfies the invariant.                        *)
THEOREM ReaderInvariant == Spec => []ReaderInv
  BY ReaderInit, ReaderStep, PTL DEF Spec

(* Every variable of the reader keeps its type.                            *)
THEOREM ReaderTypeCorrect == Spec => []TypeOK
<1>1. ReaderInv => TypeOK
  BY DEF ReaderInv
<1>. QED
  BY <1>1, ReaderInvariant, PTL

(* No prefix exceeds the file as it was measured.                          *)
THEOREM PrefixBoundedHolds == Spec => []PrefixBounded
<1>1. ReaderInv => PrefixBounded
  BY DEF ReaderInv, TypeOK, PrefixInside, PrefixBounded
<1>. QED
  BY <1>1, ReaderInvariant, PTL

(* A file is refused only when no permitted prefix of it would parse.      *)
THEOREM RefusedForCauseHolds == Spec => []RefusedForCause
<1>1. ReaderInv => RefusedForCause
  BY DEF ReaderInv
<1>. QED
  BY <1>1, ReaderInvariant, PTL

(* A call answers with all of its rows, every byte of them the file's at   *)
(* its place, whatever was written between two reads of one row and        *)
(* wherever a call that failed left the handle.                            *)
THEOREM WholeTensorsHolds == Spec => []WholeTensors
<1>1. ReaderInv => WholeTensors
  BY DEF ReaderInv
<1>. QED
  BY <1>1, ReaderInvariant, PTL

(* The loop of open() never drops a prefix for one as short: it ends, or   *)
(* grows.                                                                  *)
THEOREM PrefixGrowsOrEndsHolds == Spec => PrefixGrowsOrEnds
<1>1. ASSUME ReaderInv, [Next]_vars
      PROVE  [stage = "opening" /\ stage' = "opening" /\ buffer # <<>> /\ buffer' = <<>>
                => want' > want]_vars
  <2>. SUFFICES ASSUME Next, stage = "opening", stage' = "opening",
                       buffer # <<>>, buffer' = <<>>
                PROVE  want' > want
    BY <1>1 DEF vars
  <2>1. CASE PrefixGrows
    <3>1. want \in Nat \ {0} /\ size \in Nat /\ want < size /\ want < Largest
      BY <1>1, <2>1, HeaderAssumption
      DEF ReaderInv, PrefixGrows, GivesUp, TypeOK, PrefixInside
    <3>. QED
      BY <2>1, <3>1, GrownGrows DEF PrefixGrows
  <2>2. ~ReadSome
    <3>. SUFFICES ASSUME ReadSome PROVE FALSE
      OBVIOUS
    <3>1. PICK n \in 1..(Wanted - Len(buffer)) :
            /\ cursor + n <= Length[disk] /\ cursor' = cursor + n
            /\ buffer' = buffer \o [k \in 1..n |-> [version |-> disk, at |-> cursor + k - 1]]
      BY DEF ReadSome
    <3>2. /\ disk \in Versions /\ buffer \in Seq(Byte) /\ cursor \in Nat /\ want \in Nat
          /\ Filling(0, want) /\ Wanted = want /\ Len(buffer) \in Nat
      BY <1>1, HeaderAssumption, LenProperties DEF ReaderInv, TypeOK, PrefixFilling, Wanted
    <3>3. buffer' # <<>>
      BY <3>1, <3>2, SomeRead
    <3>. QED
      BY <3>3
  <2>3. ~Call
    BY DEF Call, tensor_bytes, rows_f32
  <2>. QED
    BY <2>1, <2>2, <2>3
    DEF Next, Rewrite, Open, PrefixUnreadable, PrefixParses, PrefixRefused,
        PartArrives, PartFails
<1>. QED
  BY <1>1, ReaderInvariant, PTL DEF Spec, PrefixGrowsOrEnds
=============================================================================
