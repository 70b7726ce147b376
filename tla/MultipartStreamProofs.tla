------------------------ MODULE MultipartStreamProofs ------------------------
(***************************************************************************)
(* What goes through the receiving window, for every file size, chunk size, *)
(* number of slots and set of writers: the driver reads the file, byte by   *)
(* byte and from accepted bodies only, and the window is the chunk stream   *)
(* that the session relies on.                                              *)
(*                                                                         *)
(* WindowInv says who uses which slot; ContentInv says what is in it.       *)
(***************************************************************************)
EXTENDS MultipartWindowProofs, FiniteSetTheorems

-----------------------------------------------------------------------------
(* The inductive invariant                                                  *)

\* The first n bytes of chunk i, from a body of version v, are in its slot.
Holds(r, i, v, n) ==
    \A k \in 0 .. n - 1 : r[Slot(i) * ChunkSize + k] = [pos |-> i * ChunkSize + k, ver |-> v]

\* A slot holds what its writer has written so far, all of the accepted body
\* when the chunk is buffered, and still so while Read copies from it.
BodiesInRing ==
    /\ \A w \in Writers : wpc[w] = "fill" => Holds(ring, widx[w], wver[w], filled[w])
    /\ \A i \in Chunks : Buffered(i) => Holds(ring, i, crcs[i], ChunkLen(i))
    /\ rpc = "reading" => Holds(ring, Current, crcs[Current], ChunkLen(Current))
    /\ rpc = "got" => \A k \in 1 .. Len(got) : got[k] = [pos |-> readPos + k - 1, ver |-> crcs[Current]]

\* A CRC is on record exactly for the chunks that are buffered or consumed, and
\* it stays when the window is closed.
RecordsMatch ==
    /\ \A i \in Chunks : Buffered(i) => crcs[i] # NoVersion
    /\ \A i \in Chunks : i * ChunkSize < readPos => crcs[i] # NoVersion
    /\ err = "none" => \A i \in Chunks : crcs[i] # NoVersion => Consumed(i) \/ Buffered(i)
    /\ rpc \in {"reading", "got"} => crcs[Current] # NoVersion

\* A CRC that was returned is the one on record.
AnswersMatch ==
    \A w \in Writers : reply[w] \in Versions \cup {NoVersion} =>
        widx[w] \in Chunks /\ reply[w] # NoVersion /\ crcs[widx[w]] = reply[w]

ContentInv == BodiesInRing /\ RecordsMatch /\ StreamIntact /\ AnswersMatch

-----------------------------------------------------------------------------
(* The ring                                                                 *)

\* Bytes of different slots are different bytes of the ring file.
LEMMA PlacesApart ==
    ASSUME NEW a \in SlotIds, NEW b \in SlotIds, a # b,
           NEW x \in 0 .. ChunkSize - 1, NEW y \in 0 .. ChunkSize - 1
    PROVE  a * ChunkSize + x # b * ChunkSize + y
<1> USE WindowAssumption
<1>1. a \in Nat /\ b \in Nat
  BY DEF SlotIds
<1>2. a * ChunkSize \in Nat /\ b * ChunkSize \in Nat
  BY <1>1
<1>3. CASE a < b
  <2>1. a * ChunkSize + ChunkSize <= b * ChunkSize
    BY <1>1, <1>3, MulStep, ChunkSize \in Nat
  <2> QED BY <1>2, <2>1
<1>4. CASE b < a
  <2>1. b * ChunkSize + ChunkSize <= a * ChunkSize
    BY <1>1, <1>4, MulStep, ChunkSize \in Nat
  <2> QED BY <1>2, <2>1
<1> QED BY <1>1, <1>3, <1>4

\* The byte a fill writes.
LEMMA WritePlace ==
    ASSUME TypeOK, CallsInBounds, NEW w \in Writers, WriteByte(w)
    PROVE  /\ widx[w] \in Chunks /\ Slot(widx[w]) \in SlotIds
           /\ filled[w] \in 0 .. ChunkSize - 1
           /\ filled' = [filled EXCEPT ![w] = filled[w] + 1]
           /\ \A o \in 0 .. Slots * ChunkSize - 1 :
                 ring'[o] = IF o = Slot(widx[w]) * ChunkSize + filled[w]
                               THEN [pos |-> widx[w] * ChunkSize + filled[w], ver |-> wver[w]]
                               ELSE ring[o]
<1> USE WindowAssumption
<1>1. widx[w] \in Chunks /\ filled[w] \in Nat /\ filled[w] < ChunkLen(widx[w])
  BY DEF WriteByte, CallsInBounds, TypeOK
<1>2. ChunkLen(widx[w]) \in 1 .. ChunkSize /\ Slot(widx[w]) \in SlotIds
  BY <1>1, ChunkGeometry
<1>3. filled[w] \in 0 .. ChunkSize - 1
  BY <1>1, <1>2
<1>4. DOMAIN ring = 0 .. Slots * ChunkSize - 1
  BY DEF TypeOK
<1> QED BY <1>1, <1>2, <1>3, <1>4 DEF WriteByte

\* A fill leaves the other slots alone.
LEMMA WriteElsewhere ==
    ASSUME TypeOK, CallsInBounds, NEW w \in Writers, WriteByte(w),
           NEW i \in Chunks, Slot(i) # Slot(widx[w]),
           NEW v, NEW n \in 0 .. ChunkSize, Holds(ring, i, v, n)
    PROVE  Holds(ring', i, v, n)
<1> USE WindowAssumption
<1>1. Slot(i) \in SlotIds /\ Slot(widx[w]) \in SlotIds /\ filled[w] \in 0 .. ChunkSize - 1
  BY WritePlace, ChunkGeometry
<1>2. ASSUME NEW k \in 0 .. n - 1
      PROVE  ring'[Slot(i) * ChunkSize + k] = ring[Slot(i) * ChunkSize + k]
  <2>1. k \in 0 .. ChunkSize - 1
    OBVIOUS
  <2>2. Slot(i) * ChunkSize + k \in 0 .. Slots * ChunkSize - 1
    BY <2>1, RingPlace
  <2>3. Slot(i) * ChunkSize + k # Slot(widx[w]) * ChunkSize + filled[w]
    BY <1>1, <2>1, PlacesApart
  <2> QED BY <2>2, <2>3, WritePlace
<1> QED BY <1>2 DEF Holds

\* A fill extends what is in its own slot.
LEMMA WriteHere ==
    ASSUME TypeOK, CallsInBounds, NEW w \in Writers, WriteByte(w),
           Holds(ring, widx[w], wver[w], filled[w])
    PROVE  Holds(ring', widx[w], wver[w], filled[w] + 1)
<1> USE WindowAssumption
<1> DEFINE i == widx[w]
           base == Slot(i) * ChunkSize
<1>1. i \in Chunks /\ filled[w] \in 0 .. ChunkSize - 1 /\ base \in Nat
  <2>1. i \in Chunks /\ Slot(i) \in SlotIds /\ filled[w] \in 0 .. ChunkSize - 1
    BY WritePlace
  <2> QED BY <2>1 DEF SlotIds
<1>2. ASSUME NEW k \in 0 .. filled[w]
      PROVE  ring'[base + k] = [pos |-> i * ChunkSize + k, ver |-> wver[w]]
  <2>1. k \in 0 .. ChunkSize - 1
    BY <1>1
  <2>2. base + k \in 0 .. Slots * ChunkSize - 1
    BY <1>1, <2>1, RingPlace
  <2>3. CASE k = filled[w]
    BY <2>2, <2>3, WritePlace
  <2>4. CASE k # filled[w]
    <3>1. k \in 0 .. filled[w] - 1
      BY <1>1, <2>4
    <3>2. ring[base + k] = [pos |-> i * ChunkSize + k, ver |-> wver[w]]
      BY <3>1 DEF Holds
    <3>3. base + k # base + filled[w]
      BY <1>1, <2>1, <2>4
    <3>4. ring'[base + k] = ring[base + k]
      BY <2>2, <3>3, WritePlace
    <3> QED BY <3>2, <3>4
  <2> QED BY <2>3, <2>4
<1>3. 0 .. (filled[w] + 1) - 1 = 0 .. filled[w]
  BY <1>1
<1> QED BY <1>2, <1>3 DEF Holds

-----------------------------------------------------------------------------
(* The steps                                                                *)

\* Steps that change no slot, no byte and no record.
Quiet ==
    /\ UNCHANGED <<slotVars, readPos, crcs, err, ring, delivered>>
    /\ \A w \in Writers : wpc'[w] = "fill" =>
          wpc[w] = "fill" /\ widx'[w] = widx[w] /\ wver'[w] = wver[w] /\ filled'[w] = filled[w]
    /\ rpc' \in {"reading", "got"} => rpc' = rpc /\ got' = got

LEMMA ReturnQuiet ==
    ASSUME WindowInv, NEW w \in Writers,
           \/ RejectClosed(w) \/ RejectIndex(w) \/ Absorb(w) \/ RejectInFlight(w)
           \/ RejectOutOfWindow(w) \/ SlotLost(w)
    PROVE  Quiet
<1> USE DEF Quiet, slotVars, writerVars, readerVars
<1>1. Leaves(w)
  BY ReturnLeaves
<1>2. UNCHANGED <<crcs, ring, delivered, rpc, got>>
  BY DEF RejectClosed, RejectIndex, Absorb, RejectInFlight, RejectOutOfWindow, SlotLost
<1>3. \A v \in Writers : wpc'[v] = "fill" => v # w /\ wpc[v] = "fill" /\ filled'[v] = filled[v]
  BY <1>1 DEF Leaves, WindowInv, TypeOK
<1> QED BY <1>1, <1>2, <1>3 DEF Leaves

LEMMA ContentCases ==
    ASSUME WindowInv, [Next]_vars
    PROVE  \/ \E w \in Writers : Admit(w) \/ WriteByte(w) \/ Publish(w) \/ GiveUp(w)
           \/ ReadStart \/ ReadRing \/ ReadCommit
           \/ \E e \in Seals : Close(e)
           \/ Quiet
<1> USE DEF Quiet, slotVars, writerVars, readerVars, WindowInv, TypeOK
<1>1. ASSUME NEW w \in Writers, Call(w) PROVE Quiet
  BY <1>1 DEF Call
<1>2. ASSUME NEW w \in Writers, Park(w) \/ Deadline(w) \/ TimerFires(w) PROVE Quiet
  BY <1>2 DEF Park, Deadline, TimerFires
<1>3. CASE ReadCall \/ ReadClosed \/ ReadEOF \/ ReadPark \/ ReadFailed
  BY <1>3 DEF ReadCall, ReadClosed, ReadEOF, ReadPark, ReadFailed
<1>4. CASE CloseFile \/ RemoveFile \/ UNCHANGED vars
  BY <1>4 DEF CloseFile, RemoveFile, vars
<1> HIDE DEF Quiet, WindowInv, TypeOK
<1>5. ASSUME NEW w \in Writers,
             \/ RejectClosed(w) \/ RejectIndex(w) \/ Absorb(w) \/ RejectInFlight(w)
             \/ RejectOutOfWindow(w) \/ SlotLost(w)
      PROVE  Quiet
  BY <1>5, ReturnQuiet
<1> QED BY <1>1, <1>2, <1>3, <1>4, <1>5 DEF Next, Admission, ReadStep

-----------------------------------------------------------------------------
(* Records                                                                  *)

\* The chunk a writer fills has no CRC on record while the window is open.
LEMMA FillIsFresh ==
    ASSUME WindowInv, RecordsMatch, NEW w \in Writers, wpc[w] = "fill", err = "none"
    PROVE  /\ widx[w] \in Chunks /\ Slot(widx[w]) \in SlotIds
           /\ slotState[Slot(widx[w])] = "filling" /\ slotChunk[Slot(widx[w])] = widx[w]
           /\ ~Consumed(widx[w]) /\ ~Buffered(widx[w])
           /\ crcs[widx[w]] = NoVersion
<1> DEFINE i == widx[w]
<1>1. i \in Chunks /\ Slot(i) \in SlotIds
  BY ChunkGeometry DEF WindowInv, CallsInBounds
<1>2. slotState[Slot(i)] = "filling" /\ slotChunk[Slot(i)] = i
  BY DEF WindowInv, SlotsOwned, Owns
<1>3. ~Consumed(i)
  <2>1. i >= Frontier /\ i \in Nat /\ Frontier \in Nat
    BY <1>1, <1>2, HeldChunk
  <2>2. readPos \in 0 .. TotalSize
    BY DEF WindowInv, TypeOK
  <2>3. ~(i < Frontier)
    BY <2>1
  <2> QED BY <1>1, <2>2, <2>3, ConsumedIsBehind
<1>4. ~Buffered(i)
  BY <1>2 DEF Buffered
<1>5. crcs[i] = NoVersion
  BY <1>1, <1>3, <1>4 DEF RecordsMatch
<1> QED BY <1>1, <1>2, <1>3, <1>4, <1>5

\* What Publish changes.
LEMMA PublishRecord ==
    ASSUME WindowInv, RecordsMatch, NEW w \in Writers, Publish(w)
    PROVE  /\ err = "none" /\ wpc[w] = "fill" /\ widx[w] \in Chunks
           /\ crcs[widx[w]] = NoVersion /\ wver[w] \in Versions /\ wver[w] # NoVersion
           /\ \A i \in Chunks : crcs'[i] = IF i = widx[w] THEN wver[w] ELSE crcs[i]
           /\ \A i \in Chunks : Buffered(i)' <=> Buffered(i) \/ i = widx[w]
           /\ UNCHANGED <<readPos, err, ring, delivered, slotChunk, rpc, rcall, got>>
<1> USE WindowAssumption DEF slotVars, writerVars, readerVars
<1>1. err = "none" /\ wpc[w] = "fill"
  BY DEF Publish
<1>2. /\ widx[w] \in Chunks /\ Slot(widx[w]) \in SlotIds
      /\ slotState[Slot(widx[w])] = "filling" /\ slotChunk[Slot(widx[w])] = widx[w]
      /\ crcs[widx[w]] = NoVersion
  BY <1>1, FillIsFresh
<1>3. wver[w] \in Versions
  BY <1>1 DEF WindowInv, CallsInBounds
<1>4. \A i \in Chunks : crcs'[i] = IF i = widx[w] THEN wver[w] ELSE crcs[i]
  BY <1>2 DEF Publish, WindowInv, TypeOK
<1>5. ASSUME NEW i \in Chunks PROVE Buffered(i)' <=> Buffered(i) \/ i = widx[w]
  <2>1. Slot(i) \in SlotIds
    BY ChunkGeometry
  <2>2. /\ slotState'[Slot(i)] = IF Slot(i) = Slot(widx[w]) THEN "ready" ELSE slotState[Slot(i)]
        /\ slotChunk' = slotChunk
    BY <1>2, <2>1 DEF Publish, WindowInv, TypeOK
  <2>3. CASE Slot(i) = Slot(widx[w])
    BY <1>2, <2>2, <2>3 DEF Buffered
  <2>4. CASE Slot(i) # Slot(widx[w])
    BY <2>2, <2>4 DEF Buffered
  <2> QED BY <2>3, <2>4
<1>6. UNCHANGED <<readPos, err, ring, delivered, slotChunk, rpc, rcall, got>>
  BY DEF Publish
<1> QED BY <1>1, <1>2, <1>3, <1>4, <1>5, <1>6

\* A slot that is taken or given up did not hold a buffered chunk.
LEMMA AdmitRecord ==
    ASSUME WindowInv, NEW w \in Writers, Admit(w)
    PROVE  /\ \A i \in Chunks : Buffered(i)' <=> Buffered(i)
           /\ UNCHANGED <<readPos, crcs, err, ring, delivered, rpc, rcall, got>>
           /\ err = "none" /\ widx[w] \in Chunks /\ ~Consumed(widx[w]) /\ ~Buffered(widx[w])
<1> USE WindowAssumption DEF slotVars, writerVars, readerVars
<1>1. /\ widx[w] \in Chunks /\ Slot(widx[w]) \in SlotIds /\ slotState[Slot(widx[w])] = "free"
      /\ err = "none" /\ ~Consumed(widx[w])
  BY ChunkGeometry DEF Admit, InLoop, HasRoom
<1>2. ASSUME NEW i \in Chunks PROVE Buffered(i)' <=> Buffered(i)
  <2>1. Slot(i) \in SlotIds
    BY ChunkGeometry
  <2>2. CASE Slot(i) = Slot(widx[w])
    <3>1. slotState'[Slot(i)] = "filling"
      BY <1>1, <2>1, <2>2 DEF Admit, WindowInv, TypeOK
    <3> QED BY <1>1, <2>2, <3>1 DEF Buffered
  <2>3. CASE Slot(i) # Slot(widx[w])
    <3>1. slotState'[Slot(i)] = slotState[Slot(i)] /\ slotChunk'[Slot(i)] = slotChunk[Slot(i)]
      BY <1>1, <2>1, <2>3 DEF Admit, WindowInv, TypeOK
    <3> QED BY <3>1 DEF Buffered
  <2> QED BY <2>2, <2>3
<1>3. UNCHANGED <<readPos, crcs, err, ring, delivered, rpc, rcall, got>>
  BY DEF Admit
<1> QED BY <1>1, <1>2, <1>3 DEF Buffered

LEMMA GiveUpRecord ==
    ASSUME WindowInv, NEW w \in Writers, GiveUp(w)
    PROVE  /\ \A i \in Chunks : Buffered(i)' <=> Buffered(i)
           /\ UNCHANGED <<readPos, crcs, err, ring, delivered, rpc, rcall, got>>
           /\ wpc[w] = "fill" /\ widx[w] \in Chunks /\ err = "none"
<1> USE WindowAssumption DEF slotVars, writerVars, readerVars
<1>1. /\ wpc[w] = "fill" /\ slotState[Slot(widx[w])] = "filling"
      /\ slotChunk[Slot(widx[w])] = widx[w]
  BY DEF GiveUp, Owns
<1>2. widx[w] \in Chunks /\ Slot(widx[w]) \in SlotIds
  BY <1>1, ChunkGeometry DEF WindowInv, CallsInBounds
<1>3. err = "none"
  BY <1>1, <1>2 DEF WindowInv, SlotsOwned
<1>4. ASSUME NEW i \in Chunks PROVE Buffered(i)' <=> Buffered(i)
  <2>1. Slot(i) \in SlotIds
    BY ChunkGeometry
  <2>2. CASE Slot(i) = Slot(widx[w])
    <3>1. slotState'[Slot(i)] = "free"
      BY <1>2, <2>1, <2>2 DEF GiveUp, FreeSlot, WindowInv, TypeOK
    <3> QED BY <1>1, <2>2, <3>1 DEF Buffered
  <2>3. CASE Slot(i) # Slot(widx[w])
    <3>1. slotState'[Slot(i)] = slotState[Slot(i)] /\ slotChunk'[Slot(i)] = slotChunk[Slot(i)]
      BY <1>2, <2>1, <2>3 DEF GiveUp, FreeSlot, WindowInv, TypeOK
    <3> QED BY <3>1 DEF Buffered
  <2> QED BY <2>2, <2>3
<1>5. UNCHANGED <<readPos, crcs, err, ring, delivered, rpc, rcall, got>>
  BY DEF GiveUp
<1> QED BY <1>1, <1>2, <1>3, <1>4, <1>5

\* Read advances inside the current chunk, which leaves its slot at its end.
LEMMA CommitRecord ==
    ASSUME WindowInv, ReadCommit
    PROVE  /\ Current \in Chunks /\ readPos \in Nat /\ Current * ChunkSize \in Nat
           /\ Current * ChunkSize <= readPos /\ readPos < TotalSize
           /\ Len(got) \in Nat /\ readPos' = readPos + Len(got)
           /\ readPos' <= ChunkEnd(Current)
           /\ ChunkEnd(Current) \in Nat /\ ChunkEnd(Current) <= Current * ChunkSize + ChunkSize
           /\ \A i \in Chunks : Buffered(i)' <=> Buffered(i) /\ (i = Current => readPos' < ChunkEnd(i))
           /\ UNCHANGED <<crcs, err, ring, writerVars>>
           /\ rpc = "got" /\ rpc' = "idle"
<1> USE WindowAssumption DEF slotVars, writerVars, readerVars
<1>0. TypeOK /\ CallsInBounds /\ SlotsOwned
  BY DEF WindowInv
<1>1. readPos \in Nat /\ readPos < TotalSize /\ rcall.chunk = Current
  BY <1>0 DEF ReadCommit, CallsInBounds, TypeOK
<1>2. /\ Current \in Chunks /\ Current * ChunkSize <= readPos /\ Current * ChunkSize \in Nat
      /\ ChunkEnd(Current) \in Nat /\ ChunkEnd(Current) <= Current * ChunkSize + ChunkSize
      /\ Slot(Current) \in SlotIds
  <2>1. Current \in Chunks /\ Current * ChunkSize <= readPos
    BY <1>1, CurrentChunk
  <2> QED BY <2>1, ChunkGeometry
<1>3. Len(got) \in Nat /\ readPos' = readPos + Len(got) /\ Len(got) <= ChunkEnd(Current) - readPos
  <2>1. got \in Seq(Byte \cup {NoByte})
    BY <1>0 DEF TypeOK
  <2>2. Len(got) \in Nat /\ Len(got) <= rcall.n /\ rcall.n \in 1 .. ChunkEnd(Current) - readPos
    BY <1>0, <2>1 DEF ReadCommit, CallsInBounds
  <2> QED BY <1>1, <1>2, <2>2 DEF ReadCommit
<1>4. readPos' <= ChunkEnd(Current) /\ readPos' \in Nat
  BY <1>1, <1>2, <1>3
<1>5. ASSUME NEW i \in Chunks
      PROVE  Buffered(i)' <=> Buffered(i) /\ (i = Current => readPos' < ChunkEnd(i))
  <2>1. Slot(i) \in SlotIds /\ i \in Nat
    BY ChunkGeometry, TotalBounds DEF Chunks
  <2>2. CASE readPos' >= ChunkEnd(Current)
    <3>1. /\ slotState' = [slotState EXCEPT ![Slot(Current)] = "free"]
          /\ slotChunk' = [slotChunk EXCEPT ![Slot(Current)] = 0 - 1]
      BY <1>1, <2>2 DEF ReadCommit, LeaveChunk, FreeSlot
    <3>2. CASE Slot(i) = Slot(Current)
      <4>1. ~Buffered(i)'
        BY <1>0, <2>1, <3>1, <3>2 DEF Buffered, TypeOK
      <4>2. Buffered(i) => i = Current
        <5>1. CASE err = "none"
          <6>1. slotChunk[Slot(Current)] = Current
            BY <1>0, <5>1 DEF SlotsOwned, ReadCommit, Buffered
          <6> QED BY <3>2, <6>1 DEF Buffered
        <5>2. CASE err # "none"
          BY <1>0, <2>1, <5>2 DEF SlotsOwned, Buffered
        <5> QED BY <5>1, <5>2
      <4>3. ~(readPos' < ChunkEnd(Current))
        BY <1>2, <1>4, <2>2
      <4> QED BY <4>1, <4>2, <4>3
    <3>3. CASE Slot(i) # Slot(Current)
      BY <1>0, <2>1, <3>1, <3>3 DEF Buffered, TypeOK
    <3> QED BY <3>2, <3>3
  <2>3. CASE readPos' < ChunkEnd(Current)
    <3>1. UNCHANGED <<slotState, slotChunk>>
      BY <1>1, <1>2, <1>4, <2>3 DEF ReadCommit
    <3> QED BY <2>3, <3>1 DEF Buffered
  <2> QED BY <1>2, <1>4, <2>2, <2>3
<1>6. UNCHANGED <<crcs, err, ring, writerVars>> /\ rpc = "got" /\ rpc' = "idle"
  BY DEF ReadCommit
<1> QED BY <1>1, <1>2, <1>3, <1>4, <1>5, <1>6

\* A close forgets every buffered chunk and leaves the rest to the calls in progress.
LEMMA CloseRecord ==
    ASSUME WindowInv, NEW e \in Seals, Close(e)
    PROVE  /\ \A i \in Chunks : ~Buffered(i)'
           /\ err' # "none"
           /\ UNCHANGED <<readPos, crcs, ring, writerVars, readerVars, delivered>>
<1>1. err' # "none"
  BY DEF Close, Seals
<1>2. slotState' = [s \in SlotIds |-> "free"]
  BY DEF Close, ResetSlots, FreeAllSlots
<1>3. \A i \in Chunks : ~Buffered(i)'
  BY <1>2, ChunkGeometry DEF Buffered
<1> QED BY <1>1, <1>3 DEF Close

\* A buffered or consumed chunk, and whatever Read has begun to deliver, keeps its
\* record: nothing is accepted twice.
LEMMA RecordKept ==
    ASSUME WindowInv, RecordsMatch, [Next]_vars, NEW i \in Chunks, crcs[i] # NoVersion
    PROVE  crcs'[i] = crcs[i]
<1>1. ASSUME NEW w \in Writers, Publish(w) PROVE crcs'[i] = crcs[i]
  BY <1>1, PublishRecord
<1>2. ASSUME NEW w \in Writers, Admit(w) \/ WriteByte(w) \/ GiveUp(w) PROVE crcs' = crcs
  BY <1>2 DEF Admit, WriteByte, GiveUp
<1>3. CASE ReadStart \/ ReadRing \/ ReadCommit
  BY <1>3 DEF ReadStart, ReadRing, ReadCommit
<1>4. ASSUME NEW e \in Seals, Close(e) PROVE crcs' = crcs
  BY <1>4 DEF Close
<1>5. CASE Quiet
  BY <1>5 DEF Quiet
<1> QED BY <1>1, <1>2, <1>3, <1>4, <1>5, ContentCases

\* CRCs are on record for what is buffered, or read from, and for nothing else.
LEMMA RecordsStep == WindowInv /\ RecordsMatch /\ [Next]_vars => RecordsMatch'
<1> SUFFICES ASSUME WindowInv, RecordsMatch, [Next]_vars PROVE RecordsMatch'
  OBVIOUS
<1> USE WindowAssumption
<1>a. ASSUME UNCHANGED <<readPos, crcs, err>>, \A i \in Chunks : Buffered(i)' <=> Buffered(i),
             rpc' \in {"reading", "got"} => crcs[Current] # NoVersion
      PROVE  RecordsMatch'
  <2>1. Current' = Current /\ \A i \in Chunks : Consumed(i)' <=> Consumed(i)
    BY <1>a DEF Current, Consumed
  <2> QED BY <1>a, <2>1 DEF RecordsMatch
<1>b. ASSUME slotVars' = slotVars PROVE \A i \in Chunks : Buffered(i)' <=> Buffered(i)
  BY <1>b DEF slotVars, Buffered
<1>c. rpc \in {"reading", "got"} => crcs[Current] # NoVersion
  BY DEF RecordsMatch
<1>1. ASSUME NEW w \in Writers, Admit(w) PROVE RecordsMatch'
  BY <1>1, <1>a, <1>c, AdmitRecord
<1>2. ASSUME NEW w \in Writers, WriteByte(w) PROVE RecordsMatch'
  BY <1>2, <1>a, <1>b, <1>c DEF WriteByte, readerVars
<1>3. ASSUME NEW w \in Writers, Publish(w) PROVE RecordsMatch'
  <2>1. /\ err = "none" /\ widx[w] \in Chunks /\ wver[w] # NoVersion
        /\ \A i \in Chunks : crcs'[i] = IF i = widx[w] THEN wver[w] ELSE crcs[i]
        /\ \A i \in Chunks : Buffered(i)' <=> Buffered(i) \/ i = widx[w]
        /\ UNCHANGED <<readPos, err, rpc>>
    BY <1>3, PublishRecord
  <2>2. Current' = Current /\ \A i \in Chunks : Consumed(i)' <=> Consumed(i)
    BY <2>1 DEF Current, Consumed
  <2>3. rpc \in {"reading", "got"} => crcs'[Current] # NoVersion
    <3>1. rpc \in {"reading", "got"} => Current \in Chunks
      BY CurrentChunk DEF WindowInv, CallsInBounds, TypeOK
    <3> QED BY <1>c, <2>1, <3>1
  <2> QED BY <2>1, <2>2, <2>3 DEF RecordsMatch
<1>4. ASSUME NEW w \in Writers, GiveUp(w) PROVE RecordsMatch'
  BY <1>4, <1>a, <1>c, GiveUpRecord
<1>5. CASE ReadStart
  <2>1. crcs[Current] # NoVersion
    <3>1. Buffered(Current) /\ Current \in Chunks
      BY <1>5, CurrentChunk DEF ReadStart, WindowInv, TypeOK
    <3> QED BY <3>1 DEF RecordsMatch
  <2> QED BY <1>5, <1>a, <1>b, <2>1 DEF ReadStart
<1>6. CASE ReadRing
  BY <1>6, <1>a, <1>b, <1>c DEF ReadRing
<1>7. CASE ReadCommit
  <2>1. /\ Current \in Chunks /\ readPos \in Nat /\ Current * ChunkSize \in Nat
        /\ Current * ChunkSize <= readPos
        /\ Len(got) \in Nat /\ readPos' = readPos + Len(got) /\ readPos' <= ChunkEnd(Current)
        /\ ChunkEnd(Current) \in Nat /\ ChunkEnd(Current) <= Current * ChunkSize + ChunkSize
        /\ \A i \in Chunks : Buffered(i)' <=> Buffered(i) /\ (i = Current => readPos' < ChunkEnd(i))
        /\ UNCHANGED <<crcs, err>> /\ rpc = "got" /\ rpc' = "idle"
    BY <1>7, CommitRecord
  <2>2. ASSUME NEW i \in Chunks, i * ChunkSize < readPos' PROVE crcs[i] # NoVersion
    <3>0. i \in Nat /\ Current \in Nat /\ i * ChunkSize \in Nat
      BY <2>1, ChunkGeometry, TotalBounds DEF Chunks
    <3>1. CASE i = Current
      BY <1>c, <2>1, <3>1
    <3>2. CASE i < Current
      <4>1. i * ChunkSize + ChunkSize <= Current * ChunkSize
        BY <3>0, <3>2, MulStep, ChunkSize \in Nat
      <4>2. i * ChunkSize < readPos
        BY <2>1, <3>0, <4>1
      <4> QED BY <4>2 DEF RecordsMatch
    <3>3. CASE Current < i
      <4>1. Current * ChunkSize + ChunkSize <= i * ChunkSize
        BY <3>0, <3>3, MulStep, ChunkSize \in Nat
      <4> QED BY <2>1, <2>2, <3>0, <4>1
    <3> QED BY <3>0, <3>1, <3>2, <3>3
  <2>3. ASSUME err = "none", NEW i \in Chunks, crcs[i] # NoVersion
        PROVE  Consumed(i)' \/ Buffered(i)'
    <3>1. Consumed(i) \/ Buffered(i)
      BY <2>3 DEF RecordsMatch
    <3>2. ASSUME Consumed(i) PROVE Consumed(i)'
      <4>1. ChunkEnd(i) \in Nat /\ ChunkEnd(i) <= readPos
        BY <3>2, ChunkGeometry DEF Consumed
      <4>2. ChunkEnd(i) <= readPos'
        BY <2>1, <4>1
      <4> QED BY <4>2 DEF Consumed, ChunkEnd
    <3>3. ASSUME i = Current, ~(readPos' < ChunkEnd(i)) PROVE Consumed(i)'
      <4>1. ChunkEnd(i) <= readPos'
        BY <2>1, <3>3
      <4> QED BY <4>1 DEF Consumed, ChunkEnd
    <3> QED BY <2>1, <3>1, <3>2, <3>3
  <2> QED BY <2>1, <2>2, <2>3 DEF RecordsMatch
<1>8. ASSUME NEW e \in Seals, Close(e) PROVE RecordsMatch'
  <2>1. /\ \A i \in Chunks : ~Buffered(i)'
        /\ err' # "none" /\ UNCHANGED <<readPos, crcs, rpc>>
    BY <1>8, CloseRecord DEF readerVars
  <2> QED BY <1>c, <2>1 DEF RecordsMatch, Current
<1>9. CASE Quiet
  BY <1>9, <1>a, <1>b, <1>c DEF Quiet
<1> QED BY <1>1, <1>2, <1>3, <1>4, <1>5, <1>6, <1>7, <1>8, <1>9, ContentCases

-----------------------------------------------------------------------------
(* Bytes                                                                    *)

\* What Read copies, and what it is about to copy, comes from one accepted body.
LEMMA BodiesStep == WindowInv /\ BodiesInRing /\ RecordsMatch /\ [Next]_vars => BodiesInRing'
<1> SUFFICES ASSUME WindowInv, BodiesInRing, RecordsMatch, [Next]_vars PROVE BodiesInRing'
  OBVIOUS
<1> USE WindowAssumption
<1>0. TypeOK /\ CallsInBounds /\ FillsApart
  BY DEF WindowInv
<1>c. ASSUME rpc \in {"reading", "got"}
      PROVE  /\ Current \in Chunks /\ crcs[Current] # NoVersion
             /\ readPos \in Nat /\ Current * ChunkSize \in Nat /\ Current * ChunkSize <= readPos
             /\ readPos < TotalSize
  <2>1. Current \in Chunks /\ Current * ChunkSize <= readPos /\ readPos \in Nat /\ readPos < TotalSize
    BY <1>c, CurrentChunk DEF WindowInv, CallsInBounds, TypeOK
  <2> QED BY <1>c, <2>1, ChunkGeometry DEF RecordsMatch
\* The ring and what is on record stay as they are, and no chunk becomes buffered.
<1>a. ASSUME UNCHANGED <<readPos, crcs, ring>>,
             \A i \in Chunks : Buffered(i)' => Buffered(i),
             \A w \in Writers : wpc'[w] = "fill" =>
                \/ wpc[w] = "fill" /\ widx'[w] = widx[w] /\ wver'[w] = wver[w] /\ filled'[w] = filled[w]
                \/ filled'[w] = 0,
             rpc' \in {"reading", "got"} => rpc' = rpc /\ got' = got
      PROVE  BodiesInRing'
  <2>1. Current' = Current
    BY <1>a DEF Current
  <2>2. ASSUME NEW w \in Writers, wpc'[w] = "fill"
        PROVE  Holds(ring', widx'[w], wver'[w], filled'[w])
    <3>1. CASE filled'[w] = 0
      BY <3>1 DEF Holds
    <3>2. CASE filled'[w] # 0
      <4>1. /\ wpc[w] = "fill" /\ widx'[w] = widx[w] /\ wver'[w] = wver[w]
            /\ filled'[w] = filled[w] /\ ring' = ring
        BY <1>a, <2>2, <3>2
      <4> QED BY <4>1 DEF BodiesInRing
    <3> QED BY <3>1, <3>2
  <2>3. ASSUME NEW i \in Chunks, Buffered(i)' PROVE Holds(ring', i, crcs'[i], ChunkLen(i))
    BY <1>a, <2>3 DEF BodiesInRing
  <2>4. ASSUME rpc' = "reading"
        PROVE  Holds(ring', Current', crcs'[Current'], ChunkLen(Current'))
    BY <1>a, <2>1, <2>4 DEF BodiesInRing
  <2>5. ASSUME rpc' = "got"
        PROVE  \A k \in 1 .. Len(got') : got'[k] = [pos |-> readPos' + k - 1, ver |-> crcs'[Current']]
    BY <1>a, <2>1, <2>5 DEF BodiesInRing
  <2> QED BY <2>2, <2>3, <2>4, <2>5 DEF BodiesInRing
<1>1. ASSUME NEW w \in Writers, Admit(w) PROVE BodiesInRing'
  <2>1. /\ \A i \in Chunks : Buffered(i)' => Buffered(i)
        /\ UNCHANGED <<readPos, crcs, ring, rpc, got>>
    BY <1>1, AdmitRecord
  <2>2. filled[w] = 0 /\ UNCHANGED <<widx, filled>>
        /\ \A v \in Writers : v # w => wpc'[v] = wpc[v] /\ wver'[v] = wver[v]
    BY <1>0, <1>1 DEF Admit, InLoop, AtLoop, CallsInBounds, TypeOK
  <2> QED BY <1>a, <2>1, <2>2
<1>2. ASSUME NEW w \in Writers, WriteByte(w) PROVE BodiesInRing'
  <2>1. /\ UNCHANGED <<slotState, slotChunk, readPos, crcs, wpc, widx, wver, rpc, got>>
        /\ wpc[w] = "fill" /\ err' = err
    BY <1>2 DEF WriteByte, slotVars, readerVars
  <2>2. widx[w] \in Chunks /\ filled[w] \in 0 .. ChunkSize - 1
        /\ filled' = [filled EXCEPT ![w] = filled[w] + 1]
    BY <1>0, <1>2, WritePlace
  <2>3. ASSUME NEW v \in Writers, wpc[v] = "fill"
        PROVE  Holds(ring', widx[v], wver[v], filled'[v])
    <3>1. Holds(ring, widx[v], wver[v], filled[v])
      BY <2>3 DEF BodiesInRing
    <3>2. CASE v = w
      <4>1. filled'[v] = filled[w] + 1
        BY <1>0, <2>2, <3>2 DEF TypeOK
      <4> QED BY <1>0, <1>2, <3>1, <3>2, <4>1, WriteHere
    <3>3. CASE v # w
      <4>1. filled'[v] = filled[v] /\ filled[v] \in 0 .. ChunkSize /\ widx[v] \in Chunks
        BY <1>0, <2>2, <2>3, <3>3 DEF TypeOK, CallsInBounds
      <4>2. Slot(widx[v]) # Slot(widx[w])
        BY <1>0, <2>1, <2>3, <3>3 DEF FillsApart
      <4> QED BY <1>0, <1>2, <3>1, <4>1, <4>2, WriteElsewhere
    <3> QED BY <3>2, <3>3
  <2>4. ASSUME NEW i \in Chunks, Buffered(i) PROVE Holds(ring', i, crcs[i], ChunkLen(i))
    <3>1. Holds(ring, i, crcs[i], ChunkLen(i)) /\ ChunkLen(i) \in 0 .. ChunkSize
      BY <2>4, ChunkGeometry DEF BodiesInRing
    <3>2. slotState[Slot(i)] = "ready" /\ Slot(i) \in SlotIds
      BY <2>4, ChunkGeometry DEF Buffered
    <3>3. err = "none"
      BY <3>2 DEF WindowInv, SlotsOwned
    <3>4. slotState[Slot(widx[w])] = "filling"
      BY <2>1, <3>3, FillIsFresh
    <3>5. Slot(i) # Slot(widx[w])
      BY <3>2, <3>4
    <3> QED BY <1>0, <1>2, <3>1, <3>5, WriteElsewhere
  <2>5. ASSUME rpc = "reading" PROVE Holds(ring', Current, crcs[Current], ChunkLen(Current))
    <3>1. Holds(ring, Current, crcs[Current], ChunkLen(Current))
      BY <2>5 DEF BodiesInRing
    <3>2. Current \in Chunks /\ ChunkLen(Current) \in 0 .. ChunkSize
      BY <1>c, <2>5, ChunkGeometry
    <3>3. Slot(Current) # Slot(widx[w])
      BY <1>0, <2>1, <2>5 DEF FillsApart, CallsInBounds
    <3> QED BY <1>0, <1>2, <3>1, <3>2, <3>3, WriteElsewhere
  <2>6. Current' = Current /\ \A i \in Chunks : Buffered(i)' <=> Buffered(i)
    BY <2>1 DEF Current, Buffered
  <2> QED BY <2>1, <2>3, <2>4, <2>5, <2>6 DEF BodiesInRing
<1>3. ASSUME NEW w \in Writers, Publish(w) PROVE BodiesInRing'
  <2>1. /\ wpc[w] = "fill" /\ widx[w] \in Chunks /\ crcs[widx[w]] = NoVersion
        /\ \A i \in Chunks : crcs'[i] = IF i = widx[w] THEN wver[w] ELSE crcs[i]
        /\ \A i \in Chunks : Buffered(i)' <=> Buffered(i) \/ i = widx[w]
        /\ UNCHANGED <<readPos, ring, rpc, got>>
    BY <1>3, PublishRecord
  <2>2. filled[w] = ChunkLen(widx[w])
    BY <1>3 DEF Publish, Whole
  <2>3. \A v \in Writers : wpc'[v] = "fill" =>
           wpc[v] = "fill" /\ widx'[v] = widx[v] /\ wver'[v] = wver[v] /\ filled'[v] = filled[v]
    BY <1>0, <1>3 DEF Publish, Return, TypeOK
  <2>4. Current' = Current
    BY <2>1 DEF Current
  <2>5. ASSUME rpc \in {"reading", "got"} PROVE crcs'[Current] = crcs[Current]
    BY <1>c, <2>1, <2>5
  <2>6. ASSUME NEW i \in Chunks, Buffered(i)' PROVE Holds(ring, i, crcs'[i], ChunkLen(i))
    <3>1. CASE i = widx[w]
      BY <2>1, <2>2, <3>1 DEF BodiesInRing
    <3>2. CASE i # widx[w]
      BY <2>1, <2>6, <3>2 DEF BodiesInRing
    <3> QED BY <3>1, <3>2
  <2>7. ASSUME NEW v \in Writers, wpc'[v] = "fill"
        PROVE  Holds(ring', widx'[v], wver'[v], filled'[v])
    <3>1. wpc[v] = "fill" /\ widx'[v] = widx[v] /\ wver'[v] = wver[v] /\ filled'[v] = filled[v]
      BY <2>3, <2>7
    <3> QED BY <2>1, <3>1 DEF BodiesInRing
  <2>8. rpc' = "reading" => Holds(ring', Current', crcs'[Current'], ChunkLen(Current'))
    BY <2>1, <2>4, <2>5 DEF BodiesInRing
  <2>9. rpc' = "got" => \A k \in 1 .. Len(got') :
                           got'[k] = [pos |-> readPos' + k - 1, ver |-> crcs'[Current']]
    BY <2>1, <2>4, <2>5 DEF BodiesInRing
  <2> QED BY <2>1, <2>6, <2>7, <2>8, <2>9 DEF BodiesInRing
<1>4. ASSUME NEW w \in Writers, GiveUp(w) PROVE BodiesInRing'
  <2>1. /\ \A i \in Chunks : Buffered(i)' => Buffered(i)
        /\ UNCHANGED <<readPos, crcs, ring, rpc, got>>
    BY <1>4, GiveUpRecord
  <2>2. \A v \in Writers : wpc'[v] = "fill" =>
           wpc[v] = "fill" /\ widx'[v] = widx[v] /\ wver'[v] = wver[v] /\ filled'[v] = filled[v]
    BY <1>0, <1>4 DEF GiveUp, Return, TypeOK
  <2> QED BY <1>a, <2>1, <2>2
<1>5. CASE ReadStart
  <2>1. /\ UNCHANGED <<slotState, slotChunk, readPos, crcs, ring, wpc, widx, wver, filled>>
        /\ Buffered(Current) /\ Current \in Chunks /\ rpc' = "reading"
    BY <1>0, <1>5, CurrentChunk DEF ReadStart, slotVars, writerVars, TypeOK
  <2>2. Current' = Current /\ \A i \in Chunks : Buffered(i)' <=> Buffered(i)
    BY <2>1 DEF Current, Buffered
  <2> QED BY <2>1, <2>2 DEF BodiesInRing
<1>6. CASE ReadRing
  <2>1. /\ UNCHANGED <<slotState, slotChunk, readPos, crcs, ring, wpc, widx, wver, filled, rcall>>
        /\ rpc = "reading" /\ rpc' = "got"
    BY <1>6 DEF ReadRing, slotVars, writerVars
  <2>2. Current' = Current /\ \A i \in Chunks : Buffered(i)' <=> Buffered(i)
    BY <2>1 DEF Current, Buffered
  <2>3. ASSUME NEW k \in 1 .. Len(got')
        PROVE  got'[k] = [pos |-> readPos + k - 1, ver |-> crcs[Current]]
    <3> DEFINE o == readPos - Current * ChunkSize + k - 1
    <3>0. rcall.n \in Nat
      BY <1>0 DEF TypeOK
    <3>1. Usable /\ got' = [j \in 1 .. rcall.n |-> ring[rcall.off + j - 1]]
      BY <1>6, <2>3 DEF ReadRing
    <3>2. Len(got') = rcall.n
      BY <3>0, <3>1
    <3>3. k \in 1 .. rcall.n /\ got'[k] = ring[rcall.off + k - 1]
      BY <3>1, <3>2
    <3>4. /\ rcall.off = Slot(Current) * ChunkSize + (readPos - Current * ChunkSize)
          /\ rcall.n \in 1 .. ChunkEnd(Current) - readPos
      BY <1>0, <2>1 DEF CallsInBounds
    <3>5. /\ Current \in Chunks /\ readPos \in Nat /\ Current * ChunkSize \in Nat
          /\ Current * ChunkSize <= readPos
      BY <1>c, <2>1
    <3>6. /\ ChunkEnd(Current) = Current * ChunkSize + ChunkLen(Current)
          /\ ChunkLen(Current) \in Nat /\ Slot(Current) \in Nat
      BY <3>5, ChunkGeometry DEF SlotIds
    <3>7. o \in 0 .. ChunkLen(Current) - 1
      <4> DEFINE c == Current * ChunkSize
                 l == ChunkLen(Current)
      <4>1. c \in Nat /\ l \in Nat /\ readPos \in Nat /\ c <= readPos
        BY <3>5, <3>6
      <4>2. k \in Nat /\ 1 <= k /\ k <= (c + l) - readPos
        <5>1. ChunkEnd(Current) = c + l
          BY <3>6
        <5>2. rcall.n \in 1 .. (c + l) - readPos
          BY <3>4, <5>1
        <5> HIDE DEF c, l
        <5> QED BY <3>0, <3>3, <4>1, <5>2
      <4>3. o = readPos - c + k - 1
        OBVIOUS
      <4> HIDE DEF c, l, o
      <4>4. o \in 0 .. l - 1
        BY <4>1, <4>2, <4>3
      <4> QED BY <4>4 DEF l
    <3>8. Slot(Current) * ChunkSize \in Nat
      BY <3>6
    <3>9. rcall.off + k - 1 = Slot(Current) * ChunkSize + o
      BY <3>3, <3>4, <3>5, <3>8
    <3>10. ring[Slot(Current) * ChunkSize + o]
              = [pos |-> Current * ChunkSize + o, ver |-> crcs[Current]]
      BY <2>1, <3>7 DEF BodiesInRing, Holds
    <3>11. Current * ChunkSize + o = readPos + k - 1
      BY <3>3, <3>5
    <3> HIDE DEF o
    <3> QED BY <3>3, <3>9, <3>10, <3>11
  <2> QED BY <2>1, <2>2, <2>3 DEF BodiesInRing
<1>7. CASE ReadCommit
  <2>1. /\ \A i \in Chunks : Buffered(i)' => Buffered(i)
        /\ UNCHANGED <<crcs, ring, wpc, widx, wver, filled>> /\ rpc' = "idle"
    BY <1>7, CommitRecord DEF writerVars
  <2> QED BY <2>1 DEF BodiesInRing
<1>8. ASSUME NEW e \in Seals, Close(e) PROVE BodiesInRing'
  <2>1. /\ \A i \in Chunks : ~Buffered(i)'
        /\ UNCHANGED <<readPos, crcs, ring, wpc, widx, wver, filled, rpc, got>>
    BY <1>8, CloseRecord DEF writerVars, readerVars
  <2> QED BY <1>a, <2>1
<1>9. CASE Quiet
  <2>1. \A i \in Chunks : Buffered(i)' => Buffered(i)
    BY <1>9 DEF Quiet, slotVars, Buffered
  <2> QED BY <1>9, <1>a, <2>1 DEF Quiet
<1> QED BY <1>1, <1>2, <1>3, <1>4, <1>5, <1>6, <1>7, <1>8, <1>9, ContentCases

-----------------------------------------------------------------------------
(* The stream                                                               *)

\* The chunk a byte of the file belongs to.
LEMMA ByteChunk ==
    ASSUME NEW p \in Nat, p < TotalSize
    PROVE  /\ p \div ChunkSize \in Chunks
           /\ (p \div ChunkSize) * ChunkSize <= p
           /\ p < (p \div ChunkSize) * ChunkSize + ChunkSize
<1> USE WindowAssumption
<1> DEFINE c == p \div ChunkSize
<1>1. c \in Nat /\ c * ChunkSize <= p /\ p < c * ChunkSize + ChunkSize
  BY DivBounds
<1>2. Total \in Nat \ {0} /\ TotalSize <= Total * ChunkSize
  BY TotalBounds
<1>3. c < Total
  <2>1. SUFFICES ASSUME Total <= c PROVE FALSE
    BY <1>1, <1>2
  <2>2. Total * ChunkSize <= c * ChunkSize
    <3>1. CASE Total = c
      BY <3>1, <1>1
    <3>2. CASE Total < c
      <4>1. Total * ChunkSize + ChunkSize <= c * ChunkSize
        BY <1>1, <1>2, <3>2, MulStep, ChunkSize \in Nat
      <4>2. Total * ChunkSize \in Nat /\ c * ChunkSize \in Nat
        BY <1>1, <1>2
      <4> QED BY <4>1, <4>2
    <3> QED BY <1>1, <1>2, <2>1, <3>1, <3>2
  <2>3. Total * ChunkSize \in Nat /\ c * ChunkSize \in Nat
    BY <1>1, <1>2
  <2> HIDE DEF c
  <2> QED BY <1>1, <1>2, <2>2, <2>3
<1>4. c \in Chunks
  BY <1>1, <1>2, <1>3 DEF Chunks
<1> QED BY <1>1, <1>4

\* What was delivered stays the recorded content, and Read appends the next bytes.
LEMMA StreamStep ==
    WindowInv /\ BodiesInRing /\ RecordsMatch /\ StreamIntact /\ [Next]_vars => StreamIntact'
<1> SUFFICES ASSUME WindowInv, BodiesInRing, RecordsMatch, StreamIntact, [Next]_vars
             PROVE  StreamIntact'
  OBVIOUS
<1> USE WindowAssumption
<1>0. /\ readPos \in 0 .. TotalSize
      /\ got \in Seq(Byte \cup {NoByte}) /\ delivered \in Seq(Byte \cup {NoByte})
  BY DEF WindowInv, TypeOK
\* Records of delivered bytes are kept.
<1>a. ASSUME NEW k \in 1 .. readPos
      PROVE  /\ delivered[k] = [pos |-> k - 1, ver |-> crcs[(k - 1) \div ChunkSize]]
             /\ crcs'[(k - 1) \div ChunkSize] = crcs[(k - 1) \div ChunkSize]
  <2> DEFINE c == (k - 1) \div ChunkSize
  <2>1. k - 1 \in Nat /\ k - 1 < readPos /\ k - 1 < TotalSize
    BY <1>0
  <2>2. c \in Chunks /\ c * ChunkSize <= k - 1
    BY <2>1, ByteChunk
  <2>3. c * ChunkSize < readPos
    BY <1>0, <2>1, <2>2, ChunkGeometry
  <2>4. crcs[c] # NoVersion
    BY <2>2, <2>3 DEF RecordsMatch
  <2>5. crcs'[c] = crcs[c]
    BY <2>2, <2>4, RecordKept
  <2> QED BY <2>5 DEF StreamIntact
<1>1. ASSUME UNCHANGED <<readPos, delivered>> PROVE StreamIntact'
  <2>1. Len(delivered) = readPos
    BY DEF StreamIntact
  <2> QED BY <1>1, <1>a, <2>1 DEF StreamIntact
<1>2. CASE ReadCommit
  <2>1. /\ Current \in Chunks /\ readPos \in Nat /\ Current * ChunkSize \in Nat
        /\ Current * ChunkSize <= readPos /\ Len(got) \in Nat /\ readPos' = readPos + Len(got)
        /\ readPos' <= ChunkEnd(Current)
        /\ ChunkEnd(Current) \in Nat /\ ChunkEnd(Current) <= Current * ChunkSize + ChunkSize
        /\ crcs' = crcs /\ rpc = "got"
    BY <1>2, CommitRecord
  <2>2. delivered' = delivered \o got /\ Len(delivered) = readPos
    BY <1>2 DEF ReadCommit, StreamIntact
  <2>3. Len(delivered') = readPos'
    <3>1. Len(delivered \o got) = Len(delivered) + Len(got)
      BY <1>0
    <3> QED BY <2>1, <2>2, <3>1
  <2>4. ASSUME NEW k \in 1 .. Len(delivered')
        PROVE  delivered'[k] = [pos |-> k - 1, ver |-> crcs[(k - 1) \div ChunkSize]]
    <3>1. k \in 1 .. readPos + Len(got)
      BY <2>1, <2>3
    <3>2. CASE k \in 1 .. readPos
      <4>1. delivered'[k] = delivered[k]
        BY <1>0, <2>1, <2>2, <3>2
      <4> QED BY <1>a, <3>2, <4>1
    <3>3. CASE k \notin 1 .. readPos
      <4>1. k - readPos \in 1 .. Len(got)
        BY <2>1, <3>1, <3>3
      <4>2. delivered'[k] = got[k - readPos]
        BY <1>0, <2>1, <2>2, <3>1, <3>3
      <4>3. got[k - readPos] = [pos |-> readPos + (k - readPos) - 1, ver |-> crcs[Current]]
        BY <2>1, <4>1 DEF BodiesInRing
      <4>4. readPos + (k - readPos) - 1 = k - 1
        BY <2>1
      <4>5. (k - 1) \div ChunkSize = Current
        <5> DEFINE c == Current * ChunkSize
        <5>1. k - 1 \in Nat /\ c \in Nat /\ c <= k - 1
          BY <2>1, <3>1, <3>3
        <5>2. k - 1 < c + ChunkSize
          <6> HIDE DEF c
          <6>1. ChunkEnd(Current) <= c + ChunkSize
            BY <2>1 DEF c
          <6> QED BY <2>1, <3>1, <5>1, <6>1
        <5>3. Current \in Int
          BY <2>1, TotalBounds DEF Chunks
        <5> QED BY <5>1, <5>2, <5>3, DivUnique
      <4> QED BY <4>2, <4>3, <4>4, <4>5
    <3> QED BY <3>2, <3>3
  <2> QED BY <2>1, <2>3, <2>4 DEF StreamIntact
<1>3. ASSUME NEW w \in Writers, Admit(w) \/ WriteByte(w) \/ Publish(w) \/ GiveUp(w)
      PROVE  UNCHANGED <<readPos, delivered>>
  BY <1>3 DEF Admit, WriteByte, Publish, GiveUp
<1>4. CASE ReadStart \/ ReadRing
  BY <1>1, <1>4 DEF ReadStart, ReadRing
<1>5. ASSUME NEW e \in Seals, Close(e) PROVE UNCHANGED <<readPos, delivered>>
  BY <1>5 DEF Close
<1>6. CASE Quiet
  BY <1>1, <1>6 DEF Quiet
<1> QED BY <1>1, <1>2, <1>3, <1>4, <1>5, <1>6, ContentCases

-----------------------------------------------------------------------------
(* Answers                                                                  *)

\* A call of WriteChunk answers with an error, or with the CRC on record.
LEMMA AnswersStep ==
    WindowInv /\ RecordsMatch /\ AnswersMatch /\ [Next]_vars => AnswersMatch'
<1> SUFFICES ASSUME WindowInv, RecordsMatch, AnswersMatch, [Next]_vars,
                    NEW w \in Writers, reply'[w] \in Versions \cup {NoVersion}
             PROVE  widx'[w] \in Chunks /\ reply'[w] # NoVersion /\ crcs'[widx'[w]] = reply'[w]
  BY DEF AnswersMatch
<1> USE WindowAssumption, ReplyAssumption
<1>0. TypeOK
  BY DEF WindowInv
\* The answer was given earlier.
<1>1. ASSUME reply'[w] = reply[w], widx'[w] = widx[w]
      PROVE  widx'[w] \in Chunks /\ reply'[w] # NoVersion /\ crcs'[widx'[w]] = reply'[w]
  <2>1. widx[w] \in Chunks /\ reply[w] # NoVersion /\ crcs[widx[w]] = reply[w]
    BY <1>1 DEF AnswersMatch
  <2> QED BY <1>1, <2>1, RecordKept
<1>2. reply'[w] \notin Refusals \cup {"none"}
  OBVIOUS
\* Steps of other writers, of the driver and of closers.
<1>3. ASSUME NEW v \in Writers, NEW r, Return(v, r), v # w
      PROVE  reply'[w] = reply[w] /\ widx'[w] = widx[w]
  BY <1>0, <1>3 DEF Return, TypeOK
<1>4. ASSUME NEW r \in Refusals, Return(w, r) PROVE FALSE
  BY <1>0, <1>2, <1>4 DEF Return, TypeOK
<1>5. ASSUME NEW v \in Writers, Call(v)
      PROVE  v # w /\ reply'[w] = reply[w] /\ widx'[w] = widx[w]
  BY <1>0, <1>2, <1>5 DEF Call, TypeOK
<1>6. ASSUME NEW v \in Writers,
             RejectClosed(v) \/ RejectIndex(v) \/ RejectInFlight(v) \/ RejectOutOfWindow(v) \/ SlotLost(v) \/ GiveUp(v)
      PROVE  v # w /\ reply'[w] = reply[w] /\ widx'[w] = widx[w]
  <2>1. PICK r \in Refusals : Return(v, r)
    <3>1. err # "none" => err \in Refusals
      BY <1>0 DEF TypeOK, Refusals
    <3>2. {"badIndex", "badBody", "inFlight", "outOfWindow", "closed"} \subseteq Refusals
      BY DEF Refusals, Seals
    <3> QED BY <1>6, <3>1, <3>2
            DEF RejectClosed, RejectIndex, RejectInFlight, RejectOutOfWindow, SlotLost, GiveUp
  <2>2. v # w
    BY <1>4, <2>1
  <2> QED BY <1>3, <2>1, <2>2
<1>7. ASSUME NEW v \in Writers, Admit(v) \/ Park(v) \/ Deadline(v) \/ TimerFires(v) \/ WriteByte(v)
      PROVE  reply' = reply /\ widx' = widx
  BY <1>7 DEF Admit, Park, Deadline, TimerFires, WriteByte
<1>8. ASSUME NEW v \in Writers, Absorb(v)
      PROVE  widx'[w] \in Chunks /\ reply'[w] # NoVersion /\ crcs'[widx'[w]] = reply'[w]
  <2>1. Return(v, crcs[widx[v]]) /\ crcs' = crcs /\ widx[v] \in Chunks
    BY <1>8 DEF Absorb, InLoop
  <2>2. CASE v # w
    BY <1>1, <1>3, <2>1, <2>2
  <2>3. CASE v = w
    <3>1. crcs[widx[w]] # NoVersion
      <4>1. CASE Buffered(widx[w])
        BY <2>1, <2>3, <4>1 DEF RecordsMatch
      <4>2. CASE Consumed(widx[w])
        <5>1. /\ widx[w] * ChunkSize \in Nat /\ ChunkLen(widx[w]) \in 1 .. ChunkSize
              /\ readPos \in Nat
          BY <1>0, <2>1, <2>3, ChunkGeometry DEF TypeOK
        <5>2. widx[w] * ChunkSize < readPos
          BY <4>2, <5>1 DEF Consumed
        <5> QED BY <2>1, <2>3, <5>2 DEF RecordsMatch
      <4> QED BY <1>8, <2>3, <4>1, <4>2 DEF Absorb
    <3>2. reply'[w] = crcs[widx[w]]
      BY <1>0, <2>1, <2>3 DEF Return, TypeOK
    <3>3. widx'[w] = widx[w]
      BY <1>0, <1>2, <2>1, <2>3, <3>2 DEF Return, TypeOK
    <3> QED BY <2>1, <2>3, <3>1, <3>2, <3>3
  <2> QED BY <2>2, <2>3
<1>9. ASSUME NEW v \in Writers, Publish(v)
      PROVE  widx'[w] \in Chunks /\ reply'[w] # NoVersion /\ crcs'[widx'[w]] = reply'[w]
  <2>1. Return(v, wver[v])
    BY <1>9 DEF Publish
  <2>2. CASE v # w
    BY <1>1, <1>3, <2>1, <2>2
  <2>3. CASE v = w
    <3>1. widx[w] \in Chunks /\ wver[w] # NoVersion /\ crcs'[widx[w]] = wver[w]
      BY <1>9, <2>3, PublishRecord
    <3>2. reply'[w] = wver[w]
      BY <1>0, <2>1, <2>3 DEF Return, TypeOK
    <3>3. widx'[w] = widx[w]
      BY <1>0, <1>2, <2>1, <2>3, <3>2 DEF Return, TypeOK
    <3> QED BY <3>1, <3>2, <3>3
  <2> QED BY <2>2, <2>3
<1>10. CASE ReadCall \/ ReadStep \/ CloseFile \/ RemoveFile \/ (\E e \in Seals : Close(e)) \/ UNCHANGED vars
  <2>1. UNCHANGED writerVars
    BY <1>10 DEF ReadCall, ReadStep, ReadClosed, ReadEOF, ReadStart, ReadPark, ReadRing, ReadCommit,
                 ReadFailed, CloseFile, RemoveFile, Close, vars
  <2> QED BY <1>1, <2>1 DEF writerVars
<1> QED BY <1>1, <1>5, <1>6, <1>7, <1>8, <1>9, <1>10 DEF Next, Admission

-----------------------------------------------------------------------------
(* The invariant, and what it is for                                        *)

LEMMA InitContent == Init => ContentInv
<1> SUFFICES ASSUME Init PROVE ContentInv
  OBVIOUS
<1> USE WindowAssumption, ReplyAssumption
<1>1. \A i \in Chunks : ~Buffered(i) /\ i * ChunkSize \in Nat
  BY ChunkGeometry DEF Init, Buffered
<1>2. BodiesInRing
  BY <1>1 DEF Init, BodiesInRing
<1>3. RecordsMatch
  BY <1>1 DEF Init, RecordsMatch
<1>4. StreamIntact
  BY DEF Init, StreamIntact
<1>5. AnswersMatch
  BY DEF Init, AnswersMatch
<1> QED BY <1>2, <1>3, <1>4, <1>5 DEF ContentInv

\* What is in the ring, on record, delivered and answered agrees in every state.
THEOREM ContentInvariant == Spec => []ContentInv
<1>1. WindowInv /\ ContentInv /\ [Next]_vars => ContentInv'
  BY RecordsStep, BodiesStep, StreamStep, AnswersStep DEF ContentInv
<1> QED BY InitContent, <1>1, WindowInvariant, PTL DEF Spec

\* Read returns every byte of the file once and in order, and each chunk from
\* the one accepted body, although ReadAt and the fills run outside the mutex.
THEOREM StreamIsIntact == Spec => []StreamIntact
<1>1. ContentInv => StreamIntact
  BY DEF ContentInv
<1> QED BY <1>1, ContentInvariant, PTL

\* The CRC WriteChunk returned is the one on record, and the chunk is held by
\* the window until Read has passed it, whatever competing requests were told.
THEOREM AckedStaysHeld == Spec => []AckedIsHeld
<1>1. ContentInv => AckedIsHeld
  BY DEF ContentInv, RecordsMatch, AnswersMatch, AckedIsHeld
<1> QED BY <1>1, ContentInvariant, PTL

\* Publish never overwrites a CRC: no chunk is accepted twice, also when its
\* slot was reused for a later chunk in between.
THEOREM RecordsAreFinal == Spec => CRCWriteOnce
<1>1. WindowInv /\ ContentInv /\ [Next]_vars =>
         [\A i \in Chunks : crcs[i] # NoVersion => crcs'[i] = crcs[i]]_vars
  BY RecordKept DEF ContentInv
<1> QED BY <1>1, WindowInvariant, ContentInvariant, PTL DEF Spec, CRCWriteOnce

-----------------------------------------------------------------------------
(* Sums over sets                                                           *)

\* A set of numbers that is not empty has a least one.
LEMMA LeastNat ==
    ASSUME NEW T \in SUBSET Nat, T # {}
    PROVE  \E n \in T : \A m \in T : n <= m
<1> DEFINE R == {ss \in Nat \X Nat : ss[1] < ss[2]}
<1>1. IsWellFoundedOn(R, Nat)
  BY NatLessThanWellFounded DEF OpToRel
<1> HIDE DEF R
<1>2. PICK n \in T : \A m \in T : ~ (<<m, n>> \in R)
  BY <1>1, WFMin
<1>3. ASSUME NEW m \in T PROVE ~(m < n)
  BY <1>2 DEF R
<1> QED BY <1>3

\* g gives the sum of f over every part of S, whichever element is added last.
Sums(g, f, S) ==
    /\ g \in [SUBSET S -> Int]
    /\ g[{}] = 0
    /\ \A T \in SUBSET S : \A x \in T : g[T] = f[x] + g[T \ {x}]

\* The same, with the element added last chosen by it.
SumsInOrder(it, f, S) ==
    /\ it[{}] = 0
    /\ \A T \in SUBSET S : T # {} => \E x \in T : it[T] = f[x] + it[T \ {x}]

\* One number more: its value is added to the sets it is in.
LEMMA SumsMore ==
    ASSUME NEW z \in Nat, NEW f, \A i \in 0 .. z : f[i] \in Int, NEW g, Sums(g, f, 0 .. z - 1)
    PROVE  \E h : Sums(h, f, 0 .. z)
<1> DEFINE h == [T \in SUBSET (0 .. z) |-> IF z \in T THEN f[z] + g[T \ {z}] ELSE g[T]]
<1>1. /\ z \in 0 .. z /\ f[z] \in Int
      /\ \A T \in SUBSET (0 .. z) : T \ {z} \in SUBSET (0 .. z - 1)
      /\ \A T \in SUBSET (0 .. z) : z \notin T => T = T \ {z}
  OBVIOUS
<1>2. /\ g \in [SUBSET (0 .. z - 1) -> Int] /\ g[{}] = 0
      /\ \A T \in SUBSET (0 .. z - 1) : \A x \in T : g[T] = f[x] + g[T \ {x}]
  BY DEF Sums
<1>3. h \in [SUBSET (0 .. z) -> Int] /\ h[{}] = 0
  BY <1>1, <1>2
<1>4. /\ \A T \in SUBSET (0 .. z) : z \in T => h[T] = f[z] + g[T \ {z}]
      /\ \A T \in SUBSET (0 .. z) : z \notin T => h[T] = g[T]
  OBVIOUS
<1> HIDE DEF h
<1>5. ASSUME NEW T \in SUBSET (0 .. z), NEW x \in T
      PROVE  h[T] = f[x] + h[T \ {x}]
  <2>0. T \ {x} \in SUBSET (0 .. z) /\ f[x] \in Int
    OBVIOUS
  <2>1. CASE z \notin T
    <3>1. T \in SUBSET (0 .. z - 1) /\ z \notin T \ {x}
      BY <1>1, <2>1
    <3>2. g[T] = f[x] + g[T \ {x}]
      BY <1>2, <3>1
    <3> QED BY <1>4, <2>0, <2>1, <3>1, <3>2
  <2>2. CASE z \in T /\ x = z
    <3>1. h[T \ {x}] = g[T \ {z}]
      BY <1>4, <2>0, <2>2
    <3> QED BY <1>4, <2>2, <3>1
  <2>3. CASE z \in T /\ x # z
    <3>1. T \ {z} \in SUBSET (0 .. z - 1) /\ x \in T \ {z}
      BY <1>1, <2>3
    <3>2. g[T \ {z}] = f[x] + g[(T \ {z}) \ {x}]
      BY <1>2, <3>1
    <3>3. (T \ {z}) \ {x} = (T \ {x}) \ {z} /\ z \in T \ {x}
      BY <2>3
    <3>4. h[T] = f[z] + g[T \ {z}]
      BY <1>4, <2>3
    <3>5. h[T \ {x}] = f[z] + g[(T \ {z}) \ {x}]
      BY <1>4, <2>0, <3>3
    <3>6. g[(T \ {z}) \ {x}] \in Int
      BY <1>1, <1>2, <2>0, <3>3
    <3> QED BY ONLY f[z] \in Int, f[x] \in Int, <3>2, <3>4, <3>5, <3>6
  <2> QED BY <2>1, <2>2, <2>3
<1>6. Sums(h, f, 0 .. z)
  BY <1>3, <1>5 DEF Sums
<1> QED BY <1>6

\* The values of any numbers can be added up.
LEMMA SumsExist ==
    ASSUME NEW n \in Nat, NEW f, \A i \in 0 .. n - 1 : f[i] \in Int
    PROVE  \E g : Sums(g, f, 0 .. n - 1)
<1> DEFINE Without == {k \in 0 .. n : ~ \E g : Sums(g, f, 0 .. k - 1)}
<1> SUFFICES ASSUME Without # {} PROVE FALSE
  <2>1. n \in 0 .. n
    OBVIOUS
  <2> QED BY <2>1
<1>1. Without \in SUBSET Nat
  OBVIOUS
<1>2. PICK k \in Without : \A m \in Without : k <= m
  <2> HIDE DEF Without
  <2> QED BY <1>1, LeastNat
<1>3. CASE k = 0
  <2> DEFINE g == [T \in SUBSET (0 .. k - 1) |-> 0]
  <2>1. 0 .. k - 1 = {}
    BY <1>3
  <2>2. Sums(g, f, 0 .. k - 1)
    BY <2>1 DEF Sums
  <2> QED BY <2>2
<1>4. CASE k # 0
  <2>1. k \in Nat \ {0} /\ k - 1 \in 0 .. n /\ ~(k <= k - 1)
    BY <1>4
  <2>2. PICK g : Sums(g, f, 0 .. (k - 1) - 1)
    BY <1>2, <2>1
  <2>3. \A i \in 0 .. k - 1 : f[i] \in Int
    BY <2>1
  <2>4. \E h : Sums(h, f, 0 .. k - 1)
    BY <2>1, <2>2, <2>3, SumsMore
  <2> QED BY <2>4
<1> QED BY <1>3, <1>4

\* A sum taken one chosen element after the other is the sum.
LEMMA ChosenOrder ==
    ASSUME NEW S, IsFiniteSet(S), NEW f, NEW g, NEW it, Sums(g, f, S), SumsInOrder(it, f, S)
    PROVE  it[S] = g[S]
<1> DEFINE Wrong == {n \in Nat : \E T \in SUBSET S : Cardinality(T) = n /\ it[T] # g[T]}
<1>0. \A T \in SUBSET S : IsFiniteSet(T) /\ Cardinality(T) \in Nat
  BY FS_Subset, FS_CardinalityType
<1> SUFFICES ASSUME it[S] # g[S] PROVE FALSE
  OBVIOUS
<1>1. Wrong # {} /\ Wrong \in SUBSET Nat
  BY <1>0
<1>2. PICK n \in Wrong : \A m \in Wrong : n <= m
  <2> HIDE DEF Wrong
  <2> QED BY <1>1, LeastNat
<1>3. PICK T \in SUBSET S : Cardinality(T) = n /\ it[T] # g[T]
  BY <1>2
<1>4. PICK x \in T : it[T] = f[x] + it[T \ {x}]
  BY <1>3 DEF Sums, SumsInOrder
<1>5. T \ {x} \in SUBSET S /\ Cardinality(T \ {x}) = n - 1 /\ n - 1 \in Nat
  <2>1. T \ {x} \in SUBSET S
    OBVIOUS
  <2>2. Cardinality(T \ {x}) = Cardinality(T) - 1
    BY <1>0, FS_RemoveElement
  <2> QED BY <1>0, <1>3, <2>1, <2>2
<1>6. n - 1 \notin Wrong
  BY <1>2, <1>5
<1>7. it[T \ {x}] = g[T \ {x}]
  BY <1>5, <1>6
<1> QED BY <1>3, <1>4, <1>7 DEF Sums

\* The sum of the lengths of chunks is what any g that adds them up says.
LEMMA LengthsAdded ==
    ASSUME NEW S, IsFiniteSet(S), NEW g,
           Sums(g, [x \in S |-> ChunkLen(x)], S)
    PROVE  MapThenSumSet(ChunkLen, S) = g[S]
<1> DEFINE Adds(h) == h = [T \in SUBSET S |->
               IF T = {} THEN 0
               ELSE ChunkLen(CHOOSE x \in T : TRUE) + h[T \ {CHOOSE x \in T : TRUE}]]
           it == CHOOSE h : Adds(h)
           f == [x \in S |-> ChunkLen(x)]
<1>0. /\ g \in [SUBSET S -> Int] /\ g[{}] = 0
      /\ \A T \in SUBSET S : \A x \in T : g[T] = f[x] + g[T \ {x}]
  BY DEF Sums
<1>1. Adds(g)
  BY <1>0
<1>2. MapThenSumSet(ChunkLen, S) = it[S]
  BY DEF MapThenSumSet, MapThenFoldSet
<1>3. Adds(it)
  <2> HIDE DEF Adds
  <2> QED BY <1>1
<1> HIDE DEF it, f
<1>4. it[{}] = 0
  BY <1>3
<1>5. ASSUME NEW T \in SUBSET S, T # {}
      PROVE  \E x \in T : it[T] = ChunkLen(x) + it[T \ {x}]
  <2> DEFINE x == CHOOSE x \in T : TRUE
  <2>1. x \in T
    BY <1>5
  <2>2. it[T] = ChunkLen(x) + it[T \ {x}]
    BY <1>3, <1>5
  <2> HIDE DEF x
  <2> QED BY <2>1, <2>2
<1> HIDE DEF Adds
<1>6. \A x \in S : ChunkLen(x) = f[x]
  BY DEF f
<1>7. SumsInOrder(it, f, S)
  BY <1>4, <1>5, <1>6 DEF SumsInOrder
<1>8. Sums(g, f, S)
  BY DEF f
<1>9. it[S] = g[S]
  BY <1>7, <1>8, ChosenOrder
<1> QED BY <1>2, <1>9

\* The same for the bytes that Read has not served.
LEMMA RestsAdded ==
    ASSUME NEW S, IsFiniteSet(S), NEW g,
           Sums(g, [x \in S |-> (ChunkLen(x) - Served(x))], S)
    PROVE  MapThenSumSet(LAMBDA i : ChunkLen(i) - Served(i), S) = g[S]
<1> DEFINE Adds(h) == h = [T \in SUBSET S |->
               IF T = {} THEN 0
               ELSE (ChunkLen(CHOOSE x \in T : TRUE) - Served(CHOOSE x \in T : TRUE))
                       + h[T \ {CHOOSE x \in T : TRUE}]]
           it == CHOOSE h : Adds(h)
           f == [x \in S |-> (ChunkLen(x) - Served(x))]
<1>0. /\ g \in [SUBSET S -> Int] /\ g[{}] = 0
      /\ \A T \in SUBSET S : \A x \in T : g[T] = f[x] + g[T \ {x}]
  BY DEF Sums
<1>1. Adds(g)
  BY <1>0
<1>2. MapThenSumSet(LAMBDA i : ChunkLen(i) - Served(i), S) = it[S]
  BY DEF MapThenSumSet, MapThenFoldSet
<1>3. Adds(it)
  <2> HIDE DEF Adds
  <2> QED BY <1>1
<1> HIDE DEF it, f
<1>4. it[{}] = 0
  BY <1>3
<1>5. ASSUME NEW T \in SUBSET S, T # {}
      PROVE  \E x \in T : it[T] = (ChunkLen(x) - Served(x)) + it[T \ {x}]
  <2> DEFINE x == CHOOSE x \in T : TRUE
  <2>1. x \in T
    BY <1>5
  <2>2. it[T] = (ChunkLen(x) - Served(x)) + it[T \ {x}]
    BY <1>3, <1>5
  <2> HIDE DEF x
  <2> QED BY <2>1, <2>2
<1> HIDE DEF Adds
<1>6. \A x \in S : (ChunkLen(x) - Served(x)) = f[x]
  BY DEF f
<1>7. SumsInOrder(it, f, S)
  BY <1>4, <1>5, <1>6 DEF SumsInOrder
<1>8. Sums(g, f, S)
  BY DEF f
<1>9. it[S] = g[S]
  BY <1>7, <1>8, ChosenOrder
<1> QED BY <1>2, <1>9

\* The chunks before chunk n end where it starts, all chunks end with the file.
LEMMA FirstLengths ==
    ASSUME NEW g, Sums(g, [i \in Chunks |-> ChunkLen(i)], Chunks), NEW n \in 0 .. Total
    PROVE  g[0 .. n - 1] = IF n = Total THEN TotalSize ELSE n * ChunkSize
<1> USE WindowAssumption, TotalBounds
<1> DEFINE Start(k) == IF k = Total THEN TotalSize ELSE k * ChunkSize
           Wrong == {k \in 0 .. Total : g[0 .. k - 1] # Start(k)}
<1> SUFFICES ASSUME Wrong # {} PROVE FALSE
  OBVIOUS
<1>1. Wrong \in SUBSET Nat
  OBVIOUS
<1>2. PICK k \in Wrong : \A m \in Wrong : k <= m
  <2> HIDE DEF Wrong
  <2> QED BY <1>1, LeastNat
<1>3. k \in 0 .. Total /\ g[0 .. k - 1] # Start(k)
  OBVIOUS
<1>4. CASE k = 0
  <2>1. 0 .. k - 1 = {} /\ Start(k) = 0
    BY <1>4
  <2> QED BY <1>3, <2>1 DEF Sums
<1>5. CASE k # 0
  <2>1. PICK i \in Chunks : i = k - 1
    BY <1>3, <1>5 DEF Chunks
  <2>2. /\ i \in 0 .. Total /\ i \in Nat /\ ~(k <= i) /\ i # Total /\ k = i + 1
        /\ 0 .. k - 1 \in SUBSET Chunks /\ i \in 0 .. k - 1
        /\ (0 .. k - 1) \ {i} = 0 .. i - 1
    BY <1>3, <2>1 DEF Chunks
  <2>3. g[0 .. i - 1] = i * ChunkSize
    BY <1>2, <2>2
  <2>4. g[0 .. k - 1] = ChunkLen(i) + g[0 .. i - 1]
    <3>1. \A T \in SUBSET Chunks : \A x \in T : g[T] = ChunkLen(x) + g[T \ {x}]
      BY DEF Sums
    <3> DEFINE T == 0 .. k - 1
    <3>2. T \in SUBSET Chunks /\ i \in T /\ T \ {i} = 0 .. i - 1
      BY <2>2
    <3> HIDE DEF T
    <3>3. g[T] = ChunkLen(i) + g[T \ {i}]
      BY <3>1, <3>2
    <3> QED BY <3>2, <3>3 DEF T
  <2>5. /\ ChunkLen(i) \in Int /\ i * ChunkSize \in Int
        /\ ChunkEnd(i) = i * ChunkSize + ChunkLen(i)
        /\ i = Total - 1 => ChunkEnd(i) = TotalSize
        /\ i # Total - 1 => ChunkEnd(i) = i * ChunkSize + ChunkSize
    BY ChunkGeometry
  <2>6. g[0 .. k - 1] = ChunkEnd(i)
    BY <2>3, <2>4, <2>5
  <2>7. k * ChunkSize = i * ChunkSize + ChunkSize
    BY <2>2
  <2> QED BY <1>3, <2>2, <2>5, <2>6, <2>7
<1> QED BY <1>4, <1>5

\* A file has finitely many chunks.
LEMMA ChunksFinite == IsFiniteSet(Chunks)
BY TotalBounds, FS_Interval DEF Chunks

\* The bytes ahead of chunk n are those of all its chunks and the first n, less
\* the first n and what Read has served of chunk n.
LEMMA RestsFrom ==
    ASSUME NEW g, Sums(g, [i \in Chunks |-> ChunkLen(i)], Chunks), NEW n \in 0 .. Total,
           NEW A \in SUBSET Chunks, \A i \in A : i >= n /\ Served(i) \in Int /\ (i # n => Served(i) = 0)
    PROVE  MapThenSumSet(LAMBDA i : ChunkLen(i) - Served(i), A)
              = g[(0 .. n - 1) \cup A] - g[0 .. n - 1] - (IF n \in A THEN Served(n) ELSE 0)
<1> DEFINE B == 0 .. n - 1
           f == [i \in Chunks |-> ChunkLen(i)]
           Less(T) == IF n \in T THEN Served(n) ELSE 0
           r == [T \in SUBSET A |-> g[B \cup T] - g[B] - Less(T)]
           d == [i \in A |-> ChunkLen(i) - Served(i)]
<1>1. /\ B \in SUBSET Chunks /\ B \cap A = {} /\ n \in Nat
      /\ \A T \in SUBSET A : B \cup T \in SUBSET Chunks /\ \A x \in T : (B \cup T) \ {x} = B \cup (T \ {x})
  BY TotalBounds DEF Chunks
<1>2. /\ g \in [SUBSET Chunks -> Int]
      /\ \A T \in SUBSET Chunks : \A x \in T : g[T] = ChunkLen(x) + g[T \ {x}]
  BY DEF Sums
<1> HIDE DEF B
<1>3. \A T \in SUBSET A : g[B \cup T] \in Int /\ Less(T) \in Int
  BY <1>1, <1>2
<1>4. g[B] \in Int
  BY <1>1, <1>2
<1>5. r \in [SUBSET A -> Int]
  <2> HIDE DEF Less, d, f
  <2>1. ASSUME NEW T \in SUBSET A PROVE g[B \cup T] - g[B] - Less(T) \in Int
    <3>1. g[B \cup T] \in Int /\ Less(T) \in Int
      BY <1>3
    <3> QED BY ONLY <1>4, <3>1
  <2> QED BY <2>1
<1>6. r[{}] = 0
  BY <1>4
<1>7. ASSUME NEW T \in SUBSET A, NEW x \in T
      PROVE  r[T] = d[x] + r[T \ {x}]
  <2>1. g[B \cup T] = ChunkLen(x) + g[B \cup (T \ {x})]
    BY <1>1, <1>2
  <2>2. /\ ChunkLen(x) \in Int /\ Served(x) \in Int
        /\ g[B \cup (T \ {x})] \in Int /\ Less(T \ {x}) \in Int
    <3>1. x \in Chunks /\ x \in A /\ T \ {x} \in SUBSET A
      OBVIOUS
    <3>2. ChunkLen(x) \in Int
      BY <3>1, ChunkGeometry
    <3>3. Served(x) \in Int
      BY <3>1
    <3> HIDE DEF Less
    <3> QED BY <1>3, <3>1, <3>2, <3>3
  <2>3. Less(T) = Served(x) + Less(T \ {x})
    <3>1. CASE x = n
      BY <2>2, <3>1
    <3>2. CASE x # n
      BY <2>2, <3>2
    <3> QED BY <3>1, <3>2
  <2>4. /\ r[T] = g[B \cup T] - g[B] - Less(T)
        /\ r[T \ {x}] = g[B \cup (T \ {x})] - g[B] - Less(T \ {x})
        /\ d[x] = ChunkLen(x) - Served(x)
    OBVIOUS
  <2> HIDE DEF r, d, Less
  <2> QED BY ONLY <1>4, <2>1, <2>2, <2>3, <2>4
<1>8. Sums(r, d, A)
  <2> HIDE DEF r, d
  <2> QED BY <1>5, <1>6, <1>7 DEF Sums
<1>9. IsFiniteSet(A)
  BY ChunksFinite, FS_Subset
<1>10. MapThenSumSet(LAMBDA i : ChunkLen(i) - Served(i), A) = r[A]
  <2> HIDE DEF r
  <2> QED BY <1>8, <1>9, RestsAdded
<1> QED BY <1>10 DEF B

-----------------------------------------------------------------------------
(* The snapshot                                                             *)

\* Snapshot lists exactly the accepted chunks while the window is open, and
\* afterwards none that was not accepted.
LEMMA SnapshotLists ==
    ASSUME WindowInv, ContentInv
    PROVE  LET accepted == {i \in Chunks : crcs[i] # NoVersion}
           IN  IF err = "none" THEN SnapReceived = accepted ELSE SnapReceived \subseteq accepted
<1> DEFINE accepted == {i \in Chunks : crcs[i] # NoVersion}
<1>1. readPos \in 0 .. TotalSize
  BY DEF WindowInv, TypeOK
<1>2. ASSUME NEW i \in Chunks PROVE Consumed(i) <=> i < Frontier
  BY <1>1, ConsumedIsBehind
<1>3. ASSUME NEW i \in Chunks, Consumed(i) PROVE crcs[i] # NoVersion
  <2>1. /\ i * ChunkSize \in Nat /\ ChunkLen(i) \in 1 .. ChunkSize /\ readPos \in Nat
    BY <1>1, ChunkGeometry
  <2>2. i * ChunkSize < readPos
    BY <1>3, <2>1, WindowAssumption DEF Consumed
  <2> QED BY <2>2 DEF ContentInv, RecordsMatch
<1>4. ASSUME NEW i \in Chunks, Buffered(i) PROVE crcs[i] # NoVersion
  BY <1>4 DEF ContentInv, RecordsMatch
<1>5. SnapReceived \subseteq accepted
  BY <1>2, <1>3, <1>4 DEF SnapReceived
<1>6. ASSUME err = "none", NEW i \in accepted PROVE i \in SnapReceived
  <2>1. Consumed(i) \/ Buffered(i)
    BY <1>6 DEF ContentInv, RecordsMatch
  <2>2. CASE Consumed(i)
    BY <1>2, <2>2 DEF SnapReceived
  <2>3. CASE Buffered(i)
    <3>1. Slot(i) \in SlotIds /\ slotState[Slot(i)] # "free" /\ slotChunk[Slot(i)] = i
      BY <2>3, ChunkGeometry DEF Buffered
    <3>2. i \in Nat /\ i >= Frontier /\ i < Frontier + Slots /\ Frontier \in Nat
      BY <1>6, <3>1, HeldChunk
    <3>3. i \in Frontier .. Frontier + Slots - 1
      BY <3>2, WindowAssumption
    <3> QED BY <2>3, <3>3 DEF SnapReceived
  <2> QED BY <2>1, <2>2, <2>3
<1> QED BY <1>5, <1>6

\* Only of the chunk that Read is in has a part been served.
LEMMA ServedOnlyFirst ==
    ASSUME readPos \in 0 .. TotalSize
    PROVE  /\ \A i \in Chunks : Served(i) \in Int
           /\ \A i \in Chunks : i > Frontier => Served(i) = 0
           /\ Frontier # Total => /\ Frontier \in Chunks /\ Frontier = Current
                                  /\ Frontier * ChunkSize <= readPos /\ readPos < TotalSize
<1> USE WindowAssumption, TotalBounds
<1>1. \A i \in Chunks : i \in Nat /\ i * ChunkSize \in Nat /\ i < Total
  BY ChunkGeometry DEF Chunks
<1>2. CASE readPos >= TotalSize
  BY <1>1, <1>2 DEF Frontier, Served
<1>3. CASE readPos < TotalSize
  <2>1. /\ Current \in Chunks /\ Current * ChunkSize <= readPos /\ Frontier = Current
        /\ readPos < Current * ChunkSize + ChunkSize
    BY <1>3, CurrentChunk
  <2>2. ASSUME NEW i \in Chunks, i > Current PROVE readPos <= i * ChunkSize
    <3>1. Current * ChunkSize + ChunkSize <= i * ChunkSize
      BY <1>1, <2>1, <2>2, MulStep, ChunkSize \in Nat
    <3>2. Current * ChunkSize \in Nat /\ i * ChunkSize \in Nat
      BY <1>1, <2>1
    <3> QED BY <2>1, <3>1, <3>2
  <2>3. ASSUME NEW i \in Chunks, i > Current PROVE Served(i) = 0
    <3>1. i * ChunkSize \in Nat /\ readPos <= i * ChunkSize
      BY <1>1, <2>2, <2>3
    <3> QED BY <3>1 DEF Served
  <2>4. \A i \in Chunks : Served(i) \in Int
    BY <1>1 DEF Served
  <2> QED BY <1>3, <2>1, <2>3, <2>4
<1> QED BY <1>2, <1>3

\* The snapshot counts the bytes of the chunks it lists.
LEMMA SnapshotCounts ==
    ASSUME WindowInv, ContentInv, err = "none"
    PROVE  SnapReceivedBytes = MapThenSumSet(ChunkLen, SnapReceived)
<1> DEFINE ahead == {i \in Chunks : i \in Frontier .. Frontier + Slots - 1 /\ Buffered(i)}
           lens  == [i \in Chunks |-> ChunkLen(i)]
           N     == Frontier
<1>1. readPos \in 0 .. TotalSize
  BY DEF WindowInv, TypeOK
<1>2. N \in 0 .. Total
  BY <1>1, FrontierType
<1>3. PICK g : Sums(g, lens, Chunks)
  <2>1. \A i \in 0 .. Total - 1 : lens[i] \in Int
    BY ChunkGeometry DEF Chunks
  <2> HIDE DEF lens
  <2> QED BY <2>1, TotalBounds, SumsExist DEF Chunks
<1>4. ahead \in SUBSET Chunks /\ (0 .. N - 1) \cup ahead \in SUBSET Chunks
  BY <1>2, TotalBounds DEF Chunks
<1>5. SnapReceived = (0 .. N - 1) \cup ahead
  BY <1>2, TotalBounds DEF SnapReceived, Chunks
<1>6. MapThenSumSet(ChunkLen, SnapReceived) = g[(0 .. N - 1) \cup ahead]
  <2> DEFINE S == (0 .. N - 1) \cup ahead
             gS == [T \in SUBSET S |-> g[T]]
  <2>1. /\ g \in [SUBSET Chunks -> Int] /\ g[{}] = 0
        /\ \A T \in SUBSET Chunks : \A x \in T : g[T] = ChunkLen(x) + g[T \ {x}]
    BY <1>3 DEF Sums
  <2> HIDE DEF S
  <2>2. S \in SUBSET Chunks /\ SUBSET S \subseteq SUBSET Chunks
    BY <1>4 DEF S
  <2>3. \A T \in SUBSET S : \A x \in T : T \in SUBSET Chunks /\ T \ {x} \in SUBSET S /\ x \in S
    BY <2>2
  <2>4. gS \in [SUBSET S -> Int] /\ gS[{}] = 0
    BY <2>1, <2>2
  <2>5. ASSUME NEW T \in SUBSET S, NEW x \in T
        PROVE  gS[T] = [i \in S |-> ChunkLen(i)][x] + gS[T \ {x}]
    BY <2>1, <2>3
  <2>6. Sums(gS, [i \in S |-> ChunkLen(i)], S)
    <3> HIDE DEF gS
    <3> QED BY <2>4, <2>5 DEF Sums
  <2>7. IsFiniteSet(S)
    BY <2>2, ChunksFinite, FS_Subset
  <2>8. MapThenSumSet(ChunkLen, S) = gS[S]
    <3> HIDE DEF gS
    <3> QED BY <2>6, <2>7, LengthsAdded
  <2> QED BY <1>5, <2>8 DEF S
<1>7. MapThenSumSet(LAMBDA i : ChunkLen(i) - Served(i), ahead)
         = g[(0 .. N - 1) \cup ahead] - g[0 .. N - 1] - (IF N \in ahead THEN Served(N) ELSE 0)
  <2>1. \A i \in ahead : i >= N /\ Served(i) \in Int /\ (i # N => Served(i) = 0)
    BY <1>1, <1>2, ServedOnlyFirst DEF Chunks
  <2> HIDE DEF ahead, N
  <2> QED BY <1>2, <1>3, <1>4, <2>1, RestsFrom
<1>8. readPos = g[0 .. N - 1] + (IF N \in ahead THEN Served(N) ELSE 0)
  <2> USE WindowAssumption
  <2>1. g[0 .. N - 1] = IF N = Total THEN TotalSize ELSE N * ChunkSize
    <3> HIDE DEF N
    <3> QED BY <1>2, <1>3, FirstLengths
  <2>2. CASE N = Total
    <3>1. N \notin ahead
      BY <2>2, TotalBounds DEF Chunks
    <3>2. readPos = TotalSize
      BY <1>1, <2>2, CurrentChunk, TotalBounds DEF Frontier, Chunks
    <3> QED BY <2>1, <2>2, <3>1, <3>2
  <2>3. CASE N # Total
    <3>1. N \in Chunks /\ N * ChunkSize <= readPos /\ N * ChunkSize \in Nat
      BY <1>1, <2>3, ServedOnlyFirst, ChunkGeometry
    <3>2. CASE readPos > N * ChunkSize
      <4>1. ~Consumed(N) /\ crcs[N] # NoVersion
        BY <1>1, <3>1, <3>2, ConsumedIsBehind DEF ContentInv, RecordsMatch, Chunks
      <4>2. Buffered(N)
        BY <3>1, <4>1 DEF ContentInv, RecordsMatch
      <4>3. N \in N .. N + Slots - 1
        BY <3>1 DEF Chunks
      <4>4. N \in ahead
        BY <3>1, <4>2, <4>3
      <4>5. Served(N) = readPos - N * ChunkSize
        BY <3>2 DEF Served
      <4> HIDE DEF ahead, N
      <4> QED BY <1>1, <2>1, <2>3, <3>1, <4>4, <4>5
    <3>3. CASE ~(readPos > N * ChunkSize)
      <4>1. Served(N) = 0 /\ readPos = N * ChunkSize
        BY <1>1, <3>1, <3>3 DEF Served
      <4> HIDE DEF ahead, N
      <4> QED BY <1>1, <2>1, <2>3, <3>1, <4>1
    <3> QED BY <3>2, <3>3
  <2> QED BY <2>2, <2>3
<1>9. SnapReceivedBytes = readPos + MapThenSumSet(LAMBDA i : ChunkLen(i) - Served(i), ahead)
  BY DEF SnapReceivedBytes
<1>10. g[(0 .. N - 1) \cup ahead] \in Int /\ g[0 .. N - 1] \in Int
  <2>1. g \in [SUBSET Chunks -> Int] /\ 0 .. N - 1 \in SUBSET Chunks
    BY <1>3, <1>4 DEF Sums
  <2> HIDE DEF N, ahead
  <2> QED BY <1>4, <2>1
<1>11. (IF N \in ahead THEN Served(N) ELSE 0) \in Int
  BY <1>1, ServedOnlyFirst
<1> DEFINE s == IF N \in ahead THEN Served(N) ELSE 0
<1> HIDE DEF N, ahead
<1>12. readPos + (g[(0 .. N - 1) \cup ahead] - g[0 .. N - 1] - s) = g[(0 .. N - 1) \cup ahead]
  <2>1. readPos = g[0 .. N - 1] + s /\ s \in Int
    BY <1>8, <1>11
  <2> HIDE DEF s
  <2> QED BY ONLY <1>10, <2>1
<1> QED BY ONLY <1>6, <1>7, <1>9, <1>12

\* While the window is open the snapshot lists exactly the accepted chunks and
\* counts their bytes, also those of a chunk that Read is in; once it is closed
\* it lists no chunk that was not accepted.
THEOREM SnapshotsAreExact == Spec => []SnapshotExact
<1>1. WindowInv /\ ContentInv => SnapshotExact
  BY SnapshotLists, SnapshotCounts DEF SnapshotExact
<1> QED BY <1>1, WindowInvariant, ContentInvariant, PTL

-----------------------------------------------------------------------------
(* The window implements the chunk stream                                   *)

LEMMA StreamChunks == Stream!Chunks = Chunks /\ Stream!Seals = Seals
BY DEF Stream!Chunks, Chunks, Stream!Seals, Seals

\* A chunk is in flight from Admit to Publish, GiveUp or Close, and no other
\* chunk with it.
LEMMA FlightSteps ==
    ASSUME WindowInv
    PROVE  /\ \A w \in Writers : Admit(w) =>
                 \A i \in Chunks : InFlight(i)' <=> InFlight(i) \/ i = widx[w]
           /\ \A w \in Writers : Publish(w) \/ GiveUp(w) =>
                 /\ widx[w] \in Chunks /\ InFlight(widx[w])
                 /\ \A i \in Chunks : InFlight(i)' <=> InFlight(i) /\ i # widx[w]
           /\ ReadCommit => \A i \in Chunks : InFlight(i)' <=> InFlight(i)
           /\ \A e \in Seals : Close(e) => \A i \in Chunks : ~InFlight(i)'
<1>0. TypeOK /\ CallsInBounds /\ SlotsOwned
  BY DEF WindowInv
<1>s. \A i \in Chunks : Slot(i) \in SlotIds
  BY ChunkGeometry
<1>1. ASSUME NEW w \in Writers, Admit(w), NEW i \in Chunks
      PROVE  InFlight(i)' <=> InFlight(i) \/ i = widx[w]
  <2>1. /\ widx[w] \in Chunks /\ slotState[Slot(widx[w])] = "free"
        /\ slotState' = [slotState EXCEPT ![Slot(widx[w])] = "filling"]
        /\ slotChunk' = [slotChunk EXCEPT ![Slot(widx[w])] = widx[w]]
    BY <1>1 DEF Admit, InLoop, HasRoom
  <2>2. CASE Slot(i) = Slot(widx[w])
    <3>1. slotState'[Slot(i)] = "filling" /\ slotChunk'[Slot(i)] = widx[w]
      BY <1>0, <1>s, <2>1, <2>2 DEF TypeOK
    <3> QED BY <2>1, <2>2, <3>1 DEF InFlight
  <2>3. CASE Slot(i) # Slot(widx[w])
    <3>1. slotState'[Slot(i)] = slotState[Slot(i)] /\ slotChunk'[Slot(i)] = slotChunk[Slot(i)]
      BY <1>0, <1>s, <2>1, <2>3 DEF TypeOK
    <3> QED BY <2>3, <3>1 DEF InFlight
  <2> QED BY <2>2, <2>3
<1>2. ASSUME NEW w \in Writers, Publish(w) \/ GiveUp(w)
      PROVE  /\ widx[w] \in Chunks /\ InFlight(widx[w])
             /\ \A i \in Chunks : InFlight(i)' <=> InFlight(i) /\ i # widx[w]
  <2>1. widx[w] \in Chunks /\ InFlight(widx[w])
    BY <1>0, <1>2 DEF Publish, GiveUp, Owns, InFlight, CallsInBounds
  <2>2. /\ \/ slotState' = [slotState EXCEPT ![Slot(widx[w])] = "ready"]
           \/ slotState' = [slotState EXCEPT ![Slot(widx[w])] = "free"]
        /\ \/ slotChunk' = slotChunk
           \/ slotChunk' = [slotChunk EXCEPT ![Slot(widx[w])] = 0 - 1]
    BY <1>2 DEF Publish, GiveUp, FreeSlot
  <2>3. ASSUME NEW i \in Chunks PROVE InFlight(i)' <=> InFlight(i) /\ i # widx[w]
    <3>1. CASE Slot(i) = Slot(widx[w])
      <4>1. slotState'[Slot(i)] # "filling"
        BY <1>0, <1>s, <2>2, <3>1 DEF TypeOK
      <4>2. InFlight(i) => i = widx[w]
        BY <2>1, <3>1 DEF InFlight
      <4> QED BY <4>1, <4>2 DEF InFlight
    <3>2. CASE Slot(i) # Slot(widx[w])
      <4>1. slotState'[Slot(i)] = slotState[Slot(i)] /\ slotChunk'[Slot(i)] = slotChunk[Slot(i)]
        BY <1>0, <1>s, <2>1, <2>2, <3>2 DEF TypeOK
      <4> QED BY <3>2, <4>1 DEF InFlight
    <3> QED BY <3>1, <3>2
  <2> QED BY <2>1, <2>3
<1>3. ASSUME ReadCommit, NEW i \in Chunks PROVE InFlight(i)' <=> InFlight(i)
  <2>1. Current \in Chunks /\ rcall.chunk = Current
    BY <1>0, <1>3, CommitFrontier
  <2>2. CASE UNCHANGED slotVars
    BY <2>2 DEF slotVars, InFlight
  <2>3. CASE FreeSlot(Current)
    <3>1. CASE Slot(i) = Slot(Current)
      <4>1. slotState[Slot(i)] # "filling"
        BY <1>0, <1>3, <1>s, <2>1, <3>1 DEF SlotsOwned, ReadCommit, Buffered
      <4>2. slotState'[Slot(i)] # "filling"
        BY <1>0, <1>s, <2>3, <3>1 DEF FreeSlot, TypeOK
      <4> QED BY <4>1, <4>2 DEF InFlight
    <3>2. CASE Slot(i) # Slot(Current)
      <4>1. slotState'[Slot(i)] = slotState[Slot(i)] /\ slotChunk'[Slot(i)] = slotChunk[Slot(i)]
        BY <1>0, <1>s, <2>1, <2>3, <3>2 DEF FreeSlot, TypeOK
      <4> QED BY <4>1 DEF InFlight
    <3> QED BY <3>1, <3>2
  <2> QED BY <1>3, <2>1, <2>2, <2>3 DEF ReadCommit, LeaveChunk
<1>4. ASSUME NEW e \in Seals, Close(e), NEW i \in Chunks PROVE ~InFlight(i)'
  <2>1. slotState' = [s \in SlotIds |-> "free"]
    BY <1>4 DEF Close, ResetSlots, FreeAllSlots
  <2> QED BY <1>s, <2>1 DEF InFlight
<1> QED BY <1>1, <1>2, <1>3, <1>4

\* Publish and Seal change a stream in two places.
LEMMA StreamPublish ==
    ASSUME NEW c, NEW f, NEW n, NEW e, NEW i, NEW v
    PROVE  Stream!Publish([content |-> c, filling |-> f, frontier |-> n, sealed |-> e], i, v)
              = [content |-> [c EXCEPT ![i] = v], filling |-> f \ {i}, frontier |-> n, sealed |-> e]
<1> DEFINE s == [content |-> c, filling |-> f, frontier |-> n, sealed |-> e]
           p == [content |-> c, filling |-> f \ {i}, frontier |-> n, sealed |-> e]
<1>1. [s EXCEPT !.filling = @ \ {i}] = p
  OBVIOUS
<1>2. Stream!Publish(s, i, v) = [p EXCEPT !.content = [@ EXCEPT ![i] = v]]
  <2> HIDE DEF s, p
  <2> QED BY <1>1, Zenon DEF Stream!Publish
<1>3. [p EXCEPT !.content = [@ EXCEPT ![i] = v]]
         = [content |-> [c EXCEPT ![i] = v], filling |-> f \ {i}, frontier |-> n, sealed |-> e]
  OBVIOUS
<1> QED BY <1>2, <1>3, Zenon

LEMMA StreamSeal ==
    ASSUME NEW c, NEW f, NEW n, NEW e, NEW d
    PROVE  Stream!Seal([content |-> c, filling |-> f, frontier |-> n, sealed |-> e], d)
              = [content |-> c, filling |-> {}, frontier |-> n,
                 sealed |-> IF e = "none" THEN d ELSE e]
<1> DEFINE s == [content |-> c, filling |-> f, frontier |-> n, sealed |-> e]
           q == [content |-> c, filling |-> f, frontier |-> n,
                 sealed |-> IF e = "none" THEN d ELSE e]
<1>1. [s EXCEPT !.sealed = IF @ = "none" THEN d ELSE @] = q
  OBVIOUS
<1>2. Stream!Seal(s, d) = [q EXCEPT !.filling = {}]
  <2> HIDE DEF s, q
  <2> QED BY <1>1, Zenon DEF Stream!Seal
<1>3. [q EXCEPT !.filling = {}]
         = [content |-> c, filling |-> {}, frontier |-> n, sealed |-> IF e = "none" THEN d ELSE e]
  OBVIOUS
<1> QED BY <1>2, <1>3, Zenon

\* Every step of the window is a step of the stream or leaves it alone.
LEMMA StreamNext ==
    WindowInv /\ RecordsMatch /\ [Next]_vars =>
        [Stream!Next]_([content  |-> crcs, filling |-> {i \in Chunks : InFlight(i)},
                        frontier |-> Frontier, sealed |-> err])
<1> DEFINE fly == {i \in Chunks : InFlight(i)}
           st  == [content |-> crcs, filling |-> fly, frontier |-> Frontier, sealed |-> err]
<1> SUFFICES ASSUME WindowInv, RecordsMatch, [Next]_vars PROVE Stream!Next \/ st' = st
  OBVIOUS
<1> USE StreamChunks, WindowAssumption
<1>0. TypeOK
  BY DEF WindowInv
<1>a. ASSUME readPos' = readPos PROVE Frontier' = Frontier
  BY <1>a DEF Frontier
<1>b. ASSUME UNCHANGED <<slotVars, readPos, crcs, err>> PROVE st' = st
  BY <1>a, <1>b DEF slotVars, InFlight
<1>1. ASSUME NEW w \in Writers, Admit(w) PROVE Stream!Next
  <2> DEFINE i == widx[w]
  <2>1. /\ err = "none" /\ i \in Chunks /\ ~Consumed(i) /\ ~Buffered(i)
        /\ UNCHANGED <<readPos, crcs, err>>
    BY <1>1, AdmitRecord
  <2>2. slotState[Slot(i)] = "free" /\ i < Frontier + Slots
    BY <1>1 DEF Admit, HasRoom
  <2>3. crcs[i] = NoVersion /\ i \notin fly
    BY <2>1, <2>2 DEF RecordsMatch, InFlight
  <2>4. Stream!Admissible(st, i)
    BY <2>1, <2>2, <2>3 DEF Stream!Admissible, Stream!Accepted
  <2>5. fly' = fly \cup {i}
    BY <1>1, <2>1, FlightSteps
  <2>6. st' = Stream!Admit(st, i)
    <3> HIDE DEF fly
    <3> QED BY <1>a, <2>1, <2>5 DEF Stream!Admit
  <2> QED BY <2>1, <2>4, <2>6 DEF Stream!Next
<1>2. ASSUME NEW w \in Writers, WriteByte(w) PROVE st' = st
  BY <1>2, <1>b DEF WriteByte
<1>3. ASSUME NEW w \in Writers, Publish(w) PROVE Stream!Next
  <2> DEFINE i == widx[w]
  <2>1. /\ i \in fly /\ fly' = fly \ {i}
    BY <1>3, FlightSteps
  <2>2. wver[w] \in Versions /\ UNCHANGED <<readPos, err>>
    BY <1>3, PublishRecord
  <2>3. crcs' = [crcs EXCEPT ![i] = wver[w]]
    BY <1>3 DEF Publish
  <2>4. st' = Stream!Publish(st, i, wver[w])
    <3> HIDE DEF fly, st
    <3>0. st = [content |-> crcs, filling |-> fly, frontier |-> Frontier, sealed |-> err]
      BY DEF st
    <3>1. Stream!Publish(st, i, wver[w])
             = [content |-> [crcs EXCEPT ![i] = wver[w]], filling |-> fly \ {i},
                frontier |-> Frontier, sealed |-> err]
      BY <3>0, StreamPublish
    <3>2. st' = [content |-> crcs', filling |-> fly', frontier |-> Frontier', sealed |-> err']
      BY DEF st
    <3> QED BY <1>a, <2>1, <2>2, <2>3, <3>1, <3>2
  <2> QED BY <2>1, <2>2, <2>4 DEF Stream!Next
<1>4. ASSUME NEW w \in Writers, GiveUp(w) PROVE Stream!Next
  <2> DEFINE i == widx[w]
  <2>1. /\ i \in fly /\ fly' = fly \ {i}
    BY <1>4, FlightSteps
  <2>2. UNCHANGED <<readPos, crcs, err>>
    BY <1>4, GiveUpRecord
  <2>3. st' = Stream!Drop(st, i)
    <3> HIDE DEF fly
    <3> QED BY <1>a, <2>1, <2>2 DEF Stream!Drop
  <2> QED BY <2>1, <2>3 DEF Stream!Next
<1>5. CASE ReadStart \/ ReadRing
  BY <1>5, <1>b DEF ReadStart, ReadRing
<1>6. CASE ReadCommit
  <2>1. /\ Current \in Chunks /\ readPos' \in Nat /\ ChunkEnd(Current) \in Nat
        /\ UNCHANGED <<crcs, err>> /\ crcs[Current] # NoVersion
        /\ Frontier = Current
        /\ readPos' >= ChunkEnd(Current) => Frontier' = Current + 1
        /\ readPos' < ChunkEnd(Current)  => Frontier' = Current
    BY <1>6, CommitRecord, CommitFrontier DEF WindowInv, RecordsMatch
  <2>2. fly' = fly
    BY <1>6, FlightSteps
  <2>3. CASE Frontier' = Current
    BY <2>1, <2>2, <2>3
  <2>4. CASE Frontier' = Current + 1
    <3>1. Stream!CanAdvance(st)
      BY <2>1, TotalBounds DEF Stream!CanAdvance, Stream!Accepted, Chunks
    <3>2. st' = Stream!Advance(st)
      <4> HIDE DEF fly
      <4> QED BY <2>1, <2>2, <2>4 DEF Stream!Advance
    <3> QED BY <3>1, <3>2 DEF Stream!Next
  <2> QED BY <2>1, <2>3, <2>4
<1>7. ASSUME NEW e \in Seals, Close(e) PROVE Stream!Next
  <2>1. fly' = {}
    BY <1>7, FlightSteps
  <2>2. /\ UNCHANGED <<readPos, crcs>>
        /\ err' = IF err = "none" THEN e ELSE err
    BY <1>7 DEF Close
  <2>3. st' = Stream!Seal(st, e)
    <3> HIDE DEF fly, st
    <3>0. st = [content |-> crcs, filling |-> fly, frontier |-> Frontier, sealed |-> err]
      BY DEF st
    <3>1. Stream!Seal(st, e)
             = [content |-> crcs, filling |-> {},
                frontier |-> Frontier, sealed |-> IF err = "none" THEN e ELSE err]
      BY <3>0, StreamSeal
    <3>2. st' = [content |-> crcs', filling |-> fly', frontier |-> Frontier', sealed |-> err']
      BY DEF st
    <3> QED BY <1>a, <2>1, <2>2, <3>1, <3>2
  <2> QED BY <2>3 DEF Stream!Next
<1>8. CASE Quiet
  BY <1>8, <1>b DEF Quiet
<1> QED BY <1>1, <1>2, <1>3, <1>4, <1>5, <1>6, <1>7, <1>8, ContentCases

LEMMA StreamInit == Init => Stream!Init
<1> SUFFICES ASSUME Init PROVE Stream!Init
  OBVIOUS
<1> USE StreamChunks, WindowAssumption
<1>1. \A i \in Chunks : ~InFlight(i)
  BY ChunkGeometry DEF Init, InFlight
<1>2. Frontier = 0
  <2>1. readPos = 0 /\ TotalSize > 0
    BY DEF Init
  <2>2. 0 \div ChunkSize = 0
    BY DivUnique
  <2> QED BY <2>1, <2>2 DEF Frontier
<1>3. crcs = [i \in Stream!Chunks |-> NoVersion] /\ err = "none"
  BY DEF Init
<1> QED BY <1>1, <1>2, <1>3 DEF Stream!Init, Stream!Fresh

\* The window implements ChunkStream, what the session relies on: a chunk is
\* admitted within Slots of the consumer, accepted once, leaves in order, and
\* nothing is admitted or accepted after a close.
THEOREM WindowImplementsStream == Spec => ImplementsStream
<1>1. ContentInv => RecordsMatch
  BY DEF ContentInv
<1> QED BY <1>1, StreamInit, StreamNext, WindowInvariant, ContentInvariant, PTL
        DEF Spec, ImplementsStream, Stream!Spec
=============================================================================
