----------------------- MODULE MultipartWindowProofs -----------------------
(***************************************************************************)
(* Safety of the receiving window for every file size, chunk size, number   *)
(* of slots and set of writers.                                             *)
(***************************************************************************)
EXTENDS MultipartWindow, TLAPS

-----------------------------------------------------------------------------
(* Arithmetic of chunks and slots.                                          *)

\* Multiplying by the chunk size keeps an order of at least one.
LEMMA MulStep ==
    ASSUME NEW a \in Int, NEW b \in Int, a < b, NEW c \in Nat
    PROVE  a * c + c <= b * c
<1>1. (b - a - 1) * c >= 0
  OBVIOUS
<1>2. (b - a - 1) * c = b * c - a * c - c
  OBVIOUS
<1>3. a * c \in Int /\ b * c \in Int
  OBVIOUS
<1> QED BY <1>1, <1>2, <1>3

\* Integer division: quotient and remainder.
LEMMA DivBounds ==
    ASSUME NEW r \in Nat, NEW c \in Nat \ {0}
    PROVE  /\ r \div c \in Nat
           /\ (r \div c) * c <= r
           /\ r < (r \div c) * c + c
OBVIOUS

LEMMA DivUnique ==
    ASSUME NEW r \in Nat, NEW c \in Nat \ {0}, NEW q \in Int, q * c <= r, r < q * c + c
    PROVE  r \div c = q
<1>1. /\ r \div c \in Int /\ (r \div c) * c <= r /\ r < (r \div c) * c + c
  BY DivBounds
<1>2. CASE r \div c < q
  BY <1>1, <1>2, MulStep, c \in Nat
<1>3. CASE q < r \div c
  BY <1>1, <1>3, MulStep, c \in Nat
<1> QED BY <1>1, <1>2, <1>3

\* Two chunks less than a window apart have different slots.
LEMMA ModDistinct ==
    ASSUME NEW i \in Int, NEW j \in Int, NEW n \in Nat \ {0},
           i % n = j % n, i - j < n, j - i < n
    PROVE  i = j
<1> DEFINE p == i \div n
           q == j \div n
<1>1. i = p * n + (i % n) /\ p \in Int
  BY SMT
<1>2. j = q * n + (j % n) /\ q \in Int
  BY SMT
<1> HIDE DEF p, q
<1>3. i - j = p * n - q * n
  BY <1>1, <1>2
<1>4. CASE p < q
  BY <1>1, <1>2, <1>3, <1>4, MulStep, p * n \in Int, q * n \in Int, n \in Nat
<1>5. CASE q < p
  BY <1>1, <1>2, <1>3, <1>5, MulStep, p * n \in Int, q * n \in Int, n \in Nat
<1> QED BY <1>1, <1>2, <1>4, <1>5

\* The last chunk ends where the file ends, every other one where the next
\* chunk starts, and no chunk is empty.
LEMMA TotalBounds ==
    /\ Total \in Nat \ {0}
    /\ (Total - 1) * ChunkSize < TotalSize
    /\ TotalSize <= Total * ChunkSize
<1> USE WindowAssumption
<1> DEFINE r == TotalSize + ChunkSize - 1
<1>1. r \in Nat /\ r >= ChunkSize
  OBVIOUS
<1>2. /\ Total \in Nat
      /\ Total * ChunkSize <= r
      /\ r < Total * ChunkSize + ChunkSize
  BY <1>1, DivBounds DEF Total
<1>3. Total # 0
  BY <1>1, <1>2
<1>4. (Total - 1) * ChunkSize = Total * ChunkSize - ChunkSize /\ Total * ChunkSize \in Int
  BY <1>2
<1> QED BY <1>2, <1>3, <1>4

LEMMA ChunkGeometry ==
    ASSUME NEW i \in Chunks
    PROVE  /\ i * ChunkSize \in Nat
           /\ ChunkLen(i) \in 1 .. ChunkSize
           /\ ChunkEnd(i) = i * ChunkSize + ChunkLen(i)
           /\ ChunkEnd(i) \in 1 .. TotalSize
           /\ i = Total - 1 => ChunkEnd(i) = TotalSize
           /\ i # Total - 1 => ChunkEnd(i) = i * ChunkSize + ChunkSize
           /\ Slot(i) \in SlotIds
<1> USE WindowAssumption, TotalBounds
<1>1. i \in Nat /\ i <= Total - 1 /\ Total - 1 \in Nat
  BY DEF Chunks
<1>2. i * ChunkSize \in Nat /\ (Total - 1) * ChunkSize \in Nat
  BY <1>1
<1>3. Slot(i) \in SlotIds
  BY <1>1 DEF Slot, SlotIds
<1>4. CASE i = Total - 1
  <2>1. (Total - 1) * ChunkSize + ChunkSize = Total * ChunkSize
    BY TotalBounds
  <2>2. Total * ChunkSize \in Int
    BY TotalBounds
  <2> QED BY <1>2, <1>3, <1>4, <2>1, <2>2 DEF ChunkLen, ChunkEnd
<1>5. CASE i # Total - 1
  <2>1. i * ChunkSize + ChunkSize <= (Total - 1) * ChunkSize
    BY <1>1, <1>5, MulStep, ChunkSize \in Nat
  <2> QED BY <1>2, <1>3, <1>5, <2>1 DEF ChunkLen, ChunkEnd
<1> QED BY <1>4, <1>5

\* The chunk Read serves next contains readPos.
LEMMA CurrentChunk ==
    ASSUME readPos \in Nat, readPos < TotalSize
    PROVE  /\ Current \in Chunks
           /\ Current * ChunkSize <= readPos
           /\ readPos < ChunkEnd(Current)
           /\ readPos < Current * ChunkSize + ChunkSize
           /\ Frontier = Current
<1> USE WindowAssumption, TotalBounds
<1>1. /\ Current \in Nat
      /\ Current * ChunkSize <= readPos
      /\ readPos < Current * ChunkSize + ChunkSize
  BY DivBounds DEF Current
<1>2. Current < Total
  <2> SUFFICES ASSUME Total <= Current PROVE FALSE
    BY <1>1
  <2>1. CASE Total = Current
    BY <1>1, <2>1
  <2>2. CASE Total < Current
    <3>1. Total * ChunkSize + ChunkSize <= Current * ChunkSize
      BY <1>1, <2>2, MulStep, ChunkSize \in Nat
    <3> QED BY <1>1, <3>1, Total * ChunkSize \in Int, Current * ChunkSize \in Int
  <2> QED BY <1>1, <2>1, <2>2
<1>3. Current \in Chunks
  BY <1>1, <1>2 DEF Chunks
<1> QED BY <1>1, <1>3, ChunkGeometry DEF Frontier, Current

LEMMA FrontierType ==
    ASSUME readPos \in 0 .. TotalSize
    PROVE  Frontier \in 0 .. Total
<1> USE WindowAssumption, TotalBounds
<1>1. CASE readPos >= TotalSize
  BY <1>1 DEF Frontier
<1>2. CASE readPos < TotalSize
  BY <1>2, CurrentChunk DEF Chunks
<1> QED BY <1>1, <1>2

\* A chunk is consumed exactly when it is behind the frontier.
LEMMA ConsumedIsBehind ==
    ASSUME readPos \in 0 .. TotalSize, NEW i \in Chunks
    PROVE  Consumed(i) <=> i < Frontier
<1> USE WindowAssumption, TotalBounds
<1>1. /\ i \in Nat /\ i < Total /\ i * ChunkSize \in Nat /\ ChunkEnd(i) <= TotalSize
      /\ Consumed(i) <=> ChunkEnd(i) <= readPos
  BY ChunkGeometry DEF Consumed, ChunkEnd, Chunks
<1>2. CASE readPos >= TotalSize
  BY <1>1, <1>2, ChunkGeometry DEF Frontier
<1>3. CASE readPos < TotalSize
  <2>1. /\ Current \in Chunks /\ Frontier = Current
        /\ Current * ChunkSize <= readPos /\ readPos < ChunkEnd(Current)
    BY <1>3, CurrentChunk
  <2>2. Current \in Nat /\ Current < Total /\ Current * ChunkSize \in Nat
    BY <2>1, ChunkGeometry DEF Chunks
  <2>3. CASE i < Current
    <3>1. i * ChunkSize + ChunkSize <= Current * ChunkSize
      BY <1>1, <2>2, <2>3, MulStep, ChunkSize \in Nat
    <3>2. ChunkEnd(i) <= i * ChunkSize + ChunkSize
      BY <1>1, ChunkGeometry
    <3> QED BY <1>1, <2>1, <2>2, <2>3, <3>1, <3>2, ChunkGeometry
  <2>4. CASE i = Current
    BY <1>1, <1>3, <2>1, <2>2, <2>4, ChunkGeometry
  <2>5. CASE Current < i
    <3>1. Current * ChunkSize + ChunkSize <= i * ChunkSize
      BY <1>1, <2>2, <2>5, MulStep, ChunkSize \in Nat
    <3>2. ChunkEnd(Current) <= Current * ChunkSize + ChunkSize
      BY <2>1, ChunkGeometry
    <3>3. i * ChunkSize < ChunkEnd(i)
      BY <1>1, ChunkGeometry
    <3>4. ChunkEnd(i) \in Int /\ ChunkEnd(Current) \in Int
      BY <2>1, ChunkGeometry
    <3> QED BY <1>1, <1>3, <2>1, <2>2, <2>5, <3>1, <3>2, <3>3, <3>4
  <2> QED BY <1>1, <2>2, <2>3, <2>4, <2>5
<1> QED BY <1>2, <1>3

-----------------------------------------------------------------------------
(* Type correctness                                                         *)

\* What WriteChunk leaves behind when it returns r.
LEMMA ReturnType ==
    ASSUME TypeOK, NEW w \in Writers, NEW r \in Versions \cup {NoVersion} \cup Refusals, Return(w, r)
    PROVE  /\ reply' \in [Writers -> Versions \cup {NoVersion} \cup Refusals \cup {"none"}]
           /\ wpc' \in [Writers -> {"idle", "admit", "fill"}]
           /\ timer' \in [Writers -> BOOLEAN]
           /\ expired' \in [Writers -> BOOLEAN]
           /\ filled' \in [Writers -> 0 .. ChunkSize]
           /\ wver' \in [Writers -> Versions \cup {NoVersion}]
           /\ widx' \in [Writers -> Chunks \cup {0 - 1, Total}]
           /\ wpc' = [wpc EXCEPT ![w] = "idle"]
           /\ \A v \in Writers : v # w =>
                 widx'[v] = widx[v] /\ wver'[v] = wver[v] /\ filled'[v] = filled[v]
                 /\ timer'[v] = timer[v] /\ expired'[v] = expired[v]
<1> USE WindowAssumption DEF TypeOK
<1>1. 0 \in Chunks
  BY TotalBounds DEF Chunks
<1>2. widx' \in [Writers -> Chunks \cup {0 - 1, Total}]
  BY <1>1 DEF Return
<1>3. reply' \in [Writers -> Versions \cup {NoVersion} \cup Refusals \cup {"none"}]
  BY DEF Return
<1>4. filled' \in [Writers -> 0 .. ChunkSize]
  BY DEF Return
<1> QED BY <1>2, <1>3, <1>4 DEF Return

\* The byte of the ring a fill or a Read touches exists.
LEMMA RingPlace ==
    ASSUME NEW i \in Chunks, NEW o \in 0 .. ChunkSize - 1
    PROVE  Slot(i) * ChunkSize + o \in 0 .. Slots * ChunkSize - 1
<1> USE WindowAssumption
<1>1. Slot(i) \in Nat /\ Slot(i) < Slots
  BY ChunkGeometry DEF SlotIds
<1>2. Slot(i) * ChunkSize + ChunkSize <= Slots * ChunkSize
  BY <1>1, MulStep, ChunkSize \in Nat
<1>3. Slot(i) * ChunkSize \in Nat /\ Slots * ChunkSize \in Nat
  BY <1>1
<1> QED BY <1>2, <1>3

\* A step keeps every variable in its range.
LEMMA TypeStep == WindowInv /\ [Next]_vars => TypeOK'
<1> SUFFICES ASSUME TypeOK, CallsInBounds, [Next]_vars PROVE TypeOK'
  BY DEF WindowInv
<1> USE WindowAssumption DEF vars, slotVars, writerVars, readerVars
<1> DEFINE Results == Versions \cup {NoVersion} \cup Refusals
<1>1. ASSUME NEW w \in Writers, Call(w) PROVE TypeOK'
  BY <1>1 DEF Call, TypeOK
<1>2. ASSUME NEW w \in Writers, RejectClosed(w) PROVE TypeOK'
  <2>1. err \in Results
    BY <1>2 DEF RejectClosed, TypeOK, Refusals
  <2> QED BY <1>2, <2>1, ReturnType DEF RejectClosed, TypeOK
<1>3. ASSUME NEW w \in Writers, RejectIndex(w) PROVE TypeOK'
  <2>1. "badIndex" \in Results
    BY DEF Refusals
  <2> QED BY <1>3, <2>1, ReturnType DEF RejectIndex, TypeOK
<1>4. ASSUME NEW w \in Writers, Absorb(w) PROVE TypeOK'
  <2>1. crcs[widx[w]] \in Results
    BY <1>4 DEF Absorb, InLoop, TypeOK
  <2> QED BY <1>4, <2>1, ReturnType DEF Absorb, TypeOK
<1>5. ASSUME NEW w \in Writers, RejectInFlight(w) PROVE TypeOK'
  <2>1. "inFlight" \in Results
    BY DEF Refusals
  <2> QED BY <1>5, <2>1, ReturnType DEF RejectInFlight, TypeOK
<1>6. ASSUME NEW w \in Writers, Admit(w) PROVE TypeOK'
  <2>1. widx[w] \in Chunks
    BY <1>6 DEF Admit, InLoop
  <2>2. Slot(widx[w]) \in SlotIds
    BY <2>1, ChunkGeometry
  <2> QED BY <1>6, <2>1, <2>2 DEF Admit, TypeOK
<1>7. ASSUME NEW w \in Writers, RejectOutOfWindow(w) PROVE TypeOK'
  <2>1. "outOfWindow" \in Results
    BY DEF Refusals
  <2> QED BY <1>7, <2>1, ReturnType DEF RejectOutOfWindow, TypeOK
<1>8. ASSUME NEW w \in Writers, Park(w) PROVE TypeOK'
  BY <1>8 DEF Park, ArmTimer, TypeOK
<1>9. ASSUME NEW w \in Writers, Deadline(w) PROVE TypeOK'
  BY <1>9 DEF Deadline, TypeOK
<1>10. ASSUME NEW w \in Writers, TimerFires(w) PROVE TypeOK'
  BY <1>10 DEF TimerFires, TypeOK
<1>11. ASSUME NEW w \in Writers, WriteByte(w) PROVE TypeOK'
  <2>1. widx[w] \in Chunks /\ wver[w] \in Versions
    BY <1>11 DEF WriteByte, CallsInBounds
  <2>2. filled[w] \in Nat /\ ChunkLen(widx[w]) \in 1 .. ChunkSize
    BY <2>1, ChunkGeometry DEF TypeOK
  <2>3. filled[w] < ChunkLen(widx[w])
    BY <1>11 DEF WriteByte
  <2>4. filled' \in [Writers -> 0 .. ChunkSize]
    BY <1>11, <2>2, <2>3 DEF WriteByte, TypeOK
  <2>5. [pos |-> widx[w] * ChunkSize + filled[w], ver |-> wver[w]] \in Byte
    BY <2>1, <2>2, ChunkGeometry DEF Byte
  <2>6. ring' \in [0 .. Slots * ChunkSize - 1 -> Byte \cup {NoByte}]
    BY <1>11, <2>5 DEF WriteByte, TypeOK
  <2> QED BY <1>11, <2>4, <2>6 DEF WriteByte, TypeOK
<1>12. ASSUME NEW w \in Writers, Publish(w) PROVE TypeOK'
  <2>1. widx[w] \in Chunks /\ wver[w] \in Versions /\ Slot(widx[w]) \in SlotIds
    BY <1>12, ChunkGeometry DEF Publish, CallsInBounds
  <2>2. crcs' \in [Chunks -> Versions \cup {NoVersion}]
    BY <1>12, <2>1 DEF Publish, TypeOK
  <2>3. slotState' \in [SlotIds -> {"free", "filling", "ready"}]
    BY <1>12, <2>1 DEF Publish, TypeOK
  <2>4. wver[w] \in Results
    BY <2>1
  <2> QED BY <1>12, <2>2, <2>3, <2>4, ReturnType DEF Publish, TypeOK
<1>13. ASSUME NEW w \in Writers, GiveUp(w) PROVE TypeOK'
  <2>1. PICK r \in {"badBody"} \cup ({err} \ {"none"}) : Return(w, r)
    BY <1>13 DEF GiveUp
  <2>2. r \in Results
    BY <2>1 DEF TypeOK, Refusals
  <2>3. slotState' \in [SlotIds -> {"free", "filling", "ready"}]
    BY <1>13 DEF GiveUp, FreeSlot, TypeOK
  <2>4. slotChunk' \in [SlotIds -> Chunks \cup {0 - 1}]
    BY <1>13 DEF GiveUp, FreeSlot, TypeOK
  <2> QED BY <1>13, <2>1, <2>2, <2>3, <2>4, ReturnType DEF GiveUp, TypeOK
<1>14. ASSUME NEW w \in Writers, SlotLost(w) PROVE TypeOK'
  <2> DEFINE r == IF err # "none" THEN err ELSE "closed"
  <2>1. r \in Results
    BY DEF TypeOK, Refusals, Seals
  <2>2. Return(w, r)
    BY <1>14 DEF SlotLost
  <2> HIDE DEF r
  <2> QED BY <1>14, <2>1, <2>2, ReturnType DEF SlotLost, TypeOK
<1>15. CASE ReadCall
  <2>1. 0 \in Chunks
    BY TotalBounds DEF Chunks
  <2>2. PICK n \in 1 .. MaxRead : rcall' = [NoRead EXCEPT !.n = n]
    BY <1>15 DEF ReadCall
  <2>3. rcall' \in [chunk : Chunks, off : Nat, n : Nat]
    BY <2>1, <2>2 DEF NoRead
  <2> QED BY <1>15, <2>3 DEF ReadCall, TypeOK
<1>16. CASE ReadClosed
  BY <1>16 DEF ReadClosed, TypeOK
<1>17. CASE ReadEOF
  BY <1>17 DEF ReadEOF, TypeOK
<1>18. CASE ReadStart
  <2>1. readPos \in Nat /\ readPos < TotalSize
    BY <1>18 DEF ReadStart, TypeOK
  <2>2. /\ Current \in Chunks /\ Current * ChunkSize \in Nat /\ Current * ChunkSize <= readPos
        /\ readPos < ChunkEnd(Current) /\ ChunkEnd(Current) \in Nat
        /\ Slot(Current) * ChunkSize \in Nat
    <3>1. Current \in Chunks
      BY <2>1, CurrentChunk
    <3>2. Slot(Current) \in Nat
      BY <3>1, ChunkGeometry DEF SlotIds
    <3> QED BY <2>1, <3>1, <3>2, CurrentChunk, ChunkGeometry
  <2>3. rcall' \in [chunk : Chunks, off : Nat, n : Nat]
    BY <1>18, <2>1, <2>2 DEF ReadStart, TypeOK
  <2> QED BY <1>18, <2>3 DEF ReadStart, TypeOK
<1>19. CASE ReadPark
  BY <1>19 DEF ReadPark, TypeOK
<1>20. CASE ReadRing
  <2>1. got' \in Seq(Byte \cup {NoByte})
    <3>1. CASE ~Usable
      BY <1>20, <3>1 DEF ReadRing
    <3>2. CASE Usable
      <4>1. rcall.n \in Nat /\ rcall.off = Slot(Current) * ChunkSize + (readPos - Current * ChunkSize)
        BY <1>20 DEF ReadRing, CallsInBounds, TypeOK
      <4>2. /\ readPos \in Nat /\ Current \in Chunks /\ Current * ChunkSize \in Nat
            /\ Current * ChunkSize <= readPos
            /\ rcall.n \in 1 .. ChunkEnd(Current) - readPos
            /\ ChunkEnd(Current) \in Nat /\ ChunkEnd(Current) <= Current * ChunkSize + ChunkSize
        <5>1. readPos \in Nat /\ readPos < TotalSize
          BY <1>20 DEF ReadRing, CallsInBounds, TypeOK
        <5>2. Current \in Chunks
          BY <5>1, CurrentChunk
        <5> QED BY <1>20, <5>1, <5>2, CurrentChunk, ChunkGeometry DEF ReadRing, CallsInBounds
      <4>3. ASSUME NEW k \in 1 .. rcall.n
            PROVE  ring[rcall.off + k - 1] \in Byte \cup {NoByte}
        <5> DEFINE o == readPos - Current * ChunkSize + k - 1
        <5>1. o \in 0 .. ChunkSize - 1
          BY <4>1, <4>2
        <5>2. Slot(Current) \in Nat
          BY <4>2, ChunkGeometry DEF SlotIds
        <5>3. rcall.off + k - 1 = Slot(Current) * ChunkSize + o
          BY <4>1, <4>2, <5>2
        <5>4. Slot(Current) * ChunkSize + o \in 0 .. Slots * ChunkSize - 1
          BY <4>2, <5>1, RingPlace
        <5> QED BY <5>3, <5>4 DEF TypeOK
      <4> QED BY <1>20, <3>2, <4>1, <4>3 DEF ReadRing
    <3> QED BY <3>1, <3>2
  <2> QED BY <1>20, <2>1 DEF ReadRing, TypeOK
<1>21. CASE ReadCommit
  <2>1. /\ readPos \in Nat /\ Len(got) \in Nat /\ readPos + Len(got) <= ChunkEnd(Current)
        /\ ChunkEnd(Current) <= TotalSize
    <3>1. readPos \in Nat /\ readPos < TotalSize /\ got \in Seq(Byte \cup {NoByte})
      BY <1>21 DEF ReadCommit, CallsInBounds, TypeOK
    <3>2. Current \in Chunks
      BY <3>1, CurrentChunk
    <3>3. ChunkEnd(Current) \in 1 .. TotalSize
      BY <3>2, ChunkGeometry
    <3>4. Len(got) \in Nat
      BY <3>1
    <3>5. Len(got) <= rcall.n /\ rcall.n \in 1 .. ChunkEnd(Current) - readPos
      BY <1>21 DEF ReadCommit, CallsInBounds
    <3> QED BY <3>1, <3>3, <3>4, <3>5
  <2>2. readPos' \in 0 .. TotalSize
    <3>1. readPos' = readPos + Len(got) /\ ChunkEnd(Current) \in Int
      <4>1. readPos < TotalSize
        BY <1>21 DEF ReadCommit, CallsInBounds
      <4> QED BY <1>21, <2>1, <4>1, CurrentChunk, ChunkGeometry DEF ReadCommit
    <3> QED BY <2>1, <3>1
  <2>3. delivered' \in Seq(Byte \cup {NoByte})
    BY <1>21 DEF ReadCommit, TypeOK
  <2>4. slotState' \in [SlotIds -> {"free", "filling", "ready"}]
    BY <1>21 DEF ReadCommit, LeaveChunk, FreeSlot, TypeOK
  <2>5. slotChunk' \in [SlotIds -> Chunks \cup {0 - 1}] /\ waiting' \subseteq Writers \cup {Reader}
    BY <1>21 DEF ReadCommit, LeaveChunk, FreeSlot, TypeOK
  <2>6. rcall' \in [chunk : Chunks, off : Nat, n : Nat] /\ got' \in Seq(Byte \cup {NoByte})
    BY <1>21, TotalBounds DEF ReadCommit, NoRead, Chunks
  <2> QED BY <1>21, <2>2, <2>3, <2>4, <2>5, <2>6 DEF ReadCommit, TypeOK
<1>22. CASE ReadFailed
  BY <1>22 DEF ReadFailed, TypeOK
<1>23. ASSUME NEW e \in Seals, Close(e) PROVE TypeOK'
  BY <1>23 DEF Close, ResetSlots, FreeAllSlots, TypeOK
<1>24. CASE CloseFile
  BY <1>24 DEF CloseFile, TypeOK
<1>25. CASE RemoveFile
  BY <1>25 DEF RemoveFile, TypeOK
<1>26. CASE UNCHANGED vars
  BY <1>26 DEF TypeOK
<1> QED
  BY <1>1, <1>2, <1>3, <1>4, <1>5, <1>6, <1>7, <1>8, <1>9, <1>10, <1>11, <1>12, <1>13, <1>14,
     <1>15, <1>16, <1>17, <1>18, <1>19, <1>20, <1>21, <1>22, <1>23, <1>24, <1>25, <1>26
  DEF Next, Admission, ReadStep

-----------------------------------------------------------------------------
(* What a step of each kind does to the state the invariant is about        *)

\* WriteChunk returns without touching a slot: every refusal, the answer for a
\* chunk that is there already, and the writer whose slot a close has reset.
Leaves(w) ==
    /\ wpc[w] # "idle" /\ w \notin waiting
    /\ wpc' = [wpc EXCEPT ![w] = "idle"]
    /\ filled' = [filled EXCEPT ![w] = 0]
    /\ \A v \in Writers : v # w =>
          /\ widx'[v] = widx[v] /\ wver'[v] = wver[v]
          /\ timer'[v] = timer[v] /\ expired'[v] = expired[v]
    /\ UNCHANGED <<slotVars, readPos, err, waiting, readerVars>>

LEMMA ReturnLeaves ==
    ASSUME WindowInv, NEW w \in Writers,
           \/ RejectClosed(w) \/ RejectIndex(w) \/ Absorb(w) \/ RejectInFlight(w)
           \/ RejectOutOfWindow(w) \/ SlotLost(w)
    PROVE  Leaves(w)
<1> USE DEF WindowInv, TypeOK, Return, Leaves, AtLoop, InLoop
<1>1. CASE RejectClosed(w)
  BY <1>1 DEF RejectClosed
<1>2. CASE RejectIndex(w)
  BY <1>2 DEF RejectIndex
<1>3. CASE Absorb(w)
  BY <1>3 DEF Absorb
<1>4. CASE RejectInFlight(w)
  BY <1>4 DEF RejectInFlight
<1>5. CASE RejectOutOfWindow(w)
  BY <1>5 DEF RejectOutOfWindow
<1>6. CASE SlotLost(w)
  BY <1>6 DEF SlotLost, ParkedInLoop
<1> QED BY <1>1, <1>2, <1>3, <1>4, <1>5, <1>6

\* Chunks end in the order of their indexes.
LEMMA ChunkOrder ==
    ASSUME NEW i \in Chunks, NEW j \in Chunks, i < j
    PROVE  ChunkEnd(i) < ChunkEnd(j)
<1> USE WindowAssumption, TotalBounds
<1>1. i \in Nat /\ j \in Nat /\ i * ChunkSize + ChunkSize <= j * ChunkSize
  BY MulStep, ChunkSize \in Nat DEF Chunks
<1>2. /\ ChunkEnd(i) <= i * ChunkSize + ChunkSize /\ ChunkEnd(i) \in Int
      /\ j * ChunkSize < ChunkEnd(j) /\ ChunkEnd(j) \in Int
      /\ i * ChunkSize \in Int /\ j * ChunkSize \in Int
  BY <1>1, ChunkGeometry
<1> QED BY <1>1, <1>2

\* Read moves the frontier by one when it reaches the end of a chunk, otherwise
\* not at all.
LEMMA CommitFrontier ==
    ASSUME TypeOK, CallsInBounds, ReadCommit
    PROVE  /\ rcall.chunk = Current /\ Current \in Chunks /\ Frontier = Current
           /\ readPos' \in Nat /\ ChunkEnd(Current) \in Nat
           /\ readPos' >= ChunkEnd(Current) => Frontier' = Current + 1
           /\ readPos' < ChunkEnd(Current)  => Frontier' = Current
<1> USE WindowAssumption, TotalBounds
<1>1. rcall.chunk = Current /\ readPos \in Nat /\ readPos < TotalSize
  BY DEF ReadCommit, CallsInBounds, TypeOK
<1>2. /\ Current \in Chunks /\ Current * ChunkSize <= readPos /\ Frontier = Current
  BY <1>1, CurrentChunk
<1>3. /\ Current \in Nat /\ Current < Total /\ Current * ChunkSize \in Nat
      /\ ChunkEnd(Current) \in 1 .. TotalSize
      /\ ChunkEnd(Current) <= Current * ChunkSize + ChunkSize
  BY <1>2, ChunkGeometry DEF Chunks
<1>4. /\ readPos' \in Nat /\ readPos <= readPos' /\ readPos' <= ChunkEnd(Current)
  <2>1. got \in Seq(Byte \cup {NoByte})
    BY DEF TypeOK
  <2>2. Len(got) \in Nat /\ readPos' = readPos + Len(got)
    BY <2>1 DEF ReadCommit
  <2>3. Len(got) <= rcall.n /\ rcall.n \in 1 .. ChunkEnd(Current) - readPos
    BY DEF ReadCommit, CallsInBounds
  <2> QED BY <1>1, <1>3, <2>2, <2>3
<1>5. ASSUME readPos' >= ChunkEnd(Current) PROVE Frontier' = Current + 1
  <2>1. readPos' = ChunkEnd(Current)
    BY <1>3, <1>4, <1>5
  <2>2. CASE Current = Total - 1
    <3>1. readPos' = TotalSize
      BY <1>2, <2>1, <2>2, ChunkGeometry
    <3> QED BY <1>3, <2>2, <3>1 DEF Frontier
  <2>3. CASE Current # Total - 1
    <3> DEFINE j == Current + 1
    <3>1. j \in Chunks /\ Current < j /\ j \in Int
      BY <1>3, <2>3 DEF Chunks
    <3>2. ChunkEnd(Current) = Current * ChunkSize + ChunkSize
      BY <1>2, <2>3, ChunkGeometry
    <3>3. j * ChunkSize = Current * ChunkSize + ChunkSize
      BY <1>3
    <3>4. ChunkEnd(Current) < TotalSize
      BY <1>2, <1>3, <3>1, ChunkOrder, ChunkGeometry
    <3>5. readPos' \div ChunkSize = j
      <4> HIDE DEF j
      <4> QED BY <1>4, <2>1, <3>1, <3>2, <3>3, DivUnique
    <3> QED BY <1>3, <1>4, <2>1, <3>4, <3>5 DEF Frontier
  <2> QED BY <2>2, <2>3
<1>6. ASSUME readPos' < ChunkEnd(Current) PROVE Frontier' = Current
  <2>1. readPos' < TotalSize /\ Current * ChunkSize <= readPos'
        /\ readPos' < Current * ChunkSize + ChunkSize
    BY <1>1, <1>2, <1>3, <1>4, <1>6
  <2>2. readPos' \div ChunkSize = Current
    <3>1. Current \in Int /\ readPos' \in Nat /\ ChunkSize \in Nat \ {0}
      BY <1>3, <1>4
    <3> QED BY ONLY <2>1, <3>1, DivUnique
  <2>3. ~(readPos' >= TotalSize)
    BY <1>4, <2>1
  <2> QED BY <2>2, <2>3 DEF Frontier
<1> QED BY <1>1, <1>2, <1>3, <1>4, <1>5, <1>6

\* A Read that ends, at the end of the file or with an error.
ReadEnds ==
    /\ Reader \notin waiting
    /\ rpc' \in {"eof", "stopped"}
    /\ UNCHANGED <<slotVars, readPos, err, waiting, writerVars, rcall, got>>

\* The ring file is closed or removed, or nothing happens.
Elsewhere == UNCHANGED <<slotVars, readPos, err, waiting, writerVars, readerVars>>

\* The steps the invariant has to survive.
LEMMA StepCases ==
    ASSUME WindowInv, [Next]_vars
    PROVE  \/ \E w \in Writers : \/ Call(w) \/ Leaves(w) \/ Admit(w) \/ Park(w) \/ Deadline(w)
                                 \/ TimerFires(w) \/ WriteByte(w) \/ Publish(w) \/ GiveUp(w)
           \/ ReadCall \/ ReadEnds \/ ReadStart \/ ReadPark \/ ReadRing \/ ReadCommit
           \/ \E e \in Seals : Close(e)
           \/ Elsewhere
<1>1. CASE CloseFile \/ RemoveFile \/ UNCHANGED vars
  BY <1>1 DEF CloseFile, RemoveFile, vars, Elsewhere
<1>2. CASE ReadClosed \/ ReadEOF \/ ReadFailed
  BY <1>2 DEF ReadClosed, ReadEOF, ReadFailed, ReadAtLoop, ReadEnds, WindowInv, ParkedInLoop
<1>3. CASE \E w \in Writers : \/ RejectClosed(w) \/ RejectIndex(w) \/ Absorb(w) \/ RejectInFlight(w)
                              \/ RejectOutOfWindow(w) \/ SlotLost(w)
  BY <1>3, ReturnLeaves
<1> QED BY <1>1, <1>2, <1>3 DEF Next, Admission, ReadStep

-----------------------------------------------------------------------------
(* Each part of the invariant is preserved                                  *)

\* Fills and Reads stay inside their chunk.
LEMMA CallsStep == WindowInv /\ [Next]_vars => CallsInBounds'
<1> SUFFICES ASSUME WindowInv, [Next]_vars PROVE CallsInBounds'
  OBVIOUS
<1> USE WindowAssumption DEF slotVars, writerVars, readerVars, Current
<1>0. TypeOK /\ CallsInBounds
  BY DEF WindowInv
<1>1. ASSUME NEW w \in Writers, Call(w) PROVE CallsInBounds'
  BY <1>0, <1>1 DEF Call, CallsInBounds, TypeOK
<1>2. ASSUME NEW w \in Writers, Leaves(w) PROVE CallsInBounds'
  BY <1>0, <1>2 DEF Leaves, CallsInBounds, TypeOK
<1>3. ASSUME NEW w \in Writers, Admit(w) PROVE CallsInBounds'
  <2>1. widx[w] \in Chunks /\ wpc[w] = "admit"
    BY <1>3 DEF Admit, InLoop, AtLoop
  <2>2. filled[w] = 0 /\ ChunkLen(widx[w]) \in Nat
    BY <1>0, <2>1, ChunkGeometry DEF CallsInBounds
  <2> QED BY <1>0, <1>3, <2>1, <2>2 DEF Admit, CallsInBounds, TypeOK
<1>4. ASSUME NEW w \in Writers, Park(w) PROVE CallsInBounds'
  BY <1>0, <1>4 DEF Park, CallsInBounds
<1>5. ASSUME NEW w \in Writers, Deadline(w) PROVE CallsInBounds'
  BY <1>0, <1>5 DEF Deadline, CallsInBounds
<1>6. ASSUME NEW w \in Writers, TimerFires(w) PROVE CallsInBounds'
  BY <1>0, <1>6 DEF TimerFires, CallsInBounds
<1>7. ASSUME NEW w \in Writers, WriteByte(w) PROVE CallsInBounds'
  <2>1. widx[w] \in Chunks /\ wpc[w] = "fill" /\ filled[w] \in Nat /\ filled[w] < ChunkLen(widx[w])
    BY <1>0, <1>7 DEF WriteByte, CallsInBounds, TypeOK
  <2>2. ChunkLen(widx[w]) \in Nat /\ filled[w] + 1 <= ChunkLen(widx[w])
    BY <2>1, ChunkGeometry
  <2> QED BY <1>0, <1>7, <2>1, <2>2 DEF WriteByte, CallsInBounds, TypeOK
<1>8. ASSUME NEW w \in Writers, Publish(w) PROVE CallsInBounds'
  BY <1>0, <1>8 DEF Publish, Return, CallsInBounds, TypeOK
<1>9. ASSUME NEW w \in Writers, GiveUp(w) PROVE CallsInBounds'
  BY <1>0, <1>9 DEF GiveUp, Return, CallsInBounds, TypeOK
<1>10. CASE ReadCall
  BY <1>0, <1>10 DEF ReadCall, NoRead, CallsInBounds
<1>11. CASE ReadEnds
  BY <1>0, <1>11 DEF ReadEnds, CallsInBounds
<1>12. CASE ReadStart
  <2>1. /\ readPos \in Nat /\ readPos < TotalSize /\ rcall.n \in Nat /\ rcall.n >= 1
    BY <1>0, <1>12 DEF ReadStart, ReadAtLoop, CallsInBounds, TypeOK
  <2>2. readPos < ChunkEnd(Current) /\ ChunkEnd(Current) \in Nat
    BY <2>1, CurrentChunk, ChunkGeometry
  <2>3. rcall'.n \in 1 .. ChunkEnd(Current) - readPos
    BY <1>12, <2>1, <2>2 DEF ReadStart
  <2>4. /\ rcall'.chunk = Current
        /\ rcall'.off = Slot(Current) * ChunkSize + (readPos - Current * ChunkSize)
    BY <1>12 DEF ReadStart
  <2> QED BY <1>0, <1>12, <2>1, <2>3, <2>4 DEF ReadStart, CallsInBounds
<1>13. CASE ReadPark
  BY <1>0, <1>13 DEF ReadPark, CallsInBounds
<1>14. CASE ReadRing
  <2>1. rcall.n \in Nat
    BY <1>0 DEF TypeOK
  <2>2. Len(got') <= rcall.n
    BY <1>14, <2>1 DEF ReadRing
  <2> QED BY <1>0, <1>14, <2>2 DEF ReadRing, CallsInBounds
<1>15. CASE ReadCommit
  BY <1>0, <1>15 DEF ReadCommit, CallsInBounds
<1>16. ASSUME NEW e \in Seals, Close(e) PROVE CallsInBounds'
  BY <1>0, <1>16 DEF Close, CallsInBounds
<1>17. CASE Elsewhere
  BY <1>0, <1>17 DEF Elsewhere, CallsInBounds
<1> QED BY <1>1, <1>2, <1>3, <1>4, <1>5, <1>6, <1>7, <1>8, <1>9, <1>10, <1>11, <1>12, <1>13,
           <1>14, <1>15, <1>16, <1>17, StepCases

\* No two fills, and no fill and Read, use one slot.
LEMMA ApartStep == WindowInv /\ [Next]_vars => FillsApart'
<1> SUFFICES ASSUME WindowInv, [Next]_vars PROVE FillsApart'
  OBVIOUS
<1> USE DEF slotVars, writerVars, readerVars
<1>0. TypeOK /\ CallsInBounds /\ SlotsOwned /\ FillsApart
  BY DEF WindowInv
<1>1. ASSUME NEW w \in Writers, Call(w) PROVE FillsApart'
  BY <1>0, <1>1 DEF Call, FillsApart, TypeOK
<1>2. ASSUME NEW w \in Writers, Leaves(w) PROVE FillsApart'
  BY <1>0, <1>2 DEF Leaves, FillsApart, TypeOK
<1>3. ASSUME NEW w \in Writers, Admit(w) PROVE FillsApart'
  <2>1. err = "none" /\ slotState[Slot(widx[w])] = "free"
    BY <1>3 DEF Admit, InLoop, HasRoom
  <2>2. ASSUME NEW v \in Writers, wpc[v] = "fill"
        PROVE  slotState[Slot(widx[v])] = "filling" /\ Slot(widx[v]) # Slot(widx[w])
    BY <1>0, <2>1, <2>2 DEF SlotsOwned, Owns
  <2>3. ASSUME rpc \in {"reading", "got"} PROVE Slot(widx[w]) # Slot(rcall.chunk)
    BY <1>0, <2>1, <2>3 DEF SlotsOwned, CallsInBounds, Buffered
  <2> QED BY <1>0, <1>3, <2>2, <2>3 DEF Admit, FillsApart, TypeOK
<1>4. ASSUME NEW w \in Writers, Park(w) PROVE FillsApart'
  BY <1>0, <1>4 DEF Park, FillsApart
<1>5. ASSUME NEW w \in Writers, Deadline(w) PROVE FillsApart'
  BY <1>0, <1>5 DEF Deadline, FillsApart
<1>6. ASSUME NEW w \in Writers, TimerFires(w) PROVE FillsApart'
  BY <1>0, <1>6 DEF TimerFires, FillsApart
<1>7. ASSUME NEW w \in Writers, WriteByte(w) PROVE FillsApart'
  BY <1>0, <1>7 DEF WriteByte, FillsApart
<1>8. ASSUME NEW w \in Writers, Publish(w) PROVE FillsApart'
  BY <1>0, <1>8 DEF Publish, Return, FillsApart, TypeOK
<1>9. ASSUME NEW w \in Writers, GiveUp(w) PROVE FillsApart'
  BY <1>0, <1>9 DEF GiveUp, Return, FillsApart, TypeOK
<1>10. CASE ReadCall
  BY <1>0, <1>10 DEF ReadCall, FillsApart
<1>11. CASE ReadEnds
  BY <1>0, <1>11 DEF ReadEnds, FillsApart
<1>12. CASE ReadStart
  <2>1. err = "none" /\ slotState[Slot(Current)] = "ready" /\ rcall'.chunk = Current
    BY <1>12 DEF ReadStart, Buffered
  <2>2. ASSUME NEW w \in Writers, wpc[w] = "fill" PROVE Slot(widx[w]) # Slot(Current)
    BY <1>0, <2>1, <2>2 DEF SlotsOwned, Owns
  <2> QED BY <1>0, <1>12, <2>1, <2>2 DEF ReadStart, FillsApart
<1>13. CASE ReadPark
  BY <1>0, <1>13 DEF ReadPark, FillsApart
<1>14. CASE ReadRing
  BY <1>0, <1>14 DEF ReadRing, FillsApart
<1>15. CASE ReadCommit
  BY <1>0, <1>15 DEF ReadCommit, FillsApart
<1>16. ASSUME NEW e \in Seals, Close(e) PROVE FillsApart'
  BY <1>0, <1>16 DEF Close, FillsApart
<1>17. CASE Elsewhere
  BY <1>0, <1>17 DEF Elsewhere, FillsApart
<1> QED BY <1>1, <1>2, <1>3, <1>4, <1>5, <1>6, <1>7, <1>8, <1>9, <1>10, <1>11, <1>12, <1>13,
           <1>14, <1>15, <1>16, <1>17, StepCases

\* Only processes in their loop are parked.
LEMMA ParkedStep == WindowInv /\ [Next]_vars => ParkedInLoop'
<1> SUFFICES ASSUME WindowInv, [Next]_vars PROVE ParkedInLoop'
  OBVIOUS
<1> USE WindowAssumption DEF slotVars, writerVars, readerVars
<1>0. TypeOK /\ ParkedInLoop
  BY DEF WindowInv
<1>1. ASSUME NEW w \in Writers, Call(w) PROVE ParkedInLoop'
  BY <1>0, <1>1 DEF Call, ParkedInLoop, TypeOK
<1>2. ASSUME NEW w \in Writers, Leaves(w) PROVE ParkedInLoop'
  BY <1>0, <1>2 DEF Leaves, ParkedInLoop, TypeOK
<1>3. ASSUME NEW w \in Writers, Admit(w) PROVE ParkedInLoop'
  BY <1>0, <1>3 DEF Admit, InLoop, AtLoop, ParkedInLoop, TypeOK
<1>4. ASSUME NEW w \in Writers, Park(w) PROVE ParkedInLoop'
  BY <1>0, <1>4 DEF Park, InLoop, AtLoop, ParkedInLoop, TypeOK
<1>5. ASSUME NEW w \in Writers, Deadline(w) PROVE ParkedInLoop'
  BY <1>0, <1>5 DEF Deadline, ParkedInLoop
<1>6. ASSUME NEW w \in Writers, TimerFires(w) PROVE ParkedInLoop'
  BY <1>0, <1>6 DEF TimerFires, ParkedInLoop
<1>7. ASSUME NEW w \in Writers, WriteByte(w) PROVE ParkedInLoop'
  BY <1>0, <1>7 DEF WriteByte, ParkedInLoop
<1>8. ASSUME NEW w \in Writers, Publish(w) PROVE ParkedInLoop'
  BY <1>0, <1>8 DEF Publish, ParkedInLoop
<1>9. ASSUME NEW w \in Writers, GiveUp(w) PROVE ParkedInLoop'
  BY <1>0, <1>9 DEF GiveUp, Return, ParkedInLoop, TypeOK
<1>10. CASE ReadCall
  BY <1>0, <1>10 DEF ReadCall, ParkedInLoop
<1>11. CASE ReadEnds
  BY <1>0, <1>11 DEF ReadEnds, ParkedInLoop
<1>12. CASE ReadStart
  BY <1>0, <1>12 DEF ReadStart, ReadAtLoop, ParkedInLoop
<1>13. CASE ReadPark
  BY <1>0, <1>13 DEF ReadPark, ReadAtLoop, ParkedInLoop
<1>14. CASE ReadRing
  BY <1>0, <1>14 DEF ReadRing, ParkedInLoop
<1>15. CASE ReadCommit
  BY <1>0, <1>15 DEF ReadCommit, LeaveChunk, ParkedInLoop
<1>16. ASSUME NEW e \in Seals, Close(e) PROVE ParkedInLoop'
  BY <1>0, <1>16 DEF Close, ResetSlots, ParkedInLoop
<1>17. CASE Elsewhere
  BY <1>0, <1>17 DEF Elsewhere, ParkedInLoop
<1> QED BY <1>1, <1>2, <1>3, <1>4, <1>5, <1>6, <1>7, <1>8, <1>9, <1>10, <1>11, <1>12, <1>13,
           <1>14, <1>15, <1>16, <1>17, StepCases

\* A chunk in a slot lies in the window and in its own slot.
LEMMA HeldChunk ==
    ASSUME WindowInv, err = "none", NEW s \in SlotIds, slotState[s] # "free"
    PROVE  /\ slotChunk[s] \in Chunks /\ slotChunk[s] \in Nat /\ Slot(slotChunk[s]) = s
           /\ slotChunk[s] >= Frontier /\ slotChunk[s] < Frontier + Slots
           /\ Frontier \in Nat
<1>1. Frontier \in Nat
  BY TotalBounds, FrontierType DEF WindowInv, TypeOK
<1>2. slotChunk[s] \in Nat
  BY TotalBounds DEF WindowInv, SlotsOwned, Chunks
<1> QED BY <1>1, <1>2 DEF WindowInv, SlotsOwned

\* Slots belong to their writers and hold chunks of the window.
LEMMA SlotsStep == WindowInv /\ [Next]_vars => SlotsOwned'
<1> SUFFICES ASSUME WindowInv, [Next]_vars PROVE SlotsOwned'
  OBVIOUS
<1> USE WindowAssumption DEF slotVars, writerVars, readerVars
<1>0. TypeOK /\ CallsInBounds /\ SlotsOwned /\ FillsApart
  BY DEF WindowInv
<1>a. ASSUME UNCHANGED <<slotVars, readPos, err>>,
             \A w \in Writers : wpc'[w] = "fill" => wpc[w] = "fill" /\ widx'[w] = widx[w],
             rpc' \in {"reading", "got"} => rpc \in {"reading", "got"} \/ Buffered(Current)
      PROVE  SlotsOwned'
  BY <1>0, <1>a DEF SlotsOwned, Owns, Buffered, Current, Frontier
<1>1. ASSUME NEW w \in Writers, Call(w) PROVE SlotsOwned'
  BY <1>0, <1>1, <1>a DEF Call, TypeOK
<1>2. ASSUME NEW w \in Writers, Leaves(w) PROVE SlotsOwned'
  BY <1>0, <1>2, <1>a DEF Leaves, TypeOK
<1>3. ASSUME NEW w \in Writers, Admit(w) PROVE SlotsOwned'
  <2> DEFINE i == widx[w]
             t == Slot(i)
  <2>1. /\ err = "none" /\ i \in Chunks /\ ~Consumed(i) /\ slotState[t] = "free" /\ i < Frontier + Slots
    BY <1>3 DEF Admit, InLoop, HasRoom
  <2>2. i \in Nat /\ t \in SlotIds /\ Frontier \in Nat /\ i >= Frontier
    <3>1. readPos \in 0 .. TotalSize
      BY <1>0 DEF TypeOK
    <3>2. Frontier \in Nat /\ i \in Nat
      BY <2>1, <3>1, FrontierType, TotalBounds DEF Chunks
    <3>3. ~(i < Frontier)
      BY <2>1, <3>1, ConsumedIsBehind
    <3> QED BY <2>1, <3>2, <3>3, ChunkGeometry
  <2>3. /\ slotState' = [slotState EXCEPT ![t] = "filling"]
        /\ slotChunk' = [slotChunk EXCEPT ![t] = i]
        /\ wpc' = [wpc EXCEPT ![w] = "fill"]
        /\ UNCHANGED <<readPos, err, widx, readerVars>>
        /\ Frontier' = Frontier /\ Current' = Current
    BY <1>3 DEF Admit, Frontier, Current
  <2> HIDE DEF t
  <2>4. ASSUME NEW v \in Writers, wpc'[v] = "fill" PROVE Owns(v)'
    <3>1. CASE v = w
      BY <1>0, <2>2, <2>3, <3>1 DEF Owns, TypeOK, t
    <3>2. CASE v # w
      <4>1. slotState[Slot(widx[v])] = "filling" /\ slotChunk[Slot(widx[v])] = widx[v]
        BY <1>0, <2>1, <2>3, <2>4, <3>2 DEF SlotsOwned, Owns, TypeOK
      <4> QED BY <1>0, <2>1, <2>3, <4>1 DEF Owns, TypeOK
    <3> QED BY <3>1, <3>2
  <2>5. ASSUME rpc' \in {"reading", "got"} PROVE Buffered(Current)'
    <3>1. slotState[Slot(Current)] = "ready" /\ slotChunk[Slot(Current)] = Current
      BY <1>0, <2>1, <2>3, <2>5 DEF SlotsOwned, Buffered
    <3> QED BY <1>0, <2>1, <2>3, <3>1 DEF Buffered, TypeOK
  <2>6. ASSUME NEW s \in SlotIds, slotState'[s] # "free"
        PROVE  /\ slotChunk'[s] \in Chunks /\ Slot(slotChunk'[s]) = s
               /\ slotChunk'[s] >= Frontier' /\ slotChunk'[s] < Frontier' + Slots
    <3>1. CASE s = t
      BY <1>0, <2>1, <2>2, <2>3, <3>1 DEF TypeOK, t
    <3>2. CASE s # t
      BY <1>0, <2>1, <2>3, <2>6, <3>2, HeldChunk DEF TypeOK
    <3> QED BY <3>1, <3>2
  <2>7. \A s \in SlotIds : slotState'[s] = "free" <=> slotChunk'[s] = 0 - 1
    BY <1>0, <2>2, <2>3 DEF SlotsOwned, TypeOK
  <2> QED BY <2>1, <2>3, <2>4, <2>5, <2>6, <2>7 DEF SlotsOwned
<1>4. ASSUME NEW w \in Writers, Park(w) PROVE SlotsOwned'
  BY <1>0, <1>4, <1>a DEF Park
<1>5. ASSUME NEW w \in Writers, Deadline(w) PROVE SlotsOwned'
  BY <1>0, <1>5, <1>a DEF Deadline
<1>6. ASSUME NEW w \in Writers, TimerFires(w) PROVE SlotsOwned'
  BY <1>0, <1>6, <1>a DEF TimerFires
<1>7. ASSUME NEW w \in Writers, WriteByte(w) PROVE SlotsOwned'
  BY <1>0, <1>7, <1>a DEF WriteByte
<1>8. ASSUME NEW w \in Writers, Publish(w) PROVE SlotsOwned'
  <2> DEFINE i == widx[w]
             t == Slot(i)
  <2>1. /\ err = "none" /\ wpc[w] = "fill" /\ slotState[t] = "filling" /\ slotChunk[t] = i
        /\ i \in Chunks /\ t \in SlotIds
    BY <1>0, <1>8, ChunkGeometry DEF Publish, Owns, CallsInBounds
  <2>2. /\ slotState' = [slotState EXCEPT ![t] = "ready"]
        /\ UNCHANGED <<slotChunk, readPos, err, readerVars>>
        /\ wpc' = [wpc EXCEPT ![w] = "idle"]
        /\ \A v \in Writers : v # w => widx'[v] = widx[v]
        /\ Frontier' = Frontier /\ Current' = Current
    BY <1>0, <1>8 DEF Publish, Return, Frontier, Current, TypeOK
  <2>3. ASSUME NEW v \in Writers, wpc'[v] = "fill" PROVE Owns(v)'
    <3>1. v # w /\ wpc[v] = "fill" /\ widx'[v] = widx[v]
      BY <1>0, <2>2, <2>3 DEF TypeOK
    <3>2. Slot(widx[v]) # t
      BY <1>0, <2>1, <3>1 DEF FillsApart
    <3>3. slotState[Slot(widx[v])] = "filling" /\ slotChunk[Slot(widx[v])] = widx[v]
      BY <1>0, <2>1, <3>1 DEF SlotsOwned, Owns
    <3> QED BY <1>0, <2>2, <3>1, <3>2, <3>3 DEF Owns, TypeOK
  <2>4. ASSUME rpc' \in {"reading", "got"} PROVE Buffered(Current)'
    <3>1. slotState[Slot(Current)] = "ready" /\ slotChunk[Slot(Current)] = Current
      BY <1>0, <2>1, <2>2, <2>4 DEF SlotsOwned, Buffered
    <3> QED BY <1>0, <2>1, <2>2, <3>1 DEF Buffered, TypeOK
  <2>5. ASSUME NEW s \in SlotIds, slotState'[s] # "free"
        PROVE  /\ slotChunk'[s] \in Chunks /\ Slot(slotChunk'[s]) = s
               /\ slotChunk'[s] >= Frontier' /\ slotChunk'[s] < Frontier' + Slots
    <3>1. slotState[s] # "free"
      BY <1>0, <2>1, <2>2, <2>5 DEF TypeOK
    <3> QED BY <2>1, <2>2, <3>1, HeldChunk
  <2>6. \A s \in SlotIds : slotState'[s] = "free" <=> slotChunk'[s] = 0 - 1
    BY <1>0, <2>1, <2>2 DEF SlotsOwned, TypeOK
  <2> QED BY <2>1, <2>2, <2>3, <2>4, <2>5, <2>6 DEF SlotsOwned
<1>9. ASSUME NEW w \in Writers, GiveUp(w) PROVE SlotsOwned'
  <2> DEFINE i == widx[w]
             t == Slot(i)
  <2>1. /\ wpc[w] = "fill" /\ slotState[t] = "filling" /\ slotChunk[t] = i
        /\ i \in Chunks /\ t \in SlotIds
    BY <1>0, <1>9, ChunkGeometry DEF GiveUp, Owns, CallsInBounds
  <2>2. /\ slotState' = [slotState EXCEPT ![t] = "free"]
        /\ slotChunk' = [slotChunk EXCEPT ![t] = 0 - 1]
        /\ UNCHANGED <<readPos, err, readerVars>>
        /\ wpc' = [wpc EXCEPT ![w] = "idle"]
        /\ \A v \in Writers : v # w => widx'[v] = widx[v]
        /\ Frontier' = Frontier /\ Current' = Current
    BY <1>0, <1>9 DEF GiveUp, FreeSlot, Return, Frontier, Current, TypeOK
  <2>3. err = "none"
    BY <1>0, <2>1 DEF SlotsOwned
  <2>4. ASSUME NEW v \in Writers, wpc'[v] = "fill" PROVE Owns(v)'
    <3>1. v # w /\ wpc[v] = "fill" /\ widx'[v] = widx[v]
      BY <1>0, <2>2, <2>4 DEF TypeOK
    <3>2. Slot(widx[v]) # t
      BY <1>0, <2>1, <3>1 DEF FillsApart
    <3>3. slotState[Slot(widx[v])] = "filling" /\ slotChunk[Slot(widx[v])] = widx[v]
      BY <1>0, <2>3, <3>1 DEF SlotsOwned, Owns
    <3> QED BY <1>0, <2>2, <3>1, <3>2, <3>3 DEF Owns, TypeOK
  <2>5. ASSUME rpc' \in {"reading", "got"} PROVE Buffered(Current)'
    <3>1. slotState[Slot(Current)] = "ready" /\ slotChunk[Slot(Current)] = Current
      BY <1>0, <2>2, <2>3, <2>5 DEF SlotsOwned, Buffered
    <3> QED BY <1>0, <2>1, <2>2, <3>1 DEF Buffered, TypeOK
  <2>6. ASSUME NEW s \in SlotIds, slotState'[s] # "free"
        PROVE  /\ slotChunk'[s] \in Chunks /\ Slot(slotChunk'[s]) = s
               /\ slotChunk'[s] >= Frontier' /\ slotChunk'[s] < Frontier' + Slots
    <3>1. slotState[s] # "free" /\ slotChunk'[s] = slotChunk[s]
      BY <1>0, <2>1, <2>2, <2>6 DEF TypeOK
    <3> QED BY <2>2, <2>3, <3>1, HeldChunk
  <2>7. \A s \in SlotIds : slotState'[s] = "free" <=> slotChunk'[s] = 0 - 1
    BY <1>0, <2>1, <2>2 DEF SlotsOwned, TypeOK
  <2> QED BY <2>2, <2>3, <2>4, <2>5, <2>6, <2>7 DEF SlotsOwned
<1>10. CASE ReadCall
  BY <1>0, <1>10, <1>a DEF ReadCall
<1>11. CASE ReadEnds
  BY <1>0, <1>11, <1>a DEF ReadEnds
<1>12. CASE ReadStart
  BY <1>0, <1>12, <1>a DEF ReadStart
<1>13. CASE ReadPark
  BY <1>0, <1>13, <1>a DEF ReadPark
<1>14. CASE ReadRing
  BY <1>0, <1>14, <1>a DEF ReadRing
<1>15. CASE ReadCommit
  <2>1. /\ rcall.chunk = Current /\ Current \in Chunks /\ Frontier = Current
        /\ readPos' \in Nat /\ ChunkEnd(Current) \in Nat /\ Current \in Nat
        /\ Slot(Current) \in SlotIds
    BY <1>0, <1>15, CommitFrontier, ChunkGeometry, TotalBounds DEF Chunks
  <2>2. UNCHANGED <<wpc, widx, err>> /\ rpc' = "idle"
    BY <1>15 DEF ReadCommit
  <2>3. CASE readPos' >= ChunkEnd(Current)
    <3>1. /\ slotState' = [slotState EXCEPT ![Slot(Current)] = "free"]
          /\ slotChunk' = [slotChunk EXCEPT ![Slot(Current)] = 0 - 1]
      BY <1>15, <2>1, <2>3 DEF ReadCommit, LeaveChunk, FreeSlot
    <3>2. Frontier' = Current + 1
      BY <1>0, <1>15, <2>3, CommitFrontier
    <3>3. ASSUME NEW v \in Writers, wpc[v] = "fill", err = "none" PROVE Owns(v)'
      <4>1. Slot(widx[v]) # Slot(Current)
        BY <1>0, <1>15, <2>1, <3>3 DEF FillsApart, ReadCommit
      <4>2. slotState[Slot(widx[v])] = "filling" /\ slotChunk[Slot(widx[v])] = widx[v]
        BY <1>0, <3>3 DEF SlotsOwned, Owns
      <4> QED BY <1>0, <2>2, <3>1, <4>1, <4>2 DEF Owns, TypeOK
    <3>4. ASSUME NEW s \in SlotIds, slotState'[s] # "free", err = "none"
          PROVE  /\ slotChunk'[s] \in Chunks /\ Slot(slotChunk'[s]) = s
                 /\ slotChunk'[s] >= Frontier' /\ slotChunk'[s] < Frontier' + Slots
      <4>1. s # Slot(Current) /\ slotState[s] # "free" /\ slotChunk'[s] = slotChunk[s]
        BY <1>0, <2>1, <3>1, <3>4 DEF TypeOK
      <4>2. /\ slotChunk[s] \in Chunks /\ slotChunk[s] \in Nat /\ Slot(slotChunk[s]) = s
            /\ slotChunk[s] >= Current /\ slotChunk[s] < Current + Slots
        BY <2>1, <3>4, <4>1, HeldChunk
      <4>3. slotChunk[s] # Current
        BY <4>1, <4>2
      <4> QED BY <2>1, <3>2, <4>1, <4>2, <4>3
    <3>5. \A s \in SlotIds : slotState'[s] = "free" <=> slotChunk'[s] = 0 - 1
      BY <1>0, <2>1, <3>1 DEF SlotsOwned, TypeOK
    <3>6. err # "none" => \A s \in SlotIds : slotState'[s] = "free"
      BY <1>0, <2>1, <3>1 DEF SlotsOwned, TypeOK
    <3> QED BY <2>2, <3>3, <3>4, <3>5, <3>6 DEF SlotsOwned
  <2>4. CASE readPos' < ChunkEnd(Current)
    <3>1. UNCHANGED <<slotState, slotChunk>>
      BY <1>15, <2>1, <2>4 DEF ReadCommit
    <3>2. Frontier' = Frontier
      BY <1>0, <1>15, <2>1, <2>4, CommitFrontier
    <3> QED BY <1>0, <2>2, <3>1, <3>2 DEF SlotsOwned, Owns
  <2> QED BY <2>1, <2>3, <2>4
<1>16. ASSUME NEW e \in Seals, Close(e) PROVE SlotsOwned'
  <2>1. err' # "none"
    BY <1>16 DEF Close, Seals
  <2>2. slotState' = [s \in SlotIds |-> "free"] /\ slotChunk' = [s \in SlotIds |-> 0 - 1]
    BY <1>16 DEF Close, ResetSlots, FreeAllSlots
  <2> QED BY <2>1, <2>2 DEF SlotsOwned
<1>17. CASE Elsewhere
  BY <1>0, <1>17, <1>a DEF Elsewhere
<1> QED BY <1>1, <1>2, <1>3, <1>4, <1>5, <1>6, <1>7, <1>8, <1>9, <1>10, <1>11, <1>12, <1>13,
           <1>14, <1>15, <1>16, <1>17, StepCases

\* Chunks that were not consumed stay so while Read stays inside its chunk.
LEMMA StillAhead ==
    ASSUME TypeOK, CallsInBounds, ReadCommit, readPos' < ChunkEnd(Current),
           NEW i \in Chunks, ~Consumed(i)
    PROVE  ~Consumed(i)'
<1> USE WindowAssumption
<1>1. /\ Current \in Chunks /\ Frontier = Current /\ readPos' \in Nat /\ Current \in Nat
      /\ i \in Nat /\ ChunkEnd(Current) \in Nat
  BY CommitFrontier, TotalBounds DEF Chunks
<1>2. ~(i < Current)
  <2>1. readPos \in 0 .. TotalSize
    BY DEF TypeOK
  <2> QED BY <1>1, <2>1, ConsumedIsBehind
<1>3. ChunkEnd(i) >= ChunkEnd(Current) /\ ChunkEnd(i) \in Nat
  <2>1. CASE i = Current
    BY <1>1, <2>1
  <2>2. CASE Current < i
    BY <1>1, <2>2, ChunkOrder, ChunkGeometry
  <2> QED BY <1>1, <1>2, <2>1, <2>2
<1>4. ~(ChunkEnd(i) <= readPos')
  BY <1>1, <1>3
<1> QED BY <1>4 DEF Consumed, ChunkEnd

\* Whoever is parked has nothing to do.
LEMMA WakeupStep == WindowInv /\ [Next]_vars => NoLostWakeup'
<1> SUFFICES ASSUME WindowInv, [Next]_vars PROVE NoLostWakeup'
  OBVIOUS
<1> USE WindowAssumption DEF slotVars, writerVars, readerVars
<1>0. TypeOK /\ CallsInBounds /\ SlotsOwned /\ ParkedInLoop /\ NoLostWakeup
  BY DEF WindowInv
<1>a. ASSUME waiting' = {} PROVE NoLostWakeup'
  BY <1>a DEF NoLostWakeup
\* Nothing a parked process waits for has changed.
<1>b. ASSUME UNCHANGED <<slotVars, readPos, err, waiting>>,
             \A w \in waiting \cap Writers :
                widx'[w] = widx[w] /\ (timer'[w] \/ ~expired'[w])
      PROVE  NoLostWakeup'
  BY <1>0, <1>b DEF NoLostWakeup, MustWait, Consumed, Buffered, InFlight, HasRoom, Frontier, Current
<1>1. ASSUME NEW w \in Writers, Call(w) PROVE NoLostWakeup'
  BY <1>0, <1>1, <1>b DEF Call, ParkedInLoop, NoLostWakeup, TypeOK
<1>2. ASSUME NEW w \in Writers, Leaves(w) PROVE NoLostWakeup'
  BY <1>0, <1>2, <1>b DEF Leaves, NoLostWakeup, TypeOK
<1>3. ASSUME NEW w \in Writers, Admit(w) PROVE NoLostWakeup'
  <2> DEFINE t == Slot(widx[w])
  <2>1. /\ err = "none" /\ widx[w] \in Chunks /\ HasRoom(widx[w]) /\ slotState[t] = "free"
        /\ w \notin waiting
    BY <1>3 DEF Admit, InLoop, AtLoop, HasRoom
  <2>2. t \in SlotIds
    BY <2>1, ChunkGeometry
  <2>3. /\ slotState' = [slotState EXCEPT ![t] = "filling"]
        /\ slotChunk' = [slotChunk EXCEPT ![t] = widx[w]]
        /\ UNCHANGED <<readPos, err, waiting, widx>>
        /\ Frontier' = Frontier /\ Current' = Current
        /\ \A v \in Writers : v # w => timer'[v] = timer[v] /\ expired'[v] = expired[v]
    BY <1>0, <1>3 DEF Admit, Frontier, Current, TypeOK
  <2> HIDE DEF t
  <2>4. slotState'[t] = "filling" /\ \A s \in SlotIds : s # t => slotState'[s] = slotState[s]
                                                              /\ slotChunk'[s] = slotChunk[s]
    BY <1>0, <2>2, <2>3 DEF TypeOK
  <2>5. slotChunk'[t] = widx[w]
    BY <1>0, <2>2, <2>3 DEF TypeOK
  <2>6. ASSUME NEW v \in waiting \cap Writers PROVE MustWait(widx[v])'
    <3>1. MustWait(widx[v]) /\ widx[v] \in Chunks /\ Slot(widx[v]) \in SlotIds
      BY <1>0, ChunkGeometry DEF NoLostWakeup, ParkedInLoop
    <3>2. widx[v] # widx[w]
      BY <2>1, <3>1 DEF MustWait
    <3>3. CASE Slot(widx[v]) = t
      BY <2>3, <2>4, <2>5, <3>1, <3>2, <3>3 DEF MustWait, Consumed, Buffered, InFlight, HasRoom
    <3>4. CASE Slot(widx[v]) # t
      BY <2>3, <2>4, <3>1, <3>4 DEF MustWait, Consumed, Buffered, InFlight, HasRoom
    <3> QED BY <3>3, <3>4
  <2>7. ASSUME Reader \in waiting PROVE ~Buffered(Current)'
    <3>1. ~Buffered(Current) /\ readPos \in Nat /\ readPos < TotalSize
      BY <1>0, <2>7 DEF NoLostWakeup, ParkedInLoop, TypeOK
    <3>2. Slot(Current) \in SlotIds
      BY <3>1, CurrentChunk, ChunkGeometry
    <3> QED BY <2>3, <2>4, <3>1, <3>2 DEF Buffered
  <2>8. \A v \in waiting \cap Writers : timer'[v] \/ ~expired'[v]
    BY <1>0, <2>1, <2>3 DEF NoLostWakeup
  <2> QED BY <2>1, <2>3, <2>6, <2>7, <2>8 DEF NoLostWakeup
<1>4. ASSUME NEW w \in Writers, Park(w) PROVE NoLostWakeup'
  <2>1. /\ err = "none" /\ MustWait(widx[w]) /\ timer' = [timer EXCEPT ![w] = TRUE]
        /\ waiting' = waiting \cup {w}
        /\ UNCHANGED <<slotState, slotChunk, readPos, err, widx, expired>>
    BY <1>4 DEF Park, InLoop, ArmTimer
  <2>2. \A v \in waiting' \cap Writers : MustWait(widx[v]) /\ (timer'[v] \/ ~expired[v])
    BY <1>0, <2>1 DEF NoLostWakeup, TypeOK
  <2>3. Reader \in waiting' => ~Buffered(Current)
    BY <1>0, <2>1 DEF NoLostWakeup
  <2> QED BY <2>1, <2>2, <2>3
          DEF NoLostWakeup, MustWait, Consumed, Buffered, InFlight, HasRoom, Frontier, Current
<1>5. ASSUME NEW w \in Writers, Deadline(w) PROVE NoLostWakeup'
  BY <1>0, <1>5, <1>b DEF Deadline, NoLostWakeup, TypeOK
<1>6. ASSUME NEW w \in Writers, TimerFires(w) PROVE NoLostWakeup'
  BY <1>6, <1>a DEF TimerFires
<1>7. ASSUME NEW w \in Writers, WriteByte(w) PROVE NoLostWakeup'
  BY <1>0, <1>7, <1>b DEF WriteByte, NoLostWakeup
<1>8. ASSUME NEW w \in Writers, Publish(w) PROVE NoLostWakeup'
  BY <1>8, <1>a DEF Publish
<1>9. ASSUME NEW w \in Writers, GiveUp(w) PROVE NoLostWakeup'
  <2> DEFINE i == widx[w]
             t == Slot(i)
  <2>1. /\ wpc[w] = "fill" /\ slotState[t] = "filling" /\ slotChunk[t] = i
        /\ i \in Chunks /\ t \in SlotIds /\ w \notin waiting /\ i \in Nat
    <3>1. wpc[w] = "fill" /\ slotState[t] = "filling" /\ slotChunk[t] = i /\ i \in Chunks
      BY <1>0, <1>9 DEF GiveUp, Owns, CallsInBounds
    <3> QED BY <1>0, <3>1, ChunkGeometry, TotalBounds DEF ParkedInLoop, Chunks
  <2>2. /\ slotState' = [slotState EXCEPT ![t] = "free"]
        /\ slotChunk' = [slotChunk EXCEPT ![t] = 0 - 1]
        /\ UNCHANGED <<readPos, err, waiting>>
        /\ \A v \in Writers : v # w => /\ widx'[v] = widx[v] /\ timer'[v] = timer[v]
                                       /\ expired'[v] = expired[v]
        /\ Frontier' = Frontier /\ Current' = Current
    BY <1>0, <1>9 DEF GiveUp, FreeSlot, Return, Frontier, Current, TypeOK
  <2>3. err = "none"
    BY <1>0, <2>1 DEF SlotsOwned
  <2>4. /\ slotState'[t] = "free" /\ slotChunk'[t] = 0 - 1
        /\ \A s \in SlotIds : s # t => slotState'[s] = slotState[s] /\ slotChunk'[s] = slotChunk[s]
    BY <1>0, <2>1, <2>2 DEF TypeOK
  <2>5. i >= Frontier /\ i < Frontier + Slots /\ Frontier \in Nat
    BY <2>1, <2>3, HeldChunk
  <2>6. ASSUME NEW v \in waiting \cap Writers PROVE MustWait(widx[v])'
    <3> DEFINE j == widx[v]
    <3>1. MustWait(j) /\ j \in Chunks /\ j \in Nat /\ Slot(j) \in SlotIds /\ v # w /\ widx'[v] = j
      BY <1>0, <2>1, <2>2, ChunkGeometry, TotalBounds DEF NoLostWakeup, ParkedInLoop, Chunks
    <3>2. ~Consumed(j) /\ ~(j < Frontier)
      <4>1. readPos \in 0 .. TotalSize
        BY <1>0 DEF TypeOK
      <4> QED BY <3>1, <4>1, ConsumedIsBehind DEF MustWait
    <3>3. CASE Slot(j) = t
      <4>1. ~(j < Frontier + Slots)
        <5> SUFFICES ASSUME j < Frontier + Slots PROVE FALSE
          OBVIOUS
        <5>1. j % Slots = i % Slots /\ j - i < Slots /\ i - j < Slots
          BY <2>1, <2>5, <3>1, <3>2, <3>3 DEF Slot
        <5>2. j = i
          <6>1. j \in Int /\ i \in Int /\ Slots \in Nat \ {0}
            BY <2>1, <3>1
          <6> HIDE DEF i, j
          <6> QED BY ONLY <5>1, <6>1, ModDistinct
        <5>3. InFlight(j)
          BY <2>1, <5>2 DEF InFlight
        <5> QED BY <3>1, <5>3 DEF MustWait
      <4>2. j # 0 - 1
        BY <3>1
      <4>3. ~Consumed(j)'
        BY <2>2, <3>1, <3>2 DEF Consumed
      <4> HIDE DEF t
      <4> QED BY <2>2, <2>4, <3>1, <3>3, <4>1, <4>2, <4>3
              DEF MustWait, Consumed, Buffered, InFlight, HasRoom
    <3>4. CASE Slot(j) # t
      <4> HIDE DEF t
      <4> QED BY <2>2, <2>4, <3>1, <3>4 DEF MustWait, Consumed, Buffered, InFlight, HasRoom
    <3> QED BY <3>3, <3>4
  <2>7. ASSUME Reader \in waiting PROVE ~Buffered(Current)'
    <3>1. ~Buffered(Current) /\ readPos \in Nat /\ readPos < TotalSize
      BY <1>0, <2>7 DEF NoLostWakeup, ParkedInLoop, TypeOK
    <3>2. Slot(Current) \in SlotIds
      BY <3>1, CurrentChunk, ChunkGeometry
    <3> HIDE DEF t
    <3> QED BY <2>2, <2>4, <3>1, <3>2 DEF Buffered
  <2>8. \A v \in waiting \cap Writers : timer'[v] \/ ~expired'[v]
    BY <1>0, <2>1, <2>2 DEF NoLostWakeup
  <2> QED BY <2>2, <2>3, <2>6, <2>7, <2>8 DEF NoLostWakeup
<1>10. CASE ReadCall
  BY <1>0, <1>10, <1>b DEF ReadCall, NoLostWakeup
<1>11. CASE ReadEnds
  BY <1>0, <1>11, <1>b DEF ReadEnds, NoLostWakeup
<1>12. CASE ReadStart
  BY <1>0, <1>12, <1>b DEF ReadStart, NoLostWakeup
<1>13. CASE ReadPark
  <2>1. /\ err = "none" /\ ~Buffered(Current) /\ waiting' = waiting \cup {Reader}
        /\ UNCHANGED <<slotState, slotChunk, readPos, err, widx, timer, expired>>
    BY <1>13 DEF ReadPark
  <2>2. waiting' \cap Writers = waiting \cap Writers
    BY <2>1
  <2> QED BY <1>0, <2>1, <2>2
          DEF NoLostWakeup, MustWait, Consumed, Buffered, InFlight, HasRoom, Frontier, Current
<1>14. CASE ReadRing
  BY <1>0, <1>14, <1>b DEF ReadRing, NoLostWakeup
<1>15. CASE ReadCommit
  <2>1. /\ rcall.chunk = Current /\ Current \in Chunks /\ Frontier = Current
        /\ readPos' \in Nat /\ ChunkEnd(Current) \in Nat
    BY <1>0, <1>15, CommitFrontier
  <2>2. CASE readPos' >= ChunkEnd(Current)
    BY <1>15, <1>a, <2>1, <2>2 DEF ReadCommit, LeaveChunk
  <2>3. CASE readPos' < ChunkEnd(Current)
    <3>1. UNCHANGED <<slotState, slotChunk, waiting, err, widx, timer, expired>>
      BY <1>15, <2>1, <2>3 DEF ReadCommit
    <3>2. Frontier' = Frontier
      BY <1>0, <1>15, <2>1, <2>3, CommitFrontier
    <3>3. Reader \notin waiting
      BY <1>0, <1>15 DEF ReadCommit, ParkedInLoop
    <3>4. ASSUME NEW v \in waiting \cap Writers PROVE MustWait(widx[v])'
      <4>1. MustWait(widx[v]) /\ widx[v] \in Chunks
        BY <1>0 DEF NoLostWakeup, ParkedInLoop
      <4>2. ~Consumed(widx[v])'
        <5>1. ~Consumed(widx[v])
          BY <4>1 DEF MustWait
        <5>2. \A i \in Chunks : ~Consumed(i) => ~Consumed(i)'
          BY <1>0, <1>15, <2>3, StillAhead
        <5> QED BY <3>1, <4>1, <5>1, <5>2 DEF Consumed
      <4> QED BY <3>1, <3>2, <4>1, <4>2 DEF MustWait, Buffered, InFlight, HasRoom
    <3> QED BY <1>0, <3>1, <3>3, <3>4 DEF NoLostWakeup
  <2> QED BY <2>1, <2>2, <2>3
<1>16. ASSUME NEW e \in Seals, Close(e) PROVE NoLostWakeup'
  BY <1>16, <1>a DEF Close, ResetSlots
<1>17. CASE Elsewhere
  BY <1>0, <1>17, <1>b DEF Elsewhere, NoLostWakeup
<1> QED BY <1>1, <1>2, <1>3, <1>4, <1>5, <1>6, <1>7, <1>8, <1>9, <1>10, <1>11, <1>12, <1>13,
           <1>14, <1>15, <1>16, <1>17, StepCases

-----------------------------------------------------------------------------
(* The theorems                                                             *)

LEMMA InitInv == Init => WindowInv
<1> SUFFICES ASSUME Init PROVE WindowInv
  OBVIOUS
<1> USE WindowAssumption
<1>1. 0 \in Chunks
  BY TotalBounds DEF Chunks
<1>2. Slots * ChunkSize \in Nat
  OBVIOUS
<1>3. TypeOK
  BY <1>1, <1>2 DEF Init, TypeOK, NoRead
<1>4. CallsInBounds /\ FillsApart /\ ParkedInLoop /\ NoLostWakeup
  BY DEF Init, CallsInBounds, FillsApart, ParkedInLoop, NoLostWakeup
<1>5. SlotsOwned
  BY DEF Init, SlotsOwned
<1> QED BY <1>3, <1>4, <1>5 DEF WindowInv

\* The inductive invariant holds in every state of the window.
THEOREM WindowInvariant == Spec => []WindowInv
<1>1. WindowInv /\ [Next]_vars => WindowInv'
  BY TypeStep, CallsStep, SlotsStep, ApartStep, ParkedStep, WakeupStep DEF WindowInv
<1> QED BY InitInv, <1>1, PTL DEF Spec

\* Every variable of the window stays in its range: slot and file arithmetic
\* never leaves the ring, for any file size, chunk size and number of slots.
THEOREM WindowTypes == Spec => []TypeOK
<1>1. WindowInv => TypeOK
  BY DEF WindowInv
<1> QED BY <1>1, WindowInvariant, PTL

\* The ring file, written and read with the mutex released, is never accessed
\* by two goroutines in one slot, one of which writes.
THEOREM RingIsRaceFree == Spec => []NoRingRace
<1>1. WindowInv => NoRingRace
  BY DEF WindowInv, FillsApart, NoRingRace
<1> QED BY <1>1, WindowInvariant, PTL

\* No goroutine stays parked in cond.Wait when the chunk it waits for has become
\* admissible or readable, although GiveUp frees a slot without a broadcast.
THEOREM WakeupsSuffice == Spec => []NoLostWakeup
<1>1. WindowInv => NoLostWakeup
  BY DEF WindowInv
<1> QED BY <1>1, WindowInvariant, PTL
=============================================================================
