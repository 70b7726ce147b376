-------------------------- MODULE MultipartWindow --------------------------
(***************************************************************************)
(* internal/multipart/window.go: concurrently uploaded chunks are put into  *)
(* a ring file and read back as one sequential stream.                      *)
(*                                                                         *)
(* Every critical section of w.mu is one action; what the code does with    *)
(* the mutex released (filling the ring, reading it, closing and removing   *)
(* the file) is a separate action, byte by byte for the filling.  The       *)
(* condition variable is the set of parked processes: a broadcast empties   *)
(* it and the woken processes run their loop again.  A CRC32 is the version *)
(* of the body it was computed from.                                        *)
(*                                                                         *)
(* A definition whose name starts with Faulty is the one after it with a    *)
(* mistake in it; nothing uses it.  It shows that a property would notice.  *)
(***************************************************************************)
EXTENDS Integers, Sequences, FiniteSets, FiniteSetsExt

CONSTANTS ChunkSize,  \* bytes of a chunk (all but the last)
          TotalSize,  \* bytes of the file
          Slots,      \* chunk slots of the ring file
          MaxRead,    \* largest buffer the driver passes to Read
          Writers,    \* goroutines serving chunk requests
          Versions,   \* contents a chunk body can have
          NoVersion,  \* crcSet is false
          Reader      \* the goroutine of the driver

ASSUME WindowAssumption ==
    /\ ChunkSize \in Nat \ {0}
    /\ TotalSize \in Nat \ {0}
    /\ Slots \in Nat \ {0}
    /\ MaxRead \in Nat \ {0}
    /\ NoVersion \notin Versions
    /\ Reader \notin Writers

Total    == (TotalSize + ChunkSize - 1) \div ChunkSize
Chunks   == 0 .. Total - 1
SlotIds  == 0 .. Slots - 1
ChunkLen(i) == IF i = Total - 1 THEN TotalSize - i * ChunkSize ELSE ChunkSize
Slot(i)  == i % Slots

\* Sticky errors: the one of Close, and the one of the abort path.
Seals == {"closed", "aborted"}

\* What WriteChunk can return besides the CRC of the chunk.
Refusals == {"badIndex", "badBody", "inFlight", "outOfWindow"} \cup Seals

\* WriteChunk returns a CRC or an error, never something that is both.
ASSUME ReplyAssumption ==
    (Versions \cup {NoVersion}) \cap (Refusals \cup {"none"}) = {}

\* One byte of a chunk body: its place in the file and whose body it is.
Byte   == [pos : Nat, ver : Versions]
NoByte == [pos |-> 0 - 1, ver |-> NoVersion]

VARIABLES
    slotState,  \* slot -> "free", "filling", "ready"
    slotChunk,  \* slot -> chunk it holds, -1 when free
    readPos,    \* bytes consumed by the driver
    crcs,       \* chunk -> version whose CRC is recorded, NoVersion when not set
    err,        \* sticky error, "none" while the window is open
    file,       \* ring file: "open", "detached" (w.f taken by a closer), "closed", "removed"
    ring,       \* content of the ring file
    waiting,    \* processes parked in cond.Wait
    wpc,        \* writer -> "idle", "admit" (in the loop), "fill"
    widx,       \* writer -> chunk index of its call
    wver,       \* writer -> version of its body
    filled,     \* writer -> bytes of the body in the ring
    expired,    \* writer -> its deadline has passed
    timer,      \* writer -> its timer is armed
    reply,      \* writer -> result of its last call
    rpc,        \* driver: "idle", "check" (in the loop), "reading", "got", "eof", "stopped"
    rcall,      \* the running Read: chunk, offset in the ring, bytes to read
    got,        \* bytes ReadAt returned
    delivered   \* every byte Read has returned (history)

slotVars   == <<slotState, slotChunk>>
writerVars == <<wpc, widx, wver, filled, expired, timer, reply>>
readerVars == <<rpc, rcall, got>>
vars == <<slotVars, readPos, crcs, err, file, ring, waiting, writerVars, readerVars, delivered>>

NoRead == [chunk |-> 0, off |-> 0, n |-> 0]

Init ==
    /\ slotState = [s \in SlotIds |-> "free"]
    /\ slotChunk = [s \in SlotIds |-> 0 - 1]
    /\ readPos = 0
    /\ crcs = [i \in Chunks |-> NoVersion]
    /\ err = "none"
    /\ file = "open"
    /\ ring = [o \in 0 .. Slots * ChunkSize - 1 |-> NoByte]
    /\ waiting = {}
    /\ wpc = [w \in Writers |-> "idle"]
    /\ widx = [w \in Writers |-> 0]
    /\ wver = [w \in Writers |-> NoVersion]
    /\ filled = [w \in Writers |-> 0]
    /\ expired = [w \in Writers |-> FALSE]
    /\ timer = [w \in Writers |-> FALSE]
    /\ reply = [w \in Writers |-> "none"]
    /\ rpc = "idle"
    /\ rcall = NoRead
    /\ got = <<>>
    /\ delivered = <<>>

FreeSlot(i) == /\ slotState' = [slotState EXCEPT ![Slot(i)] = "free"]
               /\ slotChunk' = [slotChunk EXCEPT ![Slot(i)] = 0 - 1]

Frontier == IF readPos >= TotalSize THEN Total ELSE readPos \div ChunkSize

-----------------------------------------------------------------------------
(* The four questions the admission loop asks about chunk i, in its order.  *)

\* The last chunk taken for a full one.
FaultyConsumed(i) == (i + 1) * ChunkSize <= readPos
Consumed(i) == i * ChunkSize + ChunkLen(i) <= readPos
\* A chunk being filled taken for a buffered one.
FaultyBuffered(i) == slotChunk[Slot(i)] = i
Buffered(i) == slotChunk[Slot(i)] = i /\ slotState[Slot(i)] = "ready"
InFlight(i) == slotChunk[Slot(i)] = i /\ slotState[Slot(i)] = "filling"
\* The state of the slot is not looked at; the window is one chunk too long.
FaultyHasRoom(i)  == i < Frontier + Slots
FaultyHasRoom1(i) == slotState[Slot(i)] = "free" /\ i <= Frontier + Slots
HasRoom(i)  == slotState[Slot(i)] = "free" /\ i < Frontier + Slots

MustWait(i) == ~Consumed(i) /\ ~Buffered(i) /\ ~InFlight(i) /\ ~HasRoom(i)

\* WriteChunk returns r; its timer is stopped.  The body is gone, and the
\* index matters afterwards only when the chunk was accepted.
Return(w, r) ==
    /\ reply' = [reply EXCEPT ![w] = r]
    /\ wpc' = [wpc EXCEPT ![w] = "idle"]
    /\ timer' = [timer EXCEPT ![w] = FALSE]
    /\ expired' = [expired EXCEPT ![w] = FALSE]
    /\ filled' = [filled EXCEPT ![w] = 0]
    /\ wver' = [wver EXCEPT ![w] = NoVersion]
    /\ widx' = [widx EXCEPT ![w] = IF r \in Refusals THEN 0 ELSE @]

\* A request handler calls WriteChunk with a chunk index and a body.
Call(w) ==
    /\ wpc[w] = "idle"
    /\ \E i \in Chunks \cup {0 - 1, Total} : widx' = [widx EXCEPT ![w] = i]
    /\ wpc' = [wpc EXCEPT ![w] = "admit"]
    /\ reply' = [reply EXCEPT ![w] = "none"]
    /\ UNCHANGED <<slotVars, readPos, crcs, err, file, ring, waiting, wver, filled, expired, timer,
                   readerVars, delivered>>

\* w holds the mutex at the head of the loop.
AtLoop(w) == wpc[w] = "admit" /\ w \notin waiting

RejectClosed(w) ==
    /\ AtLoop(w)
    /\ err # "none"
    /\ Return(w, err)
    /\ UNCHANGED <<slotVars, readPos, crcs, err, file, ring, waiting, readerVars, delivered>>

RejectIndex(w) ==
    /\ AtLoop(w)
    /\ err = "none"
    /\ widx[w] \notin Chunks
    /\ Return(w, "badIndex")
    /\ UNCHANGED <<slotVars, readPos, crcs, err, file, ring, waiting, readerVars, delivered>>

InLoop(w) == AtLoop(w) /\ err = "none" /\ widx[w] \in Chunks

\* A chunk that is consumed or buffered already is not read from the body.
Absorb(w) ==
    /\ InLoop(w)
    /\ Consumed(widx[w]) \/ Buffered(widx[w])
    /\ Return(w, crcs[widx[w]])
    /\ UNCHANGED <<slotVars, readPos, crcs, err, file, ring, waiting, readerVars, delivered>>

RejectInFlight(w) ==
    /\ InLoop(w)
    /\ ~Consumed(widx[w])
    /\ InFlight(widx[w])
    /\ Return(w, "inFlight")
    /\ UNCHANGED <<slotVars, readPos, crcs, err, file, ring, waiting, readerVars, delivered>>

\* The slot is taken.  Only now is the body read: its version is chosen here.
Admit(w) ==
    /\ InLoop(w)
    /\ ~Consumed(widx[w])
    /\ HasRoom(widx[w])
    /\ slotState' = [slotState EXCEPT ![Slot(widx[w])] = "filling"]
    /\ slotChunk' = [slotChunk EXCEPT ![Slot(widx[w])] = widx[w]]
    /\ wpc' = [wpc EXCEPT ![w] = "fill"]
    /\ \E v \in Versions : wver' = [wver EXCEPT ![w] = v]
    /\ timer' = [timer EXCEPT ![w] = FALSE]
    /\ expired' = [expired EXCEPT ![w] = FALSE]
    /\ UNCHANGED <<readPos, crcs, err, file, ring, waiting, widx, filled, reply, readerVars, delivered>>

RejectOutOfWindow(w) ==
    /\ InLoop(w)
    /\ MustWait(widx[w])
    /\ expired[w]
    /\ Return(w, "outOfWindow")
    /\ UNCHANGED <<slotVars, readPos, crcs, err, file, ring, waiting, readerVars, delivered>>

\* The timer is armed at most once, with the mutex held, before the wait.
FaultyArmTimer(w) == UNCHANGED timer
ArmTimer(w) == timer' = [timer EXCEPT ![w] = TRUE]

Park(w) ==
    /\ InLoop(w)
    /\ MustWait(widx[w])
    /\ ~expired[w]
    /\ ArmTimer(w)
    /\ waiting' = waiting \cup {w}
    /\ UNCHANGED <<slotVars, readPos, crcs, err, file, ring, wpc, widx, wver, filled, expired, reply,
                   readerVars, delivered>>

Admission(w) == \/ RejectClosed(w) \/ RejectIndex(w) \/ Absorb(w) \/ RejectInFlight(w)
                \/ Admit(w) \/ RejectOutOfWindow(w) \/ Park(w)

\* WindowWaitTimeout has passed since the loop was entered.  The first turn of
\* the loop runs under the mutex that was held when the deadline was computed.
Deadline(w) ==
    /\ timer[w]
    /\ ~expired[w]
    /\ expired' = [expired EXCEPT ![w] = TRUE]
    /\ UNCHANGED <<slotVars, readPos, crcs, err, file, ring, waiting, wpc, widx, wver, filled, timer,
                   reply, readerVars, delivered>>

\* The callback of time.AfterFunc takes the mutex and broadcasts.
TimerFires(w) ==
    /\ timer[w] /\ expired[w]
    /\ timer' = [timer EXCEPT ![w] = FALSE]
    /\ waiting' = {}
    /\ UNCHANGED <<slotVars, readPos, crcs, err, file, ring, wpc, widx, wver, filled, expired, reply,
                   readerVars, delivered>>

-----------------------------------------------------------------------------
(* Filling a slot, with the mutex released, and the second critical section *)

\* The handle a writer saved works until a closer has closed the file.
Usable == file \in {"open", "detached"}

WriteByte(w) ==
    /\ wpc[w] = "fill"
    /\ filled[w] < ChunkLen(widx[w])
    /\ Usable
    /\ ring' = [ring EXCEPT ![Slot(widx[w]) * ChunkSize + filled[w]] =
                   [pos |-> widx[w] * ChunkSize + filled[w], ver |-> wver[w]]]
    /\ filled' = [filled EXCEPT ![w] = @ + 1]
    /\ UNCHANGED <<slotVars, readPos, crcs, err, file, waiting, wpc, widx, wver, expired, timer, reply,
                   readerVars, delivered>>

Owns(w) == slotState[Slot(widx[w])] = "filling" /\ slotChunk[Slot(widx[w])] = widx[w]

\* A body that ends early is taken for a chunk.
FaultyWhole(w) == filled[w] > 0
Whole(w) == filled[w] = ChunkLen(widx[w])

\* The body was one chunk, no more and no less.
Publish(w) ==
    /\ wpc[w] = "fill"
    /\ Whole(w)
    /\ Owns(w)
    /\ err = "none"
    /\ slotState' = [slotState EXCEPT ![Slot(widx[w])] = "ready"]
    /\ crcs' = [crcs EXCEPT ![widx[w]] = wver[w]]
    /\ waiting' = {}
    /\ Return(w, wver[w])
    /\ UNCHANGED <<slotChunk, readPos, err, file, ring, readerVars, delivered>>

\* The body was short, broken off or too long, or the ring could not be
\* written, or the window has an error: the slot is freed, nobody is woken.
GiveUp(w) ==
    /\ wpc[w] = "fill"
    /\ Owns(w)
    /\ FreeSlot(widx[w])
    /\ \E r \in {"badBody"} \cup ({err} \ {"none"}) : Return(w, r)
    /\ UNCHANGED <<readPos, crcs, err, file, ring, waiting, readerVars, delivered>>

\* The window was closed, and the slot reset, during the fill.
SlotLost(w) ==
    /\ wpc[w] = "fill"
    /\ ~Owns(w)
    /\ Return(w, IF err # "none" THEN err ELSE "closed")
    /\ UNCHANGED <<slotVars, readPos, crcs, err, file, ring, waiting, readerVars, delivered>>

-----------------------------------------------------------------------------
(* Read, called by one driver goroutine.                                    *)

ReadCall ==
    /\ rpc = "idle"
    /\ rpc' = "check"
    /\ \E n \in 1 .. MaxRead : rcall' = [NoRead EXCEPT !.n = n]
    /\ UNCHANGED <<slotVars, readPos, crcs, err, file, ring, waiting, writerVars, got, delivered>>

ReadAtLoop == rpc = "check" /\ Reader \notin waiting

ReadClosed ==
    /\ ReadAtLoop
    /\ err # "none"
    /\ rpc' = "stopped"
    /\ UNCHANGED <<slotVars, readPos, crcs, err, file, ring, waiting, writerVars, rcall, got, delivered>>

ReadEOF ==
    /\ ReadAtLoop
    /\ err = "none"
    /\ readPos >= TotalSize
    /\ rpc' = "eof"
    /\ UNCHANGED <<slotVars, readPos, crcs, err, file, ring, waiting, writerVars, rcall, got, delivered>>

Current == readPos \div ChunkSize
\* The last chunk taken for a full one.
FaultyChunkEnd(i) == i * ChunkSize + ChunkSize
ChunkEnd(i) == i * ChunkSize + ChunkLen(i)

\* What to read is fixed while the mutex is held and used after it is released.
ReadStart ==
    /\ ReadAtLoop
    /\ err = "none"
    /\ readPos < TotalSize
    /\ Buffered(Current)
    /\ rcall' = [chunk |-> Current,
                 off   |-> Slot(Current) * ChunkSize + (readPos - Current * ChunkSize),
                 n     |-> IF rcall.n > ChunkEnd(Current) - readPos
                              THEN ChunkEnd(Current) - readPos ELSE rcall.n]
    /\ rpc' = "reading"
    /\ UNCHANGED <<slotVars, readPos, crcs, err, file, ring, waiting, writerVars, got, delivered>>

ReadPark ==
    /\ ReadAtLoop
    /\ err = "none"
    /\ readPos < TotalSize
    /\ ~Buffered(Current)
    /\ waiting' = waiting \cup {Reader}
    /\ UNCHANGED <<slotVars, readPos, crcs, err, file, ring, writerVars, readerVars, delivered>>

\* f.ReadAt, mutex released: everything asked for, or nothing from a closed file.
ReadRing ==
    /\ rpc = "reading"
    /\ rpc' = "got"
    /\ got' = IF Usable THEN [k \in 1 .. rcall.n |-> ring[rcall.off + k - 1]] ELSE <<>>
    /\ UNCHANGED <<slotVars, readPos, crcs, err, file, ring, waiting, writerVars, rcall, delivered>>

\* The chunk is left behind: its slot is freed and parked writers are woken, or
\* nobody is.
FaultyLeaveChunk(i) == FreeSlot(i) /\ UNCHANGED waiting
LeaveChunk(i) == FreeSlot(i) /\ waiting' = {}

ReadCommit ==
    /\ rpc = "got"
    /\ got # <<>>
    /\ readPos' = readPos + Len(got)
    /\ delivered' = delivered \o got
    /\ IF readPos' >= ChunkEnd(rcall.chunk)
          THEN LeaveChunk(rcall.chunk)
          ELSE UNCHANGED <<slotVars, waiting>>
    /\ rpc' = "idle"
    /\ rcall' = NoRead
    /\ got' = <<>>
    /\ UNCHANGED <<crcs, err, file, ring, writerVars>>

ReadFailed ==
    /\ rpc = "got"
    /\ got = <<>>
    /\ rpc' = "stopped"
    /\ UNCHANGED <<slotVars, readPos, crcs, err, file, ring, waiting, writerVars, rcall, got, delivered>>

ReadStep == ReadClosed \/ ReadEOF \/ ReadStart \/ ReadPark \/ ReadRing \/ ReadCommit \/ ReadFailed

-----------------------------------------------------------------------------
(* Close and CloseWithError, called by op.Put, the abort path, finishAttempt *)

FreeAllSlots == /\ slotState' = [s \in SlotIds |-> "free"]
                /\ slotChunk' = [s \in SlotIds |-> 0 - 1]
\* Nobody is woken.
FaultyResetSlots == FreeAllSlots /\ UNCHANGED waiting
ResetSlots == FreeAllSlots /\ waiting' = {}

Close(e) ==
    /\ err' = IF err = "none" THEN e ELSE err
    /\ file' = IF file = "open" THEN "detached" ELSE file
    /\ ResetSlots
    /\ UNCHANGED <<readPos, crcs, ring, writerVars, readerVars, delivered>>

\* The closer that took the handle closes it, then removes the file.
CloseFile ==
    /\ file = "detached"
    /\ file' = "closed"
    /\ UNCHANGED <<slotVars, readPos, crcs, err, ring, waiting, writerVars, readerVars, delivered>>

RemoveFile ==
    /\ file = "closed"
    /\ file' = "removed"
    /\ UNCHANGED <<slotVars, readPos, crcs, err, ring, waiting, writerVars, readerVars, delivered>>

Next ==
    \/ \E w \in Writers : \/ Call(w) \/ Admission(w) \/ Deadline(w) \/ TimerFires(w)
                          \/ WriteByte(w) \/ Publish(w) \/ GiveUp(w) \/ SlotLost(w)
    \/ ReadCall \/ ReadStep
    \/ \E e \in Seals : Close(e)
    \/ CloseFile \/ RemoveFile

Spec == Init /\ [][Next]_vars

\* Goroutines that are not waiting for the network run on, clocks advance and
\* timers fire.  Nothing is assumed of clients, of the driver or of closers.
Fairness ==
    /\ \A w \in Writers : WF_vars(Admission(w)) /\ WF_vars(Deadline(w)) /\ WF_vars(TimerFires(w))
    /\ WF_vars(ReadStep)
    /\ WF_vars(CloseFile)
    /\ WF_vars(RemoveFile)

FairSpec == Spec /\ Fairness

-----------------------------------------------------------------------------
(* Snapshot, the receiving state reported to clients.                       *)

SnapReceived == {i \in Chunks : i < Frontier}
    \cup {i \in Chunks : i \in Frontier .. Frontier + Slots - 1 /\ Buffered(i)}

\* Bytes of a buffered chunk that Read has served; forgotten.
FaultyServed(i) == 0
Served(i) == IF readPos > i * ChunkSize THEN readPos - i * ChunkSize ELSE 0

SnapReceivedBytes ==
    LET ahead == {i \in Chunks : i \in Frontier .. Frontier + Slots - 1 /\ Buffered(i)}
    IN  readPos + MapThenSumSet(LAMBDA i : ChunkLen(i) - Served(i), ahead)

-----------------------------------------------------------------------------
(* Properties                                                               *)

TypeOK ==
    /\ slotState \in [SlotIds -> {"free", "filling", "ready"}]
    /\ slotChunk \in [SlotIds -> Chunks \cup {0 - 1}]
    /\ readPos \in 0 .. TotalSize
    /\ crcs \in [Chunks -> Versions \cup {NoVersion}]
    /\ err \in Seals \cup {"none"}
    /\ file \in {"open", "detached", "closed", "removed"}
    /\ ring \in [0 .. Slots * ChunkSize - 1 -> Byte \cup {NoByte}]
    /\ waiting \subseteq Writers \cup {Reader}
    /\ wpc \in [Writers -> {"idle", "admit", "fill"}]
    /\ widx \in [Writers -> Chunks \cup {0 - 1, Total}]
    /\ wver \in [Writers -> Versions \cup {NoVersion}]
    /\ filled \in [Writers -> 0 .. ChunkSize]
    /\ expired \in [Writers -> BOOLEAN]
    /\ timer \in [Writers -> BOOLEAN]
    /\ reply \in [Writers -> Versions \cup {NoVersion} \cup Refusals \cup {"none"}]
    /\ rpc \in {"idle", "check", "reading", "got", "eof", "stopped"}
    /\ rcall \in [chunk : Chunks, off : Nat, n : Nat]
    /\ got \in Seq(Byte \cup {NoByte})
    /\ delivered \in Seq(Byte \cup {NoByte})

\* The ring file is written and read with the mutex released: two fills never
\* share a slot, and no fill touches the slot a Read is copying from, also
\* when the window is closed under them.
NoRingRace ==
    /\ \A v, w \in Writers : v # w /\ wpc[v] = "fill" /\ wpc[w] = "fill"
                                => Slot(widx[v]) # Slot(widx[w])
    /\ rpc = "reading" => \A w \in Writers : wpc[w] = "fill" => Slot(widx[w]) # Slot(rcall.chunk)

\* The driver receives every byte of the file once, in order, and each chunk
\* entirely from the one body whose CRC is recorded: no byte of a failed,
\* oversize or competing body, and none of an older chunk of the same slot.
StreamIntact ==
    /\ Len(delivered) = readPos
    /\ \A k \in 1 .. Len(delivered) :
          delivered[k] = [pos |-> k - 1, ver |-> crcs[(k - 1) \div ChunkSize]]

\* A process is parked only while there is nothing for it to do.  GiveUp frees
\* a slot without a broadcast, and Read broadcasts only at a chunk boundary.
NoLostWakeup ==
    /\ waiting # {} => err = "none"
    /\ \A w \in waiting \cap Writers :
          MustWait(widx[w]) /\ (timer[w] \/ ~expired[w])
    /\ Reader \in waiting => ~Buffered(Current)

\* A chunk whose request was answered with success is held by the window until
\* it is consumed, and the CRC in the answer is the one on record, whichever
\* of several competing requests for the chunk was answered first.
AckedIsHeld ==
    \A w \in Writers : reply[w] \in Versions \cup {NoVersion} =>
        /\ reply[w] # NoVersion
        /\ crcs[widx[w]] = reply[w]
        /\ err = "none" => Consumed(widx[w]) \/ Buffered(widx[w])

\* Resume discovery: while the window is open the snapshot lists exactly the
\* accepted chunks, so that a client neither resends nor skips one, and counts
\* their bytes, also when a chunk is half consumed; once closed it lists no
\* chunk that was not accepted.
SnapshotExact ==
    LET accepted == {i \in Chunks : crcs[i] # NoVersion}
    IN  IF err = "none"
           THEN /\ SnapReceived = accepted
                /\ SnapReceivedBytes = MapThenSumSet(ChunkLen, accepted)
           ELSE SnapReceived \subseteq accepted

-----------------------------------------------------------------------------
(* The inductive invariant behind NoRingRace and NoLostWakeup.              *)

\* A fill and a Read in progress work on real chunks and stay inside them.
CallsInBounds ==
    /\ \A w \in Writers : IF wpc[w] = "fill"
          THEN widx[w] \in Chunks /\ wver[w] \in Versions /\ filled[w] <= ChunkLen(widx[w])
          ELSE filled[w] = 0
    /\ rpc = "check" => rcall.n >= 1
    /\ rpc \in {"reading", "got"} =>
          /\ rcall.chunk = Current
          /\ readPos < TotalSize
          /\ rcall.off = Slot(Current) * ChunkSize + (readPos - Current * ChunkSize)
          /\ rcall.n \in 1 .. ChunkEnd(Current) - readPos
    /\ rpc = "got" => Len(got) <= rcall.n

\* Until the window is closed a filling slot belongs to its writer and the slot
\* being read stays ready; a chunk in a slot lies in the window.
SlotsOwned ==
    /\ err = "none" =>
          /\ \A w \in Writers : wpc[w] = "fill" => Owns(w)
          /\ rpc \in {"reading", "got"} => Buffered(Current)
          /\ \A s \in SlotIds : slotState[s] # "free" =>
                /\ slotChunk[s] \in Chunks /\ Slot(slotChunk[s]) = s
                /\ slotChunk[s] >= Frontier /\ slotChunk[s] < Frontier + Slots
    /\ err # "none" => \A s \in SlotIds : slotState[s] = "free"
    /\ \A s \in SlotIds : slotState[s] = "free" <=> slotChunk[s] = 0 - 1

\* The slot of an unfinished Read, and of every fill, is used by no other fill.
FillsApart ==
    /\ \A v, w \in Writers : v # w /\ wpc[v] = "fill" /\ wpc[w] = "fill"
                                => Slot(widx[v]) # Slot(widx[w])
    /\ rpc \in {"reading", "got"} =>
          \A w \in Writers : wpc[w] = "fill" => Slot(widx[w]) # Slot(rcall.chunk)

\* Only processes in their loop are parked.
ParkedInLoop ==
    /\ \A w \in waiting \cap Writers : wpc[w] = "admit" /\ widx[w] \in Chunks
    /\ Reader \in waiting => rpc = "check" /\ readPos < TotalSize

\* What every step preserves (MultipartWindowProofs).
WindowInv == /\ TypeOK /\ CallsInBounds /\ SlotsOwned /\ FillsApart
             /\ ParkedInLoop /\ NoLostWakeup

-----------------------------------------------------------------------------
(* Properties of steps and of behaviours                                    *)

\* The CRC table that outlives the window is write-once: a chunk is never
\* accepted a second time, even when it comes back after it was consumed and
\* its slot holds another chunk.
CRCWriteOnce ==
    [][\A i \in Chunks : crcs[i] # NoVersion => crcs'[i] = crcs[i]]_vars

\* WriteChunk leaves its admission loop within WindowWaitTimeout whatever the
\* driver and the other requests do.
AdmissionBounded ==
    \A w \in Writers : wpc[w] = "admit" ~> wpc[w] # "admit"

\* Closing wakes the driver: a Read in progress returns.  And the ring file disappears
\* from the disk.
CloseReleases ==
    /\ err # "none" ~> file = "removed"
    /\ err # "none" /\ rpc \in {"check", "reading", "got"} ~> rpc \in {"idle", "stopped"}

\* The window implements the chunk stream the session relies on.
Stream == INSTANCE ChunkStreamSpec
    WITH stream <- [content  |-> crcs,
                    filling  |-> {i \in Chunks : InFlight(i)},
                    frontier |-> Frontier,
                    sealed   |-> err]

ImplementsStream == Stream!Spec
=============================================================================
