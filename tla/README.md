# Verification of the OpenList server (open-box)

TLA+ models of the concurrent core of the Go server in this repository, TLC
configurations that check them on small instances, and proofs checked by TLAPS.
This document says what the system consists of, what is modelled, what the
checks and proofs show and rest on, and what is left out.

## 1. The system

The server presents storages of many kinds (`drivers/`) as one file tree and
serves it over HTTP, WebDAV, FTP, SFTP, S3 and MCP. Its own logic is a set of
in-memory protocols between goroutines: request handlers, upload pipelines,
download workers, transfer tasks, timers.

| Component | Source | State | Hard behaviour | What makes it correct |
|---|---|---|---|---|
| Receiving window | `internal/multipart/window.go` | slots of a ring file, read position, CRC table, sticky error, condition variable | chunks arrive concurrently, out of order, twice; the ring is accessed with the mutex released; bounded waits; close under everybody | the driver gets the file, intact and in order; what was acknowledged is held; nobody sleeps forever |
| Session manager | `internal/multipart/session.go` | two maps, sessions with state, attempt, window, CRCs of the attempt before | two locks taken in different sections, late results of aborted pipelines, re-fills, expiry | one pipeline at a time, state agrees with it, completed means stored, finished stays finished, sessions are reclaimed |
| Multipart handlers | `server/handles/multipart.go` | none | pass client input on, drain bodies | every call answered |
| Link cache | `Link` in `internal/op/fs.go`, `internal/cache/typed_cache.go`, `pkg/singleflight`, `SyncClosers` in `pkg/utils/io.go`, wrapping drivers (`drivers/crypt`, `alias`) | cached links, flights in progress, reference counts | links shared by hits and flights, joined while the last user closes them, built on links of other storages | a link in use is open; it is closed once, by its last user; none is left open |
| Directory cache, storage operations | `internal/op/fs.go`, `cache.go` | cached listings | listings racing updates | a cached listing is not older than an update that finished before |
| Storage life cycle | `internal/op/storage.go` | storages in database and in memory | several steps, each may fail | memory and database agree after a failure |
| Downloader | `internal/net/request.go`, `pkg/buffer/pipe.go` | chunk queue, buffers by chunk, workers still to start, slots of a limit | workers, reader and interruption; refused and broken requests | bytes in order, none missing; slots of the limit kept; every worker ends |
| Transfer tasks | `internal/task_group`, `internal/fs/copy_move.go`, `pkg/task` | pending counts and payloads per group | tasks join while others finish, fail and are retried | what a move removes at its source is whole at the destination; a finished move has removed it |
| Streams, hybrid cache | `internal/stream`, `internal/hybrid_cache` | buffers in memory or file | mostly sequential | a range is served from what was cached |
| Offline download | `internal/offline_download` | task status | polling of external tools | |
| WebDAV locks | `server/webdav/lock.go` | lock tree, tokens, expiry heap | confirm, refresh and expiry of held locks | no two conflicting locks; a held lock does not expire |
| FTP stage | `server/ftp/upload_stage.go` | staged files, links, counts | asynchronous move after the last reference | a staged file is moved once |
| Index builder | `internal/search/build.go`, `pkg/mq` | running flag, quit channel, queue | stop racing start | one build at a time |
| Utilities, authentication, bootstrap, other servers, drivers, deployment | see `PROJECT.json` | little of their own | I/O | |

How the modelled parts interact:

    client -> handlers -> Manager.Init/Chunk/Complete/Status/Find/Abort
                              | m.mu: byID, byKey      s.mu: state, attempt, win, done
                              v
              Window.WriteChunk (one goroutine per request)
                              | ring file, cond
                              v
              Window.Read  <- driver <- op.Put <- pipeline goroutine of the attempt
                                                      | finishAttempt (verdict), close(done)
              gc ticker -> terminate -> CloseWithError, remove

The driver and the storage behind it are outside: they read, and end with or
without an error at any time.

Transfers are a second, separate part:

    client -> transfer -> AddTask, AppendPayload           (task_group/group.go)
                 | task of a directory: a task per file, AddTask for each
                 v
              task ends (OnSucceeded, OnFailed, or the caller itself) -> Done
                 | last task of the group, one succeeded
                 v
              HookAndRemove -> verifyAndRemove the source   (task_group/transfer.go)

A download takes a link and reads its ranges:

    request -> Link -> cache hit: AcquireReference
                    -> flight (one per key) -> driver, perhaps Link of another storage
                       -> store in the cache; everyone in the flight joins the link
    reader  -> multiReadCloser.Read <- PipeBuffer of the part <- worker <- server
                 | finishBuf: hands the buffer on, sendChunkTask -> chunkCh -> workers
    reader closes -> interrupt: buffers, queue, context;  link.Close -> SyncClosers

## 2. Modules

| Module | Models |
|---|---|
| `ChunkStream` | Operators of the abstract stream of chunks: what a window promises its session. Chunks are admitted, published or dropped, leave in order, and a sealed stream takes nothing more. |
| `ChunkStreamSpec` | One such stream as a state machine. |
| `MultipartWindow` | `window.go` byte by byte. Implements `ChunkStreamSpec` (`ImplementsStream`). |
| `MultipartWindowProofs` | Who uses which slot of the window: inductive invariant and four theorems. |
| `MultipartStreamProofs` | What goes through the window: content, order, records, the snapshot, and `ImplementsStream`. |
| `MultipartSession` | `session.go`, with a `ChunkStream` in place of each window. |
| `MultipartSessionProofs` | All safety properties of `MultipartSession` that the runs check, as theorems. |
| `TransferGroup` | `copy_move.go`, `group.go` and `transfer.go`: a directory of files moved, copied or merged between storages by tasks that share a group. |
| `TransferGroupProofs` | Types of `TransferGroup`, and that a move loses no file, as theorems. |
| `TransferMoveProofs` | That a group counts its tasks and that a move removes its source. |
| `LinkLease` | What a link promises whoever has to keep it open: opened once, joined while open, closed once, by the last holder. |
| `LinkCache` | `Link` with its cache, its flights and the reference counters, and drivers that build a link on the link of another storage. Implements `LinkLease` (`ImplementsLease`). |
| `LinkCacheProofs` | All of these properties of `LinkCache` as theorems, the refinement included. |
| `Downloader` | `request.go` and `pipe.go`: workers that fetch the parts of a range, the reader that puts them in order, and the limit they share with other downloads. |
| `DownloaderProofs` | The parts cover the range; queue, buffers, slots and the reader's place hang together. |
| `DownloaderBytesProofs` | Where every byte and every chunk is: order, end, hands and room, as theorems. |
| `MCMultipartWindow`, `MCMultipartSession`, `MCTransferGroup`, `MCLinkCache`, `MCDownloader` | Values for the checked instances. |

### MultipartWindow and the code

The unit of atomicity is a section of code between `w.mu.Lock` (or the return of
`cond.Wait`) and `w.mu.Unlock` (or `cond.Wait`).

| Code | Model |
|---|---|
| `WriteChunk`, entry and each turn of the loop (140-202) | `Call`, then one of `RejectClosed`, `RejectIndex`, `Absorb`, `RejectInFlight`, `Admit`, `RejectOutOfWindow`, `Park`; the questions of the loop are `Consumed`, `Buffered`, `InFlight`, `HasRoom`, in the code's order |
| `cond.Wait`, `Broadcast` | `waiting` is the set of parked processes; a broadcast empties it |
| deadline, `time.AfterFunc` (189-200) | `Deadline` (the clock passes it), `TimerFires` (the callback broadcasts) |
| filling the slot, mutex released (209-219) | `WriteByte`, one byte of one body at a time |
| second section (221-242) | `Publish`, `GiveUp` (broken, oversize or failing fill, no broadcast), `SlotLost` (closed meanwhile) |
| `Read` (247-300) | `ReadCall`, then `ReadClosed`, `ReadEOF`, `ReadPark` or `ReadStart`; `ReadRing` copies with the mutex released; `ReadCommit` or `ReadFailed` |
| `CloseWithError` (313-334) | `Close`, then `CloseFile` and `RemoveFile` by the closer that took the handle |
| `Snapshot`, `CRCs` | `SnapReceived`, `SnapReceivedBytes`, `crcs` |

A byte is its position in the file and the body (version) it came from; a CRC32
is the version it was computed from, so that two different bodies have different
CRCs. An I/O error of the ring file is the same as a broken body (`GiveUp`).
`delivered` is a history variable. `waiting` has no spurious wake-ups, as
`sync.Cond` has none.

### MultipartSession and the code

Each section of `m.mu`, of `s.mu` and of the window is an action; a request is a
program counter with the values it carries between sections.

| Code | Model |
|---|---|
| `Init` (301-366) | `InitStart` (m.mu, lookup), `InitCheck` (s.mu inside m.mu: `mgr` holds m.mu), `InitResume`, `InitTerminate` and `InitRemove`, `InitCreate` or `InitFails`, `InitRegister` |
| `Chunk` (461-535) | `ChunkGet`, then under s.mu `ChunkReceiving`, `ChunkRestarts`, `ChunkAnswered` or `ChunkPanics`; the window part `WriteRefused`, `WriteBounced`, `WriteAbsorbed`, `WriteAdmitted`, `WritePublished`, `WriteDropped`; then `ChunkClosed`, `ChunkError`, `ChunkChanged` (mismatch) or `ChunkAccepted` |
| `Complete` (539-576) | `CompleteGet`, `CompleteLoop`, `CompleteWoken` or `CompleteCanceled`, `CompleteFinal`, `CompleteRemove` |
| `Status`, `Find` | `Status` |
| `Abort`, `terminate`, `remove` | `AbortGet`, `AbortTerminate`, `AbortRemove` |
| pipeline goroutine (398-402), `putFile`, `finishAttempt` (409-438) | `PipeRead`, `PipeStored`, `PipeFailed`, `PipeRefused`, `PipeOpClose` (deferred Close of `op.Put`), `PipeHarvest`, `PipeClose`, `PipeVerdict`, `PipeSignal` |
| `gc` (236-249) | `Age`, `GCGather`, `GCTerminate`, `GCRemove` |

A session key is reduced to the user: all requests are for one path and size. A
client is a file, and a hash proves the file it belongs to. Several `s.mu`
sections that only read are merged with the answer they produce. `Forgotten`
replaces a window by a sealed one when the session drops it, which its
remaining users cannot tell apart, to keep the state small. The lookup of a
user's session and `s.touch()` are one action; the touch is an atomic store.

### TransferGroup and the code

A section of the coordinator's mutex and a call of a storage are an action each.

| Code | Model |
|---|---|
| `transfer` (copy_move.go 103-177) | `Start`; with `NoTaskKey` (WebDAV) the caller is the task, `sync` |
| `RunWithNextTaskCallback` (179-264) | `RunDir`, `AddNext` for each file, `Listed`; `UploadStart`, `UploadOK`, `UploadFailed`; `Broken` for each call that fails before an upload. A synchronous transfer uploads in place of `AddNext` and stops at the first failure |
| `AddTask`, `AppendPayload` (group.go 34-55) | operators of the same names on one group |
| `Done` (57-82), `OnSucceeded`, `OnFailed` | `Done` in `Finish` |
| `SetRetry` (89-101) after a user's retry | `UserRetries`: the task joins the group of its own destination, with its own removal |
| task library: run again after an error | `RunAgain` |
| `HookAndRemove` (transfer.go 24-73) | `CompleteDir` or `CompleteFile` for each payload, `CompletionEnds` |
| `verifyAndRemove` (75-118) | `Verify` (both sides have the name), `RemoveFile`, then `RemoveDir` or, after a failure below, `LeaveSource` |

A file is whole at the source or gone; at the destination it is absent, another
file of the name, broken, or whole. Storages are outside: each call may fail.
`PartialFiles` says whether an upload is visible before it has succeeded and may
stay broken when it fails, as in `drivers/local` (driver.go 411-437, which removes
the file only after a cancellation). `trouble` is a history variable: a storage
failed during a completion. Listings are taken to be up to date (the directory
cache is a component of its own), and storages stay mounted.

### LinkCache and the code

A caller is a goroutine; its call for a file, and the call that a driver makes in
turn for the file below, are two frames. Each atomic operation on a counter is an
action, because `AcquireReference` and `Close` are built from several of them.

| Code | Model |
|---|---|
| `GetType` under the read lock (typed_cache.go 46-63), under the write lock (65-75) | `Lookup`, `Evict`; the inner map an `Evict` works on may have left the cache meanwhile |
| `SetTypeWithExpirable`, `DeleteKey`, `Clear`, `GC` | `Store`, `DeleteKey`, `Clear`, `GC` |
| a hit (fs.go 244-249) | `Hit`, then `Restore` when the link turned out closed |
| `linkG.Do` and the end of `doCall` | `Do` (join or lead a flight), `Finish` and `FetchFails` (everyone who waits gets the result) |
| the function of the flight (251-271) | `FetchOwn`; for a wrapping driver `FetchBelow`, the nested frame's steps, then `Wrap`, `Unwrap` or `FetchFails`; then `Store` |
| the loop around `Do` (271-280) | `Join`, `Restore`, and back to `Do` |
| `AcquireReference` (io.go 196-204) | `AddReference` (Add) and `RestoreClosed` (Store) |
| `Close` (208-234) | `CloseLoad`, `CloseSwap` (compare-and-swap, retried), `RunClosers`, which goes on with the link below |

A link is a number, its kind says whether it needs a reference (`RequireReference`:
"required"), has an expiration ("expiring") or neither ("plain"). `counts` is a
history variable: the frame, or the link built on it, holds a reference. A panic
of a driver ends its flight as an error does. `DriverExtract` (archive.go 402-435)
is the same protocol on a second cache.

### Downloader and the code

A section of `d.mu` is an action, but the send on the channel that ends
`sendChunkTask` is one of its own: it may wait, with the mutex held (`mu`).

| Code | Model |
|---|---|
| `download` (157-215) | `Acquire`, `Open`, `OpenSend`, `OpenFails`, and the first `Pop` |
| `sendChunkTask` (217-291) | `Prepare` up to the send, `Declines` for its early returns, `Sent` and `Unsent`; called by `Open`, `Grow` and `Resend` |
| `downloadPart`, `downloadChunk` (358-419) | `Take`, `End`, `Retry`, `Copied`, `CopyFails` |
| `tryDownloadChunk` (435-512) | `Answered`, `Broken`, `RefusedFirst`, or `Refused`, `Overload` and `Requeue`; then `Grow`, `GrowSend` and `Copy` |
| `PipeBuffer` | the records of `buf`; `Write` and `Read` with the signal for a reader that waits, `Reset`, the closing in `CloseAll` and `Finish` |
| `multiReadCloser`, `popBuf`, `finishBuf` | `Read`, `Wake`, `ReadFails`, `Finish`, `Resend`, `ResendSend`, `Pop`, `Close` |
| `interrupt` (294-325) | `Close` cancels the context, `Interrupt` is the section of `d.mu` |
| a context that ends | `Cancel` |

A byte is its place in the range. `PipeBuffer` copies with its mutex released;
since there is one writer and one reader, and `Reset` waits for both, copying and
publishing are one action. A body ends or breaks after any number of bytes, behind
the last one too: `CopyFails` then leaves a chunk of no bytes, which is requested
again like any other (request.go:396-403 and 501-505). A server may refuse that
request, give an empty body, or break the download with a status; one that ignores the
range and answers with the whole file is left out, here and for every other part:
into a buffer that was given to another part it would write bytes of the wrong place.

## 3. Runs

| Run | Shows | Bounds | Distinct states |
|---|---|---|---|
| `WindowBytes` | `TypeOK`, `NoRingRace`, `StreamIntact`, `NoLostWakeup`, `AckedIsHeld`, `SnapshotExact`, `CRCWriteOnce`, `ImplementsStream` | 3 chunks of 2, 2 and 1 bytes, 2 slots, 2 requests at a time, 2 bodies per chunk, reads of 1 or 2 bytes | 894,000 |
| `WindowLiveness` | `AdmissionBounded`, `CloseReleases` | 2 chunks (2 and 1 bytes), 1 slot, 2 requests | 79,000 |
| `SessionRefill` | `TypeOK`, `StateMatchesAttempt`, `MismatchIsCaught`, `CompletedIsStored`, `OnePipeline` | 2 chunks, 1 slot, 1 session of 2 attempts, 2 requests, 2 clients whose second chunk differs, index -1 included | 1,070,000 |
| `SessionRegistry` | `KeyLeadsToSession`, `FinishedStaysFinished` | 2 sessions of one key, 2 requests, `Init`, `Complete`, `Abort` and `Status`, no expiry | 155,000 |
| `SessionLiveness` | `AbortEndsPipeline`, `CompleteReturns`, `ExpiredIsReclaimed` | 1 session, 1 chunk, 2 requests, expiry | 92,000 |
| `SessionUnowned` | violation of `ManagerOwnsLive` | | |
| `SessionMixedFile` | violation of `StoredIsOneFile` | | |
| `SessionNegativeIndex` | violation of `MutexIsReleased` | | |
| `TransferMove` | `TypeOK`, `GroupCountsTasks`, `NothingLost`, `MovedIsGone` | 2 files, a move (by tasks or in the caller) and a merge, 4 tasks, one user retry, no broken files | 1,125,000 |
| `TransferLoss` | violation of `NothingLost` | 1 file, 1 move, broken files stay | |
| `LinkShared` | `TypeOK`, `HeldIsOpen`, `CounterIsHolders`, `ClosedOnce`, `NoLeak`, `ImplementsLease` | 2 callers, a file and an encrypted file built on it, 3 links, with and without expiration | 992,000 |
| `DownloadParts` | `TypeOK`, `PartsCover`, `InOrder`, `NoEarlyEnd`, `OneHand`, `RoomForChunks`, `SlotsKept`, `ClosedForGood`, `ReaderAnswered`, `WorkersEnd` | 7 bytes in parts of 1, 2, 2 and 2, 2 workers, 1 repetition of a request, any number of refusals, a limit of 0, 1 or 2 | 574,000 |

Why the bounds are enough. Three chunks with two slots reuse a slot, have a
short last chunk, a full ring, and a chunk outside the window. Two requests are
what competing for a slot or a chunk takes, the driver and closers are extra
processes. Reads of one byte stop inside a chunk. With one slot two requests
are needed to make one park. Two attempts of a session are the smallest number
with a previous one; two sessions of a key are needed for superseding. `SessionRefill`
has no hashes (no rapid upload) and `SessionRegistry` neither expiry nor chunks that
start a new attempt: what `CompletedIsStored`, `KeyLeadsToSession` and
`FinishedStaysFinished` say of these rests on the proofs alone. The
proofs of section 5 remove the bounds for the properties they cover. For
transfers, two files are what a partial failure takes, and two jobs what sharing
a group takes; runs again are not bounded, since they lead back to an earlier
state. `MaxTasks` and `MaxRetried` bound the tasks created and the tasks that a
user retries; at the first bound `Start` and `AddNext` are not enabled.
`TransferMove` does not check deadlock, because it really stops when all tasks
have ended.

Two callers share a hit, a flight and a last close, and the encrypted file adds the
nested call and the wrapped link; three links are one after both are closed
(`MaxLink`; a flight that would make another one can only fail). `Closed` stands for
`math.MinInt32`: it is so low that the joins of all frames together do not lift it
to zero (`LinkAssumption`). Four parts with two workers use each buffer again, the
short first part included; four parts are also what it takes to fill the queue
beside an empty chunk. Refusals are not counted. With a limit of 1 no second worker
starts.
`PartsCover` is evaluated for part sizes up to 9 and ranges up to four parts.
`DownloadParts` does not check deadlock: a download ends.

`SessionRefill` does not check deadlock: a negative chunk index leaves the
session's mutex locked, after which everything may wait for it (the finding
below). `WindowBytes` and `SessionRegistry` do.

Symmetry is used for requests, for bodies in `WindowBytes`, for files in
`TransferMove` and for callers in `LinkShared`, in safety runs only; every property of these runs treats them alike.

`MaxSession` and `MaxAttempt` bound the counters of `MultipartSession`:
`InitCreate` is not enabled at the first, `ChunkRestarts` not beyond the second.

### Fairness

`WindowLiveness` assumes weak fairness of the admission loop of each request, of
the clock and the timers, of a `Read` in progress and of the closer. These are
goroutines that wait for nothing but the mutex, or the Go runtime. Nothing is
assumed of a client (a body may never arrive), of the driver's next call, or of
anyone closing the window. A parked `Read` is not enabled, so fairness does not
wake it.

`SessionLiveness` assumes weak fairness of the steps of a request that do not
wait for its client, of the pipeline's steps after the driver returned, of the
gc ticker, and that a driver returns once its stream has ended or failed and
reads on while there is something to read. The start of a request, the arrival
of a body, the departure of a client and the passing of the TTL are not fair.

`DownloadParts` assumes weak fairness of each worker and of the reader's calls in
progress: a request is answered or fails, and a body goes on, ends or breaks, because
HTTP clients and servers time out. A refused part is requested again without end
(errInfiniteRetry), so a reader can be promised bytes only if a server that is asked
again and again does not refuse for ever: strong fairness of `Answered`, over all
workers together. Starting a `Read`, closing, and the end of the
context are not fair. `LinkShared` states safety only.

## 4. What the runs found

* `SessionUnowned`. `Chunk` finds a failed session, is overtaken by `Abort` (or by
  expiry, or by a superseding `Init`), which removes it but leaves its state
  `failed_retriable`, and then starts a new attempt in it (session.go:477). The
  driver waits in `Read` for chunks; the client gets "not found" for them; the
  expiry loop looks only at registered sessions. The comment at session.go:165
  says the manager owns all live sessions.
* `SessionMixedFile`. `Init` resumes a failed session without comparing hashes
  (session.go:321). The comment at 317-319 relies on the re-fill check, but the
  check knows only the chunks the attempt before had received. When two clients
  of one user resume the session, the stored file is made of chunks of both.
* `SessionNegativeIndex`. The handler passes any integer as chunk index;
  session.go:494 indexes a slice with it while s.mu is locked, in the first attempt as
  well as in later ones. The window's own check (window.go:146) comes later. The recovered panic leaves the mutex locked.

* `TransferLoss`. The completion of a move asks only whether the destination has an
  object of the name (transfer.go:87). The task that lists the directory succeeds,
  which is enough for the completion to run (group.go:71), although the upload of
  a file failed. If that left a broken file at the destination, the source is
  removed and the file is lost. The same happens with another file of that name
  that was there before (`Existing`).

The downloader does the following, which the model either shows as a possible
outcome or leaves out, as said:

* A chunk that was put back into the queue keeps `newConcurrency` (request.go:465-477).
  When it is refused again, the worker that took it gives up as well. With two
  workers, two refusals end both: the chunk stays in the queue, and the reader of
  its part waits until its client leaves. `ReaderAnswered` is therefore stated for
  downloads that have a worker left which does not itself wait for room in the queue.
* An error behind the last byte of a part, from a connection that is reset or a body
  that is cut off, leaves a chunk of no bytes, which is requested again
  (request.go:396-403). When that is refused, it is put back into the queue (477),
  although nothing of its part is missing. The queue has as many places as there are
  workers, for chunks that have a buffer each (`RoomForChunks`); empty chunks come on
  top and can fill it. With two workers, one of which
  has put back the empty chunk 1 and ended, a queue of [3, empty 1], and part 2 read
  to its end: `sendChunkTask(false)` waits for room
  with d.mu held (285-290). A worker that looks for the next chunk makes room; one that
  is on its way into `sendChunkTask` or into the section at 464 waits for d.mu, and
  then the download is stuck until its context ends. In the same way the last worker can
  wait for room to put its own chunk back, while the reader waits for a part that
  is in the queue. `RoomForChunks` and `ReaderAnswered` state what holds besides this.
* When the context ends between the start of a worker and the send of its chunk, its slot of
  the limit is given back twice (request.go:231-235 and :359). `SlotsKept` is exact
  until the context ends; after that it allows slots to be gained, so it does not
  guard against this.
* The send of request.go:477 is not under `d.mu`; a close of the queue by `interrupt`
  before it makes it panic. Its workers are the process's own goroutines, without
  a recovery ("panic" in `Requeue`).
* `finishBuf` writes into `bufMap` without asking whether `interrupt` has dropped it
  (request.go:341), which panics when another goroutine closes the reader during a
  `Read`. The model's reader closes after it has read.

Behaviours that the code does not promise against: two concurrent `Init`s create two sessions; `Complete` may answer that
bytes are missing while a rapid upload is being recorded as success; a late
mismatch relabels a completed session; expiry counts the time a client waits
in `Complete`.

## 5. Proofs

`MultipartWindowProofs` proves, for every chunk size, file size, number of slots,
set of requests and of bodies:

* `WindowInvariant == Spec => []WindowInv`
* `WindowTypes == Spec => []TypeOK`
* `RingIsRaceFree == Spec => []NoRingRace`
* `WakeupsSuffice == Spec => []NoLostWakeup`

from `WindowAssumption`: the sizes are positive integers (`NewWindow` rejects
others, window.go:83), "no version" is not a version, the driver is not a
request.

`NoRingRace` and `NoLostWakeup` are not inductive. `WindowInv` adds:

* `CallsInBounds`: a fill and a `Read` work on real chunks and stay inside them,
  and the read position does not move under a `Read`;
* `SlotsOwned`: while the window is open a filling slot belongs to the request
  that fills it, the chunk being read is ready, and a chunk in a slot lies
  between the frontier and the end of the window; once closed all slots are free;
* `FillsApart`: running fills, and the running `Read`, use different slots. This
  is what remains true after a close has reset the slots under them;
* `ParkedInLoop`: who is parked is in its loop, with a real chunk.

The argument for lost wake-ups: a request parks because its chunk is beyond the
window, or because its slot is taken. The first changes only when the frontier
moves, and `ReadCommit` broadcasts exactly then. For the second, the slot would
have to become free. `ReadCommit` and `Close` broadcast; `GiveUp` does not. But
the chunk that `GiveUp` drops and the one that is waited for would both lie in
the window and share a slot, and two such chunks are equal (`ModDistinct`);
and nobody parks for a chunk that is in flight (`RejectInFlight`). So a chunk
waited for is beyond the window, and freeing the slot does not admit it.
The lemmas about chunk arithmetic (`ChunkGeometry`, `CurrentChunk`, `RingPlace`,
`CommitFrontier`) rest on the properties of integer division proved in
`DivBounds` and `DivUnique`. Each action that disturbs a conjunct has a step of
its own in `TypeStep`, `CallsStep`, `ApartStep`, `ParkedStep`, `SlotsStep` and
`WakeupStep`.

`MultipartStreamProofs` goes on to what is in the slots:

* `ContentInvariant == Spec => []ContentInv`
* `StreamIsIntact == Spec => []StreamIntact`
* `AckedStaysHeld == Spec => []AckedIsHeld`
* `RecordsAreFinal == Spec => CRCWriteOnce`
* `SnapshotsAreExact == Spec => []SnapshotExact`
* `WindowImplementsStream == Spec => ImplementsStream`

It also needs `ReplyAssumption`: an answer of `WriteChunk` is either a CRC or an
error, in Go by their types. None of these properties is inductive, because what
was delivered came out of slots that were filled long before. `ContentInv` adds
that a slot holds what its writer has written so far and, once ready, all of the
accepted body, still so while `Read` copies from it (`BodiesInRing`); that while the window is open a chunk
is on record as long as it is in a slot or delivered, and only then
(`RecordsMatch`); and that an answered CRC is the one on record (`AnswersMatch`).
`WindowInv` is what makes this inductive: a byte that is written lies in the slot of
a chunk that nobody else writes or reads (`PlacesApart`, `FillsApart`). For the
refinement, each action maps to a step of `ChunkStream` or to a stutter.

`SnapshotExact` compares two sums over sets of chunks, `MapThenSumSet`, and the
library's induction theorems cannot be used for what they add up to. The proof takes a
least counterexample instead (`LeastNat`, from the library's well-founded order of the
naturals): a function with the sum of every set of chunks exists (`Sums`, `SumsExist`,
one number more at a time), a sum in which each element is chosen, as `MapThenSumSet`
does it, is the same (`ChosenOrder`, by cardinality), and the first `n` chunks add up
to where chunk `n` starts (`FirstLengths`). So the bytes ahead of the frontier are those
of the listed chunks less what is behind it, and `Served` takes away what `Read` has
had of the chunk it is in (`RestsFrom`, `SnapshotCounts`).

`MultipartSessionProofs` proves, for any number of clients, requests, sessions,
attempts, chunks and slots:

* `SessionsAreTyped == Spec => []TypeOK`
* `ReceivingHasPipeline == Spec => []StateMatchesAttempt`
* `RefillIsChecked == Spec => []MismatchIsCaught`
* `CompletedMeansStored == Spec => []CompletedIsStored`
* `KeysAreHonest == Spec => []KeyLeadsToSession`
* `PipelinesDoNotOverlap == Spec => OnePipeline`
* `FinishedIsFinal == Spec => FinishedStaysFinished`

from `SessionAssumption` alone. What requests carry from one section of a mutex to
the next makes the invariant: `SessionInv` joins the types; that sessions are
numbered in order and that nothing has happened in one that was not created
(`InOrder`, `Unborn`); for each session, that attempts started in order, at most the
last one is at work, it is while the session receives and it has ended when the
session can be re-filled (`AttemptsInOrder`); that success is reported by the
pipeline that stored the file (`Stored`); and what a request knows: its session
exists, its attempt was started, and the CRC it compares with is the right one as
long as its attempt is at work (`RequestFacts`), although neither mutex was held
since it was read. The argument for `MismatchIsCaught`: a chunk enters a window by
the request that will compare it, and between entering and comparing, the request
stays in `chunkVerify`; the previous attempt's CRCs change only when the attempt
has ended.

`TransferGroupProofs` proves, for every set of files, of transfers and bounds:

* `TransferTypeOK == Spec => []TypeOK`
* `MoveLosesNothing`: `Spec => []NothingLost`, if a failed upload leaves nothing
  behind (`~PartialFiles`) and the destination had no files of these names.

`TransferLoss` shows that the first condition is needed; the second one is for
the reason given there. `NothingLost` is not inductive. `LossInv` adds that a
name at the destination is a whole file (`OnlyWhole`), that the file a completion
is about to remove is whole at the destination (`Removable`), and that a
completion that met no failure has only the files it still has to look at left
in the source (`AllLookedAt`), so that removing the directory with everything in
it removes nothing more. Most actions keep it because they remove nothing, write
whole files and leave verifying tasks alone (`LossQuiet`); the completion's
actions have steps of their own in `LossStep`.

`TransferMoveProofs` adds, about the coordinator:

* `GroupsCount == Spec => []GroupCountsTasks`
* `MovesRemove`: `Spec => []MovedIsGone`, for one move beside any number of copies
  and merges (`SingleMove`), of a directory that has files, if a failed upload leaves
  nothing behind.

The counter is a cardinality: a step takes one task into the group or out of it
(`Joins`, `Leaves`), and a new task has a fresh number, since numbers are handed out in
order (`IdsInOrder`). `MovedIsGone` says that nothing is forgotten, so its invariant
`MoveInv` follows the request to remove the source on its way: it is still to be
made by a synchronous caller, it is the payload of a group in which a task of the
move lives or has succeeded, or a completion works on it, unless the source is gone
or a task has failed (`Requested`); it is in one place (`OneRequest`); every
file the listing saw is at the destination or has a task that will deliver it
(`Covered`); and a completion goes through files that are still there
(`StillThere`). The hypotheses are needed. An empty directory is never created at
the destination, so the completion does not find it there and leaves the source.
Where uploads are visible before they succeed, another transfer's failed upload may
remove the name that the completion looks for. Two moves of one source may each see
the other's removal as a failure.

`LinkCacheProofs` proves, for every set of callers, files and types, any tree of
wrapping drivers and any number of links, all that `LinkShared` checks:

* `TypeCorrect == Spec => []TypeOK`
* `HeldStaysOpen == Spec => []HeldIsOpen`
* `CounterCountsHolders == Spec => []CounterIsHolders`
* `ClosersRunOnce == Spec => []ClosedOnce`
* `NothingLeaks == Spec => []NoLeak`
* `CacheImplementsLease == Spec => ImplementsLease`

from `LinkAssumption`: finitely many callers and files, `Closed` low enough, and a
driver whose link needs a reference sets no expiration (true of every driver here).
None of the properties is inductive. `IInv` joins

* `Shape`: the types, and how the fields of a frame and of a link hang together;
* `Low`: the counter of a closed link is at most `Closed` and one for each frame
  that is about to restore it, so that no number of late joins opens it. This is
  what makes the two-step `AcquireReference` right;
* `Refs`: who uses a link without a reference uses an expiring or a closed plain one;
* `Count`: an open link has as many holders as its counter says, a closed one none;
* `Bounded` and `Awaited`, for `NoLeak`: an open counter is never above the number
  of holders, for expiring links as well, whose users close them without having
  joined; and a counter of zero has a frame that is about to join.

Most steps are `Calm`: they leave counters, closers and who holds what alone
(`Steps`). The eight that are not have their effect stated once (`JoinsFacts`, ...,
`WrapFacts`), on which the preservation of each part rests. For the refinement,
`LeaseNext` shows that every step opens, joins, leaves, passes on, closes or rests
each link.

`DownloaderProofs` proves, for every range of more than one part, part size, number
of workers, retries and refusals and every limit:

* `PartsTile`: the parts follow one another from the first byte to the last, none is
  empty or longer than a block, with the starts of the parts in closed form
  (`StartOf`), which needs no induction.
* `PartsAreCovered == Spec => []PartsCover`: the same as the runs check it, by a
  recursive function over bounded sizes, which has four steps at the most.
* `DownloadsHangTogether == Spec => []DownloadInv`
* `SlotsAreKept == Spec => []SlotsKept`
* `ClosedStaysClosed == Spec => []ClosedForGood`

from `DownloaderAssumption`: the sizes are positive and the range is longer than a
part (`download` takes another way otherwise, request.go:171), and the reader is not
a number. `SlotsKept` is nearly inductive: it needs that a worker starts on a number
that is free, hence that workers start one after another (`Counting`), that none has
started before the reader has its slot (`Control`), and that a part is handed out
only with a worker to start or a buffer the reader left. `ClosedForGood` needs that
`interrupt` finds every open buffer: it is in `bufMap`, for a part or as the one that
was popped last (`Opened`), which in turn rests on where the reader is (`Places`) and
on which part has which buffer (`Mapped`): each has its own, the one of the
reader's part is with the reader while it reads, and a part beyond `nextChunk` has
none unless `finishBuf` has just put it there. All steps of a worker but one leave
this alone (`Turned`); handing out a part is proved once for its three callers
(`HandsOut`), and so are the steps of the reader that touch no buffer (`Walks`).

`DownloaderBytesProofs` adds what is in the buffers and who brings the rest, for the
same constants:

* `EveryByteHasItsPlace == Spec => []BytesInv`
* `BytesAreInOrder == Spec => []InOrder`
* `EndIsTheEnd == Spec => []NoEarlyEnd`
* `PartsAreInOneHand == Spec => []OneHand`
* `SendsFindRoom == Spec => []RoomForChunks`
* `DownloadTypes == Spec => []TypeOK`

None of these is inductive: that the reader gets the right byte depends on what a
worker put there many steps before, from a chunk that may have been shortened by
failed requests, put back and taken by somebody else. `BytesInv` says, until
`interrupt`,

* `Contents`: the buffer of each part from the reader's on (`HeldBy`) has the first
  bytes of the part, each at its place; its limit is the length of the part; only the
  reader's has been read from, as far as the reader says;
* `InQueue`, `InSend`, `AtWork`: a chunk in the queue, on its way to the queue or with
  a worker names the buffer of its part, starts where the bytes in that buffer end, and
  asks for all that are to come (`Fits`). When its part is one that the reader has left
  behind, there is nothing more to fetch: it is used up, or was empty when it was
  requested or put back (`Waiting`). What `sendChunkTask` sends is never empty;
* `Apart`: no part is in two of these hands;
* `NoneLost`: while the download goes on, a part with bytes to come is in one.

What a step does to the parts is said once (`PartsStay`: they keep buffer and bytes, a
part may be added, and the reader may leave one that is complete), and the lemmas about
chunks (`ChunksStay`, `ChunksTaken`, `ChunksSent`, `ChunksBack`, `ChunksAgain`) rest on
it; only `Copy` changes a part (`Copies`). `RoomForChunks` then is a pigeonhole
argument (`RoomForOne`): the chunks in the queue that have bytes to fetch and the one
that is to be added have different parts, none of them left behind, hence different
buffers, of which there are no more than workers.

Every invariant and every action property of a passing run, and the refinement, is
stated by one of these theorems. Only model-checked: liveness under fairness, which is
out of the prover's reach. No module uses a RECURSIVE operator.

## 6. Not modelled, and the plan

Not modelled in the multipart package: the handlers' parsing and error codes, the
progress percentage, the wording of answers, the sweep of ring files at the
start of the process (sessions are in memory only, a restart loses them). Of
transfers: nested directories, copies within one storage (a call of the driver),
tasks restored after a restart, update hooks, archives and offline downloads,
which use the same coordinator.

Of the link cache: `SyncClosers.Add`, which drivers call before they hand a link out,
and what a driver does to make a link. Of the downloader: ranges of one part, which go
without buffers, the delays before a request is repeated, and a reader that
is closed by another goroutine.

Hazards of parts without a module are in `PROJECT.json`, at their lines: listings that
race updates (fs.go:108, cache.go:183), the backup step of `Put` (fs.go:647), the WebDAV
locks (lock.go:217) and the life cycle of storages (storage.go:232).

The plan, in this order:

1. Directory cache, listing and `Put`/`Rename`/`Remove` (`internal/op/fs.go`,
   `cache.go`): an abstract listing that is never older than a finished update.
2. Transfers: nested directories and restored tasks in `TransferGroup`.
3. WebDAV locks; storage life cycle; index builder.

Components without a module are listed with their reason in `PROJECT.json`.
