-------------------------- MODULE MultipartSession --------------------------
(***************************************************************************)
(* internal/multipart/session.go: the manager of chunked uploads, its       *)
(* sessions, the upload pipeline each attempt of a session runs, the        *)
(* requests of server/handles/multipart.go and the expiry loop.             *)
(*                                                                         *)
(* A critical section of m.mu, of s.mu or of the window is one action, and  *)
(* requests, pipelines and the expiry loop interleave between them.  The    *)
(* window is the chunk stream that MultipartWindow implements.  Answers are *)
(* left out: nothing depends on them.                                       *)
(*                                                                         *)
(* A definition whose name starts with Faulty is the one after it with a    *)
(* mistake in it; nothing uses it.  It shows that a property would notice.  *)
(***************************************************************************)
EXTENDS ChunkStream, FiniteSets

CONSTANTS MaxSession,  \* bound: sessions ever created
          MaxAttempt,  \* bound: last pipeline attempt of a session
          Requests,    \* request handlers running at the same time
          Clients,     \* who uploads: each has one file for the one path and size modelled
          Users,       \* logged-in users; a session key is (user, path, size), here the user
          UserOf,      \* client -> user
          FileOf,      \* client -> chunk -> version: the file it uploads
          HashOf,      \* client -> the hash it sends: itself (of its file), or NoHash
          Indexes,     \* chunk indexes clients send
          Operations,  \* what happens in an instance: requests, and "Expire"
          Nobody, NoHash

ASSUME SessionAssumption ==
    /\ Total \in Nat \ {0} /\ Slots \in Nat \ {0}
    /\ MaxSession \in Nat /\ MaxAttempt \in Nat
    /\ UserOf \in [Clients -> Users]
    /\ FileOf \in [Clients -> [Chunks -> Versions]]
    /\ \A c \in Clients : HashOf[c] \in {c, NoHash}
    /\ NoVersion \notin Versions /\ NoHash \notin Clients
    /\ Nobody \notin Requests /\ Indexes \subseteq Int
    /\ Operations \subseteq {"Init", "Chunk", "Complete", "Status", "Abort", "Expire"}

Sids     == 1 .. MaxSession
Attempts == 0 .. MaxAttempt
NoContent == [i \in Chunks |-> NoVersion]
Contents  == [Chunks -> Versions \cup {NoVersion}]
Nil == 0 - 1   \* s.win is nil

VARIABLES
    byID,       \* m.byID: ids of the registered sessions
    byKey,      \* m.byKey: user -> id, 0 when there is none
    mgr,        \* holder of m.mu when it is kept while s.mu is taken (Init)
    sess,       \* id -> session
    win,        \* id -> attempt -> its window
    pipe,       \* id -> attempt -> its pipeline goroutine
    committed,  \* id -> content the driver stored, NoContent before
    known,      \* client -> ids it was given by Init
    req,        \* request handler -> its state
    gc          \* expiry loop: sessions it gathered, the one it terminated

vars == <<byID, byKey, mgr, sess, win, pipe, committed, known, req, gc>>

\* attempt names the next ring file; cur is the attempt whose done channel
\* s.done is; active: used within the TTL; stuck: s.mu is never released again.
NoSession == [user |-> Nobody, hash |-> NoHash, state |-> "none", attempt |-> 0, win |-> Nil,
              cur |-> Nil, prev |-> NoContent, active |-> FALSE, stuck |-> FALSE]
NoPipe    == [pc |-> "none", out |-> "none", crcs |-> NoContent]
IdleReq   == [pc |-> "idle", sid |-> 0, att |-> Nil, idx |-> 0, client |-> Nobody,
              prev |-> NoVersion, crc |-> NoVersion]
IdleGC    == [expired |-> {}, sid |-> 0]

Init ==
    /\ byID = {}
    /\ byKey = [u \in Users |-> 0]
    /\ mgr = Nobody
    /\ sess = [s \in Sids |-> NoSession]
    /\ win = [s \in Sids |-> [a \in Attempts |-> Fresh]]
    /\ pipe = [s \in Sids |-> [a \in Attempts |-> NoPipe]]
    /\ committed = [s \in Sids |-> NoContent]
    /\ known = [c \in Clients |-> {}]
    /\ req = [r \in Requests |-> IdleReq]
    /\ gc = IdleGC

Created   == {s \in Sids : sess[s].state # "none"}
MgrFree   == mgr = Nobody
MuFree(s) == ~sess[s].stuck

\* The last critical section of a request has run.
Answer(r)    == req' = [req EXCEPT ![r] = IdleReq]
Goto(r, pc)  == req' = [req EXCEPT ![r].pc = pc]
Touch(s)     == sess' = [sess EXCEPT ![s].active = TRUE]

-----------------------------------------------------------------------------
(* Helpers that run with s.mu held.                                         *)

\* Only the context is canceled.
FaultyKilled(s) == win

\* killAttemptLocked: close the current window so that a driver blocked in
\* Read wakes up.  The canceled context lets the driver return as well.
Killed(s) == IF sess[s].win = Nil THEN win
             ELSE [win EXCEPT ![s][sess[s].win] = Seal(@, "aborted")]

\* A re-fill is counted at its start as well.
FaultyStarted(x) ==
    [x EXCEPT !.state = "receiving", !.win = x.attempt, !.cur = x.attempt,
              !.attempt = IF x.state = "failed_retriable" THEN @ + 1 ELSE @]

\* startAttemptLocked succeeded: a new window and a pipeline reading from it.
Started(x) == [x EXCEPT !.state = "receiving", !.win = x.attempt, !.cur = x.attempt]
Spawn(s, a) == /\ win' = [win EXCEPT ![s][a] = Fresh]
               /\ pipe' = [pipe EXCEPT ![s][a] = [NoPipe EXCEPT !.pc = "put"]]

\* The s.mu section of terminate, and its m.mu section (remove).
Terminate(s) ==
    /\ MuFree(s)
    /\ sess' = [sess EXCEPT ![s].state = IF @ = "receiving" THEN "aborted" ELSE @]
    /\ win' = Killed(s)

\* The key is left behind.
FaultyWithoutKey(s) == byKey
WithoutKey(s) == [byKey EXCEPT ![sess[s].user] = IF @ = s THEN 0 ELSE @]

Remove(s) ==
    /\ MgrFree
    /\ byID' = byID \ {s}
    /\ byKey' = WithoutKey(s)

-----------------------------------------------------------------------------
(* Init                                                                     *)

\* hashesQualifyResume: the client of the hash is the client of the file.
QualifyResume(old, new) == old # NoHash /\ new = old

InitStart(r) ==
    /\ req[r].pc = "idle"
    /\ "Init" \in Operations
    /\ MgrFree
    /\ \E c \in Clients :
          LET id == byKey[UserOf[c]]
              found == id \in byID
          IN  /\ req' = [req EXCEPT ![r].pc = IF found THEN "initCheck" ELSE "initCreate",
                                    ![r].sid = IF found THEN id ELSE 0,
                                    ![r].client = c]
              /\ mgr' = IF found THEN r ELSE Nobody
    /\ UNCHANGED <<byID, byKey, sess, win, pipe, committed, known, gc>>

\* s.mu is taken inside m.mu.
InitCheck(r) ==
    LET s == req[r].sid
        resume == \/ sess[s].state = "failed_retriable"
                  \/ sess[s].state = "receiving" /\ QualifyResume(sess[s].hash, HashOf[req[r].client])
    IN  /\ req[r].pc = "initCheck"
        /\ MuFree(s)
        /\ mgr' = Nobody
        /\ Goto(r, IF resume THEN "initResume" ELSE "initTerminate")
        /\ UNCHANGED <<byID, byKey, sess, win, pipe, committed, known, gc>>

InitResume(r) ==
    /\ req[r].pc = "initResume"
    /\ MuFree(req[r].sid)
    /\ Touch(req[r].sid)
    /\ known' = [known EXCEPT ![req[r].client] = @ \cup {req[r].sid}]
    /\ Answer(r)
    /\ UNCHANGED <<byID, byKey, mgr, win, pipe, committed, gc>>

InitTerminate(r) ==
    /\ req[r].pc = "initTerminate"
    /\ Terminate(req[r].sid)
    /\ Goto(r, "initRemove")
    /\ UNCHANGED <<byID, byKey, mgr, pipe, committed, known, gc>>

InitRemove(r) ==
    /\ req[r].pc = "initRemove"
    /\ Remove(req[r].sid)
    /\ req' = [req EXCEPT ![r].pc = "initCreate", ![r].sid = 0]
    /\ UNCHANGED <<mgr, sess, win, pipe, committed, known, gc>>

\* The new session is not reachable yet, but its pipeline is running.
InitCreate(r) ==
    /\ req[r].pc = "initCreate"
    /\ Cardinality(Created) < MaxSession
    /\ LET s == Cardinality(Created) + 1
       IN  /\ sess' = [sess EXCEPT ![s] = Started([NoSession EXCEPT
                          !.user = UserOf[req[r].client], !.hash = HashOf[req[r].client], !.active = TRUE])]
           /\ Spawn(s, 0)
           /\ req' = [req EXCEPT ![r].pc = "initRegister", ![r].sid = s]
    /\ UNCHANGED <<byID, byKey, mgr, committed, known, gc>>

\* NewWindow failed.
InitFails(r) ==
    /\ req[r].pc = "initCreate"
    /\ Answer(r)
    /\ UNCHANGED <<byID, byKey, mgr, sess, win, pipe, committed, known, gc>>

InitRegister(r) ==
    /\ req[r].pc = "initRegister"
    /\ MgrFree
    /\ byID' = byID \cup {req[r].sid}
    /\ byKey' = [byKey EXCEPT ![UserOf[req[r].client]] = req[r].sid]
    /\ known' = [known EXCEPT ![req[r].client] = @ \cup {req[r].sid}]
    /\ Answer(r)
    /\ UNCHANGED <<mgr, sess, win, pipe, committed, gc>>

InitRequest(r) == \/ InitStart(r) \/ InitCheck(r) \/ InitResume(r) \/ InitTerminate(r)
                  \/ InitRemove(r) \/ InitCreate(r) \/ InitFails(r) \/ InitRegister(r)

-----------------------------------------------------------------------------
(* Requests that name a session.                                            *)

\* get finds the session and its owner, then the session is touched.
Get(r, op, first, c, i) ==
    /\ req[r].pc = "idle"
    /\ op \in Operations
    /\ MgrFree
    /\ \E s \in known[c] :
          /\ s \in byID
          /\ sess[s].user = UserOf[c]
          /\ req' = [req EXCEPT ![r].pc = first, ![r].sid = s, ![r].client = c, ![r].idx = i]
          /\ IF op = "Abort" THEN UNCHANGED sess ELSE Touch(s)
    /\ UNCHANGED <<byID, byKey, mgr, win, pipe, committed, known, gc>>

-----------------------------------------------------------------------------
(* Chunk                                                                    *)

ChunkGet(r) == \E c \in Clients, i \in Indexes : Get(r, "Chunk", "chunkState", c, i)

AtChunk(r) == req[r].pc = "chunkState" /\ MuFree(req[r].sid)

\* Looked up only by the chunk that starts the re-fill.
FaultyPrevOf(r) == IF req[r].idx = 0 THEN sess[req[r].sid].prev[0] ELSE NoVersion

\* The previous attempt's CRC of this chunk, looked up before the mutex is
\* released.  An index below zero passes the length test of the lookup.
PrevOf(r) == IF req[r].idx \in Chunks THEN sess[req[r].sid].prev[req[r].idx] ELSE NoVersion

ChunkReceiving(r) ==
    /\ AtChunk(r)
    /\ sess[req[r].sid].state = "receiving"
    /\ req[r].idx >= 0
    /\ req' = [req EXCEPT ![r].pc = "chunkAdmit", ![r].att = sess[req[r].sid].win,
                          ![r].prev = PrevOf(r)]
    /\ UNCHANGED <<byID, byKey, mgr, sess, win, pipe, committed, known, gc>>

\* prevSet[idx] panics for a negative index; s.mu is not released by a defer.
ChunkPanics(r) ==
    /\ AtChunk(r)
    /\ sess[req[r].sid].state = "receiving"
    /\ req[r].idx < 0
    /\ sess' = [sess EXCEPT ![req[r].sid].stuck = TRUE]
    /\ Answer(r)
    /\ UNCHANGED <<byID, byKey, mgr, win, pipe, committed, known, gc>>

\* A session that failed for good, or is about to, is re-filled too.
FaultyRefillable(x) == x.state \in {"failed_retriable", "failed_permanent"}
Refillable(x) == x.state = "failed_retriable"

\* Chunk 0 re-fills a failed session: a new attempt, then as when receiving.
ChunkRestarts(r) ==
    LET s == req[r].sid
        a == sess[s].attempt
    IN  /\ AtChunk(r)
        /\ Refillable(sess[s])
        /\ req[r].idx = 0
        /\ a \in Attempts
        /\ sess' = [sess EXCEPT ![s] = Started(@)]
        /\ Spawn(s, a)
        /\ req' = [req EXCEPT ![r].pc = "chunkAdmit", ![r].att = a, ![r].prev = PrevOf(r)]
        /\ UNCHANGED <<byID, byKey, mgr, committed, known, gc>>

\* Completed: absorbed.  Failed: refused, also when NewWindow fails.
ChunkAnswered(r) ==
    /\ AtChunk(r)
    /\ sess[req[r].sid].state # "receiving"
    /\ Answer(r)
    /\ UNCHANGED <<byID, byKey, mgr, sess, win, pipe, committed, known, gc>>

\* The window the request picked; it may belong to an attempt that has ended.
Window(r) == win[req[r].sid][req[r].att]
SetWindow(r, w) == win' = [win EXCEPT ![req[r].sid][req[r].att] = w]

WriteRefused(r) ==
    /\ req[r].pc \in {"chunkAdmit", "chunkFill"}
    /\ Window(r).sealed # "none"
    /\ Goto(r, "chunkClosed")
    /\ UNCHANGED <<byID, byKey, mgr, sess, win, pipe, committed, known, gc>>

\* Bad index, chunk in flight, or still out of the window at the deadline.
WriteBounced(r) ==
    /\ req[r].pc = "chunkAdmit"
    /\ Window(r).sealed = "none"
    /\ req[r].idx \in Chunks => /\ ~Admissible(Window(r), req[r].idx)
                                /\ ~Accepted(Window(r), req[r].idx)
    /\ Goto(r, "chunkError")
    /\ UNCHANGED <<byID, byKey, mgr, sess, win, pipe, committed, known, gc>>

WriteAbsorbed(r) ==
    /\ req[r].pc = "chunkAdmit"
    /\ Window(r).sealed = "none"
    /\ req[r].idx \in Chunks
    /\ Accepted(Window(r), req[r].idx)
    /\ req' = [req EXCEPT ![r].pc = "chunkVerify", ![r].crc = Window(r).content[req[r].idx]]
    /\ UNCHANGED <<byID, byKey, mgr, sess, win, pipe, committed, known, gc>>

WriteAdmitted(r) ==
    /\ req[r].pc = "chunkAdmit"
    /\ req[r].idx \in Chunks
    /\ Admissible(Window(r), req[r].idx)
    /\ SetWindow(r, Admit(Window(r), req[r].idx))
    /\ Goto(r, "chunkFill")
    /\ UNCHANGED <<byID, byKey, mgr, sess, pipe, committed, known, gc>>

\* The body, read from the client, was one whole chunk of its file.
WritePublished(r) ==
    LET v == FileOf[req[r].client][req[r].idx]
    IN  /\ req[r].pc = "chunkFill"
        /\ Window(r).sealed = "none"
        /\ SetWindow(r, Publish(Window(r), req[r].idx, v))
        /\ req' = [req EXCEPT ![r].pc = "chunkVerify", ![r].crc = v]
        /\ UNCHANGED <<byID, byKey, mgr, sess, pipe, committed, known, gc>>

WriteDropped(r) ==
    /\ req[r].pc = "chunkFill"
    /\ Window(r).sealed = "none"
    /\ SetWindow(r, Drop(Window(r), req[r].idx))
    /\ Goto(r, "chunkError")
    /\ UNCHANGED <<byID, byKey, mgr, sess, pipe, committed, known, gc>>

\* The pipeline ended under the request: read s.done, then wait until it is
\* closed or ten seconds have passed.
ChunkClosed(r) ==
    /\ req[r].pc = "chunkClosed"
    /\ MuFree(req[r].sid)
    /\ Goto(r, "chunkError")
    /\ UNCHANGED <<byID, byKey, mgr, sess, win, pipe, committed, known, gc>>

\* Answer with the error, or with success when the upload has completed.
ChunkError(r) ==
    /\ req[r].pc = "chunkError"
    /\ MuFree(req[r].sid)
    /\ Answer(r)
    /\ UNCHANGED <<byID, byKey, mgr, sess, win, pipe, committed, known, gc>>

Mismatch(r) == req[r].prev # NoVersion /\ req[r].crc # req[r].prev

\* The re-fill check: the chunk differs from the one of the previous attempt.
ChunkChanged(r) ==
    LET s == req[r].sid
    IN  /\ req[r].pc = "chunkVerify"
        /\ Mismatch(r)
        /\ MuFree(s)
        /\ sess' = [sess EXCEPT ![s].state = "failed_permanent"]
        /\ win' = Killed(s)
        /\ Answer(r)
        /\ UNCHANGED <<byID, byKey, mgr, pipe, committed, known, gc>>

ChunkAccepted(r) ==
    /\ req[r].pc = "chunkVerify"
    /\ ~Mismatch(r)
    /\ MuFree(req[r].sid)
    /\ Answer(r)
    /\ UNCHANGED <<byID, byKey, mgr, sess, win, pipe, committed, known, gc>>

ChunkWrite(r) == \/ WriteRefused(r) \/ WriteBounced(r) \/ WriteAbsorbed(r) \/ WriteAdmitted(r)
                 \/ WritePublished(r) \/ WriteDropped(r)
ChunkRequest(r) == \/ ChunkGet(r) \/ ChunkReceiving(r) \/ ChunkPanics(r) \/ ChunkRestarts(r)
                   \/ ChunkAnswered(r) \/ ChunkWrite(r) \/ ChunkClosed(r) \/ ChunkError(r)
                   \/ ChunkChanged(r) \/ ChunkAccepted(r)

-----------------------------------------------------------------------------
(* Complete, Status and Abort                                               *)

CompleteGet(r) == \E c \in Clients : Get(r, "Complete", "completeLoop", c, 0)

\* Complete waits whatever was received.
FaultyChunksMissing(s) == FALSE

\* ReceivedBytes < Size.  Closing a window forgets what was not consumed.
ChunksMissing(s) ==
    /\ sess[s].win # Nil
    /\ LET w == win[s][sess[s].win]
       IN  IF w.sealed = "none" THEN \E i \in Chunks : ~Accepted(w, i)
                                ELSE w.frontier < Total

CompleteLoop(r) ==
    LET s == req[r].sid
    IN  /\ req[r].pc = "completeLoop"
        /\ MuFree(s)
        /\ CASE sess[s].state # "receiving" -> Goto(r, "completeFinal")
             [] sess[s].state = "receiving" /\ ChunksMissing(s) -> Answer(r)
             [] OTHER -> req' = [req EXCEPT ![r].pc = "completeWait", ![r].att = sess[s].cur]
        /\ UNCHANGED <<byID, byKey, mgr, sess, win, pipe, committed, known, gc>>

CompleteWoken(r) ==
    /\ req[r].pc = "completeWait"
    /\ pipe[req[r].sid][req[r].att].pc = "ended"
    /\ req' = [req EXCEPT ![r].pc = "completeLoop", ![r].att = Nil]
    /\ UNCHANGED <<byID, byKey, mgr, sess, win, pipe, committed, known, gc>>

\* The client went away: ctx.Done().
CompleteCanceled(r) ==
    /\ req[r].pc = "completeWait"
    /\ MuFree(req[r].sid)
    /\ Answer(r)
    /\ UNCHANGED <<byID, byKey, mgr, sess, win, pipe, committed, known, gc>>

CompleteFinal(r) ==
    LET s == req[r].sid
    IN  /\ req[r].pc = "completeFinal"
        /\ MuFree(s)
        /\ Touch(s)
        /\ IF sess[s].state = "completed" THEN Goto(r, "completeRemove") ELSE Answer(r)
        /\ UNCHANGED <<byID, byKey, mgr, win, pipe, committed, known, gc>>

CompleteRemove(r) ==
    /\ req[r].pc = "completeRemove"
    /\ Remove(req[r].sid)
    /\ Answer(r)
    /\ UNCHANGED <<mgr, sess, win, pipe, committed, known, gc>>

\* Status by id, or by path and size (Find), where the client learns the id.
Status(r) ==
    /\ req[r].pc = "idle"
    /\ "Status" \in Operations
    /\ MgrFree
    /\ \E c \in Clients :
          \E s \in (known[c] \cup {byKey[UserOf[c]]}) \cap byID :
             /\ sess[s].user = UserOf[c]
             /\ MuFree(s)
             /\ Touch(s)
             /\ known' = [known EXCEPT ![c] = @ \cup {s}]
    /\ UNCHANGED <<byID, byKey, mgr, win, pipe, committed, req, gc>>

AbortGet(r) == \E c \in Clients : Get(r, "Abort", "abortTerminate", c, 0)

AbortTerminate(r) ==
    /\ req[r].pc = "abortTerminate"
    /\ Terminate(req[r].sid)
    /\ Goto(r, "abortRemove")
    /\ UNCHANGED <<byID, byKey, mgr, pipe, committed, known, gc>>

AbortRemove(r) ==
    /\ req[r].pc = "abortRemove"
    /\ Remove(req[r].sid)
    /\ Answer(r)
    /\ UNCHANGED <<mgr, sess, win, pipe, committed, known, gc>>

CompleteRequest(r) == \/ CompleteGet(r) \/ CompleteLoop(r) \/ CompleteWoken(r)
                      \/ CompleteCanceled(r) \/ CompleteFinal(r) \/ CompleteRemove(r)
AbortRequest(r) == AbortGet(r) \/ AbortTerminate(r) \/ AbortRemove(r)

-----------------------------------------------------------------------------
(* The pipeline goroutine of attempt a: putFile, finishAttempt, close(done) *)

\* The driver has read a whole chunk.  A Read that already copied its bytes when
\* the window is closed counts as one before the close.
PipeRead(s, a) ==
    /\ pipe[s][a].pc = "put"
    /\ win[s][a].sealed = "none"
    /\ CanAdvance(win[s][a])
    /\ win' = [win EXCEPT ![s][a] = Advance(@)]
    /\ UNCHANGED <<byID, byKey, mgr, sess, pipe, committed, known, req, gc>>

\* The driver stored the file: it read all of it, or the storage already had a
\* file with the hash (rapid upload), whatever was received by then.
PipeStored(s, a) ==
    /\ pipe[s][a].pc = "put"
    /\ \/ /\ win[s][a].frontier = Total
          /\ committed' = [committed EXCEPT ![s] = win[s][a].content]
       \/ /\ sess[s].hash # NoHash
          /\ committed' = [committed EXCEPT ![s] = FileOf[sess[s].hash]]
    /\ pipe' = [pipe EXCEPT ![s][a].pc = "opClose", ![s][a].out = "ok"]
    /\ UNCHANGED <<byID, byKey, mgr, sess, win, known, req, gc>>

\* The driver failed, or was stopped by the closed window or the context.
PipeFailed(s, a) ==
    /\ pipe[s][a].pc = "put"
    /\ pipe' = [pipe EXCEPT ![s][a].pc = "opClose", ![s][a].out = "failed"]
    /\ UNCHANGED <<byID, byKey, mgr, sess, win, committed, known, req, gc>>

\* putFile returned before op.Put, which would have closed the stream.
PipeRefused(s, a) ==
    /\ pipe[s][a].pc = "put"
    /\ win[s][a].frontier = 0
    /\ pipe' = [pipe EXCEPT ![s][a].pc = "harvest", ![s][a].out = "failed"]
    /\ UNCHANGED <<byID, byKey, mgr, sess, win, committed, known, req, gc>>

\* The deferred Close of op.Put.
PipeOpClose(s, a) ==
    /\ pipe[s][a].pc = "opClose"
    /\ win' = [win EXCEPT ![s][a] = Seal(@, "closed")]
    /\ pipe' = [pipe EXCEPT ![s][a].pc = "harvest"]
    /\ UNCHANGED <<byID, byKey, mgr, sess, committed, known, req, gc>>

\* finishAttempt: the CRC table, then Close (which does nothing on a window that
\* is closed already), then the verdict under s.mu.
PipeHarvest(s, a) ==
    /\ pipe[s][a].pc = "harvest"
    /\ pipe' = [pipe EXCEPT ![s][a].pc = IF win[s][a].sealed = "none" THEN "close" ELSE "verdict",
                            ![s][a].crcs = win[s][a].content]
    /\ UNCHANGED <<byID, byKey, mgr, sess, win, committed, known, req, gc>>

PipeClose(s, a) ==
    /\ pipe[s][a].pc = "close"
    /\ win' = [win EXCEPT ![s][a] = Seal(@, "closed")]
    /\ pipe' = [pipe EXCEPT ![s][a].pc = "verdict"]
    /\ UNCHANGED <<byID, byKey, mgr, sess, committed, known, req, gc>>

\* The session drops the window: requests still in it only meet its error.
Forgotten == [Fresh EXCEPT !.sealed = "closed"]

\* A stored file reported as a failure; a late failure that overwrites a label.
FaultyVerdicts(x, out) ==
    IF out = "ok" THEN {"completed", "failed_retriable"}
    ELSE IF x.state # "receiving" THEN {x.state}
    ELSE {"failed_permanent", "failed_retriable"}
FaultyVerdicts1(x, out) ==
    IF out = "ok" THEN {"completed"} ELSE {"failed_permanent", "failed_retriable"}

\* Success wins over any label, an abort's label wins over a failure, and only
\* some errors are permanent (isPermanentPutError).
Verdicts(x, out) ==
    IF out = "ok" THEN {"completed"}
    ELSE IF x.state # "receiving" THEN {x.state}
    ELSE {"failed_permanent", "failed_retriable"}

\* The next attempt would reuse the name of the ring file.
FaultyNextAttempt(x, v) == x.attempt
NextAttempt(x, v) == IF v = "failed_retriable" THEN x.attempt + 1 ELSE x.attempt

PipeVerdict(s, a) ==
    /\ pipe[s][a].pc = "verdict"
    /\ MuFree(s)
    /\ \E v \in Verdicts(sess[s], pipe[s][a].out) :
          sess' = [sess EXCEPT
             ![s].active = TRUE,
             ![s].win = IF @ = a THEN Nil ELSE @,
             ![s].prev = pipe[s][a].crcs,
             ![s].state = v,
             ![s].attempt = NextAttempt(sess[s], v)]
    /\ pipe' = [pipe EXCEPT ![s][a].pc = "signal", ![s][a].crcs = NoContent,
                            ![s][a].out = "none"]
    /\ win' = [win EXCEPT ![s][a] = Forgotten]
    /\ UNCHANGED <<byID, byKey, mgr, committed, known, req, gc>>

PipeSignal(s, a) ==
    /\ pipe[s][a].pc = "signal"
    /\ pipe' = [pipe EXCEPT ![s][a].pc = "ended"]
    /\ UNCHANGED <<byID, byKey, mgr, sess, win, committed, known, req, gc>>

PipeEnd(s, a) == \/ PipeOpClose(s, a) \/ PipeHarvest(s, a) \/ PipeClose(s, a)
                 \/ PipeVerdict(s, a) \/ PipeSignal(s, a)
PipeStep(s, a) == \/ PipeRead(s, a) \/ PipeStored(s, a) \/ PipeFailed(s, a) \/ PipeRefused(s, a)
                  \/ PipeEnd(s, a)

-----------------------------------------------------------------------------
(* Expiry                                                                   *)

\* The session was not used for the TTL.
Age(s) ==
    /\ "Expire" \in Operations
    /\ sess[s].active
    /\ sess' = [sess EXCEPT ![s].active = FALSE]
    /\ UNCHANGED <<byID, byKey, mgr, win, pipe, committed, known, req, gc>>

\* Sessions that receive are never given up.
FaultyExpired == {s \in byID : ~sess[s].active /\ sess[s].state # "receiving"}
Expired == {s \in byID : ~sess[s].active}

\* gc picks the expired sessions under m.mu and terminates them afterwards.
GCGather ==
    /\ gc = IdleGC
    /\ MgrFree
    /\ gc' = [IdleGC EXCEPT !.expired = Expired]
    /\ UNCHANGED <<byID, byKey, mgr, sess, win, pipe, committed, known, req>>

GCTerminate ==
    /\ gc.sid = 0
    /\ \E s \in gc.expired :
          /\ Terminate(s)
          /\ gc' = [expired |-> gc.expired \ {s}, sid |-> s]
    /\ UNCHANGED <<byID, byKey, mgr, pipe, committed, known, req>>

GCRemove ==
    /\ gc.sid # 0
    /\ Remove(gc.sid)
    /\ gc' = [gc EXCEPT !.sid = 0]
    /\ UNCHANGED <<mgr, sess, win, pipe, committed, known, req>>

GCStep == GCGather \/ GCTerminate \/ GCRemove

Next ==
    \/ \E r \in Requests : \/ InitRequest(r) \/ ChunkRequest(r) \/ CompleteRequest(r)
                           \/ Status(r) \/ AbortRequest(r)
    \/ \E s \in Sids, a \in Attempts : PipeStep(s, a)
    \/ \E s \in Sids : Age(s)
    \/ GCStep

Spec == Init /\ [][Next]_vars

\* The driver's stream has ended or failed: drivers return then.
StreamOver(s, a) == win[s][a].sealed # "none" \/ win[s][a].frontier = Total
DriverReturns(s, a) == StreamOver(s, a) /\ (PipeStored(s, a) \/ PipeFailed(s, a))

\* What runs on without the client: not the start of a request, not the arrival
\* of a body, not the departure of a client.
Continues(r) ==
    \/ InitCheck(r) \/ InitResume(r) \/ InitTerminate(r) \/ InitRemove(r)
    \/ InitCreate(r) \/ InitFails(r) \/ InitRegister(r)
    \/ ChunkReceiving(r) \/ ChunkRestarts(r) \/ ChunkAnswered(r)
    \/ req[r].pc = "chunkAdmit" /\ ChunkWrite(r)
    \/ ChunkClosed(r) \/ ChunkError(r) \/ ChunkChanged(r) \/ ChunkAccepted(r)
    \/ CompleteLoop(r) \/ CompleteWoken(r) \/ CompleteFinal(r) \/ CompleteRemove(r)
    \/ AbortTerminate(r) \/ AbortRemove(r)

Fairness ==
    /\ \A r \in Requests : WF_vars(Continues(r))
    /\ \A s \in Sids, a \in Attempts : /\ WF_vars(PipeRead(s, a))
                                       /\ WF_vars(DriverReturns(s, a))
                                       /\ WF_vars(PipeEnd(s, a))
    /\ WF_vars(GCStep)

FairSpec == Spec /\ Fairness

-----------------------------------------------------------------------------
(* Properties                                                               *)

States == {"receiving", "completed", "failed_retriable", "failed_permanent", "aborted"}
Busy   == {"put", "opClose", "harvest", "close", "verdict"}

TypeOK ==
    /\ byID \subseteq Created
    /\ byKey \in [Users -> {0} \cup Sids]
    /\ mgr \in Requests \cup {Nobody}
    /\ sess \in [Sids -> [user : Users \cup {Nobody}, hash : Clients \cup {NoHash},
                          state : States \cup {"none"}, attempt : 0 .. MaxAttempt + 1,
                          win : Attempts \cup {Nil}, cur : Attempts \cup {Nil}, prev : Contents,
                          active : BOOLEAN, stuck : BOOLEAN]]
    /\ win \in [Sids -> [Attempts -> Streams]]
    /\ pipe \in [Sids -> [Attempts -> [pc : Busy \cup {"none", "signal", "ended"},
                                       out : {"none", "ok", "failed"},
                                       crcs : Contents]]]
    /\ committed \in [Sids -> Contents]
    /\ known \in [Clients -> SUBSET Sids]
    /\ \A r \in Requests : /\ req[r].sid \in Sids \cup {0}
                           /\ req[r].att \in Attempts \cup {Nil}
                           /\ req[r].idx \in Indexes \cup {0}
    /\ gc.expired \subseteq Sids /\ gc.sid \in Sids \cup {0}

\* Two attempts of a session never feed the storage at the same time: a session
\* starts to receive again only when the verdict on the attempt before is in,
\* which may be long after its window was closed or its state was set.
OnePipeline ==
    [][\A s \in Sids : sess[s].state # "receiving" /\ sess'[s].state = "receiving"
          => \A a \in Attempts : pipe[s][a].pc \notin Busy]_vars

\* A receiving session has a window, and the pipeline that reads from it will
\* still record a verdict and close s.done: Chunk uses s.win, and Complete
\* waits for s.done, on the strength of the state alone.  A session that waits
\* for a re-fill will use a ring file name no attempt has used.
StateMatchesAttempt ==
    \A s \in Created :
        /\ sess[s].state = "receiving" =>
              /\ sess[s].win = sess[s].cur /\ sess[s].cur \in Attempts
              /\ pipe[s][sess[s].cur].pc \in Busy
        /\ sess[s].state = "failed_retriable" =>
              \A a \in Attempts : (a >= sess[s].attempt) <=> (pipe[s][a].pc = "none")

\* The re-fill check misses nothing: while a session receives, a chunk that
\* differs from the one of the previous attempt is in the window only as long
\* as the request that brought it has not run its check.
Differs(s, i) ==
    LET c == win[s][sess[s].cur].content[i]
    IN  sess[s].state = "receiving" /\ c # NoVersion /\ sess[s].prev[i] \notin {c, NoVersion}
MismatchIsCaught ==
    \A s \in Created, i \in Chunks : Differs(s, i) =>
        \E r \in Requests : /\ req[r].pc = "chunkVerify" /\ req[r].sid = s
                            /\ req[r].idx = i /\ Mismatch(r)

\* A session says completed, and Complete drops it as served, only when the
\* driver stored the file, and a stored file is never uploaded a second time.
CompletedIsStored ==
    /\ \A s \in Created : /\ sess[s].state = "completed" => committed[s] # NoContent
                          /\ sess[s].state = "failed_retriable" => committed[s] = NoContent
    /\ \A r \in Requests : req[r].pc = "completeRemove" => committed[req[r].sid] # NoContent

\* The key of a user leads to a registered session of that user, however
\* superseding, completing, aborting and expiring sessions interleave.
KeyLeadsToSession ==
    \A u \in Users : byKey[u] # 0 => byKey[u] \in byID /\ sess[byKey[u]].user = u

\* An aborted, expired or failed session is never revived, nor a completed one:
\* a late failure of the driver does not make it retriable, and no chunk 0
\* starts it again.
FinishedStaysFinished ==
    [][\A s \in Sids : sess[s].state \in {"completed", "failed_permanent", "aborted"}
          => sess'[s].state \in {"completed", "failed_permanent", "aborted"}]_vars

\* The pipeline of an aborted session ends, although its driver may be blocked
\* in Read and only closing the window can wake it.
AbortEndsPipeline ==
    \A s \in Sids : sess[s].state = "aborted"
                       ~> \A a \in Attempts : pipe[s][a].pc \in {"none", "ended"}

\* Complete always answers: it waits only for a pipeline that will end.
CompleteReturns ==
    \A r \in Requests :
        req[r].pc \in {"completeLoop", "completeWait", "completeFinal", "completeRemove"}
           ~> req[r].pc = "idle"

\* A session nobody uses is reclaimed.
ExpiredIsReclaimed ==
    \A s \in Sids : s \in byID /\ ~sess[s].active ~> sess[s].active \/ s \notin byID

-----------------------------------------------------------------------------
(* What the comments and tests of the package say, and the code does not do *)

\* "Manager owns all live sessions": a session whose pipeline still receives is
\* registered, or about to be by the Init that created it.
ManagerOwnsLive ==
    \A s \in Created, a \in Attempts :
        pipe[s][a].pc = "put" /\ win[s][a].sealed = "none" =>
            s \in byID \/ \E r \in Requests : req[r].pc = "initRegister" /\ req[r].sid = s

\* "the re-fill CRC check catches a changed file": what is stored is the file
\* of one client, not chunks of two.
StoredIsOneFile ==
    \A s \in Sids : committed[s] # NoContent => \E c \in Clients : committed[s] = FileOf[c]

\* A chunk index out of range is answered with an error; no request leaves the
\* mutex of its session locked.
MutexIsReleased == \A s \in Created : ~sess[s].stuck
=============================================================================
