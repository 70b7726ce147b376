----------------------- MODULE MultipartSessionProofs -----------------------
(***************************************************************************)
(* Proofs about MultipartSession, for every number of clients, requests,    *)
(* sessions, attempts, chunks and slots.                                    *)
(***************************************************************************)
EXTENDS MultipartSession, FiniteSetTheorems, TLAPS

USE DEF Sids, Attempts, Chunks, Nil

Sessions == [user : Users \cup {Nobody}, hash : Clients \cup {NoHash},
             state : States \cup {"none"}, attempt : 0 .. MaxAttempt + 1,
             win : Attempts \cup {Nil}, cur : Attempts \cup {Nil}, prev : Contents,
             active : BOOLEAN, stuck : BOOLEAN]
Pipes    == [pc : Busy \cup {"none", "signal", "ended"}, out : {"none", "ok", "failed"},
             crcs : Contents]
ReqPcs   == {"idle", "initCheck", "initResume", "initTerminate", "initRemove", "initCreate",
             "initRegister", "chunkState", "chunkAdmit", "chunkFill", "chunkClosed",
             "chunkError", "chunkVerify", "completeLoop", "completeWait", "completeFinal",
             "completeRemove", "abortTerminate", "abortRemove"}
Reqs     == [pc : ReqPcs, sid : Sids \cup {0}, att : Attempts \cup {Nil}, idx : Indexes \cup {0},
             client : Clients \cup {Nobody}, prev : Versions \cup {NoVersion},
             crc : Versions \cup {NoVersion}]

\* What left a window had a body.
Filled(w) == \A i \in Chunks : i < w.frontier => w.content[i] # NoVersion

\* The types of the registry and of the loops; of the sessions; of windows and
\* pipelines; of the requests.
RegistryType == /\ byID \subseteq Created
                /\ byKey \in [Users -> {0} \cup Sids]
                /\ mgr \in Requests \cup {Nobody}
                /\ known \in [Clients -> SUBSET Sids]
SessType     == sess \in [Sids -> Sessions]
WinType      == /\ win \in [Sids -> [Attempts -> Streams]]
                /\ \A s \in Sids, a \in Attempts : Filled(win[s][a])
PipeType     == pipe \in [Sids -> [Attempts -> Pipes]]
ReqType      == req \in [Requests -> Reqs]
GCType       == gc \in [expired : SUBSET Created, sid : Created \cup {0}]
Types == /\ RegistryType /\ SessType /\ WinType /\ PipeType /\ ReqType /\ GCType
         /\ committed \in [Sids -> Contents]

\* Sessions are created one after the other.
InOrder == \A s \in Created : 1 .. s \subseteq Created

\* Nothing was done for a session that does not exist.
Unborn == \A s \in Sids \ Created : /\ committed[s] = NoContent
                                    /\ \A a \in Attempts : pipe[s][a] = NoPipe

\* Attempts up to cur have run, and only the pipeline of cur can still be at work:
\* it is while the session receives, and has ended when the session can be re-filled.
AttemptFact(s) ==
    /\ sess[s].user \in Users
    /\ sess[s].cur \in Attempts
    /\ \A a \in Attempts : /\ pipe[s][a].pc = "none" <=> a > sess[s].cur
                           /\ pipe[s][a].pc \in Busy => a = sess[s].cur
    /\ sess[s].win # Nil => sess[s].win = sess[s].cur
    /\ sess[s].state = "receiving" =>
          /\ sess[s].win = sess[s].cur /\ sess[s].attempt = sess[s].cur
          /\ pipe[s][sess[s].cur].pc \in Busy
    /\ sess[s].state = "failed_retriable" =>
          /\ sess[s].attempt = sess[s].cur + 1
          /\ \A a \in Attempts : pipe[s][a].pc \notin Busy
AttemptsInOrder == \A s \in Created : AttemptFact(s)

\* Success is reported by the pipeline that stored the file.
OutFact(s) == \A a \in Attempts :
    /\ pipe[s][a].out # "none" => pipe[s][a].pc \in Busy \ {"put"}
    /\ pipe[s][a].out = "ok" => committed[s] # NoContent
StateFact(s) ==
    /\ sess[s].state = "completed" => committed[s] # NoContent
    /\ sess[s].state = "failed_retriable" => committed[s] = NoContent
    /\ sess[s].state = "receiving" /\ committed[s] # NoContent => pipe[s][sess[s].cur].out = "ok"
Stored == (\A s \in Sids : OutFact(s)) /\ (\A s \in Created : StateFact(s))

\* A request names a session that exists and an attempt that was started; the CRC
\* it compares with is the one of its attempt as long as that attempt runs.
Fact(r) ==
    /\ req[r].pc # "idle" => req[r].client \in Clients
    /\ req[r].pc \notin {"idle", "initCreate"} => req[r].sid \in Created
    /\ req[r].pc = "initRegister" => sess[req[r].sid].user = UserOf[req[r].client]
    /\ req[r].pc \in {"chunkAdmit", "chunkFill"} =>
          /\ req[r].att \in Attempts /\ pipe[req[r].sid][req[r].att].pc # "none"
          /\ req[r].att = sess[req[r].sid].cur /\ pipe[req[r].sid][req[r].att].pc \in Busy =>
                req[r].prev = PrevOf(r)
    /\ req[r].pc = "chunkFill" => req[r].idx \in Chunks
    /\ req[r].pc = "completeWait" => req[r].att \in Attempts
    /\ req[r].pc = "completeRemove" => committed[req[r].sid] # NoContent
RequestFacts == \A r \in Requests : Fact(r)

SessionInv == /\ Types /\ InOrder /\ Unborn /\ AttemptsInOrder /\ Stored /\ RequestFacts
              /\ MismatchIsCaught /\ KeyLeadsToSession

-----------------------------------------------------------------------------
(* Values                                                                   *)

LEMMA NoContentType == NoContent \in Contents /\ NoPipe \in Pipes
<1>1. NoContent \in Contents
  BY DEF NoContent, Contents
<1> QED BY <1>1 DEF NoPipe, Pipes

LEMMA FreshType == Fresh \in Streams /\ Filled(Fresh) /\ Forgotten \in Streams /\ Filled(Forgotten)
<1>1. 0 \in 0 .. Total
  BY SessionAssumption
<1>2. [i \in Chunks |-> NoVersion] \in [Chunks -> Versions \cup {NoVersion}]
  OBVIOUS
<1>3. Fresh \in Streams
  BY <1>1, <1>2 DEF Fresh, Streams
<1>4. Fresh.frontier = 0
  BY DEF Fresh
<1>5. Forgotten \in Streams /\ Forgotten.frontier = 0
  BY <1>3, <1>4 DEF Forgotten, Streams, Seals
<1>6. \A i \in Chunks : ~(i < 0)
  BY SessionAssumption
<1> QED BY <1>3, <1>4, <1>5, <1>6 DEF Filled

\* What a stream operation makes of a window.
LEMMA StreamOps ==
    ASSUME NEW w \in Streams, Filled(w), NEW i \in Chunks, NEW v \in Versions, NEW e \in Seals
    PROVE  /\ Admit(w, i) \in Streams /\ Filled(Admit(w, i)) /\ Admit(w, i).content = w.content
           /\ Publish(w, i, v) \in Streams /\ Filled(Publish(w, i, v))
           /\ Publish(w, i, v).content = [w.content EXCEPT ![i] = v]
           /\ Drop(w, i) \in Streams /\ Filled(Drop(w, i)) /\ Drop(w, i).content = w.content
           /\ Seal(w, e) \in Streams /\ Filled(Seal(w, e)) /\ Seal(w, e).content = w.content
           /\ CanAdvance(w) => /\ Advance(w) \in Streams /\ Filled(Advance(w))
                               /\ Advance(w).content = w.content
<1>0. NoVersion \notin Versions /\ Total \in Nat
  BY SessionAssumption
<1>1. Admit(w, i) \in Streams /\ Filled(Admit(w, i)) /\ Admit(w, i).content = w.content
  BY DEF Admit, Streams, Filled
<1>2. /\ Publish(w, i, v) \in Streams
      /\ Publish(w, i, v).content = [w.content EXCEPT ![i] = v]
      /\ Publish(w, i, v).frontier = w.frontier
  BY DEF Publish, Streams
<1>3. Filled(Publish(w, i, v))
  BY <1>0, <1>2 DEF Filled, Streams
<1>4. Drop(w, i) \in Streams /\ Filled(Drop(w, i)) /\ Drop(w, i).content = w.content
  BY DEF Drop, Streams, Filled
<1>5. Seal(w, e) \in Streams /\ Filled(Seal(w, e)) /\ Seal(w, e).content = w.content
  BY DEF Seal, Streams, Filled, Seals
<1>6. ASSUME CanAdvance(w)
      PROVE  Advance(w) \in Streams /\ Filled(Advance(w)) /\ Advance(w).content = w.content
  <2>1. w.frontier < Total /\ w.frontier \in 0 .. Total /\ w.content[w.frontier] # NoVersion
    BY <1>6 DEF CanAdvance, Accepted, Streams
  <2>2. /\ Advance(w) \in Streams /\ Advance(w).content = w.content
        /\ Advance(w).frontier = w.frontier + 1
    BY SMTT(20), <1>0, <2>1 DEF Advance, Streams
  <2>3. \A j \in Chunks : j < w.frontier + 1 => j < w.frontier \/ j = w.frontier
    BY <1>0, <2>1
  <2> QED BY <2>1, <2>2, <2>3 DEF Filled
<1> QED BY <1>1, <1>2, <1>3, <1>4, <1>5, <1>6

\* A change of one window.
WindowMoved(s, a, w) == win' = [win EXCEPT ![s][a] = w]

LEMMA OneWindow ==
    ASSUME WinType, NEW s \in Sids, NEW a \in Attempts, NEW w \in Streams, Filled(w),
           WindowMoved(s, a, w)
    PROVE  /\ WinType' /\ win'[s][a] = w
           /\ \A u \in Sids, b \in Attempts : u # s \/ b # a => win'[u][b] = win[u][b]
<1>1. win \in [Sids -> [Attempts -> Streams]]
  BY DEF WinType
<1>2. win' = [win EXCEPT ![s] = [win[s] EXCEPT ![a] = w]]
  BY <1>1 DEF WindowMoved
<1>3. [win[s] EXCEPT ![a] = w] \in [Attempts -> Streams]
  BY <1>1
<1>4. win' \in [Sids -> [Attempts -> Streams]]
  BY <1>1, <1>2, <1>3
<1>5. /\ win'[s][a] = w
      /\ \A u \in Sids, b \in Attempts : u # s \/ b # a => win'[u][b] = win[u][b]
  BY <1>1, <1>2
<1>6. ASSUME NEW u \in Sids, NEW b \in Attempts PROVE Filled(win'[u][b])
  <2>1. Filled(win[u][b])
    BY DEF WinType
  <2> QED BY <1>5, <2>1
<1>7. \A u \in Sids, b \in Attempts : Filled(win[u][b])'
  BY <1>6 DEF Filled
<1> QED BY <1>4, <1>5, <1>7 DEF WinType

\* A change of one pipeline.
PipeMoved(s, a, p) == pipe' = [pipe EXCEPT ![s][a] = p]

LEMMA OnePipe ==
    ASSUME PipeType, NEW s \in Sids, NEW a \in Attempts, NEW p \in Pipes, PipeMoved(s, a, p)
    PROVE  /\ PipeType' /\ pipe'[s][a] = p
           /\ \A u \in Sids, b \in Attempts : u # s \/ b # a => pipe'[u][b] = pipe[u][b]
<1>1. pipe \in [Sids -> [Attempts -> Pipes]]
  BY DEF PipeType
<1>2. pipe' = [pipe EXCEPT ![s] = [pipe[s] EXCEPT ![a] = p]]
  BY <1>1 DEF PipeMoved
<1>3. [pipe[s] EXCEPT ![a] = p] \in [Attempts -> Pipes]
  BY <1>1
<1>4. pipe' \in [Sids -> [Attempts -> Pipes]]
  BY <1>1, <1>2, <1>3
<1> QED BY <1>1, <1>2, <1>4 DEF PipeType

-----------------------------------------------------------------------------
(* Requests                                                                 *)

OtherRequests(r) == \A q \in Requests \ {r} : req'[q] = req[q]

LEMMA IdleType == IdleReq \in Reqs
BY DEF IdleReq, Reqs, ReqPcs

LEMMA AnswerType ==
    ASSUME ReqType, NEW r \in Requests, Answer(r)
    PROVE  ReqType' /\ req'[r].pc = "idle" /\ OtherRequests(r)
<1>1. IdleReq.pc = "idle"
  BY DEF IdleReq
<1>2. req' = [req EXCEPT ![r] = IdleReq] /\ IdleReq \in Reqs
  BY IdleType DEF Answer
<1> QED BY <1>1, <1>2 DEF ReqType, OtherRequests

LEMMA GotoType ==
    ASSUME ReqType, NEW r \in Requests, NEW p \in ReqPcs, Goto(r, p)
    PROVE  /\ ReqType' /\ OtherRequests(r)
           /\ req'[r].pc = p /\ req'[r].sid = req[r].sid /\ req'[r].client = req[r].client
           /\ req'[r].att = req[r].att /\ req'[r].idx = req[r].idx
           /\ req'[r].prev = req[r].prev /\ req'[r].crc = req[r].crc
<1>1. req' = [req EXCEPT ![r] = [req[r] EXCEPT !.pc = p]] /\ req[r] \in Reqs
  BY DEF Goto, ReqType
<1>2. [req[r] EXCEPT !.pc = p] \in Reqs
  BY <1>1 DEF Reqs
<1>3. req'[r] = [req[r] EXCEPT !.pc = p] /\ OtherRequests(r) /\ ReqType'
  BY <1>1, <1>2 DEF ReqType, OtherRequests
<1> QED BY <1>1, <1>3 DEF Reqs

-----------------------------------------------------------------------------
(* Steps that start no attempt, store nothing and change no stored chunk    *)

SameButState(s) ==
    /\ sess'[s].user = sess[s].user /\ sess'[s].hash = sess[s].hash
    /\ sess'[s].attempt = sess[s].attempt /\ sess'[s].win = sess[s].win
    /\ sess'[s].cur = sess[s].cur /\ sess'[s].prev = sess[s].prev

\* No session begins to receive, completes or becomes retriable.
Calm == \A s \in Sids :
    /\ SameButState(s)
    /\ sess'[s].state = sess[s].state
       \/ (sess[s].state # "none" /\ sess'[s].state \in {"aborted", "failed_permanent"})

\* A pipeline goes on to its verdict without success, or is over.
PipesGoOn == \A s \in Sids, a \in Attempts :
    \/ pipe'[s][a] = pipe[s][a]
    \/ /\ pipe[s][a].pc \in Busy /\ pipe'[s][a].pc \in Busy \ {"put"}
       /\ \/ pipe'[s][a].out = pipe[s][a].out
          \/ pipe[s][a].pc = "put" /\ pipe'[s][a].out = "failed"
    \/ pipe[s][a].pc = "signal" /\ pipe'[s][a].pc = "ended" /\ pipe'[s][a].out = pipe[s][a].out

ContentSame == \A s \in Sids, a \in Attempts : win'[s][a].content = win[s][a].content

\* The request that found a changed chunk has acted when it goes on.
WitnessKept == \A r \in Requests : req[r].pc = "chunkVerify" /\ Mismatch(r) =>
    req'[r] = req[r] \/ sess'[req[r].sid].state # "receiving"

Quiet == Calm /\ PipesGoOn /\ committed' = committed

\* What a step may never do: receive while a pipeline is at work, revive what has finished.
Finished == {"completed", "failed_permanent", "aborted"}
HistoryKept == \A s \in Sids :
    /\ sess[s].state # "receiving" /\ sess'[s].state = "receiving" =>
          \A a \in Attempts : pipe[s][a].pc \notin Busy
    /\ sess[s].state \in Finished => sess'[s].state \in Finished

LEMMA QuietCreated ==
    ASSUME SessType, Calm
    PROVE  Created' = Created
BY DEF Created, Calm

LEMMA QuietKeeps ==
    ASSUME InOrder, Unborn, AttemptsInOrder, Stored, Types, Types', Quiet
    PROVE  InOrder' /\ Unborn' /\ AttemptsInOrder' /\ Stored'
<1>1. Created' = Created
  BY QuietCreated DEF Types, Quiet
<1>2. InOrder'
  BY <1>1 DEF InOrder
<1>3. \A s \in Sids, a \in Attempts : pipe[s][a] = NoPipe => pipe'[s][a] = pipe[s][a]
  <2>1. NoPipe.pc = "none"
    BY DEF NoPipe
  <2> QED BY <2>1 DEF Quiet, PipesGoOn, Busy
<1>4. Unborn'
  BY <1>1, <1>3 DEF Unborn, Quiet
<1>5. \A s \in Sids, a \in Attempts : /\ pipe'[s][a].pc = "none" <=> pipe[s][a].pc = "none"
                                      /\ pipe'[s][a].pc \in Busy <=> pipe[s][a].pc \in Busy
  BY DEF Quiet, PipesGoOn, Busy
<1>6. AttemptsInOrder'
  <2>1. ASSUME NEW s \in Created PROVE AttemptFact(s)'
    <3>1. s \in Sids
      BY DEF Created
    <3>2. SameButState(s) /\ \/ sess'[s].state = sess[s].state
                             \/ sess'[s].state \in {"aborted", "failed_permanent"}
      BY <3>1 DEF Quiet, Calm
    <3> QED BY <1>5, <3>1, <3>2 DEF AttemptsInOrder, AttemptFact, SameButState
  <2> QED BY <1>1, <2>1 DEF AttemptsInOrder
<1>7. Stored'
  <2>1. ASSUME NEW s \in Sids, NEW a \in Attempts
        PROVE  /\ pipe'[s][a].out # "none" => pipe'[s][a].pc \in Busy \ {"put"}
               /\ pipe'[s][a].out = "ok" => committed'[s] # NoContent
               /\ pipe[s][a].out = "ok" => pipe'[s][a].out = "ok"
    BY DEF Stored, OutFact, StateFact, Quiet, PipesGoOn, Busy
  <2>2. ASSUME NEW s \in Created
        PROVE  /\ sess'[s].state = "completed" => committed'[s] # NoContent
               /\ sess'[s].state = "failed_retriable" => committed'[s] = NoContent
               /\ sess'[s].state = "receiving" /\ committed'[s] # NoContent =>
                     pipe'[s][sess'[s].cur].out = "ok"
    <3>1. s \in Sids /\ sess[s].cur \in Attempts
      BY DEF Created, AttemptsInOrder, AttemptFact
    <3>2. SameButState(s) /\ \/ sess'[s].state = sess[s].state
                             \/ sess'[s].state \in {"aborted", "failed_permanent"}
      BY <3>1 DEF Quiet, Calm
    <3> QED BY <2>1, <3>1, <3>2 DEF Stored, OutFact, StateFact, Quiet, SameButState
  <2> QED BY <1>1, <2>1, <2>2 DEF Stored, OutFact, StateFact
<1> QED BY <1>2, <1>4, <1>6, <1>7

\* Sessions keep their owner, started attempts stay started, what is stored stays
\* stored; an attempt at work was the current one, with the same chunks to compare.
SessionsGoOn == \A s \in Created :
    /\ sess'[s].state # "none" /\ sess'[s].user = sess[s].user
    /\ committed[s] # NoContent => committed'[s] # NoContent
    /\ \A a \in Attempts : pipe[s][a].pc # "none" =>
          /\ pipe'[s][a].pc # "none"
          /\ a = sess'[s].cur /\ pipe'[s][a].pc \in Busy =>
                /\ a = sess[s].cur /\ pipe[s][a].pc \in Busy
                /\ sess'[s].prev = sess[s].prev

LEMMA QuietGoesOn ==
    ASSUME Quiet
    PROVE  SessionsGoOn
<1>1. ASSUME NEW s \in Created
      PROVE  /\ sess'[s].state # "none" /\ SameButState(s)
             /\ \A a \in Attempts : /\ pipe'[s][a].pc = "none" => pipe[s][a].pc = "none"
                                    /\ pipe'[s][a].pc \in Busy => pipe[s][a].pc \in Busy
  <2>1. s \in Sids /\ sess[s].state # "none"
    BY DEF Created
  <2>2. sess'[s].state # "none" /\ SameButState(s)
    BY <2>1 DEF Quiet, Calm
  <2> QED BY <2>1, <2>2 DEF Quiet, PipesGoOn, Busy
<1> QED BY <1>1 DEF SessionsGoOn, SameButState, Quiet

\* A request that does nothing keeps its facts.
LEMMA FactKept ==
    ASSUME SessionsGoOn, SessType, NEW r \in Requests, Fact(r), req'[r] = req[r]
    PROVE  Fact(r)'
<1>1. Created \subseteq Created'
  BY DEF SessionsGoOn, Created
<1>2. /\ req[r].pc # "idle" => req[r].client \in Clients
      /\ req[r].pc \notin {"idle", "initCreate"} => req[r].sid \in Created'
      /\ req[r].pc = "initRegister" => sess'[req[r].sid].user = UserOf[req[r].client]
      /\ req[r].pc = "chunkFill" => req[r].idx \in Chunks
      /\ req[r].pc = "completeWait" => req[r].att \in Attempts
      /\ req[r].pc = "completeRemove" => committed'[req[r].sid] # NoContent
  BY <1>1 DEF Fact, SessionsGoOn
<1>3. ASSUME req[r].pc \in {"chunkAdmit", "chunkFill"}
      PROVE  /\ req[r].att \in Attempts /\ pipe'[req[r].sid][req[r].att].pc # "none"
             /\ req[r].att = sess'[req[r].sid].cur /\ pipe'[req[r].sid][req[r].att].pc \in Busy =>
                   req[r].prev = PrevOf(r)'
  <2>1. /\ req[r].att \in Attempts /\ pipe[req[r].sid][req[r].att].pc # "none"
        /\ req[r].att = sess[req[r].sid].cur /\ pipe[req[r].sid][req[r].att].pc \in Busy =>
              req[r].prev = PrevOf(r)
        /\ req[r].sid \in Created
    BY <1>3 DEF Fact
  <2>2. pipe'[req[r].sid][req[r].att].pc # "none"
    BY <2>1 DEF SessionsGoOn
  <2>3. ASSUME req[r].att = sess'[req[r].sid].cur, pipe'[req[r].sid][req[r].att].pc \in Busy
        PROVE  req[r].prev = PrevOf(r)'
    <3>1. /\ req[r].att = sess[req[r].sid].cur /\ pipe[req[r].sid][req[r].att].pc \in Busy
          /\ sess'[req[r].sid].prev = sess[req[r].sid].prev
      BY <2>1, <2>3 DEF SessionsGoOn
    <3> QED BY <2>1, <3>1 DEF PrevOf
  <2> QED BY <2>1, <2>2, <2>3
<1> QED BY <1>2, <1>3 DEF Fact

\* A quiet step that keeps the registry honest and lets nobody forget a mismatch.
LEMMA QuietStep ==
    ASSUME SessionInv, Types', Quiet, ContentSame, WitnessKept, KeyLeadsToSession',
           \A r \in Requests : req'[r] = req[r] \/ Fact(r)'
    PROVE  SessionInv' /\ HistoryKept
<1>1. InOrder' /\ Unborn' /\ AttemptsInOrder' /\ Stored'
  BY QuietKeeps DEF SessionInv
<1>2. RequestFacts'
  <2>1. SessionsGoOn /\ SessType
    BY QuietGoesOn DEF SessionInv, Types
  <2>2. ASSUME NEW r \in Requests PROVE Fact(r)'
    <3>1. Fact(r)
      BY DEF SessionInv, RequestFacts
    <3> QED BY <2>1, <3>1, FactKept
  <2> QED BY <2>2 DEF RequestFacts
<1>3. MismatchIsCaught'
  <2>1. Created' = Created
    BY QuietCreated DEF SessionInv, Types, Quiet
  <2>2. ASSUME NEW s \in Created, NEW i \in Chunks, Differs(s, i)'
        PROVE  \E r \in Requests : /\ req'[r].pc = "chunkVerify" /\ req'[r].sid = s
                                   /\ req'[r].idx = i /\ Mismatch(r)'
    <3>1. s \in Sids /\ sess[s].cur \in Attempts
      BY DEF Created, SessionInv, AttemptsInOrder, AttemptFact
    <3>2. /\ sess'[s].cur = sess[s].cur /\ sess'[s].prev = sess[s].prev
          /\ sess'[s].state = "receiving" /\ sess[s].state = "receiving"
      BY <2>2, <3>1 DEF Quiet, Calm, SameButState, Differs
    <3>3. win'[s][sess[s].cur].content = win[s][sess[s].cur].content
      BY <3>1 DEF ContentSame
    <3>4. Differs(s, i)
      BY <2>2, <3>2, <3>3 DEF Differs
    <3>5. PICK r \in Requests : /\ req[r].pc = "chunkVerify" /\ req[r].sid = s
                                /\ req[r].idx = i /\ Mismatch(r)
      BY <3>4 DEF SessionInv, MismatchIsCaught
    <3>6. req'[r] = req[r]
      BY <3>2, <3>5 DEF WitnessKept
    <3> QED BY <3>5, <3>6 DEF Mismatch
  <2> QED BY <2>1, <2>2 DEF MismatchIsCaught
<1>4. HistoryKept
  BY DEF HistoryKept, Finished, Quiet, Calm
<1> QED BY <1>1, <1>2, <1>3, <1>4 DEF SessionInv

LEMMA KeysKept ==
    ASSUME SessionInv, Calm, byID' = byID, byKey' = byKey
    PROVE  KeyLeadsToSession'
<1>1. ASSUME NEW u \in Users, byKey[u] # 0
      PROVE  byKey[u] \in byID /\ sess'[byKey[u]].user = u
  <2>1. byKey[u] \in byID /\ sess[byKey[u]].user = u /\ byKey[u] \in Sids
    BY <1>1 DEF SessionInv, KeyLeadsToSession, Types, RegistryType
  <2> QED BY <2>1 DEF Calm, SameButState
<1> QED BY <1>1 DEF KeyLeadsToSession

\* One request moves, the registry, the windows and the pipelines do not.
LEMMA RequestStep ==
    ASSUME SessionInv, NEW r \in Requests,
           UNCHANGED <<byID, byKey, win, pipe, committed, gc>>, SessType', Calm,
           mgr' \in Requests \cup {Nobody}, known' \in [Clients -> SUBSET Sids],
           ReqType', OtherRequests(r), Fact(r)', req[r].pc = "chunkVerify" => ~Mismatch(r)
    PROVE  SessionInv' /\ HistoryKept
<1>1. Types /\ Created' = Created
  BY QuietCreated DEF SessionInv, Types
<1>2. RegistryType' /\ GCType'
  BY <1>1 DEF Types, RegistryType, GCType
<1>3. WinType' /\ PipeType'
  BY <1>1 DEF Types, WinType, PipeType, Filled
<1>4. Types'
  BY <1>1, <1>2, <1>3 DEF Types
<1>5. Quiet /\ ContentSame
  BY DEF Quiet, PipesGoOn, ContentSame
<1>6. WitnessKept
  BY DEF WitnessKept, OtherRequests
<1>7. KeyLeadsToSession'
  BY KeysKept
<1>8. \A q \in Requests : req'[q] = req[q] \/ Fact(q)'
  BY DEF OtherRequests
<1> QED BY <1>4, <1>5, <1>6, <1>7, <1>8, QuietStep

LEMMA SameSessions ==
    ASSUME SessType, sess' = sess
    PROVE  SessType' /\ Calm
BY DEF SessType, Calm, SameButState

LEMMA TouchCalm ==
    ASSUME SessType, NEW s \in Sids, Touch(s)
    PROVE  SessType' /\ Calm
<1>1. sess' = [sess EXCEPT ![s] = [sess[s] EXCEPT !.active = TRUE]] /\ sess[s] \in Sessions
  BY DEF Touch, SessType
<1>2. [sess[s] EXCEPT !.active = TRUE] \in Sessions
  BY <1>1 DEF Sessions
<1>3. SessType'
  BY <1>1, <1>2 DEF SessType
<1>4. ASSUME NEW u \in Sids PROVE SameButState(u) /\ sess'[u].state = sess[u].state
  BY <1>1 DEF SessType, Sessions, SameButState
<1> QED BY <1>3, <1>4 DEF Calm

\* A request that is idle, or that only waits for a lock or an answer.
LEMMA SimpleFact ==
    ASSUME SessionInv, NEW r \in Requests, Calm,
           req'[r].pc \in {"idle", "initCheck", "initResume", "initTerminate", "initRemove",
                           "chunkState", "chunkClosed", "chunkError", "chunkVerify",
                           "completeLoop", "completeFinal", "abortTerminate", "abortRemove"},
           req'[r].pc # "idle" => req'[r].client \in Clients /\ req'[r].sid \in Created
    PROVE  Fact(r)'
<1>1. Created' = Created
  BY QuietCreated DEF SessionInv, Types
<1> QED BY <1>1 DEF Fact

LEMMA InitStartStep ==
    ASSUME SessionInv, NEW r \in Requests, InitStart(r)
    PROVE  SessionInv' /\ HistoryKept
<1> USE DEF SessionInv
<1>0. Types /\ ReqType /\ SessType /\ RegistryType
  BY DEF Types
<1>1. SessType' /\ Calm
  BY <1>0, SameSessions DEF InitStart
<1>2. PICK c \in Clients :
          LET id == byKey[UserOf[c]]
              found == id \in byID
          IN  /\ req' = [req EXCEPT ![r].pc = IF found THEN "initCheck" ELSE "initCreate",
                                    ![r].sid = IF found THEN id ELSE 0,
                                    ![r].client = c]
              /\ mgr' = IF found THEN r ELSE Nobody
  BY DEF InitStart
<1> DEFINE id    == byKey[UserOf[c]]
           found == id \in byID
           x     == [req[r] EXCEPT !.pc = IF found THEN "initCheck" ELSE "initCreate",
                                   !.sid = IF found THEN id ELSE 0, !.client = c]
<1>3. found => id \in Created
  BY <1>0 DEF RegistryType
<1>4. req[r] \in Reqs
  BY <1>0 DEF ReqType
<1>5. /\ x.pc = (IF found THEN "initCheck" ELSE "initCreate")
      /\ x.sid = (IF found THEN id ELSE 0) /\ x.client = c /\ x \in Reqs
  BY ZenonT(30), <1>3, <1>4 DEF Reqs, ReqPcs, Created
<1>6. req' = [req EXCEPT ![r] = x]
  BY <1>0, <1>2 DEF ReqType
<1>7. mgr' \in Requests \cup {Nobody}
  BY <1>2
<1> HIDE DEF x, found, id
<1>8. ReqType' /\ OtherRequests(r) /\ req'[r] = x
  BY <1>0, <1>5, <1>6 DEF ReqType, OtherRequests
<1>9. Fact(r)'
  <2>1. CASE found
    <3>1. req'[r].pc = "initCheck" /\ req'[r].client \in Clients /\ req'[r].sid \in Created
      BY <2>1, <1>3, <1>5, <1>8
    <3> QED BY <3>1, <1>1, SimpleFact
  <2>2. CASE ~found
    <3>1. req'[r].pc = "initCreate" /\ req'[r].client \in Clients
      BY <2>2, <1>5, <1>8
    <3> QED BY <3>1 DEF Fact
  <2> QED BY <2>1, <2>2
<1> QED BY <1>0, <1>1, <1>7, <1>8, <1>9, RequestStep DEF InitStart, RegistryType

LEMMA InitCheckStep ==
    ASSUME SessionInv, NEW r \in Requests, InitCheck(r)
    PROVE  SessionInv' /\ HistoryKept
<1>0. ReqType /\ SessType /\ RegistryType /\ Fact(r) /\ req[r].pc = "initCheck"
  BY DEF SessionInv, Types, RequestFacts, InitCheck
<1>1. SessType' /\ Calm
  BY <1>0, SameSessions DEF InitCheck
<1>2. PICK p \in {"initResume", "initTerminate"} : Goto(r, p)
  BY DEF InitCheck
<1>3. /\ ReqType' /\ OtherRequests(r)
      /\ req'[r].pc = p /\ req'[r].sid = req[r].sid /\ req'[r].client = req[r].client
  BY <1>0, <1>2, GotoType DEF ReqPcs
<1>4. Fact(r)'
  BY <1>0, <1>1, <1>3, SimpleFact DEF Fact
<1> QED BY <1>0, <1>1, <1>3, <1>4, RequestStep DEF InitCheck, RegistryType

LEMMA InitResumeStep ==
    ASSUME SessionInv, NEW r \in Requests, InitResume(r)
    PROVE  SessionInv' /\ HistoryKept
<1>0. ReqType /\ SessType /\ RegistryType /\ Fact(r) /\ req[r].pc = "initResume"
  BY DEF SessionInv, Types, RequestFacts, InitResume
<1>1. req[r].sid \in Sids /\ req[r].client \in Clients
  BY <1>0 DEF Fact, Created
<1>2. SessType' /\ Calm
  BY <1>0, <1>1, TouchCalm DEF InitResume
<1>3. ReqType' /\ OtherRequests(r) /\ req'[r].pc = "idle"
  BY <1>0, AnswerType DEF InitResume
<1>4. Fact(r)'
  BY <1>2, <1>3, SimpleFact
<1>5. known' \in [Clients -> SUBSET Sids] /\ mgr' \in Requests \cup {Nobody}
  BY <1>0, <1>1 DEF RegistryType, InitResume
<1> QED BY <1>0, <1>2, <1>3, <1>4, <1>5, RequestStep DEF InitResume

\* A request answers, and nothing else happens.
LEMMA AnswerStep ==
    ASSUME SessionInv, NEW r \in Requests, Answer(r),
           UNCHANGED <<byID, byKey, mgr, sess, win, pipe, committed, known, gc>>,
           req[r].pc = "chunkVerify" => ~Mismatch(r)
    PROVE  SessionInv' /\ HistoryKept
<1>0. ReqType /\ SessType /\ RegistryType
  BY DEF SessionInv, Types
<1>1. SessType' /\ Calm
  BY <1>0, SameSessions
<1>2. ReqType' /\ OtherRequests(r) /\ req'[r].pc = "idle"
  BY <1>0, AnswerType
<1>3. Fact(r)'
  BY <1>1, <1>2, SimpleFact
<1> QED BY <1>0, <1>1, <1>2, <1>3, RequestStep DEF RegistryType

\* A request goes on to a point where it waits for a lock, and nothing else happens.
LEMMA GotoStep ==
    ASSUME SessionInv, NEW r \in Requests,
           NEW p \in {"chunkClosed", "chunkError", "completeLoop", "completeFinal"}, Goto(r, p),
           UNCHANGED <<byID, byKey, mgr, sess, win, pipe, committed, known, gc>>,
           req[r].pc \notin {"idle", "initCreate", "chunkVerify"}
    PROVE  SessionInv' /\ HistoryKept
<1>0. ReqType /\ SessType /\ RegistryType /\ Fact(r)
  BY DEF SessionInv, Types, RequestFacts
<1>1. SessType' /\ Calm
  BY <1>0, SameSessions
<1>2. /\ ReqType' /\ OtherRequests(r)
      /\ req'[r].pc = p /\ req'[r].sid = req[r].sid /\ req'[r].client = req[r].client
  BY <1>0, GotoType DEF ReqPcs
<1>3. Fact(r)'
  BY <1>0, <1>1, <1>2, SimpleFact DEF Fact
<1> QED BY <1>0, <1>1, <1>2, <1>3, RequestStep DEF RegistryType

LEMMA GetStep ==
    ASSUME SessionInv, NEW r \in Requests, NEW c \in Clients, NEW i \in Indexes \cup {0},
           NEW op, NEW p \in {"chunkState", "completeLoop", "abortTerminate"}, Get(r, op, p, c, i)
    PROVE  SessionInv' /\ HistoryKept
<1>0. ReqType /\ SessType /\ RegistryType /\ req[r].pc = "idle" /\ req[r] \in Reqs
  BY DEF SessionInv, Types, Get, ReqType
<1>1. PICK s \in known[c] :
          /\ s \in byID
          /\ req' = [req EXCEPT ![r].pc = p, ![r].sid = s, ![r].client = c, ![r].idx = i]
          /\ IF op = "Abort" THEN UNCHANGED sess ELSE Touch(s)
  BY DEF Get
<1>2. s \in Created /\ s \in Sids
  BY <1>0, <1>1 DEF RegistryType, Created
<1>3. SessType' /\ Calm
  BY <1>0, <1>1, <1>2, SameSessions, TouchCalm
<1> DEFINE x == [req[r] EXCEPT !.pc = p, !.sid = s, !.client = c, !.idx = i]
<1>4. x \in Reqs /\ x.pc = p /\ x.sid = s /\ x.client = c
  <2>1. p \in ReqPcs
    BY DEF ReqPcs
  <2> QED BY <1>0, <1>2, <2>1 DEF Reqs
<1>5. req' = [req EXCEPT ![r] = x]
  BY <1>0, <1>1 DEF ReqType
<1> HIDE DEF x
<1>6. ReqType' /\ OtherRequests(r) /\ req'[r] = x
  BY <1>0, <1>4, <1>5 DEF ReqType, OtherRequests
<1>7. Fact(r)'
  BY <1>2, <1>3, <1>4, <1>6, SimpleFact
<1> QED BY <1>0, <1>3, <1>6, <1>7, RequestStep DEF Get, RegistryType

LEMMA ChunkReceivingStep ==
    ASSUME SessionInv, NEW r \in Requests, ChunkReceiving(r)
    PROVE  SessionInv' /\ HistoryKept
<1>0. /\ ReqType /\ SessType /\ RegistryType /\ Fact(r) /\ req[r] \in Reqs
      /\ req[r].pc = "chunkState" /\ sess[req[r].sid].state = "receiving"
  BY DEF SessionInv, Types, RequestFacts, ChunkReceiving, AtChunk, ReqType
<1> DEFINE s == req[r].sid
           x == [req[r] EXCEPT !.pc = "chunkAdmit", !.att = sess[s].win, !.prev = PrevOf(r)]
<1>1. s \in Created /\ s \in Sids /\ sess[s] \in Sessions /\ req[r].client \in Clients
  BY <1>0 DEF Fact, Created, SessType
<1>2. sess[s].win = sess[s].cur /\ sess[s].cur \in Attempts /\ pipe[s][sess[s].cur].pc \in Busy
  BY <1>0, <1>1 DEF SessionInv, AttemptsInOrder, AttemptFact
<1>3. PrevOf(r) \in Versions \cup {NoVersion}
  BY <1>1 DEF PrevOf, Sessions, Contents
<1>4. /\ x \in Reqs /\ x.pc = "chunkAdmit" /\ x.att = sess[s].cur /\ x.prev = PrevOf(r)
      /\ x.sid = s /\ x.client = req[r].client /\ x.idx = req[r].idx
  BY <1>0, <1>2, <1>3 DEF Reqs, ReqPcs
<1>5. req' = [req EXCEPT ![r] = x]
  BY <1>0 DEF ReqType, ChunkReceiving
<1> HIDE DEF x
<1>6. ReqType' /\ OtherRequests(r) /\ req'[r] = x
  BY <1>0, <1>4, <1>5 DEF ReqType, OtherRequests
<1>7. SessType' /\ Calm /\ UNCHANGED <<sess, pipe>>
  BY <1>0, SameSessions DEF ChunkReceiving
<1>8. PrevOf(r)' = PrevOf(r)
  BY <1>4, <1>6, <1>7 DEF PrevOf
<1>9. s \in Created'
  BY <1>1, <1>7 DEF Created
<1>10. Fact(r)'
  BY <1>1, <1>2, <1>4, <1>6, <1>7, <1>8, <1>9 DEF Fact, Busy
<1> QED BY <1>0, <1>6, <1>7, <1>10, RequestStep DEF ChunkReceiving, RegistryType

LEMMA ChunkPanicsStep ==
    ASSUME SessionInv, NEW r \in Requests, ChunkPanics(r)
    PROVE  SessionInv' /\ HistoryKept
<1>0. /\ ReqType /\ SessType /\ RegistryType /\ Fact(r) /\ req[r].pc = "chunkState"
  BY DEF SessionInv, Types, RequestFacts, ChunkPanics, AtChunk
<1> DEFINE s == req[r].sid
<1>1. s \in Sids /\ sess[s] \in Sessions
  BY <1>0 DEF Fact, Created, SessType
<1>2. sess' = [sess EXCEPT ![s] = [sess[s] EXCEPT !.stuck = TRUE]]
  BY DEF ChunkPanics
<1>3. [sess[s] EXCEPT !.stuck = TRUE] \in Sessions
  BY <1>1 DEF Sessions
<1>4. SessType'
  BY <1>0, <1>2, <1>3 DEF SessType
<1>5. ASSUME NEW u \in Sids PROVE SameButState(u) /\ sess'[u].state = sess[u].state
  BY <1>0, <1>2 DEF SessType, Sessions, SameButState
<1>6. Calm
  BY <1>5 DEF Calm
<1>7. ReqType' /\ OtherRequests(r) /\ req'[r].pc = "idle"
  BY <1>0, AnswerType DEF ChunkPanics
<1>8. Fact(r)'
  BY <1>6, <1>7, SimpleFact
<1> QED BY <1>0, <1>4, <1>6, <1>7, <1>8, RequestStep DEF ChunkPanics, RegistryType

LEMMA WriteAbsorbedStep ==
    ASSUME SessionInv, NEW r \in Requests, WriteAbsorbed(r)
    PROVE  SessionInv' /\ HistoryKept
<1>0. /\ ReqType /\ SessType /\ RegistryType /\ WinType /\ Fact(r) /\ req[r] \in Reqs
      /\ req[r].pc = "chunkAdmit" /\ req[r].idx \in Chunks
  BY DEF SessionInv, Types, RequestFacts, WriteAbsorbed, ReqType
<1>1. req[r].sid \in Created /\ req[r].sid \in Sids /\ req[r].att \in Attempts /\ req[r].client \in Clients
  BY <1>0 DEF Fact, Created
<1>2. Window(r) \in Streams
  BY <1>0, <1>1 DEF WinType, Window
<1>3. Window(r).content[req[r].idx] \in Versions \cup {NoVersion}
  BY <1>0, <1>2 DEF Streams
<1> DEFINE x == [req[r] EXCEPT !.pc = "chunkVerify", !.crc = Window(r).content[req[r].idx]]
<1>4. x \in Reqs /\ x.pc = "chunkVerify" /\ x.sid = req[r].sid /\ x.client = req[r].client
  BY <1>0, <1>3 DEF Reqs, ReqPcs
<1>5. req' = [req EXCEPT ![r] = x]
  BY <1>0 DEF ReqType, WriteAbsorbed
<1> HIDE DEF x
<1>6. ReqType' /\ OtherRequests(r) /\ req'[r] = x
  BY <1>0, <1>4, <1>5 DEF ReqType, OtherRequests
<1>7. SessType' /\ Calm
  BY <1>0, SameSessions DEF WriteAbsorbed
<1>8. Fact(r)'
  BY <1>1, <1>4, <1>6, <1>7, SimpleFact
<1> QED BY <1>0, <1>6, <1>7, <1>8, RequestStep DEF WriteAbsorbed, RegistryType

LEMMA CompleteLoopStep ==
    ASSUME SessionInv, NEW r \in Requests, CompleteLoop(r)
    PROVE  SessionInv' /\ HistoryKept
<1>0. /\ ReqType /\ SessType /\ RegistryType /\ Fact(r) /\ req[r] \in Reqs
      /\ req[r].pc = "completeLoop"
  BY DEF SessionInv, Types, RequestFacts, CompleteLoop, ReqType
<1> DEFINE s == req[r].sid
           x == [req[r] EXCEPT !.pc = "completeWait", !.att = sess[s].cur]
<1>1. s \in Created /\ s \in Sids /\ sess[s].cur \in Attempts /\ req[r].client \in Clients
  BY <1>0 DEF Fact, Created, SessionInv, AttemptsInOrder, AttemptFact
<1>2. \/ Goto(r, "completeFinal") \/ Answer(r)
      \/ req' = [req EXCEPT ![r].pc = "completeWait", ![r].att = sess[s].cur]
  BY DEF CompleteLoop
<1>3. CASE Goto(r, "completeFinal")
  BY <1>0, <1>3, GotoStep DEF CompleteLoop
<1>4. CASE Answer(r)
  BY <1>0, <1>4, AnswerStep DEF CompleteLoop
<1>5. CASE req' = [req EXCEPT ![r].pc = "completeWait", ![r].att = sess[s].cur]
  <2>1. /\ x \in Reqs /\ x.pc = "completeWait" /\ x.att = sess[s].cur
        /\ x.sid = s /\ x.client = req[r].client
    BY <1>0, <1>1 DEF Reqs, ReqPcs
  <2>2. req' = [req EXCEPT ![r] = x]
    BY <1>0, <1>5 DEF ReqType
  <2> HIDE DEF x
  <2>3. ReqType' /\ OtherRequests(r) /\ req'[r] = x
    BY <1>0, <2>1, <2>2 DEF ReqType, OtherRequests
  <2>4. SessType' /\ Calm /\ s \in Created'
    BY <1>0, <1>1, SameSessions DEF CompleteLoop, Created
  <2>5. Fact(r)'
    BY <1>1, <2>1, <2>3, <2>4 DEF Fact
  <2> QED BY <1>0, <2>1, <2>3, <2>4, <2>5, RequestStep DEF CompleteLoop, RegistryType
<1> QED BY <1>2, <1>3, <1>4, <1>5

LEMMA CompleteWokenStep ==
    ASSUME SessionInv, NEW r \in Requests, CompleteWoken(r)
    PROVE  SessionInv' /\ HistoryKept
<1>0. /\ ReqType /\ SessType /\ RegistryType /\ Fact(r) /\ req[r] \in Reqs
      /\ req[r].pc = "completeWait"
  BY DEF SessionInv, Types, RequestFacts, CompleteWoken, ReqType
<1> DEFINE x == [req[r] EXCEPT !.pc = "completeLoop", !.att = Nil]
<1>1. /\ x \in Reqs /\ x.pc = "completeLoop" /\ x.sid = req[r].sid /\ x.client = req[r].client
  BY <1>0 DEF Reqs, ReqPcs
<1>2. req' = [req EXCEPT ![r] = x]
  BY <1>0 DEF ReqType, CompleteWoken
<1> HIDE DEF x
<1>3. ReqType' /\ OtherRequests(r) /\ req'[r] = x
  BY <1>0, <1>1, <1>2 DEF ReqType, OtherRequests
<1>4. SessType' /\ Calm
  BY <1>0, SameSessions DEF CompleteWoken
<1>5. Fact(r)'
  BY <1>0, <1>1, <1>3, <1>4, SimpleFact DEF Fact
<1> QED BY <1>0, <1>3, <1>4, <1>5, RequestStep DEF CompleteWoken, RegistryType

LEMMA CompleteFinalStep ==
    ASSUME SessionInv, NEW r \in Requests, CompleteFinal(r)
    PROVE  SessionInv' /\ HistoryKept
<1>0. ReqType /\ SessType /\ RegistryType /\ Fact(r) /\ req[r].pc = "completeFinal"
  BY DEF SessionInv, Types, RequestFacts, CompleteFinal
<1> DEFINE s == req[r].sid
<1>1. s \in Created /\ s \in Sids /\ req[r].client \in Clients
  BY <1>0 DEF Fact, Created
<1>2. SessType' /\ Calm /\ Created' = Created
  BY <1>0, <1>1, TouchCalm, QuietCreated DEF CompleteFinal
<1>3. CASE sess[s].state = "completed" /\ Goto(r, "completeRemove")
  <2>1. /\ ReqType' /\ OtherRequests(r)
        /\ req'[r].pc = "completeRemove" /\ req'[r].sid = s /\ req'[r].client = req[r].client
    BY <1>0, <1>3, GotoType DEF ReqPcs
  <2>2. committed'[s] # NoContent
    BY <1>1, <1>3 DEF SessionInv, Stored, OutFact, StateFact, CompleteFinal
  <2>3. Fact(r)'
    BY <1>1, <1>2, <2>1, <2>2 DEF Fact
  <2> QED BY <1>0, <1>2, <2>1, <2>3, RequestStep DEF CompleteFinal, RegistryType
<1>4. CASE Answer(r)
  <2>1. ReqType' /\ OtherRequests(r) /\ req'[r].pc = "idle"
    BY <1>0, <1>4, AnswerType
  <2>2. Fact(r)'
    BY <1>2, <2>1, SimpleFact
  <2> QED BY <1>0, <1>2, <2>1, <2>2, RequestStep DEF CompleteFinal, RegistryType
<1> QED BY <1>3, <1>4 DEF CompleteFinal

LEMMA StatusStep ==
    ASSUME SessionInv, NEW r \in Requests, Status(r)
    PROVE  SessionInv' /\ HistoryKept
<1>0. /\ ReqType /\ SessType /\ RegistryType /\ Fact(r) /\ req[r].pc = "idle" /\ req' = req
  BY DEF SessionInv, Types, RequestFacts, Status
<1>1. PICK c \in Clients, s \in byID : Touch(s) /\ known' = [known EXCEPT ![c] = @ \cup {s}]
  BY DEF Status
<1>2. s \in Sids
  BY <1>0 DEF RegistryType, Created
<1>3. SessType' /\ Calm
  BY <1>0, <1>1, <1>2, TouchCalm
<1>4. ReqType' /\ OtherRequests(r) /\ req'[r].pc = "idle"
  BY <1>0 DEF ReqType, OtherRequests
<1>5. Fact(r)'
  BY <1>3, <1>4, SimpleFact
<1>6. known' \in [Clients -> SUBSET Sids]
  BY <1>0, <1>1, <1>2 DEF RegistryType
<1> QED BY <1>0, <1>3, <1>4, <1>5, <1>6, RequestStep DEF Status, RegistryType

\* The window a request works on.
LEMMA WindowType ==
    ASSUME SessionInv, NEW r \in Requests, req[r].pc \in {"chunkAdmit", "chunkFill"}
    PROVE  /\ req[r].sid \in Created /\ req[r].sid \in Sids /\ req[r].att \in Attempts
           /\ Window(r) \in Streams /\ Filled(Window(r)) /\ req[r].client \in Clients
<1>1. Fact(r) /\ WinType
  BY DEF SessionInv, RequestFacts, Types
<1>2. req[r].sid \in Created /\ req[r].sid \in Sids /\ req[r].att \in Attempts /\ req[r].client \in Clients
  BY <1>1 DEF Fact, Created
<1> QED BY <1>1, <1>2 DEF WinType, Window

\* One request works on its window without storing a chunk.
LEMMA WindowStep ==
    ASSUME SessionInv, NEW r \in Requests, req[r].pc \in {"chunkAdmit", "chunkFill"},
           NEW w \in Streams, Filled(w), w.content = Window(r).content, SetWindow(r, w),
           UNCHANGED <<byID, byKey, mgr, sess, pipe, committed, known, gc>>,
           ReqType', OtherRequests(r), Fact(r)'
    PROVE  SessionInv' /\ HistoryKept
<1>1. Types /\ SessType /\ WinType /\ Calm /\ Created' = Created
  BY SameSessions, QuietCreated DEF SessionInv, Types
<1>2. req[r].sid \in Sids /\ req[r].att \in Attempts
  BY WindowType
<1>3. /\ WinType' /\ win'[req[r].sid][req[r].att] = w
      /\ \A u \in Sids, b \in Attempts : u # req[r].sid \/ b # req[r].att => win'[u][b] = win[u][b]
  BY <1>1, <1>2, OneWindow DEF SetWindow, WindowMoved
<1>4. RegistryType' /\ SessType' /\ PipeType' /\ GCType' /\ (committed \in [Sids -> Contents])'
  BY <1>1 DEF Types, RegistryType, SessType, PipeType, GCType
<1>5. Types'
  BY <1>3, <1>4 DEF Types
<1>6. ContentSame
  BY <1>3 DEF ContentSame, Window
<1>7. Quiet
  BY <1>1 DEF Quiet, PipesGoOn
<1>8. WitnessKept
  BY DEF WitnessKept, OtherRequests
<1>9. KeyLeadsToSession'
  BY <1>1, KeysKept
<1>10. \A q \in Requests : req'[q] = req[q] \/ Fact(q)'
  BY DEF OtherRequests
<1> QED BY <1>5, <1>6, <1>7, <1>8, <1>9, <1>10, QuietStep

LEMMA WriteAdmittedStep ==
    ASSUME SessionInv, NEW r \in Requests, WriteAdmitted(r)
    PROVE  SessionInv' /\ HistoryKept
<1>0. /\ ReqType /\ SessType /\ Fact(r) /\ req[r].pc = "chunkAdmit" /\ req[r].idx \in Chunks
  BY DEF SessionInv, Types, RequestFacts, WriteAdmitted
<1> DEFINE w == Admit(Window(r), req[r].idx)
<1>1. /\ req[r].sid \in Created /\ req[r].att \in Attempts /\ req[r].client \in Clients
      /\ Window(r) \in Streams /\ Filled(Window(r))
  BY <1>0, WindowType
<1>2. w \in Streams /\ Filled(w) /\ w.content = Window(r).content
  BY <1>0, <1>1 DEF Admit, Streams, Filled
<1>3. /\ ReqType' /\ OtherRequests(r) /\ req'[r].pc = "chunkFill" /\ req'[r].sid = req[r].sid
      /\ req'[r].client = req[r].client /\ req'[r].att = req[r].att /\ req'[r].idx = req[r].idx
      /\ req'[r].prev = req[r].prev
  BY <1>0, GotoType DEF ReqPcs, WriteAdmitted
<1>4. UNCHANGED <<sess, pipe, committed>> /\ Created' = Created
  BY DEF WriteAdmitted, Created
<1>5. PrevOf(r)' = PrevOf(r)
  BY <1>3, <1>4 DEF PrevOf
<1>6. Fact(r)'
  BY <1>0, <1>1, <1>3, <1>4, <1>5 DEF Fact
<1> HIDE DEF w
<1> QED BY <1>0, <1>2, <1>3, <1>6, WindowStep DEF WriteAdmitted, w

LEMMA WriteDroppedStep ==
    ASSUME SessionInv, NEW r \in Requests, WriteDropped(r)
    PROVE  SessionInv' /\ HistoryKept
<1>0. /\ ReqType /\ SessType /\ Fact(r) /\ req[r].pc = "chunkFill"
  BY DEF SessionInv, Types, RequestFacts, WriteDropped
<1> DEFINE w == Drop(Window(r), req[r].idx)
<1>1. /\ req[r].sid \in Created /\ req[r].client \in Clients
      /\ Window(r) \in Streams /\ Filled(Window(r))
  BY <1>0, WindowType
<1>2. w \in Streams /\ Filled(w) /\ w.content = Window(r).content
  BY <1>1 DEF Drop, Streams, Filled
<1>3. /\ ReqType' /\ OtherRequests(r) /\ req'[r].pc = "chunkError" /\ req'[r].sid = req[r].sid
      /\ req'[r].client = req[r].client
  BY <1>0, GotoType DEF ReqPcs, WriteDropped
<1>4. Calm
  BY <1>0, SameSessions DEF WriteDropped
<1>5. Fact(r)'
  BY <1>1, <1>3, <1>4, SimpleFact
<1> HIDE DEF w
<1> QED BY <1>0, <1>2, <1>3, <1>5, WindowStep DEF WriteDropped, w

\* A chunk that differs from the one of the attempt before brings its own witness.
LEMMA WritePublishedStep ==
    ASSUME SessionInv, NEW r \in Requests, WritePublished(r)
    PROVE  SessionInv' /\ HistoryKept
<1> DEFINE s == req[r].sid
           a == req[r].att
           i == req[r].idx
           v == FileOf[req[r].client][i]
           w == Publish(Window(r), i, v)
           x == [req[r] EXCEPT !.pc = "chunkVerify", !.crc = v]
<1>0. /\ ReqType /\ SessType /\ WinType /\ Fact(r) /\ req[r] \in Reqs /\ req[r].pc = "chunkFill"
      /\ Types
  BY DEF SessionInv, Types, RequestFacts, WritePublished, ReqType
<1>1. /\ s \in Created /\ s \in Sids /\ a \in Attempts /\ req[r].client \in Clients
      /\ Window(r) \in Streams /\ Filled(Window(r))
  BY <1>0, WindowType
<1>2. i \in Chunks /\ v \in Versions /\ v # NoVersion
  BY <1>0, <1>1, SessionAssumption DEF Fact
<1>3. w \in Streams /\ Filled(w) /\ w.content = [Window(r).content EXCEPT ![i] = v]
  <2>1. "closed" \in Seals
    BY DEF Seals
  <2> QED BY <1>1, <1>2, <2>1, StreamOps
<1>4. x \in Reqs /\ x.pc = "chunkVerify" /\ x.crc = v /\ x.prev = req[r].prev /\ x.sid = s
      /\ x.client = req[r].client /\ x.idx = i
  BY <1>0, <1>2 DEF Reqs, ReqPcs
<1>5. req' = [req EXCEPT ![r] = x]
  BY <1>0 DEF ReqType, WritePublished
<1> HIDE DEF x
<1>6. ReqType' /\ OtherRequests(r) /\ req'[r] = x
  BY <1>0, <1>4, <1>5 DEF ReqType, OtherRequests
<1>7. Calm /\ SessType' /\ Created' = Created
  BY <1>0, SameSessions, QuietCreated DEF WritePublished
<1>8. WindowMoved(s, a, w)
  BY DEF WritePublished, SetWindow, WindowMoved
<1> HIDE DEF w
<1>9. /\ WinType' /\ win'[s][a] = w
      /\ \A u \in Sids, b \in Attempts : u # s \/ b # a => win'[u][b] = win[u][b]
  BY <1>0, <1>1, <1>3, <1>8, OneWindow
<1>10. Types'
  BY <1>0, <1>6, <1>7, <1>9 DEF Types, RegistryType, SessType, PipeType, GCType, WritePublished
<1>11. Quiet
  BY <1>7 DEF Quiet, PipesGoOn, WritePublished
<1>12. InOrder' /\ Unborn' /\ AttemptsInOrder' /\ Stored'
  BY <1>0, <1>10, <1>11, QuietKeeps DEF SessionInv
<1>13. KeyLeadsToSession'
  BY <1>7, KeysKept DEF WritePublished
<1>14. Fact(r)'
  BY <1>1, <1>4, <1>6, <1>7, SimpleFact
<1>15. RequestFacts'
  <2>1. SessionsGoOn
    BY <1>11, QuietGoesOn
  <2>2. ASSUME NEW q \in Requests, q # r PROVE Fact(q)'
    <3>1. Fact(q) /\ req'[q] = req[q]
      BY <1>6, <2>2 DEF SessionInv, RequestFacts, OtherRequests
    <3> QED BY <1>0, <2>1, <3>1, FactKept
  <2> QED BY <1>14, <2>2 DEF RequestFacts
<1>16. MismatchIsCaught'
  <2>0. sess' = sess
    BY DEF WritePublished
  <2>1. ASSUME NEW t \in Created, NEW j \in Chunks, Differs(t, j)'
        PROVE  \E q \in Requests : /\ req'[q].pc = "chunkVerify" /\ req'[q].sid = t
                                   /\ req'[q].idx = j /\ Mismatch(q)'
    <3>0. sess[t].state = "receiving"
      BY <2>0, <2>1 DEF Differs
    <3>1. t \in Sids /\ sess[t].cur \in Attempts /\ pipe[t][sess[t].cur].pc \in Busy
      BY <3>0 DEF Created, SessionInv, AttemptsInOrder, AttemptFact
    <3>2. CASE t = s /\ sess[t].cur = a /\ j = i
      <4>1. win'[t][sess[t].cur].content[j] = v
        <5>1. Window(r).content \in [Chunks -> Versions \cup {NoVersion}]
          BY <1>1 DEF Streams
        <5>2. w.content[i] = v
          BY <1>2, <1>3, <5>1
        <5>3. win'[t][sess[t].cur] = w /\ j = i
          BY <1>9, <3>2
        <5> QED BY <5>2, <5>3
      <4>2. req[r].prev = sess[t].prev[j]
        BY <1>0, <1>2, <3>1, <3>2 DEF Fact, PrevOf
      <4>3. Mismatch(r)'
        <5>1. v # sess[t].prev[j] /\ sess[t].prev[j] # NoVersion
          BY <2>0, <2>1, <4>1 DEF Differs
        <5> QED BY <1>4, <1>6, <4>2, <5>1 DEF Mismatch
      <4> QED BY <1>4, <1>6, <3>2, <4>3
    <3>3. CASE ~(t = s /\ sess[t].cur = a /\ j = i)
      <4>1. win'[t][sess[t].cur].content[j] = win[t][sess[t].cur].content[j]
        <5>1. CASE t = s /\ sess[t].cur = a
          <6>1. w.content[j] = Window(r).content[j]
            BY <1>1, <1>3, <3>3, <5>1 DEF Streams
          <6>2. win'[t][sess[t].cur] = w /\ win[t][sess[t].cur] = Window(r)
            BY <1>9, <5>1 DEF Window
          <6> QED BY <6>1, <6>2
        <5>2. CASE ~(t = s /\ sess[t].cur = a)
          BY <1>9, <3>1, <5>2
        <5> QED BY <5>1, <5>2
      <4>2. PICK q \in Requests : /\ req[q].pc = "chunkVerify" /\ req[q].sid = t
                                  /\ req[q].idx = j /\ Mismatch(q)
        <5>1. Differs(t, j)
          BY <2>0, <2>1, <4>1 DEF Differs
        <5> QED BY <5>1 DEF SessionInv, MismatchIsCaught
      <4>3. req'[q] = req[q]
        BY <1>0, <1>6, <4>2 DEF OtherRequests
      <4> QED BY <4>2, <4>3 DEF Mismatch
    <3> QED BY <3>2, <3>3
  <2> QED BY <1>7, <2>1 DEF MismatchIsCaught
<1>17. HistoryKept
  BY <1>7 DEF HistoryKept, Finished, Calm
<1> QED BY <1>10, <1>12, <1>13, <1>15, <1>16, <1>17 DEF SessionInv

-----------------------------------------------------------------------------
(* Ending a session                                                         *)

LEMMA KilledFacts ==
    ASSUME SessionInv, NEW s \in Created, win' = Killed(s)
    PROVE  WinType' /\ ContentSame
<1>0. WinType /\ s \in Sids /\ sess[s].win \in Attempts \cup {Nil}
  BY DEF SessionInv, Types, Created, SessType, Sessions
<1>1. CASE sess[s].win = Nil
  BY <1>0, <1>1 DEF Killed, WinType, Filled, ContentSame
<1>2. CASE sess[s].win # Nil
  <2> DEFINE a == sess[s].win
             w == Seal(win[s][a], "aborted")
  <2>1. a \in Attempts
    BY <1>0, <1>2
  <2>2. win[s][a] \in Streams /\ Filled(win[s][a])
    BY <1>0, <2>1 DEF WinType
  <2>3. w \in Streams /\ Filled(w) /\ w.content = win[s][a].content
    BY <2>2 DEF Seal, Streams, Filled, Seals
  <2>4. WindowMoved(s, a, w)
    BY <1>2 DEF Killed, WindowMoved
  <2> HIDE DEF w, a
  <2>5. /\ WinType' /\ win'[s][a] = w
        /\ \A u \in Sids, b \in Attempts : u # s \/ b # a => win'[u][b] = win[u][b]
    BY <1>0, <2>1, <2>3, <2>4, OneWindow
  <2> QED BY <2>3, <2>5 DEF ContentSame
<1> QED BY <1>1, <1>2

LEMMA TerminateFacts ==
    ASSUME SessionInv, NEW s \in Created, Terminate(s)
    PROVE  SessType' /\ WinType' /\ ContentSame /\ Calm
<1>0. SessType /\ s \in Sids /\ sess[s] \in Sessions /\ sess[s].state # "none"
  BY DEF SessionInv, Types, Created, SessType
<1> DEFINE st == IF sess[s].state = "receiving" THEN "aborted" ELSE sess[s].state
<1>1. sess' = [sess EXCEPT ![s] = [sess[s] EXCEPT !.state = st]]
  BY <1>0 DEF Terminate, SessType
<1>2. [sess[s] EXCEPT !.state = st] \in Sessions
  BY <1>0 DEF Sessions, States
<1>3. SessType'
  BY <1>0, <1>1, <1>2 DEF SessType
<1>4. ASSUME NEW u \in Sids
      PROVE  /\ SameButState(u)
             /\ sess'[u].state = sess[u].state
                \/ (sess[u].state # "none" /\ sess'[u].state \in {"aborted", "failed_permanent"})
  BY <1>0, <1>1 DEF SessType, Sessions, SameButState
<1>5. Calm
  BY <1>4 DEF Calm
<1>6. WinType' /\ ContentSame
  BY KilledFacts DEF Terminate
<1> QED BY <1>3, <1>5, <1>6

\* A step that ends a session: the registry and the pipelines stay.
LEMMA EndStep ==
    ASSUME SessionInv, UNCHANGED <<byID, byKey, mgr, pipe, committed, known>>,
           SessType', WinType', ContentSame, Calm, ReqType', GCType', WitnessKept,
           \A q \in Requests : req'[q] = req[q] \/ Fact(q)'
    PROVE  SessionInv' /\ HistoryKept
<1>1. Types /\ Created' = Created
  BY QuietCreated DEF SessionInv, Types
<1>2. Types'
  BY <1>1 DEF Types, RegistryType, PipeType
<1>3. Quiet
  BY DEF Quiet, PipesGoOn
<1>4. KeyLeadsToSession'
  BY KeysKept
<1> QED BY <1>2, <1>3, <1>4, QuietStep

LEMMA RequestTerminates ==
    ASSUME SessionInv, NEW r \in Requests, NEW p \in {"initRemove", "abortRemove"},
           req[r].pc \in {"initTerminate", "abortTerminate"}, Terminate(req[r].sid), Goto(r, p),
           UNCHANGED <<byID, byKey, mgr, pipe, committed, known, gc>>
    PROVE  SessionInv' /\ HistoryKept
<1>0. ReqType /\ SessType /\ GCType /\ Fact(r)
  BY DEF SessionInv, Types, RequestFacts
<1>1. req[r].sid \in Created /\ req[r].client \in Clients
  BY <1>0 DEF Fact
<1>2. SessType' /\ WinType' /\ ContentSame /\ Calm
  BY <1>1, TerminateFacts
<1>3. /\ ReqType' /\ OtherRequests(r)
      /\ req'[r].pc = p /\ req'[r].sid = req[r].sid /\ req'[r].client = req[r].client
  BY <1>0, GotoType DEF ReqPcs
<1>4. Fact(r)'
  BY <1>1, <1>2, <1>3, SimpleFact
<1>5. GCType' /\ Created' = Created
  BY <1>0, <1>2, QuietCreated DEF GCType
<1>6. WitnessKept /\ \A q \in Requests : req'[q] = req[q] \/ Fact(q)'
  BY <1>3, <1>4 DEF WitnessKept, OtherRequests
<1> QED BY <1>2, <1>3, <1>5, <1>6, EndStep

LEMMA ChunkChangedStep ==
    ASSUME SessionInv, NEW r \in Requests, ChunkChanged(r)
    PROVE  SessionInv' /\ HistoryKept
<1> DEFINE s == req[r].sid
<1>0. ReqType /\ SessType /\ GCType /\ Fact(r) /\ req[r].pc = "chunkVerify"
  BY DEF SessionInv, Types, RequestFacts, ChunkChanged
<1>1. s \in Created /\ s \in Sids /\ sess[s].state # "none" /\ sess[s] \in Sessions
  BY <1>0 DEF Fact, Created, SessType
<1>2. sess' = [sess EXCEPT ![s] = [sess[s] EXCEPT !.state = "failed_permanent"]]
  BY DEF ChunkChanged
<1>3. [sess[s] EXCEPT !.state = "failed_permanent"] \in Sessions
  BY <1>1 DEF Sessions, States
<1>4. SessType' /\ sess'[s].state = "failed_permanent"
  BY <1>0, <1>1, <1>2, <1>3 DEF SessType, Sessions
<1>5. ASSUME NEW u \in Sids
      PROVE  /\ SameButState(u)
             /\ sess'[u].state = sess[u].state
                \/ (sess[u].state # "none" /\ sess'[u].state \in {"aborted", "failed_permanent"})
  BY <1>0, <1>1, <1>2 DEF SessType, Sessions, SameButState
<1>6. Calm
  BY <1>5 DEF Calm
<1>7. WinType' /\ ContentSame
  BY <1>1, KilledFacts DEF ChunkChanged
<1>8. ReqType' /\ OtherRequests(r) /\ req'[r].pc = "idle"
  BY <1>0, AnswerType DEF ChunkChanged
<1>9. Fact(r)'
  BY <1>6, <1>8, SimpleFact
<1>10. GCType' /\ Created' = Created
  BY <1>0, <1>6, QuietCreated DEF GCType, ChunkChanged
<1>11. WitnessKept
  BY <1>4, <1>8 DEF WitnessKept, OtherRequests
<1>12. \A q \in Requests : req'[q] = req[q] \/ Fact(q)'
  BY <1>8, <1>9 DEF OtherRequests
<1> QED BY <1>4, <1>6, <1>7, <1>8, <1>10, <1>11, <1>12, EndStep DEF ChunkChanged

\* The session leaves the table, and its key only if the key leads to it.
LEMMA RemoveFacts ==
    ASSUME SessionInv, NEW s \in Created, Remove(s), sess' = sess, mgr' = mgr, known' = known
    PROVE  RegistryType' /\ KeyLeadsToSession'
<1>0. /\ RegistryType /\ KeyLeadsToSession /\ sess[s].user \in Users /\ s \in Sids
      /\ \A u \in Users : byKey[u] \in {0} \cup Sids
  BY DEF SessionInv, Types, AttemptsInOrder, AttemptFact, Created, RegistryType
<1>1. /\ byID' = byID \ {s} /\ Created' = Created
      /\ byKey' = [byKey EXCEPT ![sess[s].user] = IF @ = s THEN 0 ELSE @]
  BY DEF Remove, WithoutKey, Created
<1>2. RegistryType'
  BY <1>0, <1>1 DEF RegistryType
<1>3. ASSUME NEW u \in Users, byKey'[u] # 0
      PROVE  byKey'[u] \in byID' /\ sess[byKey'[u]].user = u
  <2>1. byKey'[u] = byKey[u]
    BY <1>0, <1>1, <1>3 DEF RegistryType
  <2>2. byKey[u] \in byID /\ sess[byKey[u]].user = u
    BY <1>0, <1>3, <2>1 DEF KeyLeadsToSession
  <2>3. byKey[u] # s
    <3>1. CASE byKey[u] = s
      <4>1. sess[s].user = u
        BY <2>2, <3>1
      <4>2. byKey'[u] = 0
        BY <1>0, <1>1, <3>1, <4>1 DEF RegistryType
      <4> QED BY <1>3, <4>2
    <3> QED BY <3>1
  <2> QED BY <1>1, <2>1, <2>2, <2>3
<1> QED BY <1>2, <1>3 DEF KeyLeadsToSession

LEMMA RemoveStep ==
    ASSUME SessionInv, NEW s \in Created, Remove(s),
           UNCHANGED <<mgr, sess, win, pipe, committed, known>>, ReqType', GCType', WitnessKept,
           \A q \in Requests : req'[q] = req[q] \/ Fact(q)'
    PROVE  SessionInv' /\ HistoryKept
<1>1. Types /\ Calm /\ SessType' /\ Created' = Created
  BY SameSessions, QuietCreated DEF SessionInv, Types
<1>2. RegistryType' /\ KeyLeadsToSession'
  BY RemoveFacts
<1>3. Types'
  BY <1>1, <1>2 DEF Types, WinType, Filled, PipeType
<1>4. Quiet /\ ContentSame
  BY <1>1 DEF Quiet, PipesGoOn, ContentSame
<1> QED BY <1>2, <1>3, <1>4, QuietStep

LEMMA AnswerRemoves ==
    ASSUME SessionInv, NEW r \in Requests, req[r].pc \in {"completeRemove", "abortRemove"},
           Remove(req[r].sid), Answer(r), UNCHANGED <<mgr, sess, win, pipe, committed, known, gc>>
    PROVE  SessionInv' /\ HistoryKept
<1>0. ReqType /\ SessType /\ GCType /\ Fact(r)
  BY DEF SessionInv, Types, RequestFacts
<1>1. req[r].sid \in Created /\ Calm
  BY <1>0, SameSessions DEF Fact
<1>2. ReqType' /\ OtherRequests(r) /\ req'[r].pc = "idle"
  BY <1>0, AnswerType
<1>3. Fact(r)'
  BY <1>1, <1>2, SimpleFact
<1>4. GCType'
  BY <1>0 DEF GCType, Created
<1>5. WitnessKept /\ \A q \in Requests : req'[q] = req[q] \/ Fact(q)'
  BY <1>2, <1>3 DEF WitnessKept, OtherRequests
<1> QED BY <1>1, <1>2, <1>4, <1>5, RemoveStep

LEMMA InitRemoveStep ==
    ASSUME SessionInv, NEW r \in Requests, InitRemove(r)
    PROVE  SessionInv' /\ HistoryKept
<1>0. ReqType /\ SessType /\ GCType /\ Fact(r) /\ req[r].pc = "initRemove" /\ req[r] \in Reqs
  BY DEF SessionInv, Types, RequestFacts, InitRemove, ReqType
<1> DEFINE x == [req[r] EXCEPT !.pc = "initCreate", !.sid = 0]
<1>1. req[r].sid \in Created /\ req[r].client \in Clients
  BY <1>0 DEF Fact
<1>2. x \in Reqs /\ x.pc = "initCreate" /\ x.client = req[r].client
  BY <1>0 DEF Reqs, ReqPcs
<1>3. req' = [req EXCEPT ![r] = x]
  BY <1>0 DEF ReqType, InitRemove
<1> HIDE DEF x
<1>4. ReqType' /\ OtherRequests(r) /\ req'[r] = x
  BY <1>0, <1>2, <1>3 DEF ReqType, OtherRequests
<1>5. Fact(r)'
  BY <1>1, <1>2, <1>4 DEF Fact
<1>6. GCType'
  BY <1>0 DEF GCType, Created, InitRemove
<1>7. WitnessKept /\ \A q \in Requests : req'[q] = req[q] \/ Fact(q)'
  BY <1>0, <1>4, <1>5 DEF WitnessKept, OtherRequests
<1> QED BY <1>1, <1>4, <1>6, <1>7, RemoveStep DEF InitRemove

-----------------------------------------------------------------------------
(* Expiry                                                                   *)

LEMMA GCTerminateStep ==
    ASSUME SessionInv, GCTerminate
    PROVE  SessionInv' /\ HistoryKept
<1>1. PICK s \in gc.expired : Terminate(s) /\ gc' = [expired |-> gc.expired \ {s}, sid |-> s]
  BY DEF GCTerminate
<1>2. GCType /\ ReqType /\ SessType /\ s \in Created
  BY <1>1 DEF SessionInv, Types, GCType
<1>3. SessType' /\ WinType' /\ ContentSame /\ Calm
  BY <1>1, <1>2, TerminateFacts
<1>4. GCType'
  BY <1>1, <1>2, <1>3, QuietCreated DEF GCType
<1>5. ReqType' /\ WitnessKept /\ \A q \in Requests : req'[q] = req[q] \/ Fact(q)'
  BY <1>2 DEF ReqType, WitnessKept, GCTerminate
<1> QED BY <1>3, <1>4, <1>5, EndStep DEF GCTerminate

LEMMA GCRemoveStep ==
    ASSUME SessionInv, GCRemove
    PROVE  SessionInv' /\ HistoryKept
<1>1. GCType /\ ReqType /\ gc.sid \in Created
  BY DEF SessionInv, Types, GCType, GCRemove
<1>2. GCType'
  <2>1. Created' = Created
    BY DEF GCRemove, Created
  <2> QED BY <1>1, <2>1 DEF GCType, GCRemove
<1>3. ReqType' /\ WitnessKept /\ \A q \in Requests : req'[q] = req[q] \/ Fact(q)'
  BY <1>1 DEF ReqType, WitnessKept, GCRemove
<1> QED BY <1>1, <1>2, <1>3, RemoveStep DEF GCRemove

LEMMA GCGatherStep ==
    ASSUME SessionInv, GCGather
    PROVE  SessionInv' /\ HistoryKept
<1>1. Types /\ SessType /\ RegistryType /\ ReqType
  BY DEF SessionInv, Types
<1>2. SessType' /\ Calm /\ Created' = Created
  BY <1>1, SameSessions DEF GCGather, Created
<1>3. GCType'
  <2>1. gc' = [expired |-> Expired, sid |-> 0]
    BY DEF GCGather, IdleGC
  <2>2. Expired \subseteq Created
    BY <1>1 DEF Expired, RegistryType
  <2> QED BY <1>2, <2>1, <2>2 DEF GCType
<1>4. WinType' /\ ContentSame
  BY <1>1 DEF Types, WinType, Filled, ContentSame, GCGather
<1>5. ReqType' /\ WitnessKept /\ \A q \in Requests : req'[q] = req[q] \/ Fact(q)'
  BY <1>1 DEF ReqType, WitnessKept, GCGather
<1> QED BY <1>2, <1>3, <1>4, <1>5, EndStep DEF GCGather

LEMMA AgeStep ==
    ASSUME SessionInv, NEW s \in Sids, Age(s)
    PROVE  SessionInv' /\ HistoryKept
<1>1. Types /\ SessType /\ GCType /\ ReqType /\ sess[s] \in Sessions
  BY DEF SessionInv, Types, SessType
<1>2. sess' = [sess EXCEPT ![s] = [sess[s] EXCEPT !.active = FALSE]]
  BY DEF Age
<1>3. [sess[s] EXCEPT !.active = FALSE] \in Sessions
  BY <1>1 DEF Sessions
<1>4. SessType'
  BY <1>1, <1>2, <1>3 DEF SessType
<1>5. ASSUME NEW u \in Sids PROVE SameButState(u) /\ sess'[u].state = sess[u].state
  BY <1>1, <1>2 DEF SessType, Sessions, SameButState
<1>6. Calm
  BY <1>5 DEF Calm
<1>7. GCType'
  BY <1>1, <1>6, QuietCreated DEF GCType, Age
<1>8. WinType' /\ ContentSame
  BY <1>1 DEF Types, WinType, Filled, ContentSame, Age
<1>9. ReqType' /\ WitnessKept /\ \A q \in Requests : req'[q] = req[q] \/ Fact(q)'
  BY <1>1 DEF ReqType, WitnessKept, Age
<1> QED BY <1>4, <1>6, <1>7, <1>8, <1>9, EndStep DEF Age

LEMMA InitRegisterStep ==
    ASSUME SessionInv, NEW r \in Requests, InitRegister(r)
    PROVE  SessionInv' /\ HistoryKept
<1> DEFINE s == req[r].sid
           c == req[r].client
<1>0. /\ Types /\ ReqType /\ SessType /\ GCType /\ RegistryType /\ Fact(r) /\ KeyLeadsToSession
      /\ req[r].pc = "initRegister"
  BY DEF SessionInv, Types, RequestFacts, InitRegister
<1>1. s \in Created /\ s \in Sids /\ c \in Clients /\ sess[s].user = UserOf[c] /\ UserOf[c] \in Users
  BY <1>0, SessionAssumption DEF Fact, Created
<1>2. SessType' /\ Calm /\ Created' = Created
  BY <1>0, SameSessions, QuietCreated DEF InitRegister
<1>3. /\ byID' = byID \cup {s} /\ byKey' = [byKey EXCEPT ![UserOf[c]] = s]
      /\ known' = [known EXCEPT ![c] = @ \cup {s}] /\ mgr' = mgr /\ sess' = sess
  BY DEF InitRegister
<1>4. RegistryType'
  BY <1>0, <1>1, <1>2, <1>3 DEF RegistryType
<1>5. KeyLeadsToSession'
  <2>1. ASSUME NEW u \in Users, byKey'[u] # 0
        PROVE  byKey'[u] \in byID' /\ sess[byKey'[u]].user = u
    <3>1. CASE u = UserOf[c]
      BY <1>0, <1>1, <1>3, <3>1 DEF RegistryType
    <3>2. CASE u # UserOf[c]
      BY <1>0, <1>1, <1>3, <2>1, <3>2 DEF RegistryType, KeyLeadsToSession
    <3> QED BY <3>1, <3>2
  <2> QED BY <1>3, <2>1 DEF KeyLeadsToSession
<1>6. ReqType' /\ OtherRequests(r) /\ req'[r].pc = "idle"
  BY <1>0, AnswerType DEF InitRegister
<1>7. Fact(r)'
  BY <1>2, <1>6, SimpleFact
<1>8. WinType' /\ PipeType' /\ GCType' /\ ContentSame /\ Quiet
  BY <1>0, <1>2 DEF Types, WinType, Filled, PipeType, GCType, ContentSame, Quiet, PipesGoOn,
       InitRegister
<1>9. Types'
  BY <1>0, <1>2, <1>4, <1>6, <1>8 DEF Types, InitRegister
<1>10. WitnessKept /\ \A q \in Requests : req'[q] = req[q] \/ Fact(q)'
  BY <1>0, <1>6, <1>7 DEF WitnessKept, OtherRequests
<1> QED BY <1>5, <1>8, <1>9, <1>10, QuietStep

-----------------------------------------------------------------------------
(* The pipeline                                                             *)

\* p is where the pipeline is, or where it goes on to without success so far.
PipeMoves(s, a, p) ==
    \/ p = pipe[s][a]
    \/ /\ pipe[s][a].pc \in Busy /\ p.pc \in Busy \ {"put"}
       /\ \/ p.out = pipe[s][a].out
          \/ pipe[s][a].pc = "put" /\ p.out = "failed"
    \/ pipe[s][a].pc = "signal" /\ p.pc = "ended" /\ p.out = pipe[s][a].out

LEMMA PipelineStep ==
    ASSUME SessionInv, NEW s \in Sids, NEW a \in Attempts, NEW p \in Pipes,
           PipeMoves(s, a, p), pipe' = [pipe EXCEPT ![s][a] = p],
           WinType', ContentSame, UNCHANGED <<byID, byKey, mgr, sess, committed, known, req, gc>>
    PROVE  SessionInv' /\ HistoryKept
<1>1. Types /\ SessType' /\ Calm /\ Created' = Created
  BY SameSessions, QuietCreated DEF SessionInv, Types
<1>2. /\ PipeType' /\ pipe'[s][a] = p
      /\ \A u \in Sids, b \in Attempts : u # s \/ b # a => pipe'[u][b] = pipe[u][b]
  <2>1. PipeType
    BY <1>1 DEF Types
  <2>2. PipeMoved(s, a, p)
    BY DEF PipeMoved
  <2> QED BY <2>1, <2>2, OnePipe
<1>3. PipesGoOn
  BY <1>2 DEF PipesGoOn, PipeMoves
<1>4. RegistryType' /\ ReqType' /\ GCType' /\ (committed \in [Sids -> Contents])'
  BY <1>1 DEF Types, RegistryType, ReqType, GCType
<1>5. Types'
  BY <1>1, <1>2, <1>4 DEF Types
<1>6. Quiet /\ WitnessKept /\ \A q \in Requests : req'[q] = req[q] \/ Fact(q)'
  BY <1>1, <1>3 DEF Quiet, WitnessKept
<1>7. KeyLeadsToSession'
  BY <1>1, KeysKept
<1> QED BY <1>5, <1>6, <1>7, QuietStep

\* A window is read or closed.
LEMMA PipeWindow ==
    ASSUME SessionInv, NEW s \in Sids, NEW a \in Attempts, NEW w,
           w \in Streams /\ Filled(w) /\ w.content = win[s][a].content,
           win' = [win EXCEPT ![s][a] = w]
    PROVE  WinType' /\ ContentSame
<1>1. /\ WinType' /\ win'[s][a] = w
      /\ \A u \in Sids, b \in Attempts : u # s \/ b # a => win'[u][b] = win[u][b]
  <2>1. WinType /\ w \in Streams /\ Filled(w) /\ WindowMoved(s, a, w)
    BY DEF SessionInv, Types, WindowMoved
  <2> QED BY <2>1, OneWindow
<1> QED BY <1>1 DEF ContentSame

LEMMA SameWindows ==
    ASSUME SessionInv, win' = win
    PROVE  WinType' /\ ContentSame
BY DEF SessionInv, Types, WinType, Filled, ContentSame

LEMMA PipeTyped ==
    ASSUME SessionInv, NEW s \in Sids, NEW a \in Attempts
    PROVE  /\ pipe[s][a] \in Pipes /\ win[s][a] \in Streams /\ Filled(win[s][a])
           /\ pipe \in [Sids -> [Attempts -> Pipes]]
BY DEF SessionInv, Types, PipeType, WinType

LEMMA PipeReadStep ==
    ASSUME SessionInv, NEW s \in Sids, NEW a \in Attempts, PipeRead(s, a)
    PROVE  SessionInv' /\ HistoryKept
<1> DEFINE w == Advance(win[s][a])
<1>1. win[s][a] \in Streams /\ Filled(win[s][a]) /\ CanAdvance(win[s][a]) /\ pipe[s][a] \in Pipes
  BY PipeTyped DEF PipeRead
<1>2. w \in Streams /\ Filled(w) /\ w.content = win[s][a].content
  <2>1. win[s][a].frontier < Total /\ win[s][a].frontier \in Chunks /\ Total \in Nat
    BY <1>1, SessionAssumption DEF CanAdvance, Streams
  <2>2. w \in Streams /\ w.content = win[s][a].content /\ w.frontier = win[s][a].frontier + 1
    BY <1>1, <2>1 DEF Advance, Streams
  <2>3. \A j \in Chunks : j < win[s][a].frontier + 1 => j < win[s][a].frontier \/ j = win[s][a].frontier
    BY <2>1
  <2> QED BY <1>1, <2>2, <2>3 DEF Filled, CanAdvance, Accepted
<1>3. win' = [win EXCEPT ![s][a] = w]
  BY DEF PipeRead
<1> HIDE DEF w
<1>4. WinType' /\ ContentSame
  BY <1>2, <1>3, PipeWindow
<1>5. pipe' = [pipe EXCEPT ![s][a] = pipe[s][a]]
  BY PipeTyped DEF PipeRead
<1>6. PipeMoves(s, a, pipe[s][a])
  BY DEF PipeMoves
<1> QED BY <1>1, <1>4, <1>5, <1>6, PipelineStep DEF PipeRead

LEMMA PipeFailedStep ==
    ASSUME SessionInv, NEW s \in Sids, NEW a \in Attempts, PipeFailed(s, a)
    PROVE  SessionInv' /\ HistoryKept
<1> DEFINE p == [pipe[s][a] EXCEPT !.pc = "opClose", !.out = "failed"]
<1>1. pipe[s][a] \in Pipes /\ pipe[s][a].pc = "put"
  BY PipeTyped DEF PipeFailed
<1>2. p \in Pipes /\ p.pc = "opClose" /\ p.out = "failed"
  BY <1>1 DEF Pipes, Busy
<1>3. pipe' = [pipe EXCEPT ![s][a] = p]
  BY PipeTyped DEF PipeFailed
<1> HIDE DEF p
<1>4. WinType' /\ ContentSame
  BY SameWindows DEF PipeFailed
<1>5. PipeMoves(s, a, p)
  BY <1>1, <1>2 DEF PipeMoves, Busy
<1> QED BY <1>2, <1>3, <1>4, <1>5, PipelineStep DEF PipeFailed

LEMMA PipeRefusedStep ==
    ASSUME SessionInv, NEW s \in Sids, NEW a \in Attempts, PipeRefused(s, a)
    PROVE  SessionInv' /\ HistoryKept
<1> DEFINE p == [pipe[s][a] EXCEPT !.pc = "harvest", !.out = "failed"]
<1>1. pipe[s][a] \in Pipes /\ pipe[s][a].pc = "put"
  BY PipeTyped DEF PipeRefused
<1>2. p \in Pipes /\ p.pc = "harvest" /\ p.out = "failed"
  BY <1>1 DEF Pipes, Busy
<1>3. pipe' = [pipe EXCEPT ![s][a] = p]
  BY PipeTyped DEF PipeRefused
<1> HIDE DEF p
<1>4. WinType' /\ ContentSame
  BY SameWindows DEF PipeRefused
<1>5. PipeMoves(s, a, p)
  BY <1>1, <1>2 DEF PipeMoves, Busy
<1> QED BY <1>2, <1>3, <1>4, <1>5, PipelineStep DEF PipeRefused

\* The window is closed, the pipeline moves to its next point.
LEMMA PipeCloses ==
    ASSUME SessionInv, NEW s \in Sids, NEW a \in Attempts, NEW pc \in {"harvest", "verdict"},
           pipe[s][a].pc \in {"opClose", "close"}, win' = [win EXCEPT ![s][a] = Seal(@, "closed")],
           pipe' = [pipe EXCEPT ![s][a].pc = pc],
           UNCHANGED <<byID, byKey, mgr, sess, committed, known, req, gc>>
    PROVE  SessionInv' /\ HistoryKept
<1> DEFINE p == [pipe[s][a] EXCEPT !.pc = pc]
           w == Seal(win[s][a], "closed")
<1>1. pipe[s][a] \in Pipes /\ win[s][a] \in Streams /\ Filled(win[s][a])
  BY PipeTyped
<1>2. p \in Pipes /\ p.pc = pc /\ p.out = pipe[s][a].out
  BY <1>1 DEF Pipes, Busy
<1>3. w \in Streams /\ Filled(w) /\ w.content = win[s][a].content
  BY <1>1 DEF Seal, Streams, Filled, Seals
<1>4. pipe' = [pipe EXCEPT ![s][a] = p] /\ win' = [win EXCEPT ![s][a] = w]
  BY PipeTyped
<1> HIDE DEF p, w
<1>5. WinType' /\ ContentSame
  BY ZenonT(30), <1>3, <1>4, PipeWindow
<1>6. PipeMoves(s, a, p)
  <2>1. pipe[s][a].pc \in Busy /\ p.pc \in Busy \ {"put"}
    BY <1>2 DEF Busy
  <2> QED BY <1>2, <2>1 DEF PipeMoves
<1> QED BY <1>2, <1>4, <1>5, <1>6, PipelineStep

LEMMA PipeHarvestStep ==
    ASSUME SessionInv, NEW s \in Sids, NEW a \in Attempts, PipeHarvest(s, a)
    PROVE  SessionInv' /\ HistoryKept
<1> DEFINE pc == IF win[s][a].sealed = "none" THEN "close" ELSE "verdict"
           p  == [pipe[s][a] EXCEPT !.pc = pc, !.crcs = win[s][a].content]
<1>1. pipe[s][a] \in Pipes /\ pipe[s][a].pc = "harvest" /\ win[s][a].content \in Contents
  BY PipeTyped DEF PipeHarvest, Streams, Contents
<1>2. pc \in {"close", "verdict"}
  OBVIOUS
<1>3. pipe' = [pipe EXCEPT ![s][a] = p]
  BY PipeTyped DEF PipeHarvest
<1> HIDE DEF pc
<1>4. p \in Pipes /\ p.pc = pc /\ p.out = pipe[s][a].out
  BY <1>1, <1>2 DEF Pipes, Busy
<1> HIDE DEF p
<1>5. WinType' /\ ContentSame
  BY SameWindows DEF PipeHarvest
<1>6. PipeMoves(s, a, p)
  <2>1. pipe[s][a].pc \in Busy /\ p.pc \in Busy \ {"put"}
    BY <1>1, <1>2, <1>4 DEF Busy
  <2> QED BY <1>4, <2>1 DEF PipeMoves
<1> QED BY <1>3, <1>4, <1>5, <1>6, PipelineStep DEF PipeHarvest

LEMMA PipeSignalStep ==
    ASSUME SessionInv, NEW s \in Sids, NEW a \in Attempts, PipeSignal(s, a)
    PROVE  SessionInv' /\ HistoryKept
<1> DEFINE p == [pipe[s][a] EXCEPT !.pc = "ended"]
<1>1. pipe[s][a] \in Pipes /\ pipe[s][a].pc = "signal"
  BY PipeTyped DEF PipeSignal
<1>2. p \in Pipes /\ p.pc = "ended" /\ p.out = pipe[s][a].out
  BY <1>1 DEF Pipes
<1>3. pipe' = [pipe EXCEPT ![s][a] = p]
  BY PipeTyped DEF PipeSignal
<1> HIDE DEF p
<1>4. WinType' /\ ContentSame
  BY SameWindows DEF PipeSignal
<1>5. PipeMoves(s, a, p)
  BY <1>1, <1>2 DEF PipeMoves
<1> QED BY <1>2, <1>3, <1>4, <1>5, PipelineStep DEF PipeSignal

-----------------------------------------------------------------------------
(* Steps that start an attempt, store the file or record a verdict          *)

\* Nothing happens to the other sessions.
OthersSame(s) == \A t \in Sids \ {s} :
    sess'[t] = sess[t] /\ win'[t] = win[t] /\ pipe'[t] = pipe[t] /\ committed'[t] = committed[t]

LEMMA OthersKept ==
    ASSUME SessionInv, NEW s \in Sids, OthersSame(s), OutFact(s)',
           s \in Created' /\ AttemptFact(s)' /\ StateFact(s)'
    PROVE  Unborn' /\ AttemptsInOrder' /\ Stored'
<1>1. ASSUME NEW t \in Sids, t # s
      PROVE  /\ t \in Created' <=> t \in Created
             /\ AttemptFact(t)' <=> AttemptFact(t)
             /\ OutFact(t)' <=> OutFact(t)
             /\ StateFact(t)' <=> StateFact(t)
  <2>1. sess'[t] = sess[t] /\ win'[t] = win[t] /\ pipe'[t] = pipe[t] /\ committed'[t] = committed[t]
    BY <1>1 DEF OthersSame
  <2>2. t \in Created' <=> t \in Created
    BY <1>1, <2>1 DEF Created
  <2>3. AttemptFact(t)' <=> AttemptFact(t)
    BY <2>1 DEF AttemptFact
  <2>4. OutFact(t)' <=> OutFact(t)
    BY <2>1 DEF OutFact
  <2>5. StateFact(t)' <=> StateFact(t)
    BY <2>1 DEF StateFact
  <2> QED BY <2>2, <2>3, <2>4, <2>5
<1>2. \A t \in Created' : t \in Sids
  BY DEF Created
<1>3. AttemptsInOrder'
  <2>1. ASSUME NEW t \in Created' PROVE AttemptFact(t)'
    <3>1. CASE t = s
      BY <3>1
    <3>2. CASE t # s
      <4>1. t \in Created /\ t \in Sids
        BY <1>1, <1>2, <3>2
      <4>2. AttemptFact(t)
        BY <4>1 DEF SessionInv, AttemptsInOrder
      <4> QED BY <1>1, <3>2, <4>1, <4>2
    <3> QED BY <3>1, <3>2
  <2> QED BY <2>1 DEF AttemptsInOrder
<1>4. Stored'
  <2>1. ASSUME NEW t \in Sids PROVE OutFact(t)'
    <3>1. OutFact(t)
      BY DEF SessionInv, Stored
    <3> QED BY <1>1, <3>1
  <2>2. ASSUME NEW t \in Created' PROVE StateFact(t)'
    <3>1. CASE t = s
      BY <3>1
    <3>2. CASE t # s
      <4>1. t \in Created /\ t \in Sids
        BY <1>1, <1>2, <3>2
      <4>2. StateFact(t)
        BY <4>1 DEF SessionInv, Stored
      <4> QED BY <1>1, <3>2, <4>1, <4>2
    <3> QED BY <3>1, <3>2
  <2> QED BY <2>1, <2>2 DEF Stored
<1>5. Unborn'
  <2>1. ASSUME NEW t \in Sids, t \notin Created'
        PROVE  committed'[t] = NoContent /\ \A a \in Attempts : pipe'[t][a] = NoPipe
    <3>1. t # s
      BY <2>1
    <3>2. t \notin Created
      BY <1>1, <2>1, <3>1
    <3> QED BY <3>1, <3>2 DEF OthersSame, SessionInv, Unborn
  <2> QED BY <2>1 DEF Unborn
<1> QED BY <1>3, <1>4, <1>5

\* A session that does not receive, or receives into a fresh window, has no mismatch.
LEMMA MismatchKept ==
    ASSUME SessionInv, NEW s \in Sids, OthersSame(s),
           \/ sess'[s].state # "receiving"
           \/ \A i \in Chunks : win'[s][sess'[s].cur].content[i] = NoVersion,
           \A r \in Requests : req[r].pc = "chunkVerify" => req'[r] = req[r]
    PROVE  MismatchIsCaught'
<1>1. ASSUME NEW t \in Created', NEW i \in Chunks, Differs(t, i)'
      PROVE  \E r \in Requests : /\ req'[r].pc = "chunkVerify" /\ req'[r].sid = t
                                 /\ req'[r].idx = i /\ Mismatch(r)'
  <2>1. t # s /\ t \in Sids
    BY <1>1 DEF Created, Differs
  <2>2. sess'[t] = sess[t] /\ win'[t] = win[t]
    BY <2>1 DEF OthersSame
  <2>3. t \in Created /\ Differs(t, i)
    BY <1>1, <2>1, <2>2 DEF Created, Differs
  <2>4. PICK r \in Requests : /\ req[r].pc = "chunkVerify" /\ req[r].sid = t
                              /\ req[r].idx = i /\ Mismatch(r)
    BY <2>3 DEF SessionInv, MismatchIsCaught
  <2>5. req'[r] = req[r]
    BY <2>4
  <2> QED BY <2>4, <2>5 DEF Mismatch
<1> QED BY <1>1 DEF MismatchIsCaught

LEMMA RegistryKept ==
    ASSUME SessionInv, SessionsGoOn, SessType', UNCHANGED <<byID, byKey, mgr, known>>
    PROVE  RegistryType' /\ KeyLeadsToSession' /\ Created \subseteq Created'
<1>1. Created \subseteq Created'
  BY DEF SessionsGoOn, Created
<1>2. RegistryType'
  BY <1>1 DEF SessionInv, Types, RegistryType
<1>3. ASSUME NEW u \in Users, byKey[u] # 0
      PROVE  byKey[u] \in byID /\ sess'[byKey[u]].user = u
  <2>1. byKey[u] \in byID /\ sess[byKey[u]].user = u /\ byKey[u] \in Created
    BY <1>3 DEF SessionInv, KeyLeadsToSession, Types, RegistryType
  <2> QED BY <2>1 DEF SessionsGoOn
<1>4. KeyLeadsToSession'
  BY <1>3 DEF KeyLeadsToSession
<1> QED BY <1>1, <1>2, <1>4

LEMMA FactsKept ==
    ASSUME SessionInv, SessionsGoOn, \A r \in Requests : req'[r] = req[r] \/ Fact(r)'
    PROVE  RequestFacts'
<1>1. ASSUME NEW r \in Requests PROVE Fact(r)'
  <2>1. Fact(r) /\ SessType
    BY DEF SessionInv, RequestFacts, Types
  <2> QED BY <2>1, FactKept
<1> QED BY <1>1 DEF RequestFacts

\* The other sessions go on in any case.
LEMMA OthersGoOn ==
    ASSUME NEW s \in Sids, OthersSame(s),
           s \in Created =>
              /\ sess'[s].state # "none" /\ sess'[s].user = sess[s].user
              /\ committed[s] # NoContent => committed'[s] # NoContent
              /\ \A a \in Attempts : pipe[s][a].pc # "none" =>
                    /\ pipe'[s][a].pc # "none"
                    /\ a = sess'[s].cur /\ pipe'[s][a].pc \in Busy =>
                          /\ a = sess[s].cur /\ pipe[s][a].pc \in Busy
                          /\ sess'[s].prev = sess[s].prev
    PROVE  SessionsGoOn
<1>1. \A t \in Created : t \in Sids /\ sess[t].state # "none"
  BY DEF Created
<1> QED BY <1>1 DEF SessionsGoOn, OthersSame

-----------------------------------------------------------------------------
(* The file is stored                                                       *)

LEMMA StoredContent ==
    ASSUME SessionInv, NEW s \in Sids, NEW a \in Attempts, PipeStored(s, a)
    PROVE  \E c \in Contents : c # NoContent /\ committed' = [committed EXCEPT ![s] = c]
<1>0. 0 \in Chunks /\ Total \in Nat /\ 0 < Total
  BY SessionAssumption
<1>1. NoContent[0] = NoVersion
  BY <1>0 DEF NoContent
<1>2. CASE win[s][a].frontier = Total /\ committed' = [committed EXCEPT ![s] = win[s][a].content]
  <2>1. win[s][a].content \in Contents /\ win[s][a].content[0] # NoVersion
    BY <1>0, <1>2, PipeTyped DEF Streams, Filled, Contents
  <2> QED BY <1>1, <1>2, <2>1
<1>3. CASE sess[s].hash # NoHash /\ committed' = [committed EXCEPT ![s] = FileOf[sess[s].hash]]
  <2>1. sess[s].hash \in Clients
    BY <1>3 DEF SessionInv, Types, SessType, Sessions
  <2>2. FileOf[sess[s].hash] \in [Chunks -> Versions] /\ NoVersion \notin Versions
    BY <2>1, SessionAssumption
  <2>3. FileOf[sess[s].hash][0] # NoVersion /\ FileOf[sess[s].hash] \in Contents
    BY <1>0, <2>2 DEF Contents
  <2> QED BY <1>1, <1>3, <2>3
<1> QED BY <1>2, <1>3 DEF PipeStored

\* A pipeline that is at work belongs to a session, and to its current attempt.
LEMMA BusyIsCurrent ==
    ASSUME SessionInv, NEW s \in Sids, NEW a \in Attempts, pipe[s][a].pc \in Busy
    PROVE  s \in Created /\ a = sess[s].cur /\ AttemptFact(s) /\ StateFact(s) /\ OutFact(s)
<1>1. s \in Created
  <2>1. NoPipe.pc \notin Busy
    BY DEF NoPipe, Busy
  <2> QED BY <2>1 DEF SessionInv, Unborn
<1> QED BY <1>1 DEF SessionInv, AttemptsInOrder, AttemptFact, Stored

LEMMA PipeStoredStep ==
    ASSUME SessionInv, NEW s \in Sids, NEW a \in Attempts, PipeStored(s, a)
    PROVE  SessionInv' /\ HistoryKept
<1> DEFINE p == [pipe[s][a] EXCEPT !.pc = "opClose", !.out = "ok"]
<1>0. Types /\ PipeType /\ SessType /\ InOrder
  BY DEF SessionInv, Types
<1>1. pipe[s][a] \in Pipes /\ pipe[s][a].pc = "put"
  BY PipeTyped DEF PipeStored
<1>2. s \in Created /\ a = sess[s].cur /\ AttemptFact(s) /\ StateFact(s) /\ OutFact(s)
  <2>1. pipe[s][a].pc \in Busy
    BY <1>1 DEF Busy
  <2> QED BY <2>1, BusyIsCurrent
<1>3. p \in Pipes /\ p.pc = "opClose" /\ p.out = "ok"
  BY <1>1 DEF Pipes, Busy
<1>4. PipeMoved(s, a, p)
  BY PipeTyped DEF PipeStored, PipeMoved
<1> HIDE DEF p
<1>5. /\ PipeType' /\ pipe'[s][a] = p
      /\ \A u \in Sids, b \in Attempts : u # s \/ b # a => pipe'[u][b] = pipe[u][b]
  BY <1>0, <1>3, <1>4, OnePipe
<1>6. PICK c \in Contents : c # NoContent /\ committed' = [committed EXCEPT ![s] = c]
  BY StoredContent
<1>7. committed' \in [Sids -> Contents] /\ committed'[s] # NoContent
  BY <1>0, <1>6 DEF Types
<1>8. sess' = sess /\ win' = win /\ req' = req /\ gc' = gc /\ UNCHANGED <<byID, byKey, mgr, known>>
  BY DEF PipeStored
<1>9. Created' = Created
  BY <1>8 DEF Created
<1>10. SessType' /\ WinType' /\ ReqType' /\ GCType'
  BY <1>0, <1>8, <1>9 DEF Types, SessType, WinType, Filled, ReqType, GCType
<1>11. OthersSame(s)
  <2>1. ASSUME NEW t \in Sids \ {s} PROVE pipe'[t] = pipe[t]
    BY <1>0, <1>4 DEF PipeType, PipeMoved
  <2>2. \A t \in Sids \ {s} : committed'[t] = committed[t]
    BY <1>0, <1>6 DEF Types
  <2> QED BY <1>8, <2>1, <2>2 DEF OthersSame
<1>12. OutFact(s)'
  <2>1. ASSUME NEW b \in Attempts
        PROVE  /\ pipe'[s][b].out # "none" => pipe'[s][b].pc \in Busy \ {"put"}
               /\ pipe'[s][b].out = "ok" => committed'[s] # NoContent
    BY <1>2, <1>3, <1>5, <1>7 DEF OutFact, Busy
  <2> QED BY <2>1 DEF OutFact
<1>13. AttemptFact(s)'
  <2>1. \A b \in Attempts : /\ pipe'[s][b].pc = "none" <=> pipe[s][b].pc = "none"
                            /\ pipe'[s][b].pc \in Busy <=> pipe[s][b].pc \in Busy
    BY <1>1, <1>3, <1>5 DEF Busy
  <2> QED BY <1>2, <1>8, <2>1 DEF AttemptFact
<1>14. StateFact(s)'
  <2>1. sess[s].state # "failed_retriable"
    BY <1>1, <1>2 DEF AttemptFact, Busy
  <2>2. pipe'[s][sess[s].cur].out = "ok"
    BY <1>2, <1>3, <1>5
  <2> QED BY <1>7, <1>8, <2>1, <2>2 DEF StateFact
<1>15. Unborn' /\ AttemptsInOrder' /\ Stored'
  BY <1>2, <1>9, <1>11, <1>12, <1>13, <1>14, OthersKept
<1>16. SessionsGoOn
  <2>1. \A b \in Attempts : /\ pipe'[s][b].pc = "none" <=> pipe[s][b].pc = "none"
                            /\ pipe'[s][b].pc \in Busy <=> pipe[s][b].pc \in Busy
    BY <1>1, <1>3, <1>5 DEF Busy
  <2>2. sess[s].state # "none"
    BY <1>2 DEF Created
  <2> QED BY <1>7, <1>8, <1>11, <2>1, <2>2, OthersGoOn
<1>17. RegistryType' /\ KeyLeadsToSession'
  BY <1>8, <1>10, <1>16, RegistryKept
<1>18. RequestFacts'
  BY <1>8, <1>16, FactsKept
<1>19. MismatchIsCaught'
  <2>1. \A t, i : Differs(t, i)' <=> Differs(t, i)
    BY <1>8 DEF Differs
  <2> QED BY <1>8, <1>9, <2>1 DEF SessionInv, MismatchIsCaught, Mismatch
<1>20. InOrder'
  BY <1>0, <1>9 DEF InOrder
<1>21. HistoryKept
  BY <1>8 DEF HistoryKept
<1> QED BY <1>5, <1>7, <1>10, <1>15, <1>17, <1>18, <1>19, <1>20, <1>21 DEF SessionInv, Types

-----------------------------------------------------------------------------
(* The verdict                                                              *)

LEMMA PipeVerdictStep ==
    ASSUME SessionInv, NEW s \in Sids, NEW a \in Attempts, PipeVerdict(s, a)
    PROVE  SessionInv' /\ HistoryKept
<1> DEFINE p == [pipe[s][a] EXCEPT !.pc = "signal", !.crcs = NoContent, !.out = "none"]
<1>0. Types /\ PipeType /\ SessType /\ WinType /\ InOrder /\ sess[s] \in Sessions
  BY DEF SessionInv, Types, SessType
<1>1. pipe[s][a] \in Pipes /\ pipe[s][a].pc = "verdict" /\ pipe[s][a].crcs \in Contents
  BY PipeTyped DEF PipeVerdict, Pipes
<1>2. s \in Created /\ a = sess[s].cur /\ AttemptFact(s) /\ StateFact(s) /\ OutFact(s)
  <2>1. pipe[s][a].pc \in Busy
    BY <1>1 DEF Busy
  <2> QED BY <2>1, BusyIsCurrent
<1>3. p \in Pipes /\ p.pc = "signal" /\ p.out = "none"
  BY <1>1, NoContentType DEF Pipes
<1>4. PipeMoved(s, a, p)
  BY ZenonT(30), PipeTyped DEF PipeVerdict, PipeMoved
<1> HIDE DEF p
<1>5. /\ PipeType' /\ pipe'[s][a] = p
      /\ \A u \in Sids, b \in Attempts : u # s \/ b # a => pipe'[u][b] = pipe[u][b]
  BY <1>0, <1>3, <1>4, OnePipe
<1>6. PICK v \in Verdicts(sess[s], pipe[s][a].out) :
          sess' = [sess EXCEPT
             ![s].active = TRUE,
             ![s].win = IF @ = a THEN Nil ELSE @,
             ![s].prev = pipe[s][a].crcs,
             ![s].state = v,
             ![s].attempt = NextAttempt(sess[s], v)]
  BY DEF PipeVerdict
<1>7. /\ v \in States \ {"receiving"}
      /\ v = "completed" => committed[s] # NoContent \/ sess[s].state = "completed"
      /\ v = "failed_retriable" => sess[s].state = "receiving" /\ pipe[s][a].out # "ok"
  <2>1. sess[s].state \in States
    BY <1>0, <1>2 DEF Sessions, Created
  <2>2. sess[s].state # "failed_retriable"
    BY <1>1, <1>2 DEF AttemptFact, Busy
  <2>3. pipe[s][a].out = "ok" => committed[s] # NoContent
    BY <1>2 DEF OutFact
  <2>4. CASE pipe[s][a].out = "ok"
    BY <2>3, <2>4 DEF Verdicts, States
  <2>5. CASE pipe[s][a].out # "ok" /\ sess[s].state # "receiving"
    BY <2>1, <2>2, <2>5 DEF Verdicts
  <2>6. CASE pipe[s][a].out # "ok" /\ sess[s].state = "receiving"
    BY <2>6 DEF Verdicts, States
  <2> QED BY <2>4, <2>5, <2>6
<1>8. /\ sess[s].attempt \in 0 .. MaxAttempt + 1 /\ MaxAttempt \in Nat
      /\ v = "failed_retriable" => sess[s].attempt = a
  BY <1>0, <1>2, <1>7, SessionAssumption DEF Sessions, AttemptFact
<1> DEFINE n == NextAttempt(sess[s], v)
           w == IF sess[s].win = a THEN Nil ELSE sess[s].win
           x == [sess[s] EXCEPT !.active = TRUE, !.win = w, !.prev = pipe[s][a].crcs,
                                !.state = v, !.attempt = n]
<1>9. n \in 0 .. MaxAttempt + 1 /\ (v = "failed_retriable" => n = a + 1)
  BY <1>8 DEF NextAttempt
<1>10. w = Nil
  BY <1>2 DEF AttemptFact
<1>11. sess' = [sess EXCEPT ![s] = x]
  BY <1>0, <1>6 DEF SessType
<1> HIDE DEF n, w
<1>12. /\ x \in Sessions /\ x.state = v /\ x.win = w /\ x.attempt = n
       /\ x.cur = sess[s].cur /\ x.user = sess[s].user
  BY <1>0, <1>1, <1>7, <1>9, <1>10 DEF Sessions
<1> HIDE DEF x
<1>13. SessType' /\ sess'[s] = x /\ \A t \in Sids \ {s} : sess'[t] = sess[t]
  BY <1>0, <1>11, <1>12 DEF SessType
<1>14. Created' = Created
  BY <1>2, <1>7, <1>12, <1>13 DEF Created, States
<1>15. WinType' /\ win'[s][a] = Forgotten
  <2>1. Forgotten \in Streams /\ Filled(Forgotten) /\ WindowMoved(s, a, Forgotten)
    BY FreshType DEF PipeVerdict, WindowMoved
  <2> QED BY <1>0, <2>1, OneWindow
<1>16. /\ req' = req /\ gc' = gc /\ committed' = committed /\ UNCHANGED <<byID, byKey, mgr, known>>
       /\ win' = [win EXCEPT ![s][a] = Forgotten]
  BY DEF PipeVerdict
<1>17. ReqType' /\ GCType' /\ committed' \in [Sids -> Contents]
  BY <1>0, <1>14, <1>16 DEF Types, ReqType, GCType
<1>18. OthersSame(s)
  <2>1. \A t \in Sids \ {s} : pipe'[t] = pipe[t]
    BY <1>0, <1>4 DEF PipeType, PipeMoved
  <2>2. \A t \in Sids \ {s} : win'[t] = win[t]
    BY <1>0, <1>16 DEF WinType
  <2> QED BY <1>13, <1>16, <2>1, <2>2 DEF OthersSame
<1>19. OutFact(s)'
  <2>1. ASSUME NEW b \in Attempts
        PROVE  /\ pipe'[s][b].out # "none" => pipe'[s][b].pc \in Busy \ {"put"}
               /\ pipe'[s][b].out = "ok" => committed'[s] # NoContent
    BY <1>2, <1>3, <1>5, <1>16 DEF OutFact
  <2> QED BY <2>1 DEF OutFact
<1>20. \A b \in Attempts : /\ pipe'[s][b].pc = "none" <=> pipe[s][b].pc = "none"
                           /\ pipe'[s][b].pc \notin Busy
  BY <1>1, <1>2, <1>3, <1>5 DEF AttemptFact, Busy
<1>21. AttemptFact(s)'
  BY <1>2, <1>7, <1>9, <1>10, <1>12, <1>13, <1>20 DEF AttemptFact
<1>22. StateFact(s)'
  <2>1. sess[s].state = "completed" => committed[s] # NoContent
    BY <1>2 DEF StateFact
  <2>2. sess[s].state = "receiving" /\ pipe[s][a].out # "ok" => committed[s] = NoContent
    BY <1>2 DEF StateFact
  <2> QED BY <1>7, <1>12, <1>13, <1>16, <2>1, <2>2 DEF StateFact
<1>23. Unborn' /\ AttemptsInOrder' /\ Stored'
  BY <1>2, <1>14, <1>18, <1>19, <1>21, <1>22, OthersKept
<1>24. SessionsGoOn
  <2>1. sess'[s].state # "none"
    BY <1>7, <1>12, <1>13 DEF States
  <2>2. \A b \in Attempts : pipe[s][b].pc # "none" => pipe'[s][b].pc # "none"
    BY <1>20
  <2> QED BY <1>12, <1>13, <1>16, <1>18, <1>20, <2>1, <2>2, OthersGoOn
<1>25. RegistryType' /\ KeyLeadsToSession'
  BY <1>13, <1>16, <1>24, RegistryKept
<1>26. RequestFacts'
  BY <1>16, <1>24, FactsKept
<1>27. MismatchIsCaught'
  <2>1. sess'[s].state # "receiving"
    BY <1>7, <1>12, <1>13
  <2> QED BY <1>16, <1>18, <2>1, MismatchKept
<1>28. InOrder'
  BY <1>0, <1>14 DEF InOrder
<1>29. HistoryKept
  <2>1. /\ sess'[s].state = v /\ v # "receiving"
        /\ sess[s].state \in Finished => v \in Finished
    BY <1>7, <1>12, <1>13 DEF Finished, States
  <2> QED BY <1>18, <2>1 DEF HistoryKept, OthersSame
<1> QED BY <1>5, <1>13, <1>15, <1>17, <1>23, <1>25, <1>26, <1>27, <1>28, <1>29 DEF SessionInv, Types

-----------------------------------------------------------------------------
(* A re-fill                                                                *)

\* What a started attempt makes of its window and its pipeline.
LEMMA SpawnFacts ==
    ASSUME SessionInv, NEW s \in Sids, NEW a \in Attempts, Spawn(s, a)
    PROVE  /\ WinType' /\ PipeType'
           /\ win'[s][a] = Fresh /\ pipe'[s][a].pc = "put" /\ pipe'[s][a].out = "none"
           /\ \A b \in Attempts \ {a} : pipe'[s][b] = pipe[s][b]
           /\ \A t \in Sids \ {s} : win'[t] = win[t] /\ pipe'[t] = pipe[t]
<1> DEFINE p == [NoPipe EXCEPT !.pc = "put"]
<1>0. /\ WinType /\ PipeType /\ win \in [Sids -> [Attempts -> Streams]]
      /\ pipe \in [Sids -> [Attempts -> Pipes]]
  BY DEF SessionInv, Types, WinType, PipeType
<1>1. p \in Pipes /\ p.pc = "put" /\ p.out = "none"
  BY NoContentType DEF NoPipe, Pipes, Busy
<1>2. PipeMoved(s, a, p) /\ pipe' = [pipe EXCEPT ![s][a] = p]
  BY DEF Spawn, PipeMoved
<1> HIDE DEF p
<1>3. /\ PipeType' /\ pipe'[s][a] = p
      /\ \A u \in Sids, b \in Attempts : u # s \/ b # a => pipe'[u][b] = pipe[u][b]
  BY <1>0, <1>1, <1>2, OnePipe
<1>4. /\ Fresh \in Streams /\ Filled(Fresh) /\ WindowMoved(s, a, Fresh)
      /\ win' = [win EXCEPT ![s][a] = Fresh]
  BY FreshType DEF Spawn, WindowMoved
<1>5. WinType' /\ win'[s][a] = Fresh
  BY <1>0, <1>4, OneWindow
<1>6. \A t \in Sids \ {s} : win'[t] = win[t] /\ pipe'[t] = pipe[t]
  BY <1>0, <1>2, <1>4
<1> QED BY <1>1, <1>3, <1>5, <1>6

LEMMA ChunkRestartsStep ==
    ASSUME SessionInv, NEW r \in Requests, ChunkRestarts(r),
           NEW s, s = req[r].sid, NEW a, a = sess[s].attempt
    PROVE  SessionInv' /\ HistoryKept
<1> DEFINE x == [sess[s] EXCEPT !.state = "receiving", !.win = a, !.cur = a]
           q == [req[r] EXCEPT !.pc = "chunkAdmit", !.att = a, !.prev = PrevOf(r)]
<1>0. /\ Types /\ SessType /\ ReqType /\ GCType /\ Fact(r) /\ req[r] \in Reqs /\ InOrder
      /\ req[r].pc = "chunkState" /\ sess[s].state = "failed_retriable" /\ a \in Attempts
  BY DEF SessionInv, Types, RequestFacts, ChunkRestarts, AtChunk, Refillable, ReqType
<1>1. /\ s \in Created /\ s \in Sids /\ sess[s] \in Sessions /\ req[r].client \in Clients
      /\ sess[s].cur \in Attempts
  BY <1>0 DEF Fact, Created, SessType, SessionInv, AttemptsInOrder, AttemptFact
<1>2. AttemptFact(s) /\ StateFact(s) /\ OutFact(s)
  BY <1>1 DEF SessionInv, AttemptsInOrder, Stored
<1>3. /\ a = sess[s].cur + 1 /\ committed[s] = NoContent
      /\ \A b \in Attempts : pipe[s][b].pc \notin Busy
  BY <1>0, <1>2 DEF AttemptFact, StateFact
<1>4. sess' = [sess EXCEPT ![s] = x] /\ Spawn(s, a)
  BY <1>0 DEF ChunkRestarts, Started
<1>5. /\ x \in Sessions /\ x.state = "receiving" /\ x.win = a /\ x.cur = a /\ x.attempt = a
      /\ x.user = sess[s].user /\ x.prev = sess[s].prev
  BY ZenonT(30), <1>0, <1>1 DEF Sessions, States
<1>6. PrevOf(r) \in Versions \cup {NoVersion}
  BY <1>1 DEF PrevOf, Sessions, Contents
<1>7. /\ q \in Reqs /\ q.pc = "chunkAdmit" /\ q.att = a /\ q.prev = PrevOf(r)
      /\ q.sid = s /\ q.client = req[r].client /\ q.idx = req[r].idx
  BY ZenonT(30), <1>0, <1>6 DEF Reqs, ReqPcs
<1>8. req' = [req EXCEPT ![r] = q]
  BY <1>0 DEF ReqType, ChunkRestarts
<1> HIDE DEF x, q
<1>9. ReqType' /\ OtherRequests(r) /\ req'[r] = q
  BY <1>0, <1>7, <1>8 DEF ReqType, OtherRequests
<1>10. SessType' /\ sess'[s] = x /\ \A t \in Sids \ {s} : sess'[t] = sess[t]
  BY <1>0, <1>1, <1>4, <1>5 DEF SessType
<1>11. Created' = Created
  BY <1>0, <1>1, <1>5, <1>10 DEF Created
<1>12. /\ WinType' /\ PipeType'
       /\ win'[s][a] = Fresh /\ pipe'[s][a].pc = "put" /\ pipe'[s][a].out = "none"
       /\ \A b \in Attempts \ {a} : pipe'[s][b] = pipe[s][b]
       /\ \A t \in Sids \ {s} : win'[t] = win[t] /\ pipe'[t] = pipe[t]
  BY SMTT(20), <1>0, <1>1, <1>4, SpawnFacts
<1>13. committed' = committed /\ gc' = gc /\ UNCHANGED <<byID, byKey, mgr, known>>
  BY DEF ChunkRestarts
<1>14. GCType' /\ committed' \in [Sids -> Contents]
  BY <1>0, <1>11, <1>13 DEF Types, GCType
<1>15. OthersSame(s)
  BY <1>10, <1>12, <1>13 DEF OthersSame
<1>16. OutFact(s)'
  <2>1. ASSUME NEW b \in Attempts
        PROVE  /\ pipe'[s][b].out # "none" => pipe'[s][b].pc \in Busy \ {"put"}
               /\ pipe'[s][b].out = "ok" => committed'[s] # NoContent
    BY <1>2, <1>12, <1>13 DEF OutFact
  <2> QED BY <2>1 DEF OutFact
<1>17. \A b \in Attempts : /\ pipe'[s][b].pc = "none" <=> b > a
                           /\ pipe'[s][b].pc \in Busy <=> b = a
  <2>1. ASSUME NEW b \in Attempts, b # a
        PROVE  (pipe'[s][b].pc = "none" <=> b > a) /\ pipe'[s][b].pc \notin Busy
    <3>1. pipe[s][b].pc = "none" <=> b > sess[s].cur
      BY <1>2 DEF AttemptFact
    <3>2. b > sess[s].cur <=> b > a
      BY SMTT(20), <1>0, <1>1, <1>3, <2>1, SessionAssumption
    <3> QED BY <1>3, <1>12, <2>1, <3>1, <3>2
  <2>2. ~(a > a)
    BY <1>0, SessionAssumption
  <2> QED BY <1>12, <2>1, <2>2 DEF Busy
<1>18. AttemptFact(s)'
  BY SMTT(20), <1>0, <1>2, <1>5, <1>10, <1>17 DEF AttemptFact
<1>19. StateFact(s)'
  BY <1>3, <1>5, <1>10, <1>13 DEF StateFact
<1>20. Unborn' /\ AttemptsInOrder' /\ Stored'
  BY <1>1, <1>11, <1>15, <1>16, <1>18, <1>19, OthersKept
<1>21. SessionsGoOn
  <2>1. ASSUME NEW b \in Attempts, pipe[s][b].pc # "none"
        PROVE  pipe'[s][b].pc # "none" /\ pipe'[s][b].pc \notin Busy
    <3>1. b <= sess[s].cur
      BY <1>1, <1>2, <2>1, SessionAssumption DEF AttemptFact
    <3>2. b # a /\ ~(b > a)
      BY <1>1, <1>3, <3>1, SessionAssumption
    <3> QED BY <1>17, <3>2
  <2> QED BY <1>1, <1>5, <1>10, <1>13, <1>15, <2>1, OthersGoOn
<1>22. RegistryType' /\ KeyLeadsToSession'
  BY <1>10, <1>13, <1>21, RegistryKept
<1>23. Fact(r)'
  <2>1. PrevOf(r)' = PrevOf(r)
    BY <1>5, <1>7, <1>9, <1>10 DEF PrevOf
  <2> QED BY <1>0, <1>1, <1>7, <1>9, <1>11, <1>12, <2>1 DEF Fact
<1>24. RequestFacts'
  <2>1. \A u \in Requests : req'[u] = req[u] \/ Fact(u)'
    BY <1>9, <1>23 DEF OtherRequests
  <2> QED BY <1>21, <2>1, FactsKept
<1>25. MismatchIsCaught'
  <2>1. win'[s][sess'[s].cur] = Fresh
    BY <1>5, <1>10, <1>12
  <2>3. \A i \in Chunks : Fresh.content[i] = NoVersion
    BY DEF Fresh
  <2>2. \A u \in Requests : req[u].pc = "chunkVerify" => req'[u] = req[u]
    BY <1>0, <1>9 DEF OtherRequests
  <2> QED BY <1>1, <1>15, <2>1, <2>2, <2>3, MismatchKept
<1>26. InOrder'
  BY <1>0, <1>11 DEF InOrder
<1>27. HistoryKept
  BY <1>0, <1>3, <1>15 DEF HistoryKept, Finished, OthersSame
<1> QED BY <1>9, <1>10, <1>12, <1>14, <1>20, <1>22, <1>24, <1>25, <1>26, <1>27 DEF SessionInv, Types

-----------------------------------------------------------------------------
(* A new session                                                            *)

\* The next id is not in use, and all before it are.
LEMMA NextSidFresh ==
    ASSUME InOrder, Cardinality(Created) < MaxSession
    PROVE  /\ Cardinality(Created) + 1 \in Sids \ Created
           /\ \A t \in Sids : t < Cardinality(Created) + 1 => t \in Created
<1> DEFINE n == Cardinality(Created)
<1>0. MaxSession \in Nat /\ \A t \in Sids : t \in Nat /\ 1 <= t
  BY SessionAssumption
<1>1. IsFiniteSet(Created) /\ n \in Nat
  <2>1. Created \subseteq Sids
    BY DEF Created
  <2>2. IsFiniteSet(Sids)
    BY <1>0, FS_Interval
  <2>3. IsFiniteSet(Created)
    BY <2>1, <2>2, FS_Subset
  <2> QED BY <2>3, FS_CardinalityType
<1>2. ASSUME n + 1 \in Created PROVE FALSE
  <2>1. 1 .. n + 1 \in SUBSET Created
    BY <1>2 DEF InOrder
  <2>2. Cardinality(1 .. n + 1) <= n
    BY <2>1, <1>1, FS_Subset
  <2>3. Cardinality(1 .. n + 1) = n + 1
    <3>1. Cardinality(1 .. n + 1) = IF 1 > n + 1 THEN 0 ELSE (n + 1) - 1 + 1
      BY <1>1, FS_Interval
    <3> HIDE DEF n
    <3> QED BY <1>1, <3>1
  <2> HIDE DEF n
  <2> QED BY <1>1, <2>2, <2>3
<1>3. ASSUME NEW u \in Sids, u <= n, u \notin Created PROVE FALSE
  <2>1. ASSUME NEW v \in Created PROVE v \in 1 .. u - 1
    <3>1. v \in Nat /\ u \in Nat /\ 1 <= v /\ 1 <= u
      BY <1>0, <2>1 DEF Created
    <3>2. v < u
      <4>1. SUFFICES ASSUME u <= v PROVE FALSE
        BY <3>1
      <4>2. u \in 1 .. v
        BY <3>1, <4>1
      <4> QED BY <1>3, <2>1, <4>2 DEF InOrder
    <3> QED BY <3>1, <3>2
  <2>2. u \in Nat /\ 1 <= u
    BY <1>0
  <2>3. IsFiniteSet(1 .. u - 1) /\ Cardinality(1 .. u - 1) = u - 1
    <3>1. Cardinality(1 .. u - 1) = IF 1 > u - 1 THEN 0 ELSE (u - 1) - 1 + 1
      BY <2>2, FS_Interval
    <3> QED BY <2>2, <3>1, FS_Interval
  <2>4. n <= u - 1
    BY <2>1, <2>3, FS_Subset
  <2> HIDE DEF n
  <2> QED BY <1>1, <1>3, <2>2, <2>4
<1>4. n < MaxSession
  OBVIOUS
<1> HIDE DEF n
<1>5. n + 1 \in Sids /\ \A u \in Sids : u < n + 1 => u <= n
  BY <1>0, <1>1, <1>4
<1>6. n + 1 \in Sids \ Created /\ \A u \in Sids : u < n + 1 => u \in Created
  BY <1>2, <1>3, <1>5
<1> QED BY <1>6 DEF n

LEMMA InitCreateStep ==
    ASSUME SessionInv, NEW r \in Requests, InitCreate(r), NEW s, s = Cardinality(Created) + 1
    PROVE  SessionInv' /\ HistoryKept
<1> DEFINE c == req[r].client
           x == Started([NoSession EXCEPT !.user = UserOf[c], !.hash = HashOf[c], !.active = TRUE])
           q == [req[r] EXCEPT !.pc = "initRegister", !.sid = s]
<1>0. /\ Types /\ SessType /\ ReqType /\ GCType /\ Fact(r) /\ req[r] \in Reqs /\ InOrder
      /\ req[r].pc = "initCreate" /\ Cardinality(Created) < MaxSession
      /\ committed \in [Sids -> Contents]
  BY DEF SessionInv, Types, RequestFacts, InitCreate, ReqType
<1>1. s \in Sids /\ s \notin Created /\ \A t \in Sids : t < s => t \in Created
  BY <1>0, NextSidFresh
<1>2. /\ committed[s] = NoContent /\ \A a \in Attempts : pipe[s][a] = NoPipe
      /\ 0 \in Attempts /\ \A a \in Attempts : a > 0 <=> a # 0
  BY <1>1, SessionAssumption DEF SessionInv, Unborn
<1>3. c \in Clients /\ UserOf[c] \in Users /\ HashOf[c] \in Clients \cup {NoHash}
  BY <1>0, SessionAssumption DEF Fact
<1>4. /\ sess' = [sess EXCEPT ![s] = x] /\ Spawn(s, 0)
      /\ req' = [req EXCEPT ![r].pc = "initRegister", ![r].sid = s]
  BY DEF InitCreate
<1>5. /\ x \in Sessions /\ x.state = "receiving" /\ x.win = 0 /\ x.cur = 0 /\ x.attempt = 0
      /\ x.user = UserOf[c]
  <2>1. 0 \in 0 .. MaxAttempt + 1
    BY SessionAssumption
  <2> QED BY <1>2, <1>3, <2>1, NoContentType DEF Started, NoSession, Sessions, States
<1>6. q \in Reqs /\ q.pc = "initRegister" /\ q.sid = s /\ q.client = c
  BY <1>0, <1>1 DEF Reqs, ReqPcs
<1>7. req' = [req EXCEPT ![r] = q]
  BY <1>0, <1>4 DEF ReqType
<1> HIDE DEF x, q
<1>8. ReqType' /\ OtherRequests(r) /\ req'[r] = q
  BY <1>0, <1>6, <1>7 DEF ReqType, OtherRequests
<1>9. SessType' /\ sess'[s] = x /\ \A t \in Sids \ {s} : sess'[t] = sess[t]
  BY <1>0, <1>1, <1>4, <1>5 DEF SessType
<1>10. Created' = Created \cup {s}
  BY <1>1, <1>5, <1>9 DEF Created
<1>11. /\ WinType' /\ PipeType'
       /\ win'[s][0] = Fresh /\ pipe'[s][0].pc = "put" /\ pipe'[s][0].out = "none"
       /\ \A b \in Attempts \ {0} : pipe'[s][b] = pipe[s][b]
       /\ \A t \in Sids \ {s} : win'[t] = win[t] /\ pipe'[t] = pipe[t]
  BY <1>1, <1>2, <1>4, SpawnFacts
<1>12. committed' = committed /\ gc' = gc /\ UNCHANGED <<byID, byKey, mgr, known>>
  BY DEF InitCreate
<1>13. GCType' /\ committed' \in [Sids -> Contents]
  BY <1>0, <1>10, <1>12 DEF GCType
<1>14. OthersSame(s)
  BY <1>9, <1>11, <1>12 DEF OthersSame
<1>15. \A b \in Attempts : b # 0 => pipe'[s][b].pc = "none" /\ pipe'[s][b].out = "none"
  BY <1>2, <1>11 DEF NoPipe
<1>16. OutFact(s)'
  <2>1. ASSUME NEW b \in Attempts PROVE pipe'[s][b].out = "none"
    BY <1>11, <1>15
  <2> QED BY <2>1 DEF OutFact
<1>17. AttemptFact(s)'
  <2>1. \A b \in Attempts : /\ pipe'[s][b].pc = "none" <=> b > 0
                            /\ pipe'[s][b].pc \in Busy => b = 0
    BY <1>2, <1>11, <1>15 DEF Busy
  <2>2. pipe'[s][0].pc \in Busy
    BY <1>11 DEF Busy
  <2> QED BY <1>2, <1>3, <1>5, <1>9, <2>1, <2>2 DEF AttemptFact
<1>18. StateFact(s)'
  BY <1>2, <1>5, <1>9, <1>12 DEF StateFact
<1>19. Unborn' /\ AttemptsInOrder' /\ Stored'
  BY <1>1, <1>10, <1>14, <1>16, <1>17, <1>18, OthersKept
<1>20. SessionsGoOn
  BY <1>1, <1>14, OthersGoOn
<1>21. RegistryType' /\ KeyLeadsToSession'
  BY <1>9, <1>12, <1>20, RegistryKept
<1>22. Fact(r)'
  BY <1>3, <1>5, <1>6, <1>8, <1>9, <1>10 DEF Fact
<1>23. RequestFacts'
  <2>1. \A u \in Requests : req'[u] = req[u] \/ Fact(u)'
    BY <1>8, <1>22 DEF OtherRequests
  <2> QED BY <1>20, <2>1, FactsKept
<1>24. MismatchIsCaught'
  <2>1. win'[s][sess'[s].cur] = Fresh
    BY <1>5, <1>9, <1>11
  <2>2. \A u \in Requests : req[u].pc = "chunkVerify" => req'[u] = req[u]
    BY <1>0, <1>8 DEF OtherRequests
  <2>3. \A i \in Chunks : Fresh.content[i] = NoVersion
    BY DEF Fresh
  <2> QED BY <1>1, <1>14, <2>1, <2>2, <2>3, MismatchKept
<1>25. InOrder'
  <2>1. s \in Nat /\ MaxSession \in Nat
    BY <1>1, SessionAssumption
  <2>2. ASSUME NEW k \in 1 .. s PROVE k \in Created'
    <3>1. k \in Sids
      BY <1>1, <2>1
    <3>2. k = s \/ k < s
      BY <2>1
    <3> QED BY <1>1, <1>10, <3>1, <3>2
  <2> QED BY <1>0, <1>10, <2>2 DEF InOrder
<1>26. HistoryKept
  <2>1. sess[s].state \notin Finished
    BY <1>1 DEF Created, Finished
  <2>2. \A a \in Attempts : pipe[s][a].pc \notin Busy
    BY <1>2 DEF NoPipe, Busy
  <2> QED BY <1>14, <2>1, <2>2 DEF HistoryKept, OthersSame
<1> QED BY <1>8, <1>9, <1>11, <1>13, <1>19, <1>21, <1>23, <1>24, <1>25, <1>26 DEF SessionInv, Types

-----------------------------------------------------------------------------
(* The invariant                                                            *)

LEMMA SessionInit == Init => SessionInv
<1> SUFFICES ASSUME Init PROVE SessionInv
  OBVIOUS
<1>1. /\ NoSession \in Sessions /\ NoSession.state = "none"
  <2>1. 0 \in 0 .. MaxAttempt + 1
    BY SessionAssumption
  <2> QED BY <2>1, NoContentType DEF NoSession, Sessions
<1>2. Created = {}
  BY <1>1 DEF Init, Created
<1>3. RegistryType
  BY <1>2 DEF Init, RegistryType
<1>4. SessType
  BY <1>1 DEF Init, SessType
<1>5. WinType
  BY FreshType DEF Init, WinType
<1>6. PipeType
  BY NoContentType DEF Init, PipeType
<1>7. ReqType
  BY IdleType DEF Init, ReqType
<1>8. GCType
  BY DEF Init, GCType, IdleGC
<1>9. committed \in [Sids -> Contents]
  BY NoContentType DEF Init
<1>10. Unborn
  BY DEF Init, Unborn
<1>11. Stored
  BY <1>2 DEF Init, Stored, OutFact, NoPipe
<1>12. RequestFacts
  BY DEF Init, RequestFacts, Fact, IdleReq
<1>13. KeyLeadsToSession
  BY DEF Init, KeyLeadsToSession
<1>14. InOrder /\ AttemptsInOrder /\ MismatchIsCaught
  BY <1>2 DEF InOrder, AttemptsInOrder, MismatchIsCaught
<1> QED BY <1>3, <1>4, <1>5, <1>6, <1>7, <1>8, <1>9, <1>10, <1>11, <1>12, <1>13, <1>14
        DEF SessionInv, Types

LEMMA InitRequestStep ==
    ASSUME SessionInv, NEW r \in Requests, InitRequest(r)
    PROVE  SessionInv' /\ HistoryKept
<1>1. CASE InitTerminate(r)
  BY <1>1, RequestTerminates DEF InitTerminate
<1>2. CASE InitFails(r)
  BY <1>2, AnswerStep DEF InitFails
<1>3. CASE InitStart(r) \/ InitCheck(r) \/ InitResume(r) \/ InitRemove(r) \/ InitRegister(r)
  BY <1>3, InitStartStep, InitCheckStep, InitResumeStep, InitRemoveStep, InitRegisterStep
<1>4. CASE InitCreate(r)
  BY <1>4, InitCreateStep
<1> QED BY <1>1, <1>2, <1>3, <1>4 DEF InitRequest

LEMMA ChunkRequestStep ==
    ASSUME SessionInv, NEW r \in Requests, ChunkRequest(r)
    PROVE  SessionInv' /\ HistoryKept
<1>1. CASE ChunkGet(r)
  <2>1. PICK c \in Clients, i \in Indexes : Get(r, "Chunk", "chunkState", c, i)
    BY <1>1 DEF ChunkGet
  <2> QED BY <2>1, GetStep
<1>2. CASE ChunkReceiving(r) \/ ChunkPanics(r) \/ ChunkChanged(r)
  BY <1>2, ChunkReceivingStep, ChunkPanicsStep, ChunkChangedStep
<1>3. CASE ChunkRestarts(r)
  BY <1>3, ChunkRestartsStep
<1>4. CASE ChunkAnswered(r)
  BY <1>4, AnswerStep DEF ChunkAnswered, AtChunk
<1>5. CASE ChunkError(r)
  BY <1>5, AnswerStep DEF ChunkError
<1>6. CASE ChunkAccepted(r)
  BY <1>6, AnswerStep DEF ChunkAccepted
<1>7. CASE ChunkClosed(r)
  BY <1>7, GotoStep DEF ChunkClosed
<1>8. CASE WriteRefused(r)
  BY <1>8, GotoStep DEF WriteRefused
<1>9. CASE WriteBounced(r)
  BY <1>9, GotoStep DEF WriteBounced
<1>10. CASE WriteAbsorbed(r) \/ WriteAdmitted(r) \/ WritePublished(r) \/ WriteDropped(r)
  BY <1>10, WriteAbsorbedStep, WriteAdmittedStep, WritePublishedStep, WriteDroppedStep
<1> QED BY <1>1, <1>2, <1>3, <1>4, <1>5, <1>6, <1>7, <1>8, <1>9, <1>10 DEF ChunkRequest, ChunkWrite

LEMMA EndRequestStep ==
    ASSUME SessionInv, NEW r \in Requests, CompleteRequest(r) \/ Status(r) \/ AbortRequest(r)
    PROVE  SessionInv' /\ HistoryKept
<1>1. CASE CompleteGet(r)
  <2>1. PICK c \in Clients : Get(r, "Complete", "completeLoop", c, 0)
    BY <1>1 DEF CompleteGet
  <2> QED BY <2>1, GetStep
<1>2. CASE CompleteLoop(r) \/ CompleteWoken(r) \/ CompleteFinal(r) \/ Status(r)
  BY <1>2, CompleteLoopStep, CompleteWokenStep, CompleteFinalStep, StatusStep
<1>3. CASE CompleteCanceled(r)
  BY <1>3, AnswerStep DEF CompleteCanceled
<1>4. CASE CompleteRemove(r)
  BY <1>4, AnswerRemoves DEF CompleteRemove
<1>5. CASE AbortGet(r)
  <2>1. PICK c \in Clients : Get(r, "Abort", "abortTerminate", c, 0)
    BY <1>5 DEF AbortGet
  <2> QED BY <2>1, GetStep
<1>6. CASE AbortTerminate(r)
  BY <1>6, RequestTerminates DEF AbortTerminate
<1>7. CASE AbortRemove(r)
  BY <1>7, AnswerRemoves DEF AbortRemove
<1> QED BY <1>1, <1>2, <1>3, <1>4, <1>5, <1>6, <1>7 DEF CompleteRequest, AbortRequest

LEMMA PipeStepStep ==
    ASSUME SessionInv, NEW s \in Sids, NEW a \in Attempts, PipeStep(s, a)
    PROVE  SessionInv' /\ HistoryKept
<1>1. CASE PipeRead(s, a) \/ PipeStored(s, a) \/ PipeFailed(s, a) \/ PipeRefused(s, a)
  BY <1>1, PipeReadStep, PipeStoredStep, PipeFailedStep, PipeRefusedStep
<1>2. CASE PipeOpClose(s, a)
  BY <1>2, PipeCloses DEF PipeOpClose
<1>3. CASE PipeClose(s, a)
  BY <1>3, PipeCloses DEF PipeClose
<1>4. CASE PipeHarvest(s, a) \/ PipeVerdict(s, a) \/ PipeSignal(s, a)
  BY <1>4, PipeHarvestStep, PipeVerdictStep, PipeSignalStep
<1> QED BY <1>1, <1>2, <1>3, <1>4 DEF PipeStep, PipeEnd

LEMMA SessionNext == SessionInv /\ [Next]_vars => SessionInv' /\ HistoryKept
<1> SUFFICES ASSUME SessionInv, [Next]_vars PROVE SessionInv' /\ HistoryKept
  OBVIOUS
<1>1. ASSUME NEW r \in Requests, InitRequest(r) \/ ChunkRequest(r) \/ CompleteRequest(r)
                                 \/ Status(r) \/ AbortRequest(r)
      PROVE  SessionInv' /\ HistoryKept
  BY <1>1, InitRequestStep, ChunkRequestStep, EndRequestStep
<1>2. ASSUME NEW s \in Sids, NEW a \in Attempts, PipeStep(s, a) PROVE SessionInv' /\ HistoryKept
  BY <1>2, PipeStepStep
<1>3. ASSUME NEW s \in Sids, Age(s) PROVE SessionInv' /\ HistoryKept
  BY <1>3, AgeStep
<1>4. CASE GCStep
  BY <1>4, GCGatherStep, GCTerminateStep, GCRemoveStep DEF GCStep
<1>5. CASE UNCHANGED vars
  <2>1. /\ UNCHANGED <<byID, byKey, mgr, pipe, committed, known>>
        /\ sess' = sess /\ win' = win /\ req' = req /\ gc' = gc
    BY <1>5 DEF vars
  <2>2. SessType' /\ Calm /\ WinType' /\ ContentSame
    BY <2>1, SameSessions, SameWindows DEF SessionInv, Types
  <2>3. ReqType' /\ GCType' /\ WitnessKept
    BY <2>1 DEF SessionInv, Types, ReqType, GCType, Created, WitnessKept
  <2> QED BY <2>1, <2>2, <2>3, EndStep
<1> QED BY <1>1, <1>2, <1>3, <1>4, <1>5 DEF Next

LEMMA SessionInvariant == Spec => []SessionInv
<1>1. SessionInv /\ [Next]_vars => SessionInv'
  BY SessionNext
<1> QED BY SessionInit, <1>1, PTL DEF Spec

-----------------------------------------------------------------------------
(* The theorems                                                             *)

LEMMA TypesGiveTypeOK == SessionInv => TypeOK
<1> SUFFICES ASSUME SessionInv PROVE TypeOK
  OBVIOUS
<1>1. RegistryType /\ SessType /\ WinType /\ PipeType /\ ReqType /\ GCType /\ committed \in [Sids -> Contents]
  BY DEF SessionInv, Types
<1>2. \A r \in Requests : /\ req[r].sid \in Sids \cup {0}
                          /\ req[r].att \in Attempts \cup {Nil}
                          /\ req[r].idx \in Indexes \cup {0}
  BY <1>1 DEF ReqType, Reqs
<1>3. gc.expired \subseteq Sids /\ gc.sid \in Sids \cup {0}
  BY <1>1 DEF GCType, Created
<1> QED BY <1>1, <1>2, <1>3 DEF TypeOK, RegistryType, SessType, WinType, PipeType, Sessions, Pipes

\* The registry of the manager only names sessions that were created, and every
\* window, pipeline, request and the expiry loop stay within their states.
THEOREM SessionsAreTyped == Spec => []TypeOK
BY SessionInvariant, TypesGiveTypeOK, PTL

LEMMA AttemptsMatchStates == SessionInv => StateMatchesAttempt
<1> SUFFICES ASSUME SessionInv, NEW s \in Created
             PROVE  /\ sess[s].state = "receiving" =>
                          /\ sess[s].win = sess[s].cur /\ sess[s].cur \in Attempts
                          /\ pipe[s][sess[s].cur].pc \in Busy
                    /\ sess[s].state = "failed_retriable" =>
                          \A a \in Attempts : (a >= sess[s].attempt) <=> (pipe[s][a].pc = "none")
  BY DEF StateMatchesAttempt
<1>1. AttemptFact(s)
  BY DEF SessionInv, AttemptsInOrder
<1>2. ASSUME sess[s].state = "failed_retriable", NEW a \in Attempts
      PROVE  (a >= sess[s].attempt) <=> (pipe[s][a].pc = "none")
  <2>1. sess[s].attempt = sess[s].cur + 1 /\ sess[s].cur \in Attempts
    BY <1>1, <1>2 DEF AttemptFact
  <2>2. a >= sess[s].attempt <=> a > sess[s].cur
    BY <2>1, SessionAssumption
  <2> QED BY <1>1, <2>2 DEF AttemptFact
<1> QED BY <1>1, <1>2 DEF AttemptFact

\* Chunk may write to s.win and Complete may wait for s.done when the state is
\* receiving: the window is the one of the current attempt, whose pipeline will
\* still record a verdict; and the ring file name of the next attempt is new.
THEOREM ReceivingHasPipeline == Spec => []StateMatchesAttempt
BY SessionInvariant, AttemptsMatchStates, PTL

\* A re-filled chunk that differs from the previous attempt's is never in the
\* window of a receiving session without the Chunk request that will fail it.
THEOREM RefillIsChecked == Spec => []MismatchIsCaught
<1>1. SessionInv => MismatchIsCaught
  BY DEF SessionInv
<1> QED BY <1>1, SessionInvariant, PTL

\* A session reaches completed, and Complete removes it as served, only after
\* Put stored the file, and a stored file is not offered for a re-fill.
THEOREM CompletedMeansStored == Spec => []CompletedIsStored
<1>1. SessionInv => CompletedIsStored
  BY DEF SessionInv, Stored, StateFact, RequestFacts, Fact, CompletedIsStored
<1> QED BY <1>1, SessionInvariant, PTL

\* Whatever Init, Complete, Abort and the expiry loop remove in between, a key in
\* m.byKey leads to a session in m.byID that belongs to the key's user.
THEOREM KeysAreHonest == Spec => []KeyLeadsToSession
<1>1. SessionInv => KeyLeadsToSession
  BY DEF SessionInv
<1> QED BY <1>1, SessionInvariant, PTL

\* startAttemptLocked never starts a pipeline beside one that is still at work.
THEOREM PipelinesDoNotOverlap == Spec => OnePipeline
<1>1. SessionInv /\ [Next]_vars =>
        [\A s \in Sids : sess[s].state # "receiving" /\ sess'[s].state = "receiving"
             => \A a \in Attempts : pipe[s][a].pc \notin Busy]_vars
  BY SessionNext DEF HistoryKept
<1> QED BY <1>1, SessionInvariant, PTL DEF Spec, OnePipeline

\* No verdict, abort, re-fill or expiry revives a session that completed, failed
\* for good or was aborted.
THEOREM FinishedIsFinal == Spec => FinishedStaysFinished
<1>1. SessionInv /\ [Next]_vars =>
        [\A s \in Sids : sess[s].state \in {"completed", "failed_permanent", "aborted"}
             => sess'[s].state \in {"completed", "failed_permanent", "aborted"}]_vars
  BY SessionNext DEF HistoryKept, Finished
<1> QED BY <1>1, SessionInvariant, PTL DEF Spec, FinishedStaysFinished
=============================================================================
