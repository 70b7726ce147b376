----------------------------- MODULE Downloader -----------------------------
(***************************************************************************)
(* Downloading a range in parts: internal/net/request.go (workers that      *)
(* request the parts, the reader that puts them in order) and               *)
(* pkg/buffer/pipe.go (the buffer between the worker of a part and the      *)
(* reader).                                                                 *)
(*                                                                         *)
(* A critical section of d.mu is one action, but the send on the channel    *)
(* that ends sendChunkTask: it may block, and d.mu is held.  Requests are   *)
(* external: a server may refuse or break one, also behind the last byte of *)
(* the body, and a body has no more bytes than were asked for.  That goes   *)
(* for the request of no bytes too, which follows an error behind the last  *)
(* byte: a server that answers it with the whole file is left out.  One     *)
(* goroutine reads and then closes.  Ranges of one part, which go without   *)
(* buffers, and the delays before a retry are left out.                     *)
(*                                                                         *)
(* A definition whose name starts with Faulty is the one after it with a    *)
(* mistake in it; nothing uses it.  It shows that a property would notice.  *)
(***************************************************************************)
EXTENDS Integers, Sequences, FiniteSets

CONSTANTS PartSize,
          Length,       \* of the range
          Concurrency,  \* d.cfg.Concurrency
          MaxRetries,   \* PartBodyMaxRetries
          Limits,       \* initial values of ConcurrencyLimit.Limit
          Reader

ASSUME DownloaderAssumption ==
    /\ PartSize \in Nat \ {0} /\ Length \in Nat /\ Length > PartSize
    /\ Concurrency \in Nat \ {0} /\ MaxRetries \in Nat
    /\ Limits \subseteq Nat
    /\ Reader \notin Nat

Parts   == (Length + PartSize - 1) \div PartSize
Workers == 1 .. Concurrency
Blocks  == 1 .. Parts
Free    == 0
NoBuf   == 0
Last    == 0 - 1   \* key of the buffer that was popped last

\* The short part comes first, so that a video starts early, but not shorter than half.
FaultyPartLength(p, len, id) ==
    LET first == len % p
        half  == p \div 2
    IN  IF id = 0 /\ first > 0 THEN IF first > half THEN first ELSE half ELSE p
PartLength(p, len, id) ==
    LET first == len % p
        half  == p \div 2
    IN  CASE id = 0 /\ first > 0                -> IF first > half THEN first ELSE half
          [] id = 1 /\ first > 0 /\ first < half -> p + first - half
          [] OTHER                              -> p

VARIABLES
    canceled,     \* d.ctx is done
    closed,       \* interrupt has run: maxPos is 0, chunkCh closed, bufMap nil
    pos,          \* first byte that was not handed out, from the start of the range
    nextChunk,
    concurrency,  \* workers that may still start; negative: no more of them
    chunkCh,      \* queued chunks
    bufMap,       \* part, or Last -> its buffer
    buf,          \* PipeBuffers
    worker,       \* downloadPart goroutines
    reader,       \* multiReadCloser
    limit,        \* ConcurrencyLimit.Limit: free, and what it was before the download
    mu,           \* who holds d.mu to send, Free when nobody does
    sending       \* the chunk he sends

vars == <<canceled, closed, pos, nextChunk, concurrency, chunkCh, bufMap, buf, worker, reader,
          limit, mu, sending>>
lock == <<mu, sending>>
plan == <<pos, nextChunk, concurrency>>

\* data: the bytes written since Reset, each named by its place in the range; off: offR;
\* pend, sig: readPending, and whether readSignal holds a token.
NoBuffer == [open |-> FALSE, limit |-> 0, off |-> 0, data |-> <<>>, pend |-> FALSE, sig |-> FALSE]
NoChunk  == [id |-> 0, start |-> 0, size |-> 0, buf |-> NoBuf, new |-> FALSE]
\* got: bytes of the chunk that the current request has brought.
NoWorker == [pc |-> "none", ch |-> NoChunk, retry |-> 0, got |-> 0]

Init ==
    /\ canceled = FALSE
    /\ closed = FALSE
    /\ pos = 0 /\ nextChunk = 0 /\ concurrency = Concurrency
    /\ chunkCh = <<>>
    /\ bufMap = [i \in Last .. Parts |-> NoBuf]
    /\ buf = [b \in Blocks |-> NoBuffer]
    /\ worker = [w \in Workers |-> NoWorker]
    /\ reader = [pc |-> "start", pos |-> 0, cur |-> NoBuf, out |-> 0]
    /\ \E n \in Limits : limit = [free |-> n, before |-> n]
    /\ mu = Free /\ sending = NoChunk

-----------------------------------------------------------------------------
(* sendChunkTask                                                            *)

\* Acquire and Release.
Slots(n) == [limit EXCEPT !.free = @ + n]

Spawned == {w \in Workers : worker[w].pc # "none"}
Taken   == {b \in Blocks : buf[b].limit > 0}

\* There is a part to hand out, and a slot for the worker it would start.
MaySend(new) ==
    /\ ~closed /\ pos < Length
    /\ new => concurrency > 0 /\ (nextChunk > 0 => limit.free > 0)
\* The buffer of the next part: one the reader has left, or a new block.
NextBuf == IF bufMap[nextChunk] # NoBuf THEN bufMap[nextChunk] ELSE Cardinality(Taken) + 1

NextPart(new) == [id |-> nextChunk, start |-> pos, buf |-> NextBuf, new |-> new,
                  size |-> PartLength(PartSize, Length, nextChunk)]

\* PipeBuffer.Reset.
Reset(x, size) == [x EXCEPT !.open = TRUE, !.limit = size, !.off = 0, !.data = <<>>]

\* Up to the send, which a still has to do with d.mu held; ws: the workers without the
\* new one, which takes a slot of its own unless it is the first.
Prepare(a, new, ws) ==
    LET c == NextPart(new)
        w == Cardinality(Spawned) + 1
    IN  /\ MaySend(new)
        /\ mu' = a /\ sending' = c
        /\ buf' = [buf EXCEPT ![c.buf] = Reset(@, c.size)]
        /\ bufMap' = [bufMap EXCEPT ![nextChunk] = c.buf]
        /\ worker' = IF new THEN [ws EXCEPT ![w].pc = "take"] ELSE ws
        /\ concurrency' = IF new THEN concurrency - 1 ELSE concurrency
        /\ limit' = IF new /\ nextChunk > 0 THEN Slots(0 - 1) ELSE limit
        /\ pos' = pos + c.size
        /\ nextChunk' = nextChunk + 1

\* It returns before that: nothing to do, no slot, or no block.
Declines(new) == ~MaySend(new) \/ bufMap[nextChunk] = NoBuf

\* The context is done: the slot is given back, although the worker that has started
\* gives it back as well.
Unsent == /\ canceled
          /\ limit' = IF sending.new /\ sending.id > 0 THEN Slots(1) ELSE limit
          /\ UNCHANGED chunkCh
Sent   == /\ Len(chunkCh) < Concurrency
          /\ chunkCh' = Append(chunkCh, sending)
          /\ UNCHANGED limit
Unlock == mu' = Free /\ sending' = NoChunk

\* The buffer that was popped last stays open.
FaultyCloseAll ==
    /\ closed' = TRUE
    /\ buf' = [b \in Blocks |-> IF \E i \in 0 .. Parts : bufMap[i] = b
                                  THEN [buf[b] EXCEPT !.open = FALSE, !.pend = FALSE] ELSE buf[b]]
    /\ bufMap' = [i \in Last .. Parts |-> NoBuf]
    /\ concurrency' = IF concurrency > 0 THEN 0 - concurrency ELSE concurrency
\* interrupt, after it has canceled the context.
CloseAll ==
    /\ closed' = TRUE
    /\ buf' = [b \in Blocks |-> IF \E i \in Last .. Parts : bufMap[i] = b
                                  THEN [buf[b] EXCEPT !.open = FALSE, !.pend = FALSE] ELSE buf[b]]
    /\ bufMap' = [i \in Last .. Parts |-> NoBuf]
    /\ concurrency' = IF concurrency > 0 THEN 0 - concurrency ELSE concurrency

-----------------------------------------------------------------------------
(* Workers                                                                  *)

Now(w, pc) == [worker EXCEPT ![w].pc = pc]

\* The slot goes with the worker.
FaultyEnd(w) ==
    worker' = [worker EXCEPT ![w] = [NoWorker EXCEPT !.pc = "ended"]] /\ UNCHANGED limit
\* The worker returns and gives its slot back.
End(w) == worker' = [worker EXCEPT ![w] = [NoWorker EXCEPT !.pc = "ended"]] /\ limit' = Slots(1)

\* An attempt has failed after n bytes: the rest is requested again, as often as it may.
\* (Faulty: requested again from the start, or once too often.)
FaultyRetry(w, n) ==
    LET x == worker[w]
    IN  IF canceled \/ x.retry = MaxRetries
          THEN End(w) /\ canceled' = TRUE
          ELSE /\ worker' = [worker EXCEPT ![w] = [x EXCEPT !.pc = "request", !.got = 0,
                                                             !.retry = @ + 1]]
               /\ UNCHANGED <<limit, canceled>>
FaultyRetryAgain(w, n) ==
    LET x == worker[w]
    IN  IF canceled \/ x.retry > MaxRetries
          THEN End(w) /\ canceled' = TRUE
          ELSE /\ worker' = [worker EXCEPT ![w] = [x EXCEPT !.pc = "request", !.got = 0,
                                !.retry = @ + 1, !.ch.start = @ + n, !.ch.size = @ - n]]
               /\ UNCHANGED <<limit, canceled>>
Retry(w, n) ==
    LET x == worker[w]
    IN  IF canceled \/ x.retry = MaxRetries
          THEN End(w) /\ canceled' = TRUE
          ELSE /\ worker' = [worker EXCEPT ![w] = [x EXCEPT !.pc = "request", !.got = 0,
                                !.retry = @ + 1, !.ch.start = @ + n, !.ch.size = @ - n]]
               /\ UNCHANGED <<limit, canceled>>

\* The worker looks at the queue only.
FaultyTake(w) ==
    /\ worker[w].pc = "take" /\ chunkCh # <<>>
    /\ worker' = [worker EXCEPT ![w] = [NoWorker EXCEPT !.pc = "request", !.ch = Head(chunkCh)]]
    /\ chunkCh' = Tail(chunkCh)
    /\ UNCHANGED <<canceled, closed, plan, bufMap, buf, reader, limit, lock>>
Take(w) ==
    /\ worker[w].pc = "take"
    /\ \/ /\ canceled \/ (closed /\ chunkCh = <<>>)
          /\ End(w)
          /\ UNCHANGED chunkCh
       \/ /\ chunkCh # <<>>
          /\ worker' = [worker EXCEPT ![w] = [NoWorker EXCEPT !.pc = "request", !.ch = Head(chunkCh)]]
          /\ chunkCh' = Tail(chunkCh)
          /\ UNCHANGED limit
    /\ UNCHANGED <<canceled, closed, plan, bufMap, buf, reader, lock>>

\* The server answers; the first worker also finds the size it was told.
Answered(w) ==
    /\ worker[w].pc = "request"
    /\ worker' = Now(w, "grow")
    /\ UNCHANGED <<canceled, closed, plan, chunkCh, bufMap, buf, reader, limit, lock>>

\* A part after the first is refused: the server is overloaded.
Refused(w) ==
    /\ worker[w].pc = "request" /\ worker[w].ch.id > 0
    /\ worker' = Now(w, "overload")
    /\ UNCHANGED <<canceled, closed, plan, chunkCh, bufMap, buf, reader, limit, lock>>

\* The first part is refused for the moment.
RefusedFirst(w) ==
    /\ worker[w].pc = "request" /\ worker[w].ch.id = 0
    /\ Retry(w, 0)
    /\ UNCHANGED <<closed, plan, chunkCh, bufMap, buf, reader, lock>>

\* No status, a bad range, or another size: the download is given up.
Broken(w) ==
    /\ worker[w].pc = "request"
    /\ End(w)
    /\ canceled' = TRUE
    /\ UNCHANGED <<closed, plan, chunkCh, bufMap, buf, reader, lock>>

\* The worker of a chunk that was sent with a new worker gives up, and so does the
\* one that finds that more workers were to start; any other one tries again.
Overload(w) ==
    LET fewer == worker[w].ch.new \/ concurrency > 0
        c == IF concurrency > 0 THEN 0 - concurrency ELSE concurrency
    IN  /\ worker[w].pc = "overload" /\ mu = Free
        /\ concurrency' = IF fewer THEN c - 1 ELSE c
        /\ worker' = Now(w, IF fewer THEN "requeue" ELSE "request")
        /\ UNCHANGED <<canceled, closed, pos, nextChunk, chunkCh, bufMap, buf, reader, limit,
                       lock>>

\* The chunk is dropped with its worker.
FaultyRequeue(w) ==
    /\ worker[w].pc = "requeue"
    /\ End(w)
    /\ UNCHANGED <<canceled, closed, plan, chunkCh, bufMap, buf, reader, lock>>

\* The chunk goes back into the queue, and the worker ends.  d.mu is not held: when
\* interrupt has closed the channel, the send may panic, which ends the process.
Requeue(w) ==
    /\ worker[w].pc = "requeue"
    /\ \/ canceled /\ End(w) /\ UNCHANGED chunkCh
       \/ /\ ~closed /\ Len(chunkCh) < Concurrency
          /\ chunkCh' = Append(chunkCh, worker[w].ch)
          /\ End(w)
       \/ closed /\ worker' = Now(w, "panic") /\ UNCHANGED <<chunkCh, limit>>
    /\ UNCHANGED <<canceled, closed, plan, bufMap, buf, reader, lock>>

\* The request got through: one more worker may start.
Grow(w) ==
    /\ worker[w].pc = "grow" /\ mu = Free
    /\ \/ Prepare(w, TRUE, Now(w, "send"))
       \/ /\ Declines(TRUE)
          /\ worker' = Now(w, "copy")
          /\ UNCHANGED <<plan, bufMap, buf, limit, lock>>
    /\ UNCHANGED <<canceled, closed, chunkCh, reader>>

GrowSend(w) ==
    /\ worker[w].pc = "send"
    /\ Sent \/ Unsent
    /\ Unlock
    /\ worker' = Now(w, "copy")
    /\ UNCHANGED <<canceled, closed, plan, bufMap, buf, reader>>

\* PipeBuffer.Write of k bytes the body brought; a reader that waits is woken.
FaultyWrite(x, from, k) == [x EXCEPT !.data = @ \o [i \in 1 .. k |-> from + i - 1]]
Write(x, from, k) == [x EXCEPT !.data = @ \o [i \in 1 .. k |-> from + i - 1],
                               !.sig = @ \/ x.pend, !.pend = FALSE]
Writable(b) == buf[b].open /\ Len(buf[b].data) < buf[b].limit

Copy(w) ==
    LET x == worker[w]
        b == x.ch.buf
    IN  /\ x.pc = "copy" /\ ~canceled /\ Writable(b)
        /\ \E k \in 1 .. (x.ch.size - x.got) :
              /\ Len(buf[b].data) + k <= buf[b].limit
              /\ buf' = [buf EXCEPT ![b] = Write(@, x.ch.start + x.got, k)]
              /\ worker' = [worker EXCEPT ![w].got = @ + k]
        /\ UNCHANGED <<canceled, closed, plan, chunkCh, bufMap, reader, limit, lock>>

\* The body ended where it should.
Copied(w) ==
    /\ worker[w].pc = "copy" /\ worker[w].got = worker[w].ch.size
    /\ worker' = [worker EXCEPT ![w] = [NoWorker EXCEPT !.pc = "take"]]
    /\ UNCHANGED <<canceled, closed, plan, chunkCh, bufMap, buf, reader, limit, lock>>

\* It ended too early or broke, maybe behind its last byte: then the chunk that is left is
\* empty, and requested again all the same.  Or the buffer takes no more.
CopyFails(w) ==
    /\ worker[w].pc = "copy"
    /\ Retry(w, worker[w].got)
    /\ UNCHANGED <<closed, plan, chunkCh, bufMap, buf, reader, lock>>

-----------------------------------------------------------------------------
(* The reader                                                               *)

Turn(pc) == [reader EXCEPT !.pc = pc]

\* download: a slot for the first worker.
Acquire ==
    /\ reader.pc = "start"
    /\ IF limit.free = 0 THEN reader' = Turn("refused") /\ UNCHANGED limit
                    ELSE reader' = Turn("open") /\ limit' = Slots(0 - 1)
    /\ UNCHANGED <<canceled, closed, plan, chunkCh, bufMap, buf, worker, lock>>

\* The first part is handed out to the first worker.
Open ==
    /\ reader.pc = "open"
    /\ Prepare(Reader, TRUE, worker)
    /\ reader' = Turn("openSend")
    /\ UNCHANGED <<canceled, closed, chunkCh>>

OpenSend ==
    /\ reader.pc = "openSend"
    /\ \/ Sent /\ reader' = Turn("pop") /\ UNCHANGED canceled
       \/ Unsent /\ reader' = Turn("abandon") /\ UNCHANGED canceled
    /\ Unlock
    /\ UNCHANGED <<closed, plan, bufMap, buf, worker>>

\* No cache or no block for the first part, or it could not be sent: download fails
\* with the slot of the first worker given back.
OpenFails ==
    /\ reader.pc \in {"open", "abandon"}
    /\ canceled' = TRUE
    /\ limit' = Slots(1)
    /\ reader' = Turn("close")
    /\ UNCHANGED <<closed, plan, chunkCh, bufMap, buf, worker, lock>>

\* popBuf, for the part the reader is at.
Pop ==
    /\ reader.pc = "pop" /\ mu = Free
    /\ LET b == bufMap[reader.pos]
       IN  /\ reader' = [reader EXCEPT !.pc = "read", !.cur = b]
           /\ bufMap' = IF b = NoBuf THEN bufMap
                        ELSE [bufMap EXCEPT ![reader.pos] = NoBuf, ![Last] = b]
    /\ UNCHANGED <<canceled, closed, plan, chunkCh, buf, worker, limit, lock>>

\* The reader has had all of its part.
Ended(x) == [x EXCEPT !.pos = @ + 1,
                      !.pc = IF x.pos + 1 = Parts THEN "eof" ELSE "finish"]

\* PipeBuffer.Read: n bytes that are there, or wait for some.  The end of the part comes
\* with its last bytes, when there was room for more, or with the next call.
Read ==
    LET b == reader.cur
        x == buf[b]
        seen == Len(x.data) - x.off
    IN  /\ reader.pc = "read" /\ ~canceled /\ b # NoBuf
        /\ \/ x.off = x.limit /\ reader' = Ended(reader) /\ UNCHANGED buf
           \/ /\ x.off < x.limit /\ x.open /\ seen = 0
              /\ reader' = Turn("wait")
              /\ buf' = [buf EXCEPT ![b].pend = TRUE]
           \/ /\ x.open
              /\ \E n \in 1 .. seen :
                    LET y == [reader EXCEPT !.out = @ + n]
                    IN  /\ buf' = [buf EXCEPT ![b].off = @ + n]
                        /\ reader' = y \/ (x.off + n = x.limit /\ reader' = Ended(y))
        /\ UNCHANGED <<canceled, closed, plan, chunkCh, bufMap, worker, limit, lock>>

\* The token of readSignal.
Wake ==
    /\ reader.pc = "wait" /\ buf[reader.cur].sig
    /\ buf' = [buf EXCEPT ![reader.cur].sig = FALSE]
    /\ reader' = Turn("read")
    /\ UNCHANGED <<canceled, closed, plan, chunkCh, bufMap, worker, limit, lock>>

\* Read returns an error, or the end when there is no buffer.
ReadFails ==
    /\ \/ reader.pc \in {"read", "wait"} /\ canceled /\ reader' = Turn("close")
       \/ reader.pc = "read" /\ reader.cur = NoBuf /\ reader' = Turn("eof")
    /\ UNCHANGED <<canceled, closed, plan, chunkCh, bufMap, buf, worker, limit, lock>>

\* (Faulty: the cases are swapped, or the buffer is left alone.)
FaultyFinish ==
    /\ reader.pc = "finish" /\ mu = Free
    /\ IF bufMap[nextChunk] # NoBuf
         THEN /\ bufMap' = [bufMap EXCEPT ![nextChunk] = reader.cur]
              /\ reader' = Turn("resend") /\ UNCHANGED buf
         ELSE /\ buf' = [buf EXCEPT ![reader.cur].open = FALSE, ![reader.cur].pend = FALSE]
              /\ reader' = Turn("pop") /\ UNCHANGED bufMap
    /\ UNCHANGED <<canceled, closed, plan, chunkCh, worker, limit, lock>>
FaultyFinishNew ==
    /\ reader.pc = "finish" /\ mu = Free
    /\ reader' = Turn("resend")
    /\ UNCHANGED <<canceled, closed, plan, chunkCh, bufMap, buf, worker, limit, lock>>
\* finishBuf: the buffer is handed to the next part, unless that one has a buffer.
Finish ==
    /\ reader.pc = "finish" /\ mu = Free
    /\ IF bufMap[nextChunk] = NoBuf
         THEN /\ bufMap' = [bufMap EXCEPT ![nextChunk] = reader.cur]
              /\ reader' = Turn("resend") /\ UNCHANGED buf
         ELSE /\ buf' = [buf EXCEPT ![reader.cur].open = FALSE, ![reader.cur].pend = FALSE]
              /\ reader' = Turn("pop") /\ UNCHANGED bufMap
    /\ UNCHANGED <<canceled, closed, plan, chunkCh, worker, limit, lock>>

Resend ==
    /\ reader.pc = "resend" /\ mu = Free
    /\ \/ Prepare(Reader, FALSE, worker) /\ reader' = Turn("resendSend")
       \/ /\ Declines(FALSE)
          /\ reader' = Turn("pop")
          /\ UNCHANGED <<plan, bufMap, buf, worker, limit, lock>>
    /\ UNCHANGED <<canceled, closed, chunkCh>>

ResendSend ==
    /\ reader.pc = "resendSend"
    /\ Sent \/ Unsent
    /\ Unlock
    /\ reader' = Turn("pop")
    /\ UNCHANGED <<canceled, closed, plan, bufMap, buf, worker>>

\* The reader has enough, or all, or an error, and closes: the context ends first.
Close ==
    /\ reader.pc \in {"read", "eof", "close"}
    /\ canceled' = TRUE
    /\ reader' = Turn("closing")
    /\ UNCHANGED <<closed, plan, chunkCh, bufMap, buf, worker, limit, lock>>

Interrupt ==
    /\ reader.pc = "closing" /\ mu = Free
    /\ CloseAll
    /\ reader' = Turn("closed")
    /\ UNCHANGED <<canceled, pos, nextChunk, chunkCh, worker, limit, lock>>

\* The client goes away.
Cancel ==
    /\ ~canceled /\ reader.pc # "start"
    /\ canceled' = TRUE
    /\ UNCHANGED <<closed, plan, chunkCh, bufMap, buf, worker, reader, limit, lock>>

-----------------------------------------------------------------------------

WorkerStep(w) ==
    \/ Take(w) \/ Answered(w) \/ Refused(w) \/ RefusedFirst(w) \/ Broken(w) \/ Overload(w)
    \/ Requeue(w) \/ Grow(w) \/ GrowSend(w) \/ Copy(w) \/ Copied(w) \/ CopyFails(w)
ReaderStep ==
    \/ Acquire \/ Open \/ OpenSend \/ OpenFails \/ Pop \/ Wake \/ ReadFails
    \/ Finish \/ Resend \/ ResendSend \/ Interrupt

Next == (\E w \in Workers : WorkerStep(w)) \/ ReaderStep \/ Read \/ Close \/ Cancel

\* A request is answered, refused or fails, a body brings its bytes, ends or breaks, and a
\* goroutine that can go on does.  A server that is asked again and again does not refuse
\* for ever (errInfiniteRetry).  Nobody is obliged to read, to close or to cancel.
Fairness == /\ \A w \in Workers : WF_vars(WorkerStep(w))
            /\ WF_vars(ReaderStep)
            /\ SF_vars(\E w \in Workers : Answered(w))

Spec == Init /\ [][Next]_vars /\ Fairness

-----------------------------------------------------------------------------
(* Properties                                                               *)

Buffers == {NoBuf} \cup Blocks
Chunks  == [id : 0 .. Parts, start : 0 .. Length, size : 0 .. PartSize, buf : Buffers, new : BOOLEAN]

\* Every variable keeps its type; above all, a part is never longer than its block.
TypeOK ==
    /\ canceled \in BOOLEAN /\ closed \in BOOLEAN
    /\ pos \in 0 .. Length /\ nextChunk \in 0 .. Parts
    /\ concurrency \in (0 - 2 * Concurrency) .. Concurrency
    /\ chunkCh \in Seq(Chunks) /\ Len(chunkCh) <= Concurrency
    /\ bufMap \in [Last .. Parts -> Buffers]
    /\ \A b \in Blocks :
          /\ buf[b].open \in BOOLEAN /\ buf[b].pend \in BOOLEAN /\ buf[b].sig \in BOOLEAN
          /\ buf[b].limit \in 0 .. PartSize /\ buf[b].off \in 0 .. Len(buf[b].data)
          /\ Len(buf[b].data) <= buf[b].limit /\ buf[b].data \in Seq(0 .. Length - 1)
    /\ worker \in [Workers -> [pc : {"none", "take", "request", "overload", "requeue", "grow",
                                     "send", "copy", "ended", "panic"},
                                ch : Chunks, retry : 0 .. MaxRetries, got : 0 .. PartSize]]
    /\ reader \in [pc : {"start", "refused", "open", "openSend", "abandon", "pop", "read", "wait",
                          "finish", "resend", "resendSend", "eof", "close", "closing", "closed"},
                    pos : 0 .. Parts, cur : Buffers, out : 0 .. Length]
    /\ limit \in [free : Nat, before : Limits]
    /\ mu \in {Free, Reader} \cup Workers /\ sending \in Chunks

\* The parts follow one another from the first byte to the last, none is longer than its
\* block, and none is empty, whatever the part size and the range (the cases 0 and 1
\* of sendChunkTask; a part longer than its block makes Reset fail).
PartsCover == reader.pc = "start" =>
    \A p \in 1 .. 9 : \A len \in (p + 1) .. (4 * p) :
        LET n == (len + p - 1) \div p
            S[i \in 0 .. n] == IF i = 0 THEN 0 ELSE S[i - 1] + PartLength(p, len, i - 1)
        IN  S[n] = len /\ \A i \in 0 .. n - 1 : PartLength(p, len, i) \in 1 .. p

\* Whatever was refused, broken, retried, put back or done by another worker: the reader
\* gets the bytes of the range in order, from buffers that are used again and again.
InOrder ==
    reader.pc \in {"read", "wait", "finish"} /\ reader.cur # NoBuf =>
        LET x == buf[reader.cur]
        IN  \A i \in 1 .. Len(x.data) : x.data[i] = reader.out - x.off + i - 1

\* The reader is told that the range ended only when it has had all of it: a part that
\* is not in bufMap reads as the end of the file.
NoEarlyEnd == reader.pc = "eof" => reader.out = Length

\* Busy with a chunk.
Busy(w) == worker[w].pc \in {"request", "overload", "requeue", "grow", "send", "copy"}
Hands(i) == Cardinality({w \in Workers : Busy(w) /\ worker[w].ch.id = i})
            + Cardinality({k \in DOMAIN chunkCh : chunkCh[k].id = i})
            + (IF mu # Free /\ sending.id = i THEN 1 ELSE 0)
PartBuf(i)  == IF reader.pc \in {"read", "wait"} /\ i = reader.pos THEN reader.cur ELSE bufMap[i]
Complete(i) == i < reader.pos \/ Len(buf[PartBuf(i)].data) = buf[PartBuf(i)].limit

\* While the download goes on, a part that was handed out and is not complete is in
\* exactly one hand, the queue included: it is neither dropped with a worker that ends
\* nor downloaded twice into one buffer.
OneHand ==
    ~canceled => \A i \in 0 .. nextChunk - 1 :
        IF Complete(i) THEN Hands(i) <= 1 ELSE Hands(i) = 1

\* Chunks that still have bytes to fetch never fill chunkCh for one who sends another of
\* them: neither for sendChunkTask, which sends with d.mu held, nor for a worker that puts
\* its chunk back.  (Empty chunks that were put back may fill it, for both.)  And
\* sendChunkTask takes a new block only for a new worker ("memory usage is at about
\* Concurrency*PartSize"), even when a worker took the buffer the reader left.
RoomForChunks ==
    /\ mu # Free \/ (~canceled /\ \E w \in Workers : worker[w].pc = "requeue" /\ worker[w].ch.size > 0)
          => Cardinality({k \in DOMAIN chunkCh : chunkCh[k].size > 0}) < Concurrency
    /\ Cardinality(Taken) <= Cardinality(Spawned)

\* Slots of the limit, which all downloads share, are never lost: they are free or with a
\* goroutine that gives them back.  None is given back twice before the context ends; then
\* one may be (Unsent).
Live == {w \in Workers : worker[w].pc \notin {"none", "ended"}}
SlotsKept ==
    LET all == limit.free + Cardinality(Live) + (IF reader.pc = "open" THEN 1 ELSE 0)
    IN  all >= limit.before /\ (~canceled => all = limit.before)

\* When interrupt frees the cache, no buffer lets a worker write into it.
ClosedForGood == closed => \A b \in Blocks : ~buf[b].open

\* A reader that waits gets bytes, or an error, while there is a worker left that does not
\* itself wait for room in chunkCh: with the queue full, and nobody to empty it, those that
\* put a chunk back, and the reader with them, wait for the context to end.
ReaderAnswered ==
    (reader.pc = "wait") ~>
        \/ reader.pc # "wait"
        \/ \A w \in Live : worker[w].pc = "requeue" /\ Len(chunkCh) = Concurrency

\* After the close every worker ends (or has written into the closed channel).
WorkersEnd ==
    closed ~> \A w \in Workers : worker[w].pc \in {"none", "ended", "panic"}
=============================================================================
