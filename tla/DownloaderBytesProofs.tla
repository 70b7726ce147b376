------------------------ MODULE DownloaderBytesProofs ------------------------
(***************************************************************************)
(* Proofs about Downloader: where every byte and every chunk is, for every   *)
(* range, part size and number of workers.  The reader gets the bytes of the *)
(* range in order and all of them, and a part is in one hand until it is     *)
(* complete.                                                                 *)
(*                                                                         *)
(* DownloadInv says which part has which buffer; BytesInv says what is in it *)
(* and who is going to bring the rest.                                       *)
(***************************************************************************)
EXTENDS DownloaderProofs

-----------------------------------------------------------------------------
(* The invariant                                                            *)

\* By part: its buffer, the bytes that are in it, and those that are to come.
HeldBy == [i \in 0 .. Parts |-> HeldBuf(i)]
Had    == [i \in 0 .. Parts |-> Len(buf[HeldBy[i]].data)]
ToCome == [i \in 0 .. Parts |-> buf[HeldBy[i]].limit - Len(buf[HeldBy[i]].data)]

\* The part is the reader's or one for later.
Held(i) == reader.pos <= i /\ i < nextChunk

\* A buffer has the first bytes of its part, the reader what it has taken.
Contents ==
    /\ \A i \in 0 .. Parts : Held(i) =>
          /\ buf[HeldBy[i]].limit = StartOf(i + 1) - StartOf(i)
          /\ \A k \in 1 .. Len(buf[HeldBy[i]].data) : buf[HeldBy[i]].data[k] = StartOf(i) + k - 1
          /\ bufMap[i] # NoBuf => buf[HeldBy[i]].off = 0
    /\ reader.pc \in {"read", "wait"} => reader.out = StartOf(reader.pos) + buf[reader.cur].off
    /\ reader.pc \in Detached \cup {"finish", "eof"} => reader.out = StartOf(reader.pos)
    /\ reader.pc = "finish" => \A k \in 1 .. Len(buf[reader.cur].data) :
          buf[reader.cur].data[k] = reader.out - buf[reader.cur].off + k - 1

\* A chunk of which n bytes are in the buffer asks for the rest of its part.
Fits(c, n) ==
    /\ c.id < nextChunk
    /\ c.id >= reader.pos => /\ c.buf = HeldBy[c.id]
                             /\ c.start + n = StartOf(c.id) + Had[c.id]
                             /\ c.size - n = ToCome[c.id]
\* It is to be requested.  An empty one, left by an error behind the last byte of its part,
\* may be of a part that the reader has done with.
Waiting(c) == Fits(c, 0) /\ (c.size > 0 => c.id >= reader.pos)

InQueue == \A k \in 1 .. Len(chunkCh) : Waiting(chunkCh[k])
InSend  == mu # Free => Waiting(sending) /\ sending.size > 0
AtWork  == \A w \in Workers : Busy(w) =>
    /\ Fits(worker[w].ch, worker[w].got)
    /\ worker[w].pc # "copy" => worker[w].got = 0 /\ Waiting(worker[w].ch)
    /\ worker[w].ch.id < reader.pos => worker[w].got = worker[w].ch.size

\* No part is in two hands.
Apart ==
    /\ \A k, l \in 1 .. Len(chunkCh) : chunkCh[k].id = chunkCh[l].id => k = l
    /\ \A v, w \in Workers : Busy(v) /\ Busy(w) /\ worker[v].ch.id = worker[w].ch.id => v = w
    /\ \A w \in Workers, k \in 1 .. Len(chunkCh) : Busy(w) => worker[w].ch.id # chunkCh[k].id
    /\ mu # Free => /\ \A k \in 1 .. Len(chunkCh) : chunkCh[k].id # sending.id
                    /\ \A w \in Workers : Busy(w) => worker[w].ch.id # sending.id

\* A part that is not complete is in a hand.
InHand(i) == \/ \E w \in Workers : Busy(w) /\ worker[w].ch.id = i
             \/ \E k \in 1 .. Len(chunkCh) : chunkCh[k].id = i
             \/ mu # Free /\ sending.id = i
NoneLost == ~canceled => \A i \in 0 .. Parts : Held(i) /\ ToCome[i] > 0 => InHand(i)

ChunksInv == InQueue /\ InSend /\ AtWork /\ Apart /\ NoneLost

BytesInv ==
    /\ reader.out <= Length
    /\ ~closed => Contents /\ ChunksInv

-----------------------------------------------------------------------------
(* Parts and their buffers                                                  *)

LEMMA HeldFacts ==
    ASSUME DownloadInv, ~closed
    PROVE  /\ reader.pos \in 0 .. Parts /\ nextChunk \in 0 .. Parts
           /\ \A i \in 0 .. Parts : HeldBy[i] = HeldBuf(i)
           /\ \A i \in 0 .. Parts : Held(i) => HeldBy[i] \in Taken /\ HeldBy[i] \in Blocks
           /\ \A i, j \in 0 .. Parts : Held(i) /\ Held(j) /\ HeldBy[i] = HeldBy[j] => i = j
<1>0. Types /\ Mapped
  BY DEF DownloadInv
<1>1. reader.pos \in 0 .. Parts /\ nextChunk \in 0 .. Parts
  BY <1>0 DEF Types, ReadRecs
<1>2. \A i \in 0 .. Parts : HeldBy[i] = HeldBuf(i)
  BY DEF HeldBy
<1>3. ASSUME NEW i \in 0 .. Parts, Held(i)
      PROVE  HeldBy[i] \in Taken /\ HeldBy[i] \in Blocks
  <2>1. HeldBuf(i) # NoBuf /\ i \in Last .. Parts
    BY <1>0, <1>3, Bounds DEF Mapped, Held
  <2>2. HeldBuf(i) \in Taken
    <3>1. CASE bufMap[i] # NoBuf
      BY <1>0, <2>1, <3>1 DEF Mapped, HeldBuf
    <3>2. CASE bufMap[i] = NoBuf
      <4>1. i = reader.pos /\ HeldBuf(i) = reader.cur
        BY <2>1, <3>2 DEF HeldBuf
      <4>2. bufMap[Last] = reader.cur
        BY <1>0, <1>3, <3>2, <4>1 DEF Mapped, Popped, Held
      <4> QED BY <1>0, <2>1, <4>1, <4>2, Bounds DEF Mapped
    <3> QED BY <3>1, <3>2
  <2> QED BY <1>2, <2>2 DEF Taken
<1>4. ASSUME NEW i \in 0 .. Parts, NEW j \in 0 .. Parts, Held(i), Held(j), HeldBuf(i) = HeldBuf(j)
      PROVE  i = j
  <2>1. HeldBuf(i) # NoBuf
    BY <1>0, <1>4 DEF Mapped, Held
  <2>2. CASE bufMap[i] # NoBuf /\ bufMap[j] # NoBuf
    BY <1>0, <1>4, <2>2 DEF Mapped, HeldBuf
  <2>3. CASE bufMap[i] = NoBuf
    <3>1. i = reader.pos /\ HeldBuf(i) = reader.cur /\ Popped
      BY <1>4, <2>1, <2>3 DEF HeldBuf, Popped, Held
    <3> QED BY <1>0, <1>4, <2>1, <2>3, <3>1 DEF Mapped, HeldBuf
  <2>4. CASE bufMap[j] = NoBuf
    <3>1. j = reader.pos /\ HeldBuf(j) = reader.cur /\ Popped
      BY <1>4, <2>1, <2>4 DEF HeldBuf, Popped, Held
    <3> QED BY <1>0, <1>4, <2>1, <2>4, <3>1 DEF Mapped, HeldBuf
  <2> QED BY <2>2, <2>3, <2>4
<1> QED BY <1>1, <1>2, <1>3, <1>4

\* The sizes of what a part has.
LEMMA HeldSizes ==
    ASSUME DownloadInv, ~closed, NEW i \in 0 .. Parts, Held(i)
    PROVE  /\ buf[HeldBy[i]] \in BufRecs
           /\ Had[i] = Len(buf[HeldBy[i]].data) /\ Had[i] \in Nat
           /\ ToCome[i] = buf[HeldBy[i]].limit - Had[i] /\ ToCome[i] \in Nat
           /\ buf[HeldBy[i]].off \in Nat /\ buf[HeldBy[i]].off <= Had[i]
           /\ buf[HeldBy[i]].limit \in Nat /\ buf[HeldBy[i]].data \in Seq(0 .. Length - 1)
<1>1. HeldBy[i] \in Blocks
  BY HeldFacts
<1> DEFINE x == buf[HeldBy[i]]
<1>2. x \in BufRecs /\ x.off <= Len(x.data) /\ Len(x.data) <= x.limit
  BY <1>1 DEF DownloadInv, Types, Sizes
<1>3. x.limit \in 0 .. PartSize /\ x.off \in Nat /\ x.data \in Seq(0 .. Length - 1)
  BY <1>2 DEF BufRecs
<1>4. Had[i] = Len(x.data) /\ ToCome[i] = x.limit - Len(x.data)
  BY DEF Had, ToCome
<1> HIDE DEF x
<1>5. Len(x.data) \in Nat /\ x.limit \in Nat
  BY <1>3, Bounds
<1>6. x.limit - Len(x.data) \in Nat
  BY <1>2, <1>5
<1> QED BY <1>2, <1>3, <1>4, <1>5, <1>6 DEF x

LEMMA StartNat == \A i \in 0 .. Parts : StartOf(i) \in Nat /\ StartOf(i) <= Length
BY Tiling, Bounds

LEMMA ChunkFacts ==
    ASSUME Types
    PROVE  /\ sending \in Chunks /\ chunkCh \in Seq(Chunks) /\ Len(chunkCh) \in Nat
           /\ \A k \in 1 .. Len(chunkCh) : chunkCh[k] \in Chunks
           /\ \A w \in Workers : worker[w].ch \in Chunks /\ worker[w].got \in Nat
           /\ \A c \in Chunks : c.id \in 0 .. Parts /\ c.start \in Nat /\ c.size \in Nat
<1>1. sending \in Chunks /\ chunkCh \in Seq(Chunks) /\ Len(chunkCh) \in Nat
  BY DEF Types
<1>2. \A k \in 1 .. Len(chunkCh) : chunkCh[k] \in Chunks
  BY <1>1
<1>3. \A w \in Workers : worker[w].ch \in Chunks /\ worker[w].got \in Nat
  BY Bounds DEF Types, WorkRecs
<1>4. \A c \in Chunks : c.id \in 0 .. Parts /\ c.start \in Nat /\ c.size \in Nat
  BY Bounds DEF Chunks
<1> QED BY <1>1, <1>2, <1>3, <1>4

-----------------------------------------------------------------------------
(* Hands                                                                    *)

\* The parts keep their buffers and what is in them; one may be handed out, and the reader
\* may have done with its part, which is complete.
PartsStay ==
    /\ nextChunk \in 0 .. Parts /\ nextChunk' \in 0 .. Parts /\ nextChunk <= nextChunk'
    /\ reader.pos \in 0 .. Parts /\ reader'.pos \in 0 .. Parts
    /\ \/ reader'.pos = reader.pos
       \/ reader'.pos = reader.pos + 1 /\ ToCome[reader.pos] = 0
    /\ \A i \in 0 .. Parts : reader'.pos <= i /\ i < nextChunk =>
          HeldBy'[i] = HeldBy[i] /\ Had'[i] = Had[i] /\ ToCome'[i] = ToCome[i]

\* Worker w has the same chunk in hand, or none.
Kept(w) ==
    /\ worker'[w].ch = worker[w].ch /\ worker'[w].got = worker[w].got
    /\ Busy(w)' <=> Busy(w)
    /\ worker[w].pc = "copy" => worker'[w].pc = "copy"

\* Chunk c, as it is before the step, is to be requested after it.
WaitsOn(c) ==
    /\ c.id < nextChunk'
    /\ c.id >= reader'.pos => /\ c.buf = HeldBy'[c.id]
                              /\ c.start + 0 = StartOf(c.id) + Had'[c.id]
                              /\ c.size - 0 = ToCome'[c.id]
    /\ c.size > 0 => c.id >= reader'.pos

\* A chunk that is waiting still waits: if it is not empty, its part is not complete.
LEMMA WaitingStays ==
    ASSUME Types, PartsStay, NEW c \in Chunks, Waiting(c)
    PROVE  WaitsOn(c)
<1>1. /\ c.id \in 0 .. Parts /\ c.size \in Nat
      /\ nextChunk \in 0 .. Parts /\ nextChunk' \in 0 .. Parts /\ nextChunk <= nextChunk'
      /\ reader.pos \in 0 .. Parts /\ reader'.pos \in 0 .. Parts
  BY ChunkFacts DEF PartsStay
<1>2. /\ c.id < nextChunk /\ (c.size > 0 => c.id >= reader.pos)
      /\ c.id >= reader.pos => /\ c.buf = HeldBy[c.id] /\ c.start + 0 = StartOf(c.id) + Had[c.id]
                               /\ c.size - 0 = ToCome[c.id]
  BY DEF Waiting, Fits
<1>3. c.size > 0 => c.id >= reader'.pos
  BY <1>1, <1>2 DEF PartsStay
<1> QED BY <1>1, <1>2, <1>3 DEF WaitsOn, PartsStay

\* Somebody who has a chunk in hand keeps it, or nobody had.
LEMMA WorkStays ==
    ASSUME Types, PartsStay, AtWork, NEW w \in Workers, Kept(w), Busy(w)
    PROVE  /\ Fits(worker[w].ch, worker[w].got)'
           /\ worker'[w].pc # "copy" => worker'[w].got = 0 /\ Waiting(worker[w].ch)'
           /\ worker'[w].ch.id < reader'.pos => worker'[w].got = worker'[w].ch.size
<1> DEFINE c == worker[w].ch
           n == worker[w].got
<1>1. /\ c \in Chunks /\ c.id \in 0 .. Parts /\ c.size \in Nat /\ n \in Nat
      /\ worker'[w].ch = c /\ worker'[w].got = n
  BY ChunkFacts DEF Kept
<1>2. /\ c.id < nextChunk
      /\ c.id >= reader.pos => /\ c.buf = HeldBy[c.id] /\ c.start + n = StartOf(c.id) + Had[c.id]
                               /\ c.size - n = ToCome[c.id]
      /\ worker[w].pc # "copy" => n = 0 /\ Waiting(c)
      /\ c.id < reader.pos => n = c.size
  BY DEF AtWork, Fits
<1>3. worker'[w].pc # "copy" => n = 0 /\ Waiting(c)
  BY <1>2 DEF Kept
<1> HIDE DEF c, n
<1>4. /\ reader.pos \in 0 .. Parts /\ reader'.pos \in 0 .. Parts
      /\ nextChunk \in 0 .. Parts /\ nextChunk' \in 0 .. Parts /\ nextChunk <= nextChunk'
      /\ reader'.pos = reader.pos \/ (reader'.pos = reader.pos + 1 /\ ToCome[reader.pos] = 0)
      /\ c.id >= reader'.pos /\ c.id < nextChunk =>
            HeldBy'[c.id] = HeldBy[c.id] /\ Had'[c.id] = Had[c.id] /\ ToCome'[c.id] = ToCome[c.id]
  BY <1>1 DEF PartsStay, Held
<1>5. c.id < reader'.pos => n = c.size
  BY <1>1, <1>2, <1>4
<1>6. /\ c.id < nextChunk'
      /\ c.id >= reader'.pos => /\ c.buf = HeldBy'[c.id] /\ c.start + n = StartOf(c.id) + Had'[c.id]
                                /\ c.size - n = ToCome'[c.id]
  BY <1>1, <1>2, <1>4
<1>7. worker'[w].pc # "copy" => WaitsOn(c)
  BY <1>1, <1>3, WaitingStays
<1>8. Fits(worker[w].ch, worker[w].got)'
  BY <1>1, <1>6 DEF Fits
<1>9. worker'[w].pc # "copy" => Waiting(worker[w].ch)'
  BY <1>1, <1>7 DEF Fits, Waiting, WaitsOn
<1> QED BY <1>1, <1>3, <1>5, <1>8, <1>9

LEMMA QueueStays ==
    ASSUME Types, PartsStay, InQueue
    PROVE  \A k \in 1 .. Len(chunkCh) : WaitsOn(chunkCh[k])
BY ChunkFacts, WaitingStays DEF InQueue

LEMMA SendStays ==
    ASSUME Types, PartsStay, InSend, mu # Free
    PROVE  WaitsOn(sending) /\ sending.size > 0
BY ChunkFacts, WaitingStays DEF InSend

\* Part i is not complete afterwards, so it was not, and was the reader's or later.
LEMMA LostStays ==
    ASSUME PartsStay, nextChunk' = nextChunk, NEW i \in 0 .. Parts, Held(i)', ToCome'[i] > 0
    PROVE  Held(i) /\ ToCome[i] > 0
BY DEF PartsStay, Held

\* Nobody takes a chunk up; who puts one down had all of it, or the download is over.
LEMMA ChunksStay ==
    ASSUME Types, PartsStay, ChunksInv, canceled => canceled',
           UNCHANGED <<nextChunk, chunkCh, mu, sending>>,
           \A w \in Workers : \/ Kept(w)
                             \/ /\ ~Busy(w)'
                                /\ canceled' \/ ~Busy(w) \/ worker[w].got = worker[w].ch.size
    PROVE  ChunksInv'
<1>1. InQueue'
  BY QueueStays DEF ChunksInv, InQueue, Waiting, Fits, WaitsOn
<1>2. InSend'
  BY SendStays DEF ChunksInv, InSend, Waiting, Fits, WaitsOn
<1>3. AtWork'
  BY WorkStays DEF ChunksInv, AtWork, Kept
<1>4. Apart'
  BY DEF ChunksInv, Apart, Kept
<1>5. NoneLost'
  <2> SUFFICES ASSUME ~canceled', NEW i \in 0 .. Parts, Held(i)', ToCome'[i] > 0
               PROVE  InHand(i)'
    BY DEF NoneLost
  <2>1. InHand(i) /\ Held(i) /\ ToCome[i] > 0
    BY LostStays DEF ChunksInv, NoneLost
  <2>2. CASE \E w \in Workers : Busy(w) /\ worker[w].ch.id = i
    <3>1. PICK w \in Workers : Busy(w) /\ worker[w].ch.id = i
      BY <2>2
    <3>2. worker[w].ch.size - worker[w].got = ToCome[i]
      BY <2>1, <3>1 DEF ChunksInv, AtWork, Fits, Held
    <3>3. worker[w].got # worker[w].ch.size
      BY <2>1, <3>2, ChunkFacts
    <3> QED BY <3>1, <3>3 DEF InHand, Kept
  <2>3. CASE ~(\E w \in Workers : Busy(w) /\ worker[w].ch.id = i)
    BY <2>1, <2>3 DEF InHand
  <2> QED BY <2>2, <2>3
<1> QED BY <1>1, <1>2, <1>3, <1>4, <1>5 DEF ChunksInv

\* Worker w is to request what its last request did not bring.
LEMMA ChunksAgain ==
    ASSUME Types, PartsStay, ChunksInv, NEW w \in Workers, Busy(w), Again(w, worker[w].got),
           worker[w].got <= worker[w].ch.size, UNCHANGED <<nextChunk, chunkCh, mu, sending>>,
           \A v \in Workers \ {w} : Kept(v)
    PROVE  ChunksInv'
<1>0. Busy(w)' /\ worker'[w].ch.id = worker[w].ch.id
  BY DEF Again, Busy
<1>1. InQueue'
  BY QueueStays DEF ChunksInv, InQueue, Waiting, Fits, WaitsOn
<1>2. InSend'
  BY SendStays DEF ChunksInv, InSend, Waiting, Fits, WaitsOn
<1>3. AtWork'
  <2>1. /\ Fits(worker[w].ch, worker[w].got)' /\ worker'[w].got = 0
        /\ Waiting(worker[w].ch)' /\ (worker'[w].ch.id < reader'.pos => worker'[w].ch.size = 0)
    <3> DEFINE c == worker[w].ch
               n == worker[w].got
               d == worker'[w].ch
    <3>1. /\ c \in Chunks /\ c.id \in 0 .. Parts /\ c.size \in Nat /\ n \in Nat /\ c.start \in Nat
          /\ d.id = c.id /\ d.buf = c.buf /\ d.start = c.start + n /\ d.size = c.size - n
          /\ worker'[w].got = 0 /\ n <= c.size
      BY ChunkFacts DEF Again
    <3>2. /\ c.id < nextChunk /\ (c.id < reader.pos => n = c.size)
          /\ c.id >= reader.pos => /\ c.buf = HeldBy[c.id] /\ c.start + n = StartOf(c.id) + Had[c.id]
                                   /\ c.size - n = ToCome[c.id]
      BY DEF ChunksInv, AtWork, Fits
    <3> HIDE DEF c, n, d
    <3>3. reader.pos \in 0 .. Parts /\ reader'.pos \in 0 .. Parts
          /\ nextChunk \in 0 .. Parts /\ nextChunk' = nextChunk
          /\ (reader'.pos = reader.pos \/ (reader'.pos = reader.pos + 1 /\ ToCome[reader.pos] = 0))
      BY DEF PartsStay
    <3>4. c.id < reader'.pos => c.size - n = 0
      BY <3>1, <3>2, <3>3
    <3>5. c.id >= reader'.pos =>
             HeldBy'[c.id] = HeldBy[c.id] /\ Had'[c.id] = Had[c.id] /\ ToCome'[c.id] = ToCome[c.id]
      BY <3>1, <3>2, <3>3 DEF PartsStay
    <3>6. /\ d.id < nextChunk' /\ (d.size > 0 => d.id >= reader'.pos)
          /\ d.id >= reader'.pos => /\ d.buf = HeldBy'[d.id]
                                    /\ d.start + 0 = StartOf(d.id) + Had'[d.id]
                                    /\ d.size - 0 = ToCome'[d.id]
          /\ d.id < reader'.pos => d.size = 0
      BY <3>1, <3>2, <3>3, <3>4, <3>5
    <3>7. worker'[w].got = 0
      BY <3>1
    <3> QED BY ONLY <3>6, <3>7 DEF d, Fits, Waiting
  <2>2. ASSUME NEW v \in Workers, v # w, Busy(v)'
        PROVE  /\ Fits(worker[v].ch, worker[v].got)'
               /\ worker'[v].pc # "copy" => worker'[v].got = 0 /\ Waiting(worker[v].ch)'
               /\ worker'[v].ch.id < reader'.pos => worker'[v].got = worker'[v].ch.size
    <3>1. Kept(v) /\ Busy(v)
      BY <2>2 DEF Kept
    <3> QED BY <3>1, WorkStays DEF ChunksInv
  <2> QED BY <2>1, <2>2 DEF AtWork
<1>4. Apart'
  BY <1>0 DEF ChunksInv, Apart, Kept
<1>5. NoneLost'
  <2> SUFFICES ASSUME ~canceled', NEW i \in 0 .. Parts, Held(i)', ToCome'[i] > 0
               PROVE  InHand(i)'
    BY DEF NoneLost
  <2>1. InHand(i)
    BY LostStays DEF ChunksInv, NoneLost, Again
  <2> QED BY <1>0, <2>1 DEF InHand, Kept
<1> QED BY <1>1, <1>2, <1>3, <1>4, <1>5 DEF ChunksInv

\* Worker w takes the first chunk of the queue.
LEMMA ChunksTaken ==
    ASSUME Types, PartsStay, ChunksInv, NEW w \in Workers, ~Busy(w), chunkCh # <<>>,
           chunkCh' = Tail(chunkCh), worker'[w].pc = "request", worker'[w].ch = Head(chunkCh),
           worker'[w].got = 0, UNCHANGED <<canceled, nextChunk, mu, sending>>,
           \A v \in Workers \ {w} : Kept(v)
    PROVE  ChunksInv'
<1>1. /\ Head(chunkCh) = chunkCh[1] /\ 1 \in 1 .. Len(chunkCh)
      /\ Len(chunkCh') = Len(chunkCh) - 1 /\ Len(chunkCh) \in Nat
      /\ \A k \in 1 .. Len(chunkCh') : k + 1 \in 1 .. Len(chunkCh) /\ chunkCh'[k] = chunkCh[k + 1]
  BY SeqTail, ChunkFacts
<1>2. Busy(w)' /\ worker'[w].ch = chunkCh[1]
  BY <1>1 DEF Busy
<1>3. \A v \in Workers \ {w} : /\ Busy(v)' <=> Busy(v)
                               /\ worker'[v].ch = worker[v].ch
  BY DEF Kept
<1>4. InQueue'
  BY <1>1, QueueStays DEF ChunksInv, InQueue, Waiting, Fits, WaitsOn
<1>5. InSend'
  BY SendStays DEF ChunksInv, InSend, Waiting, Fits, WaitsOn
<1>6. AtWork'
  <2>1. WaitsOn(chunkCh[1])
    BY <1>1, QueueStays DEF ChunksInv
  <2>2. Fits(worker[w].ch, worker[w].got)' /\ Waiting(worker[w].ch)'
    BY <1>2, <2>1 DEF Fits, Waiting, WaitsOn
  <2>3. worker'[w].ch.id < reader'.pos => worker'[w].ch.size = 0
    <3>1. chunkCh[1].id \in 0 .. Parts /\ chunkCh[1].size \in Nat /\ reader'.pos \in 0 .. Parts
      BY <1>1, ChunkFacts DEF PartsStay
    <3> QED BY <1>2, <2>1, <3>1 DEF WaitsOn
  <2>4. ASSUME NEW v \in Workers, v # w, Busy(v)'
        PROVE  /\ Fits(worker[v].ch, worker[v].got)'
               /\ worker'[v].pc # "copy" => worker'[v].got = 0 /\ Waiting(worker[v].ch)'
               /\ worker'[v].ch.id < reader'.pos => worker'[v].got = worker'[v].ch.size
    <3>1. Kept(v) /\ Busy(v)
      BY <2>4 DEF Kept
    <3> QED BY <3>1, WorkStays DEF ChunksInv
  <2> QED BY <2>2, <2>3, <2>4 DEF AtWork
<1>7. Apart'
  <2>1. \A k, l \in 1 .. Len(chunkCh') : chunkCh'[k].id = chunkCh'[l].id => k = l
    <3> SUFFICES ASSUME NEW k \in 1 .. Len(chunkCh'), NEW l \in 1 .. Len(chunkCh'),
                        chunkCh'[k].id = chunkCh'[l].id
                 PROVE  k = l
      OBVIOUS
    <3>1. k + 1 = l + 1
      BY <1>1 DEF ChunksInv, Apart
    <3> QED BY <1>1, <3>1
  <2>2. \A k \in 1 .. Len(chunkCh') : chunkCh'[k].id # chunkCh[1].id
    <3> SUFFICES ASSUME NEW k \in 1 .. Len(chunkCh'), chunkCh'[k].id = chunkCh[1].id
                 PROVE  FALSE
      OBVIOUS
    <3>1. k + 1 = 1
      BY <1>1 DEF ChunksInv, Apart
    <3> QED BY <1>1, <3>1
  <2>3. \A v \in Workers \ {w} : Busy(v)' => worker'[v].ch.id # chunkCh[1].id
    BY <1>1, <1>3 DEF ChunksInv, Apart
  <2>4. \A v, u \in Workers : Busy(v)' /\ Busy(u)' /\ worker'[v].ch.id = worker'[u].ch.id => v = u
    BY <1>2, <1>3, <2>3 DEF ChunksInv, Apart
  <2>5. \A v \in Workers, k \in 1 .. Len(chunkCh') : Busy(v)' => worker'[v].ch.id # chunkCh'[k].id
    BY <1>1, <1>2, <1>3, <2>2 DEF ChunksInv, Apart
  <2>6. mu' # Free => /\ \A k \in 1 .. Len(chunkCh') : chunkCh'[k].id # sending'.id
                      /\ \A v \in Workers : Busy(v)' => worker'[v].ch.id # sending'.id
    BY <1>1, <1>2, <1>3 DEF ChunksInv, Apart
  <2> QED BY <2>1, <2>4, <2>5, <2>6 DEF Apart
<1>8. NoneLost'
  <2> SUFFICES ASSUME ~canceled', NEW i \in 0 .. Parts, Held(i)', ToCome'[i] > 0
               PROVE  InHand(i)'
    BY DEF NoneLost
  <2>1. InHand(i)
    BY LostStays DEF ChunksInv, NoneLost
  <2>2. CASE \E v \in Workers : Busy(v) /\ worker[v].ch.id = i
    BY <1>3, <2>2 DEF InHand
  <2>3. CASE mu # Free /\ sending.id = i
    BY <2>3 DEF InHand
  <2>4. CASE \E k \in 1 .. Len(chunkCh) : chunkCh[k].id = i
    <3>1. PICK k \in 1 .. Len(chunkCh) : chunkCh[k].id = i
      BY <2>4
    <3>2. CASE k = 1
      BY <1>2, <3>1, <3>2 DEF InHand
    <3>3. CASE k # 1
      <4>1. k - 1 \in 1 .. Len(chunkCh') /\ (k - 1) + 1 = k
        BY <1>1, <3>3
      <4>2. chunkCh'[k - 1].id = i
        BY <1>1, <3>1, <4>1
      <4> QED BY <4>1, <4>2 DEF InHand
    <3> QED BY <3>2, <3>3
  <2> QED BY <2>1, <2>2, <2>3, <2>4 DEF InHand
<1> QED BY <1>4, <1>5, <1>6, <1>7, <1>8 DEF ChunksInv

\* Chunk c, which one hand has, goes to the end of the queue.
LEMMA ChunksQueued ==
    ASSUME Types, PartsStay, ChunksInv, NEW c \in Chunks, Waiting(c), chunkCh' = Append(chunkCh, c),
           UNCHANGED <<canceled, nextChunk>>,
           \A k \in 1 .. Len(chunkCh) : chunkCh[k].id # c.id,
           \A w \in Workers : \/ Kept(w) /\ (Busy(w) => worker[w].ch.id # c.id)
                              \/ ~Busy(w)' /\ (Busy(w) => worker[w].ch.id = c.id),
           \/ mu' = mu /\ sending' = sending /\ (mu # Free => sending.id # c.id)
           \/ mu' = Free /\ (mu # Free => sending.id = c.id)
    PROVE  ChunksInv'
<1>1. /\ Len(chunkCh') = Len(chunkCh) + 1 /\ chunkCh'[Len(chunkCh) + 1] = c
      /\ Len(chunkCh) \in Nat /\ Len(chunkCh) + 1 \in 1 .. Len(chunkCh')
      /\ \A k \in 1 .. Len(chunkCh) : chunkCh'[k] = chunkCh[k] /\ k \in 1 .. Len(chunkCh')
      /\ \A k \in 1 .. Len(chunkCh') : k \in 1 .. Len(chunkCh) \/ k = Len(chunkCh) + 1
  <2>1. chunkCh \in Seq(Chunks) /\ Len(chunkCh) \in Nat
    BY ChunkFacts
  <2>2. /\ Len(chunkCh') = Len(chunkCh) + 1 /\ chunkCh'[Len(chunkCh) + 1] = c
        /\ \A k \in 1 .. Len(chunkCh) : chunkCh'[k] = chunkCh[k]
    BY <2>1, SeqAppend
  <2> QED BY <2>1, <2>2
<1>2. WaitsOn(c)
  BY WaitingStays
<1>3. \A w \in Workers : Busy(w)' => Busy(w) /\ Kept(w) /\ worker'[w].ch = worker[w].ch
                                     /\ worker[w].ch.id # c.id
  BY DEF Kept
<1>4. mu' # Free => mu # Free /\ sending' = sending /\ sending.id # c.id
  OBVIOUS
<1>5. InQueue'
  <2> SUFFICES ASSUME NEW k \in 1 .. Len(chunkCh') PROVE Waiting(chunkCh[k])'
    BY DEF InQueue
  <2>1. CASE k = Len(chunkCh) + 1
    <3>1. chunkCh'[k] = c
      BY <1>1, <2>1
    <3> QED BY ONLY <1>2, <3>1 DEF Waiting, Fits, WaitsOn
  <2>2. CASE k \in 1 .. Len(chunkCh)
    BY <1>1, <2>2, QueueStays DEF ChunksInv, Waiting, Fits, WaitsOn
  <2> QED BY <1>1, <2>1, <2>2
<1>6. InSend'
  BY <1>4, SendStays DEF ChunksInv, InSend, Waiting, Fits, WaitsOn
<1>7. AtWork'
  BY <1>3, WorkStays DEF ChunksInv, AtWork
<1>8. Apart'
  <2>1. \A k, l \in 1 .. Len(chunkCh') : chunkCh'[k].id = chunkCh'[l].id => k = l
    BY <1>1 DEF ChunksInv, Apart
  <2>2. \A v, u \in Workers : Busy(v)' /\ Busy(u)' /\ worker'[v].ch.id = worker'[u].ch.id => v = u
    BY <1>3 DEF ChunksInv, Apart
  <2>3. \A v \in Workers, k \in 1 .. Len(chunkCh') : Busy(v)' => worker'[v].ch.id # chunkCh'[k].id
    BY <1>1, <1>3 DEF ChunksInv, Apart
  <2>4. mu' # Free => /\ \A k \in 1 .. Len(chunkCh') : chunkCh'[k].id # sending'.id
                      /\ \A v \in Workers : Busy(v)' => worker'[v].ch.id # sending'.id
    BY <1>1, <1>3, <1>4 DEF ChunksInv, Apart
  <2> QED BY <2>1, <2>2, <2>3, <2>4 DEF Apart
<1>9. NoneLost'
  <2> SUFFICES ASSUME ~canceled', NEW i \in 0 .. Parts, Held(i)', ToCome'[i] > 0
               PROVE  InHand(i)'
    BY DEF NoneLost
  <2>1. InHand(i)
    BY LostStays DEF ChunksInv, NoneLost
  <2>2. CASE i = c.id
    BY <1>1, <2>2 DEF InHand
  <2>3. CASE i # c.id
    BY <1>1, <2>1, <2>3 DEF InHand, Kept
  <2> QED BY <2>2, <2>3
<1> QED BY <1>5, <1>6, <1>7, <1>8, <1>9 DEF ChunksInv

\* Who has d.mu sends his chunk, or does not when the download is over.
LEMMA ChunksSent ==
    ASSUME Types, PartsStay, ChunksInv, mu # Free, mu' = Free, UNCHANGED <<canceled, nextChunk>>,
           \/ chunkCh' = Append(chunkCh, sending)
           \/ canceled /\ chunkCh' = chunkCh,
           \A w \in Workers : Kept(w)
    PROVE  ChunksInv'
<1>1. CASE chunkCh' = Append(chunkCh, sending)
  <2>1. sending \in Chunks /\ Waiting(sending)
    BY ChunkFacts DEF ChunksInv, InSend
  <2>2. /\ \A k \in 1 .. Len(chunkCh) : chunkCh[k].id # sending.id
        /\ \A w \in Workers : Busy(w) => worker[w].ch.id # sending.id
    BY DEF ChunksInv, Apart
  <2>3. \A w \in Workers : \/ Kept(w) /\ (Busy(w) => worker[w].ch.id # sending.id)
                           \/ ~Busy(w)' /\ (Busy(w) => worker[w].ch.id = sending.id)
    BY <2>2
  <2>4. \/ mu' = mu /\ sending' = sending /\ (mu # Free => sending.id # sending.id)
        \/ mu' = Free /\ (mu # Free => sending.id = sending.id)
    OBVIOUS
  <2>5. Types /\ PartsStay /\ ChunksInv /\ UNCHANGED <<canceled, nextChunk>>
    OBVIOUS
  <2> QED BY ONLY <1>1, <2>1, <2>2, <2>3, <2>4, <2>5, ChunksQueued
<1>2. CASE canceled /\ chunkCh' = chunkCh
  <2>1. InQueue'
    BY <1>2, QueueStays DEF ChunksInv, InQueue, Waiting, Fits, WaitsOn
  <2>2. AtWork'
    BY WorkStays DEF ChunksInv, AtWork, Kept
  <2>3. Apart'
    BY <1>2 DEF ChunksInv, Apart, Kept
  <2>4. InSend' /\ NoneLost'
    BY <1>2 DEF InSend, NoneLost
  <2> QED BY <2>1, <2>2, <2>3, <2>4 DEF ChunksInv
<1> QED BY <1>1, <1>2

\* Worker w puts its chunk back.
LEMMA ChunksBack ==
    ASSUME Types, PartsStay, ChunksInv, NEW w \in Workers, worker[w].pc = "requeue", ~Busy(w)',
           chunkCh' = Append(chunkCh, worker[w].ch), UNCHANGED <<canceled, nextChunk, mu, sending>>,
           \A v \in Workers \ {w} : Kept(v)
    PROVE  ChunksInv'
<1>1. Busy(w) /\ worker[w].ch \in Chunks
  BY ChunkFacts DEF Busy
<1>2. Waiting(worker[w].ch)
  BY <1>1 DEF ChunksInv, AtWork
<1>3. /\ \A k \in 1 .. Len(chunkCh) : chunkCh[k].id # worker[w].ch.id
      /\ \A v \in Workers \ {w} : Busy(v) => worker[v].ch.id # worker[w].ch.id
      /\ mu # Free => sending.id # worker[w].ch.id
  BY <1>1 DEF ChunksInv, Apart
<1>4. /\ \A v \in Workers : \/ Kept(v) /\ (Busy(v) => worker[v].ch.id # worker[w].ch.id)
                            \/ ~Busy(v)' /\ (Busy(v) => worker[v].ch.id = worker[w].ch.id)
      /\ \/ mu' = mu /\ sending' = sending /\ (mu # Free => sending.id # worker[w].ch.id)
         \/ mu' = Free /\ (mu # Free => sending.id = worker[w].ch.id)
  BY <1>1, <1>3
<1>5. /\ Types /\ PartsStay /\ ChunksInv /\ UNCHANGED <<canceled, nextChunk>>
      /\ chunkCh' = Append(chunkCh, worker[w].ch)
  OBVIOUS
<1> QED BY ONLY <1>1, <1>2, <1>3, <1>4, <1>5, ChunksQueued

-----------------------------------------------------------------------------
(* A worker copies                                                          *)

\* k bytes more of the chunk of worker w are in the buffer of its part.
Copies(w, k) ==
    LET i == worker[w].ch.id
        b == HeldBy[i]
    IN  /\ k > 0 /\ worker[w].pc = "copy" /\ i \in 0 .. Parts /\ Held(i) /\ b \in Blocks
        /\ worker[w].got + k <= worker[w].ch.size
        /\ HeldBy' = HeldBy /\ Had'[i] = Had[i] + k /\ ToCome'[i] = ToCome[i] - k
        /\ \A j \in 0 .. Parts : Held(j) /\ j # i => buf'[HeldBy[j]] = buf[HeldBy[j]]
        /\ \A d \in Blocks : d # b => buf'[d] = buf[d]
        /\ buf'[b].limit = buf[b].limit /\ buf'[b].off = buf[b].off
        /\ Len(buf'[b].data) = Had[i] + k
        /\ \A m \in 1 .. Had[i] : buf'[b].data[m] = buf[b].data[m]
        /\ \A m \in 1 .. k : buf'[b].data[Had[i] + m] = StartOf(i) + Had[i] + m - 1
        /\ worker'[w].pc = "copy" /\ worker'[w].ch = worker[w].ch
        /\ worker'[w].got = worker[w].got + k
        /\ \A v \in Workers \ {w} : worker'[v] = worker[v]
        /\ UNCHANGED <<canceled, closed, nextChunk, reader, chunkCh, bufMap, mu, sending>>

LEMMA CopyCopies ==
    ASSUME DownloadInv, ~closed, ChunksInv, NEW w \in Workers, Copy(w)
    PROVE  \E k \in Nat : Copies(w, k)
<1> DEFINE c == worker[w].ch
           n == worker[w].got
           b == c.buf
<1>0. Types /\ Sizes
  BY DEF DownloadInv
<1>1. PICK k \in 1 .. (c.size - n) :
          /\ Len(buf[b].data) + k <= buf[b].limit
          /\ buf' = [buf EXCEPT ![b] = Write(@, c.start + n, k)]
          /\ worker' = [worker EXCEPT ![w].got = @ + k]
  BY DEF Copy
<1>2. /\ worker[w].pc = "copy"
      /\ UNCHANGED <<canceled, closed, nextChunk, reader, chunkCh, bufMap, mu, sending>>
  BY DEF Copy, plan, lock
<1>3. /\ c \in Chunks /\ c.id \in 0 .. Parts /\ c.start \in Nat /\ c.size \in Nat /\ n \in Nat
      /\ k \in Nat /\ k > 0 /\ n + k <= c.size /\ c.start + c.size <= Length
  <2>1. c \in Chunks /\ c.id \in 0 .. Parts /\ c.start \in Nat /\ c.size \in Nat /\ n \in Nat
    BY <1>0, ChunkFacts
  <2>2. c.start + c.size <= Length
    BY <1>0 DEF Sizes, Within
  <2> QED BY <1>1, <2>1, <2>2
<1>4. /\ c.id < nextChunk /\ c.id >= reader.pos
      /\ b = HeldBy[c.id] /\ c.start + n = StartOf(c.id) + Had[c.id]
  <2>1. Busy(w)
    BY <1>2 DEF Busy
  <2>2. /\ c.id < nextChunk /\ (c.id < reader.pos => n = c.size)
        /\ c.id >= reader.pos => b = HeldBy[c.id] /\ c.start + n = StartOf(c.id) + Had[c.id]
    BY <2>1 DEF ChunksInv, AtWork, Fits
  <2>3. reader.pos \in 0 .. Parts
    BY HeldFacts
  <2> QED BY <1>3, <2>2, <2>3
<1>5. Held(c.id) /\ b \in Blocks /\ b = HeldBy[c.id]
  BY <1>3, <1>4, HeldFacts DEF Held
<1>6. /\ buf[b] \in BufRecs /\ Had[c.id] = Len(buf[b].data) /\ Had[c.id] \in Nat
      /\ ToCome[c.id] = buf[b].limit - Had[c.id] /\ buf[b].limit \in Nat
  BY <1>3, <1>5, HeldSizes
<1> HIDE DEF b, c, n
<1> DEFINE y == Write(buf[b], c.start + n, k)
<1>7. /\ Len(y.data) = Len(buf[b].data) + k
      /\ \A m \in 1 .. Len(buf[b].data) : y.data[m] = buf[b].data[m]
      /\ \A m \in 1 .. k : y.data[Len(buf[b].data) + m] = c.start + n + m - 1
      /\ y.limit = buf[b].limit /\ y.off = buf[b].off
  <2>1. c.start + n \in Nat /\ c.start + n + k <= Length
    BY <1>3, Bounds
  <2> HIDE DEF y
  <2>2. buf[b] \in BufRecs /\ k \in Nat
    BY <1>3, <1>6
  <2> QED BY ONLY <2>1, <2>2, WriteFacts, ZenonT(30) DEF y
<1>8. buf'[b] = y /\ \A d \in Blocks : d # b => buf'[d] = buf[d]
  <2>1. buf' = [buf EXCEPT ![b] = y]
    BY <1>1
  <2>2. buf \in [Blocks -> BufRecs]
    BY <1>0 DEF Types
  <2> HIDE DEF y
  <2> QED BY <1>5, <2>1, <2>2
<1> HIDE DEF y
<1>9. /\ worker'[w].pc = "copy" /\ worker'[w].ch = c /\ worker'[w].got = n + k
      /\ \A v \in Workers \ {w} : worker'[v] = worker[v]
  <2>1. worker \in [Workers -> WorkRecs]
    BY <1>0 DEF Types
  <2>2. worker[w] \in WorkRecs
    BY <2>1
  <2> QED BY <1>1, <1>2, <2>1, <2>2 DEF WorkRecs, c, n
<1>10. HeldBy' = HeldBy
  BY <1>2 DEF HeldBy, HeldBuf
<1>11. Had'[c.id] = Len(buf'[b].data) /\ ToCome'[c.id] = buf'[b].limit - Len(buf'[b].data)
  BY <1>3, <1>5, <1>10 DEF Had, ToCome
<1>12. \A j \in 0 .. Parts : Held(j) /\ j # c.id => buf'[HeldBy[j]] = buf[HeldBy[j]]
  BY <1>3, <1>5, <1>8, HeldFacts
<1>13. /\ Had'[c.id] = Had[c.id] + k /\ ToCome'[c.id] = ToCome[c.id] - k
       /\ buf'[b].limit = buf[b].limit /\ buf'[b].off = buf[b].off
       /\ Len(buf'[b].data) = Had[c.id] + k
  <2>1. buf'[b] = y
    BY <1>8
  <2>2. Len(buf'[b].data) = Had[c.id] + k
    BY ONLY <1>6, <1>7, <2>1
  <2>3. buf'[b].limit = buf[b].limit /\ buf'[b].off = buf[b].off
    BY ONLY <1>7, <2>1
  <2>4. Had'[c.id] = Had[c.id] + k /\ ToCome'[c.id] = buf[b].limit - (Had[c.id] + k)
    BY ONLY <1>11, <2>2, <2>3
  <2>5. ToCome'[c.id] = ToCome[c.id] - k
    <3>1. /\ k \in Nat /\ Had[c.id] \in Nat /\ buf[b].limit \in Nat
          /\ ToCome[c.id] = buf[b].limit - Had[c.id]
      BY <1>3, <1>6
    <3> QED BY ONLY <2>4, <3>1
  <2> QED BY ONLY <2>2, <2>3, <2>4, <2>5
<1>14. /\ \A m \in 1 .. Had[c.id] : buf'[b].data[m] = buf[b].data[m]
       /\ \A m \in 1 .. k : buf'[b].data[Had[c.id] + m] = StartOf(c.id) + Had[c.id] + m - 1
  BY <1>4, <1>6, <1>7, <1>8
<1> QED BY <1>2, <1>3, <1>5, <1>8, <1>9, <1>10, <1>12, <1>13, <1>14 DEF Copies, c, n

LEMMA CopiesChunks ==
    ASSUME DownloadInv, ~closed, ChunksInv, NEW w \in Workers, NEW k \in Nat, Copies(w, k)
    PROVE  ChunksInv'
<1> DEFINE c == worker[w].ch
           i == worker[w].ch.id
<1>0. Types
  BY DEF DownloadInv
<1>1. /\ k > 0 /\ worker[w].pc = "copy" /\ i \in 0 .. Parts /\ Held(i)
      /\ HeldBy' = HeldBy /\ Had'[i] = Had[i] + k /\ ToCome'[i] = ToCome[i] - k
      /\ \A j \in 0 .. Parts : Held(j) /\ j # i => buf'[HeldBy[j]] = buf[HeldBy[j]]
      /\ worker'[w].pc = "copy" /\ worker'[w].ch = c
      /\ worker'[w].got = worker[w].got + k
      /\ \A v \in Workers \ {w} : worker'[v] = worker[v]
      /\ UNCHANGED <<canceled, closed, nextChunk, reader, chunkCh, bufMap, mu, sending>>
  BY DEF Copies
<1>2. \A j \in 0 .. Parts : Held(j) /\ j # i => Had'[j] = Had[j] /\ ToCome'[j] = ToCome[j]
  BY <1>1 DEF Had, ToCome
<1>3. Busy(w) /\ Busy(w)' /\ \A v \in Workers : Busy(v)' <=> Busy(v)
  BY <1>1 DEF Busy
<1>4. \A v \in Workers : worker'[v].ch = worker[v].ch
  BY <1>1
<1>5. ASSUME NEW d \in Chunks, d.id # i, NEW m
      PROVE  /\ Fits(d, m) => /\ d.id < nextChunk
                              /\ d.id >= reader.pos => /\ d.buf = HeldBy[d.id]
                                                       /\ d.start + m = StartOf(d.id) + Had'[d.id]
                                                       /\ d.size - m = ToCome'[d.id]
  <2>1. d.id \in 0 .. Parts
    BY <1>0, ChunkFacts
  <2> QED BY <1>2, <1>5, <2>1 DEF Fits, Held
<1>6. InQueue'
  <2> SUFFICES ASSUME NEW l \in 1 .. Len(chunkCh) PROVE Waiting(chunkCh[l])'
    BY <1>1 DEF InQueue
  <2>1. chunkCh[l] \in Chunks /\ chunkCh[l].id # i /\ Waiting(chunkCh[l])
    BY <1>0, <1>3, ChunkFacts DEF ChunksInv, Apart, InQueue
  <2> QED BY <1>1, <1>5, <2>1 DEF Waiting, Fits
<1>7. InSend'
  <2> SUFFICES ASSUME mu # Free PROVE Waiting(sending)' /\ sending'.size > 0
    BY <1>1 DEF InSend
  <2>1. sending \in Chunks /\ sending.id # i /\ Waiting(sending) /\ sending.size > 0
    BY <1>0, <1>3, ChunkFacts DEF ChunksInv, Apart, InSend
  <2> QED BY <1>1, <1>5, <2>1 DEF Waiting, Fits
<1>8. AtWork'
  <2>1. /\ Fits(worker[w].ch, worker[w].got)' /\ worker'[w].pc = "copy"
        /\ ~(worker'[w].ch.id < reader'.pos)
    <3> DEFINE n == worker[w].got
    <3>1. c.start \in Nat /\ c.size \in Nat /\ n \in Nat /\ Had[i] \in Nat /\ ToCome[i] \in Nat
          /\ reader.pos \in 0 .. Parts /\ StartOf(i) \in Nat
      <4>1. c.start \in Nat /\ c.size \in Nat /\ n \in Nat
        BY <1>0, ChunkFacts
      <4>2. Had[i] \in Nat /\ ToCome[i] \in Nat
        BY <1>1, HeldSizes
      <4>3. reader.pos \in 0 .. Parts
        BY HeldFacts
      <4>4. StartOf(i) \in Nat
        BY <1>1, StartNat
      <4> QED BY <4>1, <4>2, <4>3, <4>4
    <3>2. /\ c.buf = HeldBy[i] /\ c.start + n = StartOf(i) + Had[i] /\ c.size - n = ToCome[i]
          /\ i < nextChunk /\ i >= reader.pos /\ ~(i < reader.pos)
      BY <1>1, <1>3, <3>1 DEF ChunksInv, AtWork, Fits, Held
    <3> HIDE DEF c, i, n
    <3>3. c.start + (n + k) = StartOf(i) + (Had[i] + k) /\ c.size - (n + k) = ToCome[i] - k
      BY <3>1, <3>2
    <3>4. worker'[w].got = n + k /\ i = c.id
      BY <1>1 DEF n, i, c
    <3>5. worker'[w].ch = c /\ reader' = reader /\ nextChunk' = nextChunk
      BY <1>1
    <3>6. Fits(worker[w].ch, worker[w].got)'
      BY <1>1, <3>2, <3>3, <3>4, <3>5 DEF Fits
    <3> QED BY <1>1, <3>2, <3>4, <3>5, <3>6
  <2>2. ASSUME NEW v \in Workers, v # w, Busy(v)
        PROVE  /\ Fits(worker[v].ch, worker[v].got)'
               /\ worker'[v].pc # "copy" => worker'[v].got = 0 /\ Waiting(worker[v].ch)'
               /\ worker'[v].ch.id < reader'.pos => worker'[v].got = worker'[v].ch.size
    <3>1. worker[v].ch \in Chunks /\ worker[v].ch.id # i /\ worker'[v] = worker[v]
      BY <1>0, <1>1, <1>3, <2>2, ChunkFacts DEF ChunksInv, Apart
    <3>2. Fits(worker[v].ch, worker[v].got)'
      BY <1>1, <1>5, <2>2, <3>1 DEF ChunksInv, AtWork, Fits
    <3>3. Waiting(worker[v].ch) => Waiting(worker[v].ch)'
      BY <1>1, <1>5, <3>1 DEF Waiting, Fits
    <3> QED BY <1>1, <2>2, <3>1, <3>2, <3>3 DEF ChunksInv, AtWork
  <2> QED BY <1>3, <2>1, <2>2 DEF AtWork
<1>9. Apart'
  BY <1>1, <1>3, <1>4 DEF ChunksInv, Apart
<1>10. NoneLost'
  <2> SUFFICES ASSUME ~canceled, NEW j \in 0 .. Parts, Held(j), ToCome'[j] > 0
               PROVE  InHand(j)'
    BY <1>1 DEF NoneLost, Held
  <2>1. CASE j = i
    BY <1>1, <1>3, <2>1 DEF InHand
  <2>2. CASE j # i
    <3>1. InHand(j)
      BY <1>2, <2>2 DEF ChunksInv, NoneLost
    <3> QED BY <1>1, <1>3, <1>4, <3>1 DEF InHand
  <2> QED BY <2>1, <2>2
<1> QED BY <1>6, <1>7, <1>8, <1>9, <1>10 DEF ChunksInv

LEMMA CopiesContents ==
    ASSUME DownloadInv, ~closed, Contents, NEW w \in Workers, NEW k \in Nat, Copies(w, k)
    PROVE  Contents'
<1> DEFINE i == worker[w].ch.id
           b == HeldBy[i]
<1>0. Types /\ Places /\ Mapped
  BY DEF DownloadInv
<1>1. /\ i \in 0 .. Parts /\ Held(i) /\ b \in Blocks /\ HeldBy' = HeldBy
      /\ \A j \in 0 .. Parts : Held(j) /\ j # i => buf'[HeldBy[j]] = buf[HeldBy[j]]
      /\ \A d \in Blocks : d # b => buf'[d] = buf[d]
      /\ buf'[b].limit = buf[b].limit /\ buf'[b].off = buf[b].off
      /\ Len(buf'[b].data) = Had[i] + k
      /\ \A m \in 1 .. Had[i] : buf'[b].data[m] = buf[b].data[m]
      /\ \A m \in 1 .. k : buf'[b].data[Had[i] + m] = StartOf(i) + Had[i] + m - 1
      /\ UNCHANGED <<canceled, closed, nextChunk, reader, chunkCh, bufMap, mu, sending>>
  BY DEF Copies
<1>2. Had[i] \in Nat /\ Had[i] = Len(buf[b].data) /\ StartOf(i) \in Nat
  BY <1>1, HeldSizes, StartNat
<1>3. \A j \in 0 .. Parts : Held(j) => buf'[HeldBy[j]].limit = buf[HeldBy[j]].limit
                                       /\ buf'[HeldBy[j]].off = buf[HeldBy[j]].off
  BY <1>1
<1>4. ASSUME NEW m \in 1 .. Len(buf'[b].data)
      PROVE  buf'[b].data[m] = StartOf(i) + m - 1
  <2>1. CASE m \in 1 .. Had[i]
    <3>1. buf[b].data[m] = StartOf(i) + m - 1
      BY <1>1, <1>2, <2>1 DEF Contents
    <3> QED BY <1>1, <2>1, <3>1
  <2>2. CASE m \notin 1 .. Had[i]
    <3>0. m \in 1 .. Had[i] + k
      BY <1>1, <1>4
    <3> DEFINE h == Had[i]
    <3>1. h \in Nat /\ h = Had[i] /\ m \notin 1 .. h /\ m \in 1 .. h + k
      BY <1>2, <2>2, <3>0
    <3>2. \A l \in 1 .. k : buf'[b].data[h + l] = StartOf(i) + h + l - 1
      BY <1>1
    <3> HIDE DEF h
    <3>3. m - h \in 1 .. k /\ h + (m - h) = m
      BY ONLY <3>1, k \in Nat, SMTT(20)
    <3>4. buf'[b].data[m] = StartOf(i) + h + (m - h) - 1
      BY <3>2, <3>3
    <3>5. StartOf(i) \in Nat
      BY <1>2
    <3>6. StartOf(i) + h + (m - h) - 1 = StartOf(i) + m - 1
      BY ONLY <3>1, <3>5, k \in Nat, SMTT(20)
    <3> QED BY <3>4, <3>6
  <2> QED BY <2>1, <2>2
<1>5. \A j \in 0 .. Parts : Held(j) =>
         \A m \in 1 .. Len(buf'[HeldBy[j]].data) : buf'[HeldBy[j]].data[m] = StartOf(j) + m - 1
  <2> SUFFICES ASSUME NEW j \in 0 .. Parts, Held(j)
               PROVE  \A m \in 1 .. Len(buf'[HeldBy[j]].data) :
                         buf'[HeldBy[j]].data[m] = StartOf(j) + m - 1
    OBVIOUS
  <2>1. CASE j = i
    BY <1>4, <2>1
  <2>2. CASE j # i
    <3>1. buf'[HeldBy[j]] = buf[HeldBy[j]]
      BY <1>1, <2>2
    <3>2. \A m \in 1 .. Len(buf[HeldBy[j]].data) : buf[HeldBy[j]].data[m] = StartOf(j) + m - 1
      BY DEF Contents
    <3> QED BY ONLY <3>1, <3>2
  <2> QED BY <2>1, <2>2
<1> HIDE DEF b, i
<1>6. reader.pc \in {"read", "wait"} => buf'[reader.cur].off = buf[reader.cur].off
  <2> SUFFICES ASSUME reader.pc \in {"read", "wait"}
               PROVE  buf'[reader.cur].off = buf[reader.cur].off
    OBVIOUS
  <2>1. reader.cur \in Blocks
    BY ReadingAt
  <2> QED BY <1>1, <2>1
<1>7. reader.pc = "finish" => buf'[reader.cur] = buf[reader.cur]
  <2> SUFFICES ASSUME reader.pc = "finish" PROVE buf'[reader.cur] = buf[reader.cur]
    OBVIOUS
  <2>1. reader.cur \in Blocks /\ \A j \in 0 .. Parts : bufMap[j] # reader.cur
    BY <1>0, Bounds DEF Mapped, Taken
  <2>2. b = HeldBuf(i)
    BY <1>1, HeldFacts DEF b
  <2>3. b = bufMap[i]
    BY <1>0, <1>1, <2>2 DEF HeldBuf, Places, Held
  <2> QED BY <1>1, <2>1, <2>3
<1>8. UNCHANGED <<nextChunk, reader, bufMap>> /\ HeldBy' = HeldBy
  BY <1>1
<1>9. ASSUME NEW j \in 0 .. Parts, Held(j)'
      PROVE  /\ (buf[HeldBy[j]].limit = StartOf(j + 1) - StartOf(j))'
             /\ (\A m \in 1 .. Len(buf[HeldBy[j]].data) : buf[HeldBy[j]].data[m] = StartOf(j) + m - 1)'
             /\ (bufMap[j] # NoBuf => buf[HeldBy[j]].off = 0)'
  <2>1. Held(j)
    BY <1>8, <1>9 DEF Held
  <2>2. /\ buf[HeldBy[j]].limit = StartOf(j + 1) - StartOf(j)
        /\ bufMap[j] # NoBuf => buf[HeldBy[j]].off = 0
    BY <2>1 DEF Contents
  <2>3. /\ buf'[HeldBy[j]].limit = buf[HeldBy[j]].limit
        /\ buf'[HeldBy[j]].off = buf[HeldBy[j]].off
    BY <1>3, <2>1
  <2>4. \A m \in 1 .. Len(buf'[HeldBy[j]].data) : buf'[HeldBy[j]].data[m] = StartOf(j) + m - 1
    BY <1>5, <2>1
  <2> QED BY <1>8, <2>2, <2>3, <2>4
<1>10. (reader.pc \in {"read", "wait"} => reader.out = StartOf(reader.pos) + buf[reader.cur].off)'
  BY <1>6, <1>8 DEF Contents
<1>11. (reader.pc \in Detached \cup {"finish", "eof"} => reader.out = StartOf(reader.pos))'
  BY <1>8 DEF Contents
<1>12. (reader.pc = "finish" => \A m \in 1 .. Len(buf[reader.cur].data) :
           buf[reader.cur].data[m] = reader.out - buf[reader.cur].off + m - 1)'
  BY <1>7, <1>8 DEF Contents
<1> QED BY <1>9, <1>10, <1>11, <1>12 DEF Contents

-----------------------------------------------------------------------------
(* A part is handed out                                                     *)

LEMMA OutParts ==
    ASSUME DownloadInv, NEW new, HandsOut(new), Asked
    PROVE  /\ PartsStay /\ HeldBy'[nextChunk] = sending'.buf
           /\ Had'[nextChunk] = 0 /\ ToCome'[nextChunk] = sending'.size
           /\ \A i \in 0 .. Parts : Held(i) => /\ HeldBy'[i] = HeldBy[i] /\ HeldBy[i] # sending'.buf
                                              /\ buf'[HeldBy[i]] = buf[HeldBy[i]]
<1> DEFINE b == sending'.buf
<1>0. Types /\ Places /\ Mapped /\ ~closed
  BY DEF DownloadInv, HandsOut
<1>1. /\ nextChunk < Parts /\ nextChunk' = nextChunk + 1 /\ b \in Blocks
      /\ b = bufMap[nextChunk] \/ (bufMap[nextChunk] = NoBuf /\ b \notin Taken)
      /\ bufMap' = [bufMap EXCEPT ![nextChunk] = b]
      /\ \A d \in Blocks : d # b => buf'[d] = buf[d]
      /\ buf'[b].limit = sending'.size /\ buf'[b].data = <<>>
      /\ sending'.size \in 1 .. PartSize
  BY DEF HandsOut
<1>2. /\ reader'.pos = reader.pos /\ reader'.cur = reader.cur /\ reader.pos \in 0 .. Parts
      /\ nextChunk \in 0 .. Parts /\ nextChunk' \in 0 .. Parts /\ reader.pos <= nextChunk
  BY <1>0, <1>1, HeldFacts, Bounds DEF Asked, Places
<1> HIDE DEF b
<1>3. /\ bufMap'[nextChunk] = b /\ b # NoBuf
      /\ \A i \in 0 .. Parts : i # nextChunk => bufMap'[i] = bufMap[i]
  BY <1>0, <1>1, <1>2, Bounds DEF Types
<1>4. HeldBy'[nextChunk] = b
  BY <1>2, <1>3 DEF HeldBy, HeldBuf
<1>5. Had'[nextChunk] = 0 /\ ToCome'[nextChunk] = sending'.size
  <2>1. Had'[nextChunk] = Len(buf'[b].data) /\ ToCome'[nextChunk] = buf'[b].limit - Len(buf'[b].data)
    BY <1>2, <1>4 DEF Had, ToCome
  <2>2. Len(buf'[b].data) = 0 /\ buf'[b].limit = sending'.size /\ sending'.size \in Nat
    BY <1>1
  <2> QED BY <2>1, <2>2
<1>6. ASSUME NEW i \in 0 .. Parts, Held(i)
      PROVE  HeldBy'[i] = HeldBy[i] /\ HeldBy[i] # b /\ buf'[HeldBy[i]] = buf[HeldBy[i]]
  <2>1. i # nextChunk /\ HeldBy[i] = HeldBuf(i) /\ HeldBy[i] \in Taken /\ HeldBy[i] \in Blocks
    BY <1>0, <1>2, <1>6, HeldFacts DEF Held
  <2>2. HeldBy'[i] = HeldBy[i]
    BY <1>2, <1>3, <2>1 DEF HeldBy, HeldBuf
  <2>3. HeldBy[i] # b
    <3> SUFFICES ASSUME HeldBuf(i) = b, b = bufMap[nextChunk] PROVE FALSE
      BY <1>1, <2>1
    <3>1. bufMap[i] # b
      BY <1>0, <1>2, <1>3, <2>1 DEF Mapped
    <3>2. Popped /\ reader.cur = b
      BY <1>2, <1>6, <3>1 DEF HeldBuf, Popped, Held
    <3> QED BY <1>0, <1>2, <3>2 DEF Mapped
  <2> QED BY <1>1, <2>1, <2>2, <2>3
<1>7. PartsStay
  <2> SUFFICES ASSUME NEW i \in 0 .. Parts, reader.pos <= i, i < nextChunk
               PROVE  HeldBy'[i] = HeldBy[i] /\ Had'[i] = Had[i] /\ ToCome'[i] = ToCome[i]
    BY <1>1, <1>2 DEF PartsStay
  <2>1. HeldBy'[i] = HeldBy[i] /\ buf'[HeldBy[i]] = buf[HeldBy[i]]
    BY <1>6 DEF Held
  <2> QED BY <2>1 DEF Had, ToCome
<1> QED BY <1>4, <1>5, <1>6, <1>7 DEF b

LEMMA OutChunks ==
    ASSUME DownloadInv, ChunksInv, NEW new, HandsOut(new), Asked, mu = Free, mu' # Free,
           UNCHANGED <<canceled, chunkCh>>, \A w \in Workers : Kept(w)
    PROVE  ChunksInv'
<1>0. Types /\ PartsStay /\ reader.pos \in 0 .. Parts /\ nextChunk \in 0 .. Parts
      /\ reader.pos <= nextChunk /\ reader'.pos = reader.pos /\ nextChunk' = nextChunk + 1
  <2>1. Types /\ Places /\ ~closed /\ nextChunk' = nextChunk + 1 /\ reader'.pos = reader.pos
    BY DEF DownloadInv, HandsOut, Asked
  <2> QED BY <2>1, HeldFacts, OutParts DEF Places
<1>1. InQueue'
  BY <1>0, QueueStays DEF ChunksInv, InQueue, Waiting, Fits, WaitsOn
<1>2. InSend'
  <2>1. /\ HeldBy'[nextChunk] = sending'.buf
        /\ Had'[nextChunk] = 0 /\ ToCome'[nextChunk] = sending'.size
        /\ sending'.id = nextChunk /\ sending'.start = StartOf(nextChunk)
        /\ sending'.size \in Nat /\ sending'.size > 0 /\ StartOf(nextChunk) \in Nat
    <3>1. HeldBy'[nextChunk] = sending'.buf /\ Had'[nextChunk] = 0 /\ ToCome'[nextChunk] = sending'.size
      BY OutParts
    <3>2. /\ sending'.id = nextChunk /\ sending'.start = StartOf(nextChunk)
          /\ sending'.size \in 1 .. PartSize
      BY DEF HandsOut
    <3>3. StartOf(nextChunk) \in Nat
      BY <1>0, StartNat
    <3> QED BY <3>1, <3>2, <3>3, Bounds
  <2> QED BY <1>0, <2>1 DEF InSend, Waiting, Fits
<1>3. AtWork'
  BY <1>0, WorkStays DEF ChunksInv, AtWork, Kept
<1>4. \A c \in Chunks : c.id < nextChunk => c.id # sending'.id
  BY <1>0, ChunkFacts DEF HandsOut
<1>5. Apart'
  <2>1. \A k \in 1 .. Len(chunkCh) : chunkCh[k].id # sending'.id
    BY <1>0, <1>4, ChunkFacts DEF ChunksInv, InQueue, Waiting, Fits
  <2>2. \A w \in Workers : Busy(w) => worker[w].ch.id # sending'.id
    BY <1>0, <1>4, ChunkFacts DEF ChunksInv, AtWork, Fits
  <2> QED BY <2>1, <2>2 DEF ChunksInv, Apart, Kept
<1>6. NoneLost'
  <2> SUFFICES ASSUME ~canceled, NEW i \in 0 .. Parts, Held(i)', ToCome'[i] > 0
               PROVE  InHand(i)'
    BY DEF NoneLost
  <2>1. CASE i = nextChunk
    BY <2>1 DEF InHand, HandsOut
  <2>2. CASE i # nextChunk
    <3>1. Held(i) /\ ToCome[i] > 0
      BY <1>0, <2>2 DEF PartsStay, Held
    <3>2. InHand(i)
      BY <3>1 DEF ChunksInv, NoneLost
    <3> QED BY <3>2 DEF InHand, Kept
  <2> QED BY <2>1, <2>2
<1> QED BY <1>1, <1>2, <1>3, <1>5, <1>6 DEF ChunksInv

LEMMA OutContents ==
    ASSUME DownloadInv, Contents, NEW new, HandsOut(new), Asked
    PROVE  Contents'
<1> DEFINE b == sending'.buf
<1>0. Types /\ Places /\ Mapped /\ ~closed
  BY DEF DownloadInv, HandsOut
<1>1. /\ nextChunk < Parts /\ nextChunk' = nextChunk + 1
      /\ b = bufMap[nextChunk] \/ (bufMap[nextChunk] = NoBuf /\ b \notin Taken)
      /\ bufMap' = [bufMap EXCEPT ![nextChunk] = b]
      /\ \A d \in Blocks : d # b => buf'[d] = buf[d]
      /\ buf'[b].limit = StartOf(nextChunk + 1) - StartOf(nextChunk)
      /\ buf'[b].off = 0 /\ buf'[b].data = <<>>
  BY DEF HandsOut
<1>2. /\ HeldBy'[nextChunk] = b
      /\ \A i \in 0 .. Parts : Held(i) => /\ HeldBy'[i] = HeldBy[i] /\ HeldBy[i] # b
                                         /\ buf'[HeldBy[i]] = buf[HeldBy[i]]
  BY OutParts
<1>3. /\ reader'.pos = reader.pos /\ reader'.cur = reader.cur /\ reader'.out = reader.out
      /\ reader.pos \in 0 .. Parts /\ nextChunk \in 0 .. Parts
      /\ \/ reader'.pc = reader.pc
         \/ reader.pc = "open" /\ reader'.pc = "openSend"
         \/ reader.pc = "resend" /\ reader'.pc = "resendSend"
  BY <1>0, HeldFacts DEF Asked
<1> HIDE DEF b
<1>4. \A i \in 0 .. Parts : i # nextChunk => bufMap'[i] = bufMap[i]
  BY <1>0, <1>1, <1>3, Bounds DEF Types
<1>5. ASSUME NEW i \in 0 .. Parts, Held(i)'
      PROVE  /\ buf'[HeldBy'[i]].limit = StartOf(i + 1) - StartOf(i)
             /\ \A k \in 1 .. Len(buf'[HeldBy'[i]].data) : buf'[HeldBy'[i]].data[k] = StartOf(i) + k - 1
             /\ bufMap'[i] # NoBuf => buf'[HeldBy'[i]].off = 0
  <2>1. CASE i = nextChunk
    <3>1. Len(buf'[b].data) = 0
      BY <1>1
    <3> QED BY <1>1, <1>2, <2>1, <3>1
  <2>2. CASE i # nextChunk
    <3>1. Held(i)
      BY <1>1, <1>3, <1>5, <2>2 DEF Held
    <3> QED BY <1>2, <1>4, <2>2, <3>1 DEF Contents
  <2> QED BY <2>1, <2>2
<1>6. reader.pc \in {"read", "wait"} => buf'[reader.cur] = buf[reader.cur]
  <2> SUFFICES ASSUME reader.pc \in {"read", "wait"} PROVE buf'[reader.cur] = buf[reader.cur]
    OBVIOUS
  <2>1. Held(reader.pos) /\ HeldBy[reader.pos] = reader.cur
    BY <1>0, <1>3, HeldFacts DEF Places, Popped, Held, HeldBuf
  <2> QED BY <1>2, <1>3, <2>1
<1>7. reader.pc = "finish" => buf'[reader.cur] = buf[reader.cur]
  <2> SUFFICES ASSUME reader.pc = "finish" PROVE buf'[reader.cur] = buf[reader.cur]
    OBVIOUS
  <2>1. reader.cur \in Taken /\ reader.cur \in Blocks /\ \A j \in 0 .. Parts : bufMap[j] # reader.cur
    BY <1>0, Bounds DEF Mapped, Taken
  <2> QED BY <1>1, <1>3, <2>1
<1> QED BY <1>3, <1>5, <1>6, <1>7 DEF Contents, Detached, Idle

-----------------------------------------------------------------------------
(* The workers                                                              *)

\* Neither the buffers nor the reader have changed.
LEMMA SameParts ==
    ASSUME DownloadInv, ~closed, UNCHANGED <<nextChunk, bufMap, buf, reader>>
    PROVE  PartsStay /\ (Contents => Contents')
<1>1. HeldBy' = HeldBy
  BY DEF HeldBy, HeldBuf
<1>2. Had' = Had /\ ToCome' = ToCome
  BY <1>1 DEF Had, ToCome
<1>3. reader.pos \in 0 .. Parts /\ nextChunk \in 0 .. Parts
  BY HeldFacts
<1>4. PartsStay
  BY <1>1, <1>2, <1>3 DEF PartsStay
<1> QED BY <1>1, <1>4 DEF Contents, Held

LEMMA OthersKept ==
    ASSUME NEW w \in Workers, Moved(w)
    PROVE  \A v \in Workers \ {w} : Kept(v)
BY DEF Moved, Kept, Busy

\* Worker w goes on with its chunk.
LEMMA GoesOn ==
    ASSUME DownloadInv, ~closed, ChunksInv, NEW w \in Workers, NEW p, worker' = Now(w, p),
           worker[w].pc \in {"request", "overload", "grow"},
           p \in {"request", "overload", "requeue", "grow", "copy"},
           UNCHANGED <<canceled, nextChunk, bufMap, buf, reader, chunkCh, mu, sending>>
    PROVE  ChunksInv'
<1>1. Moved(w) /\ Keeps(w) /\ worker'[w].pc = p
  <2>1. p \in WorkPcs
    BY DEF WorkPcs
  <2> QED BY <2>1, NowFacts DEF DownloadInv
<1>2. Kept(w)
  BY <1>1 DEF Keeps, Kept, Busy
<1> QED BY <1>1, <1>2, SameParts, OthersKept, ChunksStay DEF DownloadInv

\* It puts it down.
LEMMA PutsDown ==
    ASSUME DownloadInv, ~closed, ChunksInv, NEW w \in Workers, Moved(w),
           worker'[w].pc \in {"take", "ended", "panic"}, canceled => canceled',
           canceled' \/ ~Busy(w) \/ worker[w].got = worker[w].ch.size,
           UNCHANGED <<nextChunk, bufMap, buf, reader, chunkCh, mu, sending>>
    PROVE  ChunksInv'
<1>1. ~Busy(w)'
  BY DEF Busy
<1> QED BY <1>1, SameParts, OthersKept, ChunksStay DEF DownloadInv

\* A request has failed after n bytes.
LEMMA RetryChunks ==
    ASSUME DownloadInv, ~closed, ChunksInv, NEW w \in Workers, Busy(w),
           Retry(w, worker[w].got),
           UNCHANGED <<nextChunk, bufMap, buf, reader, chunkCh, mu, sending>>
    PROVE  ChunksInv'
<1>0. Types /\ Sizes
  BY DEF DownloadInv
<1>1. worker[w].got \in 0 .. worker[w].ch.size /\ worker[w].got <= worker[w].ch.size
  <2>1. worker[w].got \in Nat /\ worker[w].ch \in Chunks
    BY <1>0, ChunkFacts
  <2>2. worker[w].ch.size \in Nat /\ worker[w].got <= worker[w].ch.size
    BY <1>0, <2>1, ChunkFacts DEF Sizes
  <2> QED BY <2>1, <2>2
<1>2. Moved(w) /\ ((End(w) /\ canceled') \/ Again(w, worker[w].got))
  BY <1>0, <1>1, RetryFacts
<1>3. CASE End(w) /\ canceled'
  <2>1. worker'[w].pc = "ended"
    BY <1>0, <1>3, EndFacts
  <2> QED BY <1>2, <1>3, <2>1, PutsDown
<1>4. CASE Again(w, worker[w].got)
  BY <1>0, <1>1, <1>2, <1>4, SameParts, OthersKept, ChunksAgain
<1> QED BY <1>2, <1>3, <1>4

LEMMA TakeChunks ==
    ASSUME DownloadInv, ~closed, ChunksInv, NEW w \in Workers, Take(w)
    PROVE  ChunksInv'
<1>0. Types /\ Sizes /\ PartsStay
  BY SameParts DEF DownloadInv, Take, plan
<1>1. /\ worker[w].pc = "take" /\ ~Busy(w)
      /\ UNCHANGED <<canceled, nextChunk, bufMap, buf, reader, mu, sending>>
  BY DEF Take, plan, lock, Busy
<1>2. CASE End(w) /\ UNCHANGED chunkCh
  <2>1. Moved(w) /\ worker'[w].pc = "ended"
    BY <1>0, <1>2, EndFacts
  <2> QED BY <1>1, <1>2, <2>1, PutsDown
<1>3. CASE /\ chunkCh # <<>> /\ chunkCh' = Tail(chunkCh)
           /\ worker' = [worker EXCEPT ![w] = [NoWorker EXCEPT !.pc = "request", !.ch = Head(chunkCh)]]
  <2>1. Head(chunkCh) \in Chunks /\ Within(Head(chunkCh))
    <3>1. chunkCh \in Seq(Chunks) /\ \A k \in 1 .. Len(chunkCh) : Within(chunkCh[k])
      BY <1>0 DEF Types, Sizes
    <3> QED BY <1>3, <3>1, SeqTail
  <2>2. "request" \in WorkPcs
    BY DEF WorkPcs
  <2>3. /\ Moved(w) /\ worker'[w].pc = "request" /\ worker'[w].ch = Head(chunkCh)
        /\ worker'[w].got = 0
    BY <1>0, <1>3, <2>1, <2>2, FreshFacts
  <2> QED BY <1>0, <1>1, <1>3, <2>3, OthersKept, ChunksTaken
<1> QED BY <1>2, <1>3 DEF Take

LEMMA RequeueChunks ==
    ASSUME DownloadInv, ~closed, ChunksInv, NEW w \in Workers, Requeue(w)
    PROVE  ChunksInv'
<1>0. Types /\ Sizes /\ PartsStay
  BY SameParts DEF DownloadInv, Requeue, plan
<1>1. /\ worker[w].pc = "requeue"
      /\ UNCHANGED <<canceled, nextChunk, bufMap, buf, reader, mu, sending>>
  BY DEF Requeue, plan, lock
<1>2. End(w) /\ ((canceled /\ UNCHANGED chunkCh) \/ chunkCh' = Append(chunkCh, worker[w].ch))
  BY DEF Requeue
<1>3. Moved(w) /\ worker'[w].pc = "ended" /\ ~Busy(w)'
  BY <1>0, <1>2, EndFacts DEF Busy
<1>4. CASE canceled /\ UNCHANGED chunkCh
  BY <1>1, <1>3, <1>4, PutsDown
<1>5. CASE chunkCh' = Append(chunkCh, worker[w].ch)
  BY <1>0, <1>1, <1>3, <1>5, OthersKept, ChunksBack
<1> QED BY <1>2, <1>4, <1>5

LEMMA GrowSendChunks ==
    ASSUME DownloadInv, ~closed, ChunksInv, NEW w \in Workers, GrowSend(w)
    PROVE  ChunksInv'
<1>0. Types /\ Sizes /\ Control /\ PartsStay
  BY SameParts DEF DownloadInv, GrowSend, plan
<1>1. /\ worker[w].pc = "send" /\ worker' = Now(w, "copy") /\ mu' = Free
      /\ chunkCh' = Append(chunkCh, sending) \/ (canceled /\ chunkCh' = chunkCh)
      /\ UNCHANGED <<canceled, nextChunk>>
  BY DEF GrowSend, Sent, Unsent, Unlock, plan
<1>2. mu # Free
  BY <1>0, <1>1, Bounds DEF Control
<1>3. Moved(w) /\ Keeps(w) /\ worker'[w].pc = "copy"
  <2>1. "copy" \in WorkPcs
    BY DEF WorkPcs
  <2> QED BY <1>0, <1>1, <2>1, NowFacts
<1>4. \A v \in Workers : Kept(v)
  <2>1. Kept(w)
    BY <1>1, <1>3 DEF Keeps, Kept, Busy
  <2> QED BY <1>3, <2>1, OthersKept
<1> QED BY <1>0, <1>1, <1>2, <1>4, ChunksSent

LEMMA GrowOut ==
    ASSUME DownloadInv, ChunksInv, Contents, NEW w \in Workers, worker[w].pc = "grow", mu = Free,
           Prepare(w, TRUE, Now(w, "send")),
           UNCHANGED <<canceled, closed, chunkCh, reader>>
    PROVE  Contents' /\ ChunksInv'
<1> DEFINE ws == Now(w, "send")
<1>0. Types /\ Sizes /\ Counting
  BY DEF DownloadInv
<1>1. HandsOut(TRUE) /\ HandedWorker(TRUE, ws) /\ mu' = w /\ Asked
  <2>1. Asked
    BY <1>0 DEF Asked, Types
  <2> QED BY <2>1, PrepareSplits
<1>2. concurrency > 0 /\ worker' = [ws EXCEPT ![Cardinality(Spawned) + 1].pc = "take"]
  BY <1>1 DEF HandedWorker
<1>3. /\ ws \in [Workers -> WorkRecs] /\ ws[w].pc = "send"
      /\ ws[w].ch = worker[w].ch /\ ws[w].got = worker[w].got
      /\ \A v \in Workers \ {w} : ws[v] = worker[v]
  BY <1>0 DEF Now, Types, WorkRecs, WorkPcs
<1> HIDE DEF ws
<1>4. \A v \in Workers : /\ Within(ws[v].ch) /\ ws[v].got <= ws[v].ch.size
                         /\ ws[v].pc = worker[v].pc \/ (worker[v].pc = "grow" /\ ws[v].pc = "send")
  BY <1>0, <1>3 DEF Sizes
<1>5. PICK u \in Workers : /\ u \notin Spawned /\ worker' = [ws EXCEPT ![u].pc = "take"]
                          /\ worker'[u].pc = "take" /\ \A v \in Workers : v # u => worker'[v] = ws[v]
  BY <1>0, <1>2, <1>3, <1>4, SpawnFacts
<1>6. /\ worker[u].pc = "none" /\ u # w
      /\ worker'[u].ch = worker[u].ch /\ worker'[u].got = worker[u].got
  <2>1. worker[u].pc = "none" /\ u # w
    BY <1>5 DEF Spawned
  <2>2. ws[u] = worker[u] /\ ws[u] \in WorkRecs
    BY <1>3, <1>5, <2>1
  <2>3. worker'[u] = [ws[u] EXCEPT !.pc = "take"]
    BY <1>3, <1>5
  <2> QED BY <2>1, <2>2, <2>3 DEF WorkRecs
<1>7. \A v \in Workers : Kept(v)
  <2>1. Kept(u)
    BY <1>5, <1>6 DEF Kept, Busy
  <2>2. Kept(w)
    BY <1>3, <1>5, <1>6 DEF Kept, Busy
  <2>3. \A v \in Workers \ {u, w} : Kept(v)
    BY <1>3, <1>5 DEF Kept, Busy
  <2> QED BY <2>1, <2>2, <2>3
<1>8. mu' # Free
  BY <1>1, Bounds
<1> QED BY <1>1, <1>7, <1>8, OutChunks, OutContents

LEMMA StepsChunks ==
    ASSUME DownloadInv, ~closed, ChunksInv, NEW w \in Workers,
           Answered(w) \/ Refused(w) \/ Overload(w) \/ Broken(w) \/ Copied(w)
    PROVE  ChunksInv'
<1>0. Types /\ Sizes
  BY DEF DownloadInv
<1>1. CASE Answered(w)
  BY <1>1, GoesOn DEF Answered, plan, lock
<1>2. CASE Refused(w)
  BY <1>2, GoesOn DEF Refused, plan, lock
<1>3. CASE Overload(w)
  <2>1. /\ worker[w].pc = "overload"
        /\ worker' = Now(w, "requeue") \/ worker' = Now(w, "request")
        /\ UNCHANGED <<canceled, nextChunk, bufMap, buf, reader, chunkCh, mu, sending>>
    BY <1>3 DEF Overload, lock
  <2> QED BY <2>1, GoesOn
<1>4. CASE Broken(w)
  <2>1. /\ End(w) /\ canceled'
        /\ UNCHANGED <<nextChunk, bufMap, buf, reader, chunkCh, mu, sending>>
    BY <1>4 DEF Broken, plan, lock
  <2>2. Moved(w) /\ worker'[w].pc = "ended"
    BY <1>0, <2>1, EndFacts
  <2> QED BY <2>1, <2>2, PutsDown
<1>5. CASE Copied(w)
  <2> DEFINE y == [NoWorker EXCEPT !.pc = "take"]
  <2>1. /\ worker[w].got = worker[w].ch.size /\ worker' = [worker EXCEPT ![w] = y]
        /\ UNCHANGED <<canceled, nextChunk, bufMap, buf, reader, chunkCh, mu, sending>>
    BY <1>5 DEF Copied, plan, lock
  <2>2. y \in WorkRecs /\ y.pc = "take" /\ Within(y.ch) /\ y.got <= y.ch.size
    <3>1. y.ch = NoChunk /\ y.got = 0 /\ y.pc = "take" /\ y \in WorkRecs
      BY Records DEF NoWorker, WorkRecs, WorkPcs
    <3> QED BY <3>1, Records
  <2> HIDE DEF y
  <2>3. Moved(w) /\ worker'[w].pc = "take"
    BY <1>0, <2>1, <2>2 DEF Moved, Types
  <2> QED BY <2>1, <2>3, PutsDown
<1> QED BY <1>1, <1>2, <1>3, <1>4, <1>5

\* A request or a body has failed: the rest of the chunk is requested, or the worker ends.
LEMMA FailureChunks ==
    ASSUME DownloadInv, ~closed, ChunksInv, NEW w \in Workers, RefusedFirst(w) \/ CopyFails(w)
    PROVE  ChunksInv'
<1>0. Busy(w) /\ UNCHANGED <<nextChunk, bufMap, buf, reader, chunkCh, mu, sending>>
  BY DEF RefusedFirst, CopyFails, Busy, plan, lock
<1>1. CASE RefusedFirst(w)
  <2>1. worker[w].pc # "copy" /\ Retry(w, 0)
    BY <1>1 DEF RefusedFirst
  <2>2. Retry(w, worker[w].got)
    BY <1>0, <2>1 DEF ChunksInv, AtWork
  <2> QED BY <1>0, <2>2, RetryChunks
<1>2. CASE CopyFails(w)
  BY <1>0, <1>2, RetryChunks DEF CopyFails
<1> QED BY <1>1, <1>2

LEMMA WorkerBytes ==
    ASSUME DownloadInv, ~closed, Contents, ChunksInv, NEW w \in Workers, WorkerStep(w)
    PROVE  Contents' /\ ChunksInv'
<1>1. CASE Take(w) \/ Answered(w) \/ Refused(w) \/ RefusedFirst(w) \/ Broken(w) \/ Overload(w)
           \/ Requeue(w) \/ GrowSend(w) \/ Copied(w) \/ CopyFails(w)
  <2>1. UNCHANGED <<nextChunk, bufMap, buf, reader>>
    BY <1>1 DEF Take, Answered, Refused, RefusedFirst, Broken, Overload, Requeue, GrowSend, Copied,
                CopyFails, plan
  <2>2. Contents'
    BY <2>1, SameParts
  <2>3. ChunksInv'
    BY <1>1, TakeChunks, StepsChunks, FailureChunks, RequeueChunks, GrowSendChunks
  <2> QED BY <2>2, <2>3
<1>2. CASE Copy(w)
  <2>1. PICK k \in Nat : Copies(w, k)
    BY <1>2, CopyCopies
  <2> QED BY <2>1, CopiesChunks, CopiesContents
<1>3. CASE Grow(w)
  <2>1. /\ worker[w].pc = "grow" /\ mu = Free
        /\ UNCHANGED <<canceled, closed, chunkCh, reader>>
    BY <1>3 DEF Grow
  <2>2. CASE Prepare(w, TRUE, Now(w, "send"))
    BY <2>1, <2>2, GrowOut
  <2>3. CASE worker' = Now(w, "copy") /\ UNCHANGED <<plan, bufMap, buf, limit, lock>>
    BY <2>1, <2>3, GoesOn, SameParts DEF plan, lock
  <2> QED BY <1>3, <2>2, <2>3 DEF Grow
<1> QED BY <1>1, <1>2, <1>3 DEF WorkerStep

-----------------------------------------------------------------------------
(* The reader                                                               *)

LEMMA AllKept ==
    ASSUME UNCHANGED worker
    PROVE  \A w \in Workers : Kept(w)
BY DEF Kept, Busy

\* The chunks stay where they are when the reader does something with its own buffer.
LEMMA ReaderChunks ==
    ASSUME DownloadInv, ChunksInv, PartsStay, canceled => canceled',
           UNCHANGED <<nextChunk, chunkCh, mu, sending, worker>>
    PROVE  ChunksInv'
BY AllKept, ChunksStay DEF DownloadInv

LEMMA OpenOut ==
    ASSUME DownloadInv, ChunksInv, Contents, Open
    PROVE  Contents' /\ ChunksInv'
<1>0. Types /\ Sizes /\ Counting /\ Control
  BY DEF DownloadInv
<1>1. /\ reader.pc = "open" /\ Prepare(Reader, TRUE, worker) /\ reader' = Turn("openSend")
      /\ UNCHANGED <<canceled, chunkCh>>
  BY DEF Open
<1>2. Asked
  <2>1. reader \in ReadRecs
    BY <1>0 DEF Types
  <2> QED BY <1>1, <2>1 DEF Asked, Turn, ReadRecs, ReadPcs
<1>3. HandsOut(TRUE) /\ HandedWorker(TRUE, worker) /\ mu' = Reader
  BY <1>1, PrepareSplits
<1>4. concurrency > 0 /\ worker' = [worker EXCEPT ![Cardinality(Spawned) + 1].pc = "take"]
  BY <1>3 DEF HandedWorker
<1>5. /\ worker \in [Workers -> WorkRecs]
      /\ \A v \in Workers : Within(worker[v].ch) /\ worker[v].got <= worker[v].ch.size
  BY <1>0 DEF Types, Sizes
<1>6. PICK u \in Workers : /\ u \notin Spawned /\ worker' = [worker EXCEPT ![u].pc = "take"]
                          /\ \A v \in Workers : v # u => worker'[v] = worker[v]
  BY <1>0, <1>4, <1>5, SpawnFacts
<1>7. \A v \in Workers : Kept(v)
  <2>1. worker[u].pc = "none" /\ worker'[u] = [worker[u] EXCEPT !.pc = "take"]
    BY <1>5, <1>6 DEF Spawned
  <2>2. worker'[u].pc = "take" /\ worker'[u].ch = worker[u].ch /\ worker'[u].got = worker[u].got
    BY <1>5, <2>1 DEF WorkRecs
  <2>3. Kept(u)
    BY <2>1, <2>2 DEF Kept, Busy
  <2>4. \A v \in Workers \ {u} : Kept(v)
    BY <1>6 DEF Kept, Busy
  <2> QED BY <2>3, <2>4
<1>8. mu = Free
  <2>1. reader.pc \in Idle /\ reader.pc \notin {"openSend", "resendSend"}
    BY <1>1 DEF Idle
  <2>2. \A w \in Workers : worker[w].pc = "none"
    BY <1>0, <2>1 DEF Control, Spawned
  <2> QED BY <1>0, <2>1, <2>2 DEF Control, Types
<1> QED BY <1>1, <1>2, <1>3, <1>7, <1>8, Bounds, OutChunks, OutContents

LEMMA ResendOut ==
    ASSUME DownloadInv, ChunksInv, Contents, Resend, Prepare(Reader, FALSE, worker),
           reader' = Turn("resendSend")
    PROVE  Contents' /\ ChunksInv'
<1>1. reader.pc = "resend" /\ mu = Free /\ UNCHANGED <<canceled, chunkCh>>
  BY DEF Resend
<1>2. Asked
  <2>1. reader \in ReadRecs
    BY DEF DownloadInv, Types
  <2> QED BY <1>1, <2>1 DEF Asked, Turn, ReadRecs, ReadPcs
<1>3. HandsOut(FALSE) /\ mu' = Reader /\ worker' = worker
  BY PrepareSplits DEF HandedWorker
<1> QED BY <1>1, <1>2, <1>3, Bounds, AllKept, OutChunks, OutContents

\* The reader goes on, its buffers as they were.
LEMMA TurnContents ==
    ASSUME DownloadInv, ~closed, Contents, NEW pc, reader' = Turn(pc),
           UNCHANGED <<nextChunk, bufMap, buf>>, pc \notin {"read", "wait", "finish"},
           pc \in Detached \cup {"eof"} => reader.pc \in Detached
    PROVE  PartsStay /\ Contents'
<1>1. /\ reader'.pos = reader.pos /\ reader'.cur = reader.cur /\ reader'.out = reader.out
      /\ reader'.pc = pc
  BY DEF DownloadInv, Types, ReadRecs, Turn
<1>2. HeldBy' = HeldBy
  BY <1>1 DEF HeldBy, HeldBuf
<1>3. Had' = Had /\ ToCome' = ToCome
  BY <1>2 DEF Had, ToCome
<1>4. reader.pos \in 0 .. Parts /\ nextChunk \in 0 .. Parts
  BY HeldFacts
<1>5. PartsStay
  BY <1>1, <1>2, <1>3, <1>4 DEF PartsStay
<1>6. /\ \A i \in 0 .. Parts : Held(i)' <=> Held(i)
      /\ reader'.pc \notin {"read", "wait", "finish"}
      /\ reader'.pc \in Detached \cup {"finish", "eof"} => reader.pc \in Detached
  BY <1>1 DEF Held
<1> QED BY <1>1, <1>2, <1>5, <1>6 DEF Contents

LEMMA WalksBytes ==
    ASSUME DownloadInv, ~closed, Contents, ChunksInv,
           \/ Acquire \/ OpenFails \/ ReadFails \/ Close
           \/ (Resend /\ Declines(FALSE) /\ reader' = Turn("pop")
               /\ UNCHANGED <<plan, bufMap, buf, worker, limit, lock>>)
    PROVE  Contents' /\ ChunksInv' /\ reader'.out = reader.out
<1>1. /\ canceled => canceled'
      /\ UNCHANGED <<nextChunk, bufMap, buf, chunkCh, mu, sending, worker>>
  <2>1. UNCHANGED <<nextChunk, bufMap, buf, chunkCh, mu, sending, worker>>
    BY DEF Acquire, OpenFails, ReadFails, Close, Resend, plan, lock
  <2>2. canceled' = canceled \/ canceled'
    BY DEF Acquire, OpenFails, ReadFails, Close, Resend
  <2> QED BY <2>1, <2>2
<1>2. \E pc \in {"refused", "open", "close", "closing", "pop"} :
         reader' = Turn(pc) /\ (pc \in Detached => reader.pc \in Detached)
  <2>1. CASE ReadFails
    <3>1. reader.cur # NoBuf \/ reader.pc # "read"
      BY ReadingAt, Bounds
    <3> QED BY <2>1, <3>1 DEF ReadFails, Detached, Idle
  <2>2. CASE ~ReadFails
    BY <2>2 DEF Acquire, OpenFails, Close, Resend, Detached, Idle
  <2> QED BY <2>1, <2>2
<1>3. PICK pc \in {"refused", "open", "close", "closing", "pop"} :
         reader' = Turn(pc) /\ (pc \in Detached => reader.pc \in Detached)
  BY <1>2
<1>4. PartsStay /\ Contents'
  BY <1>1, <1>3, TurnContents
<1>5. reader'.out = reader.out
  BY <1>3 DEF DownloadInv, Types, ReadRecs, Turn
<1> QED BY <1>1, <1>4, <1>5, ReaderChunks

LEMMA SendsBytes ==
    ASSUME DownloadInv, ~closed, Contents, ChunksInv, OpenSend \/ ResendSend
    PROVE  Contents' /\ ChunksInv' /\ reader'.out = reader.out
<1>0. Types /\ Control
  BY DEF DownloadInv
<1>1. /\ reader.pc \in {"openSend", "resendSend"} /\ mu' = Free
      /\ Sent \/ Unsent
      /\ UNCHANGED <<canceled, nextChunk, bufMap, buf, worker>>
  BY DEF OpenSend, ResendSend, Unlock, plan
<1>2. PICK pc \in {"pop", "abandon"} : reader' = Turn(pc)
  BY DEF OpenSend, ResendSend
<1>3. PartsStay /\ Contents'
  BY <1>1, <1>2, TurnContents DEF Detached, Idle
<1>4. mu # Free
  BY <1>0, <1>1, Bounds DEF Control
<1>5. chunkCh' = Append(chunkCh, sending) \/ (canceled /\ chunkCh' = chunkCh)
  BY <1>1 DEF Sent, Unsent
<1>6. reader'.out = reader.out
  BY <1>0, <1>2 DEF Types, ReadRecs, Turn
<1> QED BY <1>0, <1>1, <1>3, <1>4, <1>5, <1>6, AllKept, ChunksSent

LEMMA PopBytes ==
    ASSUME DownloadInv, Contents, ChunksInv, Pop
    PROVE  Contents' /\ ChunksInv' /\ reader'.out = reader.out
<1>0. Types /\ Places /\ Mapped /\ ~closed
  BY PopFacts DEF DownloadInv
<1>1. /\ PopEffect /\ reader.pc = "pop" /\ reader.pos < nextChunk
      /\ reader.pos \in 0 .. Parts /\ bufMap[reader.pos] # NoBuf /\ nextChunk \in 0 .. Parts
  BY <1>0, PopFacts, HeldFacts
<1>2. UNCHANGED <<canceled, nextChunk, chunkCh, buf, worker, mu, sending>>
  BY DEF Pop, plan, lock
<1>3. /\ reader'.pc = "read" /\ reader'.cur = bufMap[reader.pos] /\ reader'.pos = reader.pos
      /\ reader'.out = reader.out /\ bufMap'[reader.pos] = NoBuf
      /\ \A i \in 0 .. Parts : i # reader.pos => bufMap'[i] = bufMap[i]
  BY <1>1 DEF PopEffect
<1>4. \A i \in 0 .. Parts : HeldBy'[i] = HeldBy[i]
  <2> SUFFICES ASSUME NEW i \in 0 .. Parts PROVE HeldBy'[i] = HeldBy[i]
    OBVIOUS
  <2>1. CASE i = reader.pos
    BY <1>1, <1>3, <2>1 DEF HeldBy, HeldBuf
  <2>2. CASE i # reader.pos
    BY <1>3, <2>2 DEF HeldBy, HeldBuf
  <2> QED BY <2>1, <2>2
<1>5. PartsStay
  BY <1>1, <1>2, <1>3, <1>4 DEF PartsStay, Had, ToCome
<1>6. /\ reader.out = StartOf(reader.pos) /\ HeldBy[reader.pos] = bufMap[reader.pos]
      /\ buf[bufMap[reader.pos]].off = 0
  <2>1. HeldBy[reader.pos] = bufMap[reader.pos] /\ Held(reader.pos)
    BY <1>0, <1>1, HeldFacts DEF HeldBuf, Held
  <2> QED BY <1>1, <2>1 DEF Contents, Detached
<1>7. reader'.out = StartOf(reader'.pos) + buf'[reader'.cur].off
  BY <1>1, <1>2, <1>3, <1>6, StartNat
<1>8. ASSUME NEW i \in 0 .. Parts, Held(i)'
      PROVE  /\ buf'[HeldBy'[i]].limit = StartOf(i + 1) - StartOf(i)
             /\ \A k \in 1 .. Len(buf'[HeldBy'[i]].data) : buf'[HeldBy'[i]].data[k] = StartOf(i) + k - 1
             /\ bufMap'[i] # NoBuf => buf'[HeldBy'[i]].off = 0
  <2>1. Held(i) /\ (bufMap'[i] # NoBuf => bufMap[i] # NoBuf)
    BY <1>2, <1>3, <1>8 DEF Held
  <2> QED BY <1>2, <1>4, <2>1 DEF Contents
<1>9. Contents'
  BY <1>3, <1>7, <1>8 DEF Contents, Detached, Idle
<1> QED BY <1>2, <1>3, <1>5, <1>9, ReaderChunks

\* A part of which the reader has had all is complete.
LEMMA GetsParts ==
    ASSUME DownloadInv, Contents, NEW d \in Nat, Gets(d), reader.pc \in {"read", "wait"},
           UNCHANGED <<nextChunk, bufMap>>
    PROVE  /\ PartsStay
           /\ \A i \in 0 .. Parts : Held(i)' => Held(i) /\ HeldBy'[i] = HeldBy[i]
           /\ Held(reader.pos) /\ HeldBy[reader.pos] = reader.cur
<1>0. Types /\ Mapped /\ ~closed
  BY ReadingAt DEF DownloadInv
<1>1. /\ Popped /\ reader.cur \in Blocks /\ reader.pos \in 0 .. Parts /\ reader.pos < nextChunk
      /\ nextChunk \in 0 .. Parts
  BY ReadingAt
<1>2. /\ reader' \in ReadRecs /\ reader'.cur = reader.cur
      /\ \A b \in Blocks : buf'[b].data = buf[b].data /\ buf'[b].limit = buf[b].limit
      /\ \/ reader'.pos = reader.pos
         \/ /\ reader'.pos = reader.pos + 1 /\ buf[reader.cur].off + d = buf[reader.cur].limit
      /\ buf[reader.cur].off + d <= Len(buf[reader.cur].data)
  BY DEF Gets
<1>3. Held(reader.pos) /\ HeldBy[reader.pos] = reader.cur
  BY <1>0, <1>1, HeldFacts DEF Held, Popped, HeldBuf
<1>4. reader'.pos = reader.pos \/ (reader'.pos = reader.pos + 1 /\ ToCome[reader.pos] = 0)
  <2>1. /\ ToCome[reader.pos] = buf[reader.cur].limit - Len(buf[reader.cur].data)
        /\ buf[reader.cur].limit \in Nat /\ Len(buf[reader.cur].data) \in Nat
        /\ Len(buf[reader.cur].data) <= buf[reader.cur].limit
    <3>1. /\ Had[reader.pos] = Len(buf[reader.cur].data) /\ Had[reader.pos] \in Nat
          /\ ToCome[reader.pos] = buf[reader.cur].limit - Had[reader.pos]
          /\ buf[reader.cur].limit \in Nat
      BY <1>0, <1>1, <1>3, HeldSizes
    <3>2. Len(buf[reader.cur].data) <= buf[reader.cur].limit
      BY ReadingAt
    <3> QED BY ONLY <3>1, <3>2
  <2> QED BY <1>2, <2>1
<1>5. \A i \in 0 .. Parts : Held(i)' => Held(i)
  BY <1>1, <1>2 DEF Held
<1>6. ASSUME NEW i \in 0 .. Parts, Held(i)'
      PROVE  HeldBy'[i] = HeldBy[i]
  <2>1. CASE reader'.pos = reader.pos
    BY <1>2, <2>1 DEF HeldBy, HeldBuf
  <2>2. CASE reader'.pos = reader.pos + 1
    <3>1. i # reader.pos /\ Held(i)
      BY <1>1, <1>5, <1>6, <2>2 DEF Held
    <3>2. bufMap[i] # NoBuf
      BY <1>0, <3>1 DEF Mapped, Held, HeldBuf
    <3> QED BY <3>2 DEF HeldBy, HeldBuf
  <2> QED BY <1>2, <2>1, <2>2
<1>7. \A i \in 0 .. Parts : Held(i)' => Had'[i] = Had[i] /\ ToCome'[i] = ToCome[i]
  <2> SUFFICES ASSUME NEW i \in 0 .. Parts, Held(i)'
               PROVE  Had'[i] = Had[i] /\ ToCome'[i] = ToCome[i]
    OBVIOUS
  <2>1. HeldBy'[i] = HeldBy[i] /\ HeldBy[i] \in Blocks
    BY <1>0, <1>5, <1>6, HeldFacts
  <2>2. buf'[HeldBy[i]].data = buf[HeldBy[i]].data /\ buf'[HeldBy[i]].limit = buf[HeldBy[i]].limit
    BY <1>2, <2>1
  <2> QED BY <2>1, <2>2 DEF Had, ToCome
<1>8. reader'.pos \in 0 .. Parts
  BY <1>2 DEF ReadRecs
<1>9. PartsStay
  BY <1>1, <1>4, <1>6, <1>7, <1>8 DEF PartsStay, Held
<1> QED BY <1>3, <1>5, <1>6, <1>9

LEMMA GetsContents ==
    ASSUME DownloadInv, Contents, NEW d \in Nat, Gets(d), reader.pc \in {"read", "wait"},
           UNCHANGED <<nextChunk, bufMap>>
    PROVE  Contents' /\ reader'.out <= Length
<1> DEFINE b == reader.cur
           s == StartOf(reader.pos)
<1>0. Types /\ Mapped /\ ~closed
  BY ReadingAt DEF DownloadInv
<1>1. /\ Popped /\ b \in Blocks /\ reader.pos \in 0 .. Parts /\ reader.pos < nextChunk
      /\ nextChunk \in 0 .. Parts
  BY ReadingAt
<1>2. /\ PartsStay /\ Held(reader.pos) /\ HeldBy[reader.pos] = b
      /\ \A i \in 0 .. Parts : Held(i)' => Held(i) /\ HeldBy'[i] = HeldBy[i]
  BY GetsParts
<1>3. /\ reader'.cur = b /\ reader'.out = reader.out + d
      /\ \A c \in Blocks : /\ buf'[c].data = buf[c].data /\ buf'[c].limit = buf[c].limit
                           /\ c # b => buf'[c] = buf[c]
      /\ buf'[b].off = buf[b].off + d /\ buf[b].off + d <= Len(buf[b].data)
      /\ \/ reader'.pos = reader.pos /\ reader'.pc \in {"read", "wait"}
         \/ /\ reader'.pos = reader.pos + 1 /\ buf[b].off + d = buf[b].limit
            /\ reader'.pc \in {"eof", "finish"}
  BY DEF Gets
<1>4. /\ buf[b].limit = StartOf(reader.pos + 1) - s
      /\ \A k \in 1 .. Len(buf[b].data) : buf[b].data[k] = s + k - 1
      /\ reader.out = s + buf[b].off
  BY <1>1, <1>2 DEF Contents
<1>5. /\ s \in Nat /\ StartOf(reader.pos + 1) \in Nat /\ StartOf(reader.pos + 1) <= Length
      /\ buf[b].off \in Nat /\ buf[b].limit \in Nat /\ Len(buf[b].data) <= buf[b].limit
      /\ Len(buf[b].data) \in Nat
  <2>1. reader.pos + 1 \in 0 .. Parts
    BY <1>1, Bounds
  <2>2. /\ Had[reader.pos] = Len(buf[b].data) /\ Had[reader.pos] \in Nat
        /\ buf[b].off \in Nat /\ buf[b].limit \in Nat
    BY <1>0, <1>1, <1>2, HeldSizes
  <2>3. Len(buf[b].data) <= buf[b].limit
    BY ReadingAt
  <2> QED BY <1>1, <2>1, <2>2, <2>3, StartNat
<1> HIDE DEF b, s
<1>6. reader'.out <= Length
  <2>1. reader'.out = s + buf[b].off + d /\ buf[b].off + d <= Len(buf[b].data)
    BY <1>3, <1>4
  <2>2. buf[b].limit = StartOf(reader.pos + 1) - s
    BY <1>4
  <2>3. Length \in Nat
    BY Bounds
  <2> QED BY ONLY <1>5, <2>1, <2>2, <2>3, d \in Nat, SMTT(20)
<1>7. ASSUME NEW i \in 0 .. Parts, Held(i)'
      PROVE  /\ buf'[HeldBy'[i]].limit = StartOf(i + 1) - StartOf(i)
             /\ \A k \in 1 .. Len(buf'[HeldBy'[i]].data) : buf'[HeldBy'[i]].data[k] = StartOf(i) + k - 1
             /\ bufMap'[i] # NoBuf => buf'[HeldBy'[i]].off = 0
  <2>1. Held(i) /\ HeldBy'[i] = HeldBy[i] /\ HeldBy[i] \in Blocks
    BY <1>0, <1>2, <1>7, HeldFacts
  <2>2. bufMap[i] # NoBuf => HeldBy[i] # b
    <3> SUFFICES ASSUME bufMap[i] # NoBuf PROVE HeldBy[i] # b
      OBVIOUS
    <3>1. HeldBy[i] = bufMap[i]
      BY <1>0, HeldFacts DEF HeldBuf
    <3> QED BY <1>0, <1>1, <3>1 DEF Mapped, b
  <2> QED BY <1>3, <2>1, <2>2 DEF Contents
<1>8. CASE reader'.pos = reader.pos /\ reader'.pc \in {"read", "wait"}
  <2>1. reader'.out = StartOf(reader'.pos) + buf'[reader'.cur].off
    BY <1>3, <1>4, <1>5, <1>8 DEF s
  <2> QED BY <1>6, <1>7, <1>8, <2>1 DEF Contents, Detached, Idle
<1>9. CASE /\ reader'.pos = reader.pos + 1 /\ buf[b].off + d = buf[b].limit
           /\ reader'.pc \in {"eof", "finish"}
  <2>1. reader'.out = StartOf(reader'.pos)
    <3>1. reader'.out = s + buf[b].off + d /\ buf[b].off + d = StartOf(reader.pos + 1) - s
      BY <1>3, <1>4, <1>9
    <3>2. reader'.out = StartOf(reader.pos + 1)
      BY ONLY <1>5, <3>1, d \in Nat, SMTT(20)
    <3> QED BY <1>9, <3>2
  <2>2. ASSUME NEW k \in 1 .. Len(buf'[reader'.cur].data)
        PROVE  buf'[reader'.cur].data[k] = reader'.out - buf'[reader'.cur].off + k - 1
    <3>1. k \in 1 .. Len(buf[b].data) /\ buf'[reader'.cur].data[k] = s + k - 1
      BY <1>1, <1>3, <1>4, <2>2 DEF b
    <3>2. reader'.out - buf'[reader'.cur].off = s
      BY <1>3, <1>4, <1>5
    <3> QED BY <3>1, <3>2
  <2> QED BY <1>6, <1>7, <1>9, <2>1, <2>2 DEF Contents, Detached, Idle
<1> QED BY <1>3, <1>6, <1>8, <1>9

LEMMA ReadBytes ==
    ASSUME DownloadInv, Contents, ChunksInv, Read \/ Wake
    PROVE  Contents' /\ ChunksInv' /\ reader'.out <= Length
<1>1. /\ reader.pc \in {"read", "wait"}
      /\ UNCHANGED <<canceled, closed, plan, chunkCh, bufMap, worker, limit, lock>>
  BY ReadGets
<1>2. PICK d \in Nat : Gets(d)
  BY ReadGets
<1>3. UNCHANGED <<canceled, nextChunk, bufMap, chunkCh, mu, sending, worker>>
  BY <1>1 DEF plan, lock
<1> QED BY <1>1, <1>2, <1>3, GetsParts, GetsContents, ReaderChunks

LEMMA FinishBytes ==
    ASSUME DownloadInv, Contents, ChunksInv, Finish
    PROVE  Contents' /\ ChunksInv' /\ reader'.out = reader.out
<1>0. /\ reader.pc = "finish" /\ ~closed /\ FinishEffect /\ nextChunk \in 0 .. Parts
      /\ reader.pos \in 0 .. Parts
  BY FinishFacts, HeldFacts
<1>1. UNCHANGED <<canceled, nextChunk, chunkCh, mu, sending, worker>>
  BY DEF Finish, plan, lock
<1>2. /\ reader'.pos = reader.pos /\ reader'.cur = reader.cur /\ reader'.out = reader.out
      /\ reader'.pc \in {"resend", "pop"}
      /\ \A b \in Blocks : /\ buf'[b].data = buf[b].data /\ buf'[b].limit = buf[b].limit
                           /\ buf'[b].off = buf[b].off
      /\ \A i \in 0 .. Parts : i # nextChunk => bufMap'[i] = bufMap[i]
  BY <1>0, Bounds DEF FinishEffect
<1>3. \A i \in 0 .. Parts : Held(i)' <=> Held(i)
  BY <1>1, <1>2 DEF Held
<1>4. \A i \in 0 .. Parts : Held(i) => /\ HeldBy'[i] = HeldBy[i] /\ bufMap'[i] = bufMap[i]
                                      /\ HeldBy[i] \in Blocks
  <2> SUFFICES ASSUME NEW i \in 0 .. Parts, Held(i)
               PROVE  HeldBy'[i] = HeldBy[i] /\ bufMap'[i] = bufMap[i] /\ HeldBy[i] \in Blocks
    OBVIOUS
  <2>1. bufMap'[i] = bufMap[i]
    BY <1>0, <1>2 DEF Held
  <2> QED BY <1>0, <1>2, <2>1, HeldFacts DEF HeldBy, HeldBuf
<1>5. PartsStay
  <2>1. \A i \in 0 .. Parts : Held(i) => /\ HeldBy'[i] = HeldBy[i] /\ Had'[i] = Had[i]
                                         /\ ToCome'[i] = ToCome[i]
    BY <1>2, <1>4 DEF Had, ToCome
  <2> QED BY <1>0, <1>1, <1>2, <2>1 DEF PartsStay, Held
<1>6. ASSUME NEW i \in 0 .. Parts, Held(i)'
      PROVE  /\ buf'[HeldBy'[i]].limit = StartOf(i + 1) - StartOf(i)
             /\ \A k \in 1 .. Len(buf'[HeldBy'[i]].data) : buf'[HeldBy'[i]].data[k] = StartOf(i) + k - 1
             /\ bufMap'[i] # NoBuf => buf'[HeldBy'[i]].off = 0
  <2>1. Held(i)
    BY <1>3, <1>6
  <2> QED BY <1>2, <1>4, <2>1 DEF Contents
<1>7. reader'.out = StartOf(reader'.pos)
  BY <1>0, <1>2 DEF Contents
<1>8. Contents'
  BY <1>2, <1>6, <1>7 DEF Contents
<1> QED BY <1>1, <1>2, <1>5, <1>8, ReaderChunks

-----------------------------------------------------------------------------
(* The invariant holds                                                      *)

LEMMA InitBytes ==
    ASSUME Init
    PROVE  BytesInv
<1>1. /\ nextChunk = 0 /\ chunkCh = <<>> /\ mu = Free
      /\ reader = [pc |-> "start", pos |-> 0, cur |-> NoBuf, out |-> 0]
      /\ \A w \in Workers : worker[w] = NoWorker
  BY DEF Init
<1>2. /\ reader.pc = "start" /\ reader.pos = 0 /\ reader.out = 0
      /\ \A i \in 0 .. Parts : ~Held(i)
  BY <1>1, Bounds DEF Held
<1>3. Contents
  BY <1>2, Tiling DEF Contents
<1>4. \A w \in Workers : ~Busy(w)
  BY <1>1 DEF Busy, NoWorker
<1>5. Len(chunkCh) = 0
  BY <1>1
<1>6. ChunksInv
  BY <1>1, <1>2, <1>4, <1>5 DEF ChunksInv, InQueue, InSend, AtWork, Apart, NoneLost
<1> QED BY <1>2, <1>3, <1>6, Bounds DEF BytesInv

\* After interrupt nothing comes to the reader.
LEMMA ClosedBytes ==
    ASSUME DownloadInv, BytesInv, closed, [Next]_vars
    PROVE  BytesInv'
<1>0. reader.pc = "closed"
  BY DEF DownloadInv, Control
<1>1. UNCHANGED <<closed, reader>>
  <2>1. ASSUME NEW w \in Workers, WorkerStep(w)
        PROVE  UNCHANGED <<closed, reader>>
    BY <2>1 DEF WorkerStep, Take, Answered, Refused, RefusedFirst, Broken, Overload, Requeue, Grow,
                GrowSend, Copy, Copied, CopyFails
  <2>2. ~ReaderStep /\ ~Read /\ ~Close
    BY <1>0 DEF ReaderStep, Acquire, Open, OpenSend, OpenFails, Pop, Wake, ReadFails, Finish,
                Resend, ResendSend, Interrupt, Read, Close
  <2>3. Cancel => UNCHANGED <<closed, reader>>
    BY DEF Cancel
  <2>4. UNCHANGED vars => UNCHANGED <<closed, reader>>
    BY DEF vars
  <2> QED BY <2>1, <2>2, <2>3, <2>4 DEF Next
<1> QED BY <1>1 DEF BytesInv

LEMMA OpenBytes ==
    ASSUME DownloadInv, ~closed, Contents, ChunksInv, reader.out <= Length,
           ReaderStep \/ Read \/ Close \/ Cancel
    PROVE  BytesInv'
<1>1. CASE Open
  BY <1>1, OpenOut DEF BytesInv, Open, Turn, DownloadInv, Types, ReadRecs
<1>2. CASE Resend
  <2>1. CASE Prepare(Reader, FALSE, worker) /\ reader' = Turn("resendSend")
    BY <1>2, <2>1, ResendOut DEF BytesInv, Turn, DownloadInv, Types, ReadRecs
  <2>2. CASE /\ Declines(FALSE) /\ reader' = Turn("pop")
             /\ UNCHANGED <<plan, bufMap, buf, worker, limit, lock>>
    BY <1>2, <2>2, WalksBytes DEF BytesInv
  <2> QED BY <1>2, <2>1, <2>2 DEF Resend
<1>3. CASE Acquire \/ OpenFails \/ ReadFails \/ Close
  BY <1>3, WalksBytes DEF BytesInv
<1>4. CASE OpenSend \/ ResendSend
  BY <1>4, SendsBytes DEF BytesInv
<1>5. CASE Pop
  BY <1>5, PopBytes DEF BytesInv
<1>6. CASE Read \/ Wake
  BY <1>6, ReadBytes DEF BytesInv
<1>7. CASE Finish
  BY <1>7, FinishBytes DEF BytesInv
<1>8. CASE Interrupt
  BY <1>8 DEF Interrupt, CloseAll, Turn, BytesInv, DownloadInv, Types, ReadRecs
<1>9. CASE Cancel
  <2>1. /\ UNCHANGED <<nextChunk, bufMap, buf, reader, chunkCh, mu, sending, worker, closed>>
        /\ canceled'
    BY <1>9 DEF Cancel, plan, lock
  <2>2. PartsStay /\ Contents'
    BY <2>1, SameParts
  <2> QED BY <2>1, <2>2, ReaderChunks DEF BytesInv
<1> QED BY <1>1, <1>2, <1>3, <1>4, <1>5, <1>6, <1>7, <1>8, <1>9 DEF ReaderStep

LEMMA BytesStep ==
    ASSUME DownloadInv, BytesInv, [Next]_vars
    PROVE  BytesInv'
<1>1. CASE closed
  BY <1>1, ClosedBytes
<1> SUFFICES ASSUME ~closed PROVE BytesInv'
  BY <1>1
<1>2. Contents /\ ChunksInv /\ reader.out <= Length
  BY DEF BytesInv
<1>3. ASSUME NEW w \in Workers, WorkerStep(w)
      PROVE  BytesInv'
  <2>1. UNCHANGED reader
    BY <1>3 DEF WorkerStep, Take, Answered, Refused, RefusedFirst, Broken, Overload, Requeue, Grow,
                GrowSend, Copy, Copied, CopyFails
  <2> QED BY <1>2, <1>3, <2>1, WorkerBytes DEF BytesInv
<1>4. CASE ReaderStep \/ Read \/ Close \/ Cancel
  BY <1>2, <1>4, OpenBytes
<1>5. CASE UNCHANGED vars
  <2>1. UNCHANGED <<canceled, nextChunk, bufMap, buf, reader, chunkCh, mu, sending, worker>>
    BY <1>5 DEF vars
  <2>2. PartsStay /\ Contents'
    BY <1>2, <2>1, SameParts
  <2> QED BY <1>2, <2>1, <2>2, ReaderChunks DEF BytesInv
<1> QED BY <1>3, <1>4, <1>5 DEF Next

\* In every state each part that was handed out and not yet taken by the reader has its
\* first bytes in its buffer and the rest in one hand, if anywhere: in the queue, with a
\* worker, or with the one that sends it.  The chunk there asks for just that rest, hence for
\* nothing after an error behind the last byte.  Requests that are refused or break, chunks
\* that are put back and buffers that are used again do not change that.
THEOREM EveryByteHasItsPlace == Spec => []BytesInv
<1>1. Init => BytesInv
  BY InitBytes
<1>2. DownloadInv /\ BytesInv /\ [Next]_vars => BytesInv'
  BY BytesStep
<1> QED BY <1>1, <1>2, DownloadsHangTogether, PTL DEF Spec

-----------------------------------------------------------------------------
(* What it means for the reader                                             *)

\* A reader that is at work is not closed, and its part is its buffer's.
LEMMA ReadersPart ==
    ASSUME DownloadInv, BytesInv, reader.pc \in {"read", "wait"}
    PROVE  /\ ~closed /\ Contents /\ Held(reader.pos) /\ HeldBy[reader.pos] = reader.cur
           /\ reader.pos \in 0 .. Parts
<1>1. ~closed /\ Popped /\ reader.pos \in 0 .. Parts /\ reader.pos < nextChunk
      /\ nextChunk \in 0 .. Parts
  BY ReadingAt
<1>2. Held(reader.pos) /\ HeldBy[reader.pos] = reader.cur
  BY <1>1, HeldFacts DEF Held, Popped, HeldBuf
<1> QED BY <1>1, <1>2 DEF BytesInv

LEMMA OrderFollows ==
    ASSUME DownloadInv, BytesInv
    PROVE  InOrder
<1>1. CASE reader.pc \in {"read", "wait"}
  <2>1. /\ ~closed /\ Contents /\ Held(reader.pos) /\ HeldBy[reader.pos] = reader.cur
        /\ reader.pos \in 0 .. Parts
    BY <1>1, ReadersPart
  <2>2. /\ \A i \in 1 .. Len(buf[reader.cur].data) :
              buf[reader.cur].data[i] = StartOf(reader.pos) + i - 1
        /\ reader.out = StartOf(reader.pos) + buf[reader.cur].off
    BY <1>1, <2>1 DEF Contents
  <2>3. StartOf(reader.pos) \in Nat /\ buf[reader.cur].off \in Nat
    BY <2>1, StartNat, HeldSizes
  <2>4. reader.out - buf[reader.cur].off = StartOf(reader.pos)
    BY <2>2, <2>3
  <2> QED BY <2>2, <2>4 DEF InOrder
<1>2. CASE reader.pc = "finish"
  <2>1. ~closed
    BY <1>2 DEF DownloadInv, Control
  <2> QED BY <1>2, <2>1 DEF BytesInv, Contents, InOrder
<1> QED BY <1>1, <1>2 DEF InOrder

\* The reader gets the bytes of the range in order: what is in the buffer it reads goes on
\* where it has come to, whatever was refused, broken off, requested again, put back or
\* done by another worker (Read of multiReadCloser and PipeBuffer, downloadChunk).
THEOREM BytesAreInOrder == Spec => []InOrder
<1>1. DownloadInv /\ BytesInv => InOrder
  BY OrderFollows
<1> QED BY <1>1, DownloadsHangTogether, EveryByteHasItsPlace, PTL

LEMMA EndFollows ==
    ASSUME DownloadInv, BytesInv
    PROVE  NoEarlyEnd
<1> SUFFICES ASSUME reader.pc = "eof" PROVE reader.out = Length
  BY DEF NoEarlyEnd
<1>1. ~closed /\ reader.pos = Parts
  BY DEF DownloadInv, Control, Places
<1>2. reader.out = StartOf(reader.pos)
  BY <1>1 DEF BytesInv, Contents
<1> QED BY <1>1, <1>2, Tiling

\* The reader is told that the range has ended only when it has had all of it.
THEOREM EndIsTheEnd == Spec => []NoEarlyEnd
<1>1. DownloadInv /\ BytesInv => NoEarlyEnd
  BY EndFollows
<1> QED BY <1>1, DownloadsHangTogether, EveryByteHasItsPlace, PTL

-----------------------------------------------------------------------------
(* Hands and room                                                           *)

\* A set of one element at the most.
LEMMA OneAtMost ==
    ASSUME NEW S, \A x, y \in S : x = y
    PROVE  /\ IsFiniteSet(S) /\ Cardinality(S) \in {0, 1}
           /\ Cardinality(S) = 1 <=> S # {}
<1>1. CASE S = {}
  BY <1>1, FS_EmptySet
<1>2. CASE S # {}
  <2>1. PICK x \in S : TRUE
    BY <1>2
  <2>2. S = {x}
    BY <2>1
  <2> QED BY <1>2, <2>2, FS_Singleton
<1> QED BY <1>1, <1>2

LEMMA HandsCount ==
    ASSUME Types, Apart, NEW i
    PROVE  Hands(i) \in {0, 1} /\ (InHand(i) => Hands(i) = 1)
<1> DEFINE A == {w \in Workers : Busy(w) /\ worker[w].ch.id = i}
           B == {k \in DOMAIN chunkCh : chunkCh[k].id = i}
           n == IF mu # Free /\ sending.id = i THEN 1 ELSE 0
<1>0. DOMAIN chunkCh = 1 .. Len(chunkCh)
  BY DEF Types
<1>1. /\ Cardinality(A) \in {0, 1} /\ (Cardinality(A) = 1 <=> A # {})
      /\ Cardinality(B) \in {0, 1} /\ (Cardinality(B) = 1 <=> B # {})
  <2>1. \A v, w \in A : v = w
    BY DEF Apart
  <2>2. \A k, l \in B : k = l
    BY <1>0 DEF Apart
  <2> HIDE DEF A, B
  <2> QED BY <2>1, <2>2, OneAtMost
<1>2. A = {} \/ B = {}
  BY <1>0 DEF Apart
<1>3. n = 1 => A = {} /\ B = {}
  BY <1>0 DEF Apart
<1>4. InHand(i) => A # {} \/ B # {} \/ n = 1
  BY <1>0 DEF InHand
<1>5. Hands(i) = Cardinality(A) + Cardinality(B) + n
  BY DEF Hands
<1>6. n \in {0, 1}
  OBVIOUS
<1> HIDE DEF A, B, n
<1> QED BY <1>1, <1>2, <1>3, <1>4, <1>5, <1>6

LEMMA HandsFollow ==
    ASSUME DownloadInv, BytesInv
    PROVE  OneHand
<1> SUFFICES ASSUME ~canceled, NEW i \in 0 .. nextChunk - 1
             PROVE  IF Complete(i) THEN Hands(i) <= 1 ELSE Hands(i) = 1
  BY DEF OneHand
<1>0. Types /\ Control /\ Places /\ Mapped /\ ~closed /\ Contents /\ ChunksInv
  BY DEF DownloadInv, BytesInv, Control
<1>1. i \in 0 .. Parts /\ i < nextChunk /\ reader.pos \in 0 .. Parts
  <2>1. nextChunk \in 0 .. Parts /\ reader.pos \in 0 .. Parts
    BY <1>0, HeldFacts
  <2> QED BY <2>1, Bounds
<1>2. Hands(i) \in {0, 1} /\ (InHand(i) => Hands(i) = 1)
  BY <1>0, HandsCount DEF ChunksInv
<1>3. ASSUME ~Complete(i)
      PROVE  InHand(i)
  <2>1. Held(i) /\ Len(buf[PartBuf(i)].data) # buf[PartBuf(i)].limit
    BY <1>1, <1>3 DEF Complete, Held
  <2>2. PartBuf(i) = HeldBy[i]
    <3>1. CASE i # reader.pos
      BY <1>0, <1>1, <3>1, HeldFacts DEF PartBuf, HeldBuf
    <3>2. CASE i = reader.pos /\ reader.pc \in {"read", "wait"}
      BY <3>2, ReadersPart DEF PartBuf
    <3>3. CASE i = reader.pos /\ reader.pc \notin {"read", "wait"}
      <4>1. reader.pc \in ReadPcs
        BY <1>0 DEF Types, ReadRecs
      <4>2. nextChunk \in 0 .. Parts /\ reader.pos # Parts
        BY <1>0, <1>1, <3>3, HeldFacts
      <4>3. bufMap[i] # NoBuf
        BY <1>0, <1>1, <3>3, <4>1, <4>2 DEF Control, Places, ReadPcs, Idle
      <4> QED BY <1>0, <1>1, <3>3, <4>3, HeldFacts DEF PartBuf, HeldBuf
    <3> QED BY <3>1, <3>2, <3>3
  <2>3. ToCome[i] > 0
    <3>1. /\ Had[i] = Len(buf[HeldBy[i]].data) /\ ToCome[i] = buf[HeldBy[i]].limit - Had[i]
          /\ Had[i] \in Nat /\ ToCome[i] \in Nat /\ buf[HeldBy[i]].limit \in Nat
      BY <1>0, <1>1, <2>1, HeldSizes
    <3> QED BY <2>1, <2>2, <3>1
  <2> QED BY <1>0, <1>1, <2>1, <2>3 DEF ChunksInv, NoneLost
<1> QED BY <1>2, <1>3

\* While the download goes on, a part that was handed out and is not complete is in
\* exactly one hand: with one worker, once in the queue, or with the one that sends it; and
\* no part is ever in two.  It is neither dropped with a worker that ends nor downloaded
\* twice into one buffer.
THEOREM PartsAreInOneHand == Spec => []OneHand
<1>1. DownloadInv /\ BytesInv => OneHand
  BY HandsFollow
<1> QED BY <1>1, DownloadsHangTogether, EveryByteHasItsPlace, PTL

\* A chunk that asks for bytes finds room: it and those in the queue have buffers of their
\* own, of which there are no more than workers.
LEMMA RoomForOne ==
    ASSUME DownloadInv, ~closed, ChunksInv, NEW c \in Chunks, Waiting(c), c.size > 0,
           \A k \in 1 .. Len(chunkCh) : chunkCh[k].id # c.id
    PROVE  Cardinality({k \in DOMAIN chunkCh : chunkCh[k].size > 0}) < Concurrency
<1>0. Types /\ Counting
  BY DEF DownloadInv
<1> DEFINE n == Len(chunkCh)
           Q == {k \in DOMAIN chunkCh : chunkCh[k].size > 0}
           D == Q \cup {n + 1}
           id(k) == IF k = n + 1 THEN c.id ELSE chunkCh[k].id
           g == [k \in D |-> HeldBy[id(k)]]
<1>1. n \in Nat /\ DOMAIN chunkCh = 1 .. n
  BY <1>0, ChunkFacts
<1>2. \A k \in Q : chunkCh[k].id \in 0 .. Parts /\ Held(chunkCh[k].id)
  BY <1>0, <1>1, ChunkFacts DEF ChunksInv, InQueue, Waiting, Fits, Held
<1>3. c.id \in 0 .. Parts /\ Held(c.id)
  BY <1>0, ChunkFacts DEF Waiting, Fits, Held
<1>4. /\ \A k, l \in Q : chunkCh[k].id = chunkCh[l].id => k = l
      /\ \A k \in Q : chunkCh[k].id # c.id
  BY <1>1 DEF ChunksInv, Apart
<1>5. Q \in SUBSET (1 .. n) /\ n + 1 \notin Q
  BY <1>1
<1> HIDE DEF n, Q
<1>6. \A k \in D : id(k) \in 0 .. Parts /\ Held(id(k)) /\ HeldBy[id(k)] \in Taken
  <2>1. \A k \in D : id(k) \in 0 .. Parts /\ Held(id(k))
    BY <1>2, <1>3
  <2> HIDE DEF id
  <2> QED BY <2>1, HeldFacts
<1>7. \A k, l \in D : id(k) = id(l) => k = l
  BY <1>4, <1>5
<1> HIDE DEF id
<1>8. g \in [D -> Taken] /\ \A k, l \in D : g[k] = g[l] => k = l
  <2>1. \A k, l \in D : HeldBy[id(k)] = HeldBy[id(l)] => k = l
    BY <1>6, <1>7, HeldFacts
  <2> QED BY <1>6, <2>1
<1> HIDE DEF g
<1>9. g \in Injection(D, Taken)
  BY <1>8 DEF Injection, IsInjective
<1>10. IsFiniteSet(Q) /\ Cardinality(D) = Cardinality(Q) + 1 /\ Cardinality(Q) \in Nat
  <2>1. IsFiniteSet(1 .. n)
    BY <1>1, FS_Interval
  <2>2. IsFiniteSet(Q)
    BY <1>5, <2>1, FS_Subset
  <2> QED BY <1>5, <2>2, FS_AddElement, FS_CardinalityType
<1> HIDE DEF D
<1>11. Cardinality(D) <= Cardinality(Taken)
  BY <1>9, FiniteWorkers, FS_Injection
<1>12. /\ Cardinality(Taken) \in Nat /\ Cardinality(Spawned) \in Nat
       /\ Cardinality(Spawned) <= Concurrency /\ Cardinality(Taken) <= Cardinality(Spawned)
  BY <1>0, FiniteWorkers DEF Counting
<1>13. Cardinality(Q) < Concurrency
  BY <1>10, <1>11, <1>12, Bounds
<1> QED BY <1>13 DEF Q

LEMMA RoomFollows ==
    ASSUME DownloadInv, BytesInv
    PROVE  RoomForChunks
<1>0. Types /\ Control
  BY DEF DownloadInv
<1>1. Cardinality(Taken) <= Cardinality(Spawned)
  BY DEF DownloadInv, Counting
<1>2. CASE mu # Free
  <2>1. ~closed /\ ChunksInv
    BY <1>0, <1>2 DEF Control, BytesInv
  <2>2. sending \in Chunks /\ Waiting(sending) /\ sending.size > 0
    BY <1>0, <1>2, <2>1, ChunkFacts DEF ChunksInv, InSend
  <2>3. \A k \in 1 .. Len(chunkCh) : chunkCh[k].id # sending.id
    BY <1>2, <2>1 DEF ChunksInv, Apart
  <2>4. Cardinality({k \in DOMAIN chunkCh : chunkCh[k].size > 0}) < Concurrency
    BY ONLY DownloadInv, <2>1, <2>2, <2>3, RoomForOne
  <2> QED BY <1>1, <2>4 DEF RoomForChunks
<1>3. ASSUME ~canceled, NEW w \in Workers, worker[w].pc = "requeue", worker[w].ch.size > 0
      PROVE  Cardinality({k \in DOMAIN chunkCh : chunkCh[k].size > 0}) < Concurrency
  <2>1. ~closed /\ ChunksInv /\ Busy(w)
    BY <1>0, <1>3 DEF Control, BytesInv, Busy
  <2>2. worker[w].ch \in Chunks /\ Waiting(worker[w].ch)
    BY <1>0, <1>3, <2>1, ChunkFacts DEF ChunksInv, AtWork
  <2>3. \A k \in 1 .. Len(chunkCh) : chunkCh[k].id # worker[w].ch.id
    BY <2>1 DEF ChunksInv, Apart
  <2> QED BY ONLY DownloadInv, <1>3, <2>1, <2>2, <2>3, RoomForOne
<1> QED BY <1>1, <1>2, <1>3 DEF RoomForChunks

\* A chunk that has bytes to fetch always finds room in the queue, sent by sendChunkTask
\* with d.mu held or put back by its worker; only empty chunks, of parts that are complete,
\* can fill it for them.  And memory stays within the blocks of the workers.
THEOREM SendsFindRoom == Spec => []RoomForChunks
<1>1. DownloadInv /\ BytesInv => RoomForChunks
  BY RoomFollows
<1> QED BY <1>1, DownloadsHangTogether, EveryByteHasItsPlace, PTL

LEMMA TypesFollow ==
    ASSUME DownloadInv, BytesInv
    PROVE  TypeOK
<1>0. Types /\ Sizes /\ Counting /\ reader.out <= Length
  BY DEF DownloadInv, BytesInv
<1>1. concurrency \in (0 - 2 * Concurrency) .. Concurrency
  <2>1. /\ concurrency \in Int /\ concurrency <= Concurrency
        /\ concurrency >= 0 - Concurrency - Cardinality(Gone)
    BY <1>0 DEF Types, Counting
  <2>2. Cardinality(Gone) \in Nat /\ Cardinality(Gone) <= Concurrency /\ Concurrency \in Nat
    BY FiniteWorkers, Bounds
  <2> QED BY ONLY <2>1, <2>2
<1>2. ASSUME NEW b \in Blocks
      PROVE  /\ buf[b].open \in BOOLEAN /\ buf[b].pend \in BOOLEAN /\ buf[b].sig \in BOOLEAN
             /\ buf[b].limit \in 0 .. PartSize /\ buf[b].off \in 0 .. Len(buf[b].data)
             /\ Len(buf[b].data) <= buf[b].limit /\ buf[b].data \in Seq(0 .. Length - 1)
  <2>1. buf[b] \in BufRecs /\ buf[b].off <= Len(buf[b].data) /\ Len(buf[b].data) <= buf[b].limit
    BY <1>0 DEF Types, Sizes
  <2>2. /\ buf[b].open \in BOOLEAN /\ buf[b].pend \in BOOLEAN /\ buf[b].sig \in BOOLEAN
        /\ buf[b].limit \in 0 .. PartSize /\ buf[b].off \in Nat
        /\ buf[b].data \in Seq(0 .. Length - 1)
    BY <2>1 DEF BufRecs
  <2>3. Len(buf[b].data) \in Nat
    BY <2>2
  <2> QED BY <2>1, <2>2, <2>3
<1>3. reader \in [pc : ReadPcs, pos : 0 .. Parts, cur : Buffers, out : 0 .. Length]
  <2>1. reader \in ReadRecs /\ reader.out \in Nat
    BY <1>0 DEF Types, ReadRecs
  <2>2. reader.out \in 0 .. Length
    BY <1>0, <2>1, Bounds
  <2> QED BY <2>1, <2>2 DEF ReadRecs
<1> QED BY <1>0, <1>1, <1>2, <1>3 DEF TypeOK, Types, WorkRecs, WorkPcs, ReadPcs

\* Every variable keeps its type; no part is longer than its block.
THEOREM DownloadTypes == Spec => []TypeOK
<1>1. DownloadInv /\ BytesInv => TypeOK
  BY TypesFollow
<1> QED BY <1>1, DownloadsHangTogether, EveryByteHasItsPlace, PTL
=============================================================================
