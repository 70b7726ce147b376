------------------------- MODULE DownloaderProofs -------------------------
(***************************************************************************)
(* Proofs about Downloader, for every range, part size and number of         *)
(* workers: the parts cover the range, and the queue, the buffers, the slots *)
(* of the limit and the reader's place hang together in every state.         *)
(***************************************************************************)
EXTENDS Downloader, FiniteSetTheorems, TLAPS

First == Length % PartSize
Half  == PartSize \div 2

\* Where part i starts.
StartOf(i) == IF i = 0 THEN 0
              ELSE IF First = 0 THEN i * PartSize
              ELSE IF i = 1 THEN (IF First > Half THEN First ELSE Half)
              ELSE First + (i - 1) * PartSize

-----------------------------------------------------------------------------
(* The parts                                                                *)

LEMMA MulStep ==
    ASSUME NEW a \in Int, NEW b \in Int, NEW c \in Nat, a < b
    PROVE  a * c + c <= b * c
<1>1. (b - a - 1) * c >= 0
  BY b - a - 1 \in Nat
<1>2. (b - a - 1) * c = b * c - a * c - c
  OBVIOUS
<1> QED BY <1>1, <1>2, a * c \in Int, b * c \in Int

LEMMA DivBounds ==
    ASSUME NEW r \in Nat, NEW c \in Nat \ {0}
    PROVE  /\ r \div c \in Nat
           /\ (r \div c) * c <= r
           /\ r < (r \div c) * c + c
           /\ r % c = r - (r \div c) * c
OBVIOUS

\* The number of parts is rounded up; First is what the whole parts leave.
LEMMA PartsBounds ==
    /\ Parts \in Nat /\ Parts >= 2
    /\ First \in 0 .. PartSize - 1
    /\ First = 0 => Parts * PartSize = Length
    /\ First > 0 => First + (Parts - 1) * PartSize = Length
<1> USE DownloaderAssumption
<1> DEFINE q == Length \div PartSize
<1>1. /\ q \in Nat /\ q * PartSize <= Length /\ Length < q * PartSize + PartSize
      /\ First = Length - q * PartSize
  BY DivBounds DEF First
<1>2. /\ Parts \in Nat /\ Parts * PartSize <= Length + PartSize - 1
      /\ Length + PartSize - 1 < Parts * PartSize + PartSize
  <2>1. Length + PartSize - 1 \in Nat
    OBVIOUS
  <2> QED BY <2>1, DivBounds DEF Parts
<1>3. q * PartSize \in Nat /\ Parts * PartSize \in Nat /\ First \in 0 .. PartSize - 1
  BY <1>1, <1>2
<1> HIDE DEF q
<1>4. First = 0 => Parts = q
  <2> SUFFICES ASSUME First = 0 PROVE Parts = q
    OBVIOUS
  <2>1. ~(Parts < q)
    BY <1>1, <1>2, <1>3, MulStep
  <2>2. ~(q < Parts)
    <3> SUFFICES ASSUME q < Parts PROVE FALSE
      OBVIOUS
    <3>1. q * PartSize + PartSize <= Parts * PartSize
      BY <1>1, <1>2, MulStep
    <3> QED BY <1>1, <1>2, <1>3, <3>1
  <2> QED BY <1>1, <1>2, <2>1, <2>2
<1>5. First > 0 => Parts = q + 1
  <2> SUFFICES ASSUME First > 0 PROVE Parts = q + 1
    OBVIOUS
  <2>0. (q + 1) * PartSize = q * PartSize + PartSize
    BY <1>1
  <2>1. ~(Parts < q + 1)
    <3> SUFFICES ASSUME Parts < q + 1 PROVE FALSE
      OBVIOUS
    <3>1. Parts * PartSize + PartSize <= (q + 1) * PartSize
      BY <1>1, <1>2, MulStep
    <3> QED BY <1>1, <1>2, <1>3, <2>0, <3>1
  <2>2. ~(q + 1 < Parts)
    <3> SUFFICES ASSUME q + 1 < Parts PROVE FALSE
      OBVIOUS
    <3>1. (q + 1) * PartSize + PartSize <= Parts * PartSize
      BY <1>1, <1>2, MulStep
    <3> QED BY <1>1, <1>2, <1>3, <2>0, <3>1
  <2> QED BY <1>1, <1>2, <2>1, <2>2
<1>6. q # 0
  <2> SUFFICES ASSUME q = 0 PROVE FALSE
    OBVIOUS
  <2> QED BY <1>1
<1>7. First = 0 => Parts * PartSize = Length
  BY <1>1, <1>3, <1>4
<1>8. First > 0 => First + (Parts - 1) * PartSize = Length
  <2>1. First > 0 => Parts - 1 = q
    BY <1>1, <1>5
  <2> QED BY <1>1, <1>3, <2>1
<1>9. Parts >= 2
  <2>1. CASE First > 0
    BY <1>1, <1>5, <1>6, <2>1
  <2>2. CASE First = 0
    <3>1. q # 1
      BY <1>1, <2>2
    <3> QED BY <1>1, <1>4, <1>6, <2>2, <3>1
  <2> QED BY <1>3, <2>1, <2>2
<1> QED BY <1>2, <1>3, <1>7, <1>8, <1>9

\* The parts follow one another without a gap; the last one ends the range.
LEMMA Tiling ==
    /\ StartOf(0) = 0 /\ StartOf(Parts) = Length
    /\ \A i \in 0 .. Parts : StartOf(i) \in 0 .. Length
    /\ \A i \in 0 .. Parts - 1 :
          /\ PartLength(PartSize, Length, i) \in 1 .. PartSize
          /\ StartOf(i + 1) = StartOf(i) + PartLength(PartSize, Length, i)
          /\ StartOf(i) < Length
<1> USE DownloaderAssumption, PartsBounds
<1>1. Half \in Nat /\ 2 * Half <= PartSize /\ PartSize <= 2 * Half + 1
  BY DEF Half
<1>2. StartOf(0) = 0 /\ StartOf(Parts) = Length
  BY DEF StartOf
<1>3. ASSUME NEW i \in 0 .. Parts - 1
      PROVE  /\ PartLength(PartSize, Length, i) \in 1 .. PartSize
             /\ StartOf(i) \in Nat
             /\ StartOf(i + 1) = StartOf(i) + PartLength(PartSize, Length, i)
             /\ StartOf(i) < Length
  <2>1. i \in Nat /\ i <= Parts - 1 /\ i * PartSize \in Nat /\ (i - 1) * PartSize \in Int
        /\ (i + 1) * PartSize = i * PartSize + PartSize
        /\ i * PartSize = (i - 1) * PartSize + PartSize
        /\ i # 0 => (i - 1) * PartSize \in Nat
    <3>1. i \in Nat /\ i <= Parts - 1 /\ (i # 0 => i - 1 \in Nat)
      OBVIOUS
    <3> QED BY <3>1
  <2>2. CASE First = 0
    <3>1. PartLength(PartSize, Length, i) = PartSize
      BY <2>2 DEF PartLength, First
    <3>2. StartOf(i) = i * PartSize
      BY <2>1, <2>2 DEF StartOf
    <3>3. StartOf(i + 1) = (i + 1) * PartSize
      BY <2>1, <2>2 DEF StartOf
    <3>4. i * PartSize + PartSize <= Length
      <4>1. i * PartSize + PartSize <= Parts * PartSize
        BY <2>1, MulStep
      <4> QED BY <2>2, <4>1
    <3> QED BY <2>1, <3>1, <3>2, <3>3, <3>4
  <2>3. CASE First > 0 /\ i = 0
    <3>1. PartLength(PartSize, Length, i) = IF First > Half THEN First ELSE Half
      BY <2>3 DEF PartLength, First, Half
    <3>2. StartOf(0) = 0 /\ StartOf(1) = IF First > Half THEN First ELSE Half
      BY <2>3, ~(First = 0) DEF StartOf
    <3> QED BY <1>1, <2>3, <3>1, <3>2
  <2>4. CASE First > 0 /\ i = 1
    <3>1. PartLength(PartSize, Length, i)
            = IF First < Half THEN PartSize + First - Half ELSE PartSize
      BY <2>4 DEF PartLength, First, Half
    <3>2. StartOf(1) = (IF First > Half THEN First ELSE Half) /\ StartOf(2) = First + PartSize
      BY <2>4, ~(First = 0) DEF StartOf
    <3> QED BY <1>1, <2>4, <3>1, <3>2
  <2>5. CASE First > 0 /\ i > 1
    <3>1. PartLength(PartSize, Length, i) = PartSize
      BY <2>5 DEF PartLength, First
    <3>2. StartOf(i) = First + (i - 1) * PartSize /\ StartOf(i + 1) = First + i * PartSize
      <4>1. i + 1 - 1 = i /\ ~(i = 0) /\ ~(i = 1) /\ ~(i + 1 = 0) /\ ~(i + 1 = 1) /\ ~(First = 0)
        BY <2>1, <2>5
      <4> QED BY ONLY <4>1 DEF StartOf
    <3>3. (i - 1) * PartSize + PartSize <= (Parts - 1) * PartSize
      BY <2>1, <2>5, MulStep
    <3>4. (Parts - 1) * PartSize \in Int
      OBVIOUS
    <3> QED BY <2>1, <2>5, <3>1, <3>2, <3>3, <3>4
  <2> QED BY <2>1, <2>2, <2>3, <2>4, <2>5
<1>4. ASSUME NEW i \in 0 .. Parts PROVE StartOf(i) \in 0 .. Length
  <2>1. CASE i = Parts
    BY <1>2, <2>1
  <2>2. CASE i \in 0 .. Parts - 1
    BY <1>3, <2>2
  <2> QED BY <2>1, <2>2
<1> QED BY <1>2, <1>3, <1>4

\* The parts cover the range, whatever its length and the part size: the first
\* starts at 0, each at the end of the one before, the last ends with the range,
\* none is empty and none is longer than a block (the cases of sendChunkTask).
THEOREM PartsTile ==
    \E S \in [0 .. Parts -> 0 .. Length] :
        /\ S[0] = 0 /\ S[Parts] = Length
        /\ \A i \in 0 .. Parts - 1 :
              /\ S[i + 1] = S[i] + PartLength(PartSize, Length, i)
              /\ PartLength(PartSize, Length, i) \in 1 .. PartSize
<1> DEFINE S == [i \in 0 .. Parts |-> StartOf(i)]
<1>1. S \in [0 .. Parts -> 0 .. Length]
  BY Tiling
<1>2. S[0] = 0 /\ S[Parts] = Length
  BY Tiling, PartsBounds
<1>3. ASSUME NEW i \in 0 .. Parts - 1
      PROVE  /\ S[i + 1] = S[i] + PartLength(PartSize, Length, i)
             /\ PartLength(PartSize, Length, i) \in 1 .. PartSize
  <2>1. i \in 0 .. Parts /\ i + 1 \in 0 .. Parts
    BY PartsBounds
  <2> QED BY <2>1, Tiling
<1> HIDE DEF S
<1> QED BY <1>1, <1>2, <1>3

\* The starts of up to five parts, as the recursive function of PartsCover has them.
LEMMA FirstSums ==
    ASSUME NEW p, NEW len, NEW n \in 2 .. 4,
           \A i \in 0 .. n - 1 : PartLength(p, len, i) \in Int
    PROVE  LET S[i \in 0 .. n] == IF i = 0 THEN 0 ELSE S[i - 1] + PartLength(p, len, i - 1)
           IN  /\ S[2] = PartLength(p, len, 0) + PartLength(p, len, 1)
               /\ n >= 3 => S[3] = S[2] + PartLength(p, len, 2)
               /\ n = 4 => S[4] = S[3] + PartLength(p, len, 3)
<1> DEFINE P == [i \in 0 .. n - 1 |-> PartLength(p, len, i)]
           Step(T) == [i \in 0 .. n |-> IF i = 0 THEN 0 ELSE T[i - 1] + PartLength(p, len, i - 1)]
           G == [i \in 0 .. n |-> IF i = 0 THEN 0
                                  ELSE IF i = 1 THEN P[0]
                                  ELSE IF i = 2 THEN P[0] + P[1]
                                  ELSE IF i = 3 THEN P[0] + P[1] + P[2]
                                  ELSE P[0] + P[1] + P[2] + P[3]]
           S == CHOOSE T : T = Step(T)
<1>1. \A i \in 0 .. n - 1 : P[i] \in Int /\ PartLength(p, len, i) = P[i]
  OBVIOUS
<1>2. G = Step(G)
  <2> SUFFICES ASSUME NEW i \in 0 .. n
               PROVE  G[i] = IF i = 0 THEN 0 ELSE G[i - 1] + PartLength(p, len, i - 1)
    OBVIOUS
  <2>1. i \in {0, 1, 2, 3, 4} /\ (i # 0 => i - 1 \in 0 .. n /\ i - 1 \in 0 .. n - 1)
    OBVIOUS
  <2>2. i # 0 => PartLength(p, len, i - 1) = P[i - 1]
    BY <1>1, <2>1
  <2> HIDE DEF P
  <2>3. CASE i = 0
    BY <2>3
  <2>4. CASE i = 1
    BY <1>1, <2>1, <2>2, <2>4
  <2>5. CASE i = 2
    BY <1>1, <2>1, <2>2, <2>5
  <2>6. CASE i = 3
    BY <1>1, <2>1, <2>2, <2>6
  <2>7. CASE i = 4
    BY <1>1, <2>1, <2>2, <2>7
  <2> QED BY <2>1, <2>3, <2>4, <2>5, <2>6, <2>7
<1> HIDE DEF G
<1>3. S = Step(S)
  BY <1>2
<1> HIDE DEF S
<1>4. S[0] = 0 /\ \A i \in 1 .. n : S[i] = S[i - 1] + PartLength(p, len, i - 1)
  BY <1>3
<1> HIDE DEF Step, P
<1>5. /\ S[1] = PartLength(p, len, 0) /\ S[2] = S[1] + PartLength(p, len, 1)
      /\ n >= 3 => S[3] = S[2] + PartLength(p, len, 2)
      /\ n = 4 => S[4] = S[3] + PartLength(p, len, 3)
  <2>1. S[1] = S[0] + PartLength(p, len, 0) /\ PartLength(p, len, 0) \in Int
    BY <1>4
  <2>2. S[2] = S[1] + PartLength(p, len, 1)
    BY <1>4
  <2>3. n >= 3 => S[3] = S[2] + PartLength(p, len, 2)
    BY <1>4
  <2>4. n = 4 => S[4] = S[3] + PartLength(p, len, 3)
    BY <1>4
  <2> QED BY <1>4, <2>1, <2>2, <2>3, <2>4
<1> QED BY <1>5 DEF S, Step

\* Four parts at most, so that no product of two unknowns is left.
LEMMA CoverHolds == PartsCover
<1> SUFFICES ASSUME NEW p \in 1 .. 9, NEW len \in (p + 1) .. (4 * p)
             PROVE  LET n == (len + p - 1) \div p
                        S[i \in 0 .. n] == IF i = 0 THEN 0 ELSE S[i - 1] + PartLength(p, len, i - 1)
                    IN  S[n] = len /\ \A i \in 0 .. n - 1 : PartLength(p, len, i) \in 1 .. p
  BY DEF PartsCover
<1> DEFINE n == (len + p - 1) \div p
           q == len \div p
           r == len % p
           h == p \div 2
<1>1. p \in Nat \ {0} /\ len \in Nat /\ p < len /\ len <= 4 * p
  OBVIOUS
<1>2. /\ h \in Nat /\ 2 * h <= p /\ p <= 2 * h + 1
      /\ q \in Nat /\ q * p <= len /\ len < q * p + p /\ r = len - q * p
      /\ n \in Nat /\ n * p <= len + p - 1 /\ len + p - 1 < n * p + p
  <2>1. h \in Nat /\ 2 * h <= p /\ p <= 2 * h + 1
    BY <1>1
  <2>2. q \in Nat /\ q * p <= len /\ len < q * p + p /\ r = len - q * p
    BY <1>1, DivBounds
  <2>3. len + p - 1 \in Nat
    BY <1>1
  <2>4. n \in Nat /\ n * p <= len + p - 1 /\ len + p - 1 < n * p + p
    BY <1>1, <2>3, DivBounds
  <2> QED BY <2>1, <2>2, <2>4
<1>3. /\ PartLength(p, len, 0) = IF r > 0 THEN (IF r > h THEN r ELSE h) ELSE p
      /\ PartLength(p, len, 1) = IF r > 0 /\ r < h THEN p + r - h ELSE p
      /\ \A i \in Nat : i > 1 => PartLength(p, len, i) = p
  BY DEF PartLength
<1> HIDE DEF n, q, r, h
<1>4. q \in 1 .. 4
  <2>1. q # 0
    BY <1>1, <1>2
  <2>2. ~(4 < q)
    <3> SUFFICES ASSUME 4 < q PROVE FALSE
      OBVIOUS
    <3>1. 4 * p + p <= q * p
      BY <1>1, <1>2, MulStep
    <3> QED BY <1>1, <1>2, <3>1
  <2> QED BY <1>2, <2>1, <2>2
<1>5. /\ q = 1 => q * p = p
      /\ q = 2 => q * p = p + p
      /\ q = 3 => q * p = p + p + p
      /\ q = 4 => q * p = p + p + p + p
  BY <1>1
<1>6. r \in 0 .. p - 1 /\ len = q * p + r
  BY <1>1, <1>2, <1>5, <1>4
<1>7. n = IF r = 0 THEN q ELSE q + 1
  <2>1. n \in 1 .. 5
    <3>1. n # 0
      BY <1>1, <1>2
    <3>2. ~(5 < n)
      <4> SUFFICES ASSUME 5 < n PROVE FALSE
        OBVIOUS
      <4>1. 5 * p + p <= n * p
        BY <1>1, <1>2, MulStep
      <4> QED BY <1>1, <1>2, <4>1
    <3> QED BY <1>2, <3>1, <3>2
  <2>2. /\ n = 1 => n * p = p
        /\ n = 2 => n * p = p + p
        /\ n = 3 => n * p = p + p + p
        /\ n = 4 => n * p = p + p + p + p
        /\ n = 5 => n * p = p + p + p + p + p
    BY <1>1
  <2> QED BY <1>1, <1>2, <1>4, <1>5, <1>6, <2>1, <2>2
<1>8. n \in 2 .. 4
  BY <1>1, <1>4, <1>5, <1>6, <1>7
<1>9. \A i \in 0 .. n - 1 : PartLength(p, len, i) \in 1 .. p
  <2>1. \A i \in 0 .. n - 1 : i = 0 \/ i = 1 \/ (i \in Nat /\ i > 1)
    BY <1>8
  <2>2. PartLength(p, len, 0) \in 1 .. p /\ PartLength(p, len, 1) \in 1 .. p
    BY <1>1, <1>2, <1>3, <1>6
  <2>3. \A i \in Nat : i > 1 => PartLength(p, len, i) \in 1 .. p
    BY <1>1, <1>3
  <2> QED BY <2>1, <2>2, <2>3
<1>10. \A i \in 0 .. n - 1 : PartLength(p, len, i) \in Int
  BY <1>1, <1>9
<1> DEFINE S == CHOOSE T : T = [i \in 0 .. n |-> IF i = 0 THEN 0 ELSE T[i - 1] + PartLength(p, len, i - 1)]
<1>11. /\ S[2] = PartLength(p, len, 0) + PartLength(p, len, 1)
       /\ n >= 3 => S[3] = S[2] + PartLength(p, len, 2)
       /\ n = 4 => S[4] = S[3] + PartLength(p, len, 3)
  BY <1>8, <1>10, FirstSums
<1> HIDE DEF S
<1>12. S[n] = len
  <2>1. /\ r = 0 => PartLength(p, len, 0) = p /\ PartLength(p, len, 1) = p
        /\ r > 0 => PartLength(p, len, 0) + PartLength(p, len, 1) = p + r
        /\ PartLength(p, len, 2) = p /\ PartLength(p, len, 3) = p
    <3>1. PartLength(p, len, 2) = p /\ PartLength(p, len, 3) = p
      BY <1>3
    <3> QED BY <1>1, <1>2, <1>3, <1>6, <3>1
  <2> QED BY <1>1, <1>4, <1>5, <1>6, <1>7, <1>8, <1>11, <2>1
<1> QED BY <1>9, <1>12 DEF S, n

\* The same as the runs check it, by adding up what sendChunkTask gives each part.
THEOREM PartsAreCovered == Spec => []PartsCover
BY CoverHolds, PTL

-----------------------------------------------------------------------------
(* The invariant                                                            *)

BufRecs  == [open : BOOLEAN, limit : 0 .. PartSize, off : Nat, data : Seq(0 .. Length - 1),
             pend : BOOLEAN, sig : BOOLEAN]
WorkPcs  == {"none", "take", "request", "overload", "requeue", "grow", "send", "copy", "ended",
             "panic"}
WorkRecs == [pc : WorkPcs, ch : Chunks, retry : 0 .. MaxRetries, got : 0 .. PartSize]
ReadPcs  == {"start", "refused", "open", "openSend", "abandon", "pop", "read", "wait", "finish",
             "resend", "resendSend", "eof", "close", "closing", "closed"}
ReadRecs == [pc : ReadPcs, pos : 0 .. Parts, cur : Buffers, out : Nat]

\* A chunk lies in the range, a request in its chunk, and a buffer holds what fits.
Within(c) == c.start + c.size <= Length
Sizes ==
    /\ Within(sending)
    /\ \A k \in 1 .. Len(chunkCh) : Within(chunkCh[k])
    /\ \A w \in Workers : Within(worker[w].ch) /\ worker[w].got <= worker[w].ch.size
    /\ \A b \in Blocks : buf[b].off <= Len(buf[b].data) /\ Len(buf[b].data) <= buf[b].limit

Types ==
    /\ canceled \in BOOLEAN /\ closed \in BOOLEAN
    /\ pos \in 0 .. Length /\ nextChunk \in 0 .. Parts
    /\ concurrency \in Int
    /\ chunkCh \in Seq(Chunks) /\ Len(chunkCh) <= Concurrency
    /\ bufMap \in [Last .. Parts -> Buffers]
    /\ buf \in [Blocks -> BufRecs]
    /\ worker \in [Workers -> WorkRecs]
    /\ reader \in ReadRecs
    /\ limit \in [free : Nat, before : Limits]
    /\ mu \in {Free, Reader} \cup Workers /\ sending \in Chunks

\* Before the first part has been handed out.
Idle == {"start", "refused", "open"}

\* Who holds d.mu to send; what has not begun and what is over.
Control ==
    /\ mu = Reader <=> reader.pc \in {"openSend", "resendSend"}
    /\ \A w \in Workers : mu = w <=> worker[w].pc = "send"
    /\ closed <=> reader.pc = "closed"
    /\ closed => mu = Free
    /\ reader.pc \in {"abandon", "close", "closing", "closed"} => canceled
    /\ reader.pc \in Idle => nextChunk = 0 /\ Spawned = {} /\ chunkCh = <<>>
    /\ Spawned # {} => nextChunk > 0

\* Workers that gave up their chunk or ended.
Gone == {w \in Workers : worker[w].pc \in {"requeue", "ended", "panic"}}

\* Workers start and blocks are taken one after another, a block only with a worker.
Counting ==
    /\ Spawned = 1 .. Cardinality(Spawned)
    /\ Taken = 1 .. Cardinality(Taken)
    /\ Cardinality(Taken) <= nextChunk
    /\ Cardinality(Taken) <= Cardinality(Spawned)
    /\ concurrency > 0 => Cardinality(Spawned) = Concurrency - concurrency
    /\ concurrency <= Concurrency /\ concurrency >= 0 - Concurrency - Cardinality(Gone)
    /\ reader.pc = "resend" /\ nextChunk < Parts /\ bufMap[nextChunk] = NoBuf =>
          Cardinality(Taken) < Cardinality(Spawned)

\* The reader has taken the buffer of its part out of bufMap.
Popped == reader.pos < nextChunk /\ bufMap[reader.pos] = NoBuf

\* Where the next part starts, and where the reader is.
Places ==
    /\ pos = StartOf(nextChunk)
    /\ reader.pos <= nextChunk
    /\ reader.pc \in {"read", "wait"} => Popped
    /\ reader.pc \in {"pop", "resendSend", "openSend", "abandon"} =>
          reader.pos < nextChunk /\ bufMap[reader.pos] # NoBuf
    /\ reader.pc = "finish" => /\ reader.pos < Parts
                               /\ reader.pos < nextChunk => bufMap[reader.pos] # NoBuf
    /\ reader.pc = "resend" => reader.pos < Parts /\ bufMap[reader.pos] # NoBuf
    /\ reader.pc = "eof" => reader.pos = Parts
    /\ reader.pc \in Idle => reader.pos = 0

\* The buffer of part i: in bufMap or with the reader.
HeldBuf(i) == IF i = reader.pos /\ bufMap[i] = NoBuf THEN reader.cur ELSE bufMap[i]

\* Until interrupt, each part in hand has a buffer of its own.
Mapped ==
    /\ \A i, j \in 0 .. Parts : bufMap[i] = bufMap[j] /\ bufMap[i] # NoBuf => i = j
    /\ reader.pc = "finish" \/ Popped => /\ reader.cur # NoBuf /\ bufMap[Last] = reader.cur
                                         /\ \A i \in 0 .. Parts : bufMap[i] # reader.cur
    /\ \A i \in 0 .. Parts : i < reader.pos \/ i > nextChunk => bufMap[i] = NoBuf
    /\ \A i \in 0 .. Parts : reader.pos <= i /\ i < nextChunk => HeldBuf(i) # NoBuf
    /\ bufMap[nextChunk] # NoBuf => nextChunk = Parts \/ reader.pc = "resend"
    /\ \A i \in Last .. Parts : bufMap[i] # NoBuf => bufMap[i] \in Taken

\* interrupt finds every open buffer: in bufMap, as the one popped last if need be.
Detached == Idle \cup {"openSend", "abandon", "pop", "resend", "resendSend"}
Opened == \A b \in Blocks : buf[b].open =>
    \/ \E i \in 0 .. Parts : bufMap[i] = b
    \/ reader.pc \notin Detached /\ bufMap[Last] = b

DownloadInv ==
    /\ Types /\ Sizes /\ Control /\ SlotsKept /\ Counting /\ Places
    /\ ~closed => Mapped /\ Opened
    /\ ClosedForGood

-----------------------------------------------------------------------------
(* What the parts of an action do                                           *)

LEMMA Bounds ==
    /\ PartSize \in Nat \ {0} /\ Length \in Nat /\ Length > PartSize
    /\ Concurrency \in Nat \ {0} /\ MaxRetries \in Nat
    /\ Limits \subseteq Nat /\ Parts \in Nat /\ Parts >= 2
    /\ Reader # Free /\ Reader \notin Workers /\ Free \notin Workers
    /\ NoBuf \notin Blocks /\ Last \notin 0 .. Parts /\ Last \in Last .. Parts
    /\ \A i \in 0 .. Parts : i \in Last .. Parts
BY DownloaderAssumption, PartsBounds DEF Free, Workers, Blocks, NoBuf, Last

LEMMA Records ==
    /\ NoChunk \in Chunks /\ Within(NoChunk)
    /\ NoWorker \in WorkRecs /\ NoWorker.ch = NoChunk /\ NoWorker.got = 0 /\ NoChunk.size = 0
    /\ NoBuffer \in BufRecs /\ Len(NoBuffer.data) = 0 /\ NoBuffer.off = 0
<1> USE Bounds
<1>1. NoChunk \in Chunks /\ NoChunk.start = 0 /\ NoChunk.size = 0
  BY DEF NoChunk, Chunks, Buffers, NoBuf
<1>2. Within(NoChunk)
  BY <1>1 DEF Within
<1>3. NoWorker \in WorkRecs /\ NoWorker.ch = NoChunk /\ NoWorker.got = 0
  BY <1>1 DEF NoWorker, WorkRecs, WorkPcs
<1>4. NoBuffer \in BufRecs /\ Len(NoBuffer.data) = 0 /\ NoBuffer.off = 0
  <2>1. <<>> \in Seq(0 .. Length - 1) /\ Len(<<>>) = 0
    OBVIOUS
  <2> QED BY <2>1 DEF NoBuffer, BufRecs
<1> QED BY <1>1, <1>2, <1>3, <1>4

\* Worker w has moved, the others have not.
Moved(w) ==
    /\ worker' \in [Workers -> WorkRecs]
    /\ \A v \in Workers : v # w => worker'[v] = worker[v]
    /\ Within(worker'[w].ch) /\ worker'[w].got <= worker'[w].ch.size

\* It has the same chunk and has got as much of it.
Keeps(w) == worker'[w].ch = worker[w].ch /\ worker'[w].got = worker[w].got

LEMMA NowFacts ==
    ASSUME Types, Sizes, NEW w \in Workers, NEW p \in WorkPcs, worker' = Now(w, p)
    PROVE  Moved(w) /\ Keeps(w) /\ worker'[w].pc = p
BY DEF Types, Sizes, Now, Moved, Keeps, WorkRecs

LEMMA EndFacts ==
    ASSUME Types, NEW w \in Workers, End(w)
    PROVE  /\ Moved(w) /\ worker'[w].pc = "ended" /\ limit' = Slots(1)
           /\ limit' \in [free : Nat, before : Limits]
<1> DEFINE y == [NoWorker EXCEPT !.pc = "ended"]
<1>1. y \in WorkRecs /\ y.pc = "ended" /\ Within(y.ch) /\ y.got <= y.ch.size
  <2>1. y.ch = NoChunk /\ y.got = 0 /\ y.pc = "ended" /\ y \in WorkRecs
    BY Records DEF WorkRecs, WorkPcs
  <2> QED BY <2>1, Records
<1>2. worker' = [worker EXCEPT ![w] = y] /\ limit' = Slots(1)
  BY DEF End
<1>3. limit' \in [free : Nat, before : Limits]
  BY SMTT(20), <1>2 DEF Slots, Types
<1> HIDE DEF y
<1> QED BY <1>1, <1>2, <1>3 DEF Moved, Types

LEMMA FreshFacts ==
    ASSUME Types, NEW w \in Workers, NEW p \in WorkPcs, NEW c \in Chunks, Within(c),
           worker' = [worker EXCEPT ![w] = [NoWorker EXCEPT !.pc = p, !.ch = c]]
    PROVE  Moved(w) /\ worker'[w].pc = p /\ worker'[w].ch = c /\ worker'[w].got = 0
<1> DEFINE y == [NoWorker EXCEPT !.pc = p, !.ch = c]
<1>1. y \in WorkRecs /\ y.pc = p /\ y.ch = c /\ y.got = 0
  BY Records DEF WorkRecs
<1>2. y.got <= y.ch.size
  BY <1>1 DEF Chunks
<1>3. worker' = [worker EXCEPT ![w] = y]
  OBVIOUS
<1> HIDE DEF y
<1> QED BY <1>1, <1>2, <1>3 DEF Moved, Types

\* The rest of the chunk, after n bytes of it, is requested again.
Again(w, n) ==
    /\ worker'[w].pc = "request" /\ worker'[w].got = 0
    /\ worker'[w].ch.id = worker[w].ch.id /\ worker'[w].ch.buf = worker[w].ch.buf
    /\ worker'[w].ch.start = worker[w].ch.start + n
    /\ worker'[w].ch.size = worker[w].ch.size - n
    /\ UNCHANGED <<limit, canceled>>

LEMMA RetryFacts ==
    ASSUME Types, Sizes, NEW w \in Workers, NEW n \in 0 .. worker[w].ch.size, Retry(w, n)
    PROVE  /\ Moved(w)
           /\ (End(w) /\ canceled') \/ Again(w, n)
<1> DEFINE x == worker[w]
<1>1. CASE canceled \/ x.retry = MaxRetries
  BY <1>1, EndFacts DEF Retry
<1>2. CASE ~(canceled \/ x.retry = MaxRetries)
  <2> DEFINE y == [x EXCEPT !.pc = "request", !.got = 0, !.retry = @ + 1, !.ch.start = @ + n,
                            !.ch.size = @ - n]
  <2>0. /\ x \in WorkRecs /\ x.ch \in Chunks /\ Within(x.ch)
        /\ x.ch.size \in 0 .. PartSize /\ x.ch.start \in 0 .. Length
    BY DEF Types, Sizes, WorkRecs, Chunks
  <2>1. /\ x.ch.size - n \in 0 .. PartSize /\ x.ch.start + n \in 0 .. Length
        /\ (x.ch.start + n) + (x.ch.size - n) <= Length
        /\ x.retry + 1 \in 0 .. MaxRetries /\ 0 \in 0 .. PartSize
    BY <1>2, <2>0, Bounds DEF Within, WorkRecs
  <2>2. /\ y.pc = "request" /\ y.got = 0 /\ y.ch.id = x.ch.id /\ y.ch.buf = x.ch.buf
        /\ y.ch.start = x.ch.start + n /\ y.ch.size = x.ch.size - n
    BY <2>0 DEF WorkRecs, Chunks
  <2>3. y \in WorkRecs
    BY <2>0, <2>1 DEF WorkRecs, WorkPcs, Chunks
  <2>4. worker' = [worker EXCEPT ![w] = y] /\ UNCHANGED <<limit, canceled>>
    BY <1>2 DEF Retry
  <2>5. Within(y.ch) /\ y.got <= y.ch.size
    BY <2>1, <2>2 DEF Within
  <2> HIDE DEF y
  <2>6. worker'[w] = y /\ \A v \in Workers : v # w => worker'[v] = worker[v]
    BY <2>4 DEF Types
  <2>7. worker' \in [Workers -> WorkRecs]
    BY <2>3, <2>4 DEF Types
  <2> QED BY <2>2, <2>4, <2>5, <2>6, <2>7 DEF Moved, Again
<1> QED BY <1>1, <1>2

-----------------------------------------------------------------------------
(* Steps of a worker                                                        *)

\* A step of worker w that hands out no part.
Turned(w) ==
    /\ Moved(w)
    /\ worker[w].pc \notin {"none", "ended", "panic"} /\ worker'[w].pc \notin {"none", "send"}
    /\ mu' = IF worker[w].pc = "send" THEN Free ELSE mu
    /\ UNCHANGED <<closed, pos, nextChunk, bufMap, reader>>
    /\ canceled => canceled'
    /\ \A b \in Blocks : buf'[b].limit = buf[b].limit /\ buf'[b].open = buf[b].open
    /\ \/ worker'[w].pc # "ended" /\ (limit' = limit \/ (canceled /\ limit' = Slots(1)))
       \/ worker'[w].pc = "ended" /\ limit' = Slots(1)
    /\ \/ concurrency' = concurrency /\ (w \in Gone => worker'[w].pc \in {"requeue", "ended", "panic"})
       \/ /\ w \notin Gone /\ worker'[w].pc = "requeue"
          /\ concurrency' = (IF concurrency > 0 THEN 0 - concurrency ELSE concurrency) - 1
    /\ Types' /\ Sizes'

LEMMA SeqTail ==
    ASSUME NEW S, NEW s \in Seq(S), s # <<>>
    PROVE  /\ Head(s) \in S /\ Head(s) = s[1] /\ 1 \in 1 .. Len(s)
           /\ Tail(s) \in Seq(S) /\ Len(Tail(s)) = Len(s) - 1
           /\ \A k \in 1 .. Len(Tail(s)) : k + 1 \in 1 .. Len(s) /\ Tail(s)[k] = s[k + 1]
OBVIOUS

LEMMA SeqAppend ==
    ASSUME NEW S, NEW s \in Seq(S), NEW e \in S
    PROVE  /\ Append(s, e) \in Seq(S) /\ Len(Append(s, e)) = Len(s) + 1
           /\ Append(s, e)[Len(s) + 1] = e
           /\ \A k \in 1 .. Len(s) : Append(s, e)[k] = s[k]
           /\ \A k \in 1 .. Len(Append(s, e)) : k \in 1 .. Len(s) \/ k = Len(s) + 1
OBVIOUS

LEMMA QueueAppend ==
    ASSUME Types, Sizes, NEW c \in Chunks, Within(c), Len(chunkCh) < Concurrency,
           chunkCh' = Append(chunkCh, c)
    PROVE  /\ chunkCh' \in Seq(Chunks) /\ Len(chunkCh') <= Concurrency
           /\ \A k \in 1 .. Len(chunkCh') : Within(chunkCh'[k])
<1>1. /\ chunkCh' \in Seq(Chunks) /\ Len(chunkCh') = Len(chunkCh) + 1
      /\ \A k \in 1 .. Len(chunkCh') : chunkCh'[k] = c \/ (k \in 1 .. Len(chunkCh) /\ chunkCh'[k] = chunkCh[k])
  BY SeqAppend DEF Types
<1>2. Len(chunkCh) \in Nat
  BY DEF Types
<1> QED BY <1>1, <1>2, Bounds DEF Sizes

LEMMA TakeTurn ==
    ASSUME Types, Sizes, NEW w \in Workers, Take(w)
    PROVE  Turned(w)
<1> USE DEF plan, lock
<1>1. /\ worker[w].pc = "take"
      /\ UNCHANGED <<canceled, closed, pos, nextChunk, concurrency, bufMap, buf, reader, mu,
                     sending>>
  BY DEF Take
<1>2. CASE End(w) /\ UNCHANGED chunkCh
  <2>1. /\ Moved(w) /\ worker'[w].pc = "ended" /\ limit' = Slots(1)
        /\ limit' \in [free : Nat, before : Limits]
    BY <1>2, EndFacts
  <2>2. Types' /\ Sizes'
    BY <1>1, <1>2, <2>1 DEF Types, Sizes, Moved, Within
  <2> QED BY <1>1, <2>1, <2>2 DEF Turned, Gone
<1>3. CASE /\ chunkCh # <<>> /\ chunkCh' = Tail(chunkCh) /\ UNCHANGED limit
           /\ worker' = [worker EXCEPT ![w] = [NoWorker EXCEPT !.pc = "request", !.ch = Head(chunkCh)]]
  <2>0. chunkCh \in Seq(Chunks) /\ Len(chunkCh) \in Nat
    BY DEF Types
  <2>1. /\ Head(chunkCh) \in Chunks /\ Head(chunkCh) = chunkCh[1] /\ 1 \in 1 .. Len(chunkCh)
        /\ chunkCh' \in Seq(Chunks) /\ Len(chunkCh') = Len(chunkCh) - 1
        /\ \A k \in 1 .. Len(chunkCh') : k + 1 \in 1 .. Len(chunkCh) /\ chunkCh'[k] = chunkCh[k + 1]
    BY <1>3, <2>0, SeqTail
  <2>2. Within(Head(chunkCh)) /\ \A k \in 1 .. Len(chunkCh') : Within(chunkCh'[k])
    BY <2>1 DEF Sizes
  <2>3. Moved(w) /\ worker'[w].pc = "request"
    BY <1>3, <2>1, <2>2, FreshFacts DEF WorkPcs
  <2>4. Len(chunkCh') <= Concurrency
    BY <2>0, <2>1, Bounds DEF Types
  <2>5. Types' /\ Sizes'
    BY <1>1, <1>3, <2>1, <2>2, <2>3, <2>4 DEF Types, Sizes, Moved, Within
  <2> QED BY <1>1, <1>3, <2>3, <2>5 DEF Turned, Gone
<1> QED BY <1>2, <1>3 DEF Take

\* The server answers, or refuses.
LEMMA AnswerTurn ==
    ASSUME Types, Sizes, NEW w \in Workers, Answered(w) \/ Refused(w)
    PROVE  Turned(w)
<1> USE DEF plan, lock
<1>1. /\ worker[w].pc = "request"
      /\ UNCHANGED <<canceled, closed, pos, nextChunk, concurrency, chunkCh, bufMap, buf, reader,
                     limit, mu, sending>>
  <2>1. CASE Answered(w)
    BY <2>1 DEF Answered, Types
  <2>2. CASE Refused(w)
    BY <2>2, Bounds DEF Refused, Types
  <2> QED BY <2>1, <2>2
<1>2. Moved(w) /\ worker'[w].pc \in {"grow", "overload"}
  BY NowFacts DEF Answered, Refused, WorkPcs
<1>3. Types' /\ Sizes'
  BY <1>1, <1>2 DEF Types, Sizes, Moved, Within
<1> QED BY <1>1, <1>2, <1>3 DEF Turned, Gone

\* A request or a body fails.
LEMMA FailureTurn ==
    ASSUME Types, Sizes, NEW w \in Workers, RefusedFirst(w) \/ Broken(w) \/ CopyFails(w)
    PROVE  Turned(w)
<1> USE DEF plan, lock
<1>1. /\ worker[w].pc \in {"request", "copy"}
      /\ UNCHANGED <<closed, pos, nextChunk, concurrency, chunkCh, bufMap, buf, reader, mu, sending>>
  BY DEF RefusedFirst, Broken, CopyFails
<1>2. \/ End(w) /\ canceled'
      \/ \E n \in 0 .. worker[w].ch.size : Retry(w, n)
  <2>1. worker[w].ch \in Chunks /\ worker[w].got \in 0 .. PartSize
    BY DEF Types, WorkRecs
  <2>2. worker[w].ch.size \in Nat /\ worker[w].got \in Nat
    BY <2>1, Bounds DEF Chunks
  <2>3. worker[w].got \in 0 .. worker[w].ch.size
    BY <2>2 DEF Sizes
  <2> QED BY <2>2, <2>3 DEF RefusedFirst, Broken, CopyFails
<1>3. Moved(w) /\ ((End(w) /\ canceled') \/ \E n : Again(w, n))
  BY <1>2, RetryFacts, EndFacts
<1>4. CASE End(w) /\ canceled'
  <2>1. worker'[w].pc = "ended" /\ limit' = Slots(1) /\ limit' \in [free : Nat, before : Limits]
    BY <1>4, EndFacts
  <2>2. canceled' \in BOOLEAN
    BY <1>4
  <2>3. Types' /\ Sizes'
    BY <1>1, <1>3, <2>1, <2>2 DEF Types, Sizes, Moved, Within
  <2> QED BY <1>1, <1>3, <1>4, <2>1, <2>3 DEF Turned, Gone
<1>5. CASE \E n : Again(w, n)
  <2>1. worker'[w].pc = "request" /\ UNCHANGED <<limit, canceled>>
    BY <1>5 DEF Again
  <2>2. Types' /\ Sizes'
    BY <1>1, <1>3, <2>1 DEF Types, Sizes, Moved, Within
  <2> QED BY <1>1, <1>3, <2>1, <2>2 DEF Turned, Gone
<1> QED BY <1>3, <1>4, <1>5

LEMMA OverloadTurn ==
    ASSUME Types, Sizes, NEW w \in Workers, Overload(w)
    PROVE  Turned(w)
<1> USE DEF lock
<1>1. /\ worker[w].pc = "overload"
      /\ UNCHANGED <<canceled, closed, pos, nextChunk, chunkCh, bufMap, buf, reader, limit, mu,
                     sending>>
  BY DEF Overload
<1>2. concurrency \in Int
  BY DEF Types
<1>3. \/ /\ concurrency' = (IF concurrency > 0 THEN 0 - concurrency ELSE concurrency) - 1
         /\ worker' = Now(w, "requeue")
      \/ concurrency' = concurrency /\ worker' = Now(w, "request")
  BY <1>2 DEF Overload
<1>4. Moved(w) /\ worker'[w].pc \in {"requeue", "request"}
  BY <1>3, NowFacts DEF WorkPcs
<1>5. concurrency' \in Int
  BY <1>2, <1>3
<1>6. Types' /\ Sizes'
  BY <1>1, <1>4, <1>5 DEF Types, Sizes, Moved, Within
<1>7. worker' = Now(w, "requeue") => worker'[w].pc = "requeue"
  BY NowFacts DEF WorkPcs
<1> QED BY <1>1, <1>3, <1>4, <1>6, <1>7 DEF Turned, Gone

LEMMA RequeueTurn ==
    ASSUME Types, Sizes, NEW w \in Workers, Requeue(w)
    PROVE  Turned(w)
<1> USE DEF plan, lock
<1>1. /\ worker[w].pc = "requeue"
      /\ UNCHANGED <<canceled, closed, pos, nextChunk, concurrency, bufMap, buf, reader, mu,
                     sending>>
  BY DEF Requeue
<1>2. CASE End(w) /\ (UNCHANGED chunkCh \/ (Len(chunkCh) < Concurrency
                                            /\ chunkCh' = Append(chunkCh, worker[w].ch)))
  <2>1. /\ Moved(w) /\ worker'[w].pc = "ended" /\ limit' = Slots(1)
        /\ limit' \in [free : Nat, before : Limits]
    BY <1>2, EndFacts
  <2>2. worker[w].ch \in Chunks /\ Within(worker[w].ch)
    BY DEF Types, Sizes, WorkRecs
  <2>3. /\ chunkCh' \in Seq(Chunks) /\ Len(chunkCh') <= Concurrency
        /\ \A k \in 1 .. Len(chunkCh') : Within(chunkCh'[k])
    <3>1. CASE UNCHANGED chunkCh
      BY <3>1 DEF Types, Sizes
    <3> QED BY <1>2, <2>2, <3>1, QueueAppend
  <2>4. Types' /\ Sizes'
    BY <1>1, <2>1, <2>3 DEF Types, Sizes, Moved, Within
  <2> QED BY <1>1, <2>1, <2>4 DEF Turned, Gone
<1>3. CASE worker' = Now(w, "panic") /\ UNCHANGED <<chunkCh, limit>>
  <2>1. Moved(w) /\ worker'[w].pc = "panic"
    BY <1>3, NowFacts DEF WorkPcs
  <2>2. Types' /\ Sizes'
    BY <1>1, <1>3, <2>1 DEF Types, Sizes, Moved, Within
  <2> QED BY <1>1, <1>3, <2>1, <2>2 DEF Turned, Gone
<1> QED BY <1>2, <1>3 DEF Requeue

\* The send that ends sendChunkTask, whoever does it.
LEMMA SendFacts ==
    ASSUME Types, Sizes, Sent \/ Unsent, Unlock
    PROVE  /\ chunkCh' \in Seq(Chunks) /\ Len(chunkCh') <= Concurrency
           /\ \A k \in 1 .. Len(chunkCh') : Within(chunkCh'[k])
           /\ limit' \in [free : Nat, before : Limits]
           /\ limit' = limit \/ (canceled /\ limit' = Slots(1))
           /\ mu' = Free /\ sending' \in Chunks /\ Within(sending')
<1>1. sending \in Chunks /\ Within(sending)
  BY DEF Types, Sizes
<1>2. mu' = Free /\ sending' \in Chunks /\ Within(sending')
  BY Records DEF Unlock
<1>3. CASE Sent
  <2>1. Len(chunkCh) < Concurrency /\ chunkCh' = Append(chunkCh, sending) /\ UNCHANGED limit
    BY <1>3 DEF Sent
  <2>2. /\ chunkCh' \in Seq(Chunks) /\ Len(chunkCh') <= Concurrency
        /\ \A k \in 1 .. Len(chunkCh') : Within(chunkCh'[k])
    BY <1>1, <2>1, QueueAppend
  <2>3. limit' \in [free : Nat, before : Limits]
    BY <2>1 DEF Types
  <2> QED BY <1>2, <2>1, <2>2, <2>3
<1>4. CASE Unsent
  <2>1. canceled /\ UNCHANGED chunkCh /\ (limit' = limit \/ limit' = Slots(1))
    BY <1>4 DEF Unsent
  <2>2. limit' \in [free : Nat, before : Limits]
    BY <2>1 DEF Types, Slots
  <2>3. /\ chunkCh' \in Seq(Chunks) /\ Len(chunkCh') <= Concurrency
        /\ \A k \in 1 .. Len(chunkCh') : Within(chunkCh'[k])
    BY <2>1 DEF Types, Sizes
  <2> QED BY <1>2, <2>1, <2>2, <2>3
<1> QED BY <1>3, <1>4

LEMMA GrowSendTurn ==
    ASSUME Types, Sizes, NEW w \in Workers, GrowSend(w)
    PROVE  Turned(w)
<1> USE DEF plan
<1>1. /\ worker[w].pc = "send" /\ worker' = Now(w, "copy")
      /\ UNCHANGED <<canceled, closed, pos, nextChunk, concurrency, bufMap, buf, reader>>
  BY DEF GrowSend
<1>2. /\ chunkCh' \in Seq(Chunks) /\ Len(chunkCh') <= Concurrency
      /\ \A k \in 1 .. Len(chunkCh') : Within(chunkCh'[k])
      /\ limit' \in [free : Nat, before : Limits]
      /\ limit' = limit \/ (canceled /\ limit' = Slots(1))
      /\ mu' = Free /\ sending' \in Chunks /\ Within(sending')
  BY SendFacts DEF GrowSend
<1>3. Moved(w) /\ worker'[w].pc = "copy"
  BY <1>1, NowFacts DEF WorkPcs
<1>4. Types' /\ Sizes'
  BY <1>1, <1>2, <1>3 DEF Types, Sizes, Moved, Within
<1> QED BY <1>1, <1>2, <1>3, <1>4 DEF Turned, Gone

\* Nothing to hand out: the worker goes on with its own chunk.
LEMMA DeclineTurn ==
    ASSUME Types, Sizes, NEW w \in Workers, worker[w].pc = "grow", worker' = Now(w, "copy"),
           UNCHANGED <<canceled, closed, plan, chunkCh, bufMap, buf, reader, limit, lock>>
    PROVE  Turned(w)
<1> USE DEF plan, lock
<1>1. UNCHANGED <<canceled, closed, pos, nextChunk, concurrency, chunkCh, bufMap, buf, reader,
                  limit, mu, sending>>
  OBVIOUS
<1>2. Moved(w) /\ worker'[w].pc = "copy"
  BY NowFacts DEF WorkPcs
<1>3. Types' /\ Sizes'
  BY <1>1, <1>2 DEF Types, Sizes, Moved, Within
<1> QED BY <1>1, <1>2, <1>3 DEF Turned, Gone

LEMMA CopiedTurn ==
    ASSUME Types, Sizes, NEW w \in Workers, Copied(w)
    PROVE  Turned(w)
<1> USE DEF plan, lock
<1>1. /\ worker[w].pc = "copy"
      /\ UNCHANGED <<canceled, closed, pos, nextChunk, concurrency, chunkCh, bufMap, buf, reader,
                     limit, mu, sending>>
  BY DEF Copied
<1> DEFINE y == [NoWorker EXCEPT !.pc = "take"]
<1>2. y \in WorkRecs /\ y.pc = "take" /\ y.ch = NoChunk /\ y.got = 0
  BY Records DEF WorkRecs, WorkPcs
<1>3. Moved(w) /\ worker'[w].pc = "take"
  <2>1. worker' = [worker EXCEPT ![w] = y]
    BY DEF Copied
  <2> HIDE DEF y
  <2> QED BY <1>2, <2>1, Records DEF Moved, Types
<1>4. Types' /\ Sizes'
  BY <1>1, <1>3 DEF Types, Sizes, Moved, Within
<1> QED BY <1>1, <1>3, <1>4 DEF Turned, Gone

\* Write puts k bytes, numbered from the place given, behind those that are there.
LEMMA WriteFacts ==
    ASSUME NEW x \in BufRecs, NEW from \in Nat, NEW k \in Nat, from + k <= Length
    PROVE  /\ Write(x, from, k).data \in Seq(0 .. Length - 1)
           /\ Len(Write(x, from, k).data) = Len(x.data) + k
           /\ \A i \in 1 .. Len(x.data) : Write(x, from, k).data[i] = x.data[i]
           /\ \A i \in 1 .. k : Write(x, from, k).data[Len(x.data) + i] = from + i - 1
           /\ Write(x, from, k).limit = x.limit /\ Write(x, from, k).off = x.off
           /\ Write(x, from, k).open = x.open
           /\ Write(x, from, k) \in BufRecs
<1> USE Bounds
<1> DEFINE new == [i \in 1 .. k |-> from + i - 1]
           y == Write(x, from, k)
<1>1. x.data \in Seq(0 .. Length - 1) /\ Len(x.data) \in Nat
  BY DEF BufRecs
<1>2. new \in Seq(0 .. Length - 1) /\ Len(new) = k /\ \A i \in 1 .. k : new[i] = from + i - 1
  <2>1. \A i \in 1 .. k : from + i - 1 \in 0 .. Length - 1
    OBVIOUS
  <2> QED BY <2>1
<1>3. y.data = x.data \o new
  BY DEF Write, BufRecs
<1>4. /\ y.limit = x.limit /\ y.off = x.off /\ y.open = x.open
  BY DEF Write, BufRecs
<1> HIDE DEF new
<1>5. /\ y.data \in Seq(0 .. Length - 1) /\ Len(y.data) = Len(x.data) + k
      /\ \A i \in 1 .. Len(x.data) : y.data[i] = x.data[i]
      /\ \A i \in 1 .. k : y.data[Len(x.data) + i] = from + i - 1
  <2> HIDE DEF y
  <2>1. /\ x.data \o new \in Seq(0 .. Length - 1) /\ Len(x.data \o new) = Len(x.data) + Len(new)
        /\ \A i \in 1 .. Len(x.data) : (x.data \o new)[i] = x.data[i]
        /\ \A i \in 1 .. Len(new) : (x.data \o new)[Len(x.data) + i] = new[i]
    <3> DEFINE S == 0 .. Length - 1
               d == x.data
    <3>1. d \in Seq(S) /\ new \in Seq(S)
      BY <1>1, <1>2
    <3> HIDE DEF S, d
    <3>2. /\ d \o new \in Seq(S) /\ Len(d \o new) = Len(d) + Len(new)
          /\ \A i \in 1 .. Len(d) : (d \o new)[i] = d[i]
          /\ \A i \in 1 .. Len(new) : (d \o new)[Len(d) + i] = new[i]
      BY ONLY <3>1
    <3> QED BY <3>2 DEF S, d
  <2> QED BY <1>2, <1>3, <2>1
<1>6. y \in BufRecs
  <2>1. (x.sig \/ x.pend) \in BOOLEAN
    BY DEF BufRecs
  <2> QED BY <1>3, <1>5, <2>1 DEF Write, BufRecs
<1> QED BY <1>4, <1>5, <1>6

LEMMA CopyTurn ==
    ASSUME Types, Sizes, NEW w \in Workers, Copy(w)
    PROVE  Turned(w)
<1> USE DEF plan, lock
<1> DEFINE x == worker[w]
           b == x.ch.buf
<1>1. /\ x.pc = "copy"
      /\ UNCHANGED <<canceled, closed, pos, nextChunk, concurrency, chunkCh, bufMap, reader, limit,
                     mu, sending>>
  BY DEF Copy
<1>2. PICK k \in 1 .. (x.ch.size - x.got) :
         /\ Len(buf[b].data) + k <= buf[b].limit
         /\ buf' = [buf EXCEPT ![b] = Write(@, x.ch.start + x.got, k)]
         /\ worker' = [worker EXCEPT ![w].got = @ + k]
  BY DEF Copy
<1>3. /\ x \in WorkRecs /\ x.ch.size \in 0 .. PartSize /\ x.ch.start \in 0 .. Length
      /\ x.got \in 0 .. PartSize /\ x.got <= x.ch.size /\ Within(x.ch)
  BY DEF Types, Sizes, WorkRecs, Chunks
<1>4. x.ch.start + x.got \in Nat /\ k \in Nat /\ (x.ch.start + x.got) + k <= Length
      /\ x.got + k \in 0 .. PartSize /\ x.got + k <= x.ch.size
  BY <1>3, Bounds DEF Within
<1>5. Moved(w) /\ worker'[w].pc = "copy"
  <2> DEFINE y == [x EXCEPT !.got = @ + k]
  <2>1. y \in WorkRecs /\ y.pc = "copy" /\ y.ch = x.ch /\ y.got = x.got + k
    BY <1>1, <1>3, <1>4 DEF WorkRecs
  <2>2. worker' = [worker EXCEPT ![w] = y]
    BY <1>2
  <2> HIDE DEF y
  <2> QED BY <1>3, <1>4, <2>1, <2>2 DEF Moved, Types
<1>6. /\ buf' \in [Blocks -> BufRecs]
      /\ \A c \in Blocks : /\ buf'[c].limit = buf[c].limit /\ buf'[c].open = buf[c].open
                           /\ buf'[c].off <= Len(buf'[c].data)
                           /\ Len(buf'[c].data) <= buf'[c].limit
  <2>1. ASSUME b \in Blocks
        PROVE  /\ Write(buf[b], x.ch.start + x.got, k) \in BufRecs
               /\ Len(Write(buf[b], x.ch.start + x.got, k).data) = Len(buf[b].data) + k
               /\ Write(buf[b], x.ch.start + x.got, k).limit = buf[b].limit
               /\ Write(buf[b], x.ch.start + x.got, k).off = buf[b].off
               /\ Write(buf[b], x.ch.start + x.got, k).open = buf[b].open
    <3>1. buf[b] \in BufRecs
      BY <2>1 DEF Types
    <3> QED BY ZenonT(30), <1>4, <3>1, WriteFacts
  <2> DEFINE y == Write(buf[b], x.ch.start + x.got, k)
  <2>2. buf' = [buf EXCEPT ![b] = y] /\ buf \in [Blocks -> BufRecs]
    BY <1>2 DEF Types
  <2>3. \A c \in Blocks : buf[c].off \in Nat /\ Len(buf[c].data) \in Nat
                          /\ buf[c].off <= Len(buf[c].data) /\ Len(buf[c].data) <= buf[c].limit
    BY DEF Types, Sizes, BufRecs
  <2> HIDE DEF y
  <2>4. CASE b \in Blocks
    <3>1. /\ y \in BufRecs /\ Len(y.data) = Len(buf[b].data) + k /\ y.limit = buf[b].limit
          /\ y.off = buf[b].off /\ y.open = buf[b].open
      BY <2>1, <2>4 DEF y
    <3> HIDE DEF x, b
    <3>2. buf' \in [Blocks -> BufRecs] /\ buf'[b] = y /\ \A c \in Blocks : c # b => buf'[c] = buf[c]
      BY <2>2, <2>4, <3>1
    <3> QED BY <1>2, <1>4, <2>3, <2>4, <3>1, <3>2
  <2>5. CASE b \notin Blocks
    <3>1. buf' = buf
      BY <2>2, <2>5
    <3> QED BY <2>2, <2>3, <3>1
  <2> QED BY <2>4, <2>5
<1>7. Types' /\ Sizes'
  <2>1. Sizes'
    BY <1>1, <1>5, <1>6 DEF Sizes, Moved, Within
  <2>2. Types'
    BY <1>1, <1>5, <1>6 DEF Types, Moved
  <2> QED BY <2>1, <2>2
<1> QED BY <1>1, <1>5, <1>6, <1>7 DEF Turned, Gone

\* A step of a worker hands out a part, or is a turn.
LEMMA WorkerTurns ==
    ASSUME Types, Sizes, NEW w \in Workers, WorkerStep(w)
    PROVE  \/ Turned(w)
           \/ /\ worker[w].pc = "grow" /\ mu = Free
              /\ Prepare(w, TRUE, Now(w, "send"))
              /\ UNCHANGED <<canceled, closed, chunkCh, reader>>
<1>1. CASE Grow(w)
  BY <1>1, DeclineTurn DEF Grow
<1> QED BY <1>1, TakeTurn, AnswerTurn, FailureTurn, OverloadTurn, RequeueTurn, GrowSendTurn,
           CopyTurn, CopiedTurn DEF WorkerStep

-----------------------------------------------------------------------------
(* Handing out a part                                                       *)

LEMMA IntervalSize ==
    ASSUME NEW n \in Nat
    PROVE  IsFiniteSet(1 .. n) /\ Cardinality(1 .. n) = n
<1>1. Cardinality(1 .. n) = (IF 1 > n THEN 0 ELSE n - 1 + 1) /\ IsFiniteSet(1 .. n)
  BY FS_Interval
<1> QED BY <1>1

LEMMA NextOne ==
    ASSUME NEW S, NEW n \in Nat, S = 1 .. n
    PROVE  /\ n + 1 \notin S /\ S \cup {n + 1} = 1 .. n + 1 /\ Cardinality(S \cup {n + 1}) = n + 1
           /\ IsFiniteSet(S) /\ Cardinality(S) = n
<1>1. n + 1 \notin S /\ S \cup {n + 1} = 1 .. n + 1
  OBVIOUS
<1>2. Cardinality(1 .. n + 1) = n + 1 /\ Cardinality(1 .. n) = n /\ IsFiniteSet(1 .. n)
  BY IntervalSize
<1> QED BY <1>1, <1>2

LEMMA FiniteWorkers ==
    /\ IsFiniteSet(Workers) /\ Cardinality(Workers) = Concurrency
    /\ IsFiniteSet(Blocks) /\ Cardinality(Blocks) = Parts
    /\ IsFiniteSet(Spawned) /\ IsFiniteSet(Taken) /\ IsFiniteSet(Live) /\ IsFiniteSet(Gone)
    /\ Cardinality(Spawned) \in Nat /\ Cardinality(Taken) \in Nat
    /\ Cardinality(Live) \in Nat /\ Cardinality(Gone) \in Nat
    /\ Cardinality(Spawned) <= Concurrency /\ Cardinality(Taken) <= Parts
    /\ Cardinality(Gone) <= Concurrency
<1>1. /\ IsFiniteSet(Workers) /\ Cardinality(Workers) = Concurrency
      /\ IsFiniteSet(Blocks) /\ Cardinality(Blocks) = Parts
  BY Bounds, IntervalSize DEF Workers, Blocks
<1>2. /\ Spawned \in SUBSET Workers /\ Live \in SUBSET Workers /\ Gone \in SUBSET Workers
      /\ Taken \in SUBSET Blocks
  BY DEF Spawned, Live, Gone, Taken
<1>3. /\ IsFiniteSet(Spawned) /\ IsFiniteSet(Taken) /\ IsFiniteSet(Live) /\ IsFiniteSet(Gone)
      /\ Cardinality(Spawned) <= Concurrency /\ Cardinality(Taken) <= Parts
      /\ Cardinality(Gone) <= Concurrency
  BY <1>1, <1>2, FS_Subset
<1> QED BY <1>1, <1>3, FS_CardinalityType

\* sendChunkTask up to the send: part nextChunk gets a buffer, the one the reader left
\* or the next block.
HandsOut(new) ==
    /\ ~closed /\ nextChunk < Parts /\ nextChunk' = nextChunk + 1 /\ pos' = StartOf(nextChunk + 1)
    /\ sending'.id = nextChunk /\ sending'.start = StartOf(nextChunk)
    /\ sending'.size = StartOf(nextChunk + 1) - StartOf(nextChunk)
    /\ sending'.size \in 1 .. PartSize /\ sending'.new = new
    /\ sending'.buf \in Blocks
    /\ sending'.buf = bufMap[nextChunk] \/ (bufMap[nextChunk] = NoBuf /\ sending'.buf \notin Taken)
    /\ bufMap' = [bufMap EXCEPT ![nextChunk] = sending'.buf]
    /\ \A b \in Blocks : b # sending'.buf => buf'[b] = buf[b]
    /\ buf'[sending'.buf].limit = sending'.size /\ buf'[sending'.buf].off = 0
    /\ buf'[sending'.buf].data = <<>>
    /\ Taken' = Taken \cup {sending'.buf}
    /\ Taken' = 1 .. Cardinality(Taken')
    /\ Cardinality(Taken') = Cardinality(Taken) + (IF bufMap[nextChunk] = NoBuf THEN 1 ELSE 0)
    /\ sending' \in Chunks /\ Within(sending')
    /\ pos' \in 0 .. Length /\ nextChunk' \in 0 .. Parts
    /\ bufMap' \in [Last .. Parts -> Buffers]
    /\ buf' \in [Blocks -> BufRecs]
    /\ \A b \in Blocks : buf'[b].off <= Len(buf'[b].data) /\ Len(buf'[b].data) <= buf'[b].limit

LEMMA PrepareFacts ==
    ASSUME Types, Sizes, Counting, Places, ~closed => Mapped,
           NEW a, NEW new \in BOOLEAN, NEW ws, Prepare(a, new, ws)
    PROVE  HandsOut(new)
<1> USE Bounds
<1> DEFINE c == NextPart(new)
           t == Cardinality(Taken)
<1>1. /\ ~closed /\ pos < Length /\ sending' = c
      /\ buf' = [buf EXCEPT ![c.buf] = Reset(@, c.size)]
      /\ bufMap' = [bufMap EXCEPT ![nextChunk] = c.buf]
      /\ pos' = pos + c.size /\ nextChunk' = nextChunk + 1
  BY DEF Prepare, MaySend
<1>2. nextChunk \in 0 .. Parts - 1
  <2>1. nextChunk \in 0 .. Parts /\ pos = StartOf(nextChunk)
    BY DEF Types, Places
  <2>2. nextChunk # Parts
    BY <1>1, <2>1, Tiling
  <2> QED BY <2>1, <2>2
<1>3. /\ c.id = nextChunk /\ c.start = pos /\ c.size = PartLength(PartSize, Length, nextChunk)
      /\ c.new = new /\ c.buf = NextBuf
  BY DEF NextPart
<1>4. /\ c.size \in 1 .. PartSize /\ c.start = StartOf(nextChunk)
      /\ pos' = StartOf(nextChunk + 1) /\ pos' \in 0 .. Length /\ pos \in 0 .. Length
      /\ c.size = StartOf(nextChunk + 1) - StartOf(nextChunk)
  <2>1. pos = StartOf(nextChunk) /\ pos \in 0 .. Length
    BY DEF Places, Types
  <2>2. /\ PartLength(PartSize, Length, nextChunk) \in 1 .. PartSize
        /\ StartOf(nextChunk + 1) = StartOf(nextChunk) + PartLength(PartSize, Length, nextChunk)
    BY <1>2, Tiling
  <2>3. nextChunk + 1 \in 0 .. Parts
    BY <1>2
  <2>4. StartOf(nextChunk + 1) \in 0 .. Length
    BY <2>3, Tiling
  <2> HIDE DEF c
  <2> QED BY <1>1, <1>3, <2>1, <2>2, <2>4
<1>5. /\ c.buf \in Blocks
      /\ c.buf = bufMap[nextChunk] \/ (bufMap[nextChunk] = NoBuf /\ c.buf \notin Taken)
      /\ Taken \cup {c.buf} = 1 .. Cardinality(Taken \cup {c.buf})
      /\ Cardinality(Taken \cup {c.buf}) = t + (IF bufMap[nextChunk] = NoBuf THEN 1 ELSE 0)
  <2>1. t \in Nat /\ Taken = 1 .. t /\ t <= nextChunk
    BY FiniteWorkers DEF Counting
  <2>2. CASE bufMap[nextChunk] # NoBuf
    <3>1. c.buf = bufMap[nextChunk]
      BY <1>3, <2>2 DEF NextBuf
    <3>2. c.buf \in Taken /\ Taken \subseteq Blocks
      BY <1>1, <1>2, <2>2, <3>1 DEF Mapped, Taken
    <3>3. Taken \cup {c.buf} = Taken
      BY <3>2
    <3> HIDE DEF c, t
    <3>4. /\ c.buf \in Blocks /\ c.buf = bufMap[nextChunk]
          /\ Taken \cup {c.buf} = 1 .. Cardinality(Taken \cup {c.buf})
          /\ Cardinality(Taken \cup {c.buf}) = t
      BY <2>1, <3>1, <3>2, <3>3 DEF t
    <3>5. t + (IF bufMap[nextChunk] = NoBuf THEN 1 ELSE 0) = t
      BY <2>1, <2>2
    <3> QED BY ONLY <3>4, <3>5
  <2>3. CASE bufMap[nextChunk] = NoBuf
    <3>1. c.buf = t + 1
      BY <1>3, <2>3 DEF NextBuf
    <3>2. c.buf \in Blocks
      BY <1>2, <2>1, <3>1 DEF Blocks
    <3>3. /\ t + 1 \notin Taken /\ Taken \cup {t + 1} = 1 .. t + 1
          /\ Cardinality(Taken \cup {t + 1}) = t + 1
      <4> HIDE DEF t
      <4> QED BY <2>1, NextOne
    <3> HIDE DEF c, t
    <3> QED BY <2>1, <2>3, <3>1, <3>2, <3>3
  <2> QED BY <2>2, <2>3
<1> HIDE DEF c
<1>6. /\ buf' \in [Blocks -> BufRecs]
      /\ \A b \in Blocks : b # c.buf => buf'[b] = buf[b]
      /\ buf'[c.buf].limit = c.size /\ buf'[c.buf].off = 0 /\ buf'[c.buf].data = <<>>
  <2> DEFINE y == Reset(buf[c.buf], c.size)
  <2>1. y.limit = c.size /\ y.off = 0 /\ y.data = <<>> /\ y \in BufRecs
    <3>1. buf[c.buf] \in BufRecs
      BY <1>5 DEF Types
    <3>2. y.limit = c.size /\ y.off = 0 /\ y.data = <<>>
      BY <3>1 DEF Reset, BufRecs
    <3>3. <<>> \in Seq(0 .. Length - 1) /\ c.size \in 0 .. PartSize
      BY <1>4
    <3> QED BY <3>1, <3>2, <3>3 DEF Reset, BufRecs
  <2>2. buf' = [buf EXCEPT ![c.buf] = y]
    BY <1>1
  <2> HIDE DEF y
  <2> QED BY <1>5, <2>1, <2>2 DEF Types
<1>7. Taken' = Taken \cup {c.buf}
  <2>1. c.size > 0
    BY <1>4
  <2> QED BY <1>5, <1>6, <2>1 DEF Taken
<1>8. bufMap' \in [Last .. Parts -> Buffers]
  BY <1>1, <1>2, <1>5 DEF Types, Buffers
<1>9. c \in Chunks /\ Within(c)
  <2>1. c \in Chunks
    <3>1. c = [id |-> nextChunk, start |-> pos, buf |-> NextBuf, new |-> new,
               size |-> PartLength(PartSize, Length, nextChunk)]
      BY DEF c, NextPart
    <3> HIDE DEF t
    <3> QED BY <1>2, <1>3, <1>4, <1>5, <3>1 DEF Chunks, Buffers
  <2> QED BY <1>1, <1>3, <1>4, <2>1 DEF Within
<1>10. \A b \in Blocks : buf'[b].off <= Len(buf'[b].data) /\ Len(buf'[b].data) <= buf'[b].limit
  <2>1. Len(<<>>) = 0
    OBVIOUS
  <2> QED BY <1>4, <1>5, <1>6, <2>1 DEF Sizes
<1>11. /\ Taken' = 1 .. Cardinality(Taken')
       /\ Cardinality(Taken') = Cardinality(Taken) + (IF bufMap[nextChunk] = NoBuf THEN 1 ELSE 0)
  BY <1>5, <1>7
<1>12. nextChunk < Parts /\ nextChunk' \in 0 .. Parts
  BY <1>1, <1>2
<1> HIDE DEF t
<1>13. /\ sending'.id = nextChunk /\ sending'.start = StartOf(nextChunk)
       /\ sending'.size = StartOf(nextChunk + 1) - StartOf(nextChunk)
       /\ sending'.size \in 1 .. PartSize /\ sending'.new = new
       /\ sending'.buf = c.buf /\ sending' = c
  BY <1>1, <1>3, <1>4
<1> QED BY <1>1, <1>4, <1>5, <1>6, <1>7, <1>8, <1>9, <1>10, <1>11, <1>12, <1>13 DEF HandsOut

-----------------------------------------------------------------------------
(* A worker's turn keeps the invariant                                      *)

LEMMA TurnedSets ==
    ASSUME Types, NEW w \in Workers, Turned(w)
    PROVE  /\ Spawned' = Spawned /\ Taken' = Taken /\ w \in Spawned
           /\ Cardinality(Gone) \in Nat /\ Cardinality(Gone') \in Nat
           /\ Cardinality(Gone) <= Cardinality(Gone')
           /\ w \notin Gone /\ worker'[w].pc = "requeue" =>
                 Cardinality(Gone') = Cardinality(Gone) + 1
           /\ worker'[w].pc # "ended" => Live' = Live
           /\ worker'[w].pc = "ended" => Cardinality(Live') = Cardinality(Live) - 1
<1>1. \A v \in Workers : v # w => worker'[v] = worker[v]
  BY DEF Turned, Moved
<1>2. Spawned' = Spawned /\ w \in Spawned
  BY <1>1 DEF Turned, Spawned
<1>3. Taken' = Taken
  BY DEF Turned, Taken
<1>4. worker'[w].pc # "ended" => Live' = Live
  BY <1>1 DEF Turned, Live
<1>5. ASSUME worker'[w].pc = "ended" PROVE Cardinality(Live') = Cardinality(Live) - 1
  <2>1. Live' = Live \ {w} /\ w \in Live
    BY <1>1, <1>5 DEF Turned, Live
  <2>2. IsFiniteSet(Live)
    BY FiniteWorkers
  <2> QED BY <2>1, <2>2, FS_RemoveElement
<1>6. w \in Gone => w \in Gone'
  BY DEF Turned, Gone
<1>7. Gone \in SUBSET Gone' /\ IsFiniteSet(Gone') /\ IsFiniteSet(Gone)
  <2>1. Gone \subseteq Gone'
    BY <1>1, <1>6 DEF Gone
  <2>2. Gone' \in SUBSET Workers /\ Gone \in SUBSET Workers
    BY DEF Gone
  <2> QED BY <2>1, <2>2, FiniteWorkers, FS_Subset
<1>8. /\ Cardinality(Gone) <= Cardinality(Gone')
      /\ Cardinality(Gone) \in Nat /\ Cardinality(Gone') \in Nat
  BY <1>7, FS_Subset, FS_CardinalityType
<1>9. ASSUME w \notin Gone, worker'[w].pc = "requeue"
      PROVE  Cardinality(Gone') = Cardinality(Gone) + 1
  <2>1. Gone' = Gone \cup {w}
    BY <1>1, <1>9 DEF Gone
  <2> QED BY <1>7, <1>9, <2>1, FS_AddElement
<1> QED BY <1>2, <1>3, <1>4, <1>5, <1>8, <1>9

LEMMA TurnedKeeps ==
    ASSUME DownloadInv, NEW w \in Workers, Turned(w)
    PROVE  DownloadInv'
<1>0. /\ Types /\ Sizes /\ Control /\ SlotsKept /\ Counting /\ Places
      /\ (~closed => Mapped /\ Opened) /\ ClosedForGood
  BY DEF DownloadInv
<1>1. /\ Spawned' = Spawned /\ Taken' = Taken /\ w \in Spawned
      /\ Cardinality(Gone) \in Nat /\ Cardinality(Gone') \in Nat
      /\ Cardinality(Gone) <= Cardinality(Gone')
      /\ (w \notin Gone /\ worker'[w].pc = "requeue" =>
             Cardinality(Gone') = Cardinality(Gone) + 1)
      /\ worker'[w].pc # "ended" => Live' = Live
      /\ worker'[w].pc = "ended" => Cardinality(Live') = Cardinality(Live) - 1
  BY <1>0, TurnedSets
<1>2. /\ UNCHANGED <<closed, pos, nextChunk, bufMap, reader>>
      /\ \A v \in Workers : v # w => worker'[v] = worker[v]
      /\ canceled => canceled'
      /\ \A b \in Blocks : buf'[b].limit = buf[b].limit /\ buf'[b].open = buf[b].open
  BY DEF Turned, Moved
<1>3. Control'
  <2>1. mu' = Reader <=> reader'.pc \in {"openSend", "resendSend"}
    BY <1>0, <1>2, Bounds DEF Turned, Control
  <2>2. \A v \in Workers : mu' = v <=> worker'[v].pc = "send"
    BY <1>0, <1>2, Bounds DEF Turned, Control
  <2>3. /\ closed' <=> reader'.pc = "closed"
        /\ closed' => mu' = Free
        /\ reader'.pc \in {"abandon", "close", "closing", "closed"} => canceled'
    BY <1>0, <1>2 DEF Turned, Control
  <2>4. reader'.pc \notin Idle /\ (Spawned' # {} => nextChunk' > 0)
    BY <1>0, <1>1, <1>2 DEF Control
  <2> QED BY <2>1, <2>2, <2>3, <2>4 DEF Control, Idle
<1>4. SlotsKept'
  <2>1. limit \in [free : Nat, before : Limits] /\ Cardinality(Live) \in Nat
    BY <1>0, FiniteWorkers DEF Types
  <2>2. Slots(1).free = limit.free + 1 /\ Slots(1).before = limit.before
    BY <2>1 DEF Slots
  <2>3. limit.free \in Nat /\ limit.before \in Nat
    BY <2>1, Bounds
  <2>4. \/ Live' = Live /\ limit' = limit
        \/ Live' = Live /\ canceled /\ limit'.free = limit.free + 1 /\ limit'.before = limit.before
        \/ /\ Cardinality(Live') = Cardinality(Live) - 1
           /\ limit'.free = limit.free + 1 /\ limit'.before = limit.before
    BY <1>1, <2>2 DEF Turned
  <2> QED BY <1>0, <1>2, <2>1, <2>3, <2>4 DEF SlotsKept
<1>5. Counting'
  <2>1. concurrency \in Int
    BY <1>0 DEF Types
  <2>2. /\ Spawned' = 1 .. Cardinality(Spawned')
        /\ Taken' = 1 .. Cardinality(Taken')
        /\ Cardinality(Taken') <= nextChunk'
        /\ Cardinality(Taken') <= Cardinality(Spawned')
        /\ reader'.pc = "resend" /\ nextChunk' < Parts /\ bufMap'[nextChunk'] = NoBuf =>
              Cardinality(Taken') < Cardinality(Spawned')
    BY <1>0, <1>1, <1>2 DEF Counting
  <2>3. \/ concurrency' = concurrency
        \/ /\ concurrency' = (IF concurrency > 0 THEN 0 - concurrency ELSE concurrency) - 1
           /\ Cardinality(Gone') = Cardinality(Gone) + 1
    BY <1>1 DEF Turned
  <2>4. /\ concurrency' > 0 => Cardinality(Spawned') = Concurrency - concurrency'
        /\ concurrency' <= Concurrency /\ concurrency' >= 0 - Concurrency - Cardinality(Gone')
    BY <1>0, <1>1, <2>1, <2>3, Bounds DEF Counting
  <2> QED BY <2>2, <2>4 DEF Counting
<1>6. Places'
  BY <1>0, <1>2 DEF Places, Popped
<1>7. ~closed' => Mapped' /\ Opened'
  BY <1>0, <1>1, <1>2 DEF Mapped, Opened, Popped, HeldBuf
<1>8. ClosedForGood'
  BY <1>0, <1>2 DEF ClosedForGood
<1> QED BY <1>3, <1>4, <1>5, <1>6, <1>7, <1>8 DEF DownloadInv, Turned

-----------------------------------------------------------------------------
(* Handing out a part keeps the invariant                                   *)

\* Where the reader is when a part is handed out: by a worker, for it, or by itself.
Asked ==
    /\ reader' \in ReadRecs
    /\ reader'.pos = reader.pos /\ reader'.cur = reader.cur /\ reader'.out = reader.out
    /\ \/ reader'.pc = reader.pc
       \/ reader.pc = "open" /\ reader'.pc = "openSend"
       \/ reader.pc = "resend" /\ reader'.pc = "resendSend"

LEMMA HandedPlaces ==
    ASSUME DownloadInv, NEW new, HandsOut(new), Asked, closed' = closed
    PROVE  Places' /\ Mapped' /\ Opened'
<1>0. /\ Types /\ Control /\ Places /\ Mapped /\ Opened /\ ~closed
  BY DEF DownloadInv, HandsOut
<1> DEFINE b == sending'.buf
<1>1. /\ nextChunk \in 0 .. Parts /\ nextChunk < Parts /\ nextChunk' = nextChunk + 1
      /\ b \in Blocks /\ b # NoBuf
      /\ b = bufMap[nextChunk] \/ (bufMap[nextChunk] = NoBuf /\ b \notin Taken)
      /\ bufMap \in [Last .. Parts -> Buffers]
      /\ bufMap' = [bufMap EXCEPT ![nextChunk] = b] /\ Taken' = Taken \cup {b}
      /\ reader.pos \in 0 .. Parts /\ reader.pos <= nextChunk
      /\ pos' = StartOf(nextChunk')
  BY <1>0, Bounds DEF HandsOut, Types, ReadRecs, Places
<1>2. /\ bufMap'[nextChunk] = b
      /\ \A i \in 0 .. Parts : i # nextChunk => bufMap'[i] = bufMap[i]
      /\ bufMap'[Last] = bufMap[Last]
  <2>1. nextChunk # Last /\ nextChunk \in Last .. Parts
    BY <1>1, Bounds
  <2> HIDE DEF b
  <2> QED BY <1>1, <2>1, Bounds
<1>3. \A i \in 0 .. Parts : bufMap[i] # NoBuf => bufMap'[i] = bufMap[i]
  BY <1>1, <1>2
<1>4. Popped' => Popped
  BY <1>1, <1>2 DEF Popped, Asked
<1>5. Places'
  <2>1. reader'.pc \in {"read", "wait"} => Popped'
    <3> SUFFICES ASSUME reader'.pc \in {"read", "wait"} PROVE Popped'
      OBVIOUS
    <3>1. reader.pc \in {"read", "wait"}
      BY DEF Asked
    <3>2. reader.pos < nextChunk /\ bufMap[reader.pos] = NoBuf
      BY <1>0, <3>1 DEF Places, Popped
    <3> QED BY <1>1, <1>2, <3>2 DEF Popped, Asked
  <2>2. reader'.pc \in {"pop", "resendSend", "openSend", "abandon"} =>
           reader'.pos < nextChunk' /\ bufMap'[reader'.pos] # NoBuf
    <3>1. CASE reader.pos = nextChunk
      BY <1>1, <1>2, <3>1 DEF Asked
    <3>2. CASE reader.pos < nextChunk
      <4>1. reader'.pc \in {"pop", "resendSend", "openSend", "abandon"} => bufMap[reader.pos] # NoBuf
        BY <1>0, <3>2 DEF Asked, Places, Control, Idle
      <4> QED BY <1>1, <1>3, <3>2, <4>1 DEF Asked
    <3> QED BY <1>1, <3>1, <3>2
  <2>3. reader'.pc = "finish" => /\ reader'.pos < Parts
                                 /\ reader'.pos < nextChunk' => bufMap'[reader'.pos] # NoBuf
    BY <1>0, <1>1, <1>2 DEF Asked, Places
  <2>4. reader'.pc = "resend" => reader'.pos < Parts /\ bufMap'[reader'.pos] # NoBuf
    BY <1>0, <1>1, <1>2, <1>3 DEF Asked, Places
  <2>5. /\ reader'.pc = "eof" => reader'.pos = Parts
        /\ reader'.pc \in Idle => reader'.pos = 0
        /\ reader'.pos <= nextChunk'
    BY <1>0, <1>1 DEF Asked, Places, Idle
  <2> QED BY <1>1, <2>1, <2>2, <2>3, <2>4, <2>5 DEF Places
<1>6. Mapped'
  <2>1. \A i, j \in 0 .. Parts : bufMap'[i] = bufMap'[j] /\ bufMap'[i] # NoBuf => i = j
    <3> SUFFICES ASSUME NEW i \in 0 .. Parts, NEW j \in 0 .. Parts, bufMap'[i] = bufMap'[j],
                        bufMap'[i] # NoBuf
                 PROVE  i = j
      OBVIOUS
    <3>1. \A k \in 0 .. Parts : bufMap[k] # NoBuf => bufMap[k] \in Taken
      BY <1>0, Bounds DEF Mapped
    <3>2. \A k, l \in 0 .. Parts : bufMap[k] = bufMap[l] /\ bufMap[k] # NoBuf => k = l
      BY <1>0 DEF Mapped
    <3> HIDE DEF b
    <3>3. CASE b = bufMap[nextChunk]
      BY <1>1, <1>2, <3>2, <3>3
    <3>4. CASE b \notin Taken
      BY <1>1, <1>2, <3>1, <3>2, <3>4
    <3> QED BY <1>1, <3>3, <3>4
  <2>2. reader'.pc = "finish" \/ Popped' =>
           /\ reader'.cur # NoBuf /\ bufMap'[Last] = reader'.cur
           /\ \A i \in 0 .. Parts : bufMap'[i] # reader'.cur
    <3> SUFFICES ASSUME reader'.pc = "finish" \/ Popped'
                 PROVE  /\ reader'.cur # NoBuf /\ bufMap'[Last] = reader'.cur
                        /\ \A i \in 0 .. Parts : bufMap'[i] # reader'.cur
      OBVIOUS
    <3>1. reader.pc = "finish" \/ Popped
      BY <1>4 DEF Asked
    <3>2. /\ reader.cur # NoBuf /\ bufMap[Last] = reader.cur
          /\ \A i \in 0 .. Parts : bufMap[i] # reader.cur
      BY <1>0, <3>1 DEF Mapped
    <3>3. reader.cur \in Taken
      BY <1>0, <3>2, Bounds DEF Mapped
    <3>4. b # reader.cur
      BY <1>1, <3>2, <3>3
    <3> QED BY <1>2, <3>2, <3>4 DEF Asked
  <2>3. \A i \in 0 .. Parts : i < reader'.pos \/ i > nextChunk' => bufMap'[i] = NoBuf
    BY <1>0, <1>1, <1>2 DEF Mapped, Asked
  <2>4. \A i \in 0 .. Parts : reader'.pos <= i /\ i < nextChunk' => HeldBuf(i)' # NoBuf
    <3> SUFFICES ASSUME NEW i \in 0 .. Parts, reader.pos <= i, i < nextChunk + 1
                 PROVE  HeldBuf(i)' # NoBuf
      BY <1>1 DEF Asked
    <3>1. CASE i = nextChunk
      BY <1>1, <1>2, <3>1 DEF HeldBuf
    <3>2. CASE i < nextChunk
      <4>1. HeldBuf(i) # NoBuf /\ bufMap'[i] = bufMap[i]
        BY <1>0, <1>2, <3>2 DEF Mapped
      <4> QED BY <4>1 DEF HeldBuf, Asked
    <3> QED BY <1>1, <3>1, <3>2
  <2>5. bufMap'[nextChunk'] = NoBuf
    <3>1. nextChunk + 1 \in 0 .. Parts /\ nextChunk + 1 > nextChunk
      BY <1>1, Bounds
    <3> QED BY <1>0, <1>1, <1>2, <3>1 DEF Mapped
  <2>6. \A i \in Last .. Parts : bufMap'[i] # NoBuf => bufMap'[i] \in Taken'
    <3> HIDE DEF b
    <3> QED BY <1>0, <1>1 DEF Mapped
  <2> QED BY <2>1, <2>2, <2>3, <2>4, <2>5, <2>6 DEF Mapped
<1>7. Opened'
  <2> SUFFICES ASSUME NEW d \in Blocks, buf'[d].open
               PROVE  \/ \E i \in 0 .. Parts : bufMap'[i] = d
                      \/ reader'.pc \notin Detached /\ bufMap'[Last] = d
    BY DEF Opened
  <2>1. CASE d = b
    BY <1>1, <1>2, <2>1
  <2>2. CASE d # b
    <3>1. buf[d].open
      BY <2>2 DEF HandsOut
    <3>2. CASE \E i \in 0 .. Parts : bufMap[i] = d
      <4>1. d # NoBuf
        BY Bounds
      <4> QED BY <1>3, <3>2, <4>1
    <3>3. CASE reader.pc \notin Detached /\ bufMap[Last] = d
      <4>1. reader'.pc \notin Detached
        BY <3>3 DEF Asked, Detached, Idle
      <4> QED BY <1>2, <3>3, <4>1
    <3> QED BY <1>0, <3>1, <3>2, <3>3 DEF Opened
  <2> QED BY <2>1, <2>2
<1> QED BY <1>5, <1>6, <1>7

\* The next worker starts; the one that asked for it may be about to send.
LEMMA SpawnFacts ==
    ASSUME Types, Sizes, Counting, concurrency > 0, NEW ws \in [Workers -> WorkRecs],
           \A v \in Workers : /\ Within(ws[v].ch) /\ ws[v].got <= ws[v].ch.size
                              /\ ws[v].pc = worker[v].pc \/ (worker[v].pc = "grow" /\ ws[v].pc = "send"),
           worker' = [ws EXCEPT ![Cardinality(Spawned) + 1].pc = "take"]
    PROVE  /\ worker' \in [Workers -> WorkRecs]
           /\ \A v \in Workers : Within(worker'[v].ch) /\ worker'[v].got <= worker'[v].ch.size
           /\ Cardinality(Spawned) + 1 \in Workers \ Spawned
           /\ worker'[Cardinality(Spawned) + 1].pc = "take"
           /\ \A v \in Workers : v # Cardinality(Spawned) + 1 => worker'[v] = ws[v]
           /\ Cardinality(Spawned') = Cardinality(Spawned) + 1
           /\ Spawned' = 1 .. Cardinality(Spawned')
           /\ Cardinality(Live') = Cardinality(Live) + 1
           /\ Gone' = Gone
<1> DEFINE n == Cardinality(Spawned)
<1>1. n \in Nat /\ Spawned = 1 .. n /\ n + 1 <= Concurrency
  <2>1. n \in Nat
    BY FiniteWorkers
  <2>2. Spawned = 1 .. n /\ n = Concurrency - concurrency
    BY DEF Counting
  <2>3. concurrency \in Int
    BY DEF Types
  <2> HIDE DEF n
  <2> QED BY <2>1, <2>2, <2>3, Bounds
<1> HIDE DEF n
<1>2. /\ n + 1 \notin Spawned /\ Spawned \cup {n + 1} = 1 .. n + 1
      /\ Cardinality(Spawned \cup {n + 1}) = n + 1
  BY <1>1, NextOne
<1>3. n + 1 \in Workers
  BY <1>1, Bounds DEF Workers
<1>4. worker[n + 1].pc = "none" /\ ws[n + 1].pc = "none"
  BY <1>2, <1>3 DEF Spawned
<1>5. worker' = [ws EXCEPT ![n + 1].pc = "take"]
  BY DEF n
<1>6. /\ worker' \in [Workers -> WorkRecs] /\ worker'[n + 1].pc = "take"
      /\ worker'[n + 1].ch = ws[n + 1].ch /\ worker'[n + 1].got = ws[n + 1].got
      /\ \A v \in Workers : v # n + 1 => worker'[v] = ws[v]
  <2> DEFINE y == [ws[n + 1] EXCEPT !.pc = "take"]
  <2>1. y \in WorkRecs /\ y.pc = "take" /\ y.ch = ws[n + 1].ch /\ y.got = ws[n + 1].got
    BY <1>3 DEF WorkRecs, WorkPcs
  <2>2. worker' = [ws EXCEPT ![n + 1] = y]
    BY <1>5
  <2> HIDE DEF y
  <2> QED BY <1>3, <2>1, <2>2
<1>7. \A v \in Workers : Within(worker'[v].ch) /\ worker'[v].got <= worker'[v].ch.size
  BY <1>6
<1>8. \A v \in Workers :
         \/ v = n + 1 /\ worker'[v].pc = "take" /\ worker[v].pc = "none"
         \/ v # n + 1 /\ worker'[v].pc = worker[v].pc
         \/ v # n + 1 /\ worker'[v].pc = "send" /\ worker[v].pc = "grow"
  BY <1>4, <1>6
<1>9. Spawned' = Spawned \cup {n + 1}
  BY ONLY <1>3, <1>8 DEF Spawned
<1>10. Live' = Live \cup {n + 1} /\ n + 1 \notin Live /\ Gone' = Gone
  BY ONLY <1>3, <1>8 DEF Live, Gone
<1>11. Cardinality(Live') = Cardinality(Live) + 1
  BY <1>10, FiniteWorkers, FS_AddElement
<1>12. Cardinality(Spawned') = n + 1 /\ Spawned' = 1 .. Cardinality(Spawned')
  BY <1>2, <1>9
<1> QED BY <1>2, <1>3, <1>6, <1>7, <1>10, <1>11, <1>12 DEF n

\* What handing out does besides: a worker and a slot for it, if it is to have one.
HandedWorker(new, ws) ==
    /\ worker' = IF new THEN [ws EXCEPT ![Cardinality(Spawned) + 1].pc = "take"] ELSE ws
    /\ concurrency' = IF new THEN concurrency - 1 ELSE concurrency
    /\ limit' = IF new /\ nextChunk > 0 THEN Slots(0 - 1) ELSE limit
    /\ new => concurrency > 0 /\ (nextChunk > 0 => limit.free > 0)

LEMMA HandedCounts ==
    ASSUME DownloadInv, NEW new \in BOOLEAN, NEW ws \in [Workers -> WorkRecs], HandsOut(new),
           HandedWorker(new, ws), Asked, UNCHANGED <<closed, canceled, chunkCh>>,
           mu' \in {Free, Reader} \cup Workers,
           \A v \in Workers : /\ Within(ws[v].ch) /\ ws[v].got <= ws[v].ch.size
                              /\ ws[v].pc = worker[v].pc \/ (worker[v].pc = "grow" /\ ws[v].pc = "send"),
           new => reader'.pc # "open" /\ (reader.pc = "open" <=> nextChunk = 0)
                  /\ (reader.pc = "resend" => reader'.pc = "resend"),
           ~new => ws = worker /\ reader.pc = "resend" /\ reader'.pc = "resendSend"
    PROVE  Types' /\ Sizes' /\ SlotsKept' /\ Counting'
<1>0. /\ Types /\ Sizes /\ Control /\ SlotsKept /\ Counting /\ Places
  BY DEF DownloadInv
<1> DEFINE n == Cardinality(Spawned)
           t == Cardinality(Taken)
<1>1. /\ nextChunk \in Nat /\ nextChunk < Parts /\ nextChunk' = nextChunk + 1 
      /\ Taken' = 1 .. Cardinality(Taken')
      /\ Cardinality(Taken') = t + (IF bufMap[nextChunk] = NoBuf THEN 1 ELSE 0)
      /\ t \in Nat /\ n \in Nat /\ Cardinality(Live) \in Nat /\ concurrency \in Int
      /\ Cardinality(Gone) \in Nat
      /\ limit \in [free : Nat, before : Limits] /\ limit.free \in Nat /\ limit.before \in Nat
  <2>1. /\ nextChunk \in Nat /\ concurrency \in Int /\ limit \in [free : Nat, before : Limits]
    BY <1>0 DEF Types
  <2>2. /\ nextChunk < Parts /\ nextChunk' = nextChunk + 1
        /\ Taken' = 1 .. Cardinality(Taken')
        /\ Cardinality(Taken') = t + (IF bufMap[nextChunk] = NoBuf THEN 1 ELSE 0)
    BY DEF HandsOut
  <2>3. limit.free \in Nat /\ limit.before \in Nat
    BY <2>1, Bounds
  <2>4. t \in Nat /\ n \in Nat /\ Cardinality(Live) \in Nat /\ Cardinality(Gone) \in Nat
    BY FiniteWorkers
  <2> QED BY ONLY <2>1, <2>2, <2>3, <2>4
<1>2. /\ worker' \in [Workers -> WorkRecs]
      /\ \A v \in Workers : Within(worker'[v].ch) /\ worker'[v].got <= worker'[v].ch.size
      /\ Spawned' = 1 .. Cardinality(Spawned')
      /\ Cardinality(Spawned') = n + (IF new THEN 1 ELSE 0)
      /\ Cardinality(Live') = Cardinality(Live) + (IF new THEN 1 ELSE 0)
      /\ Gone' = Gone
  <2>1. CASE new
    <3>1. concurrency > 0 /\ worker' = [ws EXCEPT ![Cardinality(Spawned) + 1].pc = "take"]
      BY <2>1 DEF HandedWorker
    <3>2. /\ worker' \in [Workers -> WorkRecs]
          /\ \A v \in Workers : Within(worker'[v].ch) /\ worker'[v].got <= worker'[v].ch.size
          /\ Cardinality(Spawned') = Cardinality(Spawned) + 1
          /\ Spawned' = 1 .. Cardinality(Spawned')
          /\ Cardinality(Live') = Cardinality(Live) + 1
          /\ Gone' = Gone
      BY <1>0, <3>1, SpawnFacts
    <3> QED BY <2>1, <3>2
  <2>2. CASE ~new
    <3>1. worker' = worker
      BY <2>2 DEF HandedWorker
    <3>2. Spawned' = Spawned /\ Live' = Live /\ Gone' = Gone
      BY <3>1 DEF Spawned, Live, Gone
    <3> QED BY <1>0, <1>1, <2>2, <3>1, <3>2 DEF Types, Sizes, Counting
  <2> QED BY <2>1, <2>2
<1>3. limit' \in [free : Nat, before : Limits]
      /\ limit'.before = limit.before
      /\ limit'.free = limit.free - (IF new /\ nextChunk > 0 THEN 1 ELSE 0)
  <2>0. /\ limit \in [free : Nat, before : Limits] /\ limit.free \in Nat
        /\ new /\ nextChunk > 0 => limit' = [limit EXCEPT !.free = @ + (0 - 1)] /\ limit.free > 0
        /\ ~(new /\ nextChunk > 0) => limit' = limit
    BY <1>1 DEF HandedWorker, Slots
  <2>1. CASE new /\ nextChunk > 0
    BY ONLY <2>0, <2>1
  <2>2. CASE ~(new /\ nextChunk > 0)
    BY ONLY <2>0, <2>2
  <2> QED BY <2>1, <2>2
<1> HIDE DEF n, t
<1>4. SlotsKept'
  <2>1. canceled' = canceled
    OBVIOUS
  <2>2. CASE new
    <3>1. /\ limit.free + Cardinality(Live) + (IF reader.pc = "open" THEN 1 ELSE 0)
               = limit'.free + Cardinality(Live') + (IF reader'.pc = "open" THEN 1 ELSE 0)
      BY <1>1, <1>2, <1>3, <2>2
    <3> QED BY <1>0, <1>3, <2>1, <3>1 DEF SlotsKept
  <2>3. CASE ~new
    <3>1. reader.pc # "open" /\ reader'.pc # "open"
      BY <2>3
    <3> QED BY <1>0, <1>1, <1>2, <1>3, <2>1, <2>3, <3>1 DEF SlotsKept
  <2> QED BY <2>2, <2>3
<1>5. Counting'
  <2>1. /\ Spawned = 1 .. n /\ t <= nextChunk /\ t <= n
        /\ concurrency > 0 => n = Concurrency - concurrency
        /\ concurrency <= Concurrency /\ concurrency >= 0 - Concurrency - Cardinality(Gone)
        /\ (reader.pc = "resend" /\ bufMap[nextChunk] = NoBuf => t < n)
    BY <1>0, <1>1 DEF Counting, n, t
  <2>2. Cardinality(Taken') <= nextChunk'
    BY <1>1, <2>1
  <2>3. Cardinality(Taken') <= Cardinality(Spawned')
    BY <1>1, <1>2, <2>1
  <2>4. /\ concurrency' > 0 => Cardinality(Spawned') = Concurrency - concurrency'
        /\ concurrency' <= Concurrency /\ concurrency' >= 0 - Concurrency - Cardinality(Gone')
    <3>1. /\ concurrency' = IF new THEN concurrency - 1 ELSE concurrency
          /\ new => concurrency > 0
      BY DEF HandedWorker
    <3>2. CASE new
      BY <1>1, <1>2, <2>1, <3>1, <3>2, Bounds
    <3>3. CASE ~new
      BY <1>1, <1>2, <2>1, <3>1, <3>3, Bounds
    <3> QED BY <3>2, <3>3
  <2>5. reader'.pc = "resend" => Cardinality(Taken') < Cardinality(Spawned')
    <3> SUFFICES ASSUME reader'.pc = "resend" PROVE Cardinality(Taken') < Cardinality(Spawned')
      OBVIOUS
    <3>1. new /\ reader.pc = "resend"
      BY DEF Asked
    <3> QED BY <1>1, <1>2, <2>1, <3>1
  <2> QED BY <1>1, <1>2, <2>2, <2>3, <2>4, <2>5 DEF Counting
<1>6. Types' /\ Sizes'
  <2>1. /\ concurrency' \in Int
    BY <1>1 DEF HandedWorker
  <2>2. Types'
    BY <1>0, <1>2, <1>3, <2>1 DEF Types, HandsOut, Asked
  <2>3. Sizes'
    BY <1>0, <1>2 DEF Sizes, HandsOut
  <2> QED BY <2>2, <2>3
<1> QED BY <1>4, <1>5, <1>6

LEMMA PrepareSplits ==
    ASSUME DownloadInv, NEW a, NEW new \in BOOLEAN, NEW ws, Prepare(a, new, ws)
    PROVE  HandsOut(new) /\ HandedWorker(new, ws) /\ mu' = a
<1>1. HandsOut(new)
  BY PrepareFacts DEF DownloadInv
<1>2. HandedWorker(new, ws) /\ mu' = a
  BY DEF Prepare, HandedWorker, MaySend
<1> QED BY <1>1, <1>2

LEMMA GrowKeeps ==
    ASSUME DownloadInv, NEW w \in Workers, worker[w].pc = "grow", mu = Free,
           Prepare(w, TRUE, Now(w, "send")),
           UNCHANGED <<canceled, closed, chunkCh, reader>>
    PROVE  DownloadInv'
<1> DEFINE ws == Now(w, "send")
<1>0. /\ Types /\ Sizes /\ Control /\ SlotsKept /\ Counting /\ Places /\ ClosedForGood
  BY DEF DownloadInv
<1>1. HandsOut(TRUE) /\ HandedWorker(TRUE, ws) /\ mu' = w
  BY PrepareSplits
<1>2. /\ ws \in [Workers -> WorkRecs] /\ ws[w].pc = "send"
      /\ \A v \in Workers : /\ Within(ws[v].ch) /\ ws[v].got <= ws[v].ch.size
                            /\ v # w => ws[v] = worker[v]
  BY <1>0 DEF Types, Sizes, Now, WorkRecs, WorkPcs, Within
<1> HIDE DEF ws
<1>3. w \in Spawned /\ nextChunk > 0 /\ reader.pc \notin Idle
  <2>1. w \in Spawned
    BY DEF Spawned
  <2> QED BY <1>0, <2>1 DEF Control
<1>4. Asked
  BY <1>0 DEF Asked, Types
<1>5. Places' /\ Mapped' /\ Opened'
  BY <1>1, <1>4, HandedPlaces
<1>6. Types' /\ Sizes' /\ SlotsKept' /\ Counting'
  <2>1. reader'.pc # "open" /\ (reader.pc = "open" <=> nextChunk = 0)
        /\ (reader.pc = "resend" => reader'.pc = "resend")
    BY <1>3 DEF Idle
  <2>2. \A v \in Workers : /\ Within(ws[v].ch) /\ ws[v].got <= ws[v].ch.size
                           /\ ws[v].pc = worker[v].pc \/ (worker[v].pc = "grow" /\ ws[v].pc = "send")
    BY <1>2
  <2>3. mu' \in {Free, Reader} \cup Workers
    BY <1>1
  <2> QED BY <1>1, <1>2, <1>4, <2>1, <2>2, <2>3, HandedCounts
<1>7. Control'
  <2>1. \A v \in Workers : v # w => worker'[v].pc # "send"
    <3>1. concurrency > 0 /\ worker' = [ws EXCEPT ![Cardinality(Spawned) + 1].pc = "take"]
      BY <1>1 DEF HandedWorker
    <3>2. \A v \in Workers : v # w => ws[v].pc # "send"
      BY <1>0, <1>2, Bounds DEF Control
    <3>3. /\ worker'[Cardinality(Spawned) + 1].pc = "take"
          /\ \A v \in Workers : v # Cardinality(Spawned) + 1 => worker'[v] = ws[v]
      <4>1. \A v \in Workers : /\ Within(ws[v].ch) /\ ws[v].got <= ws[v].ch.size
                               /\ ws[v].pc = worker[v].pc \/ (worker[v].pc = "grow" /\ ws[v].pc = "send")
        BY <1>2
      <4> QED BY <1>0, <1>2, <3>1, <4>1, SpawnFacts
    <3> QED BY <3>2, <3>3
  <2>2. worker'[w].pc = "send"
    <3>1. concurrency > 0 /\ worker' = [ws EXCEPT ![Cardinality(Spawned) + 1].pc = "take"]
      BY <1>1 DEF HandedWorker
    <3>2. /\ Cardinality(Spawned) + 1 \notin Spawned
          /\ \A v \in Workers : v # Cardinality(Spawned) + 1 => worker'[v] = ws[v]
      <4>1. \A v \in Workers : /\ Within(ws[v].ch) /\ ws[v].got <= ws[v].ch.size
                               /\ ws[v].pc = worker[v].pc \/ (worker[v].pc = "grow" /\ ws[v].pc = "send")
        BY <1>2
      <4> QED BY <1>0, <1>2, <3>1, <4>1, SpawnFacts
    <3>3. w \in Spawned
      BY DEF Spawned
    <3> QED BY <1>2, <3>2, <3>3
  <2>3. \A v \in Workers : mu' = v <=> worker'[v].pc = "send"
    BY <1>1, <2>1, <2>2
  <2>4. ~closed /\ mu' # Reader /\ nextChunk' > 0
    BY <1>1, <1>3, Bounds DEF HandsOut, Types
  <2>5. reader.pc \notin {"openSend", "resendSend", "closed"}
    BY <1>0, <2>4, Bounds DEF Control
  <2>6. UNCHANGED <<closed, canceled, reader>>
    OBVIOUS
  <2> QED BY <1>0, <1>3, <2>3, <2>4, <2>5, <2>6 DEF Control
<1>8. ClosedForGood'
  BY <1>1 DEF HandsOut, ClosedForGood
<1> QED BY <1>5, <1>6, <1>7, <1>8 DEF DownloadInv

\* The first part, or one for which the reader has left a buffer.
LEMMA ReaderSends ==
    ASSUME DownloadInv, Open \/ (Resend /\ Prepare(Reader, FALSE, worker) /\ reader' = Turn("resendSend"))
    PROVE  DownloadInv'
<1>0. /\ Types /\ Sizes /\ Control /\ SlotsKept /\ Counting /\ Places /\ ClosedForGood
  BY DEF DownloadInv
<1> DEFINE new == reader.pc = "open"
<1>1. /\ \/ new /\ Prepare(Reader, new, worker) /\ reader' = Turn("openSend")
         \/ /\ ~new /\ reader.pc = "resend" /\ Prepare(Reader, new, worker)
            /\ reader' = Turn("resendSend")
      /\ UNCHANGED <<canceled, closed, chunkCh>> /\ new \in BOOLEAN
  BY DEF Open, Resend
<1>2. HandsOut(new) /\ HandedWorker(new, worker) /\ mu' = Reader
  BY <1>1, PrepareSplits
<1>3. /\ reader \in ReadRecs /\ reader' \in ReadRecs
      /\ reader'.pos = reader.pos /\ reader'.cur = reader.cur /\ reader'.out = reader.out
      /\ \/ new /\ reader.pc = "open" /\ reader'.pc = "openSend"
         \/ ~new /\ reader.pc = "resend" /\ reader'.pc = "resendSend"
  BY <1>0, <1>1 DEF Types, Turn, ReadRecs, ReadPcs
<1>4. Asked
  BY <1>3 DEF Asked
<1>5. Places' /\ Mapped' /\ Opened'
  BY <1>1, <1>2, <1>4, HandedPlaces
<1>6. new => nextChunk = 0
  BY <1>0 DEF Control, Idle
<1> HIDE DEF new
<1>7. Types' /\ Sizes' /\ SlotsKept' /\ Counting'
  <2>1. /\ new => reader'.pc # "open" /\ (reader.pc = "open" <=> nextChunk = 0)
                  /\ (reader.pc = "resend" => reader'.pc = "resend")
        /\ ~new => worker = worker /\ reader.pc = "resend" /\ reader'.pc = "resendSend"
    BY <1>3, <1>6
  <2>2. /\ worker \in [Workers -> WorkRecs]
        /\ \A v \in Workers : /\ Within(worker[v].ch) /\ worker[v].got <= worker[v].ch.size
                              /\ worker[v].pc = worker[v].pc \/ (worker[v].pc = "grow" /\ worker[v].pc = "send")
    BY <1>0 DEF Types, Sizes
  <2>3. mu' \in {Free, Reader} \cup Workers
    BY <1>2
  <2> QED BY <1>1, <1>2, <1>4, <2>1, <2>2, <2>3, HandedCounts
<1>8. Control'
  <2>1. \A v \in Workers : worker[v].pc # "send"
    <3>1. mu = Free \/ Spawned = {}
      BY <1>1, <1>0 DEF Open, Resend, Control, Idle
    <3> QED BY <1>0, <3>1, Bounds DEF Control, Spawned
  <2>2. \A v \in Workers : worker'[v].pc # "send"
    <3>1. CASE new
      <4>1. concurrency > 0 /\ worker' = [worker EXCEPT ![Cardinality(Spawned) + 1].pc = "take"]
        BY <1>2, <3>1 DEF HandedWorker
      <4>2. \A v \in Workers : v # Cardinality(Spawned) + 1 => worker'[v] = worker[v]
        BY <4>1 
      <4>3. worker'[Cardinality(Spawned) + 1].pc = "take"
        <5>1. \A v \in Workers : /\ Within(worker[v].ch) /\ worker[v].got <= worker[v].ch.size
                                 /\ worker[v].pc = worker[v].pc \/ (worker[v].pc = "grow" /\ worker[v].pc = "send")
          BY <1>0 DEF Sizes
        <5>2. worker \in [Workers -> WorkRecs]
          BY <1>0 DEF Types
        <5> QED BY <1>0, <4>1, <5>1, <5>2, SpawnFacts
      <4> QED BY <2>1, <4>2, <4>3
    <3>2. CASE ~new
      BY <1>2, <2>1, <3>2 DEF HandedWorker
    <3> QED BY <3>1, <3>2
  <2>3. ~closed /\ closed' = closed /\ nextChunk' > 0 /\ nextChunk' = nextChunk + 1
    BY <1>0, <1>1, <1>2 DEF HandsOut, Types
  <2> QED BY <1>0, <1>2, <1>3, <2>2, <2>3, Bounds DEF Control, Idle
<1>9. ClosedForGood'
  BY <1>1, <1>2 DEF HandsOut, ClosedForGood
<1> QED BY <1>5, <1>7, <1>8, <1>9 DEF DownloadInv

-----------------------------------------------------------------------------
(* Steps of the reader                                                      *)

\* What the reader does leaves the workers and the plan alone.
Aside ==
    /\ UNCHANGED <<pos, nextChunk, worker>>
    /\ \A b \in Blocks : buf'[b].limit = buf[b].limit

LEMMA AsideSets ==
    ASSUME Aside
    PROVE  Spawned' = Spawned /\ Live' = Live /\ Gone' = Gone /\ Taken' = Taken
BY DEF Aside, Spawned, Live, Gone, Taken

LEMMA AsideCounts ==
    ASSUME Types, Counting, Aside,
           concurrency' = concurrency \/ (concurrency' = 0 - concurrency /\ concurrency > 0),
           reader'.pc = "resend" => (reader.pc = "resend" /\ bufMap' = bufMap) \/ bufMap'[nextChunk] # NoBuf
    PROVE  Counting'
<1>1. Spawned' = Spawned /\ Gone' = Gone /\ Taken' = Taken /\ nextChunk' = nextChunk
  BY AsideSets DEF Aside
<1>2. concurrency \in Int /\ Cardinality(Gone) \in Nat
  BY FiniteWorkers DEF Types
<1>3. /\ concurrency' > 0 => Cardinality(Spawned') = Concurrency - concurrency'
      /\ concurrency' <= Concurrency /\ concurrency' >= 0 - Concurrency - Cardinality(Gone')
  BY <1>1, <1>2, Bounds DEF Counting
<1>4. reader'.pc = "resend" /\ nextChunk' < Parts /\ bufMap'[nextChunk'] = NoBuf =>
          Cardinality(Taken') < Cardinality(Spawned')
  BY <1>1 DEF Counting
<1> QED BY <1>1, <1>3, <1>4 DEF Counting

LEMMA AsideSlots ==
    ASSUME Types, SlotsKept, Aside, canceled => canceled',
           \/ limit' = limit /\ (reader'.pc = "open" <=> reader.pc = "open")
           \/ limit' = Slots(1) /\ reader.pc = "open" /\ reader'.pc # "open"
           \/ limit' = Slots(1) /\ canceled /\ (reader'.pc = "open" <=> reader.pc = "open")
           \/ limit' = Slots(0 - 1) /\ reader'.pc = "open" /\ reader.pc # "open"
    PROVE  SlotsKept'
<1>1. Live' = Live /\ Cardinality(Live) \in Nat
  BY AsideSets, FiniteWorkers
<1>2. limit.free \in Nat /\ limit.before \in Nat /\ limit \in [free : Nat, before : Limits]
  BY Bounds DEF Types
<1>3. /\ Slots(1).free = limit.free + 1 /\ Slots(1).before = limit.before
      /\ Slots(0 - 1).free = limit.free - 1 /\ Slots(0 - 1).before = limit.before
  BY <1>2 DEF Slots
<1> QED BY <1>1, <1>2, <1>3 DEF SlotsKept

\* The reader goes on without touching a buffer.
Walks(pc) ==
    /\ UNCHANGED <<closed, concurrency, bufMap, buf, pos, nextChunk, worker>>
    /\ reader' = Turn(pc)
    /\ canceled' \in BOOLEAN /\ (canceled => canceled')
    /\ limit' \in [free : Nat, before : Limits]
    /\ mu' \in {Free, Reader} \cup Workers /\ sending' \in Chunks /\ Within(sending')
    /\ chunkCh' \in Seq(Chunks) /\ Len(chunkCh') <= Concurrency
    /\ \A k \in 1 .. Len(chunkCh') : Within(chunkCh'[k])

LEMMA WalkFacts ==
    ASSUME Types, Sizes, NEW pc \in ReadPcs, Walks(pc)
    PROVE  /\ Types' /\ Sizes' /\ Aside
           /\ reader'.pc = pc /\ reader'.pos = reader.pos /\ reader'.cur = reader.cur
           /\ reader'.out = reader.out
<1>1. /\ reader' \in ReadRecs /\ reader'.pc = pc /\ reader'.pos = reader.pos
      /\ reader'.cur = reader.cur /\ reader'.out = reader.out
  BY DEF Types, Walks, Turn, ReadRecs
<1>2. Aside
  BY DEF Walks, Aside
<1>3. Sizes'
  BY DEF Sizes, Walks, Within
<1>4. Types'
  BY <1>1 DEF Types, Walks
<1> QED BY <1>1, <1>2, <1>3, <1>4

LEMMA WalkMapped ==
    ASSUME Types, Mapped, NEW pc \in ReadPcs, Walks(pc), Aside,
           reader'.pos = reader.pos /\ reader'.cur = reader.cur /\ reader'.pc = pc,
           pc # "finish",
           reader.pc = "resend" => pc = "resend" \/ nextChunk = Parts \/ bufMap[nextChunk] = NoBuf
    PROVE  Mapped'
<1>1. UNCHANGED <<bufMap, nextChunk>> /\ Taken' = Taken
  BY AsideSets DEF Walks
<1>2. Popped' <=> Popped
  BY <1>1 DEF Popped
<1>3. \A i \in 0 .. Parts : HeldBuf(i)' = HeldBuf(i)
  BY <1>1 DEF HeldBuf
<1>4. bufMap'[nextChunk'] # NoBuf => nextChunk' = Parts \/ reader'.pc = "resend"
  BY <1>1 DEF Mapped
<1> QED BY <1>1, <1>2, <1>3, <1>4 DEF Mapped

\* Which walks keep the invariant.
LEMMA WalkKeeps ==
    ASSUME DownloadInv, NEW pc \in ReadPcs, Walks(pc), reader.pc # "closed",
           pc \notin {"finish", "closed", "read", "wait", "resend", "eof"},
           pc \in Detached => reader.pc \in Detached,
           pc \in Idle => reader.pc \in Idle /\ chunkCh' = chunkCh,
           pc \in {"abandon", "close", "closing"} => canceled',
           pc \in {"pop", "resendSend", "openSend", "abandon"} =>
              reader.pos < nextChunk /\ bufMap[reader.pos] # NoBuf,
           reader.pc = "resend" => nextChunk = Parts \/ bufMap[nextChunk] = NoBuf,
           \/ mu' = mu /\ {reader.pc, pc} \cap {"openSend", "resendSend"} = {}
           \/ mu' = Free /\ mu = Reader /\ pc \notin {"openSend", "resendSend"},
           \/ limit' = limit /\ (pc = "open" <=> reader.pc = "open")
           \/ limit' = Slots(1) /\ reader.pc = "open" /\ pc # "open"
           \/ limit' = Slots(1) /\ canceled /\ (pc = "open" <=> reader.pc = "open")
           \/ limit' = Slots(0 - 1) /\ pc = "open" /\ reader.pc # "open"
    PROVE  DownloadInv'
<1>0. /\ Types /\ Sizes /\ Control /\ SlotsKept /\ Counting /\ Places
      /\ Mapped /\ Opened /\ ~closed
  BY DEF DownloadInv, Control
<1>1. /\ Types' /\ Sizes' /\ Aside
      /\ reader'.pc = pc /\ reader'.pos = reader.pos /\ reader'.cur = reader.cur
      /\ reader'.out = reader.out
  BY <1>0, WalkFacts
<1>2. /\ UNCHANGED <<closed, concurrency, bufMap, buf, pos, nextChunk, worker>>
      /\ canceled => canceled'
  BY DEF Walks
<1>3. Control'
  <2>1. Spawned' = Spawned
    BY <1>1, AsideSets
  <2>2. mu' = Reader <=> reader'.pc \in {"openSend", "resendSend"}
    BY <1>0, <1>1, Bounds DEF Control
  <2>3. \A v \in Workers : mu' = v <=> worker'[v].pc = "send"
    BY <1>0, <1>2, Bounds DEF Control
  <2>4. /\ closed' <=> reader'.pc = "closed"
        /\ ~closed'
        /\ reader'.pc \in {"abandon", "close", "closing", "closed"} => canceled'
    BY <1>0, <1>1, <1>2
  <2>5. reader'.pc \in Idle => nextChunk' = 0 /\ Spawned' = {} /\ chunkCh' = <<>>
    BY <1>0, <1>1, <1>2, <2>1 DEF Control
  <2>6. Spawned' # {} => nextChunk' > 0
    BY <1>0, <1>2, <2>1 DEF Control
  <2> QED BY <2>2, <2>3, <2>4, <2>5, <2>6 DEF Control
<1>4. SlotsKept'
  BY <1>0, <1>1, <1>2, AsideSlots
<1>5. Counting'
  <2>1. reader'.pc # "resend" /\ concurrency' = concurrency
    BY <1>1, <1>2
  <2> QED BY <1>0, <1>1, <2>1, AsideCounts
<1>6. Places'
  <2>1. /\ reader'.pc \notin {"read", "wait", "finish", "resend", "eof"}
        /\ reader'.pc \in {"pop", "resendSend", "openSend", "abandon"} =>
              reader'.pos < nextChunk' /\ bufMap'[reader'.pos] # NoBuf
        /\ reader'.pc \in Idle => reader'.pos = 0
    BY <1>0, <1>1, <1>2 DEF Places
  <2>2. pos' = StartOf(nextChunk') /\ reader'.pos <= nextChunk'
    BY <1>0, <1>1, <1>2 DEF Places
  <2> QED BY <2>1, <2>2 DEF Places
<1>7. Mapped'
  BY <1>0, <1>1, WalkMapped
<1>8. Opened'
  BY <1>0, <1>1, <1>2 DEF Opened
<1>9. ClosedForGood'
  BY <1>0, <1>2 DEF ClosedForGood
<1> QED BY <1>1, <1>3, <1>4, <1>5, <1>6, <1>7, <1>8, <1>9 DEF DownloadInv

LEMMA WalksKeep ==
    ASSUME DownloadInv,
           \/ Acquire \/ OpenSend \/ OpenFails \/ ReadFails \/ ResendSend \/ Close
           \/ (Resend /\ Declines(FALSE) /\ reader' = Turn("pop")
               /\ UNCHANGED <<plan, bufMap, buf, worker, limit, lock>>)
    PROVE  DownloadInv'
<1> USE DEF plan, lock
<1>0. /\ Types /\ Sizes /\ Control /\ Places /\ (~closed => Mapped)
  BY DEF DownloadInv
<1>1. /\ limit \in [free : Nat, before : Limits] /\ canceled \in BOOLEAN
      /\ mu \in {Free, Reader} \cup Workers /\ sending \in Chunks /\ Within(sending)
      /\ chunkCh \in Seq(Chunks) /\ Len(chunkCh) <= Concurrency
      /\ \A k \in 1 .. Len(chunkCh) : Within(chunkCh[k])
      /\ limit.free \in Nat /\ Slots(1) \in [free : Nat, before : Limits]
      /\ mu = Reader <=> reader.pc \in {"openSend", "resendSend"}
  <2>1. limit \in [free : Nat, before : Limits]
    BY <1>0 DEF Types
  <2>2. limit.free \in Nat /\ Slots(1) \in [free : Nat, before : Limits]
    BY <2>1, Bounds DEF Slots
  <2>3. mu = Reader <=> reader.pc \in {"openSend", "resendSend"}
    BY <1>0 DEF Control
  <2> QED BY <1>0, <2>1, <2>2, <2>3 DEF Types, Sizes
<1>2. CASE Acquire
  <2>1. reader.pc = "start"
    BY <1>2 DEF Acquire
  <2>2. CASE limit.free = 0
    <3>1. Walks("refused") /\ limit' = limit /\ mu' = mu /\ chunkCh' = chunkCh
      BY <1>1, <1>2, <2>2 DEF Acquire, Walks
    <3> QED BY <2>1, <3>1, WalkKeeps DEF ReadPcs, Detached, Idle
  <2>3. CASE limit.free # 0
    <3>1. Slots(0 - 1) \in [free : Nat, before : Limits]
      BY <1>1, <2>3 DEF Slots
    <3>2. Walks("open") /\ limit' = Slots(0 - 1) /\ mu' = mu /\ chunkCh' = chunkCh
      BY <1>1, <1>2, <2>3, <3>1 DEF Acquire, Walks
    <3> QED BY <2>1, <3>2, WalkKeeps DEF ReadPcs, Detached, Idle
  <2> QED BY <2>2, <2>3
<1>3. CASE OpenFails
  <2>1. /\ reader.pc \in {"open", "abandon"} /\ limit' = Slots(1) /\ mu' = mu /\ canceled'
        /\ Walks("close") /\ (reader.pc = "abandon" => canceled)
    BY <1>0, <1>1, <1>3 DEF OpenFails, Walks, Control
  <2> QED BY <2>1, WalkKeeps DEF ReadPcs, Detached, Idle
<1>4. CASE ReadFails
  <2>1. ~(reader.pc = "read" /\ reader.cur = NoBuf)
    <3> SUFFICES ASSUME reader.pc = "read" PROVE reader.cur # NoBuf
      OBVIOUS
    <3> QED BY <1>0 DEF Places, Mapped, Control
  <2>2. /\ reader.pc \in {"read", "wait"} /\ canceled /\ Walks("close") /\ mu' = mu
        /\ limit' = limit /\ canceled'
    BY <1>1, <1>4, <2>1 DEF ReadFails, Walks
  <2> QED BY <2>2, WalkKeeps DEF ReadPcs, Detached, Idle
<1>5. CASE Close
  <2>1. /\ reader.pc \in {"read", "eof", "close"} /\ canceled' /\ Walks("closing")
        /\ mu' = mu /\ limit' = limit
    BY <1>1, <1>5 DEF Close, Walks
  <2> QED BY <2>1, WalkKeeps DEF ReadPcs, Detached, Idle
<1>6. CASE OpenSend \/ ResendSend
  <2>1. /\ reader.pc \in {"openSend", "resendSend"}
        /\ Sent \/ Unsent
        /\ Unlock
        /\ UNCHANGED <<canceled, closed, pos, nextChunk, concurrency, bufMap, buf, worker>>
        /\ \/ reader' = Turn("pop")
           \/ reader' = Turn("abandon") /\ Unsent
    BY <1>6 DEF OpenSend, ResendSend
  <2>2. /\ chunkCh' \in Seq(Chunks) /\ Len(chunkCh') <= Concurrency
        /\ \A k \in 1 .. Len(chunkCh') : Within(chunkCh'[k])
        /\ limit' \in [free : Nat, before : Limits]
        /\ limit' = limit \/ (canceled /\ limit' = Slots(1))
        /\ mu' = Free /\ sending' \in Chunks /\ Within(sending')
    BY <1>0, <2>1, SendFacts
  <2>3. mu = Reader /\ reader.pos < nextChunk /\ bufMap[reader.pos] # NoBuf
    BY <1>0, <2>1 DEF Control, Places
  <2>4. CASE reader' = Turn("pop")
    <3>1. Walks("pop")
      BY <1>1, <2>1, <2>2, <2>4 DEF Walks
    <3> QED BY <2>1, <2>2, <2>3, <3>1, WalkKeeps DEF ReadPcs, Detached, Idle
  <2>5. CASE reader' = Turn("abandon") /\ Unsent
    <3>1. Walks("abandon") /\ canceled'
      BY <1>1, <2>1, <2>2, <2>5 DEF Walks, Unsent
    <3> QED BY <2>1, <2>2, <2>3, <3>1, WalkKeeps DEF ReadPcs, Detached, Idle
  <2> QED BY <2>1, <2>4, <2>5
<1>7. CASE Resend /\ Declines(FALSE) /\ reader' = Turn("pop")
           /\ UNCHANGED <<plan, bufMap, buf, worker, limit, lock>>
  <2>1. reader.pc = "resend" /\ Walks("pop") /\ mu' = mu /\ limit' = limit
    BY <1>1, <1>7 DEF Resend, Walks
  <2>2. nextChunk = Parts \/ bufMap[nextChunk] = NoBuf
    <3>1. ~closed /\ nextChunk \in 0 .. Parts /\ pos = StartOf(nextChunk)
      BY <1>0, <2>1 DEF Control, Types, Places
    <3>2. pos < Length \/ nextChunk = Parts
      <4>1. CASE nextChunk \in 0 .. Parts - 1
        BY <3>1, <4>1, Tiling
      <4> QED BY <3>1, <4>1, Bounds
    <3> QED BY <1>7, <3>1, <3>2 DEF Declines, MaySend
  <2>3. reader.pos < nextChunk /\ bufMap[reader.pos] # NoBuf
    <3>1. /\ reader.pos < Parts /\ bufMap[reader.pos] # NoBuf /\ reader.pos <= nextChunk
          /\ reader.pos \in 0 .. Parts /\ nextChunk \in 0 .. Parts
      BY <1>0, <2>1 DEF Places, Types, ReadRecs
    <3>2. reader.pos # nextChunk
      BY <2>2, <3>1
    <3> QED BY <3>1, <3>2
  <2> QED BY <2>1, <2>2, <2>3, WalkKeeps DEF ReadPcs, Detached, Idle
<1> QED BY <1>2, <1>3, <1>4, <1>5, <1>6, <1>7

LEMMA CancelKeeps ==
    ASSUME DownloadInv, Cancel
    PROVE  DownloadInv'
<1> USE DEF plan, lock
<1>0. /\ Types /\ Sizes /\ Control /\ SlotsKept /\ Counting /\ Places
      /\ (~closed => Mapped /\ Opened) /\ ClosedForGood
  BY DEF DownloadInv
<1>1. /\ canceled'
      /\ UNCHANGED <<closed, pos, nextChunk, concurrency, chunkCh, bufMap, buf, worker, reader,
                     limit, mu, sending>>
  BY DEF Cancel
<1>2. Aside
  BY <1>1 DEF Aside
<1>3. Spawned' = Spawned /\ Live' = Live /\ Gone' = Gone /\ Taken' = Taken
  BY <1>2, AsideSets
<1>4. Types' /\ Sizes'
  BY <1>0, <1>1 DEF Types, Sizes, Within
<1>5. Control'
  BY <1>0, <1>1, <1>3 DEF Control
<1>6. SlotsKept'
  BY <1>0, <1>1, <1>3 DEF SlotsKept
<1>7. Counting'
  BY <1>0, <1>1, <1>3 DEF Counting
<1>8. Places' /\ (~closed' => Mapped' /\ Opened') /\ ClosedForGood'
  BY <1>0, <1>1, <1>3 DEF Places, Popped, Mapped, HeldBuf, Opened, ClosedForGood
<1> QED BY <1>4, <1>5, <1>6, <1>7, <1>8 DEF DownloadInv

\* The reader takes the buffer of its part.
PopEffect ==
    /\ reader'.pc = "read" /\ reader'.cur = bufMap[reader.pos] /\ reader'.pos = reader.pos
    /\ reader'.out = reader.out /\ reader' \in ReadRecs
    /\ bufMap' \in [Last .. Parts -> Buffers]
    /\ bufMap'[reader.pos] = NoBuf /\ bufMap'[Last] = bufMap[reader.pos]
    /\ \A i \in 0 .. Parts : i # reader.pos => bufMap'[i] = bufMap[i]
    /\ \A i \in Last .. Parts : bufMap'[i] = NoBuf \/ \E j \in 0 .. Parts : bufMap'[i] = bufMap[j]

LEMMA PopFacts ==
    ASSUME DownloadInv, Pop
    PROVE  PopEffect /\ reader.pc = "pop" /\ ~closed /\ reader.pos < nextChunk
           /\ reader.pos \in 0 .. Parts /\ bufMap[reader.pos] # NoBuf
<1>0. Types /\ Control /\ Places
  BY DEF DownloadInv
<1>1. /\ reader.pc = "pop" /\ ~closed /\ reader.pos < nextChunk /\ bufMap[reader.pos] # NoBuf
      /\ reader.pos \in 0 .. Parts
  BY <1>0 DEF Pop, Control, Places, Types, ReadRecs
<1> DEFINE b == bufMap[reader.pos]
<1>2. /\ reader' = [reader EXCEPT !.pc = "read", !.cur = b]
      /\ bufMap' = [bufMap EXCEPT ![reader.pos] = NoBuf, ![Last] = b]
  BY <1>1 DEF Pop
<1>3. b \in Buffers /\ NoBuf \in Buffers /\ bufMap \in [Last .. Parts -> Buffers]
  BY <1>0, <1>1, Bounds DEF Types, Buffers
<1>4. /\ reader'.pc = "read" /\ reader'.cur = b /\ reader'.pos = reader.pos
      /\ reader'.out = reader.out /\ reader' \in ReadRecs
  BY <1>0, <1>2, <1>3 DEF Types, ReadRecs, ReadPcs
<1>5. /\ bufMap' \in [Last .. Parts -> Buffers] /\ bufMap'[reader.pos] = NoBuf /\ bufMap'[Last] = b
      /\ \A i \in Last .. Parts : i # reader.pos /\ i # Last => bufMap'[i] = bufMap[i]
  <2>1. reader.pos \in Last .. Parts /\ Last \in Last .. Parts /\ reader.pos # Last
    BY <1>1, Bounds
  <2> HIDE DEF b
  <2> QED BY <1>2, <1>3, <2>1
<1>6. \A i \in 0 .. Parts : i # reader.pos => bufMap'[i] = bufMap[i]
  BY <1>5, Bounds
<1>7. \A i \in Last .. Parts : bufMap'[i] = NoBuf \/ \E j \in 0 .. Parts : bufMap'[i] = bufMap[j]
  <2> SUFFICES ASSUME NEW i \in Last .. Parts, i # Last, i # reader.pos
               PROVE  \E j \in 0 .. Parts : bufMap'[i] = bufMap[j]
    BY <1>1, <1>5
  <2>1. i \in 0 .. Parts
    BY Bounds DEF Last
  <2> QED BY <1>6, <2>1
<1> QED BY <1>1, <1>4, <1>5, <1>6, <1>7 DEF PopEffect

LEMMA PopKeeps ==
    ASSUME DownloadInv, Pop
    PROVE  DownloadInv'
<1> USE DEF plan, lock
<1>0. /\ Types /\ Sizes /\ Control /\ SlotsKept /\ Counting /\ Places
      /\ Mapped /\ Opened /\ ~closed
  BY PopFacts DEF DownloadInv
<1>1. /\ mu = Free
      /\ UNCHANGED <<canceled, closed, pos, nextChunk, concurrency, chunkCh, buf, worker,
                     limit, mu, sending>>
  BY DEF Pop
<1>2. /\ PopEffect /\ reader.pc = "pop" /\ reader.pos < nextChunk
      /\ reader.pos \in 0 .. Parts /\ bufMap[reader.pos] # NoBuf
  BY PopFacts
<1>3. Aside /\ nextChunk \in 0 .. Parts
  BY <1>0, <1>1 DEF Aside, Types
<1>4. Spawned' = Spawned /\ Live' = Live /\ Gone' = Gone /\ Taken' = Taken
  BY <1>3, AsideSets
<1>5. Types' /\ Sizes'
  BY <1>0, <1>1, <1>2 DEF Types, Sizes, Within, PopEffect
<1>6. Control'
  BY <1>0, <1>1, <1>2, <1>4, Bounds DEF Control, PopEffect, Idle
<1>7. SlotsKept'
  BY <1>0, <1>1, <1>2, <1>4 DEF SlotsKept, PopEffect
<1>8. Counting'
  <2>1. reader'.pc # "resend" /\ concurrency' = concurrency
    BY <1>1, <1>2 DEF PopEffect
  <2> QED BY <1>0, <1>3, <2>1, AsideCounts
<1>9. Places'
  BY <1>0, <1>1, <1>2 DEF Places, PopEffect, Popped, Idle
<1>10. Mapped'
  <2>1. \A i, j \in 0 .. Parts : bufMap'[i] = bufMap'[j] /\ bufMap'[i] # NoBuf => i = j
    BY <1>0, <1>2 DEF Mapped, PopEffect
  <2>2. /\ reader'.cur # NoBuf /\ bufMap'[Last] = reader'.cur
        /\ \A i \in 0 .. Parts : bufMap'[i] # reader'.cur
    BY <1>0, <1>2 DEF Mapped, PopEffect
  <2>3. \A i \in 0 .. Parts : i < reader'.pos \/ i > nextChunk' => bufMap'[i] = NoBuf
    BY <1>0, <1>1, <1>2 DEF Mapped, PopEffect
  <2>4. \A i \in 0 .. Parts : reader'.pos <= i /\ i < nextChunk' => HeldBuf(i)' # NoBuf
    BY <1>0, <1>1, <1>2 DEF Mapped, PopEffect, HeldBuf
  <2>5. bufMap'[nextChunk'] # NoBuf => nextChunk' = Parts \/ reader'.pc = "resend"
    BY <1>0, <1>1, <1>2, <1>3 DEF Mapped, PopEffect
  <2>6. \A i \in Last .. Parts : bufMap'[i] # NoBuf => bufMap'[i] \in Taken'
    BY <1>0, <1>2, <1>4, Bounds DEF Mapped, PopEffect
  <2> QED BY <2>1, <2>2, <2>3, <2>4, <2>5, <2>6 DEF Mapped
<1>11. Opened'
  <2> SUFFICES ASSUME NEW d \in Blocks, buf[d].open
               PROVE  \/ \E i \in 0 .. Parts : bufMap'[i] = d
                      \/ reader'.pc \notin Detached /\ bufMap'[Last] = d
    BY <1>1 DEF Opened
  <2>1. PICK i \in 0 .. Parts : bufMap[i] = d
    BY <1>0, <1>2 DEF Opened, Detached
  <2>2. reader'.pc \notin Detached
    BY <1>2 DEF PopEffect, Detached, Idle
  <2> QED BY <1>2, <2>1, <2>2 DEF PopEffect
<1>12. ClosedForGood'
  BY <1>0, <1>1 DEF ClosedForGood
<1> QED BY <1>5, <1>6, <1>7, <1>8, <1>9, <1>10, <1>11, <1>12 DEF DownloadInv

\* The reader takes d bytes from the buffer of its part, or waits, or is woken; it may
\* have had all of the part.
Gets(d) ==
    /\ reader' \in ReadRecs /\ reader'.cur = reader.cur /\ reader'.out = reader.out + d
    /\ buf' \in [Blocks -> BufRecs]
    /\ \A b \in Blocks : /\ buf'[b].data = buf[b].data /\ buf'[b].limit = buf[b].limit
                         /\ buf'[b].open = buf[b].open
                         /\ b # reader.cur => buf'[b] = buf[b]
    /\ buf'[reader.cur].off = buf[reader.cur].off + d
    /\ buf[reader.cur].off + d <= Len(buf[reader.cur].data)
    /\ \/ reader'.pos = reader.pos /\ reader'.pc \in {"read", "wait"}
       \/ /\ reader'.pos = reader.pos + 1 /\ buf[reader.cur].off + d = buf[reader.cur].limit
          /\ reader'.pc = IF reader.pos + 1 = Parts THEN "eof" ELSE "finish"

LEMMA ReadingAt ==
    ASSUME DownloadInv, reader.pc \in {"read", "wait"}
    PROVE  /\ ~closed /\ Popped /\ reader.cur \in Blocks /\ reader \in ReadRecs
           /\ reader.pos \in 0 .. Parts /\ reader.pos < nextChunk /\ nextChunk \in 0 .. Parts
           /\ buf[reader.cur] \in BufRecs
           /\ buf[reader.cur].off <= Len(buf[reader.cur].data)
           /\ Len(buf[reader.cur].data) <= buf[reader.cur].limit
<1>0. Types /\ Sizes /\ Control /\ Places /\ (~closed => Mapped)
  BY DEF DownloadInv
<1>1. ~closed /\ Popped
  BY <1>0 DEF Control, Places
<1>2. reader.cur \in Blocks /\ reader \in ReadRecs
  BY <1>0, <1>1 DEF Mapped, Types, ReadRecs, Buffers
<1>3. reader.pos \in 0 .. Parts /\ reader.pos < nextChunk /\ nextChunk \in 0 .. Parts
  BY <1>0, <1>1 DEF Types, ReadRecs, Popped
<1> QED BY <1>0, <1>1, <1>2, <1>3 DEF Types, Sizes

LEMMA EndedFacts ==
    ASSUME NEW r \in ReadRecs, r.pos + 1 \in 0 .. Parts
    PROVE  /\ Ended(r) \in ReadRecs /\ Ended(r).pos = r.pos + 1 /\ Ended(r).cur = r.cur
           /\ Ended(r).out = r.out
           /\ Ended(r).pc = IF r.pos + 1 = Parts THEN "eof" ELSE "finish"
<1> DEFINE p == IF r.pos + 1 = Parts THEN "eof" ELSE "finish"
<1>1. p \in ReadPcs
  BY DEF ReadPcs
<1>2. Ended(r) = [r EXCEPT !.pos = @ + 1, !.pc = p]
  BY DEF Ended
<1> HIDE DEF p
<1>3. /\ Ended(r) \in ReadRecs /\ Ended(r).pos = r.pos + 1 /\ Ended(r).cur = r.cur
      /\ Ended(r).out = r.out /\ Ended(r).pc = p
  BY <1>1, <1>2 DEF ReadRecs
<1> QED BY <1>3 DEF p

LEMMA ReadGets ==
    ASSUME DownloadInv, Read \/ Wake
    PROVE  /\ reader.pc \in {"read", "wait"} /\ \E d \in Nat : Gets(d)
           /\ UNCHANGED <<canceled, closed, plan, chunkCh, bufMap, worker, limit, lock>>
           /\ Read => ~canceled
<1> DEFINE b == reader.cur
           x == buf[b]
<1>1. reader.pc \in {"read", "wait"}
  BY DEF Read, Wake
<1>2. /\ ~closed /\ Popped /\ b \in Blocks /\ reader \in ReadRecs
      /\ reader.pos \in 0 .. Parts /\ reader.pos < nextChunk /\ nextChunk \in 0 .. Parts
      /\ x \in BufRecs /\ x.off <= Len(x.data) /\ Len(x.data) <= x.limit
  BY <1>1, ReadingAt
<1>3. /\ UNCHANGED <<canceled, closed, plan, chunkCh, bufMap, worker, limit, lock>>
      /\ Read => ~canceled
  BY DEF Read, Wake
<1>4. buf \in [Blocks -> BufRecs] /\ x.off \in Nat /\ Len(x.data) \in Nat /\ reader.out \in Nat
      /\ reader.pos + 1 \in 0 .. Parts /\ x.limit \in Nat
  <2>1. buf \in [Blocks -> BufRecs]
    BY DEF DownloadInv, Types
  <2>2. x.off \in Nat /\ x.limit \in 0 .. PartSize /\ x.data \in Seq(0 .. Length - 1)
    BY <1>2 DEF BufRecs
  <2>3. reader.out \in Nat
    BY <1>2 DEF ReadRecs
  <2>4. reader.pos + 1 \in 0 .. Parts
    BY <1>2, Bounds
  <2>5. Len(x.data) \in Nat /\ x.limit \in Nat
    BY <2>2, DownloaderAssumption
  <2> HIDE DEF x
  <2> QED BY <2>1, <2>2, <2>3, <2>4, <2>5
<1>5. /\ Turn("wait") \in ReadRecs /\ Turn("wait").pc = "wait" /\ Turn("wait").pos = reader.pos
      /\ Turn("wait").cur = b /\ Turn("wait").out = reader.out
      /\ Turn("read") \in ReadRecs /\ Turn("read").pc = "read" /\ Turn("read").pos = reader.pos
      /\ Turn("read").cur = b /\ Turn("read").out = reader.out
  BY <1>2 DEF Turn, ReadRecs, ReadPcs
<1>6. CASE Wake
  <2> DEFINE y == [x EXCEPT !.sig = FALSE]
  <2>1. /\ y \in BufRecs /\ y.off = x.off /\ y.data = x.data /\ y.limit = x.limit
        /\ y.open = x.open
    BY <1>2 DEF BufRecs
  <2>2. buf' = [buf EXCEPT ![b] = y] /\ reader' = Turn("read")
    BY <1>6 DEF Wake
  <2> HIDE DEF y
  <2>3. Gets(0)
    BY <1>2, <1>4, <1>5, <2>1, <2>2 DEF Gets
  <2> QED BY <1>1, <1>3, <2>3
<1>7. CASE Read
  <2>1. \/ x.off = x.limit /\ reader' = Ended(reader) /\ UNCHANGED buf
        \/ reader' = Turn("wait") /\ buf' = [buf EXCEPT ![b].pend = TRUE]
        \/ \E n \in 1 .. (Len(x.data) - x.off) :
              /\ buf' = [buf EXCEPT ![b].off = @ + n]
              /\ \/ reader' = [reader EXCEPT !.out = @ + n]
                 \/ x.off + n = x.limit /\ reader' = Ended([reader EXCEPT !.out = @ + n])
    BY <1>7 DEF Read
  <2>2. CASE x.off = x.limit /\ reader' = Ended(reader) /\ UNCHANGED buf
    <3>1. /\ reader' \in ReadRecs /\ reader'.pos = reader.pos + 1 /\ reader'.cur = b
          /\ reader'.out = reader.out
          /\ reader'.pc = IF reader.pos + 1 = Parts THEN "eof" ELSE "finish"
      BY <1>2, <1>4, <2>2, EndedFacts
    <3>2. Gets(0)
      BY <1>2, <1>4, <2>2, <3>1 DEF Gets
    <3> QED BY <1>1, <1>3, <3>2
  <2>3. CASE reader' = Turn("wait") /\ buf' = [buf EXCEPT ![b].pend = TRUE]
    <3> DEFINE y == [x EXCEPT !.pend = TRUE]
    <3>1. /\ y \in BufRecs /\ y.off = x.off /\ y.data = x.data /\ y.limit = x.limit
          /\ y.open = x.open
      BY <1>2 DEF BufRecs
    <3>2. buf' = [buf EXCEPT ![b] = y]
      BY <2>3
    <3> HIDE DEF y
    <3>3. Gets(0)
      BY <1>2, <1>4, <1>5, <2>3, <3>1, <3>2 DEF Gets
    <3> QED BY <1>1, <1>3, <3>3
  <2>4. ASSUME NEW n \in 1 .. (Len(x.data) - x.off), buf' = [buf EXCEPT ![b].off = @ + n],
               \/ reader' = [reader EXCEPT !.out = @ + n]
               \/ x.off + n = x.limit /\ reader' = Ended([reader EXCEPT !.out = @ + n])
        PROVE  Gets(n) /\ n \in Nat
    <3> DEFINE y == [x EXCEPT !.off = @ + n]
               r == [reader EXCEPT !.out = @ + n]
    <3>0. n \in Nat /\ x.off + n <= Len(x.data)
      BY <1>4
    <3>1. /\ y \in BufRecs /\ y.off = x.off + n /\ y.data = x.data /\ y.limit = x.limit
          /\ y.open = x.open
      BY SMTT(20), <1>2, <3>0 DEF BufRecs
    <3>2. /\ r \in ReadRecs /\ r.out = reader.out + n /\ r.pos = reader.pos /\ r.cur = b
          /\ r.pc = reader.pc
      BY <1>2, <3>0 DEF ReadRecs
    <3>3. /\ buf' = [buf EXCEPT ![b] = y]
          /\ reader' = r \/ (x.off + n = x.limit /\ reader' = Ended(r))
      BY <2>4
    <3> HIDE DEF y, r
    <3>4. /\ Ended(r) \in ReadRecs /\ Ended(r).pos = r.pos + 1 /\ Ended(r).cur = r.cur
          /\ Ended(r).out = r.out
          /\ Ended(r).pc = IF r.pos + 1 = Parts THEN "eof" ELSE "finish"
      BY <1>4, <3>2, EndedFacts
    <3>5. CASE reader' = r
      BY <1>1, <1>2, <1>4, <3>0, <3>1, <3>2, <3>3, <3>5 DEF Gets
    <3>6. CASE x.off + n = x.limit /\ reader' = Ended(r)
      BY <1>2, <1>4, <3>0, <3>1, <3>2, <3>3, <3>4, <3>6 DEF Gets
    <3> QED BY <3>0, <3>3, <3>5, <3>6
  <2>5. CASE \E n \in 1 .. (Len(x.data) - x.off) :
              /\ buf' = [buf EXCEPT ![b].off = @ + n]
              /\ \/ reader' = [reader EXCEPT !.out = @ + n]
                 \/ x.off + n = x.limit /\ reader' = Ended([reader EXCEPT !.out = @ + n])
    <3>1. \E n \in Nat : Gets(n)
      BY <2>4, <2>5
    <3> QED BY <1>1, <1>3, <3>1
  <2> QED BY <2>1, <2>2, <2>3, <2>5
<1> QED BY <1>6, <1>7

LEMMA GetsKeeps ==
    ASSUME DownloadInv, reader.pc \in {"read", "wait"}, NEW d \in Nat, Gets(d),
           UNCHANGED <<canceled, closed, plan, chunkCh, bufMap, worker, limit, lock>>
    PROVE  DownloadInv'
<1> USE DEF plan, lock
<1>0. /\ Types /\ Sizes /\ Control /\ SlotsKept /\ Counting /\ Places
      /\ Mapped /\ Opened /\ ~closed
  BY ReadingAt DEF DownloadInv
<1>1. /\ Popped /\ reader.cur \in Blocks /\ reader.pos \in 0 .. Parts /\ reader.pos < nextChunk
      /\ nextChunk \in 0 .. Parts
  BY ReadingAt
<1>2. UNCHANGED <<canceled, closed, pos, nextChunk, concurrency, chunkCh, bufMap, worker, limit,
                  mu, sending>>
  OBVIOUS
<1>3. /\ reader' \in ReadRecs /\ reader'.cur = reader.cur
      /\ buf' \in [Blocks -> BufRecs]
      /\ \A b \in Blocks : /\ buf'[b].data = buf[b].data /\ buf'[b].limit = buf[b].limit
                           /\ buf'[b].open = buf[b].open
                           /\ b # reader.cur => buf'[b] = buf[b]
      /\ buf'[reader.cur].off <= Len(buf[reader.cur].data)
  BY DEF Gets
<1>4. /\ reader'.pc \in {"read", "wait", "finish", "eof"}
      /\ reader'.pos = reader.pos \/ reader'.pos = reader.pos + 1
      /\ reader'.pc \in {"read", "wait"} => reader'.pos = reader.pos
      /\ reader'.pc = "finish" => reader'.pos = reader.pos + 1 /\ reader.pos + 1 # Parts
      /\ reader'.pc = "eof" => reader'.pos = reader.pos + 1 /\ reader.pos + 1 = Parts
  BY DEF Gets
<1>5. Aside /\ Spawned' = Spawned /\ Live' = Live /\ Gone' = Gone /\ Taken' = Taken
  <2>1. Aside
    BY <1>2, <1>3 DEF Aside
  <2> QED BY <2>1, AsideSets
<1>6. Types' /\ Sizes'
  <2>1. Types'
    BY <1>0, <1>2, <1>3 DEF Types
  <2>2. \A b \in Blocks : buf'[b].off <= Len(buf'[b].data) /\ Len(buf'[b].data) <= buf'[b].limit
    BY <1>0, <1>3 DEF Sizes
  <2> QED BY <1>0, <1>2, <2>1, <2>2 DEF Sizes, Within
<1>7. Control'
  BY <1>0, <1>2, <1>4, <1>5 DEF Control, Idle
<1>8. SlotsKept'
  BY <1>0, <1>2, <1>4, <1>5, AsideSlots
<1>9. Counting'
  BY <1>0, <1>2, <1>4, <1>5, AsideCounts
<1>10. \A i \in 0 .. Parts : reader.pos < i /\ i < nextChunk => bufMap[i] # NoBuf
  BY <1>0, <1>1 DEF Mapped, HeldBuf
<1>11. Places'
  <2>1. reader'.pos <= nextChunk /\ reader'.pos \in 0 .. Parts
    BY <1>1, <1>3, <1>4, Bounds DEF ReadRecs
  <2>2. reader'.pc \in {"read", "wait"} => Popped'
    BY <1>1, <1>2, <1>4 DEF Popped
  <2>3. reader'.pc = "finish" => /\ reader'.pos < Parts
                                 /\ reader'.pos < nextChunk => bufMap[reader'.pos] # NoBuf
    <3> SUFFICES ASSUME reader'.pc = "finish"
                 PROVE  /\ reader'.pos < Parts
                        /\ reader'.pos < nextChunk => bufMap[reader'.pos] # NoBuf
      OBVIOUS
    <3>1. reader'.pos = reader.pos + 1 /\ reader.pos + 1 # Parts
      BY <1>4
    <3>2. reader'.pos < Parts /\ reader.pos < reader'.pos
      BY <1>1, <2>1, <3>1, Bounds
    <3> QED BY <1>10, <2>1, <3>2
  <2> QED BY <1>0, <1>2, <1>4, <2>1, <2>2, <2>3 DEF Places, Idle
<1>12. Mapped'
  <2>1. /\ reader'.cur # NoBuf /\ bufMap'[Last] = reader'.cur
        /\ \A i \in 0 .. Parts : bufMap'[i] # reader'.cur
    BY <1>0, <1>1, <1>2, <1>3 DEF Mapped
  <2>2. \A i \in 0 .. Parts : i < reader'.pos \/ i > nextChunk' => bufMap'[i] = NoBuf
    BY <1>0, <1>1, <1>2, <1>4 DEF Mapped, Popped
  <2>3. \A i \in 0 .. Parts : reader'.pos <= i /\ i < nextChunk' => HeldBuf(i)' # NoBuf
    BY <1>0, <1>1, <1>2, <1>4, <1>10, <2>1 DEF Mapped, HeldBuf
  <2>4. bufMap'[nextChunk'] # NoBuf => nextChunk' = Parts \/ reader'.pc = "resend"
    BY <1>0, <1>2 DEF Mapped
  <2>5. \A i \in Last .. Parts : bufMap'[i] # NoBuf => bufMap'[i] \in Taken'
    BY <1>0, <1>2, <1>5 DEF Mapped
  <2>6. \A i, j \in 0 .. Parts : bufMap'[i] = bufMap'[j] /\ bufMap'[i] # NoBuf => i = j
    BY <1>0, <1>2 DEF Mapped
  <2> QED BY <2>1, <2>2, <2>3, <2>4, <2>5, <2>6 DEF Mapped
<1>13. Opened'
  <2>1. reader'.pc \notin Detached /\ reader.pc \notin Detached
    BY <1>4 DEF Detached, Idle
  <2> QED BY <1>0, <1>2, <1>3, <2>1 DEF Opened
<1>14. ClosedForGood'
  BY <1>0, <1>2 DEF ClosedForGood
<1> QED BY <1>6, <1>7, <1>8, <1>9, <1>11, <1>12, <1>13, <1>14 DEF DownloadInv

LEMMA ReadKeeps ==
    ASSUME DownloadInv, Read \/ Wake
    PROVE  DownloadInv'
BY ReadGets, GetsKeeps

\* finishBuf: the next part takes the buffer, or it is closed.
FinishEffect ==
    /\ reader'.pos = reader.pos /\ reader'.cur = reader.cur /\ reader'.out = reader.out
    /\ reader' \in ReadRecs
    /\ bufMap' \in [Last .. Parts -> Buffers] /\ buf' \in [Blocks -> BufRecs]
    /\ \A b \in Blocks : /\ buf'[b].data = buf[b].data /\ buf'[b].limit = buf[b].limit
                         /\ buf'[b].off = buf[b].off
    /\ \A i \in Last .. Parts : i # nextChunk => bufMap'[i] = bufMap[i]
    /\ \/ /\ bufMap[nextChunk] = NoBuf /\ bufMap'[nextChunk] = reader.cur
          /\ reader'.pc = "resend" /\ buf' = buf
       \/ /\ bufMap[nextChunk] # NoBuf /\ bufMap' = bufMap /\ nextChunk = Parts
          /\ reader'.pc = "pop" /\ ~buf'[reader.cur].open
          /\ \A b \in Blocks : b # reader.cur => buf'[b] = buf[b]

LEMMA FinishFacts ==
    ASSUME DownloadInv, Finish
    PROVE  /\ reader.pc = "finish" /\ ~closed /\ FinishEffect /\ reader.cur \in Taken
           /\ reader.cur \in Blocks /\ nextChunk \in 0 .. Parts
<1>0. Types /\ Control /\ (~closed => Mapped)
  BY DEF DownloadInv
<1>1. /\ reader.pc = "finish" /\ ~closed /\ nextChunk \in 0 .. Parts /\ nextChunk \in Last .. Parts
  BY <1>0, Bounds DEF Finish, Control, Types
<1>2. reader.cur \in Taken /\ reader.cur # NoBuf /\ reader.cur \in Blocks
  BY <1>0, <1>1, Bounds DEF Mapped, Taken
<1>3. /\ bufMap \in [Last .. Parts -> Buffers] /\ buf \in [Blocks -> BufRecs]
      /\ reader.cur \in Buffers /\ reader \in ReadRecs
  BY <1>0, <1>2 DEF Types, Buffers
<1>4. /\ Turn("resend") \in ReadRecs /\ Turn("resend").pos = reader.pos
      /\ Turn("resend").cur = reader.cur /\ Turn("resend").out = reader.out
      /\ Turn("resend").pc = "resend"
      /\ Turn("pop") \in ReadRecs /\ Turn("pop").pos = reader.pos
      /\ Turn("pop").cur = reader.cur /\ Turn("pop").out = reader.out
      /\ Turn("pop").pc = "pop"
  BY <1>3 DEF Turn, ReadRecs, ReadPcs
<1>5. CASE bufMap[nextChunk] = NoBuf
  <2>1. /\ bufMap' = [bufMap EXCEPT ![nextChunk] = reader.cur] /\ reader' = Turn("resend")
        /\ buf' = buf
    BY <1>5 DEF Finish
  <2>2. /\ bufMap' \in [Last .. Parts -> Buffers] /\ bufMap'[nextChunk] = reader.cur
        /\ \A i \in Last .. Parts : i # nextChunk => bufMap'[i] = bufMap[i]
    BY <1>1, <1>3, <2>1
  <2> QED BY <1>1, <1>2, <1>3, <1>4, <1>5, <2>1, <2>2 DEF FinishEffect
<1>6. CASE bufMap[nextChunk] # NoBuf
  <2> DEFINE b == reader.cur
             y == [buf[b] EXCEPT !.open = FALSE, !.pend = FALSE]
  <2>1. /\ buf' = [buf EXCEPT ![b].open = FALSE, ![b].pend = FALSE]
        /\ reader' = Turn("pop") /\ bufMap' = bufMap
    BY <1>6 DEF Finish
  <2>2. buf' = [buf EXCEPT ![b] = y]
    BY <1>2, <1>3, <2>1
  <2>3. /\ y \in BufRecs /\ y.data = buf[b].data /\ y.limit = buf[b].limit /\ y.off = buf[b].off
        /\ ~y.open
    BY <1>2, <1>3 DEF BufRecs
  <2> HIDE DEF y
  <2>4. /\ buf' \in [Blocks -> BufRecs] /\ buf'[b] = y
        /\ \A c \in Blocks : c # b => buf'[c] = buf[c]
    BY <1>2, <1>3, <2>2, <2>3
  <2>5. nextChunk = Parts
    BY <1>0, <1>1, <1>6 DEF Mapped
  <2> QED BY <1>1, <1>2, <1>3, <1>4, <1>6, <2>1, <2>3, <2>4, <2>5 DEF FinishEffect
<1> QED BY <1>5, <1>6

LEMMA FinishKeeps ==
    ASSUME DownloadInv, Finish
    PROVE  DownloadInv'
<1> USE DEF plan, lock
<1>0. /\ Types /\ Sizes /\ Control /\ SlotsKept /\ Counting /\ Places
      /\ Mapped /\ Opened /\ ~closed
  BY FinishFacts DEF DownloadInv
<1>1. /\ reader.pc = "finish" /\ FinishEffect /\ reader.cur \in Taken
      /\ reader.cur \in Blocks /\ nextChunk \in 0 .. Parts /\ reader.cur # NoBuf
  BY FinishFacts, Bounds
<1>2. /\ mu = Free
      /\ UNCHANGED <<canceled, closed, pos, nextChunk, concurrency, chunkCh, worker, limit, mu,
                     sending>>
  BY DEF Finish
<1>3. /\ reader'.pc \in {"resend", "pop"} /\ reader'.pos = reader.pos /\ reader'.cur = reader.cur
      /\ reader' \in ReadRecs
  BY <1>1 DEF FinishEffect
<1>4. Aside /\ Spawned' = Spawned /\ Live' = Live /\ Gone' = Gone /\ Taken' = Taken
  <2>1. Aside
    BY <1>1, <1>2 DEF Aside, FinishEffect
  <2> QED BY <2>1, AsideSets
<1>5. Types' /\ Sizes'
  <2>1. Types'
    BY <1>0, <1>1, <1>2 DEF Types, FinishEffect
  <2>2. \A b \in Blocks : buf'[b].off <= Len(buf'[b].data) /\ Len(buf'[b].data) <= buf'[b].limit
    BY <1>0, <1>1 DEF Sizes, FinishEffect
  <2> QED BY <1>0, <1>2, <2>1, <2>2 DEF Sizes, Within
<1>6. Control'
  BY <1>0, <1>1, <1>2, <1>3, <1>4 DEF Control, Idle
<1>7. SlotsKept'
  BY <1>0, <1>1, <1>2, <1>3, <1>4, AsideSlots
<1>8. Counting'
  <2>1. reader'.pc = "resend" => bufMap'[nextChunk] # NoBuf
    BY <1>1 DEF FinishEffect
  <2> QED BY <1>0, <1>2, <1>4, <2>1, AsideCounts
<1>9. /\ reader.pos < Parts /\ reader.pos <= nextChunk /\ reader.pos \in 0 .. Parts
      /\ reader.pos < nextChunk => bufMap[reader.pos] # NoBuf
  BY <1>0, <1>1 DEF Places, Types, ReadRecs
<1>10. bufMap'[reader.pos] # NoBuf
  <2>1. CASE reader.pos < nextChunk
    BY <1>1, <1>9, <2>1, Bounds DEF FinishEffect
  <2>2. CASE reader.pos = nextChunk
    BY <1>1, <1>9, <2>2 DEF FinishEffect
  <2> QED BY <1>1, <1>9, <2>1, <2>2
<1>11. ~Popped'
  BY <1>2, <1>3, <1>10 DEF Popped
<1>12. Places'
  <2>1. reader'.pc = "pop" => reader.pos < nextChunk
    BY <1>1, <1>9 DEF FinishEffect
  <2> QED BY <1>0, <1>2, <1>3, <1>9, <1>10, <2>1 DEF Places, Idle
<1>13. \A i \in 0 .. Parts : i # nextChunk => bufMap'[i] = bufMap[i]
  BY <1>1, Bounds DEF FinishEffect
<1>14. bufMap'[nextChunk] = bufMap[nextChunk] \/ bufMap'[nextChunk] = reader.cur
  BY <1>1 DEF FinishEffect
<1>15. Mapped'
  <2>1. \A i, j \in 0 .. Parts : bufMap'[i] = bufMap'[j] /\ bufMap'[i] # NoBuf => i = j
    BY <1>0, <1>1, <1>13, <1>14 DEF Mapped
  <2>2. \A i \in 0 .. Parts : i < reader'.pos \/ i > nextChunk' => bufMap'[i] = NoBuf
    BY <1>0, <1>1, <1>2, <1>3, <1>9, <1>13 DEF Mapped
  <2>3. \A i \in 0 .. Parts : reader'.pos <= i /\ i < nextChunk' => HeldBuf(i)' # NoBuf
    <3> SUFFICES ASSUME NEW i \in 0 .. Parts, reader.pos <= i, i < nextChunk
                 PROVE  bufMap'[i] # NoBuf
      BY <1>2, <1>3, <1>10 DEF HeldBuf
    <3> QED BY <1>0, <1>1, <1>9, <1>13 DEF Mapped, HeldBuf
  <2>4. bufMap'[nextChunk'] # NoBuf => nextChunk' = Parts \/ reader'.pc = "resend"
    BY <1>1, <1>2 DEF FinishEffect
  <2>5. \A i \in Last .. Parts : bufMap'[i] # NoBuf => bufMap'[i] \in Taken'
    <3> SUFFICES ASSUME NEW i \in Last .. Parts, bufMap'[i] # NoBuf PROVE bufMap'[i] \in Taken
      BY <1>4
    <3>1. bufMap'[i] = bufMap[i] \/ bufMap'[i] = reader.cur
      BY <1>1, <1>14 DEF FinishEffect
    <3> QED BY <1>0, <1>1, <3>1 DEF Mapped
  <2>6. reader'.pc # "finish"
    BY <1>3
  <2> QED BY <1>11, <2>1, <2>2, <2>3, <2>4, <2>5, <2>6 DEF Mapped
<1>16. Opened'
  <2> SUFFICES ASSUME NEW d \in Blocks, buf'[d].open
               PROVE  \E i \in 0 .. Parts : bufMap'[i] = d
    BY DEF Opened
  <2>1. buf[d].open /\ (d # reader.cur \/ bufMap'[nextChunk] = reader.cur)
    BY <1>1 DEF FinishEffect
  <2>2. CASE bufMap[Last] = d
    BY <1>0, <1>1, <2>1, <2>2 DEF Mapped
  <2>3. CASE bufMap[Last] # d
    <3>1. PICK i \in 0 .. Parts : bufMap[i] = d
      BY <1>0, <2>1, <2>3 DEF Opened
    <3>2. d # NoBuf
      BY Bounds
    <3>3. bufMap'[i] = d
      BY <1>1, <1>13, <3>1, <3>2 DEF FinishEffect
    <3> QED BY <3>3
  <2> QED BY <2>2, <2>3
<1>17. ClosedForGood'
  BY <1>0, <1>2 DEF ClosedForGood
<1> QED BY <1>5, <1>6, <1>7, <1>8, <1>12, <1>15, <1>16, <1>17 DEF DownloadInv

LEMMA InterruptKeeps ==
    ASSUME DownloadInv, Interrupt
    PROVE  DownloadInv'
<1> USE DEF plan, lock
<1>0. /\ Types /\ Sizes /\ Control /\ SlotsKept /\ Counting /\ Places
      /\ (~closed => Mapped /\ Opened)
  BY DEF DownloadInv
<1>1. /\ reader.pc = "closing" /\ mu = Free /\ closed' /\ closed' = TRUE
      /\ UNCHANGED <<canceled, pos, nextChunk, chunkCh, worker, limit, mu, sending>>
      /\ bufMap' = [i \in Last .. Parts |-> NoBuf]
      /\ concurrency' = IF concurrency > 0 THEN 0 - concurrency ELSE concurrency
      /\ reader' = Turn("closed")
      /\ buf' = [b \in Blocks |-> IF \E i \in Last .. Parts : bufMap[i] = b
                                  THEN [buf[b] EXCEPT !.open = FALSE, !.pend = FALSE] ELSE buf[b]]
  BY DEF Interrupt, CloseAll
<1>2. ~closed
  BY <1>0, <1>1 DEF Control
<1>3. /\ reader' \in ReadRecs /\ reader'.pc = "closed" /\ reader'.pos = reader.pos
      /\ reader'.cur = reader.cur /\ reader'.out = reader.out
  BY <1>0, <1>1 DEF Types, Turn, ReadRecs, ReadPcs
<1>4. ASSUME NEW b \in Blocks
      PROVE  /\ buf'[b] \in BufRecs /\ buf'[b].data = buf[b].data
             /\ buf'[b].limit = buf[b].limit /\ buf'[b].off = buf[b].off
             /\ (\E i \in Last .. Parts : bufMap[i] = b) => ~buf'[b].open
             /\ buf'[b].open => buf[b].open
  <2> DEFINE y == [buf[b] EXCEPT !.open = FALSE, !.pend = FALSE]
  <2>1. buf[b] \in BufRecs
    BY <1>0 DEF Types
  <2>2. /\ y \in BufRecs /\ y.data = buf[b].data /\ y.limit = buf[b].limit
        /\ y.off = buf[b].off /\ ~y.open
    BY <2>1 DEF BufRecs
  <2>3. buf'[b] = IF \E i \in Last .. Parts : bufMap[i] = b THEN y ELSE buf[b]
    BY <1>1
  <2> HIDE DEF y
  <2> QED BY <2>1, <2>2, <2>3
<1>5. buf' \in [Blocks -> BufRecs]
  BY <1>1, <1>4
<1>6. Aside /\ Spawned' = Spawned /\ Live' = Live /\ Gone' = Gone /\ Taken' = Taken
  <2>1. Aside
    BY <1>1, <1>4 DEF Aside
  <2> QED BY <2>1, AsideSets
<1>7. Types' /\ Sizes'
  <2>1. bufMap' \in [Last .. Parts -> Buffers] /\ concurrency' \in Int
    <3>1. NoBuf \in Buffers
      BY DEF Buffers
    <3>2. concurrency \in Int
      BY <1>0 DEF Types
    <3>3. /\ concurrency' = IF concurrency > 0 THEN 0 - concurrency ELSE concurrency
          /\ bufMap' = [i \in Last .. Parts |-> NoBuf]
      BY <1>1
    <3>4. concurrency' \in Int
      BY ONLY <3>2, <3>3
    <3>5. bufMap' \in [Last .. Parts -> Buffers]
      BY ONLY <3>1, <3>3
    <3> QED BY <3>4, <3>5
  <2>2. Types'
    BY <1>0, <1>1, <1>3, <1>5, <2>1 DEF Types
  <2>3. \A b \in Blocks : buf'[b].off <= Len(buf'[b].data) /\ Len(buf'[b].data) <= buf'[b].limit
    BY <1>0, <1>4 DEF Sizes
  <2> QED BY <1>0, <1>1, <2>2, <2>3 DEF Sizes, Within
<1>8. Control'
  BY <1>0, <1>1, <1>3, <1>6 DEF Control, Idle
<1>9. SlotsKept'
  BY <1>0, <1>1, <1>3, <1>6, AsideSlots
<1>10. Counting'
  BY <1>0, <1>1, <1>3, <1>6, AsideCounts
<1>11. Places'
  BY <1>0, <1>1, <1>3 DEF Places, Idle
<1>12. ClosedForGood'
  <2> SUFFICES ASSUME NEW b \in Blocks, buf[b].open PROVE \E i \in Last .. Parts : bufMap[i] = b
    BY <1>4 DEF ClosedForGood
  <2> QED BY <1>0, <1>2, Bounds DEF Opened
<1> QED BY <1>1, <1>7, <1>8, <1>9, <1>10, <1>11, <1>12 DEF DownloadInv

-----------------------------------------------------------------------------
(* The invariant holds                                                      *)

LEMMA InitDownload ==
    ASSUME Init
    PROVE  DownloadInv
<1>1. /\ reader.pc = "start" /\ reader.pos = 0 /\ reader \in ReadRecs
      /\ canceled = FALSE /\ closed = FALSE /\ pos = 0 /\ nextChunk = 0 /\ concurrency = Concurrency
      /\ chunkCh = <<>> /\ Len(chunkCh) = 0 /\ mu = Free /\ sending = NoChunk
      /\ \A i \in Last .. Parts : bufMap[i] = NoBuf
      /\ \A b \in Blocks : buf[b] = NoBuffer
      /\ \A w \in Workers : worker[w] = NoWorker
  BY Bounds DEF Init, ReadRecs, ReadPcs, Buffers
<1>2. PICK n \in Limits : limit = [free |-> n, before |-> n]
  BY DEF Init
<1>3. Spawned = {} /\ Live = {} /\ Taken = {}
  BY <1>1 DEF Spawned, Live, Taken, NoWorker, NoBuffer
<1>4. Cardinality({}) = 0
  BY FS_EmptySet
<1>5. Types
  <2>1. limit \in [free : Nat, before : Limits]
    BY <1>2, Bounds
  <2>2. /\ bufMap \in [Last .. Parts -> Buffers] /\ buf \in [Blocks -> BufRecs]
        /\ worker \in [Workers -> WorkRecs]
    BY Records DEF Init, Buffers
  <2>3. sending \in Chunks
    BY <1>1, Records
  <2>4. chunkCh \in Seq(Chunks) /\ Len(chunkCh) <= Concurrency
    BY <1>1, Bounds
  <2>5. pos \in 0 .. Length /\ nextChunk \in 0 .. Parts /\ concurrency \in Int
    BY <1>1, Bounds
  <2> QED BY <1>1, <2>1, <2>2, <2>3, <2>4, <2>5 DEF Types
<1>6. Sizes
  BY <1>1, Records, Bounds DEF Sizes, NoBuffer
<1>7. Control
  BY <1>1, <1>3, Bounds DEF Control, NoWorker, Idle
<1>8. SlotsKept
  <2>1. limit.free = n /\ limit.before = n /\ n \in Nat
    BY <1>2, Bounds
  <2> QED BY <1>1, <1>3, <1>4, <2>1 DEF SlotsKept
<1>9. Counting
  <2>1. Cardinality(Gone) \in Nat /\ 1 .. 0 = {}
    BY FiniteWorkers
  <2> QED BY <1>1, <1>3, <1>4, <2>1, Bounds DEF Counting
<1>10. Places
  BY <1>1, Tiling DEF Places, Idle
<1>11. Mapped /\ Opened
  BY <1>1, Bounds DEF Mapped, Opened, Popped, HeldBuf, NoBuffer
<1>12. ClosedForGood
  BY <1>1 DEF ClosedForGood
<1> QED BY <1>5, <1>6, <1>7, <1>8, <1>9, <1>10, <1>11, <1>12 DEF DownloadInv

LEMMA DownloadStep ==
    ASSUME DownloadInv, [Next]_vars
    PROVE  DownloadInv'
<1>1. CASE UNCHANGED vars
  <2>1. /\ UNCHANGED <<canceled, closed, pos, nextChunk, concurrency, chunkCh, bufMap, buf, worker,
                       reader, limit, mu, sending>>
        /\ Aside
    BY <1>1 DEF vars, Aside
  <2>2. Spawned' = Spawned /\ Live' = Live /\ Gone' = Gone /\ Taken' = Taken
    BY <2>1, AsideSets
  <2>3. Types' /\ Sizes'
    BY <2>1 DEF DownloadInv, Types, Sizes, Within
  <2>4. Control' /\ SlotsKept' /\ Counting'
    BY <2>1, <2>2 DEF DownloadInv, Control, SlotsKept, Counting
  <2>5. Places' /\ (~closed' => Mapped' /\ Opened') /\ ClosedForGood'
    BY <2>1, <2>2 DEF DownloadInv, Places, Popped, Mapped, HeldBuf, Opened, ClosedForGood
  <2> QED BY <2>3, <2>4, <2>5 DEF DownloadInv
<1>2. CASE \E w \in Workers : WorkerStep(w)
  <2>1. PICK w \in Workers : WorkerStep(w)
    BY <1>2
  <2>2. \/ Turned(w)
        \/ /\ worker[w].pc = "grow" /\ mu = Free /\ Prepare(w, TRUE, Now(w, "send"))
           /\ UNCHANGED <<canceled, closed, chunkCh, reader>>
    BY <2>1, WorkerTurns DEF DownloadInv
  <2> QED BY <2>2, TurnedKeeps, GrowKeeps
<1>3. CASE Resend
  BY <1>3, ReaderSends, WalksKeep DEF Resend
<1>4. CASE \/ Acquire \/ OpenSend \/ OpenFails \/ ReadFails \/ ResendSend \/ Close
  BY <1>4, WalksKeep
<1>5. CASE Open
  BY <1>5, ReaderSends
<1>6. CASE Pop
  BY <1>6, PopKeeps
<1>7. CASE Read \/ Wake
  BY <1>7, ReadKeeps
<1>8. CASE Finish
  BY <1>8, FinishKeeps
<1>9. CASE Interrupt
  BY <1>9, InterruptKeeps
<1>10. CASE Cancel
  BY <1>10, CancelKeeps
<1> QED BY <1>1, <1>2, <1>3, <1>4, <1>5, <1>6, <1>7, <1>8, <1>9, <1>10 DEF Next, ReaderStep

\* In every state the queue, the buffers, the slots and the reader's place hang together:
\* DownloadInv, from which the theorems below follow.
THEOREM DownloadsHangTogether == Spec => []DownloadInv
<1>1. Init => DownloadInv
  BY InitDownload
<1>2. DownloadInv /\ [Next]_vars => DownloadInv'
  BY DownloadStep
<1> QED BY <1>1, <1>2, PTL DEF Spec

\* Slots of the shared limit are never lost, whatever order workers start, fail, retry, put
\* back and end in, and none is given back twice while the context lasts (Acquire and
\* Release in download, sendChunkTask and downloadPart).
THEOREM SlotsAreKept == Spec => []SlotsKept
<1>1. DownloadInv => SlotsKept
  BY DEF DownloadInv
<1> QED BY <1>1, DownloadsHangTogether, PTL

\* Once interrupt has closed the buffers and may free their cache, no buffer is open: not
\* the one the reader was at, and none that was handed from part to part on the way.
THEOREM ClosedStaysClosed == Spec => []ClosedForGood
<1>1. DownloadInv => ClosedForGood
  BY DEF DownloadInv
<1> QED BY <1>1, DownloadsHangTogether, PTL
=============================================================================
