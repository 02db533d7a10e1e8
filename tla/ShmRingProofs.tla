---------------------------- MODULE ShmRingProofs ----------------------------
(***************************************************************************)
(* Proofs about ShmRing for every capacity and every plan.                 *)
(*                                                                         *)
(* The inductive invariant IInv adds to TypeOK and CursorsConservative:    *)
(* what the chunk in flight looks like at each program counter (ChunkInv), *)
(* that the ring holds the bytes between tail and head at their offsets    *)
(* (RingInv), that received is the stream up to tail, or up to the end of  *)
(* the chunk being released (ReceivedInv), and how progress relates the    *)
(* cursors to the plan (BatchInv).  WakeInv, on top of it, says who owes   *)
(* whom a Notify; it needs plans whose wait modes settle.                  *)
(***************************************************************************)
EXTENDS ShmRing, ProofLemmas

\* The Min that bounds a chunk in Produce and Consume is one of its three
\* limits and exceeds none of them.
LEMMA MinOfThree ==
  ASSUME NEW a \in Int, NEW b \in Int, NEW c \in Int
  PROVE  /\ Min({a, b, c}) \in {a, b, c}
         /\ Min({a, b, c}) <= a /\ Min({a, b, c}) <= b /\ Min({a, b, c}) <= c
<1> DEFINE S == {a, b, c}
<1>1. \E x \in S : \A y \in S : x <= y
  OBVIOUS
<1>2. Min(S) \in S /\ \A y \in S : Min(S) <= y
  BY <1>1 DEF Min
<1> QED BY <1>2

\* Within a chunk that does not reach the end of the ring, offsets follow
\* one another.
LEMMA ModStep ==
  ASSUME NEW C \in Nat \ {0}, NEW p \in Nat, NEW i \in Nat, (p % C) + i < C
  PROVE  (p + i) % C = (p % C) + i
<1> DEFINE a == p \div C
           r == p % C
<1>1. p = C * a + r /\ a \in Int /\ r \in 0 .. C-1
  OBVIOUS
<1>2. p + i = C * a + (r + i) /\ r + i \in 0 .. C - 1
  BY <1>1
<1>3. ((p + i) \div C) \in Int /\ (p + i) = C * ((p+i) \div C) + ((p+i) % C) /\ (p+i) % C \in 0..C-1
  OBVIOUS
<1> QED BY <1>1, <1>2, <1>3

\* A chunk of n bytes written at h leaves alone the offset of any older byte
\* less than a ring's length behind the chunk's end.
LEMMA CopyMissesOlder ==
  ASSUME NEW C \in Nat \ {0}, NEW h \in Nat, NEW n \in Nat, NEW p \in Nat,
         (h % C) + n <= C, p < h, h + n <= p + C
  PROVE  (p % C) - (h % C) \notin 0 .. n - 1
<1> SUFFICES ASSUME (p % C) - (h % C) \in 0 .. n - 1
             PROVE  FALSE
  OBVIOUS
<1>1. p % C \in Int /\ h % C \in Int
  BY ModRange
<1>2. PICK j \in Nat : j < n /\ p % C = (h % C) + j
  BY <1>1
<1>3. (h % C) + j < C
  BY <1>1, <1>2
<1>4. (h + j) % C = (h % C) + j
  BY <1>3, ModStep
<1>5. PICK q \in Nat : q = h + j
  OBVIOUS
<1>6. p < q /\ q - p < C /\ p % C = q % C
  BY <1>2, <1>4, <1>5
<1> QED BY <1>6, ModUnique

-----------------------------------------------------------------------------
(* The inductive invariant.                                                *)

\* A chunk is in flight exactly between the load and the cursor store, and
\* then fits the batch and the straight part of the ring.
ChunkInv ==
  /\ pPc \notin {"copy", "publish"} => pChunk = 0
  /\ pPc \in {"copy", "publish"} =>
       pChunk > 0 /\ pChunk <= pSize - pProgress /\ headOffset + pChunk <= Capacity
  /\ cPc \notin {"copy", "release"} => cChunk = 0
  /\ cPc \in {"copy", "release"} =>
       cChunk > 0 /\ cChunk <= cSize - cProgress /\ tailOffset + cChunk <= Capacity

\* The ring holds every byte that is published and not released, and the
\* chunk that has been copied but not published.
RingInv ==
  \A p \in Nat :
    tail <= p /\ p < (IF pPc = "publish" THEN head + pChunk ELSE head) => ring[p % Capacity] = p

\* What the receiver has is what was released, plus a chunk copied out.
ReceivedInv ==
  /\ Len(received) = IF cPc = "release" THEN tail + cChunk ELSE tail
  /\ \A i \in 1 .. Len(received) : received[i] = i - 1

\* Where a cursor is inside its batch.
BatchInv ==
  /\ pPc # "idle" => pBatch >= 1
  /\ cPc # "idle" => cBatch >= 1
  /\ pBatch = 0 => head = 0
  /\ cBatch = 0 => tail = 0
  /\ pBatch >= 1 => head = StartOf(plan, pBatch) + pProgress /\ pProgress <= pSize
  /\ cBatch >= 1 => tail = StartOf(plan, cBatch) + cProgress /\ cProgress <= cSize
  /\ pPc = "idle" /\ pBatch >= 1 => pProgress = pSize
  /\ cPc = "idle" /\ cBatch >= 1 => cProgress = cSize
  /\ pPc \notin {"idle", "notify"} => pProgress < pSize
  /\ cPc \notin {"idle", "notify"} => cProgress < cSize

IInv ==
  /\ TypeOK
  /\ CursorsConservative
  /\ ChunkInv
  /\ RingInv
  /\ ReceivedInv
  /\ BatchInv

-----------------------------------------------------------------------------
(* Facts about plans and offsets.                                          *)

\* The batches of a plan tile the stream: each starts where the one before
\* ended, and a later batch starts at or after the end of an earlier one.
LEMMA PlanFacts ==
  ASSUME TypeOK
  PROVE  /\ plan \in Seq(Batch) /\ Len(plan) \in Nat
         /\ \A b \in 1 .. Len(plan) :
              /\ StartOf(plan, b) \in Nat
              /\ plan[b].end \in Nat
              /\ plan[b].mode \in Modes
              /\ StartOf(plan, b) < plan[b].end
              /\ b + 1 \in 1 .. Len(plan) => StartOf(plan, b + 1) = plan[b].end
         /\ \A a, b \in 1 .. Len(plan) : StartOf(plan, a) < plan[b].end => a <= b
<1>1. IsPlan(plan)
  BY ShmAssumption DEF TypeOK
<1>2. plan \in Seq(Batch) /\ Len(plan) \in Nat /\ DOMAIN plan = 1 .. Len(plan)
  BY <1>1 DEF IsPlan
<1>3. \A b \in 1 .. Len(plan) : plan[b] \in Batch
  BY <1>2
<1>4. ASSUME NEW b \in 1 .. Len(plan)
      PROVE  plan[b].end \in Nat /\ plan[b].mode \in Modes
  BY <1>3 DEF Batch
<1>5. ASSUME NEW b \in 1 .. Len(plan)
      PROVE  StartOf(plan, b) \in Nat
  <2>1. CASE b = 1
    BY <2>1 DEF StartOf
  <2>2. CASE b # 1
    <3>1. b - 1 \in 1 .. Len(plan)
      BY <1>2, <2>2
    <3> QED BY <1>4, <2>2, <3>1 DEF StartOf
  <2> QED BY <2>1, <2>2
<1>6. ASSUME NEW b \in 1 .. Len(plan), b + 1 \in 1 .. Len(plan)
      PROVE  StartOf(plan, b + 1) = plan[b].end
  BY <1>2, <1>6 DEF StartOf
<1>7. ASSUME NEW b \in 1 .. Len(plan)
      PROVE  StartOf(plan, b) < plan[b].end
  <2>1. CASE b = 1
    BY <1>1, <1>2, <2>1 DEF StartOf, IsPlan
  <2>2. CASE b # 1
    <3>1. b - 1 \in 1 .. Len(plan) /\ b - 1 < b
      BY <1>2, <2>2
    <3> QED BY <1>1, <1>2, <2>2, <3>1 DEF StartOf, IsPlan
  <2> QED BY <2>1, <2>2
<1>8. ASSUME NEW a \in 1 .. Len(plan), NEW b \in 1 .. Len(plan), b < a
      PROVE  plan[b].end <= StartOf(plan, a)
  <2>1. a - 1 \in 1 .. Len(plan) /\ b <= a - 1 /\ a # 1
    BY <1>2, <1>8
  <2>2. plan[b].end <= plan[a - 1].end
    <3>1. CASE b = a - 1
      BY <1>4, <3>1
    <3>2. CASE b < a - 1
      BY <1>1, <1>2, <1>4, <2>1, <3>2 DEF IsPlan
    <3> QED BY <2>1, <3>1, <3>2
  <2> QED BY <2>1, <2>2 DEF StartOf
<1>9. ASSUME NEW a \in 1 .. Len(plan), NEW b \in 1 .. Len(plan), StartOf(plan, a) < plan[b].end
      PROVE  a <= b
  BY <1>4, <1>5, <1>8, <1>9
<1> QED BY <1>2, <1>4, <1>5, <1>6, <1>7, <1>9

\* A batch that has begun moves at least one byte.
LEMMA SizeFacts ==
  ASSUME TypeOK
  PROVE  /\ pBatch >= 1 => pSize \in Nat \ {0}
         /\ cBatch >= 1 => cSize \in Nat \ {0}
<1>1. pBatch \in 0 .. Len(plan) /\ cBatch \in 0 .. Len(plan)
  BY DEF TypeOK
<1>2. Len(plan) \in Nat
  BY PlanFacts
<1>3. pBatch >= 1 => pBatch \in 1 .. Len(plan)
  BY <1>1, <1>2
<1>4. cBatch >= 1 => cBatch \in 1 .. Len(plan)
  BY <1>1, <1>2
<1> QED BY <1>3, <1>4, PlanFacts DEF pSize, cSize

\* The write and the read offset lie inside the ring.
LEMMA OffsetFacts ==
  ASSUME TypeOK
  PROVE  headOffset \in Offsets /\ tailOffset \in Offsets
BY ShmAssumption, ModRange DEF TypeOK, headOffset, tailOffset, Offsets

\* A fresh ring (CreateRing) satisfies the inductive invariant.
LEMMA InitIInv == Init => IInv
<1> SUFFICES ASSUME Init PROVE IInv
  OBVIOUS
<1> USE ShmAssumption DEF Init
<1>0. /\ plan \in Seq(Batch) /\ Len(plan) \in Nat
  BY DEF IsPlan
<1>1. TypeOK
  BY <1>0 DEF TypeOK, PcTypes, Offsets, NoByte
<1>2. CursorsConservative
  BY DEF CursorsConservative
<1>3. ChunkInv
  BY DEF ChunkInv
<1>4. RingInv
  BY DEF RingInv
<1>5. ReceivedInv
  BY DEF ReceivedInv
<1>6. BatchInv
  BY DEF BatchInv
<1> QED BY <1>1, <1>2, <1>3, <1>4, <1>5, <1>6 DEF IInv

-----------------------------------------------------------------------------
(* The producer's steps preserve the invariant.                            *)

\* The start of a batch on the sending side preserves the invariant.
LEMMA SendBeginStep ==
  ASSUME IInv, SendBegin
  PROVE  IInv'
<1>1. TypeOK /\ CursorsConservative /\ ChunkInv /\ RingInv /\ ReceivedInv /\ BatchInv
  BY DEF IInv
<1>2. Len(plan) \in Nat
  BY <1>1, PlanFacts
<1>3. pBatch' = pBatch + 1 /\ pBatch' \in 1 .. Len(plan) /\ plan' = plan
  BY <1>1, <1>2 DEF SendBegin, TypeOK
<1>4. StartOf(plan, pBatch') = head
  <2>1. CASE pBatch = 0
    BY <1>1, <1>3, <2>1 DEF BatchInv, StartOf
  <2>2. CASE pBatch # 0
    <3>1. pBatch \in 1 .. Len(plan) /\ pBatch >= 1
      BY <1>1, <1>2, <2>2 DEF TypeOK
    <3>2. head = StartOf(plan, pBatch) + pSize
      BY <1>1, <3>1 DEF BatchInv, SendBegin
    <3>3. head = plan[pBatch].end
      BY <1>1, <3>1, <3>2, PlanFacts DEF pSize
    <3> QED BY <1>1, <1>3, <3>1, <3>3, PlanFacts
  <2> QED BY <2>1, <2>2
<1>5. pSize' > 0 /\ pSize' \in Nat
  <2>1. StartOf(plan, pBatch') < plan[pBatch'].end /\ StartOf(plan, pBatch') \in Nat /\ plan[pBatch'].end \in Nat
    BY <1>1, <1>3, PlanFacts
  <2>2. pSize' = plan[pBatch'].end - StartOf(plan, pBatch')
    BY <1>3 DEF pSize
  <2> QED BY <2>1, <2>2
<1>6. TypeOK'
  BY <1>1, <1>2, <1>3 DEF TypeOK, SendBegin, sharedVars, consumerVars
<1>7. CursorsConservative'
  BY <1>1 DEF CursorsConservative, SendBegin, sharedVars, consumerVars
<1>8. ChunkInv'
  BY <1>1 DEF ChunkInv, SendBegin, sharedVars, consumerVars, cSize, tailOffset
<1>9. RingInv'
  BY <1>1 DEF RingInv, SendBegin, sharedVars, consumerVars
<1>10. ReceivedInv'
  BY <1>1 DEF ReceivedInv, SendBegin, sharedVars, consumerVars
<1>11. BatchInv'
  <2>1. head' = StartOf(plan', pBatch') + pProgress' /\ pProgress' = 0 /\ head' = head /\ pPc' = "produce"
    BY <1>1, <1>3, <1>4 DEF SendBegin, sharedVars, TypeOK
  <2>2. pBatch' >= 1
    BY <1>2, <1>3
  <2> QED BY <1>1, <1>5, <2>1, <2>2 DEF BatchInv, SendBegin, sharedVars, consumerVars, cSize
<1> QED BY <1>6, <1>7, <1>8, <1>9, <1>10, <1>11 DEF IInv

\* What a fresh look at the room shows.
LEMMA RoomFacts ==
  ASSUME IInv
  PROVE  /\ TailSeen \in Nat /\ cachedTail <= TailSeen /\ TailSeen <= tail
         /\ RoomSeen \in 0 .. Capacity
         /\ head = TailSeen + Capacity - RoomSeen
         /\ pChunk = 0 => head + pChunk <= TailSeen + Capacity
         /\ RoomSeen = 0 => head - tail = Capacity
<1>1. /\ head \in Nat /\ tail \in Nat /\ cachedTail \in Nat /\ pChunk \in Nat /\ Capacity \in Nat
      /\ cachedTail <= tail /\ tail <= head /\ head + pChunk <= cachedTail + Capacity
  BY ShmAssumption DEF IInv, TypeOK, CursorsConservative
<1> QED BY <1>1 DEF TailSeen, RoomSeen

\* SpaceAvailable after the drain (TrySend) preserves the invariant.
LEMMA SendRecheckStep ==
  ASSUME IInv, SendRecheck
  PROVE  IInv'
<1>1. TypeOK /\ CursorsConservative /\ ChunkInv /\ RingInv /\ ReceivedInv /\ BatchInv
  BY DEF IInv
<1>2. /\ cachedTail' = TailSeen /\ head' = head /\ tail' = tail /\ pChunk' = pChunk /\ cChunk' = cChunk
      /\ cachedHead' = cachedHead /\ pChunk = 0 /\ pPc' \in {"produce", "notify", "parked"}
      /\ pBatch >= 1 /\ pProgress < pSize
  BY <1>1 DEF SendRecheck, sharedVars, consumerVars, ChunkInv, BatchInv
<1>3. TypeOK'
  BY <1>1, <1>2, RoomFacts DEF TypeOK, PcTypes, SendRecheck, sharedVars, consumerVars
<1>4. CursorsConservative'
  BY <1>1, <1>2, RoomFacts DEF CursorsConservative
<1>5. ChunkInv'
  BY <1>1, <1>2 DEF ChunkInv, SendRecheck, sharedVars, consumerVars, cSize, tailOffset
<1>6. RingInv'
  BY <1>1, <1>2 DEF RingInv, SendRecheck, sharedVars
<1>7. ReceivedInv'
  BY <1>1 DEF ReceivedInv, SendRecheck, sharedVars, consumerVars
<1>8. BatchInv'
  BY <1>1, <1>2 DEF BatchInv, SendRecheck, sharedVars, consumerVars, pSize, cSize
<1> QED BY <1>3, <1>4, <1>5, <1>6, <1>7, <1>8 DEF IInv

\* Drain, Notify and the wake-ups of TrySend preserve the invariant.
LEMMA SendWaitStep ==
  ASSUME IInv, SendDrain \/ SendNotify \/ SendWake \/ SendRepush
  PROVE  IInv'
<1>1. TypeOK /\ CursorsConservative /\ ChunkInv /\ RingInv /\ ReceivedInv /\ BatchInv
  BY DEF IInv
<1> USE DEF SendDrain, SendNotify, SendWake, SendRepush, sharedVars, consumerVars
<1>2. /\ UNCHANGED <<plan, head, tail, ring, consumerVars, cachedTail, pBatch, pProgress, pChunk>>
      /\ pPc \in {"drain", "notify", "parked"} /\ pPc' \in {"recheck", "idle", "parked", "produce"}
      /\ spaceReady' \in {0, 1} /\ dataReady' \in {0, 1} /\ pMoved' \in {0, 1}
  BY <1>1 DEF TypeOK
<1>3. /\ pPc' = "idle" => pProgress = pSize
      /\ pPc' # "idle" => pProgress < pSize
      /\ pBatch >= 1 /\ pProgress <= pSize
  <2>1. pProgress \in Nat /\ (pBatch >= 1 => pSize \in Nat)
    BY <1>1, SizeFacts DEF TypeOK
  <2> QED BY <1>1, <2>1 DEF BatchInv
<1> HIDE DEF SendDrain, SendNotify, SendWake, SendRepush
<1>4. TypeOK'
  BY <1>1, <1>2 DEF TypeOK, PcTypes
<1>5. CursorsConservative'
  BY <1>1, <1>2 DEF CursorsConservative
<1>6. ChunkInv'
  BY <1>1, <1>2 DEF ChunkInv, cSize, tailOffset
<1>7. RingInv'
  BY <1>1, <1>2 DEF RingInv
<1>8. ReceivedInv'
  BY <1>1, <1>2 DEF ReceivedInv
<1>9. BatchInv'
  BY <1>1, <1>2, <1>3 DEF BatchInv, pSize, cSize
<1> QED BY <1>4, <1>5, <1>6, <1>7, <1>8, <1>9 DEF IInv

\* The choice of a chunk in Produce preserves the invariant.
LEMMA ProduceLoadStep ==
  ASSUME IInv, ProduceLoad
  PROVE  IInv'
<1>1. TypeOK /\ CursorsConservative /\ ChunkInv /\ RingInv /\ ReceivedInv /\ BatchInv
  BY DEF IInv
<1>2. /\ pBatch >= 1 /\ pSize \in Nat \ {0} /\ pProgress \in Nat
      /\ pProgress < pSize /\ pChunk = 0 /\ Capacity \in Nat \ {0}
  BY <1>1, SizeFacts, ShmAssumption DEF TypeOK, ProduceLoad, BatchInv, ChunkInv
<1>3. /\ pChunk' \in 0 .. RoomSeen
      /\ \/ pChunk' = 0 /\ pPc' \in {"drain", "produce"}
         \/ /\ pChunk' > 0 /\ pPc' = "copy"
            /\ pChunk' <= pSize - pProgress /\ headOffset + pChunk' <= Capacity
  <2>1. CASE RoomSeen = 0
    BY <1>2, <2>1 DEF ProduceLoad
  <2>2. CASE RoomSeen > 0
    <3>1. pChunk' = Min({RoomSeen, pSize - pProgress, Capacity - headOffset}) /\ pPc' = "copy"
      BY <2>2 DEF ProduceLoad
    <3>2. headOffset \in 0 .. Capacity - 1
      BY <1>1, OffsetFacts DEF Offsets
    <3>3. pSize - pProgress \in Nat \ {0} /\ Capacity - headOffset \in Nat \ {0} /\ RoomSeen \in Nat \ {0}
      BY <1>2, <2>2, <3>2, RoomFacts
    <3>4. /\ pChunk' \in {RoomSeen, pSize - pProgress, Capacity - headOffset}
          /\ pChunk' <= RoomSeen /\ pChunk' <= pSize - pProgress /\ pChunk' <= Capacity - headOffset
      <4> DEFINE fit == pSize - pProgress
                 straight == Capacity - headOffset
      <4>1. RoomSeen \in Int /\ fit \in Int /\ straight \in Int
        BY <3>3
      <4>2. pChunk' = Min({RoomSeen, fit, straight})
        BY <3>1
      <4> HIDE DEF fit, straight
      <4>3. /\ pChunk' \in {RoomSeen, fit, straight}
            /\ pChunk' <= RoomSeen /\ pChunk' <= fit /\ pChunk' <= straight
        BY <4>1, <4>2, MinOfThree
      <4> QED BY <4>3 DEF fit, straight
    <3>5. pChunk' \in Nat \ {0}
      BY <3>3, <3>4
    <3> QED BY <1>2, <3>1, <3>2, <3>3, <3>4, <3>5
  <2> QED BY <2>1, <2>2, RoomFacts
<1>4. /\ cachedTail' = TailSeen /\ UNCHANGED <<plan, sharedVars, consumerVars, pBatch, pProgress>>
      /\ pMoved' \in {0, 1}
  BY <1>1 DEF ProduceLoad, TypeOK
<1>5. TypeOK'
  BY <1>1, <1>2, <1>3, <1>4, RoomFacts DEF TypeOK, PcTypes, sharedVars, consumerVars
<1>6. CursorsConservative'
  <2>1. head' + pChunk' <= cachedTail' + Capacity
    BY <1>1, <1>2, <1>3, <1>4, RoomFacts DEF sharedVars, TypeOK
  <2> QED BY <1>1, <1>4, <2>1, RoomFacts DEF CursorsConservative, sharedVars, consumerVars
<1>7. ChunkInv'
  BY <1>1, <1>3, <1>4 DEF ChunkInv, pSize, cSize, headOffset, tailOffset, sharedVars, consumerVars
<1>8. RingInv'
  BY <1>1, <1>3, <1>4 DEF RingInv, ProduceLoad, sharedVars
<1>9. ReceivedInv'
  BY <1>1, <1>4 DEF ReceivedInv, sharedVars, consumerVars
<1>10. BatchInv'
  BY <1>1, <1>2, <1>3, <1>4 DEF BatchInv, pSize, cSize, sharedVars, consumerVars
<1> QED BY <1>5, <1>6, <1>7, <1>8, <1>9, <1>10 DEF IInv

\* Produce's memcpy preserves the invariant: it overwrites no byte the
\* consumer still has to read.
LEMMA ProduceCopyStep ==
  ASSUME IInv, ProduceCopy
  PROVE  IInv'
<1>1. TypeOK /\ CursorsConservative /\ ChunkInv /\ RingInv /\ ReceivedInv /\ BatchInv
  BY DEF IInv
<1>2. /\ UNCHANGED <<plan, head, tail, dataReady, spaceReady, consumerVars, cachedTail, pBatch, pProgress, pMoved, pChunk>>
      /\ pPc = "copy" /\ pPc' = "publish"
      /\ ring' = [k \in Offsets |-> IF k - headOffset \in 0 .. pChunk - 1
                                    THEN head + (k - headOffset) ELSE ring[k]]
  BY DEF ProduceCopy
<1>3. /\ Capacity \in Nat \ {0} /\ head \in Nat /\ tail \in Nat /\ pChunk \in Nat \ {0}
      /\ headOffset \in Nat /\ headOffset + pChunk <= Capacity /\ head + pChunk <= tail + Capacity
  <2>1. headOffset \in Nat
    BY <1>1, OffsetFacts, ShmAssumption DEF Offsets
  <2> QED BY <1>1, <1>2, <2>1, ShmAssumption DEF TypeOK, ChunkInv, CursorsConservative
<1>4. TypeOK'
  BY <1>1, <1>2, <1>3 DEF TypeOK, PcTypes, Offsets, consumerVars
<1>5. CursorsConservative'
  BY <1>1, <1>2 DEF CursorsConservative, consumerVars
<1>6. ChunkInv'
  BY <1>1, <1>2 DEF ChunkInv, pSize, cSize, headOffset, tailOffset, consumerVars
<1>7. RingInv'
  <2> SUFFICES ASSUME NEW p \in Nat, tail <= p, p < head + pChunk
               PROVE  ring'[p % Capacity] = p
    BY <1>2 DEF RingInv
  <2>1. p % Capacity \in Offsets
    BY <1>3, ModRange DEF Offsets
  <2>2. CASE p >= head
    <3> DEFINE j == p - head
    <3>1. j \in 0 .. pChunk - 1 /\ j \in Nat /\ p = head + j
      BY <1>3, <2>2
    <3>2. (head + j) % Capacity = (head % Capacity) + j
      <4>1. (head % Capacity) + j < Capacity
        BY <1>3, <3>1 DEF headOffset
      <4> HIDE DEF j
      <4> QED BY <1>3, <3>1, <4>1, ModStep
    <3>3. (p % Capacity) - headOffset = j
      BY <1>3, <3>1, <3>2 DEF headOffset
    <3> QED BY <1>2, <2>1, <3>1, <3>3
  <2>3. CASE p < head
    <3>1. (p % Capacity) - headOffset \notin 0 .. pChunk - 1
      <4>1. (head % Capacity) + pChunk <= Capacity /\ head + pChunk <= p + Capacity /\ pChunk \in Nat
        BY <1>3 DEF headOffset
      <4>2. (p % Capacity) - (head % Capacity) \notin 0 .. pChunk - 1
        BY <1>3, <2>3, <4>1, CopyMissesOlder
      <4> QED BY <4>2 DEF headOffset
    <3>2. ring[p % Capacity] = p
      BY <1>1, <1>2, <2>3 DEF RingInv
    <3> QED BY <1>2, <2>1, <3>1, <3>2
  <2> QED BY <1>3, <2>2, <2>3
<1>8. ReceivedInv'
  BY <1>1, <1>2 DEF ReceivedInv, consumerVars
<1>9. BatchInv'
  BY <1>1, <1>2 DEF BatchInv, pSize, cSize, consumerVars
<1> QED BY <1>4, <1>5, <1>6, <1>7, <1>8, <1>9 DEF IInv

\* Produce's store of head preserves the invariant.
LEMMA ProducePublishStep ==
  ASSUME IInv, ProducePublish
  PROVE  IInv'
<1>1. TypeOK /\ CursorsConservative /\ ChunkInv /\ RingInv /\ ReceivedInv /\ BatchInv
  BY DEF IInv
<1>2. /\ UNCHANGED <<plan, tail, ring, dataReady, spaceReady, consumerVars, cachedTail, pBatch>>
      /\ head' = head + pChunk /\ pProgress' = pProgress + pChunk /\ pMoved' = 1 /\ pChunk' = 0
      /\ pPc = "publish" /\ pPc' \in {"produce", "notify", "idle"}
      /\ pPc' = "produce" => pProgress' < pSize
      /\ pPc' # "produce" => ~(pProgress' < pSize)
  BY DEF ProducePublish
<1>3. /\ Capacity \in Nat \ {0} /\ head \in Nat /\ tail \in Nat /\ cachedHead \in Nat /\ cachedTail \in Nat
      /\ pChunk \in Nat \ {0} /\ pChunk <= Capacity
      /\ pProgress \in Nat /\ pBatch >= 1 /\ pSize \in Nat /\ pProgress + pChunk <= pSize
      /\ StartOf(plan, pBatch) \in Nat /\ head = StartOf(plan, pBatch) + pProgress
  <2>1. pBatch >= 1 /\ pChunk \in Nat \ {0} /\ pProgress \in Nat /\ pSize \in Nat
    BY <1>1, <1>2, SizeFacts, ShmAssumption DEF TypeOK, ChunkInv, BatchInv
  <2>2. pBatch \in 1 .. Len(plan)
    BY <1>1, <2>1, PlanFacts DEF TypeOK
  <2>3. StartOf(plan, pBatch) \in Nat
    BY <1>1, <2>2, PlanFacts
  <2> QED BY <1>1, <1>2, <2>1, <2>3, ShmAssumption DEF TypeOK, ChunkInv, BatchInv
<1>4. TypeOK'
  BY <1>1, <1>2, <1>3 DEF TypeOK, PcTypes, consumerVars
<1>5. CursorsConservative'
  BY <1>1, <1>2, <1>3 DEF CursorsConservative, consumerVars
<1>6. ChunkInv'
  BY <1>1, <1>2 DEF ChunkInv, cSize, tailOffset, consumerVars
<1>7. RingInv'
  BY <1>1, <1>2, <1>3 DEF RingInv
<1>8. ReceivedInv'
  BY <1>1, <1>2 DEF ReceivedInv, consumerVars
<1>9. BatchInv'
  <2>1. pSize' = pSize /\ cSize' = cSize
    BY <1>2 DEF pSize, cSize, consumerVars
  <2>2. head' = StartOf(plan', pBatch') + pProgress' /\ pProgress' <= pSize'
    BY <1>2, <1>3, <2>1
  <2>3. pPc' # "produce" => pProgress' = pSize'
    BY <1>2, <1>3, <2>1
  <2> QED BY <1>1, <1>2, <1>3, <2>1, <2>2, <2>3 DEF BatchInv, consumerVars
<1> QED BY <1>4, <1>5, <1>6, <1>7, <1>8, <1>9 DEF IInv

-----------------------------------------------------------------------------
(* The consumer's steps preserve the invariant.                            *)

\* The start of a batch on the receiving side preserves the invariant.
LEMMA RecvBeginStep ==
  ASSUME IInv, RecvBegin
  PROVE  IInv'
<1>1. TypeOK /\ CursorsConservative /\ ChunkInv /\ RingInv /\ ReceivedInv /\ BatchInv
  BY DEF IInv
<1>2. Len(plan) \in Nat
  BY <1>1, PlanFacts
<1>3. cBatch' = cBatch + 1 /\ cBatch' \in 1 .. Len(plan) /\ plan' = plan
  BY <1>1, <1>2 DEF RecvBegin, TypeOK
<1>4. StartOf(plan, cBatch') = tail
  <2>1. CASE cBatch = 0
    BY <1>1, <1>3, <2>1 DEF BatchInv, StartOf
  <2>2. CASE cBatch # 0
    <3>1. cBatch \in 1 .. Len(plan) /\ cBatch >= 1
      BY <1>1, <1>2, <2>2 DEF TypeOK
    <3>2. tail = StartOf(plan, cBatch) + cSize
      BY <1>1, <3>1 DEF BatchInv, RecvBegin
    <3>3. tail = plan[cBatch].end
      BY <1>1, <3>1, <3>2, PlanFacts DEF cSize
    <3> QED BY <1>1, <1>3, <3>1, <3>3, PlanFacts
  <2> QED BY <2>1, <2>2
<1>5. cSize' > 0 /\ cSize' \in Nat
  <2>1. StartOf(plan, cBatch') < plan[cBatch'].end /\ StartOf(plan, cBatch') \in Nat /\ plan[cBatch'].end \in Nat
    BY <1>1, <1>3, PlanFacts
  <2>2. cSize' = plan[cBatch'].end - StartOf(plan, cBatch')
    BY <1>3 DEF cSize
  <2> QED BY <2>1, <2>2
<1>6. TypeOK'
  BY <1>1, <1>2, <1>3 DEF TypeOK, RecvBegin, sharedVars, producerVars
<1>7. CursorsConservative'
  BY <1>1 DEF CursorsConservative, RecvBegin, sharedVars, producerVars
<1>8. ChunkInv'
  BY <1>1 DEF ChunkInv, RecvBegin, sharedVars, producerVars, pSize, headOffset
<1>9. RingInv'
  BY <1>1 DEF RingInv, RecvBegin, sharedVars, producerVars
<1>10. ReceivedInv'
  BY <1>1 DEF ReceivedInv, RecvBegin, sharedVars
<1>11. BatchInv'
  <2>1. tail' = StartOf(plan', cBatch') + cProgress' /\ cProgress' = 0 /\ tail' = tail /\ cPc' = "consume"
    BY <1>1, <1>3, <1>4 DEF RecvBegin, sharedVars, TypeOK
  <2>2. cBatch' >= 1
    BY <1>2, <1>3
  <2> QED BY <1>1, <1>5, <2>1, <2>2 DEF BatchInv, RecvBegin, sharedVars, producerVars, pSize
<1> QED BY <1>6, <1>7, <1>8, <1>9, <1>10, <1>11 DEF IInv

\* What a fresh look at the data shows.
LEMMA DataFacts ==
  ASSUME IInv
  PROVE  /\ HeadSeen \in Nat /\ cachedHead <= HeadSeen /\ HeadSeen <= head
         /\ DataSeen \in 0 .. Capacity
         /\ HeadSeen = tail + DataSeen
         /\ tail <= HeadSeen
         /\ DataSeen = 0 => head = tail
<1>1. /\ head \in Nat /\ tail \in Nat /\ cachedHead \in Nat /\ cachedTail \in Nat /\ pChunk \in Nat
      /\ Capacity \in Nat /\ cachedTail <= tail
      /\ tail <= cachedHead /\ cachedHead <= head /\ head + pChunk <= cachedTail + Capacity
  BY ShmAssumption DEF IInv, TypeOK, CursorsConservative
<1> QED BY <1>1 DEF HeadSeen, DataSeen

\* DataAvailable after the drain (TryRecv) preserves the invariant.
LEMMA RecvRecheckStep ==
  ASSUME IInv, RecvRecheck
  PROVE  IInv'
<1>1. TypeOK /\ CursorsConservative /\ ChunkInv /\ RingInv /\ ReceivedInv /\ BatchInv
  BY DEF IInv
<1>2. /\ cachedHead' = HeadSeen /\ head' = head /\ tail' = tail /\ pChunk' = pChunk /\ cChunk' = cChunk
      /\ cachedTail' = cachedTail /\ cChunk = 0 /\ cPc' \in {"consume", "notify", "parked"}
      /\ cPc = "recheck" /\ cBatch >= 1 /\ cProgress < cSize
  BY <1>1 DEF RecvRecheck, sharedVars, producerVars, ChunkInv, BatchInv
<1>3. TypeOK'
  BY <1>1, <1>2, DataFacts DEF TypeOK, PcTypes, RecvRecheck, sharedVars, producerVars
<1>4. CursorsConservative'
  <2>1. tail + cChunk <= HeadSeen
    BY <1>1, <1>2, DataFacts DEF TypeOK
  <2> QED BY <1>1, <1>2, <2>1, DataFacts DEF CursorsConservative
<1>5. ChunkInv'
  BY <1>1, <1>2 DEF ChunkInv, RecvRecheck, sharedVars, producerVars, pSize, headOffset
<1>6. RingInv'
  BY <1>1, <1>2 DEF RingInv, RecvRecheck, sharedVars, producerVars
<1>7. ReceivedInv'
  BY <1>1, <1>2 DEF ReceivedInv, RecvRecheck, sharedVars
<1>8. BatchInv'
  BY <1>1, <1>2 DEF BatchInv, RecvRecheck, sharedVars, producerVars, pSize, cSize
<1> QED BY <1>3, <1>4, <1>5, <1>6, <1>7, <1>8 DEF IInv

\* Drain, Notify and the wake-ups of TryRecv preserve the invariant.
LEMMA RecvWaitStep ==
  ASSUME IInv, RecvDrain \/ RecvNotify \/ RecvWake \/ RecvRepush
  PROVE  IInv'
<1>1. TypeOK /\ CursorsConservative /\ ChunkInv /\ RingInv /\ ReceivedInv /\ BatchInv
  BY DEF IInv
<1> USE DEF RecvDrain, RecvNotify, RecvWake, RecvRepush, sharedVars, producerVars
<1>2. /\ UNCHANGED <<plan, head, tail, ring, producerVars, cachedHead, cBatch, cProgress, cChunk, received>>
      /\ cPc \in {"drain", "notify", "parked"} /\ cPc' \in {"recheck", "idle", "parked", "consume"}
      /\ spaceReady' \in {0, 1} /\ dataReady' \in {0, 1} /\ cMoved' \in {0, 1}
  BY <1>1 DEF TypeOK
<1>3. /\ cPc' = "idle" => cProgress = cSize
      /\ cPc' # "idle" => cProgress < cSize
      /\ cBatch >= 1 /\ cProgress <= cSize
  <2>1. cProgress \in Nat /\ (cBatch >= 1 => cSize \in Nat)
    BY <1>1, SizeFacts DEF TypeOK
  <2> QED BY <1>1, <2>1 DEF BatchInv
<1> HIDE DEF RecvDrain, RecvNotify, RecvWake, RecvRepush
<1>4. TypeOK'
  BY <1>1, <1>2 DEF TypeOK, PcTypes
<1>5. CursorsConservative'
  BY <1>1, <1>2 DEF CursorsConservative
<1>6. ChunkInv'
  BY <1>1, <1>2 DEF ChunkInv, pSize, headOffset
<1>7. RingInv'
  BY <1>1, <1>2 DEF RingInv
<1>8. ReceivedInv'
  BY <1>1, <1>2 DEF ReceivedInv
<1>9. BatchInv'
  BY <1>1, <1>2, <1>3 DEF BatchInv, pSize, cSize
<1> QED BY <1>4, <1>5, <1>6, <1>7, <1>8, <1>9 DEF IInv

\* The choice of a chunk in Consume preserves the invariant.
LEMMA ConsumeLoadStep ==
  ASSUME IInv, ConsumeLoad
  PROVE  IInv'
<1>1. TypeOK /\ CursorsConservative /\ ChunkInv /\ RingInv /\ ReceivedInv /\ BatchInv
  BY DEF IInv
<1>2. /\ cBatch >= 1 /\ cSize \in Nat \ {0} /\ cProgress \in Nat
      /\ cProgress < cSize /\ cChunk = 0 /\ Capacity \in Nat \ {0} /\ cPc = "consume"
  BY <1>1, SizeFacts, ShmAssumption DEF TypeOK, ConsumeLoad, BatchInv, ChunkInv
<1>3. /\ cChunk' \in 0 .. DataSeen
      /\ \/ cChunk' = 0 /\ cPc' \in {"drain", "consume"}
         \/ /\ cChunk' > 0 /\ cPc' = "copy"
            /\ cChunk' <= cSize - cProgress /\ tailOffset + cChunk' <= Capacity
  <2>1. CASE DataSeen = 0
    BY <1>2, <2>1 DEF ConsumeLoad
  <2>2. CASE DataSeen > 0
    <3>1. cChunk' = Min({DataSeen, cSize - cProgress, Capacity - tailOffset}) /\ cPc' = "copy"
      BY <2>2 DEF ConsumeLoad
    <3>2. tailOffset \in 0 .. Capacity - 1
      BY <1>1, OffsetFacts DEF Offsets
    <3>3. cSize - cProgress \in Nat \ {0} /\ Capacity - tailOffset \in Nat \ {0} /\ DataSeen \in Nat \ {0}
      BY <1>2, <2>2, <3>2, DataFacts
    <3>4. /\ cChunk' \in {DataSeen, cSize - cProgress, Capacity - tailOffset}
          /\ cChunk' <= DataSeen /\ cChunk' <= cSize - cProgress /\ cChunk' <= Capacity - tailOffset
      <4> DEFINE fit == cSize - cProgress
                 straight == Capacity - tailOffset
      <4>1. DataSeen \in Int /\ fit \in Int /\ straight \in Int
        BY <3>3
      <4>2. cChunk' = Min({DataSeen, fit, straight})
        BY <3>1
      <4> HIDE DEF fit, straight
      <4>3. /\ cChunk' \in {DataSeen, fit, straight}
            /\ cChunk' <= DataSeen /\ cChunk' <= fit /\ cChunk' <= straight
        BY <4>1, <4>2, MinOfThree
      <4> QED BY <4>3 DEF fit, straight
    <3>5. cChunk' \in Nat \ {0}
      BY <3>3, <3>4
    <3> QED BY <1>2, <3>1, <3>2, <3>3, <3>4, <3>5
  <2> QED BY <2>1, <2>2, DataFacts
<1>4. /\ cachedHead' = HeadSeen /\ UNCHANGED <<plan, sharedVars, producerVars, cBatch, cProgress, received>>
      /\ cMoved' \in {0, 1}
  BY <1>1 DEF ConsumeLoad, TypeOK
<1>5. TypeOK'
  BY <1>1, <1>2, <1>3, <1>4, DataFacts DEF TypeOK, PcTypes, sharedVars, producerVars
<1>6. CursorsConservative'
  <2>1. tail' + cChunk' <= cachedHead'
    BY <1>1, <1>2, <1>3, <1>4, DataFacts DEF sharedVars, TypeOK
  <2> QED BY <1>1, <1>4, <2>1, DataFacts DEF CursorsConservative, sharedVars, producerVars
<1>7. ChunkInv'
  BY <1>1, <1>3, <1>4 DEF ChunkInv, pSize, cSize, headOffset, tailOffset, sharedVars, producerVars
<1>8. RingInv'
  BY <1>1, <1>4 DEF RingInv, sharedVars, producerVars
<1>9. ReceivedInv'
  BY <1>1, <1>2, <1>3, <1>4 DEF ReceivedInv, sharedVars
<1>10. BatchInv'
  BY <1>1, <1>2, <1>3, <1>4 DEF BatchInv, pSize, cSize, sharedVars, producerVars
<1> QED BY <1>5, <1>6, <1>7, <1>8, <1>9, <1>10 DEF IInv

\* The bytes a ConsumeCopy appends are the next ones of the stream.
LEMMA CopiedSlice ==
  ASSUME IInv, ConsumeCopy
  PROVE  /\ received' = received \o [i \in 1 .. cChunk |-> Len(received) + i - 1]
         /\ Len(received) = tail
<1>1. TypeOK /\ CursorsConservative /\ ChunkInv /\ RingInv /\ ReceivedInv
  BY DEF IInv
<1>2. /\ Capacity \in Nat \ {0} /\ head \in Nat /\ tail \in Nat /\ cachedHead \in Nat /\ pChunk \in Nat
      /\ cChunk \in Nat \ {0} /\ tailOffset \in Nat /\ tailOffset + cChunk <= Capacity
      /\ tail + cChunk <= head
      /\ Len(received) = tail
  <2>1. tailOffset \in Nat
    BY <1>1, OffsetFacts, ShmAssumption DEF Offsets
  <2> QED BY <1>1, <2>1, ShmAssumption DEF TypeOK, ChunkInv, CursorsConservative, ReceivedInv, ConsumeCopy
<1>3. ASSUME NEW i \in 1 .. cChunk
      PROVE  ring[tailOffset + i - 1] = tail + i - 1
  <2> DEFINE j == i - 1
  <2>1. j \in Nat /\ j < cChunk /\ tailOffset + i - 1 = tailOffset + j /\ tail + i - 1 = tail + j
    BY <1>2
  <2>2. (tail % Capacity) + j < Capacity
    BY <1>2, <2>1 DEF tailOffset
  <2> HIDE DEF j
  <2>3. (tail + j) % Capacity = (tail % Capacity) + j
    BY <1>2, <2>1, <2>2, ModStep
  <2> DEFINE p == tail + j
  <2>4. p \in Nat /\ tail <= p /\ p < (IF pPc = "publish" THEN head + pChunk ELSE head)
    BY <1>2, <2>1
  <2> HIDE DEF p
  <2>5. ring[p % Capacity] = p
    BY <1>1, <2>4 DEF RingInv
  <2> QED BY <2>1, <2>3, <2>5 DEF p, tailOffset
<1>4. [i \in 1 .. cChunk |-> ring[tailOffset + i - 1]] = [i \in 1 .. cChunk |-> Len(received) + i - 1]
  BY <1>2, <1>3
<1> QED BY <1>2, <1>4 DEF ConsumeCopy

\* Consume's memcpy preserves the invariant.
LEMMA ConsumeCopyStep ==
  ASSUME IInv, ConsumeCopy
  PROVE  IInv'
<1>1. TypeOK /\ CursorsConservative /\ ChunkInv /\ RingInv /\ ReceivedInv /\ BatchInv
  BY DEF IInv
<1>2. /\ UNCHANGED <<plan, sharedVars, producerVars, cachedHead, cBatch, cProgress, cMoved, cChunk>>
      /\ cPc = "copy" /\ cPc' = "release"
  BY DEF ConsumeCopy
<1> DEFINE slice == [i \in 1 .. cChunk |-> Len(received) + i - 1]
<1>3. cChunk \in Nat /\ tail \in Nat /\ received \in Seq(Int) /\ Len(received) = tail
  BY <1>1, CopiedSlice, ShmAssumption DEF TypeOK
<1>4. slice \in Seq(Int) /\ Len(slice) = cChunk /\ \A i \in 1 .. cChunk : slice[i] = Len(received) + i - 1
  BY <1>3
<1>5. received' = received \o slice
  BY CopiedSlice
<1> HIDE DEF slice
<1>6. /\ received' \in Seq(Int) /\ Len(received') = Len(received) + Len(slice)
      /\ \A i \in 1 .. Len(received) + Len(slice) :
           received'[i] = IF i <= Len(received) THEN received[i] ELSE slice[i - Len(received)]
  BY <1>3, <1>4, <1>5, ConcatProperties
<1>7. TypeOK'
  BY <1>1, <1>2, <1>6 DEF TypeOK, PcTypes, sharedVars, producerVars
<1>8. CursorsConservative'
  BY <1>1, <1>2 DEF CursorsConservative, sharedVars, producerVars
<1>9. ChunkInv'
  BY <1>1, <1>2 DEF ChunkInv, pSize, cSize, headOffset, tailOffset, sharedVars, producerVars
<1>10. RingInv'
  BY <1>1, <1>2 DEF RingInv, sharedVars, producerVars
<1>11. ReceivedInv'
  <2>1. Len(received') = tail + cChunk
    BY <1>3, <1>4, <1>6
  <2>2. ASSUME NEW i \in 1 .. Len(received')
        PROVE  received'[i] = i - 1
    <3>1. CASE i <= Len(received)
      BY <1>1, <1>3, <1>4, <1>6, <3>1, <2>1 DEF ReceivedInv
    <3>2. CASE i > Len(received)
      <4>1. i - Len(received) \in 1 .. cChunk
        BY <1>3, <2>1, <3>2
      <4> QED BY <1>3, <1>4, <1>6, <3>2, <2>1, <4>1
    <3> QED BY <1>3, <2>1, <3>1, <3>2
  <2> QED BY <1>2, <2>1, <2>2 DEF ReceivedInv, sharedVars
<1>12. BatchInv'
  BY <1>1, <1>2 DEF BatchInv, pSize, cSize, sharedVars, producerVars
<1> QED BY <1>7, <1>8, <1>9, <1>10, <1>11, <1>12 DEF IInv

\* Consume's store of tail preserves the invariant.
LEMMA ConsumeReleaseStep ==
  ASSUME IInv, ConsumeRelease
  PROVE  IInv'
<1>1. TypeOK /\ CursorsConservative /\ ChunkInv /\ RingInv /\ ReceivedInv /\ BatchInv
  BY DEF IInv
<1>2. /\ UNCHANGED <<plan, head, ring, dataReady, spaceReady, producerVars, cachedHead, cBatch, received>>
      /\ tail' = tail + cChunk /\ cProgress' = cProgress + cChunk /\ cMoved' = 1 /\ cChunk' = 0
      /\ cPc = "release" /\ cPc' \in {"consume", "notify", "idle"}
      /\ cPc' = "consume" => cProgress' < cSize
      /\ cPc' # "consume" => ~(cProgress' < cSize)
  BY DEF ConsumeRelease
<1>3. /\ Capacity \in Nat \ {0} /\ head \in Nat /\ tail \in Nat /\ cachedHead \in Nat /\ cachedTail \in Nat
      /\ cChunk \in Nat \ {0} /\ cChunk <= Capacity
      /\ cProgress \in Nat /\ cBatch >= 1 /\ cSize \in Nat /\ cProgress + cChunk <= cSize
      /\ StartOf(plan, cBatch) \in Nat /\ tail = StartOf(plan, cBatch) + cProgress
  <2>1. cBatch >= 1 /\ cChunk \in Nat \ {0} /\ cProgress \in Nat /\ cSize \in Nat
    BY <1>1, <1>2, SizeFacts, ShmAssumption DEF TypeOK, ChunkInv, BatchInv
  <2>2. cBatch \in 1 .. Len(plan)
    BY <1>1, <2>1, PlanFacts DEF TypeOK
  <2>3. StartOf(plan, cBatch) \in Nat
    BY <1>1, <2>2, PlanFacts
  <2> QED BY <1>1, <1>2, <2>1, <2>3, ShmAssumption DEF TypeOK, ChunkInv, BatchInv
<1>4. TypeOK'
  BY <1>1, <1>2, <1>3 DEF TypeOK, PcTypes, producerVars
<1>5. CursorsConservative'
  BY <1>1, <1>2, <1>3 DEF CursorsConservative, producerVars
<1>6. ChunkInv'
  BY <1>1, <1>2 DEF ChunkInv, pSize, headOffset, producerVars
<1>7. RingInv'
  BY <1>1, <1>2, <1>3 DEF RingInv, producerVars
<1>8. ReceivedInv'
  BY <1>1, <1>2 DEF ReceivedInv
<1>9. BatchInv'
  <2>1. pSize' = pSize /\ cSize' = cSize
    BY <1>2 DEF pSize, cSize, producerVars
  <2>2. tail' = StartOf(plan', cBatch') + cProgress' /\ cProgress' <= cSize'
    BY <1>2, <1>3, <2>1
  <2>3. cPc' # "consume" => cProgress' = cSize'
    BY <1>2, <1>3, <2>1
  <2> QED BY <1>1, <1>2, <1>3, <2>1, <2>2, <2>3 DEF BatchInv, producerVars
<1> QED BY <1>4, <1>5, <1>6, <1>7, <1>8, <1>9 DEF IInv

-----------------------------------------------------------------------------
(* Safety.                                                                 *)

\* Every step of either endpoint preserves the inductive invariant.
LEMMA NextIInv == IInv /\ [Next]_vars => IInv'
<1> SUFFICES ASSUME IInv, [Next]_vars
             PROVE  IInv'
  OBVIOUS
<1>1. CASE ProducerStep
  BY <1>1, SendBeginStep, ProduceLoadStep, ProduceCopyStep, ProducePublishStep, SendRecheckStep, SendWaitStep
     DEF ProducerStep
<1>2. CASE ConsumerStep
  BY <1>2, RecvBeginStep, ConsumeLoadStep, ConsumeCopyStep, ConsumeReleaseStep, RecvRecheckStep, RecvWaitStep
     DEF ConsumerStep
<1>3. CASE SendRepush \/ RecvRepush
  BY <1>3, SendWaitStep, RecvWaitStep
<1>4. CASE UNCHANGED vars
  <2> USE <1>4 DEF vars, sharedVars, producerVars, consumerVars, IInv
  <2>1. TypeOK'
    BY DEF TypeOK
  <2>2. CursorsConservative'
    BY DEF CursorsConservative
  <2>3. ChunkInv'
    BY DEF ChunkInv, pSize, cSize, headOffset, tailOffset
  <2>4. RingInv'
    BY DEF RingInv
  <2>5. ReceivedInv'
    BY DEF ReceivedInv
  <2>6. BatchInv'
    BY DEF BatchInv, pSize, cSize
  <2> QED BY <2>1, <2>2, <2>3, <2>4, <2>5, <2>6
<1> QED BY <1>1, <1>2, <1>3, <1>4 DEF Next, Finished

\* The inductive invariant holds throughout.
LEMMA AlwaysIInv == Spec => []IInv
BY InitIInv, NextIInv, PTL DEF Spec

\* Every variable of the transport stays in its type (ShmRing!TypeOK).
THEOREM TypeCorrect == Spec => []TypeOK
<1>1. IInv => TypeOK
  BY DEF IInv
<1> QED BY <1>1, AlwaysIInv, PTL

\* The cached cursors of Produce and Consume are always conservative, for a
\* ring of any size and any sequence of batches.
THEOREM CursorsAlwaysConservative == Spec => []CursorsConservative
<1>1. IInv => CursorsConservative
  BY DEF IInv
<1> QED BY <1>1, AlwaysIInv, PTL

\* The receiver's buffers hold the sent stream, in order and undamaged.
THEOREM StreamInOrder == Spec => []InOrder
<1>1. IInv => InOrder
  BY DEF IInv, TypeOK, ReceivedInv, InOrder
<1> QED BY <1>1, AlwaysIInv, PTL

\* The two memcpy's never touch the same byte of the mapping.
THEOREM RaceFree == Spec => []NoDataRace
<1>1. ASSUME IInv
      PROVE  NoDataRace
  <2> SUFFICES ASSUME pPc = "copy", cPc = "copy",
                      NEW k \in headOffset .. headOffset + pChunk - 1,
                      k \in tailOffset .. tailOffset + cChunk - 1
               PROVE  FALSE
    BY DEF NoDataRace
  <2>1. TypeOK /\ CursorsConservative /\ ChunkInv
    BY <1>1 DEF IInv
  <2>2. headOffset \in Nat /\ tailOffset \in Nat
    BY <2>1, OffsetFacts, ShmAssumption DEF Offsets
  <2>3. /\ Capacity \in Nat \ {0} /\ head \in Nat /\ tail \in Nat /\ pChunk \in Nat /\ cChunk \in Nat
        /\ headOffset + pChunk <= Capacity /\ tailOffset + cChunk <= Capacity
        /\ tail + cChunk <= head /\ head + pChunk <= tail + Capacity
    BY <2>1, ShmAssumption DEF TypeOK, CursorsConservative, ChunkInv
  <2>4. PICK i \in Nat : k = tailOffset + i /\ i < cChunk
    BY <2>2, <2>3
  <2>5. PICK p \in Nat : p = tail + i
    BY <2>3
  <2>6. p % Capacity = (tail % Capacity) + i
    <3>1. (tail % Capacity) + i < Capacity
      BY <2>2, <2>3, <2>4 DEF tailOffset
    <3> QED BY <2>3, <2>5, <3>1, ModStep
  <2>7. p < head /\ head + pChunk <= p + Capacity /\ (head % Capacity) + pChunk <= Capacity
    BY <2>2, <2>3, <2>4, <2>5 DEF headOffset
  <2>8. (p % Capacity) - (head % Capacity) \notin 0 .. pChunk - 1
    BY <2>3, <2>7, CopyMissesOlder
  <2>9. k - headOffset \notin 0 .. pChunk - 1
    BY <2>4, <2>6, <2>8 DEF headOffset, tailOffset
  <2> QED BY <2>2, <2>3, <2>9
<1> QED BY <1>1, AlwaysIInv, PTL

\* The shared-memory ring is safe for every capacity and every sequence of
\* batches: conservative cursors, disjoint copies, the stream in order.
THEOREM RingAlwaysSafe == Spec => []RingSafe
<1>1. CursorsConservative /\ NoDataRace /\ InOrder => RingSafe
  BY DEF RingSafe
<1> QED BY <1>1, CursorsAlwaysConservative, RaceFree, StreamInOrder, PTL

-----------------------------------------------------------------------------
(* Refinement: TransportShm is a byte channel.                             *)

\* Every step of TrySend or TryRecv is a Put or a Get of the abstract byte
\* channel, or changes nothing it can see: head.store is the Put, the
\* receiving memcpy the Get.
LEMMA StepRefines ==
  ASSUME IInv, [Next]_vars
  PROVE  [Channel!ChannelNext]_(Channel!channelVars)
<1>1. TypeOK /\ CursorsConservative /\ ChunkInv /\ ReceivedInv
  BY DEF IInv
<1>2. CASE ProducePublish
  <2>1. pChunk \in 1 .. Capacity /\ head \in Nat /\ tail \in Nat /\ cachedTail \in Nat /\ cChunk \in Nat
        /\ Capacity \in Nat
    BY <1>1, <1>2, ShmAssumption DEF TypeOK, ChunkInv, ProducePublish
  <2>2. Len(received) \in Nat /\ tail <= Len(received)
    BY <1>1, <2>1 DEF ReceivedInv, TypeOK
  <2>3. head + pChunk - Len(received) <= Capacity
    BY <1>1, <2>1, <2>2 DEF CursorsConservative
  <2>4. Channel!Put(pChunk)
    BY <1>2, <2>1, <2>3 DEF Channel!Put, ProducePublish, consumerVars
  <2> QED BY <2>1, <2>4 DEF Channel!ChannelNext
<1>3. CASE ConsumeCopy
  <2>1. cChunk \in 1 .. Capacity /\ tail + cChunk <= head
    BY <1>1, <1>3, ShmAssumption DEF TypeOK, ChunkInv, CursorsConservative, ConsumeCopy
  <2>2. Channel!Get(cChunk)
    <3>1. cChunk > 0 /\ Len(received) + cChunk <= head /\ head' = head
      BY <1>1, <1>3, <2>1, CopiedSlice, ShmAssumption DEF ConsumeCopy, sharedVars, TypeOK
    <3>2. received' = received \o Channel!StreamSlice(Len(received), cChunk)
      BY <1>3, CopiedSlice DEF Channel!StreamSlice
    <3> QED BY <3>1, <3>2 DEF Channel!Get
  <2> QED BY <2>1, <2>2 DEF Channel!ChannelNext
<1>4. CASE UNCHANGED <<head, received>>
  BY <1>4 DEF Channel!channelVars
<1>5. ProducePublish \/ ConsumeCopy \/ UNCHANGED <<head, received>>
  <2>1. CASE ProducerStep \/ SendRepush
    BY <2>1 DEF ProducerStep, SendBegin, ProduceLoad, ProduceCopy, SendDrain, SendRecheck, SendNotify, SendWake,
       SendRepush, sharedVars, consumerVars
  <2>2. CASE ConsumerStep \/ RecvRepush
    BY <2>2 DEF ConsumerStep, RecvBegin, ConsumeLoad, ConsumeRelease, RecvDrain, RecvRecheck, RecvNotify, RecvWake,
       RecvRepush, sharedVars
  <2>3. CASE UNCHANGED vars
    BY <2>3 DEF vars, sharedVars, consumerVars
  <2> QED BY <2>1, <2>2, <2>3 DEF Next, Finished
<1> QED BY <1>2, <1>3, <1>4, <1>5

\* Every behaviour of the shared-memory transport is one of the bounded FIFO.
THEOREM ShmImplementsChannel == Spec => ImplementsChannel
<1>1. Init => Channel!ChannelInit
  BY DEF Init, Channel!ChannelInit
<1>2. IInv /\ [Next]_vars => [Channel!ChannelNext]_(Channel!channelVars)
  BY StepRefines
<1> QED BY <1>1, <1>2, AlwaysIInv, PTL DEF Spec, ImplementsChannel, Channel!ChannelSpec

-----------------------------------------------------------------------------
(* No wake-up is lost as long as no event-driven batch follows a polling   *)
(* one.  The endpoint that is behind is then always in an event-driven     *)
(* batch whenever the one ahead of it waits for an event.                  *)

SettledPlans == \A pl \in Plans : SettledModes(pl)

\* Gave up moving bytes in this call: it is parked, or notifies and parks.
SendGaveUp == pPc = "parked" \/ (pPc = "notify" /\ pProgress < pSize)
RecvGaveUp == cPc = "parked" \/ (cPc = "notify" /\ cProgress < cSize)

WakeInv ==
  /\ pPc \in {"drain", "recheck", "notify", "parked"} => pMode = "EventDriven"
  /\ cPc \in {"drain", "recheck", "notify", "parked"} => cMode = "EventDriven"
  /\ SendGaveUp /\ spaceReady = 0 /\ head - tail < Capacity
       => cMoved = 1 /\ cMode = "EventDriven" /\ cPc \notin {"idle", "parked"}
  /\ RecvGaveUp /\ dataReady = 0 /\ head > tail
       => pMoved = 1 /\ pMode = "EventDriven" /\ pPc \notin {"idle", "parked"}

\* Where both cursors are inside the plan.
LEMMA BatchBounds ==
  ASSUME IInv
  PROVE  /\ pPc # "idle" => /\ pBatch \in 1 .. Len(plan) /\ StartOf(plan, pBatch) <= head
                            /\ pProgress < pSize => head < plan[pBatch].end
         /\ cPc # "idle" => /\ cBatch \in 1 .. Len(plan) /\ StartOf(plan, cBatch) <= tail
                            /\ cProgress < cSize => tail < plan[cBatch].end
<1>1. TypeOK /\ BatchInv
  BY DEF IInv
<1>2. ASSUME pPc # "idle"
      PROVE  /\ pBatch \in 1 .. Len(plan) /\ StartOf(plan, pBatch) <= head
             /\ pProgress < pSize => head < plan[pBatch].end
  <2>1. pBatch \in 1 .. Len(plan)
    BY <1>1, <1>2, PlanFacts DEF TypeOK, BatchInv
  <2>2. pBatch >= 1 /\ StartOf(plan, pBatch) \in Nat /\ plan[pBatch].end \in Nat /\ pProgress \in Nat
    BY <1>1, <2>1, PlanFacts DEF TypeOK
  <2>3. head = StartOf(plan, pBatch) + pProgress
    BY <1>1, <2>2 DEF BatchInv
  <2> QED BY <2>1, <2>2, <2>3 DEF pSize
<1>3. ASSUME cPc # "idle"
      PROVE  /\ cBatch \in 1 .. Len(plan) /\ StartOf(plan, cBatch) <= tail
             /\ cProgress < cSize => tail < plan[cBatch].end
  <2>1. cBatch \in 1 .. Len(plan)
    BY <1>1, <1>3, PlanFacts DEF TypeOK, BatchInv
  <2>2. cBatch >= 1 /\ StartOf(plan, cBatch) \in Nat /\ plan[cBatch].end \in Nat /\ cProgress \in Nat
    BY <1>1, <2>1, PlanFacts DEF TypeOK
  <2>3. tail = StartOf(plan, cBatch) + cProgress
    BY <1>1, <2>2 DEF BatchInv
  <2> QED BY <2>1, <2>2, <2>3 DEF cSize
<1> QED BY <1>2, <1>3

\* The batch that is behind has the mode of the one that waits.
LEMMA BehindIsEventDriven ==
  ASSUME SettledPlans, TypeOK,
         NEW a \in 1 .. Len(plan), NEW b \in 1 .. Len(plan),
         StartOf(plan, a) < plan[b].end, plan[b].mode = "EventDriven"
  PROVE  plan[a].mode = "EventDriven"
<1>1. a <= b
  BY PlanFacts
<1>2. SettledModes(plan) /\ plan \in Seq(Batch) /\ DOMAIN plan = 1 .. Len(plan)
  BY PlanFacts DEF SettledPlans, TypeOK
<1> QED BY <1>1, <1>2 DEF SettledModes

\* No step of TrySend loses a wake-up.
LEMMA WakeSend ==
  ASSUME SettledPlans, IInv, WakeInv, ProducerStep \/ SendRepush
  PROVE  WakeInv'
<1> DEFINE B == /\ cPc' = cPc /\ cMoved' = cMoved /\ cMode' = cMode
                /\ cProgress' = cProgress /\ cSize' = cSize /\ plan' = plan /\ tail' = tail
<1>1. B
  BY DEF ProducerStep, SendBegin, ProduceLoad, ProduceCopy, ProducePublish, SendDrain, SendRecheck, SendNotify,
     SendWake, SendRepush, sharedVars, consumerVars, cMode, cSize
<1>2. TypeOK /\ CursorsConservative /\ ChunkInv /\ BatchInv
  BY DEF IInv
<1> HIDE DEF B
<1>3. CASE SendBegin
  BY <1>1, <1>3 DEF B, SendBegin, WakeInv, SendGaveUp, RecvGaveUp, sharedVars
<1>4. CASE ProduceLoad
  BY <1>1, <1>4 DEF B, ProduceLoad, WakeInv, SendGaveUp, RecvGaveUp, sharedVars, pMode
<1>5. CASE ProduceCopy
  BY <1>1, <1>5 DEF B, ProduceCopy, WakeInv, SendGaveUp, RecvGaveUp, pMode
<1>6. CASE ProducePublish
  <2>1. pSize' = pSize /\ pMode' = pMode /\ pPc = "publish" /\ pMoved' = 1 /\ pPc' \in {"produce", "notify", "idle"}
        /\ dataReady' = dataReady /\ spaceReady' = spaceReady
    BY <1>6 DEF ProducePublish, pSize, pMode
  <2>2. ~SendGaveUp'
    BY <1>6, <2>1 DEF ProducePublish, SendGaveUp
  <2>3. /\ pPc' = "notify" => pMode = "EventDriven"
        /\ pMode = "EventDriven" => pPc' # "idle"
    BY <1>6 DEF ProducePublish
  <2>4. ASSUME RecvGaveUp, dataReady = 0
        PROVE  pMode = "EventDriven"
    <3>1. CASE head > tail
      BY <2>4, <3>1 DEF WakeInv
    <3>2. CASE ~(head > tail)
      <4>1. head = tail
        BY <1>2, <3>2 DEF TypeOK, CursorsConservative
      <4>2. /\ pBatch \in 1 .. Len(plan) /\ cBatch \in 1 .. Len(plan)
            /\ StartOf(plan, pBatch) <= head /\ head < plan[cBatch].end /\ plan[cBatch].mode = "EventDriven"
        <5>1. cPc # "idle" /\ cProgress < cSize /\ cMode = "EventDriven"
          BY <1>2, <2>4 DEF RecvGaveUp, BatchInv, WakeInv
        <5> QED BY <2>1, <4>1, <5>1, BatchBounds DEF cMode
      <4>3. StartOf(plan, pBatch) < plan[cBatch].end
        <5>1. StartOf(plan, pBatch) \in Nat /\ plan[cBatch].end \in Nat /\ head \in Nat
          BY <1>2, <4>2, PlanFacts DEF TypeOK
        <5> QED BY <4>2, <5>1
      <4> QED BY <1>2, <4>2, <4>3, BehindIsEventDriven DEF pMode
    <3> QED BY <3>1, <3>2
  <2>5. RecvGaveUp' = RecvGaveUp
    BY <1>1 DEF B, RecvGaveUp
  <2> QED BY <1>1, <2>1, <2>2, <2>3, <2>4, <2>5 DEF B, WakeInv
<1>7. CASE SendDrain
  BY <1>1, <1>7 DEF B, SendDrain, WakeInv, SendGaveUp, RecvGaveUp, pMode
<1>8. CASE SendRecheck
  <2>1. SendGaveUp' => head - tail = Capacity
    BY <1>2, <1>8, RoomFacts DEF SendRecheck, SendGaveUp, TypeOK
  <2>2. /\ UNCHANGED <<head, dataReady, spaceReady, pMoved>> /\ pMode' = pMode /\ pMode = "EventDriven"
        /\ pPc' = "parked" => pMoved # 1
        /\ pPc' # "idle" /\ pPc = "recheck"
    BY <1>8 DEF SendRecheck, sharedVars, pMode, WakeInv
  <2>3. RecvGaveUp' = RecvGaveUp
    BY <1>1 DEF B, RecvGaveUp
  <2>4. ~(SendGaveUp' /\ spaceReady' = 0 /\ head' - tail' < Capacity)
    BY <1>1, <1>2, <2>1, <2>2, ShmAssumption DEF B, TypeOK
  <2> QED BY <1>1, <2>2, <2>3, <2>4 DEF B, WakeInv
<1>9. CASE SendNotify
  <2>1. SendGaveUp' => SendGaveUp
    <3>1. pProgress \in Nat /\ pSize \in Nat /\ pProgress <= pSize
      BY <1>2, <1>9, SizeFacts DEF TypeOK, BatchInv, SendNotify
    <3> QED BY <1>9, <3>1 DEF SendNotify, SendGaveUp
  <2>2. /\ UNCHANGED <<head, spaceReady>> /\ dataReady' = 1 /\ pMode' = pMode /\ pPc = "notify"
    BY <1>9 DEF SendNotify, pMode
  <2> QED BY <1>1, <2>1, <2>2 DEF B, WakeInv
<1>10. CASE SendWake \/ SendRepush
  BY <1>1, <1>10 DEF B, SendWake, SendRepush, WakeInv, SendGaveUp, RecvGaveUp, sharedVars, pMode
<1> QED BY <1>3, <1>4, <1>5, <1>6, <1>7, <1>8, <1>9, <1>10 DEF ProducerStep

\* No step of TryRecv loses a wake-up.
LEMMA WakeRecv ==
  ASSUME SettledPlans, IInv, WakeInv, ConsumerStep \/ RecvRepush
  PROVE  WakeInv'
<1> DEFINE B == /\ pPc' = pPc /\ pMoved' = pMoved /\ pMode' = pMode
                /\ pProgress' = pProgress /\ pSize' = pSize /\ plan' = plan /\ head' = head
<1>1. B
  BY DEF ConsumerStep, RecvBegin, ConsumeLoad, ConsumeCopy, ConsumeRelease, RecvDrain, RecvRecheck, RecvNotify,
     RecvWake, RecvRepush, sharedVars, producerVars, pMode, pSize
<1>2. TypeOK /\ CursorsConservative /\ ChunkInv /\ BatchInv
  BY DEF IInv
<1> HIDE DEF B
<1>3. CASE RecvBegin
  BY <1>1, <1>3 DEF B, RecvBegin, WakeInv, SendGaveUp, RecvGaveUp, sharedVars
<1>4. CASE ConsumeLoad
  BY <1>1, <1>4 DEF B, ConsumeLoad, WakeInv, SendGaveUp, RecvGaveUp, sharedVars, cMode
<1>5. CASE ConsumeCopy
  BY <1>1, <1>5 DEF B, ConsumeCopy, WakeInv, SendGaveUp, RecvGaveUp, sharedVars, cMode
<1>6. CASE ConsumeRelease
  <2>1. cSize' = cSize /\ cMode' = cMode /\ cPc = "release" /\ cMoved' = 1 /\ cPc' \in {"consume", "notify", "idle"}
        /\ dataReady' = dataReady /\ spaceReady' = spaceReady
    BY <1>6 DEF ConsumeRelease, cSize, cMode
  <2>2. ~RecvGaveUp'
    BY <1>6, <2>1 DEF ConsumeRelease, RecvGaveUp
  <2>3. /\ cPc' = "notify" => cMode = "EventDriven"
        /\ cMode = "EventDriven" => cPc' # "idle"
    BY <1>6 DEF ConsumeRelease
  <2>4. ASSUME SendGaveUp
        PROVE  cMode = "EventDriven"
    <3>1. /\ pBatch \in 1 .. Len(plan) /\ cBatch \in 1 .. Len(plan)
          /\ StartOf(plan, cBatch) <= tail /\ head < plan[pBatch].end /\ plan[pBatch].mode = "EventDriven"
      <4>1. pPc # "idle" /\ pProgress < pSize /\ pMode = "EventDriven"
        BY <1>2, <2>4 DEF SendGaveUp, BatchInv, WakeInv
      <4> QED BY <2>1, <4>1, BatchBounds DEF pMode
    <3>2. StartOf(plan, cBatch) < plan[pBatch].end
      <4>1. /\ StartOf(plan, cBatch) \in Nat /\ plan[pBatch].end \in Nat
            /\ head \in Nat /\ tail \in Nat /\ tail <= head
        BY <1>2, <3>1, PlanFacts DEF TypeOK, CursorsConservative
      <4> QED BY <3>1, <4>1
    <3> QED BY <1>2, <3>1, <3>2, BehindIsEventDriven DEF cMode
  <2>5. SendGaveUp' = SendGaveUp
    BY <1>1 DEF B, SendGaveUp
  <2> QED BY <1>1, <2>1, <2>2, <2>3, <2>4, <2>5 DEF B, WakeInv
<1>7. CASE RecvDrain
  BY <1>1, <1>7 DEF B, RecvDrain, WakeInv, SendGaveUp, RecvGaveUp, cMode
<1>8. CASE RecvRecheck
  <2>1. RecvGaveUp' => head = tail
    BY <1>2, <1>8, DataFacts DEF RecvRecheck, RecvGaveUp, TypeOK
  <2>2. /\ UNCHANGED <<tail, dataReady, spaceReady, cMoved>> /\ cMode' = cMode /\ cMode = "EventDriven"
        /\ cPc' = "parked" => cMoved # 1
        /\ cPc' # "idle" /\ cPc = "recheck"
    BY <1>8 DEF RecvRecheck, sharedVars, cMode, WakeInv
  <2>3. SendGaveUp' = SendGaveUp
    BY <1>1 DEF B, SendGaveUp
  <2>4. ~(RecvGaveUp' /\ dataReady' = 0 /\ head' > tail')
    BY <1>1, <1>2, <2>1, <2>2 DEF B, TypeOK
  <2> QED BY <1>1, <2>2, <2>3, <2>4 DEF B, WakeInv
<1>9. CASE RecvNotify
  <2>1. RecvGaveUp' => RecvGaveUp
    <3>1. cProgress \in Nat /\ cSize \in Nat /\ cProgress <= cSize
      BY <1>2, <1>9, SizeFacts DEF TypeOK, BatchInv, RecvNotify
    <3> QED BY <1>9, <3>1 DEF RecvNotify, RecvGaveUp
  <2>2. /\ UNCHANGED <<tail, dataReady>> /\ spaceReady' = 1 /\ cMode' = cMode /\ cPc = "notify"
    BY <1>9 DEF RecvNotify, cMode
  <2> QED BY <1>1, <2>1, <2>2 DEF B, WakeInv
<1>10. CASE RecvWake \/ RecvRepush
  BY <1>1, <1>10 DEF B, RecvWake, RecvRepush, WakeInv, SendGaveUp, RecvGaveUp, sharedVars, cMode
<1> QED BY <1>3, <1>4, <1>5, <1>6, <1>7, <1>8, <1>9, <1>10 DEF ConsumerStep

\* Neither endpoint ever sleeps through its wake-up (Drain, then look again,
\* then park), whatever the interleaving, provided the wait modes settle.
THEOREM WakeupsNotLost ==
  ASSUME SettledPlans
  PROVE  Spec => []NoLostWakeup
<1>1. Init => WakeInv
  BY DEF Init, WakeInv, SendGaveUp, RecvGaveUp
<1>2. IInv /\ WakeInv /\ [Next]_vars => WakeInv'
  <2> SUFFICES ASSUME IInv, WakeInv, [Next]_vars
               PROVE  WakeInv'
    OBVIOUS
  <2>1. CASE ProducerStep \/ SendRepush
    BY <2>1, WakeSend
  <2>2. CASE ConsumerStep \/ RecvRepush
    BY <2>2, WakeRecv
  <2>3. CASE UNCHANGED vars
    BY <2>3 DEF vars, sharedVars, producerVars, consumerVars, WakeInv, SendGaveUp, RecvGaveUp, pMode, cMode,
       pSize, cSize
  <2> QED BY <2>1, <2>2, <2>3 DEF Next, Finished
<1>3. WakeInv => NoLostWakeup
  BY DEF WakeInv, NoLostWakeup, SendGaveUp, RecvGaveUp
<1> QED BY <1>1, <1>2, <1>3, AlwaysIInv, PTL DEF Spec
=============================================================================
