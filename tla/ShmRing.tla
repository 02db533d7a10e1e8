------------------------------- MODULE ShmRing -------------------------------
(***************************************************************************)
(* The data path of TransportShm (transport_shm.cpp): a single-producer,   *)
(* single-consumer byte ring in shared memory, with one eventfd per        *)
(* direction of wake-up.                                                   *)
(*                                                                         *)
(* Each endpoint runs the batches of plan in order.  A batch is what one   *)
(* Executor::Run moves over this transport: SetWaitMode, then TrySend (or  *)
(* TryRecv) again and again until *done.  Between two calls a Polling      *)
(* executor simply calls again; an EventDriven one (EpollExecutor, or the  *)
(* poll() of the blocking Send and Recv) parks until the endpoint's        *)
(* eventfd is readable.                                                    *)
(*                                                                         *)
(* Every load, store, memcpy, eventfd read and eventfd write that the      *)
(* other process can observe is a step of its own.  A byte is named by its *)
(* position in the stream.  The cursors are unbounded here: the code's are *)
(* 64 bits wide and count bytes.                                           *)
(***************************************************************************)
EXTENDS Integers, Sequences, FiniteSetsExt

CONSTANTS
  Capacity,   \* kShmRingCapacity
  Plans       \* the batch sequences the endpoints may be given

Modes == {"EventDriven", "Polling"}

\* A batch is given by the stream position it ends at (it starts where the
\* one before it ended) and the wait mode its executor chooses.
Batch == [end : Nat, mode : Modes]

StartOf(pl, b) == IF b = 1 THEN 0 ELSE pl[b - 1].end

\* Every batch moves at least one byte: the planner emits no empty transfer.
IsPlan(pl) ==
  /\ pl \in Seq(Batch)
  /\ \A b \in DOMAIN pl : pl[b].end > 0
  /\ \A a, b \in DOMAIN pl : a < b => pl[a].end < pl[b].end

\* No executor that waits for events follows one that polls.
SettledModes(pl) ==
  \A a, b \in DOMAIN pl : a < b /\ pl[b].mode = "EventDriven" => pl[a].mode = "EventDriven"

ASSUME ShmAssumption ==
  /\ Capacity \in Nat \ {0}
  /\ \A pl \in Plans : IsPlan(pl)

VARIABLES
  plan,         \* the batches both endpoints run (never changes)
  head, tail,   \* ShmRingCursors: bytes published, bytes released
  ring,         \* RingData(): the bytes in the mapping, by offset
  dataReady,    \* eventfd the consumer waits on: 1 when readable
  spaceReady,   \* eventfd the producer waits on: 1 when readable
  cachedTail,   \* producer's cached_tail
  cachedHead,   \* consumer's cached_head
  pPc, pBatch, pProgress, pMoved, pChunk,   \* producer inside TrySend
  cPc, cBatch, cProgress, cMoved, cChunk,   \* consumer inside TryRecv
  received      \* history: the bytes memcpy'd to the receiver's buffers

producerVars == <<cachedTail, pPc, pBatch, pProgress, pMoved, pChunk>>
consumerVars == <<cachedHead, cPc, cBatch, cProgress, cMoved, cChunk, received>>
sharedVars   == <<head, tail, ring, dataReady, spaceReady>>
vars == <<plan, sharedVars, producerVars, consumerVars>>

Offsets == 0 .. Capacity - 1

headOffset == head % Capacity
tailOffset == tail % Capacity

\* A mapping byte that belongs to no stream position (the memfd's zero fill).
NoByte == -1

pSize == plan[pBatch].end - StartOf(plan, pBatch)
cSize == plan[cBatch].end - StartOf(plan, cBatch)
pMode == plan[pBatch].mode
cMode == plan[cBatch].mode

\* CreateRing: cursors at zero, data_ready = eventfd(0), space_ready = eventfd(1).
Init ==
  /\ plan \in Plans
  /\ head = 0 /\ tail = 0
  /\ ring = [k \in Offsets |-> NoByte]
  /\ dataReady = 0 /\ spaceReady = 1
  /\ cachedTail = 0 /\ cachedHead = 0
  /\ pPc = "idle" /\ pBatch = 0 /\ pProgress = 0 /\ pMoved = 0 /\ pChunk = 0
  /\ cPc = "idle" /\ cBatch = 0 /\ cProgress = 0 /\ cMoved = 0 /\ cChunk = 0
  /\ received = << >>

-----------------------------------------------------------------------------
(* The producer: TrySend and Produce.                                      *)

\* The executor starts the next batch: SetWaitMode, then the first TrySend.
SendBegin ==
  /\ pPc = "idle" /\ pBatch < Len(plan)
  /\ pBatch' = pBatch + 1
  /\ pProgress' = 0 /\ pMoved' = 0
  /\ pPc' = "produce"
  /\ UNCHANGED <<plan, sharedVars, consumerVars, cachedTail, pChunk>>

\* cached_tail after a look at the room: reloaded only when it shows none.
TailSeen == IF Capacity - (head - cachedTail) = 0 THEN tail ELSE cachedTail

\* Mutant: one byte too many.
RoomSeenPlusOne == Capacity - (head - TailSeen) + 1

RoomSeen == Capacity - (head - TailSeen)

\* Mutant: the chunk is not limited by the room or the ring's end.
ProduceAll ==
  /\ pPc = "produce" /\ cachedTail' = TailSeen
  /\ pChunk' = pSize - pProgress /\ pPc' = "copy"
  /\ UNCHANGED <<plan, sharedVars, consumerVars, pBatch, pProgress, pMoved>>

\* Produce up to its memcpy.  With no room it returns 0: an EventDriven
\* TrySend goes on to drain its eventfd, a Polling one breaks, returns not
\* done, and is called again.
ProduceLoad ==
  /\ pPc = "produce"
  /\ cachedTail' = TailSeen
  /\ \/ /\ RoomSeen = 0
        /\ IF pMode = "EventDriven"
           THEN pPc' = "drain" /\ UNCHANGED pMoved
           ELSE pMoved' = 0 /\ UNCHANGED pPc
        /\ UNCHANGED pChunk
     \/ /\ RoomSeen > 0
        /\ UNCHANGED pMoved
        /\ pChunk' = Min({RoomSeen, pSize - pProgress, Capacity - headOffset})
        /\ pPc' = "copy"
  /\ UNCHANGED <<plan, sharedVars, consumerVars, pBatch, pProgress>>

\* memcpy into the ring: not yet visible through head.
ProduceCopy ==
  /\ pPc = "copy"
  /\ ring' = [k \in Offsets |->
                IF k - headOffset \in 0 .. pChunk - 1
                THEN head + (k - headOffset)
                ELSE ring[k]]
  /\ pPc' = "publish"
  /\ UNCHANGED <<plan, head, tail, dataReady, spaceReady, consumerVars,
                 cachedTail, pBatch, pProgress, pMoved, pChunk>>

\* Mutant: a finished TrySend does not notify.
ProducePublishSilently ==
  /\ pPc = "publish"
  /\ head' = head + pChunk /\ pProgress' = pProgress + pChunk
  /\ pMoved' = 1 /\ pChunk' = 0
  /\ pPc' = IF pProgress' < pSize THEN "produce" ELSE "idle"
  /\ UNCHANGED <<plan, tail, ring, dataReady, spaceReady, consumerVars, cachedTail, pBatch>>

\* head.store(release), then the TrySend loop accounts for the chunk.
ProducePublish ==
  /\ pPc = "publish"
  /\ head' = head + pChunk
  /\ pProgress' = pProgress + pChunk
  /\ pMoved' = 1
  /\ pChunk' = 0
  /\ pPc' = IF pProgress' < pSize THEN "produce"
            ELSE IF pMode = "EventDriven" THEN "notify" ELSE "idle"
  /\ UNCHANGED <<plan, tail, ring, dataReady, spaceReady, consumerVars, cachedTail, pBatch>>

\* Drain(resources.space_ready).
SendDrain ==
  /\ pPc = "drain"
  /\ spaceReady' = 0
  /\ pPc' = "recheck"
  /\ UNCHANGED <<plan, head, tail, ring, dataReady, consumerVars,
                 cachedTail, pBatch, pProgress, pMoved, pChunk>>

\* Mutant: no second look after the drain.
SendRecheckSkipped ==
  /\ pPc = "recheck"
  /\ pPc' = IF pMoved = 1 THEN "notify" ELSE "parked"
  /\ UNCHANGED <<plan, sharedVars, consumerVars, cachedTail, pBatch, pProgress, pMoved, pChunk>>

\* SpaceAvailable() after the drain: only with still no room does TrySend
\* break, notifying first when this call moved something.
SendRecheck ==
  /\ pPc = "recheck"
  /\ cachedTail' = TailSeen
  /\ pPc' = IF RoomSeen > 0 THEN "produce"
            ELSE IF pMoved = 1 THEN "notify" ELSE "parked"
  /\ UNCHANGED <<plan, sharedVars, consumerVars, pBatch, pProgress, pMoved, pChunk>>

\* Notify(resources.data_ready), the last thing an EventDriven TrySend does.
SendNotify ==
  /\ pPc = "notify"
  /\ dataReady' = 1
  /\ pMoved' = 0
  /\ pPc' = IF pProgress = pSize THEN "idle" ELSE "parked"
  /\ UNCHANGED <<plan, head, tail, ring, spaceReady, consumerVars,
                 cachedTail, pBatch, pProgress, pChunk>>

\* space_ready is readable: the executor calls TrySend again.
SendWake ==
  /\ pPc = "parked" /\ spaceReady = 1
  /\ pPc' = "produce"
  /\ UNCHANGED <<plan, sharedVars, consumerVars, cachedTail, pBatch, pProgress, pMoved, pChunk>>

\* Some other event of the task made the topology push this side again
\* (TopologyTree pushes every side on every event).  Nothing promises it.
SendRepush ==
  /\ pPc = "parked" /\ spaceReady = 0
  /\ pPc' = "produce"
  /\ UNCHANGED <<plan, sharedVars, consumerVars, cachedTail, pBatch, pProgress, pMoved, pChunk>>

-----------------------------------------------------------------------------
(* The consumer: TryRecv and Consume.                                      *)

RecvBegin ==
  /\ cPc = "idle" /\ cBatch < Len(plan)
  /\ cBatch' = cBatch + 1
  /\ cProgress' = 0 /\ cMoved' = 0
  /\ cPc' = "consume"
  /\ UNCHANGED <<plan, sharedVars, producerVars, cachedHead, cChunk, received>>

\* cached_head after a look at the data: reloaded only when it shows none.
HeadSeen == IF cachedHead - tail = 0 THEN head ELSE cachedHead

DataSeen == HeadSeen - tail

ConsumeLoad ==
  /\ cPc = "consume"
  /\ cachedHead' = HeadSeen
  /\ \/ /\ DataSeen = 0
        /\ IF cMode = "EventDriven"
           THEN cPc' = "drain" /\ UNCHANGED cMoved
           ELSE cMoved' = 0 /\ UNCHANGED cPc
        /\ UNCHANGED cChunk
     \/ /\ DataSeen > 0
        /\ UNCHANGED cMoved
        /\ cChunk' = Min({DataSeen, cSize - cProgress, Capacity - tailOffset})
        /\ cPc' = "copy"
  /\ UNCHANGED <<plan, sharedVars, producerVars, cBatch, cProgress, received>>

\* memcpy out of the ring: the bytes are still owned by the consumer.
ConsumeCopy ==
  /\ cPc = "copy"
  /\ received' = received \o [i \in 1..cChunk |-> ring[tailOffset + i - 1]]
  /\ cPc' = "release"
  /\ UNCHANGED <<plan, sharedVars, producerVars, cachedHead, cBatch, cProgress, cMoved, cChunk>>

\* tail.store(release), then the TryRecv loop accounts for the chunk.
ConsumeRelease ==
  /\ cPc = "release"
  /\ tail' = tail + cChunk
  /\ cProgress' = cProgress + cChunk
  /\ cMoved' = 1
  /\ cChunk' = 0
  /\ cPc' = IF cProgress' < cSize THEN "consume"
            ELSE IF cMode = "EventDriven" THEN "notify" ELSE "idle"
  /\ UNCHANGED <<plan, head, ring, dataReady, spaceReady, producerVars, cachedHead, cBatch, received>>

\* Drain(resources.data_ready).
RecvDrain ==
  /\ cPc = "drain"
  /\ dataReady' = 0
  /\ cPc' = "recheck"
  /\ UNCHANGED <<plan, head, tail, ring, spaceReady, producerVars,
                 cachedHead, cBatch, cProgress, cMoved, cChunk, received>>

\* DataAvailable() after the drain.
RecvRecheck ==
  /\ cPc = "recheck"
  /\ cachedHead' = HeadSeen
  /\ cPc' = IF DataSeen > 0 THEN "consume"
            ELSE IF cMoved = 1 THEN "notify" ELSE "parked"
  /\ UNCHANGED <<plan, sharedVars, producerVars, cBatch, cProgress, cMoved, cChunk, received>>

\* Notify(resources.space_ready).
RecvNotify ==
  /\ cPc = "notify"
  /\ spaceReady' = 1
  /\ cMoved' = 0
  /\ cPc' = IF cProgress = cSize THEN "idle" ELSE "parked"
  /\ UNCHANGED <<plan, head, tail, ring, dataReady, producerVars,
                 cachedHead, cBatch, cProgress, cChunk, received>>

RecvWake ==
  /\ cPc = "parked" /\ dataReady = 1
  /\ cPc' = "consume"
  /\ UNCHANGED <<plan, sharedVars, producerVars, cachedHead, cBatch, cProgress, cMoved, cChunk, received>>

RecvRepush ==
  /\ cPc = "parked" /\ dataReady = 0
  /\ cPc' = "consume"
  /\ UNCHANGED <<plan, sharedVars, producerVars, cachedHead, cBatch, cProgress, cMoved, cChunk, received>>

-----------------------------------------------------------------------------
\* Both endpoints have finished their last batch.
AllDone ==
  /\ pPc = "idle" /\ pBatch = Len(plan)
  /\ cPc = "idle" /\ cBatch = Len(plan)

\* Nothing more to run: the processes idle.
Finished == AllDone /\ UNCHANGED vars

ProducerStep ==
  \/ SendBegin \/ ProduceLoad \/ ProduceCopy \/ ProducePublish
  \/ SendDrain \/ SendRecheck \/ SendNotify \/ SendWake

ConsumerStep ==
  \/ RecvBegin \/ ConsumeLoad \/ ConsumeCopy \/ ConsumeRelease
  \/ RecvDrain \/ RecvRecheck \/ RecvNotify \/ RecvWake

Next == ProducerStep \/ ConsumerStep \/ SendRepush \/ RecvRepush \/ Finished

Spec == Init /\ [][Next]_vars

\* The scheduler runs both processes; a push by another event is not owed.
Fairness == WF_vars(ProducerStep) /\ WF_vars(ConsumerStep)

FairSpec == Spec /\ Fairness

-----------------------------------------------------------------------------
PcTypes == {"idle", "copy", "drain", "recheck", "notify", "parked"}

\* Every variable stays in its type; a chunk never exceeds the ring.
TypeOK ==
  /\ plan \in Plans
  /\ head \in Nat /\ tail \in Nat
  /\ ring \in [Offsets -> Int]
  /\ dataReady \in {0, 1} /\ spaceReady \in {0, 1}
  /\ cachedTail \in Nat /\ cachedHead \in Nat
  /\ pPc \in PcTypes \cup {"produce", "publish"}
  /\ cPc \in PcTypes \cup {"consume", "release"}
  /\ pBatch \in 0 .. Len(plan) /\ cBatch \in 0 .. Len(plan)
  /\ pProgress \in Nat /\ cProgress \in Nat
  /\ pMoved \in {0, 1} /\ cMoved \in {0, 1}
  /\ pChunk \in 0 .. Capacity /\ cChunk \in 0 .. Capacity
  /\ received \in Seq(Int)

\* A stale cached cursor is only ever conservative: the producer never counts
\* as free a byte the consumer has not released (transport_shm.cpp:402), the
\* consumer never counts as filled a byte not yet published (:419), and the
\* chunk in flight on either side stays inside its own region of the ring.
CursorsConservative ==
  /\ cachedTail <= tail
  /\ tail <= cachedHead
  /\ cachedHead <= head
  /\ head + pChunk <= cachedTail + Capacity
  /\ tail + cChunk <= cachedHead

\* While both memcpy's are under way they touch disjoint bytes of the mapping.
NoDataRace ==
  pPc = "copy" /\ cPc = "copy" =>
    (headOffset .. headOffset + pChunk - 1) \cap (tailOffset .. tailOffset + cChunk - 1) = {}

\* The receiver gets the stream: nothing lost, duplicated, reordered or
\* overwritten before it was read, across any number of wraps.
InOrder == \A i \in DOMAIN received : received[i] = i - 1

\* The ring as a whole: a stale cursor, a copy under way and a wrap never cost
\* a byte.
RingSafe == CursorsConservative /\ NoDataRace /\ InOrder

\* An endpoint never sleeps through the event it waits for: whenever it is
\* parked on an unreadable eventfd although its side could move bytes, the
\* peer is inside a call that will still Notify.
NoLostWakeup ==
  /\ pPc = "parked" /\ spaceReady = 0 /\ head - tail < Capacity
       => cMoved = 1 /\ cMode = "EventDriven"
  /\ cPc = "parked" /\ dataReady = 0 /\ head > tail
       => pMoved = 1 /\ pMode = "EventDriven"

\* TransportShm implements the byte channel its users rely on.
Channel == INSTANCE ByteChannel WITH sent <- head

ImplementsChannel == Channel!ChannelSpec

\* Every batch is eventually delivered and both executors return.
Completes == <>AllDone
=============================================================================
