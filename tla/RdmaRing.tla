------------------------------ MODULE RdmaRing ------------------------------
(***************************************************************************)
(* The copying data path of TransportRDMA (transport_rdma.cpp): a ring of  *)
(* fixed-size slots in the consumer's registered memory, filled by RDMA    *)
(* writes that carry an immediate, with credits coming back the same way.  *)
(*                                                                         *)
(* An endpoint first exchanges one control message (the first blocking     *)
(* Send or Recv), then moves the messages of plan in order by TrySend or   *)
(* TryRecv.  Every such call first runs ProcessCompletions.  An endpoint   *)
(* that waits for events sleeps on its completion channel between calls;   *)
(* one that polls calls again at once.  The two ends are processes of      *)
(* their own and each chooses its wait mode by itself.                     *)
(*                                                                         *)
(* The network card executes posted work requests in order, at any later   *)
(* time; it reads the sender's slot only then.  Memory, queue pair and     *)
(* completion channel are external, modelled from how the code uses them.  *)
(* A byte is named by its position in the stream.  Inline writes are       *)
(* writes whose staging copy no later memcpy can disturb and are included. *)
(***************************************************************************)
EXTENDS Integers, Sequences, FiniteSetsExt, Totals

CONSTANTS
  SlotCount,     \* kRdmaSlotCount
  SlotSize,      \* kRdmaSlotSize
  RecvPool,      \* kRdmaRecvPool
  CreditBatch,   \* kCreditBatch
  Plans          \* the message sequences the endpoints may be given

Producer == "producer"
Consumer == "consumer"
Ends == {Producer, Consumer}

Other(e) == IF e = Producer THEN Consumer ELSE Producer

Modes == {"EventDriven", "Polling"}

\* A message ends at a stream position; each end's executor has its mode.
Message == [end : Nat, mode : [Ends -> Modes]]

StartOf(pl, b) == IF b = 1 THEN 0 ELSE pl[b - 1].end

IsPlan(pl) ==
  /\ pl \in Seq(Message)
  /\ \A b \in DOMAIN pl : StartOf(pl, b) < pl[b].end

\* 32 slots, 64 receive entries, credits returned by 8 in the code.
ASSUME RdmaAssumption ==
  /\ SlotCount \in Nat \ {0}
  /\ SlotSize \in Nat \ {0}
  /\ CreditBatch \in 1 .. SlotCount
  /\ RecvPool \in Nat /\ RecvPool > SlotCount
  /\ \A pl \in Plans : IsPlan(pl)

VARIABLES
  plan,        \* the messages both ends move (never changes)
  active,      \* the end that connected, and so sends the control message
  pc,          \* where each end is in its call
  batch,       \* the message each end is at; 0 for the control handshake
  progress,    \* bytes of that message moved, *progress
  controlDone, \* control_sent at the active end, control_received at the other
  wire,        \* posted work requests the card has not executed, per end
  recvs,       \* posted receive entries, per end
  cq,          \* completion queue, per end
  armed,       \* ibv_req_notify_cq is in force, per end
  events,      \* unread events of the completion channel, per end
  stage,       \* producer's registered slots: first stream position, length
  sendSeq, credits,                             \* producer's cursors
  slots,       \* consumer's registered slots: first stream position, length
  arrHead, arrTail, arrOffset, arrLen, pending, \* consumer's cursors
  received     \* history: the bytes memcpy'd to the receiver's buffers

callVars == <<pc, batch, progress, controlDone>>
cardVars == <<wire, recvs, cq, armed, events>>
sendVars == <<stage, sendSeq, credits>>
recvVars == <<slots, arrHead, arrTail, arrOffset, arrLen, pending, received>>
vars == <<plan, active, callVars, cardVars, sendVars, recvVars>>

Slots == 0 .. SlotCount - 1

\* What a slot holds: len bytes of the stream from position from on.
Content == [from : Int, len : Nat]

Empty == [from |-> -1, len |-> 0]

\* A work request.  slot and len are the immediate of a data write, len the
\* immediate of a credit; from and seq (the stream position and the number of
\* a data write) are history fields, not on the wire.
Request == [op : {"data", "credit", "control"}, slot : Slots, len : Nat,
            from : Int, seq : Int, signaled : BOOLEAN]

\* A completion: of a received request, or ("write", "send") of an own one.
Completion == [op : {"data", "credit", "control", "write", "send"}, slot : Slots, len : Nat,
               from : Int, seq : Int]

MessageSize(e) == plan[batch[e]].end - StartOf(plan, batch[e])

\* wait_mode: EventDriven until an executor sets it.
WaitMode(e) == IF batch[e] = 0 THEN "EventDriven" ELSE plan[batch[e]].mode[e]

\* Where ProcessCompletions starts: only EventDriven looks at the channel.
Process(mode) == IF mode = "EventDriven" THEN "drain" ELSE "poll"

\* After SetupResources on both sides and FinalizeConnection.
Init ==
  /\ plan \in Plans
  /\ active \in Ends
  /\ pc = [e \in Ends |-> "start"]
  /\ batch = [e \in Ends |-> 0] /\ progress = [e \in Ends |-> 0]
  /\ controlDone = [e \in Ends |-> FALSE]
  /\ wire = [e \in Ends |-> << >>]
  /\ recvs = [e \in Ends |-> RecvPool]
  /\ cq = [e \in Ends |-> << >>]
  /\ armed = [e \in Ends |-> TRUE]
  /\ events = [e \in Ends |-> 0]
  /\ stage = [s \in Slots |-> Empty] /\ slots = [s \in Slots |-> Empty]
  /\ sendSeq = 0 /\ credits = 0
  /\ arrHead = 0 /\ arrTail = 0 /\ arrOffset = 0 /\ pending = 0
  /\ arrLen = [s \in Slots |-> 0]
  /\ received = << >>

-----------------------------------------------------------------------------
(* The network card and the completion channel.                            *)

\* Completions arrive, per end, a sequence each; an armed queue raises one event.
Complete(arrived) ==
  /\ cq' = [e \in Ends |-> cq[e] \o arrived[e]]
  /\ events' = [e \in Ends |-> IF armed[e] /\ arrived[e] /= << >> THEN events[e] + 1 ELSE events[e]]
  /\ armed' = [e \in Ends |-> armed[e] /\ arrived[e] = << >>]

\* The sender's own completion of a request, if it asked for one.
OwnCompletion(wr) ==
  IF wr.signaled
  THEN << [op |-> IF wr.op = "control" THEN "send" ELSE "write", slot |-> 0, len |-> 0,
           from |-> -1, seq |-> -1] >>
  ELSE << >>

\* The card executes e's oldest request at the other end: it takes a receive
\* entry there, and a data write reads e's slot and fills the peer's.  The
\* sender's completion comes with it; but for control_sent, the code only
\* lets it wake the endpoint.
Execute(e) ==
  /\ wire[e] /= << >>
  /\ recvs[Other(e)] > 0
  /\ LET wr == Head(wire[e])
         there == [op |-> wr.op, slot |-> wr.slot, len |-> wr.len, from |-> wr.from,
                   seq |-> wr.seq]
     IN /\ Complete([f \in Ends |-> IF f = e THEN OwnCompletion(wr) ELSE <<there>>])
        /\ slots' = IF wr.op = "data" THEN [slots EXCEPT ![wr.slot] = stage[wr.slot]] ELSE slots
  /\ wire' = [wire EXCEPT ![e] = Tail(@)]
  /\ recvs' = [recvs EXCEPT ![Other(e)] = @ - 1]
  /\ UNCHANGED <<plan, active, callVars, sendVars,
                 arrHead, arrTail, arrOffset, arrLen, pending, received>>

-----------------------------------------------------------------------------
(* ProcessCompletions: drain and re-arm the channel, then empty the queue.  *)

\* ibv_get_cq_event and ibv_ack_cq_events, while the channel is readable.
DrainEvent(e) ==
  /\ pc[e] = "drain"
  /\ IF events[e] > 0
     THEN /\ events' = [events EXCEPT ![e] = @ - 1]
          /\ pc' = [pc EXCEPT ![e] = "arm"]
     ELSE /\ pc' = [pc EXCEPT ![e] = "poll"]
          /\ UNCHANGED events
  /\ UNCHANGED <<plan, active, batch, progress, controlDone, wire, recvs, cq, armed,
                 sendVars, recvVars>>

\* Mutant: DrainCompletionEvents(false) on the data path.
NoRearm(e) ==
  /\ pc[e] = "arm"
  /\ pc' = [pc EXCEPT ![e] = "drain"]
  /\ UNCHANGED <<plan, active, batch, progress, controlDone, cardVars, sendVars, recvVars>>

\* ibv_req_notify_cq: only a completion that comes later raises an event.
Rearm(e) ==
  /\ pc[e] = "arm"
  /\ armed' = [armed EXCEPT ![e] = TRUE]
  /\ pc' = [pc EXCEPT ![e] = "drain"]
  /\ UNCHANGED <<plan, active, batch, progress, controlDone, wire, recvs, cq, events,
                 sendVars, recvVars>>

\* Mutant: the arrival's length is filed under the oldest arrival's slot.
ArrivalSlotOldest == arrHead % SlotCount

\* Arrivals are numbered by the receiver; the slot in the immediate is only
\* checked to be in range.
ArrivalSlot == arrTail % SlotCount

\* What HandleCompletion does with one completion, besides the repost.
Apply(e, c) ==
  CASE c.op = "data" ->
         /\ arrLen' = [arrLen EXCEPT ![ArrivalSlot] = c.len]
         /\ arrTail' = arrTail + 1
         /\ UNCHANGED <<credits, controlDone>>
    [] c.op = "credit" ->
         /\ credits' = credits + c.len
         /\ UNCHANGED <<arrLen, arrTail, controlDone>>
    [] c.op \in {"control", "send"} ->
         /\ controlDone' = [controlDone EXCEPT ![e] = TRUE]
         /\ UNCHANGED <<arrLen, arrTail, credits>>
    [] OTHER -> UNCHANGED <<arrLen, arrTail, credits, controlDone>>

\* PostPoolRecv puts back the entry a received request took.
Repost(c) == IF c.op \in {"data", "credit", "control"} THEN 1 ELSE 0

\* One completion is polled and handled.
Poll(e) ==
  /\ pc[e] = "poll" /\ cq[e] /= << >>
  /\ LET c == Head(cq[e]) IN
       /\ Apply(e, c)
       /\ recvs' = [recvs EXCEPT ![e] = @ + Repost(c)]
  /\ cq' = [cq EXCEPT ![e] = Tail(@)]
  /\ UNCHANGED <<plan, active, pc, batch, progress, wire, armed, events,
                 stage, sendSeq, slots, arrHead, arrOffset, pending, received>>

\* ibv_poll_cq returned 0: ProcessCompletions is over.
PollEmpty(e) ==
  /\ pc[e] = "poll" /\ cq[e] = << >>
  /\ pc' = [pc EXCEPT ![e] = "move"]
  /\ UNCHANGED <<plan, active, batch, progress, controlDone, cardVars, sendVars, recvVars>>

-----------------------------------------------------------------------------
(* The calls around it.                                                     *)

\* The first blocking Send (PostControlSend) or Recv enters WaitFlag.
Handshake(e) ==
  /\ pc[e] = "start"
  /\ wire' = IF e = active
             THEN [wire EXCEPT ![e] = Append(@, [op |-> "control", slot |-> 0, len |-> 0,
                                                 from |-> -1, seq |-> -1, signaled |-> TRUE])]
             ELSE wire
  /\ pc' = [pc EXCEPT ![e] = "drain"]
  /\ UNCHANGED <<plan, active, batch, progress, controlDone, recvs, cq, armed, events,
                 sendVars, recvVars>>

\* WaitFlag looks at the flag again; the handshake is a message of its own.
FlagSeen(e) ==
  /\ pc[e] = "move" /\ batch[e] = 0
  /\ pc' = [pc EXCEPT ![e] = IF controlDone[e] THEN "idle" ELSE "parked"]
  /\ UNCHANGED <<plan, active, batch, progress, controlDone, cardVars, sendVars, recvVars>>

\* The executor takes up the next message: SetWaitMode, first Try call.
Begin(e) ==
  /\ pc[e] = "idle" /\ batch[e] < Len(plan)
  /\ batch' = [batch EXCEPT ![e] = @ + 1]
  /\ progress' = [progress EXCEPT ![e] = 0]
  /\ pc' = [pc EXCEPT ![e] = Process(plan[batch[e] + 1].mode[e])]
  /\ UNCHANGED <<plan, active, controlDone, cardVars, sendVars, recvVars>>

\* A call returned with n bytes moved: done, or to be made again.
Return(e, n) ==
  /\ progress' = [progress EXCEPT ![e] = n]
  /\ pc' = [pc EXCEPT ![e] = IF n = MessageSize(e) THEN "idle"
                             ELSE IF WaitMode(e) = "EventDriven" THEN "parked" ELSE "poll"]

\* Mutant: one slot too many.
AvailablePlusOne == credits + SlotCount + 1 - sendSeq

\* Slots the sender may still fill: limit - send_seq.
Available == credits + SlotCount - sendSeq

\* Chunks the rest of the message makes.
Chunks(remaining) == (remaining + SlotSize - 1) \div SlotSize

\* PostWrites: the i-th chunk of a call that starts at stream position at.
ChunkAt(at, rest, i) ==
  [from |-> at + (i - 1) * SlotSize, len |-> Min({SlotSize, rest - (i - 1) * SlotSize})]

\* The slot the i-th chunk goes to.
ChunkSlot(i) == (sendSeq + i - 1) % SlotCount

\* TrySend after ProcessCompletions: PostWrites of what the credits allow.
SendMove ==
  /\ pc[Producer] = "move" /\ batch[Producer] > 0
  /\ LET at    == StartOf(plan, batch[Producer]) + progress[Producer]
         rest  == MessageSize(Producer) - progress[Producer]
         count == Min({Available, Chunks(rest)})
     IN /\ stage' = [s \in Slots |->
                       LET own == {i \in 1 .. count : ChunkSlot(i) = s} IN
                       IF own = {} THEN stage[s] ELSE ChunkAt(at, rest, Max(own))]
        /\ wire' = [wire EXCEPT ![Producer] =
                      @ \o [i \in 1 .. count |->
                              [op |-> "data", slot |-> ChunkSlot(i), len |-> ChunkAt(at, rest, i).len,
                               from |-> ChunkAt(at, rest, i).from, seq |-> sendSeq + i - 1,
                               signaled |-> i = count]]]
        /\ sendSeq' = sendSeq + count
        /\ Return(Producer, progress[Producer] + Min({count * SlotSize, rest}))
  /\ UNCHANGED <<plan, active, batch, controlDone, recvs, cq, armed, events, credits, recvVars>>

\* The bytes a memcpy of n bytes from the oldest slot hands over.
SlotBytes(n) ==
  [i \in 1 .. n |-> slots[arrHead % SlotCount].from + arrOffset + i - 1]

\* One round of TryRecv's loop: copy from the oldest arrival.
RecvCopy ==
  /\ pc[Consumer] = "move" /\ batch[Consumer] > 0
  /\ progress[Consumer] < MessageSize(Consumer) /\ arrHead /= arrTail
  /\ LET length == arrLen[arrHead % SlotCount]
         chunk  == Min({length - arrOffset, MessageSize(Consumer) - progress[Consumer]})
         whole  == arrOffset + chunk = length
     IN /\ received' = received \o SlotBytes(chunk)
        /\ progress' = [progress EXCEPT ![Consumer] = @ + chunk]
        /\ arrOffset' = IF whole THEN 0 ELSE arrOffset + chunk
        /\ arrHead' = IF whole THEN arrHead + 1 ELSE arrHead
        /\ pending' = IF whole THEN pending + 1 ELSE pending
  /\ UNCHANGED <<plan, active, pc, batch, controlDone, cardVars, sendVars, slots, arrTail, arrLen>>

\* Credits go back by the batch, or when no arrival is left to read.
CreditDue == pending >= CreditBatch \/ (pending > 0 /\ arrHead = arrTail)

\* Mutant: pending_credit is not reset.
CreditKept == pending

\* pending_credit after the call.
CreditLeft == IF CreditDue THEN 0 ELSE pending

\* After the loop: PostCredit if due, then return.
RecvReturn ==
  /\ pc[Consumer] = "move" /\ batch[Consumer] > 0
  /\ progress[Consumer] = MessageSize(Consumer) \/ arrHead = arrTail
  /\ wire' = IF CreditDue
             THEN [wire EXCEPT ![Consumer] = Append(@, [op |-> "credit", slot |-> 0, len |-> pending,
                                                        from |-> -1, seq |-> -1, signaled |-> TRUE])]
             ELSE wire
  /\ pending' = CreditLeft
  /\ Return(Consumer, progress[Consumer])
  /\ UNCHANGED <<plan, active, batch, controlDone, recvs, cq, armed, events, sendVars,
                 slots, arrHead, arrTail, arrOffset, arrLen, received>>

\* The completion channel is readable: the call is made again.
Wake(e) ==
  /\ pc[e] = "parked" /\ events[e] > 0
  /\ pc' = [pc EXCEPT ![e] = "drain"]
  /\ UNCHANGED <<plan, active, batch, progress, controlDone, cardVars, sendVars, recvVars>>

\* WaitFlag's 10 ms are over, or another edge of the task woke the executor.
Repush(e) ==
  /\ pc[e] = "parked" /\ events[e] = 0
  /\ pc' = [pc EXCEPT ![e] = "drain"]
  /\ UNCHANGED <<plan, active, batch, progress, controlDone, cardVars, sendVars, recvVars>>

-----------------------------------------------------------------------------
\* Both ends have moved their last message.
AllDone == \A e \in Ends : pc[e] = "idle" /\ batch[e] = Len(plan)

\* Nothing more to run: the processes idle.
Finished == AllDone /\ UNCHANGED vars

EndStep(e) ==
  \/ Handshake(e) \/ DrainEvent(e) \/ Rearm(e) \/ Poll(e) \/ PollEmpty(e)
  \/ FlagSeen(e) \/ Begin(e) \/ Wake(e)
  \/ e = Producer /\ SendMove
  \/ e = Consumer /\ (RecvCopy \/ RecvReturn)

Next ==
  \/ \E e \in Ends : EndStep(e) \/ Execute(e) \/ Repush(e)
  \/ Finished

Spec == Init /\ [][Next]_vars

\* The card executes what is posted, the scheduler runs both
\* processes.  A wake by another edge, or by WaitFlag's tick, is not owed.
Fairness ==
  \A e \in Ends : WF_vars(EndStep(e)) /\ WF_vars(Execute(e))

FairSpec == Spec /\ Fairness

-----------------------------------------------------------------------------
\* Every variable stays in its type; no receive entry is posted twice.
TypeOK ==
  /\ plan \in Plans
  /\ active \in Ends
  /\ pc \in [Ends -> {"start", "drain", "arm", "poll", "move", "parked", "idle"}]
  /\ batch \in [Ends -> 0 .. Len(plan)]
  /\ progress \in [Ends -> Nat]
  /\ controlDone \in [Ends -> BOOLEAN]
  /\ wire \in [Ends -> Seq(Request)]
  /\ recvs \in [Ends -> 0 .. RecvPool]
  /\ cq \in [Ends -> Seq(Completion)]
  /\ armed \in [Ends -> BOOLEAN]
  /\ events \in [Ends -> Nat]
  /\ stage \in [Slots -> Content] /\ slots \in [Slots -> Content]
  /\ sendSeq \in Nat /\ credits \in Nat
  /\ arrHead \in Nat /\ arrTail \in Nat /\ arrOffset \in Nat /\ pending \in Nat
  /\ arrLen \in [Slots -> Nat]
  /\ received \in Seq(Int)

\* The slots a request or completion stands for: a data write takes one, a
\* credit gives back as many as it says.
Holds(q) == CASE q.op = "data" -> 1 [] q.op = "credit" -> q.len [] OTHER -> 0

\* The slots a queue of them stands for.
SlotsIn(queue) == Total([i \in DOMAIN queue |-> Holds(queue[i])])

\* Slots, credits and messages stay in step (transport_rdma.cpp:732): every
\* slot the sender counts as taken is in flight, unread, or on its way back
\* as a credit, once each, and there are never more of them than slots.
CreditConserved ==
  /\ sendSeq - credits =
       SlotsIn(wire[Producer]) + SlotsIn(cq[Consumer])
       + (arrTail - arrHead) + pending
       + SlotsIn(wire[Consumer]) + SlotsIn(cq[Producer])
  /\ sendSeq - credits \in 0 .. SlotCount

\* A credit implies that the slot was read on both sides (the reason why the
\* completions of writes are ignored, transport_rdma.cpp:600): a posted write
\* still finds its bytes in the sender's slot, and a completed one keeps them
\* in the receiver's slot until they were copied out.
SlotIntact ==
  /\ \A i \in DOMAIN wire[Producer] :
       LET wr == wire[Producer][i] IN
       wr.op = "data" => stage[wr.slot] = [from |-> wr.from, len |-> wr.len]
  /\ \A i \in DOMAIN cq[Consumer] :
       LET c == cq[Consumer][i] IN
       c.op = "data" => slots[c.slot] = [from |-> c.from, len |-> c.len]
  /\ \A k \in arrHead .. arrTail - 1 : slots[k % SlotCount].len = arrLen[k % SlotCount]

\* Every posted request will find a receive entry at the other end, so the
\* accepting side's rnr_retry_count of 0 (transport_rdma.cpp:245) never bites.
ReceiveReady == \A e \in Ends : Len(wire[e]) <= recvs[Other(e)]

\* An end that sleeps on its completion channel sleeps on an empty queue, or
\* has an event to read (transport_rdma.cpp:554: drain, re-arm, then poll).
NoLostWakeup ==
  \A e \in Ends : pc[e] = "parked" /\ cq[e] /= << >> => events[e] > 0

\* A receiver that waits holds no credit back, and one between two messages
\* less than a batch (transport_rdma.cpp:777).
NoStrandedCredit ==
  /\ pc[Consumer] = "parked" => pending = 0
  /\ pc[Consumer] = "idle" => pending < CreditBatch

\* The slots and the receive entries a request relies on are there when the
\* card executes it, and no credit is stranded at a receiver that sleeps.
SlotsReady == TypeOK /\ SlotIntact /\ ReceiveReady /\ NoStrandedCredit

\* TransportRDMA implements the byte channel its users rely on.
Channel ==
  INSTANCE ByteChannel
    WITH Capacity <- SlotCount * SlotSize,
         sent <- IF batch[Producer] = 0 THEN 0
                 ELSE StartOf(plan, batch[Producer]) + progress[Producer]

ImplementsChannel == Channel!ChannelSpec

\* Every message is eventually delivered and both executors return.
Completes == <>AllDone
=============================================================================
