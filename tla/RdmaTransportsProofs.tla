------------------------- MODULE RdmaTransportsProofs -------------------------
(***************************************************************************)
(* Proofs about the two data paths of the RDMA transports, in every        *)
(* behaviour of module RdmaTransports.                                     *)
(*                                                                         *)
(* The credit ring of TransportRDMA, for every number and size of slots,   *)
(* every credit batch, every receive pool larger than the ring and every   *)
(* plan of messages and wait modes.  The properties the runs check are not *)
(* inductive.  What makes them hold:                                       *)
(*   - CountInv splits the balance of credits in two: slots sent and not   *)
(*     arrived travel one way, slots read and not credited the other;      *)
(*   - FlightInv: the data writes in flight carry the numbers arrTail ..   *)
(*     sendSeq - 1, each once and in order, so the receiver's own count    *)
(*     names the slot although it ignores the one in the immediate;        *)
(*   - SlotInv and StreamInv: less than SlotCount numbers are outstanding, *)
(*     so each has a slot of its own (SlotUnique), and the slots in order  *)
(*     hold the stream from the receiver's place to what was accepted;     *)
(*   - EntryInv and ControlInv count the receive entries: one for each     *)
(*     slot travelling and one for the control message;                    *)
(*   - WakeInv, kept apart, is the order drain, re-arm, poll.              *)
(* A queue is counted by Weight(q, h), the sum of h over its members.      *)
(*                                                                         *)
(* The zero-copy path of TransportRDMAZc, for every list of messages,      *)
(* window, threshold, pair of chunk sizes and number of failures:          *)
(* BufferOwned and ZcExact.  Neither is inductive: nothing in the messages *)
(* tells the two ends that the RECV a SEND meets is for the same chunk of  *)
(* the same message.  What does is a count: the chunks of each message in  *)
(* the receiver's buffer are the ones each end has posted and the card has *)
(* taken from its queue (Executed).                                        *)
(* A failed or aborted call ends the count for the message it leaves and   *)
(* those behind it, at both ends: what the other end posts from then on    *)
(* may meet what was left behind.  So the count is kept for the messages   *)
(* before the first failure (Settled), and apart from it what each end     *)
(* knows by itself (Counted, Behind, AtMessage): requests left behind stay *)
(* in front of those of later messages, and an end that holds a transfer   *)
(* has handled no more completions than it has posted.  An end that has    *)
(* posted a chain in part (torn) no longer knows even that.                *)
(***************************************************************************)
EXTENDS RdmaTransports, ProofLemmas, WellFoundedInduction

-----------------------------------------------------------------------------
(* The invariant of the credit ring *)

\* What TrySend has accepted so far.
Sent == IF batch[Producer] = 0 THEN 0 ELSE StartOf(plan, batch[Producer]) + progress[Producer]

\* What a queue can hold, and what a member of it counts for: slots, receive
\* entries, control messages.
Item == Request \cup Completion
HoldsOf == [x \in Item |-> Holds(x)]
EntryOf == [x \in Item |-> Repost(x)]
ControlOf == [x \in Item |-> IF x.op = "control" THEN 1 ELSE 0]

\* A receive entry is posted, or its completion is still in the queue.
EntryInv ==
  \A e \in Ends : \A c \in {cq[e]} : recvs[e] + Weight(c, EntryOf) = RecvPool

\* One control message from each end, and none before it started.
ControlInv ==
  \A e \in Ends : \A w \in {wire[e]}, c \in {cq[Other(e)]} :
    /\ Weight(w, ControlOf) + Weight(c, ControlOf) <= 1
    /\ pc[e] = "start" => Weight(w, ControlOf) + Weight(c, ControlOf) = 0

\* What travels which way; a credit gives back at least one slot.
KindInv ==
  /\ \A i \in DOMAIN wire[Producer] : wire[Producer][i].op \in {"data", "control"}
  /\ \A i \in DOMAIN wire[Consumer] : wire[Consumer][i].op \in {"credit", "control"}
  /\ \A i \in DOMAIN cq[Consumer] : cq[Consumer][i].op # "credit"
  /\ \A i \in DOMAIN cq[Producer] : cq[Producer][i].op # "data"
  /\ \A i \in DOMAIN wire[Consumer] : wire[Consumer][i].op = "credit" => wire[Consumer][i].len >= 1
  /\ \A i \in DOMAIN cq[Producer] : cq[Producer][i].op = "credit" => cq[Producer][i].len >= 1

\* The slots taken are in flight or arrived; the slots freed are held back,
\* on their way or credited.
CountInv ==
  /\ \A w \in {wire[Producer]}, c \in {cq[Consumer]} :
       sendSeq - arrTail = Weight(w, HoldsOf) + Weight(c, HoldsOf)
  /\ \A w \in {wire[Consumer]}, c \in {cq[Producer]} :
       arrHead - credits = pending + Weight(w, HoldsOf) + Weight(c, HoldsOf)
  /\ arrHead <= arrTail
  /\ sendSeq - credits <= SlotCount

\* The data writes in flight carry the numbers from arrTail to sendSeq - 1,
\* each once and in order, completed ones first.
InFlight(q) == {i \in DOMAIN q : q[i].op = "data"}

FlightInv ==
  /\ \A i \in InFlight(wire[Producer]) : wire[Producer][i].seq \in arrTail .. sendSeq - 1
  /\ \A i \in InFlight(cq[Consumer]) : cq[Consumer][i].seq \in arrTail .. sendSeq - 1
  /\ \A i, j \in InFlight(wire[Producer]) : i < j => wire[Producer][i].seq < wire[Producer][j].seq
  /\ \A i, j \in InFlight(cq[Consumer]) : i < j => cq[Consumer][i].seq < cq[Consumer][j].seq
  /\ \A i \in InFlight(cq[Consumer]), j \in InFlight(wire[Producer]) :
       cq[Consumer][i].seq < wire[Producer][j].seq
  /\ \A k \in arrTail .. sendSeq - 1 :
       \/ \E i \in InFlight(wire[Producer]) : wire[Producer][i].seq = k
       \/ \E i \in InFlight(cq[Consumer]) : cq[Consumer][i].seq = k

\* A data write finds its bytes in the sender's slot of its number, the
\* receiver's slot has them once it completed, and keeps them until read.
SlotInv ==
  /\ \A i \in InFlight(wire[Producer]) :
       /\ wire[Producer][i].slot = wire[Producer][i].seq % SlotCount
       /\ stage[wire[Producer][i].slot] = [from |-> wire[Producer][i].from, len |-> wire[Producer][i].len]
  /\ \A i \in InFlight(cq[Consumer]) :
       /\ cq[Consumer][i].slot = cq[Consumer][i].seq % SlotCount
       /\ stage[cq[Consumer][i].slot] = [from |-> cq[Consumer][i].from, len |-> cq[Consumer][i].len]
       /\ slots[cq[Consumer][i].slot] = stage[cq[Consumer][i].slot]
  /\ \A k \in arrHead .. arrTail - 1 :
       slots[k % SlotCount] = stage[k % SlotCount] /\ arrLen[k % SlotCount] = stage[k % SlotCount].len

\* The unread slots, in order, are the stream up to what was accepted.
StreamInv ==
  \A k \in arrHead .. sendSeq - 1 :
    /\ stage[k % SlotCount].from \in Nat /\ stage[k % SlotCount].len \in 1 .. SlotSize
    /\ k = sendSeq - 1 => stage[k % SlotCount].from + stage[k % SlotCount].len = Sent
    /\ k < sendSeq - 1 => stage[k % SlotCount].from + stage[k % SlotCount].len = stage[(k + 1) % SlotCount].from
    /\ stage[k % SlotCount].from + stage[k % SlotCount].len <= Sent
    /\ Sent <= stage[k % SlotCount].from + (sendSeq - k) * SlotSize

\* The receiver has the stream up to its place in the oldest unread slot.
ReceivedInv ==
  /\ \A i \in DOMAIN received : received[i] = i - 1
  /\ arrHead = sendSeq => Len(received) = Sent
  /\ arrHead < sendSeq => Len(received) = stage[arrHead % SlotCount].from + arrOffset
  /\ arrHead < arrTail => arrOffset < stage[arrHead % SlotCount].len
  /\ arrHead = arrTail => arrOffset = 0

\* How far each end is in its message.
CallInv ==
  /\ \A e \in Ends : batch[e] > 0 => progress[e] <= MessageSize(e)
  /\ \A e \in Ends : batch[e] > 0 /\ pc[e] = "idle" => progress[e] = MessageSize(e)
  /\ \A e \in Ends : pc[e] = "start" => batch[e] = 0
  /\ batch[Consumer] = 0 => pending = 0

\* A queue that is not empty has raised an event since the last drain, or is
\* about to be looked at.
WakeInv ==
  /\ \A e \in Ends : armed[e] \/ events[e] > 0 \/ pc[e] = "arm"
  /\ \A e \in Ends : pc[e] \in {"move", "parked"} /\ cq[e] # << >> => events[e] > 0

IInv ==
  /\ TypeOK /\ EntryInv /\ ControlInv /\ KindInv /\ CountInv /\ FlightInv /\ SlotInv
  /\ StreamInv /\ ReceivedInv /\ CallInv /\ NoStrandedCredit

-----------------------------------------------------------------------------
(* The constants, the plan and the weights.                                 *)

\* The code's sizes are positive and a slot number is below the slot count.
LEMMA Sizes ==
  /\ SlotCount \in Nat \ {0} /\ SlotSize \in Nat \ {0} /\ RecvPool \in Nat /\ RecvPool > SlotCount
  /\ CreditBatch \in Nat \ {0}
  /\ \A k \in Nat : k % SlotCount \in Slots
BY RdmaAssumption DEF Slots

\* A message of the plan ends after it starts.
LEMMA PlanFacts ==
  ASSUME plan \in Plans
  PROVE  /\ plan \in Seq(Message) /\ Len(plan) \in Nat
         /\ \A b \in 1 .. Len(plan) :
              /\ StartOf(plan, b) \in Nat /\ plan[b].end \in Nat
              /\ StartOf(plan, b) < plan[b].end
<1>1. plan \in Seq(Message) /\ \A b \in DOMAIN plan : StartOf(plan, b) < plan[b].end
  BY RdmaAssumption DEF IsPlan
<1>2. DOMAIN plan = 1 .. Len(plan) /\ Len(plan) \in Nat
  BY <1>1
<1>3. \A b \in 1 .. Len(plan) : plan[b] \in Message
  BY <1>1, ElementOfSeq
<1>4. \A b \in 1 .. Len(plan) : plan[b].end \in Nat
  BY <1>3 DEF Message
<1>5. \A b \in 1 .. Len(plan) : StartOf(plan, b) \in Nat
  <2> SUFFICES ASSUME NEW b \in 1 .. Len(plan), b # 1 PROVE plan[b - 1].end \in Nat
    BY DEF StartOf
  <2>1. b - 1 \in 1 .. Len(plan)
    BY <1>2
  <2> QED BY <2>1, <1>4
<1> QED BY <1>1, <1>2, <1>4, <1>5

\* MessageSize(e) is positive while e is at a message.
LEMMA MessageFacts ==
  ASSUME plan \in Plans, batch \in [Ends -> 0 .. Len(plan)]
  PROVE  \A e \in Ends : batch[e] > 0 =>
           /\ batch[e] \in 1 .. Len(plan)
           /\ StartOf(plan, batch[e]) \in Nat /\ MessageSize(e) \in Nat \ {0}
           /\ StartOf(plan, batch[e]) + MessageSize(e) = plan[batch[e]].end
<1> SUFFICES ASSUME NEW e \in Ends, batch[e] > 0
             PROVE  /\ batch[e] \in 1 .. Len(plan)
                    /\ StartOf(plan, batch[e]) \in Nat /\ MessageSize(e) \in Nat \ {0}
                    /\ StartOf(plan, batch[e]) + MessageSize(e) = plan[batch[e]].end
  OBVIOUS
<1>1. Len(plan) \in Nat
  BY PlanFacts
<1>2. batch[e] \in 0 .. Len(plan)
  OBVIOUS
<1>3. batch[e] \in 1 .. Len(plan)
  BY <1>1, <1>2
<1>4. /\ StartOf(plan, batch[e]) \in Nat /\ plan[batch[e]].end \in Nat
      /\ StartOf(plan, batch[e]) < plan[batch[e]].end
  BY <1>3, PlanFacts
<1> QED BY <1>3, <1>4 DEF MessageSize

\* The two ends.
LEMMA EndFacts ==
  /\ Producer \in Ends /\ Consumer \in Ends /\ Producer # Consumer
  /\ \A e \in Ends : e = Producer \/ e = Consumer
  /\ \A e \in Ends : Other(e) \in Ends /\ Other(e) # e /\ Other(Other(e)) = e
  /\ Other(Producer) = Consumer /\ Other(Consumer) = Producer
BY DEF Ends, Producer, Consumer, Other

Measures == {HoldsOf, EntryOf, ControlOf}

\* What an entry of a queue weighs.
LEMMA ItemFacts ==
  /\ Measures \subseteq [Item -> Nat]
  /\ \A x \in Item : /\ HoldsOf[x] = Holds(x) /\ EntryOf[x] = Repost(x)
                     /\ ControlOf[x] = IF x.op = "control" THEN 1 ELSE 0
  /\ Seq(Request) \subseteq Seq(Item) /\ Seq(Completion) \subseteq Seq(Item)
<1>1. ASSUME NEW x \in Item PROVE Holds(x) \in Nat /\ Repost(x) \in Nat
  BY DEF Item, Request, Completion, Holds, Repost
<1>2. Seq(Request) \subseteq Seq(Item) /\ Seq(Completion) \subseteq Seq(Item)
  BY SeqMonotonic DEF Item
<1> QED BY <1>1, <1>2 DEF Measures, HoldsOf, EntryOf, ControlOf

\* Weights of queues are naturals and add up.
LEMMA QueueWeights ==
  \A h \in Measures :
    /\ \A q \in Seq(Item) : Weight(q, h) \in Nat
    /\ \A q, r \in Seq(Item) : Weight(q \o r, h) = Weight(q, h) + Weight(r, h)
    /\ \A q \in Seq(Item) : q # << >> => Weight(q, h) = h[Head(q)] + Weight(Tail(q), h)
    /\ \A x \in Item : Weight(<<x>>, h) = h[x]
    /\ \A q \in Seq(Item), x \in Item : Weight(Append(q, x), h) = Weight(q, h) + h[x]
    /\ Weight(<< >>, h) = 0
<1> SUFFICES ASSUME NEW h \in Measures
             PROVE  /\ \A q \in Seq(Item) : Weight(q, h) \in Nat
                    /\ \A q, r \in Seq(Item) : Weight(q \o r, h) = Weight(q, h) + Weight(r, h)
                    /\ \A q \in Seq(Item) : q # << >> => Weight(q, h) = h[Head(q)] + Weight(Tail(q), h)
                    /\ \A x \in Item : Weight(<<x>>, h) = h[x]
                    /\ \A q \in Seq(Item), x \in Item : Weight(Append(q, x), h) = Weight(q, h) + h[x]
                    /\ Weight(<< >>, h) = 0
  OBVIOUS
<1>1. h \in [Item -> Nat]
  BY ItemFacts
<1>2. \A q \in Seq(Item) : Weight(q, h) \in Nat
  BY <1>1, WeightConcat
<1>3. \A q, r \in Seq(Item) : Weight(q \o r, h) = Weight(q, h) + Weight(r, h)
  BY <1>1, WeightConcat
<1>4. \A q \in Seq(Item) : q # << >> => Weight(q, h) = h[Head(q)] + Weight(Tail(q), h)
  BY <1>1, WeightTail
<1>5. \A x \in Item : Weight(<<x>>, h) = h[x]
  BY <1>1, WeightSingle
<1>6. Weight(<< >>, h) = 0
  BY TotalEmpty DEF Weight
<1>7. \A q \in Seq(Item), x \in Item : Weight(Append(q, x), h) = Weight(q, h) + h[x]
  <2> SUFFICES ASSUME NEW q \in Seq(Item), NEW x \in Item PROVE Weight(Append(q, x), h) = Weight(q, h) + h[x]
    OBVIOUS
  <2>1. Append(q, x) = q \o <<x>> /\ <<x>> \in Seq(Item)
    OBVIOUS
  <2> QED BY <2>1, <1>3, <1>5
<1> QED BY <1>2, <1>3, <1>4, <1>5, <1>6, <1>7

\* SlotsIn is the weight that HoldsOf gives.
LEMMA SlotsInIs ==
  \A q \in Seq(Item) : SlotsIn(q) = Weight(q, HoldsOf)
<1> SUFFICES ASSUME NEW q \in Seq(Item) PROVE SlotsIn(q) = Weight(q, HoldsOf)
  OBVIOUS
<1>1. \A i \in DOMAIN q : q[i] \in Item
  OBVIOUS
<1>2. [i \in DOMAIN q |-> Holds(q[i])] = [i \in DOMAIN q |-> HoldsOf[q[i]]]
  BY <1>1, ItemFacts
<1> QED BY <1>2 DEF SlotsIn, Weight

-----------------------------------------------------------------------------
(* What each part of the invariant depends on.                              *)

\* A part of the invariant holds after a step that leaves its variables alone.
LEMMA Stable ==
  /\ EntryInv /\ cq' = cq /\ recvs' = recvs => EntryInv'
  /\ KindInv /\ wire' = wire /\ cq' = cq => KindInv'
  /\ CountInv /\ UNCHANGED <<wire, cq, sendSeq, credits, arrHead, arrTail, pending>> => CountInv'
  /\ FlightInv /\ UNCHANGED <<wire, cq, sendSeq, arrTail>> => FlightInv'
  /\ SlotInv /\ UNCHANGED <<wire, cq, stage, slots, arrHead, arrTail, arrLen>> => SlotInv'
  /\ StreamInv /\ UNCHANGED <<stage, sendSeq, arrHead>> /\ Sent' = Sent => StreamInv'
  /\ ReceivedInv /\ UNCHANGED <<stage, sendSeq, arrHead, arrTail, arrOffset, received>> /\ Sent' = Sent
       => ReceivedInv'
<1>1. EntryInv /\ cq' = cq /\ recvs' = recvs => EntryInv'
  BY DEF EntryInv
<1>2. KindInv /\ wire' = wire /\ cq' = cq => KindInv'
  BY DEF KindInv
<1>3. CountInv /\ UNCHANGED <<wire, cq, sendSeq, credits, arrHead, arrTail, pending>> => CountInv'
  BY DEF CountInv
<1>4. FlightInv /\ UNCHANGED <<wire, cq, sendSeq, arrTail>> => FlightInv'
  BY DEF FlightInv, InFlight
<1>5. SlotInv /\ UNCHANGED <<wire, cq, stage, slots, arrHead, arrTail, arrLen>> => SlotInv'
  BY DEF SlotInv, InFlight
<1>6. StreamInv /\ UNCHANGED <<stage, sendSeq, arrHead>> /\ Sent' = Sent => StreamInv'
  BY DEF StreamInv
<1>7. ReceivedInv /\ UNCHANGED <<stage, sendSeq, arrHead, arrTail, arrOffset, received>> /\ Sent' = Sent
       => ReceivedInv'
  BY DEF ReceivedInv
<1> QED BY <1>1, <1>2, <1>3, <1>4, <1>5, <1>6, <1>7

\* SetupResources leaves both ends with empty queues and a full receive pool.
LEMMA InitInv == Init => IInv
<1> SUFFICES ASSUME Init PROVE IInv
  OBVIOUS
<1> USE DEF Init
<1>0. Len(plan) \in Nat
  BY PlanFacts
<1>1. TypeOK
  <2>1. /\ plan \in Plans /\ active \in Ends
        /\ pc \in [Ends -> {"start", "drain", "arm", "poll", "move", "parked", "idle"}]
        /\ progress \in [Ends -> Nat] /\ controlDone \in [Ends -> BOOLEAN]
    OBVIOUS
  <2>2. batch \in [Ends -> 0 .. Len(plan)]
    BY <1>0
  <2>3. wire \in [Ends -> Seq(Request)] /\ cq \in [Ends -> Seq(Completion)] /\ received \in Seq(Int)
    BY EmptySeq
  <2>4. recvs \in [Ends -> 0 .. RecvPool] /\ armed \in [Ends -> BOOLEAN] /\ events \in [Ends -> Nat]
    BY Sizes
  <2>5. stage \in [Slots -> Content] /\ slots \in [Slots -> Content] /\ arrLen \in [Slots -> Nat]
    BY DEF Content, Empty
  <2> QED BY <2>1, <2>2, <2>3, <2>4, <2>5 DEF TypeOK
<1>2. EntryInv
  BY QueueWeights, Sizes DEF EntryInv, Measures
<1>3. ControlInv
  BY QueueWeights, EndFacts DEF ControlInv, Measures
<1>4. KindInv
  BY EndFacts DEF KindInv
<1>5. CountInv
  <2>1. wire[Producer] = << >> /\ wire[Consumer] = << >> /\ cq[Producer] = << >> /\ cq[Consumer] = << >>
    BY EndFacts
  <2>2. Weight(<< >>, HoldsOf) = 0
    BY QueueWeights DEF Measures
  <2>3. sendSeq = 0 /\ credits = 0 /\ arrHead = 0 /\ arrTail = 0 /\ pending = 0
    OBVIOUS
  <2>4. sendSeq - arrTail = 0 /\ arrHead - credits = 0 /\ arrHead <= arrTail /\ sendSeq - credits = 0 /\ pending + 0 + 0 = 0
    BY <2>3
  <2>5. sendSeq - credits <= SlotCount
    BY <2>4, Sizes
  <2> QED BY ONLY <2>1, <2>2, <2>4, <2>5 DEF CountInv
<1>6. FlightInv /\ SlotInv
  BY EndFacts DEF FlightInv, SlotInv, InFlight
<1>7. StreamInv /\ ReceivedInv
  BY EndFacts DEF StreamInv, ReceivedInv, Sent
<1>8. CallInv /\ NoStrandedCredit
  BY EndFacts, Sizes DEF CallInv, NoStrandedCredit
<1> QED BY <1>1, <1>2, <1>3, <1>4, <1>5, <1>6, <1>7, <1>8 DEF IInv

\* An entry that is no data write leaves the data in flight as it was.
LEMMA AppendSame ==
  ASSUME NEW S, NEW q \in Seq(S), NEW x \in S, x.op # "data"
  PROVE  /\ InFlight(Append(q, x)) = InFlight(q)
         /\ \A i \in InFlight(q) : Append(q, x)[i] = q[i]
BY DEF InFlight

\* The parts about data in flight depend on the data writes only.
LEMMA FlightSame ==
  ASSUME FlightInv, SlotInv, UNCHANGED <<sendSeq, arrTail, stage, slots, arrHead, arrLen>>,
         {i \in DOMAIN wire'[Producer] : wire'[Producer][i].op = "data"} = InFlight(wire[Producer]),
         \A i \in InFlight(wire[Producer]) : wire'[Producer][i] = wire[Producer][i],
         {i \in DOMAIN cq'[Consumer] : cq'[Consumer][i].op = "data"} = InFlight(cq[Consumer]),
         \A i \in InFlight(cq[Consumer]) : cq'[Consumer][i] = cq[Consumer][i]
  PROVE  FlightInv' /\ SlotInv'
<1> DEFINE W == InFlight(wire[Producer])
           C == InFlight(cq[Consumer])
<1>1. InFlight(wire[Producer])' = W /\ InFlight(cq[Consumer])' = C
  BY DEF InFlight
<1>2. FlightInv'
  <2>1. /\ \A i \in W : wire'[Producer][i].seq \in arrTail' .. sendSeq' - 1
        /\ \A i \in C : cq'[Consumer][i].seq \in arrTail' .. sendSeq' - 1
        /\ \A i, j \in W : i < j => wire'[Producer][i].seq < wire'[Producer][j].seq
        /\ \A i, j \in C : i < j => cq'[Consumer][i].seq < cq'[Consumer][j].seq
        /\ \A i \in C, j \in W : cq'[Consumer][i].seq < wire'[Producer][j].seq
        /\ \A k \in arrTail' .. sendSeq' - 1 :
             \/ \E i \in W : wire'[Producer][i].seq = k
             \/ \E i \in C : cq'[Consumer][i].seq = k
    BY DEF FlightInv
  <2> HIDE DEF W, C
  <2> QED BY <1>1, <2>1 DEF FlightInv
<1>3. SlotInv'
  <2>1. /\ \A i \in W :
             /\ wire'[Producer][i].slot = wire'[Producer][i].seq % SlotCount
             /\ stage'[wire'[Producer][i].slot] = [from |-> wire'[Producer][i].from, len |-> wire'[Producer][i].len]
        /\ \A i \in C :
             /\ cq'[Consumer][i].slot = cq'[Consumer][i].seq % SlotCount
             /\ stage'[cq'[Consumer][i].slot] = [from |-> cq'[Consumer][i].from, len |-> cq'[Consumer][i].len]
             /\ slots'[cq'[Consumer][i].slot] = stage'[cq'[Consumer][i].slot]
        /\ \A k \in arrHead' .. arrTail' - 1 :
             slots'[k % SlotCount] = stage'[k % SlotCount] /\ arrLen'[k % SlotCount] = stage'[k % SlotCount].len
    BY DEF SlotInv
  <2> HIDE DEF W, C
  <2> QED BY <1>1, <2>1 DEF SlotInv
<1> QED BY <1>2, <1>3

\* The cursors of both ends, in order, within a ring of each other.
LEMMA Bounds ==
  ASSUME TypeOK, CountInv
  PROVE  /\ sendSeq \in Nat /\ credits \in Nat /\ arrHead \in Nat /\ arrTail \in Nat /\ pending \in Nat
         /\ credits + pending <= arrHead /\ arrHead <= arrTail /\ arrTail <= sendSeq
         /\ sendSeq <= credits + SlotCount
<1>1. sendSeq \in Nat /\ credits \in Nat /\ arrHead \in Nat /\ arrTail \in Nat /\ pending \in Nat
  BY DEF TypeOK
<1>2. \A e \in Ends : wire[e] \in Seq(Item) /\ cq[e] \in Seq(Item)
  BY ItemFacts DEF TypeOK
<1>3. \A e \in Ends : Weight(wire[e], HoldsOf) \in Nat /\ Weight(cq[e], HoldsOf) \in Nat
  BY <1>2, QueueWeights DEF Measures
<1>4. /\ sendSeq - arrTail = Weight(wire[Producer], HoldsOf) + Weight(cq[Consumer], HoldsOf)
      /\ arrHead - credits = pending + Weight(wire[Consumer], HoldsOf) + Weight(cq[Producer], HoldsOf)
      /\ arrHead <= arrTail /\ sendSeq - credits <= SlotCount
  BY DEF CountInv
<1> QED BY <1>1, <1>3, <1>4, EndFacts, Sizes

\* Slots of numbers less than a ring apart are different.
LEMMA SlotUnique ==
  ASSUME NEW j \in Nat, NEW k \in Nat, j < k, k - j < SlotCount
  PROVE  j % SlotCount # k % SlotCount
BY Sizes, ModUnique

-----------------------------------------------------------------------------
(* One lemma per action.                                                    *)

\* The steps that only move an end along: drain, re-arm, the end of
\* ProcessCompletions, WaitFlag's look at its flag, waking up.
LEMMA MoveOnInv ==
  ASSUME IInv, NEW e \in Ends,
         DrainEvent(e) \/ Rearm(e) \/ PollEmpty(e) \/ FlagSeen(e) \/ Wake(e) \/ Repush(e)
  PROVE  IInv'
<1>0. /\ TypeOK /\ EntryInv /\ ControlInv /\ KindInv /\ CountInv /\ FlightInv /\ SlotInv
      /\ StreamInv /\ ReceivedInv /\ CallInv /\ NoStrandedCredit
  BY DEF IInv
<1>1. /\ UNCHANGED <<plan, active, batch, progress, controlDone, wire, recvs, cq, sendVars, recvVars>>
      /\ pc[e] # "start"
      /\ \E x \in {"drain", "arm", "poll", "move", "parked", "idle"} :
           pc' = [pc EXCEPT ![e] = x] /\ (x \in {"parked", "idle"} => batch[e] = 0)
  BY <1>0 DEF DrainEvent, Rearm, PollEmpty, FlagSeen, Wake, Repush, cardVars, TypeOK
<1> USE DEF sendVars, recvVars
<1>2. TypeOK'
  <2>1. armed' \in [Ends -> BOOLEAN]
    BY <1>0 DEF DrainEvent, Rearm, PollEmpty, FlagSeen, Wake, Repush, cardVars, TypeOK
  <2>2. events' \in [Ends -> Nat]
    <3>1. events' = events \/ (events[e] > 0 /\ events' = [events EXCEPT ![e] = @ - 1])
      BY DEF DrainEvent, Rearm, PollEmpty, FlagSeen, Wake, Repush, cardVars
    <3>2. events \in [Ends -> Nat]
      BY <1>0 DEF TypeOK
    <3> QED BY <3>1, <3>2
  <2>3. pc' \in [Ends -> {"start", "drain", "arm", "poll", "move", "parked", "idle"}]
    BY <1>0, <1>1 DEF TypeOK
  <2> QED BY <2>1, <2>2, <2>3, <1>0, <1>1 DEF TypeOK
<1>3. Sent' = Sent
  BY <1>1 DEF Sent
<1>4. EntryInv' /\ KindInv' /\ CountInv' /\ FlightInv' /\ SlotInv' /\ StreamInv' /\ ReceivedInv'
  BY <1>0, <1>1, <1>3, Stable
<1>5. ControlInv'
  <2>1. \A f \in Ends : pc'[f] = "start" => pc[f] = "start"
    BY <1>0, <1>1 DEF TypeOK
  <2> QED BY <1>0, <1>1, <2>1 DEF ControlInv
<1>6. CallInv' /\ NoStrandedCredit'
  <2>1. \A f \in Ends : MessageSize(f)' = MessageSize(f)
    BY <1>1 DEF MessageSize
  <2>2. \A f \in Ends : \/ pc'[f] = pc[f]
                       \/ pc'[f] \notin {"start", "parked", "idle"}
                       \/ (pc'[f] \in {"parked", "idle"} /\ batch[f] = 0)
    <3>1. PICK x \in {"drain", "arm", "poll", "move", "parked", "idle"} :
            pc' = [pc EXCEPT ![e] = x] /\ (x \in {"parked", "idle"} => batch[e] = 0)
      BY <1>1
    <3>2. pc'[e] = x /\ \A f \in Ends : f # e => pc'[f] = pc[f]
      BY <3>1, <1>0 DEF TypeOK
    <3>3. x \notin {"start", "parked", "idle"} \/ (x \in {"parked", "idle"} /\ batch[e] = 0)
      BY <3>1
    <3> QED BY <3>2, <3>3
  <2>3. CallInv'
    BY <1>0, <1>1, <2>1, <2>2 DEF CallInv
  <2>4. NoStrandedCredit'
    BY <1>0, <1>1, <2>2, EndFacts, Sizes DEF NoStrandedCredit, CallInv
  <2> QED BY <2>3, <2>4
<1> QED BY <1>2, <1>4, <1>5, <1>6 DEF IInv

\* The executor takes up the next message: the bytes accepted stay the same,
\* for the last message was moved whole.
LEMMA BeginInv ==
  ASSUME IInv, NEW e \in Ends, Begin(e)
  PROVE  IInv'
<1>0. /\ TypeOK /\ EntryInv /\ ControlInv /\ KindInv /\ CountInv /\ FlightInv /\ SlotInv
      /\ StreamInv /\ ReceivedInv /\ CallInv /\ NoStrandedCredit
  BY DEF IInv
<1> USE DEF sendVars, recvVars, cardVars
<1>1. /\ UNCHANGED <<plan, active, controlDone, cardVars, sendVars, recvVars>>
      /\ pc[e] = "idle" /\ batch[e] < Len(plan)
      /\ batch' = [batch EXCEPT ![e] = @ + 1]
      /\ progress' = [progress EXCEPT ![e] = 0]
      /\ \E x \in {"drain", "poll"} : pc' = [pc EXCEPT ![e] = x]
  BY DEF Begin, Process
<1>2. /\ plan \in Plans /\ batch \in [Ends -> 0 .. Len(plan)] /\ progress \in [Ends -> Nat]
      /\ pc \in [Ends -> {"start", "drain", "arm", "poll", "move", "parked", "idle"}]
  BY <1>0 DEF TypeOK
<1>3. Len(plan) \in Nat
  BY <1>2, PlanFacts
<1>4. batch' \in [Ends -> 0 .. Len(plan)] /\ batch'[e] = batch[e] + 1
  BY <1>1, <1>2, <1>3
<1>5. TypeOK'
  <2>1. progress' \in [Ends -> Nat]
    BY <1>1, <1>2
  <2>2. pc' \in [Ends -> {"start", "drain", "arm", "poll", "move", "parked", "idle"}]
    BY <1>1, <1>2
  <2> QED BY <2>1, <2>2, <1>0, <1>1, <1>4 DEF TypeOK
<1>6. Sent' = Sent
  <2>1. CASE e = Consumer
    BY <2>1, <1>1, <1>2, EndFacts DEF Sent
  <2>2. CASE e = Producer
    <3>1. Sent' = StartOf(plan, batch[Producer] + 1) + 0
      BY <2>2, <1>1, <1>2, <1>4 DEF Sent, StartOf
    <3>2. CASE batch[Producer] = 0
      BY <3>1, <3>2 DEF Sent, StartOf
    <3>3. CASE batch[Producer] > 0
      <4>1. progress[Producer] = MessageSize(Producer)
        BY <1>0, <1>1, <2>2, <3>3, EndFacts DEF CallInv
      <4>2. /\ StartOf(plan, batch[Producer]) + MessageSize(Producer) = plan[batch[Producer]].end
            /\ batch[Producer] \in 1 .. Len(plan)
        BY <1>2, <3>3, MessageFacts, EndFacts
      <4>3. StartOf(plan, batch[Producer] + 1) = plan[batch[Producer]].end
        <5>1. batch[Producer] + 1 # 1 /\ (batch[Producer] + 1) - 1 = batch[Producer]
          BY <4>2, <1>3
        <5> QED BY <5>1 DEF StartOf
      <4>4. plan[batch[Producer]].end \in Nat
        BY <4>2, <1>2, PlanFacts
      <4> QED BY <3>1, <3>3, <4>1, <4>2, <4>3, <4>4 DEF Sent
    <3> QED BY <3>2, <3>3, <1>2, <1>3, EndFacts
  <2> QED BY <2>1, <2>2, EndFacts
<1>7. EntryInv' /\ KindInv' /\ CountInv' /\ FlightInv' /\ SlotInv' /\ StreamInv' /\ ReceivedInv'
  BY <1>0, <1>1, <1>6, Stable
<1>8. ControlInv'
  <2>1. \A f \in Ends : pc'[f] = "start" => pc[f] = "start"
    BY <1>1, <1>2
  <2> QED BY <1>0, <1>1, <2>1 DEF ControlInv
<1>9. CallInv' /\ NoStrandedCredit'
  <2>1. \A f \in Ends : f # e => MessageSize(f)' = MessageSize(f)
    BY <1>1, <1>2 DEF MessageSize
  <2>2. (batch[e] > 0)' /\ MessageSize(e)' \in Nat
    <3>1. batch'[e] \in 1 .. Len(plan)
      BY <1>2, <1>3, <1>4
    <3>2. StartOf(plan, batch'[e]) \in Nat /\ plan[batch'[e]].end \in Nat /\ StartOf(plan, batch'[e]) < plan[batch'[e]].end
      BY <3>1, <1>2, PlanFacts
    <3> QED BY <3>1, <3>2, <1>1 DEF MessageSize, StartOf
  <2>3. /\ \A f \in Ends : f # e => batch'[f] = batch[f] /\ progress'[f] = progress[f] /\ pc'[f] = pc[f]
        /\ progress'[e] = 0 /\ pc'[e] \notin {"start", "idle", "parked"} /\ batch'[e] > 0
        /\ pending' = pending
    BY <1>1, <1>2, <2>2
  <2>4. CallInv'
    <3>1. \A f \in Ends : batch'[f] > 0 => progress'[f] <= MessageSize(f)'
      BY <1>0, <2>1, <2>2, <2>3 DEF CallInv
    <3>2. \A f \in Ends : batch'[f] > 0 /\ pc'[f] = "idle" => progress'[f] = MessageSize(f)'
      BY <1>0, <2>1, <2>3 DEF CallInv
    <3>3. \A f \in Ends : pc'[f] = "start" => batch'[f] = 0
      BY <1>0, <2>3 DEF CallInv
    <3>4. batch'[Consumer] = 0 => pending' = 0
      BY <1>0, <2>3, EndFacts DEF CallInv
    <3> QED BY <3>1, <3>2, <3>3, <3>4 DEF CallInv
  <2>5. NoStrandedCredit'
    BY <1>0, <2>3, EndFacts DEF NoStrandedCredit
  <2> QED BY <2>4, <2>5
<1> QED BY <1>5, <1>7, <1>8, <1>9 DEF IInv

\* The first Send posts the control message, the first Recv only waits.
LEMMA HandshakeInv ==
  ASSUME IInv, NEW e \in Ends, Handshake(e)
  PROVE  IInv'
<1>0. /\ TypeOK /\ EntryInv /\ ControlInv /\ KindInv /\ CountInv /\ FlightInv /\ SlotInv
      /\ StreamInv /\ ReceivedInv /\ CallInv /\ NoStrandedCredit
  BY DEF IInv
<1> USE DEF sendVars, recvVars
<1> DEFINE ctl == [op |-> "control", slot |-> 0, len |-> 0, from |-> -1, seq |-> -1, signaled |-> TRUE]
<1>1. /\ UNCHANGED <<plan, active, batch, progress, controlDone, recvs, cq, armed, events, sendVars, recvVars>>
      /\ pc[e] = "start" /\ pc' = [pc EXCEPT ![e] = "drain"]
      /\ wire' = wire \/ wire' = [wire EXCEPT ![e] = Append(@, ctl)]
  BY DEF Handshake
<1>2. ctl \in Request /\ ctl \in Item /\ ctl.op = "control"
  BY Sizes DEF Request, Item, Slots
<1>3. HoldsOf[ctl] = 0 /\ ControlOf[ctl] = 1
  BY <1>2, ItemFacts DEF Holds
<1> HIDE DEF ctl
<1>4. wire \in [Ends -> Seq(Request)] /\ pc \in [Ends -> {"start", "drain", "arm", "poll", "move", "parked", "idle"}]
  BY <1>0 DEF TypeOK
<1>5. /\ wire' \in [Ends -> Seq(Request)]
      /\ \A f \in Ends : f # e => wire'[f] = wire[f]
      /\ wire'[e] = wire[e] \/ wire'[e] = Append(wire[e], ctl)
  <2>1. Append(wire[e], ctl) \in Seq(Request)
    BY <1>2, <1>4
  <2>2. CASE wire' = wire
    BY <2>2, <1>4
  <2>3. CASE wire' = [wire EXCEPT ![e] = Append(wire[e], ctl)]
    BY <2>1, <2>3, <1>4
  <2> QED BY <2>2, <2>3, <1>1
<1>6. TypeOK'
  <2>1. pc' \in [Ends -> {"start", "drain", "arm", "poll", "move", "parked", "idle"}]
    BY <1>1, <1>4
  <2> QED BY <2>1, <1>0, <1>1, <1>5 DEF TypeOK
<1>7. Sent' = Sent
  BY <1>1 DEF Sent
<1>8. EntryInv' /\ StreamInv' /\ ReceivedInv'
  BY <1>0, <1>1, <1>7, Stable
<1>9. wire[e] \in Seq(Item) /\ wire[e] \in Seq(Request)
  BY <1>4, ItemFacts
<1>10. /\ Weight(Append(wire[e], ctl), HoldsOf) = Weight(wire[e], HoldsOf)
       /\ Weight(Append(wire[e], ctl), ControlOf) = Weight(wire[e], ControlOf) + 1
  <2>1. /\ Weight(Append(wire[e], ctl), HoldsOf) = Weight(wire[e], HoldsOf) + HoldsOf[ctl]
        /\ Weight(Append(wire[e], ctl), ControlOf) = Weight(wire[e], ControlOf) + ControlOf[ctl]
        /\ Weight(wire[e], HoldsOf) \in Nat
    BY <1>2, <1>9, QueueWeights DEF Measures
  <2> QED BY <2>1, <1>3
<1>11. ControlInv'
  <2>1. \A f \in Ends : pc'[f] = "start" => f # e /\ pc[f] = "start"
    BY <1>1, <1>4
  <2>2. ASSUME NEW w, NEW c, w = wire'[e], c = cq'[Other(e)]
        PROVE  Weight(w, ControlOf) + Weight(c, ControlOf) <= 1
    <3>1. Weight(wire[e], ControlOf) + Weight(c, ControlOf) = 0
      BY <1>0, <1>1, <2>2 DEF ControlInv
    <3>2. Weight(wire[e], ControlOf) \in Nat /\ Weight(c, ControlOf) \in Nat
      <4>1. c \in Seq(Item)
        BY <2>2, <1>1, <1>0, ItemFacts, EndFacts DEF TypeOK
      <4> QED BY <1>9, <4>1, QueueWeights DEF Measures
    <3>3. w = wire[e] \/ w = Append(wire[e], ctl)
      BY <2>2, <1>5
    <3>4. Weight(w, ControlOf) = Weight(wire[e], ControlOf) \/ Weight(w, ControlOf) = Weight(wire[e], ControlOf) + 1
      BY <3>3, <1>10
    <3> QED BY ONLY <3>1, <3>2, <3>4
  <2>3. ASSUME NEW f \in Ends, NEW w, NEW c, w = wire'[f], c = cq'[Other(f)]
        PROVE  /\ Weight(w, ControlOf) + Weight(c, ControlOf) <= 1
               /\ pc'[f] = "start" => Weight(w, ControlOf) + Weight(c, ControlOf) = 0
    <3>1. CASE f = e
      BY <3>1, <2>1, <2>2, <2>3
    <3>2. CASE f # e
      BY <3>2, <2>1, <2>3, <1>0, <1>1, <1>5 DEF ControlInv
    <3> QED BY <3>1, <3>2
  <2> QED BY <2>3 DEF ControlInv
<1>12. KindInv'
  <2>1. \A i \in DOMAIN wire'[e] : (i \in DOMAIN wire[e] /\ wire'[e][i] = wire[e][i]) \/ wire'[e][i].op = "control"
    BY <1>2, <1>5, <1>9
  <2>2. \A f \in Ends : \A i \in DOMAIN wire'[f] :
          (i \in DOMAIN wire[f] /\ wire'[f][i] = wire[f][i]) \/ wire'[f][i].op = "control"
    BY <2>1, <1>5
  <2> QED BY <2>2, <1>0, <1>1, EndFacts DEF KindInv
<1>13. CountInv'
  <2>1. ASSUME NEW f \in Ends, NEW w, w = wire'[f]
        PROVE  Weight(w, HoldsOf) = Weight(wire[f], HoldsOf)
    BY <2>1, <1>5, <1>10
  <2>2. ASSUME NEW w, NEW c, w = wire'[Producer], c = cq'[Consumer]
        PROVE  sendSeq' - arrTail' = Weight(w, HoldsOf) + Weight(c, HoldsOf)
    BY <2>1, <2>2, <1>0, <1>1, EndFacts DEF CountInv
  <2>3. ASSUME NEW w, NEW c, w = wire'[Consumer], c = cq'[Producer]
        PROVE  arrHead' - credits' = pending' + Weight(w, HoldsOf) + Weight(c, HoldsOf)
    BY <2>1, <2>3, <1>0, <1>1, EndFacts DEF CountInv
  <2> QED BY <2>2, <2>3, <1>0, <1>1 DEF CountInv
<1>14. FlightInv' /\ SlotInv'
  <2>1. /\ {i \in DOMAIN wire'[e] : wire'[e][i].op = "data"} = InFlight(wire[e])
        /\ \A i \in InFlight(wire[e]) : wire'[e][i] = wire[e][i]
    <3>1. CASE wire'[e] = wire[e]
      BY <3>1 DEF InFlight
    <3>2. CASE wire'[e] = Append(wire[e], ctl)
      <4>1. ctl.op # "data"
        BY <1>2
      <4>2. InFlight(Append(wire[e], ctl)) = InFlight(wire[e]) /\ \A i \in InFlight(wire[e]) : Append(wire[e], ctl)[i] = wire[e][i]
        BY <4>1, <1>2, <1>9, AppendSame
      <4> QED BY <3>2, <4>2 DEF InFlight
    <3> QED BY <3>1, <3>2, <1>5
  <2>2. /\ {i \in DOMAIN wire'[Producer] : wire'[Producer][i].op = "data"} = InFlight(wire[Producer])
        /\ \A i \in InFlight(wire[Producer]) : wire'[Producer][i] = wire[Producer][i]
    <3>1. CASE e = Producer
      BY <2>1, <3>1
    <3>2. CASE e # Producer
      BY <1>5, <3>2, EndFacts DEF InFlight
    <3> QED BY <3>1, <3>2
  <2>3. /\ {i \in DOMAIN cq'[Consumer] : cq'[Consumer][i].op = "data"} = InFlight(cq[Consumer])
        /\ \A i \in InFlight(cq[Consumer]) : cq'[Consumer][i] = cq[Consumer][i]
    BY <1>1 DEF InFlight
  <2> QED BY <2>2, <2>3, <1>0, <1>1, FlightSame
<1>15. CallInv' /\ NoStrandedCredit'
  <2>1. \A f \in Ends : MessageSize(f)' = MessageSize(f)
    BY <1>1 DEF MessageSize
  <2>2. \A f \in Ends : pc'[f] = pc[f] \/ pc'[f] = "drain"
    BY <1>1, <1>4
  <2>3. CallInv'
    BY <1>0, <1>1, <2>1, <2>2 DEF CallInv
  <2>4. NoStrandedCredit'
    BY <1>0, <1>1, <2>2, EndFacts DEF NoStrandedCredit
  <2> QED BY <2>3, <2>4
<1> QED BY <1>6, <1>8, <1>11, <1>12, <1>13, <1>14, <1>15 DEF IInv

\* The oldest completed data write is the arrival the receiver counts next.
LEMMA OldestArrival ==
  ASSUME TypeOK, CountInv, FlightInv, cq[Consumer] # << >>, Head(cq[Consumer]).op = "data"
  PROVE  /\ 1 \in InFlight(cq[Consumer]) /\ Head(cq[Consumer]) = cq[Consumer][1]
         /\ cq[Consumer][1].seq = arrTail /\ arrTail < sendSeq
<1>1. cq[Consumer] \in Seq(Completion) /\ sendSeq \in Nat /\ arrTail \in Nat
  BY EndFacts DEF TypeOK
<1>2. 1 \in InFlight(cq[Consumer]) /\ Head(cq[Consumer]) = cq[Consumer][1]
  BY <1>1 DEF InFlight
<1>3. cq[Consumer][1].seq \in arrTail .. sendSeq - 1
  BY <1>2 DEF FlightInv
<1>4. arrTail \in arrTail .. sendSeq - 1
  BY <1>1, <1>3
<1>5. CASE \E i \in InFlight(wire[Producer]) : wire[Producer][i].seq = arrTail
  <2>1. PICK i \in InFlight(wire[Producer]) : wire[Producer][i].seq = arrTail
    BY <1>5
  <2>2. cq[Consumer][1].seq < wire[Producer][i].seq
    BY <1>2 DEF FlightInv
  <2> QED BY <2>1, <2>2, <1>1, <1>3
<1>6. CASE \E i \in InFlight(cq[Consumer]) : cq[Consumer][i].seq = arrTail
  <2>1. PICK i \in InFlight(cq[Consumer]) : cq[Consumer][i].seq = arrTail
    BY <1>6
  <2>2. i \in Nat /\ i >= 1
    BY <2>1, <1>1 DEF InFlight
  <2>3. 1 < i => cq[Consumer][1].seq < cq[Consumer][i].seq
    BY <1>2 DEF FlightInv
  <2>4. i = 1
    BY <2>1, <2>2, <2>3, <1>1, <1>3
  <2> QED BY <2>1, <2>4, <1>1, <1>2, <1>4
<1>7. \/ \E i \in InFlight(wire[Producer]) : wire[Producer][i].seq = arrTail
      \/ \E i \in InFlight(cq[Consumer]) : cq[Consumer][i].seq = arrTail
  BY <1>4 DEF FlightInv
<1> QED BY <1>5, <1>6, <1>7

\* One completion is polled and handled.
LEMMA PollInv ==
  ASSUME IInv, NEW e \in Ends, Poll(e)
  PROVE  IInv'
<1>0. /\ TypeOK /\ EntryInv /\ ControlInv /\ KindInv /\ CountInv /\ FlightInv /\ SlotInv
      /\ StreamInv /\ ReceivedInv /\ CallInv /\ NoStrandedCredit
  BY DEF IInv
<1>1. PICK q, c : q = cq[e] /\ c = Head(q)
  OBVIOUS
<1>2. /\ UNCHANGED <<plan, active, pc, batch, progress, wire, armed, events,
                     stage, sendSeq, slots, arrHead, arrOffset, pending, received>>
      /\ pc[e] = "poll" /\ q # << >>
      /\ recvs' = [recvs EXCEPT ![e] = @ + Repost(c)]
      /\ cq' = [cq EXCEPT ![e] = Tail(q)]
      /\ Apply(e, c)
  BY <1>1 DEF Poll
<1>3. /\ q \in Seq(Completion) /\ q \in Seq(Item) /\ c \in Completion /\ c \in Item
      /\ Tail(q) \in Seq(Completion) /\ Tail(q) \in Seq(Item)
  <2>1. q \in Seq(Completion)
    BY <1>0, <1>1 DEF TypeOK
  <2>2. c \in Completion /\ Tail(q) \in Seq(Completion)
    BY <2>1, <1>1, <1>2
  <2> QED BY <2>1, <2>2, ItemFacts DEF Item
<1>4. /\ Len(q) \in Nat \ {0} /\ DOMAIN q = 1 .. Len(q) /\ c = q[1]
      /\ DOMAIN Tail(q) = 1 .. Len(q) - 1 /\ \A i \in 1 .. Len(q) - 1 : Tail(q)[i] = q[i + 1]
  BY <1>1, <1>2, <1>3
<1>5. cq' \in [Ends -> Seq(Completion)] /\ cq'[e] = Tail(q) /\ \A f \in Ends : f # e => cq'[f] = cq[f]
  BY <1>0, <1>2, <1>3 DEF TypeOK
<1>6. \A h \in Measures : /\ Weight(q, h) = h[c] + Weight(Tail(q), h)
                          /\ Weight(q, h) \in Nat /\ Weight(Tail(q), h) \in Nat
  BY <1>1, <1>2, <1>3, QueueWeights
<1>7. HoldsOf[c] = Holds(c) /\ EntryOf[c] = Repost(c) /\ Repost(c) \in Nat /\ ControlOf[c] \in Nat
  BY <1>3, ItemFacts DEF Repost
<1>8. recvs'[e] = recvs[e] + Repost(c) /\ \A f \in Ends : f # e => recvs'[f] = recvs[f]
  BY <1>0, <1>2 DEF TypeOK
<1>9. EntryInv'
  <2>1. recvs[e] + Weight(q, EntryOf) = RecvPool
    BY <1>0, <1>1 DEF EntryInv
  <2>2. recvs'[e] + Weight(Tail(q), EntryOf) = RecvPool
    <3>1. recvs[e] \in Nat
      BY <1>0, Sizes DEF TypeOK
    <3>2. Weight(q, EntryOf) = Repost(c) + Weight(Tail(q), EntryOf) /\ Weight(Tail(q), EntryOf) \in Nat
      BY <1>6, <1>7 DEF Measures
    <3> QED BY ONLY <2>1, <3>1, <3>2, <1>7, <1>8
  <2>3. ASSUME NEW f \in Ends, NEW x, x = cq'[f] PROVE recvs'[f] + Weight(x, EntryOf) = RecvPool
    <3>1. CASE f = e
      BY <3>1, <2>2, <2>3, <1>5
    <3>2. CASE f # e
      BY <3>2, <2>3, <1>0, <1>5, <1>8 DEF EntryInv
    <3> QED BY <3>1, <3>2
  <2> QED BY <2>3 DEF EntryInv
<1>10. ControlInv'
  <2>1. ASSUME NEW f \in Ends, NEW w, NEW x, w = wire'[f], x = cq'[Other(f)]
        PROVE  /\ Weight(w, ControlOf) + Weight(x, ControlOf) <= 1
               /\ pc'[f] = "start" => Weight(w, ControlOf) + Weight(x, ControlOf) = 0
    <3>1. CASE Other(f) # e
      <4>1. x = cq[Other(f)] /\ w = wire[f] /\ pc'[f] = pc[f]
        BY <3>1, <2>1, <1>2, <1>5, EndFacts
      <4> QED BY <4>1, <1>0 DEF ControlInv
    <3>2. CASE Other(f) = e
      <4>1. w = wire[f] /\ x = Tail(q) /\ q = cq[Other(f)] /\ pc'[f] = pc[f]
        BY <3>2, <2>1, <1>1, <1>2, <1>5
      <4>2. /\ Weight(w, ControlOf) + Weight(q, ControlOf) <= 1
            /\ pc[f] = "start" => Weight(w, ControlOf) + Weight(q, ControlOf) = 0
        BY <4>1, <1>0 DEF ControlInv
      <4>3. Weight(w, ControlOf) \in Nat
        <5>1. w \in Seq(Item)
          BY <4>1, <1>0, ItemFacts DEF TypeOK
        <5> QED BY <5>1, QueueWeights DEF Measures
      <4>4. /\ Weight(q, ControlOf) = ControlOf[c] + Weight(x, ControlOf)
            /\ Weight(x, ControlOf) \in Nat /\ ControlOf[c] \in Nat
        BY <4>1, <1>6, <1>7 DEF Measures
      <4> QED BY ONLY <4>1, <4>2, <4>3, <4>4
    <3> QED BY <3>1, <3>2
  <2> QED BY <2>1 DEF ControlInv
<1>11. KindInv'
  <2>1. \A f \in Ends : \A i \in DOMAIN cq'[f] : \E j \in DOMAIN cq[f] : cq'[f][i] = cq[f][j]
    <3> SUFFICES ASSUME NEW f \in Ends, NEW i \in DOMAIN cq'[f] PROVE \E j \in DOMAIN cq[f] : cq'[f][i] = cq[f][j]
      OBVIOUS
    <3>1. CASE f = e
      <4>1. i \in 1 .. Len(q) - 1 /\ cq'[f][i] = q[i + 1] /\ i + 1 \in DOMAIN q
        BY <3>1, <1>4, <1>5
      <4> QED BY <4>1, <3>1, <1>1
    <3>2. CASE f # e
      BY <3>2, <1>5
    <3> QED BY <3>1, <3>2
  <2> QED BY <2>1, <1>0, <1>2, EndFacts DEF KindInv
<1>12. TypeOK' /\ CountInv' /\ FlightInv' /\ SlotInv' /\ ReceivedInv'
  <2>1. recvs' \in [Ends -> 0 .. RecvPool]
    <3>1. recvs \in [Ends -> 0 .. RecvPool]
      BY <1>0 DEF TypeOK
    <3>2. recvs[e] + Weight(q, EntryOf) = RecvPool /\ Weight(q, EntryOf) = Repost(c) + Weight(Tail(q), EntryOf)
          /\ Weight(Tail(q), EntryOf) \in Nat
      BY <1>0, <1>1, <1>6, <1>7 DEF EntryInv, Measures
    <3>3. recvs[e] + Repost(c) \in 0 .. RecvPool
      BY <3>1, <3>2, <1>7, Sizes
    <3> QED BY <3>1, <3>3, <1>2
  <2>2. c.len \in Nat
    BY <1>3 DEF Completion
  <2>3. TypeOK'
    <3>0. /\ controlDone' = controlDone \/ controlDone' = [controlDone EXCEPT ![e] = TRUE]
          /\ credits' = credits \/ credits' = credits + c.len
          /\ arrTail' = arrTail \/ arrTail' = arrTail + 1
          /\ arrLen' = arrLen \/ arrLen' = [arrLen EXCEPT ![ArrivalSlot] = c.len]
      BY <1>2 DEF Apply
    <3>1. controlDone' \in [Ends -> BOOLEAN]
      BY <3>0, <1>0 DEF TypeOK
    <3>2. credits' \in Nat /\ arrTail' \in Nat
      <4>1. credits \in Nat /\ arrTail \in Nat
        BY <1>0 DEF TypeOK
      <4> QED BY ONLY <4>1, <3>0, <2>2
    <3>3. arrLen' \in [Slots -> Nat]
      <4>1. arrLen \in [Slots -> Nat]
        BY <1>0 DEF TypeOK
      <4> QED BY ONLY <4>1, <3>0, <2>2
    <3> QED BY <3>1, <3>2, <3>3, <2>1, <1>0, <1>2, <1>5 DEF TypeOK
  <2>4. Holds(c) = IF c.op = "data" THEN 1 ELSE IF c.op = "credit" THEN c.len ELSE 0
    BY DEF Holds
  <2>5. Weight(q, HoldsOf) = Holds(c) + Weight(Tail(q), HoldsOf) /\ Weight(Tail(q), HoldsOf) \in Nat
    BY <1>6, <1>7 DEF Measures
  <2>6. /\ sendSeq \in Nat /\ credits \in Nat /\ arrHead \in Nat /\ arrTail \in Nat /\ pending \in Nat
        /\ credits + pending <= arrHead /\ arrHead <= arrTail /\ arrTail <= sendSeq
        /\ sendSeq <= credits + SlotCount
    BY <1>0, Bounds
  <2>7. \A f \in Ends : Weight(wire[f], HoldsOf) \in Nat
    <3>1. \A f \in Ends : wire[f] \in Seq(Item)
      BY <1>0, ItemFacts DEF TypeOK
    <3> QED BY <3>1, QueueWeights DEF Measures
  <2>8. /\ sendSeq - arrTail = Weight(wire[Producer], HoldsOf) + Weight(cq[Consumer], HoldsOf)
        /\ arrHead - credits = pending + Weight(wire[Consumer], HoldsOf) + Weight(cq[Producer], HoldsOf)
    BY <1>0 DEF CountInv
  <2>9. Sent' = Sent
    BY <1>2 DEF Sent
  <2>10. CASE c.op = "data"
    <3>1. e = Consumer
      <4>1. 1 \in DOMAIN cq[e] /\ cq[e][1].op = "data"
        BY <1>1, <1>4, <2>10
      <4> QED BY <4>1, <1>0, EndFacts DEF KindInv
    <3>2. /\ arrLen' = [arrLen EXCEPT ![arrTail % SlotCount] = c.len]
          /\ arrTail' = arrTail + 1 /\ credits' = credits
      BY <1>2, <2>10 DEF Apply, ArrivalSlot
    <3>3. q = cq[Consumer] /\ cq'[Consumer] = Tail(q) /\ cq'[Producer] = cq[Producer]
      BY <3>1, <1>1, <1>5, EndFacts
    <3>4. 1 \in InFlight(q) /\ c.seq = arrTail /\ arrTail < sendSeq
      BY <3>3, <1>0, <1>1, <1>2, <1>4, <2>10, OldestArrival
    <3>5. CountInv'
      <4>1. ASSUME NEW w, NEW x, w = wire'[Producer], x = cq'[Consumer]
            PROVE  sendSeq' - arrTail' = Weight(w, HoldsOf) + Weight(x, HoldsOf)
        <5>1. w = wire[Producer] /\ x = Tail(q) /\ sendSeq' = sendSeq
          BY <4>1, <3>3, <1>2
        <5>2. Weight(w, HoldsOf) \in Nat
          BY <5>1, <2>7, EndFacts
        <5>3. sendSeq - arrTail = Weight(w, HoldsOf) + Weight(q, HoldsOf)
          BY <5>1, <2>8, <3>3
        <5>4. Weight(q, HoldsOf) = 1 + Weight(x, HoldsOf) /\ Weight(x, HoldsOf) \in Nat
          BY <5>1, <2>4, <2>5, <2>10
        <5> QED BY ONLY <5>1, <5>2, <5>3, <5>4, <3>2, <2>6
      <4>2. ASSUME NEW w, NEW x, w = wire'[Consumer], x = cq'[Producer]
            PROVE  arrHead' - credits' = pending' + Weight(w, HoldsOf) + Weight(x, HoldsOf)
        BY <4>2, <2>8, <3>2, <3>3, <1>2
      <4>3. arrHead' <= arrTail' /\ sendSeq' - credits' <= SlotCount
        BY <2>6, <3>2, <1>2, Sizes
      <4> QED BY <4>1, <4>2, <4>3 DEF CountInv
    <3> DEFINE W == InFlight(wire[Producer])
               D == {i \in 1 .. Len(q) - 1 : i + 1 \in InFlight(q)}
    <3>6. /\ \A i \in D : cq'[Consumer][i] = q[i + 1] /\ i + 1 \in InFlight(q) /\ i + 1 > 1 /\ i \in Nat
          /\ InFlight(wire[Producer])' = W /\ InFlight(cq[Consumer])' = D
      BY <3>3, <1>2, <1>4 DEF InFlight
    <3>7. /\ \A i \in W : wire[Producer][i].seq \in arrTail .. sendSeq - 1 /\ arrTail < wire[Producer][i].seq
          /\ \A i \in D : q[i + 1].seq \in arrTail .. sendSeq - 1 /\ arrTail < q[i + 1].seq
      <4>1. \A i \in W : wire[Producer][i].seq \in arrTail .. sendSeq - 1 /\ q[1].seq < wire[Producer][i].seq
        BY <1>0, <3>3, <3>4 DEF FlightInv
      <4>2. \A i \in D : q[i + 1].seq \in arrTail .. sendSeq - 1 /\ q[1].seq < q[i + 1].seq
        BY <1>0, <3>3, <3>4, <3>6 DEF FlightInv
      <4>3. q[1].seq = arrTail
        BY <3>4, <1>4
      <4> QED BY <4>1, <4>2, <4>3
    <3>8. FlightInv'
      <4>1. /\ \A i \in W : wire'[Producer][i].seq \in arrTail' .. sendSeq' - 1
            /\ \A i \in D : cq'[Consumer][i].seq \in arrTail' .. sendSeq' - 1
        <5>1. \A x : x \in arrTail .. sendSeq - 1 /\ arrTail < x => x \in arrTail' .. sendSeq' - 1
          BY <3>2, <1>2, <2>6
        <5>2. \A i \in W : wire'[Producer][i].seq = wire[Producer][i].seq
          BY <1>2
        <5>3. \A i \in D : cq'[Consumer][i].seq = q[i + 1].seq
          BY <3>6
        <5> HIDE DEF W, D
        <5> QED BY <5>1, <5>2, <5>3, <3>7
      <4>2. /\ \A i, j \in W : i < j => wire'[Producer][i].seq < wire'[Producer][j].seq
            /\ \A i \in D, j \in W : cq'[Consumer][i].seq < wire'[Producer][j].seq
        <5>1. /\ \A i, j \in W : i < j => wire[Producer][i].seq < wire[Producer][j].seq
              /\ \A i \in InFlight(q), j \in W : q[i].seq < wire[Producer][j].seq
          BY <1>0, <3>3 DEF FlightInv
        <5> HIDE DEF W, D
        <5> QED BY <5>1, <1>2, <3>6, ZenonT(60)
      <4>3. \A i, j \in D : i < j => cq'[Consumer][i].seq < cq'[Consumer][j].seq
        <5> SUFFICES ASSUME NEW i \in D, NEW j \in D, i < j PROVE q[i + 1].seq < q[j + 1].seq
          BY <3>6
        <5>1. i + 1 < j + 1
          BY <3>6
        <5> QED BY <5>1, <1>0, <3>3, <3>6 DEF FlightInv
      <4>4. ASSUME NEW k \in arrTail' .. sendSeq' - 1
            PROVE  (\E i \in W : wire'[Producer][i].seq = k) \/ (\E i \in D : cq'[Consumer][i].seq = k)
        <5>1. k \in arrTail .. sendSeq - 1 /\ k > arrTail
          BY <3>2, <1>2, <2>6
        <5>2. CASE \E i \in W : wire[Producer][i].seq = k
          BY <5>2, <1>2
        <5>3. CASE \E i \in InFlight(q) : q[i].seq = k
          <6>1. PICK i \in InFlight(q) : q[i].seq = k
            BY <5>3
          <6>2. i # 1 /\ i \in 1 .. Len(q)
            BY <6>1, <5>1, <3>4, <1>4, <2>6 DEF InFlight
          <6>3. i - 1 \in D /\ (i - 1) + 1 = i
            BY <6>1, <6>2, <1>4
          <6> QED BY <6>1, <6>3, <3>6
        <5> QED BY <5>1, <5>2, <5>3, <1>0, <3>3 DEF FlightInv
      <4> HIDE DEF W, D
      <4> QED BY <3>6, <4>1, <4>2, <4>3, <4>4 DEF FlightInv
    <3>9. SlotInv'
      <4>1. \A i \in W :
              /\ wire'[Producer][i].slot = wire'[Producer][i].seq % SlotCount
              /\ stage'[wire'[Producer][i].slot] = [from |-> wire'[Producer][i].from, len |-> wire'[Producer][i].len]
        BY <1>0, <1>2 DEF SlotInv
      <4>2. \A i \in D :
              /\ cq'[Consumer][i].slot = cq'[Consumer][i].seq % SlotCount
              /\ stage'[cq'[Consumer][i].slot] = [from |-> cq'[Consumer][i].from, len |-> cq'[Consumer][i].len]
              /\ slots'[cq'[Consumer][i].slot] = stage'[cq'[Consumer][i].slot]
        <5>1. \A i \in InFlight(q) :
                /\ q[i].slot = q[i].seq % SlotCount
                /\ stage[q[i].slot] = [from |-> q[i].from, len |-> q[i].len]
                /\ slots[q[i].slot] = stage[q[i].slot]
          BY <1>0, <3>3 DEF SlotInv
        <5> HIDE DEF W, D
        <5>2. stage' = stage /\ slots' = slots
          BY <1>2
        <5>3. \A i \in D : cq'[Consumer][i] = q[i + 1] /\ i + 1 \in InFlight(q)
          BY <3>6
        <5> QED BY ONLY <5>1, <5>2, <5>3
      <4>3. ASSUME NEW k \in arrHead' .. arrTail' - 1
            PROVE  slots'[k % SlotCount] = stage'[k % SlotCount] /\ arrLen'[k % SlotCount] = stage'[k % SlotCount].len
        <5>a. k \in arrHead .. (arrTail + 1) - 1
          BY <1>2, <3>2
        <5>b. k \in Nat
          BY <5>a, <2>6
        <5>0. k \in Nat /\ k % SlotCount \in Slots /\ arrLen \in [Slots -> Nat]
          BY <5>b, <1>0, Sizes DEF TypeOK
        <5>1. CASE k = arrTail
          <6>1. /\ c.slot = arrTail % SlotCount /\ stage[c.slot] = [from |-> c.from, len |-> c.len]
                /\ slots[c.slot] = stage[c.slot]
            BY <1>0, <1>4, <3>3, <3>4 DEF SlotInv
          <6> QED BY <6>1, <5>0, <5>1, <1>2, <3>2
        <5>2. CASE k # arrTail
          <6>1. k \in arrHead .. arrTail - 1
            BY <5>2, <1>2, <2>6, <3>2
          <6>2. k < arrTail /\ arrTail - k < SlotCount
            BY <6>1, <2>6, <3>4, Sizes
          <6>3. k % SlotCount # arrTail % SlotCount
            BY <6>2, <5>0, <2>6, SlotUnique
          <6>4. arrLen'[k % SlotCount] = arrLen[k % SlotCount]
            BY <6>3, <3>2, <5>0
          <6> QED BY <6>1, <6>4, <1>0, <1>2 DEF SlotInv
        <5> QED BY <5>1, <5>2
      <4> HIDE DEF W, D
      <4> QED BY <3>6, <4>1, <4>2, <4>3 DEF SlotInv
    <3>10. ReceivedInv'
      <4>1. arrHead \in arrHead .. sendSeq - 1
        BY <2>6, <3>4
      <4>2. stage[arrHead % SlotCount].len >= 1
        BY <4>1, <1>0, Sizes DEF StreamInv
      <4>3. arrOffset < stage[arrHead % SlotCount].len
        <5>1. stage[arrHead % SlotCount].len \in Nat
          BY <4>1, <1>0, Sizes DEF StreamInv
        <5>2. arrHead = arrTail => arrOffset = 0
          BY <1>0 DEF ReceivedInv
        <5>3. arrHead < arrTail => arrOffset < stage[arrHead % SlotCount].len
          BY <1>0 DEF ReceivedInv
        <5> QED BY <5>1, <5>2, <5>3, <4>2, <2>6
      <4>4. arrHead' # arrTail'
        BY <1>2, <2>6, <3>2
      <4> QED BY <4>3, <4>4, <2>9, <1>0, <1>2 DEF ReceivedInv
    <3> QED BY <2>3, <3>5, <3>8, <3>9, <3>10
  <2>11. CASE c.op # "data"
    <3>1. arrTail' = arrTail /\ arrLen' = arrLen
      BY <1>2, <2>11 DEF Apply
    <3>2. ReceivedInv'
      BY <3>1, <2>9, <1>0, <1>2, Stable
    <3>3. CountInv'
      <4>1. CASE e = Producer
        <5>1. Holds(c) \in Nat /\ credits' = credits + Holds(c)
          BY <1>2, <2>2, <2>4, <2>6, <2>11 DEF Apply
        <5>2. cq'[Producer] = Tail(q) /\ q = cq[Producer] /\ cq'[Consumer] = cq[Consumer]
          BY <4>1, <1>1, <1>5, EndFacts
        <5>3. ASSUME NEW w, NEW x, w = wire'[Consumer], x = cq'[Producer]
              PROVE  arrHead' - credits' = pending' + Weight(w, HoldsOf) + Weight(x, HoldsOf)
          <6>1. w = wire[Consumer] /\ x = Tail(q) /\ arrHead' = arrHead /\ pending' = pending
            BY <5>2, <5>3, <1>2
          <6>2. Weight(w, HoldsOf) \in Nat
            BY <6>1, <2>7, EndFacts
          <6>3. arrHead - credits = pending + Weight(w, HoldsOf) + Weight(q, HoldsOf)
            BY <6>1, <5>2, <2>8
          <6>4. Weight(q, HoldsOf) = Holds(c) + Weight(x, HoldsOf) /\ Weight(x, HoldsOf) \in Nat
            BY <6>1, <2>5
          <6>5. \A A, B, P, W, Q, H, X \in Nat : A - B = P + W + Q /\ Q = H + X => A - (B + H) = P + W + X
            OBVIOUS
          <6>6. Weight(q, HoldsOf) \in Nat
            BY <6>4, <5>1
          <6>7. arrHead - (credits + Holds(c)) = pending + Weight(w, HoldsOf) + Weight(x, HoldsOf)
            BY <6>2, <6>3, <6>4, <6>5, <6>6, <5>1, <2>6
          <6> QED BY <6>7, <6>1, <5>1
        <5>4. ASSUME NEW w, NEW x, w = wire'[Producer], x = cq'[Consumer]
              PROVE  sendSeq' - arrTail' = Weight(w, HoldsOf) + Weight(x, HoldsOf)
          BY <5>2, <5>4, <3>1, <2>8, <1>2
        <5>5. arrHead' <= arrTail' /\ sendSeq' - credits' <= SlotCount
          BY <2>6, <3>1, <5>1, <1>2, Sizes
        <5> QED BY <5>3, <5>4, <5>5 DEF CountInv
      <4>2. CASE e = Consumer
        <5>1. c.op # "credit"
          BY <4>2, <1>0, <1>1, <1>4 DEF KindInv
        <5>2. Holds(c) = 0 /\ credits' = credits
          BY <5>1, <1>2, <2>4, <2>11 DEF Apply
        <5>3. cq'[Consumer] = Tail(q) /\ q = cq[Consumer] /\ cq'[Producer] = cq[Producer]
          BY <4>2, <1>1, <1>5, EndFacts
        <5>4. ASSUME NEW w, NEW x, w = wire'[Producer], x = cq'[Consumer]
              PROVE  sendSeq' - arrTail' = Weight(w, HoldsOf) + Weight(x, HoldsOf)
          <6>1. w = wire[Producer] /\ x = Tail(q) /\ sendSeq' = sendSeq
            BY <5>3, <5>4, <1>2
          <6>2. sendSeq - arrTail = Weight(w, HoldsOf) + Weight(q, HoldsOf)
            BY <6>1, <5>3, <2>8
          <6>3. Weight(q, HoldsOf) = Weight(x, HoldsOf)
            BY <6>1, <5>2, <2>5
          <6> QED BY <6>1, <6>2, <6>3, <3>1
        <5>5. ASSUME NEW w, NEW x, w = wire'[Consumer], x = cq'[Producer]
              PROVE  arrHead' - credits' = pending' + Weight(w, HoldsOf) + Weight(x, HoldsOf)
          BY <5>2, <5>3, <5>5, <2>8, <1>2
        <5>6. arrHead' <= arrTail' /\ sendSeq' - credits' <= SlotCount
          BY <2>6, <3>1, <5>2, <1>2, Sizes
        <5> QED BY <5>4, <5>5, <5>6 DEF CountInv
      <4> QED BY <4>1, <4>2, EndFacts
    <3>4. FlightInv' /\ SlotInv'
      <4>1. CASE e = Producer
        <5>1. /\ {i \in DOMAIN wire'[Producer] : wire'[Producer][i].op = "data"} = InFlight(wire[Producer])
              /\ \A i \in InFlight(wire[Producer]) : wire'[Producer][i] = wire[Producer][i]
              /\ {i \in DOMAIN cq'[Consumer] : cq'[Consumer][i].op = "data"} = InFlight(cq[Consumer])
              /\ \A i \in InFlight(cq[Consumer]) : cq'[Consumer][i] = cq[Consumer][i]
          BY <4>1, <1>2, <1>5, EndFacts DEF InFlight
        <5> QED BY <5>1, <3>1, <1>0, <1>2, FlightSame
      <4>2. CASE e = Consumer
        <5>1. q = cq[Consumer] /\ cq'[Consumer] = Tail(q) /\ 1 \notin InFlight(q)
          BY <4>2, <1>1, <1>4, <1>5, <2>11 DEF InFlight
        <5> DEFINE W == InFlight(wire[Producer])
                   D == {i \in 1 .. Len(q) - 1 : i + 1 \in InFlight(q)}
        <5>2. /\ \A i \in D : cq'[Consumer][i] = q[i + 1] /\ i + 1 \in InFlight(q) /\ i \in Nat
              /\ InFlight(wire[Producer])' = W /\ InFlight(cq[Consumer])' = D
          BY <5>1, <1>2, <1>4 DEF InFlight
        <5>3. FlightInv'
          <6>1. /\ \A i \in W : wire'[Producer][i].seq \in arrTail' .. sendSeq' - 1
                /\ \A i \in D : cq'[Consumer][i].seq \in arrTail' .. sendSeq' - 1
                /\ \A i, j \in W : i < j => wire'[Producer][i].seq < wire'[Producer][j].seq
                /\ \A i \in D, j \in W : cq'[Consumer][i].seq < wire'[Producer][j].seq
            <7>1. /\ \A i \in W : wire[Producer][i].seq \in arrTail .. sendSeq - 1
                  /\ \A i \in InFlight(q) : q[i].seq \in arrTail .. sendSeq - 1
                  /\ \A i, j \in W : i < j => wire[Producer][i].seq < wire[Producer][j].seq
                  /\ \A i \in InFlight(q), j \in W : q[i].seq < wire[Producer][j].seq
              BY <1>0, <5>1 DEF FlightInv
            <7> HIDE DEF W, D
            <7> QED BY <7>1, <1>2, <3>1, <5>2, ZenonT(60)
          <6>2. \A i, j \in D : i < j => cq'[Consumer][i].seq < cq'[Consumer][j].seq
            <7> SUFFICES ASSUME NEW i \in D, NEW j \in D, i < j PROVE q[i + 1].seq < q[j + 1].seq
              BY <5>2
            <7>1. i + 1 < j + 1
              BY <5>2
            <7> QED BY <7>1, <1>0, <5>1, <5>2 DEF FlightInv
          <6>3. ASSUME NEW k \in arrTail' .. sendSeq' - 1
                PROVE  (\E i \in W : wire'[Producer][i].seq = k) \/ (\E i \in D : cq'[Consumer][i].seq = k)
            <7>1. k \in arrTail .. sendSeq - 1
              BY <3>1, <1>2
            <7>2. CASE \E i \in W : wire[Producer][i].seq = k
              BY <7>2, <1>2
            <7>3. CASE \E i \in InFlight(q) : q[i].seq = k
              <8>1. PICK i \in InFlight(q) : q[i].seq = k
                BY <7>3
              <8>2. i # 1 /\ i \in 1 .. Len(q)
                BY <8>1, <5>1, <1>4 DEF InFlight
              <8>3. i - 1 \in D /\ (i - 1) + 1 = i
                BY <8>1, <8>2, <1>4
              <8> QED BY <8>1, <8>3, <5>2
            <7> QED BY <7>1, <7>2, <7>3, <1>0, <5>1 DEF FlightInv
          <6> HIDE DEF W, D
          <6> QED BY <5>2, <6>1, <6>2, <6>3 DEF FlightInv
        <5>4. SlotInv'
          <6>1. \A i \in W :
                  /\ wire'[Producer][i].slot = wire'[Producer][i].seq % SlotCount
                  /\ stage'[wire'[Producer][i].slot] = [from |-> wire'[Producer][i].from, len |-> wire'[Producer][i].len]
            BY <1>0, <1>2 DEF SlotInv
          <6>2. \A i \in D :
                  /\ cq'[Consumer][i].slot = cq'[Consumer][i].seq % SlotCount
                  /\ stage'[cq'[Consumer][i].slot] = [from |-> cq'[Consumer][i].from, len |-> cq'[Consumer][i].len]
                  /\ slots'[cq'[Consumer][i].slot] = stage'[cq'[Consumer][i].slot]
            <7>1. \A i \in InFlight(q) :
                    /\ q[i].slot = q[i].seq % SlotCount
                    /\ stage[q[i].slot] = [from |-> q[i].from, len |-> q[i].len]
                    /\ slots[q[i].slot] = stage[q[i].slot]
              BY <1>0, <5>1 DEF SlotInv
            <7> HIDE DEF W, D
            <7>2. stage' = stage /\ slots' = slots
              BY <1>2
            <7>3. \A i \in D : cq'[Consumer][i] = q[i + 1] /\ i + 1 \in InFlight(q)
              BY <5>2
            <7> QED BY ONLY <7>1, <7>2, <7>3
          <6>3. \A k \in arrHead' .. arrTail' - 1 :
                  slots'[k % SlotCount] = stage'[k % SlotCount] /\ arrLen'[k % SlotCount] = stage'[k % SlotCount].len
            BY <1>0, <1>2, <3>1 DEF SlotInv
          <6> HIDE DEF W, D
          <6> QED BY <5>2, <6>1, <6>2, <6>3 DEF SlotInv
        <5> QED BY <5>3, <5>4
      <4> QED BY <4>1, <4>2, EndFacts
    <3> QED BY <2>3, <3>2, <3>3, <3>4
  <2> QED BY <2>10, <2>11
<1>13. Sent' = Sent
  BY <1>2 DEF Sent
<1>14. StreamInv'
  BY <1>0, <1>2, <1>13, Stable
<1>15. CallInv' /\ NoStrandedCredit'
  <2>1. \A f \in Ends : MessageSize(f)' = MessageSize(f)
    BY <1>2 DEF MessageSize
  <2> QED BY <1>0, <1>2, <2>1 DEF CallInv, NoStrandedCredit
<1> QED BY <1>9, <1>10, <1>11, <1>12, <1>14, <1>15 DEF IInv

\* The card moves the oldest request of one end to the other end's queue.
LEMMA ExecuteInv ==
  ASSUME IInv, NEW e \in Ends, Execute(e)
  PROVE  IInv'
<1>0. /\ TypeOK /\ EntryInv /\ ControlInv /\ KindInv /\ CountInv /\ FlightInv /\ SlotInv
      /\ StreamInv /\ ReceivedInv /\ CallInv /\ NoStrandedCredit
  BY DEF IInv
<1>1. PICK q, wr, o, own, there :
        /\ q = wire[e] /\ wr = Head(q) /\ o = Other(e) /\ own = OwnCompletion(wr)
        /\ there = [op |-> wr.op, slot |-> wr.slot, len |-> wr.len, from |-> wr.from, seq |-> wr.seq]
  OBVIOUS
<1>2. o \in Ends /\ o # e /\ \A f \in Ends : f = e \/ f = o
  BY <1>1, EndFacts
<1>3. /\ UNCHANGED <<plan, active, pc, batch, progress, controlDone, stage, sendSeq, credits,
                     arrHead, arrTail, arrOffset, arrLen, pending, received>>
      /\ q # << >> /\ recvs[o] > 0
      /\ slots' = IF wr.op = "data" THEN [slots EXCEPT ![wr.slot] = stage[wr.slot]] ELSE slots
      /\ wire' = [wire EXCEPT ![e] = Tail(q)]
      /\ recvs' = [recvs EXCEPT ![o] = @ - 1]
  BY <1>1 DEF Execute, callVars, sendVars
<1>4. /\ cq' = [f \in Ends |-> cq[f] \o (IF f = e THEN own ELSE <<there>>)]
      /\ events' \in [Ends -> Nat] /\ armed' \in [Ends -> BOOLEAN]
  <2>1. Complete([f \in Ends |-> IF f = e THEN own ELSE <<there>>])
    BY <1>1 DEF Execute
  <2>2. events \in [Ends -> Nat] /\ armed \in [Ends -> BOOLEAN]
    BY <1>0 DEF TypeOK
  <2>3. cq' = [f \in Ends |-> cq[f] \o (IF f = e THEN own ELSE <<there>>)]
    BY <2>1 DEF Complete
  <2>4. /\ events' \in [Ends -> Nat]
    BY <2>1, <2>2 DEF Complete
  <2>5. armed' \in [Ends -> BOOLEAN]
    BY <2>1, <2>2 DEF Complete
  <2> QED BY <2>3, <2>4, <2>5
<1>5. /\ q \in Seq(Request) /\ q \in Seq(Item) /\ wr \in Request /\ wr \in Item
      /\ Tail(q) \in Seq(Request) /\ Tail(q) \in Seq(Item)
  <2>1. q \in Seq(Request)
    BY <1>0, <1>1 DEF TypeOK
  <2>2. wr \in Request /\ Tail(q) \in Seq(Request)
    BY <2>1, <1>1, <1>3
  <2> QED BY <2>1, <2>2, ItemFacts DEF Item
<1>6. /\ Len(q) \in Nat \ {0} /\ DOMAIN q = 1 .. Len(q) /\ wr = q[1]
      /\ DOMAIN Tail(q) = 1 .. Len(q) - 1 /\ \A i \in 1 .. Len(q) - 1 : Tail(q)[i] = q[i + 1]
  BY <1>1, <1>3, <1>5
<1>7. there \in Completion /\ there \in Item /\ there.op = wr.op /\ there.len = wr.len
  BY <1>1, <1>5 DEF Request, Completion, Item
<1>8. \/ own = << >>
      \/ \E x \in Completion : own = <<x>> /\ x.op \in {"write", "send"}
  <2> DEFINE x == [op |-> IF wr.op = "control" THEN "send" ELSE "write", slot |-> 0, len |-> 0,
                   from |-> -1, seq |-> -1]
  <2>1. x \in Completion /\ x.op \in {"write", "send"}
    BY Sizes DEF Completion, Slots
  <2>2. own = << >> \/ own = <<x>>
    BY <1>1 DEF OwnCompletion
  <2> HIDE DEF x
  <2> QED BY <2>1, <2>2
<1>9. own \in Seq(Completion) /\ own \in Seq(Item) /\ \A h \in Measures : Weight(own, h) = 0
  <2>1. CASE own = << >>
    BY <2>1, QueueWeights
  <2>2. CASE \E x \in Completion : own = <<x>> /\ x.op \in {"write", "send"}
    <3>1. PICK x \in Completion : own = <<x>> /\ x.op \in {"write", "send"}
      BY <2>2
    <3>2. x \in Item
      BY DEF Item
    <3>3. HoldsOf[x] = 0 /\ EntryOf[x] = 0 /\ ControlOf[x] = 0
      BY <3>1, <3>2, ItemFacts DEF Holds, Repost
    <3>4. own \in Seq(Completion) /\ own \in Seq(Item)
      BY <3>1, <3>2
    <3>5. \A h \in Measures : Weight(own, h) = h[x]
      BY <3>1, <3>2, QueueWeights
    <3> QED BY <3>3, <3>4, <3>5 DEF Measures
  <2> QED BY <2>1, <2>2, <1>8
<1>10. /\ cq'[e] = cq[e] \o own /\ cq'[o] = Append(cq[o], there)
       /\ cq' \in [Ends -> Seq(Completion)]
       /\ \A f \in Ends : cq[f] \in Seq(Completion) /\ cq[f] \in Seq(Item)
  <2>1. \A f \in Ends : cq[f] \in Seq(Completion) /\ cq[f] \in Seq(Item)
    BY <1>0, ItemFacts DEF TypeOK
  <2>2. cq[e] \o own \in Seq(Completion) /\ cq[o] \o <<there>> \in Seq(Completion)
        /\ cq[o] \o <<there>> = Append(cq[o], there)
    BY <2>1, <1>2, <1>7, <1>9
  <2>3. cq'[e] = cq[e] \o own /\ cq'[o] = cq[o] \o <<there>>
    BY <1>2, <1>4
  <2>4. \A f \in Ends : cq'[f] \in Seq(Completion)
    BY <2>2, <2>3, <1>2
  <2>5. cq' \in [Ends -> Seq(Completion)]
    BY <2>4, <1>4
  <2> QED BY <2>1, <2>2, <2>3, <2>5
<1>11. /\ wire' \in [Ends -> Seq(Request)] /\ wire'[e] = Tail(q) /\ wire'[o] = wire[o]
  BY <1>0, <1>2, <1>3, <1>5 DEF TypeOK
<1>12. recvs'[e] = recvs[e] /\ recvs'[o] = recvs[o] - 1 /\ recvs' \in [Ends -> 0 .. RecvPool]
  <2>1. recvs \in [Ends -> 0 .. RecvPool]
    BY <1>0 DEF TypeOK
  <2>2. recvs[o] - 1 \in 0 .. RecvPool
    <3>1. recvs[o] \in 0 .. RecvPool /\ recvs[o] > 0
      BY <2>1, <1>2, <1>3
    <3> QED BY <3>1, Sizes
  <2> QED BY <2>1, <2>2, <1>2, <1>3
<1>13. \A h \in Measures :
         /\ Weight(q, h) = h[wr] + Weight(Tail(q), h) /\ Weight(Tail(q), h) \in Nat /\ h[wr] \in Nat
         /\ Weight(cq'[e], h) = Weight(cq[e], h) /\ Weight(cq[e], h) \in Nat
         /\ Weight(cq'[o], h) = Weight(cq[o], h) + h[wr] /\ Weight(cq[o], h) \in Nat
  <2>1. \A h \in Measures : h[there] = h[wr] /\ h[wr] \in Nat
    <3>1. /\ HoldsOf[there] = HoldsOf[wr] /\ EntryOf[there] = EntryOf[wr] /\ ControlOf[there] = ControlOf[wr]
      BY <1>5, <1>7, ItemFacts DEF Holds, Repost
    <3>2. \A h \in Measures : h[wr] \in Nat
      BY <1>5, ItemFacts
    <3> QED BY <3>1, <3>2 DEF Measures
  <2> SUFFICES ASSUME NEW h \in Measures
               PROVE  /\ Weight(q, h) = h[wr] + Weight(Tail(q), h) /\ Weight(Tail(q), h) \in Nat /\ h[wr] \in Nat
                      /\ Weight(cq'[e], h) = Weight(cq[e], h) /\ Weight(cq[e], h) \in Nat
                      /\ Weight(cq'[o], h) = Weight(cq[o], h) + h[wr] /\ Weight(cq[o], h) \in Nat
    OBVIOUS
  <2>2. Weight(q, h) = h[wr] + Weight(Tail(q), h) /\ Weight(Tail(q), h) \in Nat
    BY <1>1, <1>3, <1>5, QueueWeights
  <2>3. Weight(cq[e] \o own, h) = Weight(cq[e], h) + Weight(own, h) /\ Weight(cq[e], h) \in Nat
    BY <1>9, <1>10, QueueWeights
  <2>4. Weight(Append(cq[o], there), h) = Weight(cq[o], h) + h[there] /\ Weight(cq[o], h) \in Nat
    BY <1>2, <1>7, <1>10, QueueWeights
  <2>5. Weight(own, h) = 0
    BY <1>9
  <2> QED BY <2>1, <2>2, <2>3, <2>4, <2>5, <1>10
<1>14. TypeOK'
  <2>1. slots' \in [Slots -> Content]
    <3>1. slots \in [Slots -> Content] /\ stage \in [Slots -> Content] /\ wr.slot \in Slots
      BY <1>0, <1>5 DEF TypeOK, Request
    <3> QED BY <3>1, <1>3
  <2> QED BY <2>1, <1>0, <1>3, <1>4, <1>10, <1>11, <1>12 DEF TypeOK
<1>15. EntryInv'
  <2>1. EntryOf[wr] = 1
    BY <1>5, ItemFacts DEF Repost, Request
  <2>2. recvs[e] + Weight(cq[e], EntryOf) = RecvPool /\ recvs[o] + Weight(cq[o], EntryOf) = RecvPool
    BY <1>0, <1>2 DEF EntryInv
  <2>3. recvs[e] \in Nat /\ recvs[o] \in Nat
    BY <1>0, <1>2, Sizes DEF TypeOK
  <2>4. Weight(cq'[e], EntryOf) = Weight(cq[e], EntryOf) /\ Weight(cq'[o], EntryOf) = Weight(cq[o], EntryOf) + 1
        /\ Weight(cq[o], EntryOf) \in Nat
    BY <2>1, <1>13 DEF Measures
  <2>5. recvs'[e] + Weight(cq'[e], EntryOf) = RecvPool /\ recvs'[o] + Weight(cq'[o], EntryOf) = RecvPool
    BY <2>2, <2>3, <2>4, <1>12
  <2> QED BY <2>5, <1>2 DEF EntryInv
<1>16. ControlInv'
  <2>1. Other(e) = o /\ Other(o) = e
    BY <1>1, EndFacts
  <2>2. /\ Weight(q, ControlOf) + Weight(cq[o], ControlOf) <= 1
        /\ pc[e] = "start" => Weight(q, ControlOf) + Weight(cq[o], ControlOf) = 0
        /\ Weight(wire[o], ControlOf) + Weight(cq[e], ControlOf) <= 1
        /\ pc[o] = "start" => Weight(wire[o], ControlOf) + Weight(cq[e], ControlOf) = 0
    BY <2>1, <1>0, <1>1, <1>2 DEF ControlInv
  <2>3. /\ Weight(q, ControlOf) = ControlOf[wr] + Weight(Tail(q), ControlOf) /\ ControlOf[wr] \in Nat
        /\ Weight(Tail(q), ControlOf) \in Nat /\ Weight(cq[o], ControlOf) \in Nat
        /\ Weight(cq'[o], ControlOf) = Weight(cq[o], ControlOf) + ControlOf[wr]
        /\ Weight(cq'[e], ControlOf) = Weight(cq[e], ControlOf)
    BY <1>13 DEF Measures
  <2>4. Weight(Tail(q), ControlOf) + Weight(cq'[o], ControlOf) = Weight(q, ControlOf) + Weight(cq[o], ControlOf)
    BY <2>3
  <2>5. ASSUME NEW f \in Ends, NEW w, NEW x, w = wire'[f], x = cq'[Other(f)]
        PROVE  /\ Weight(w, ControlOf) + Weight(x, ControlOf) <= 1
               /\ pc'[f] = "start" => Weight(w, ControlOf) + Weight(x, ControlOf) = 0
    <3>1. CASE f = e
      <4>1. w = Tail(q) /\ x = cq'[o] /\ pc'[f] = pc[e]
        BY <3>1, <2>1, <2>5, <1>3, <1>11
      <4> QED BY <4>1, <2>2, <2>4
    <3>2. CASE f = o
      <4>1. w = wire[o] /\ x = cq'[e] /\ pc'[f] = pc[o]
        BY <3>2, <2>1, <2>5, <1>3, <1>11
      <4> QED BY <4>1, <2>2, <2>3
    <3> QED BY <3>1, <3>2, <1>2
  <2> QED BY <2>5 DEF ControlInv
<1>17. Sent' = Sent
  BY <1>3 DEF Sent
<1>18. StreamInv' /\ ReceivedInv'
  BY <1>0, <1>3, <1>17, Stable
<1>19. CallInv' /\ NoStrandedCredit'
  <2>1. \A f \in Ends : MessageSize(f)' = MessageSize(f)
    BY <1>3 DEF MessageSize
  <2> QED BY <1>0, <1>3, <2>1 DEF CallInv, NoStrandedCredit
<1>20. CountInv'
  <2>1. /\ sendSeq - arrTail = Weight(wire[Producer], HoldsOf) + Weight(cq[Consumer], HoldsOf)
        /\ arrHead - credits = pending + Weight(wire[Consumer], HoldsOf) + Weight(cq[Producer], HoldsOf)
        /\ arrHead <= arrTail /\ sendSeq - credits <= SlotCount
    BY <1>0 DEF CountInv
  <2>2. /\ Weight(q, HoldsOf) = HoldsOf[wr] + Weight(Tail(q), HoldsOf) /\ HoldsOf[wr] \in Nat
        /\ Weight(Tail(q), HoldsOf) \in Nat /\ Weight(cq[o], HoldsOf) \in Nat
        /\ Weight(cq'[o], HoldsOf) = Weight(cq[o], HoldsOf) + HoldsOf[wr]
        /\ Weight(cq'[e], HoldsOf) = Weight(cq[e], HoldsOf)
    BY <1>13 DEF Measures
  <2>3. Weight(Tail(q), HoldsOf) + Weight(cq'[o], HoldsOf) = Weight(q, HoldsOf) + Weight(cq[o], HoldsOf)
    BY <2>2
  <2>4. CASE e = Producer
    <3>1. o = Consumer
      BY <2>4, <1>1, EndFacts
    <3>2. ASSUME NEW w, NEW x, w = wire'[Producer], x = cq'[Consumer]
          PROVE  sendSeq' - arrTail' = Weight(w, HoldsOf) + Weight(x, HoldsOf)
      BY <3>1, <3>2, <2>1, <2>3, <2>4, <1>1, <1>3, <1>11
    <3>3. ASSUME NEW w, NEW x, w = wire'[Consumer], x = cq'[Producer]
          PROVE  arrHead' - credits' = pending' + Weight(w, HoldsOf) + Weight(x, HoldsOf)
      BY <3>1, <3>3, <2>1, <2>2, <2>4, <1>3, <1>11
    <3>4. \A w \in {wire'[Producer]}, x \in {cq'[Consumer]} :
            sendSeq' - arrTail' = Weight(w, HoldsOf) + Weight(x, HoldsOf)
      BY <3>2
    <3>5. \A w \in {wire'[Consumer]}, x \in {cq'[Producer]} :
            arrHead' - credits' = pending' + Weight(w, HoldsOf) + Weight(x, HoldsOf)
      BY <3>3
    <3>6. arrHead' <= arrTail' /\ sendSeq' - credits' <= SlotCount
      BY <2>1, <1>3
    <3> QED BY <3>4, <3>5, <3>6 DEF CountInv
  <2>5. CASE e = Consumer
    <3>1. o = Producer
      BY <2>5, <1>1, EndFacts
    <3>2. ASSUME NEW w, NEW x, w = wire'[Producer], x = cq'[Consumer]
          PROVE  sendSeq' - arrTail' = Weight(w, HoldsOf) + Weight(x, HoldsOf)
      BY <3>1, <3>2, <2>1, <2>2, <2>5, <1>3, <1>11
    <3>3. ASSUME NEW w, NEW x, w = wire'[Consumer], x = cq'[Producer]
          PROVE  arrHead' - credits' = pending' + Weight(w, HoldsOf) + Weight(x, HoldsOf)
      <4>1. pending \in Nat
        BY <1>0 DEF TypeOK
      <4>2. pending + Weight(Tail(q), HoldsOf) + Weight(cq'[o], HoldsOf) = pending + Weight(q, HoldsOf) + Weight(cq[o], HoldsOf)
        <5>1. \A P, A, B, C, D \in Nat : A + B = C + D => P + A + B = P + C + D
          OBVIOUS
        <5>2. /\ Weight(q, HoldsOf) \in Nat /\ Weight(Tail(q), HoldsOf) \in Nat
              /\ Weight(cq[o], HoldsOf) \in Nat /\ Weight(cq'[o], HoldsOf) \in Nat
          BY <2>2
        <5> QED BY ONLY <4>1, <5>1, <5>2, <2>3
      <4> QED BY <4>2, <3>1, <3>3, <2>1, <2>5, <1>1, <1>3, <1>11
    <3>4. \A w \in {wire'[Producer]}, x \in {cq'[Consumer]} :
            sendSeq' - arrTail' = Weight(w, HoldsOf) + Weight(x, HoldsOf)
      BY <3>2
    <3>5. \A w \in {wire'[Consumer]}, x \in {cq'[Producer]} :
            arrHead' - credits' = pending' + Weight(w, HoldsOf) + Weight(x, HoldsOf)
      BY <3>3
    <3>6. arrHead' <= arrTail' /\ sendSeq' - credits' <= SlotCount
      BY <2>1, <1>3
    <3> QED BY <3>4, <3>5, <3>6 DEF CountInv
  <2> QED BY <2>4, <2>5, EndFacts
<1>21. KindInv'
  <2>1. \A i \in DOMAIN wire'[e] : \E j \in DOMAIN q : wire'[e][i] = q[j]
    <3> SUFFICES ASSUME NEW i \in 1 .. Len(q) - 1 PROVE \E j \in DOMAIN q : Tail(q)[i] = q[j]
      BY <1>6, <1>11
    <3>1. i + 1 \in DOMAIN q
      BY <1>6
    <3> QED BY <3>1, <1>6
  <2>2. \A i \in DOMAIN cq'[o] : (i \in DOMAIN cq[o] /\ cq'[o][i] = cq[o][i]) \/ cq'[o][i] = there
    BY <1>2, <1>7, <1>10
  <2>3. \A i \in DOMAIN cq'[e] :
          (i \in DOMAIN cq[e] /\ cq'[e][i] = cq[e][i]) \/ cq'[e][i].op \in {"write", "send"}
    <3>1. CASE own = << >>
      <4>1. cq'[e] = cq[e]
        BY <3>1, <1>10
      <4> QED BY <4>1
    <3>2. CASE \E x \in Completion : own = <<x>> /\ x.op \in {"write", "send"}
      <4>1. PICK x \in Completion : own = <<x>> /\ x.op \in {"write", "send"}
        BY <3>2
      <4>2. cq'[e] = Append(cq[e], x) /\ cq[e] \in Seq(Completion)
        BY <4>1, <1>10
      <4> QED BY <4>1, <4>2
    <3> QED BY <3>1, <3>2, <1>8
  <2>4. 1 \in DOMAIN q /\ wr = q[1]
    BY <1>6
  <2>5. CASE e = Producer
    <3>1. o = Consumer /\ q = wire[Producer]
      BY <2>5, <1>1, EndFacts
    <3>2. \A i \in DOMAIN wire'[Producer] : wire'[Producer][i].op \in {"data", "control"}
      BY <3>1, <2>1, <2>5, <1>0 DEF KindInv
    <3>3. there.op \in {"data", "control"}
      BY <3>1, <2>4, <1>0, <1>7 DEF KindInv
    <3>4. \A i \in DOMAIN cq'[Consumer] : cq'[Consumer][i].op # "credit"
      BY <3>1, <3>3, <2>2, <1>0 DEF KindInv
    <3>5. \A i \in DOMAIN cq'[Producer] :
            /\ cq'[Producer][i].op # "data"
            /\ cq'[Producer][i].op = "credit" => cq'[Producer][i].len >= 1
      BY <2>3, <2>5, <1>0 DEF KindInv
    <3> QED BY <3>1, <3>2, <3>4, <3>5, <1>0, <1>11 DEF KindInv
  <2>6. CASE e = Consumer
    <3>1. o = Producer /\ q = wire[Consumer]
      BY <2>6, <1>1, EndFacts
    <3>2. \A i \in DOMAIN wire'[Consumer] :
            /\ wire'[Consumer][i].op \in {"credit", "control"}
            /\ wire'[Consumer][i].op = "credit" => wire'[Consumer][i].len >= 1
      BY <3>1, <2>1, <2>6, <1>0 DEF KindInv
    <3>3. there.op \in {"credit", "control"} /\ (there.op = "credit" => there.len >= 1)
      BY <3>1, <2>4, <1>0, <1>7 DEF KindInv
    <3>4. \A i \in DOMAIN cq'[Producer] :
            /\ cq'[Producer][i].op # "data"
            /\ cq'[Producer][i].op = "credit" => cq'[Producer][i].len >= 1
      BY <3>1, <3>3, <2>2, <1>0 DEF KindInv
    <3>5. \A i \in DOMAIN cq'[Consumer] : cq'[Consumer][i].op # "credit"
      BY <2>3, <2>6, <1>0 DEF KindInv
    <3> QED BY <3>1, <3>2, <3>4, <3>5, <1>0, <1>11 DEF KindInv
  <2> QED BY <2>5, <2>6, EndFacts
<1>22. FlightInv' /\ SlotInv'
  <2>1. CASE e = Consumer
    <3>1. o = Producer /\ wr.op # "data"
      BY <2>1, <1>0, <1>1, <1>6, EndFacts DEF KindInv
    <3>2. slots' = slots
      BY <3>1, <1>3
    <3>3. /\ {i \in DOMAIN wire'[Producer] : wire'[Producer][i].op = "data"} = InFlight(wire[Producer])
          /\ \A i \in InFlight(wire[Producer]) : wire'[Producer][i] = wire[Producer][i]
      BY <3>1, <1>11 DEF InFlight
    <3>4. /\ {i \in DOMAIN cq'[Consumer] : cq'[Consumer][i].op = "data"} = InFlight(cq[Consumer])
          /\ \A i \in InFlight(cq[Consumer]) : cq'[Consumer][i] = cq[Consumer][i]
      <4>1. CASE own = << >>
        <5>1. cq'[Consumer] = cq[Consumer]
          BY <4>1, <2>1, <1>10
        <5> QED BY <5>1 DEF InFlight
      <4>2. CASE \E x \in Completion : own = <<x>> /\ x.op \in {"write", "send"}
        <5>1. PICK x \in Completion : own = <<x>> /\ x.op \in {"write", "send"}
          BY <4>2
        <5>2. cq'[Consumer] = Append(cq[Consumer], x) /\ cq[Consumer] \in Seq(Completion)
          BY <5>1, <2>1, <1>10
        <5>3. x.op # "data"
          BY <5>1
        <5>4. /\ InFlight(Append(cq[Consumer], x)) = InFlight(cq[Consumer])
              /\ \A i \in InFlight(cq[Consumer]) : Append(cq[Consumer], x)[i] = cq[Consumer][i]
          BY <5>2, <5>3, AppendSame
        <5> QED BY <5>2, <5>4 DEF InFlight
      <4> QED BY <4>1, <4>2, <1>8
    <3> QED BY <3>2, <3>3, <3>4, <1>0, <1>3, FlightSame
  <2>2. CASE e = Producer
    <3> DEFINE p == cq[Consumer]
               n == Len(p) + 1
               N == IF wr.op = "data" THEN {n} ELSE {}
               C == InFlight(p)
               D == {i \in 1 .. Len(q) - 1 : i + 1 \in InFlight(q)}
    <3>1. o = Consumer /\ q = wire[Producer]
      BY <2>2, <1>1, EndFacts
    <3>2. p \in Seq(Completion) /\ Len(p) \in Nat /\ DOMAIN p = 1 .. Len(p)
      BY <1>2, <3>1, <1>10
    <3>3. /\ DOMAIN cq'[Consumer] = 1 .. n /\ cq'[Consumer][n] = there
          /\ \A i \in 1 .. Len(p) : cq'[Consumer][i] = p[i]
      BY <3>1, <3>2, <1>7, <1>10
    <3>4. InFlight(wire[Producer])' = D /\ InFlight(cq[Consumer])' = C \cup N
      <4>1. {i \in DOMAIN wire'[Producer] : wire'[Producer][i].op = "data"} = D
        <5>1. wire'[Producer] = Tail(q)
          BY <2>2, <1>11
        <5>2. {i \in 1 .. Len(q) - 1 : q[i + 1].op = "data"} = D
          <6>1. \A i \in 1 .. Len(q) - 1 : i + 1 \in DOMAIN q
            BY <1>6
          <6> QED BY <6>1 DEF InFlight
        <5>3. {i \in DOMAIN Tail(q) : Tail(q)[i].op = "data"} = {i \in 1 .. Len(q) - 1 : q[i + 1].op = "data"}
          BY <1>6
        <5> QED BY <5>1, <5>2, <5>3
      <4>2. {i \in DOMAIN cq'[Consumer] : cq'[Consumer][i].op = "data"} = C \cup N
        <5>1. \A i : i \in 1 .. n <=> i \in 1 .. Len(p) \/ i = n
          BY <3>2
        <5>2. n \notin 1 .. Len(p)
          BY <3>2
        <5> QED BY <5>1, <5>2, <3>2, <3>3, <1>7 DEF InFlight
      <4> QED BY <2>2, <4>1, <4>2 DEF InFlight
    <3>5. /\ \A i \in D : wire'[Producer][i] = q[i + 1] /\ i + 1 \in InFlight(q) /\ 1 < i + 1 /\ i \in Nat
          /\ \A i \in C : cq'[Consumer][i] = p[i] /\ i < n /\ i \in Nat
          /\ \A i \in N : i = n /\ n \in Nat /\ cq'[Consumer][i] = there /\ there.seq = q[1].seq /\ 1 \in InFlight(q) /\ wr.op = "data"
      <4>1. ASSUME NEW i \in D
            PROVE wire'[Producer][i] = q[i + 1] /\ i + 1 \in InFlight(q) /\ 1 < i + 1 /\ i \in Nat
        <5>1. i \in 1 .. Len(q) - 1 /\ i + 1 \in InFlight(q)
          OBVIOUS
        <5>2. Tail(q)[i] = q[i + 1] /\ 1 < i + 1 /\ i \in Nat
          BY <5>1, <1>6
        <5> QED BY <5>1, <5>2, <3>1, <2>2, <1>11
      <4>2. \A i \in C : cq'[Consumer][i] = p[i] /\ i < n /\ i \in Nat
        BY <3>2, <3>3 DEF InFlight
      <4>3. there.seq = q[1].seq
        BY <1>1, <1>6
      <4>4. wr.op = "data" => 1 \in InFlight(q)
        BY <1>6 DEF InFlight
      <4>5. n \in Nat
        BY <3>2
      <4> QED BY <4>1, <4>2, <4>3, <4>4, <4>5, <3>3
    <3>6. /\ \A i \in InFlight(q) : q[i].seq \in arrTail .. sendSeq - 1
          /\ \A i \in C : p[i].seq \in arrTail .. sendSeq - 1
          /\ \A i, j \in InFlight(q) : i < j => q[i].seq < q[j].seq
          /\ \A i, j \in C : i < j => p[i].seq < p[j].seq
          /\ \A i \in C, j \in InFlight(q) : p[i].seq < q[j].seq
          /\ \A k \in arrTail .. sendSeq - 1 :
               \/ \E i \in InFlight(q) : q[i].seq = k
               \/ \E i \in C : p[i].seq = k
      BY <3>1, <1>0 DEF FlightInv
    <3>7. FlightInv'
      <4>1. \A i \in C \cup N : cq'[Consumer][i].seq \in arrTail' .. sendSeq' - 1
        <5> HIDE DEF C, N, p, n, D
        <5> QED BY <3>5, <3>6, <1>3
      <4>2. /\ \A i \in D : wire'[Producer][i].seq \in arrTail' .. sendSeq' - 1
            /\ \A i, j \in D : i < j => wire'[Producer][i].seq < wire'[Producer][j].seq
        <5> HIDE DEF C, N, p, n, D
        <5>1. \A i, j \in D : i < j => i + 1 < j + 1
          BY <3>5
        <5> QED BY <5>1, <3>5, <3>6, <1>3, ZenonT(60)
      <4>3. \A i, j \in C \cup N : i < j => cq'[Consumer][i].seq < cq'[Consumer][j].seq
        <5> HIDE DEF C, N, p, n, D
        <5> SUFFICES ASSUME NEW i \in C \cup N, NEW j \in C \cup N, i < j
                     PROVE  cq'[Consumer][i].seq < cq'[Consumer][j].seq
          OBVIOUS
        <5>1. i \in C
          BY <3>5
        <5> QED BY <5>1, <3>5, <3>6
      <4>4. \A i \in C \cup N, j \in D : cq'[Consumer][i].seq < wire'[Producer][j].seq
        <5> HIDE DEF C, N, p, n, D
        <5> QED BY <3>5, <3>6
      <4>5. ASSUME NEW k \in arrTail' .. sendSeq' - 1
            PROVE  \/ \E i \in D : wire'[Producer][i].seq = k
                   \/ \E i \in C \cup N : cq'[Consumer][i].seq = k
        <5>1. k \in arrTail .. sendSeq - 1
          BY <1>3
        <5>2. CASE \E i \in C : p[i].seq = k
          BY <5>2, <3>5
        <5>3. CASE \E i \in InFlight(q) : q[i].seq = k
          <6>1. PICK i \in InFlight(q) : q[i].seq = k
            BY <5>3
          <6>2. i \in 1 .. Len(q) /\ q[i].op = "data"
            BY <6>1, <1>6 DEF InFlight
          <6>3. CASE i = 1
            <7>1. n \in N /\ cq'[Consumer][n].seq = k
              BY <6>1, <6>2, <6>3, <3>5, <1>6
            <7> QED BY <7>1
          <6>4. CASE i # 1
            <7>1. i - 1 \in D /\ (i - 1) + 1 = i
              BY <6>1, <6>2, <6>4, <1>6
            <7> QED BY <7>1, <6>1, <3>5
          <6> QED BY <6>3, <6>4
        <5> QED BY <5>1, <5>2, <5>3, <3>6
      <4> HIDE DEF C, N, p, n, D
      <4> QED BY <3>4, <4>1, <4>2, <4>3, <4>4, <4>5 DEF FlightInv
    <3>8. SlotInv'
      <4>1. /\ \A i \in InFlight(q) :
                 /\ q[i].slot = q[i].seq % SlotCount
                 /\ stage[q[i].slot] = [from |-> q[i].from, len |-> q[i].len]
            /\ \A i \in C :
                 /\ p[i].slot = p[i].seq % SlotCount
                 /\ stage[p[i].slot] = [from |-> p[i].from, len |-> p[i].len]
                 /\ slots[p[i].slot] = stage[p[i].slot]
            /\ \A k \in arrHead .. arrTail - 1 :
                 slots[k % SlotCount] = stage[k % SlotCount] /\ arrLen[k % SlotCount] = stage[k % SlotCount].len
        BY <3>1, <1>0 DEF SlotInv
      <4>2. /\ \A x \in Slots : slots[x] = stage[x] => slots'[x] = stage[x]
            /\ wr.op = "data" => slots'[wr.slot] = stage[wr.slot]
        BY <1>0, <1>3, <1>5 DEF TypeOK, Request
      <4>3. \A i \in D :
              /\ wire'[Producer][i].slot = wire'[Producer][i].seq % SlotCount
              /\ stage'[wire'[Producer][i].slot] = [from |-> wire'[Producer][i].from, len |-> wire'[Producer][i].len]
        <5>1. stage' = stage
          BY <1>3
        <5>2. \A i \in D : wire'[Producer][i] = q[i + 1] /\ i + 1 \in InFlight(q)
          BY <3>5
        <5> HIDE DEF C, N, p, n, D
        <5> QED BY ONLY <4>1, <5>1, <5>2
      <4>4. ASSUME NEW i \in C \cup N
            PROVE  /\ cq'[Consumer][i].slot = cq'[Consumer][i].seq % SlotCount
                   /\ stage'[cq'[Consumer][i].slot] = [from |-> cq'[Consumer][i].from, len |-> cq'[Consumer][i].len]
                   /\ slots'[cq'[Consumer][i].slot] = stage'[cq'[Consumer][i].slot]
        <5>0. stage' = stage
          BY <1>3
        <5>1. CASE i \in C
          <6>1. cq'[Consumer][i] = p[i] /\ p[i] \in Completion
            BY <5>1, <3>2, <3>5 DEF InFlight
          <6>2. p[i].slot \in Slots
            BY <6>1 DEF Completion
          <6> HIDE DEF C, N, p, n, D
          <6> QED BY <5>0, <5>1, <6>1, <6>2, <4>1, <4>2
        <5>2. CASE i \in N
          <6>1. /\ cq'[Consumer][i] = there /\ wr.op = "data" /\ 1 \in InFlight(q) /\ wr = q[1]
            BY <5>2, <3>5, <1>6
          <6>2. /\ there.slot = wr.slot /\ there.seq = wr.seq /\ there.from = wr.from /\ there.len = wr.len
            BY <1>1
          <6> HIDE DEF C, N, p, n, D
          <6> QED BY <5>0, <6>1, <6>2, <4>1, <4>2
        <5> QED BY <5>1, <5>2
      <4>5. \A k \in arrHead' .. arrTail' - 1 :
              slots'[k % SlotCount] = stage'[k % SlotCount] /\ arrLen'[k % SlotCount] = stage'[k % SlotCount].len
        <5>1. arrHead' = arrHead /\ arrTail' = arrTail /\ stage' = stage /\ arrLen' = arrLen
          BY <1>3
        <5>2. \A k \in arrHead .. arrTail - 1 : k % SlotCount \in Slots
          <6>1. arrHead \in Nat /\ arrTail \in Nat
            BY <1>0 DEF TypeOK
          <6>2. \A k \in arrHead .. arrTail - 1 : k \in Nat
            BY <6>1
          <6> QED BY <6>2, Sizes
        <5> HIDE DEF C, N, p, n, D
        <5> QED BY <4>1, <4>2, <5>1, <5>2
      <4> HIDE DEF C, N, p, n, D
      <4> QED BY <3>4, <4>3, <4>4, <4>5 DEF SlotInv
    <3> QED BY <3>7, <3>8
  <2> QED BY <2>1, <2>2, EndFacts
<1> QED BY <1>14, <1>15, <1>16, <1>18, <1>19, <1>20, <1>21, <1>22 DEF IInv

\* One round of TryRecv's loop copies the next bytes of the stream.
LEMMA RecvCopyInv ==
  ASSUME IInv, RecvCopy
  PROVE  IInv'
<1>0. /\ TypeOK /\ EntryInv /\ ControlInv /\ KindInv /\ CountInv /\ FlightInv /\ SlotInv
      /\ StreamInv /\ ReceivedInv /\ CallInv /\ NoStrandedCredit
  BY DEF IInv
<1>1. PICK length, chunk :
        /\ length = arrLen[arrHead % SlotCount]
        /\ chunk = Min({length - arrOffset, MessageSize(Consumer) - progress[Consumer]})
  OBVIOUS
<1>2. /\ UNCHANGED <<plan, active, pc, batch, controlDone, wire, recvs, cq, armed, events,
                     stage, sendSeq, credits, slots, arrTail, arrLen>>
      /\ pc[Consumer] = "move" /\ batch[Consumer] > 0
      /\ progress[Consumer] < MessageSize(Consumer) /\ arrHead # arrTail
      /\ received' = received \o SlotBytes(chunk)
      /\ progress' = [progress EXCEPT ![Consumer] = @ + chunk]
      /\ arrOffset' = IF arrOffset + chunk = length THEN 0 ELSE arrOffset + chunk
      /\ arrHead' = IF arrOffset + chunk = length THEN arrHead + 1 ELSE arrHead
      /\ pending' = IF arrOffset + chunk = length THEN pending + 1 ELSE pending
  BY <1>1 DEF RecvCopy, cardVars, sendVars
<1>3. /\ sendSeq \in Nat /\ credits \in Nat /\ arrHead \in Nat /\ arrTail \in Nat /\ pending \in Nat
      /\ credits + pending <= arrHead /\ arrHead <= arrTail /\ arrTail <= sendSeq
      /\ sendSeq <= credits + SlotCount
  BY <1>0, Bounds
<1>4. arrHead < arrTail /\ arrHead < sendSeq /\ arrHead \in arrHead .. arrTail - 1 /\ arrHead \in arrHead .. sendSeq - 1
  BY <1>2, <1>3
<1>5. PICK c : c = stage[arrHead % SlotCount]
  OBVIOUS
<1>6. /\ slots[arrHead % SlotCount] = c /\ length = c.len
      /\ c.from \in Nat /\ length \in Nat /\ length >= 1
      /\ Len(received) = c.from + arrOffset /\ arrOffset < length /\ arrOffset \in Nat
  <2>1. slots[arrHead % SlotCount] = c /\ length = c.len
    BY <1>0, <1>1, <1>4, <1>5 DEF SlotInv
  <2>2. c.from \in Nat /\ c.len \in 1 .. SlotSize
    BY <1>0, <1>4, <1>5 DEF StreamInv
  <2>3. Len(received) = c.from + arrOffset /\ arrOffset < c.len
    BY <1>0, <1>4, <1>5 DEF ReceivedInv
  <2>4. arrOffset \in Nat
    BY <1>0 DEF TypeOK
  <2>5. SlotSize \in Nat
    BY Sizes
  <2>6. c.len \in Nat /\ c.len >= 1
    BY <2>2, <2>5
  <2> QED BY <2>1, <2>2, <2>3, <2>4, <2>6
<1>7. progress[Consumer] \in Nat /\ MessageSize(Consumer) \in Nat
  BY <1>0, <1>2, EndFacts, MessageFacts DEF TypeOK
<1>8. chunk \in Nat /\ chunk >= 1 /\ arrOffset + chunk <= length /\ progress[Consumer] + chunk <= MessageSize(Consumer)
  <2>1. length - arrOffset \in Int /\ MessageSize(Consumer) - progress[Consumer] \in Int
    BY <1>6, <1>7
  <2>2. chunk = IF length - arrOffset <= MessageSize(Consumer) - progress[Consumer]
                THEN length - arrOffset ELSE MessageSize(Consumer) - progress[Consumer]
    BY <2>1, <1>1, MinOfTwo
  <2>3. progress[Consumer] < MessageSize(Consumer)
    BY <1>2
  <2> QED BY ONLY <2>2, <2>3, <1>6, <1>7
<1>9. /\ received \in Seq(Int) /\ SlotBytes(chunk) \in Seq(Int) /\ Len(SlotBytes(chunk)) = chunk
      /\ \A i \in 1 .. chunk : SlotBytes(chunk)[i] = Len(received) + i - 1
  <2>1. received \in Seq(Int) /\ Len(received) \in Nat
    BY <1>0 DEF TypeOK
  <2>2. SlotBytes(chunk) = [i \in 1 .. chunk |-> Len(received) + i - 1]
    BY <1>6 DEF SlotBytes
  <2>3. [i \in 1 .. chunk |-> Len(received) + i - 1] \in Seq(Int)
    BY <2>1, <1>8
  <2> QED BY <2>1, <2>2, <2>3, <1>8
<1>10. received' \in Seq(Int) /\ Len(received') = Len(received) + chunk /\ \A i \in DOMAIN received' : received'[i] = i - 1
  <2>1. /\ received' \in Seq(Int) /\ Len(received') = Len(received) + chunk
        /\ \A i \in 1 .. Len(received) + chunk : received'[i] = IF i <= Len(received) THEN received[i] ELSE SlotBytes(chunk)[i - Len(received)]
    <3>1. received \in Seq(Int) /\ SlotBytes(chunk) \in Seq(Int) /\ Len(SlotBytes(chunk)) = chunk
      BY <1>9
    <3>2. received' = received \o SlotBytes(chunk)
      BY <1>2
    <3>3. /\ received \o SlotBytes(chunk) \in Seq(Int)
          /\ Len(received \o SlotBytes(chunk)) = Len(received) + Len(SlotBytes(chunk))
          /\ \A i \in 1 .. Len(received) + Len(SlotBytes(chunk)) :
               (received \o SlotBytes(chunk))[i] = IF i <= Len(received) THEN received[i] ELSE SlotBytes(chunk)[i - Len(received)]
      BY ONLY <3>1, ConcatProperties
    <3> QED BY ONLY <3>1, <3>2, <3>3
  <2>2. \A i \in 1 .. Len(received) : received[i] = i - 1
    BY <1>0, <1>9 DEF ReceivedInv
  <2>3. Len(received) \in Nat /\ DOMAIN received' = 1 .. Len(received) + chunk
    BY <2>1, <1>9
  <2>4. ASSUME NEW i \in 1 .. Len(received) + chunk PROVE received'[i] = i - 1
    <3>1. CASE i <= Len(received)
      BY <3>1, <2>1, <2>2, <2>3
    <3>2. CASE i > Len(received)
      <4>1. i - Len(received) \in 1 .. chunk
        BY <3>2, <2>3, <1>8
      <4>2. SlotBytes(chunk)[i - Len(received)] = Len(received) + (i - Len(received)) - 1
        BY <4>1, <1>9
      <4>3. received'[i] = SlotBytes(chunk)[i - Len(received)]
        BY <3>2, <2>1, <2>3
      <4> QED BY <4>2, <4>3, <2>3
    <3> QED BY <3>1, <3>2, <2>3
  <2> QED BY <2>1, <2>3, <2>4
<1>11. /\ arrHead' \in Nat /\ arrHead <= arrHead' /\ arrHead' <= arrTail
       /\ pending' \in Nat /\ arrOffset' \in Nat /\ arrHead' - arrHead = pending' - pending
  BY <1>2, <1>3, <1>4, <1>6, <1>8
<1>12. TypeOK'
  <2>1. progress' \in [Ends -> Nat]
    <3>1. progress \in [Ends -> Nat]
      BY <1>0 DEF TypeOK
    <3>2. progress[Consumer] + chunk \in Nat
      BY <1>7, <1>8
    <3> QED BY <3>1, <3>2, <1>2
  <2> QED BY <2>1, <1>0, <1>2, <1>10, <1>11 DEF TypeOK
<1>13. Sent' = Sent
  <2>1. progress'[Producer] = progress[Producer]
    BY <1>0, <1>2, EndFacts DEF TypeOK
  <2> QED BY <2>1, <1>2 DEF Sent
<1>14. EntryInv' /\ KindInv' /\ FlightInv'
  BY <1>0, <1>2, Stable
<1>15. ControlInv'
  BY <1>0, <1>2 DEF ControlInv
<1>16. CountInv'
  <2>1. ASSUME NEW w, NEW x, w = wire'[Consumer], x = cq'[Producer]
        PROVE  arrHead' - credits' = pending' + Weight(w, HoldsOf) + Weight(x, HoldsOf)
    <3>1. w = wire[Consumer] /\ x = cq[Producer]
      BY <2>1, <1>2
    <3>2. arrHead - credits = pending + Weight(w, HoldsOf) + Weight(x, HoldsOf)
      BY <3>1, <1>0 DEF CountInv
    <3>3. Weight(w, HoldsOf) \in Nat /\ Weight(x, HoldsOf) \in Nat
      <4>1. w \in Seq(Item) /\ x \in Seq(Item)
        BY <3>1, <1>0, EndFacts, ItemFacts DEF TypeOK
      <4> QED BY <4>1, QueueWeights DEF Measures
    <3>4. credits' = credits
      BY <1>2
    <3> QED BY ONLY <3>2, <3>3, <3>4, <1>3, <1>11
  <2>2. ASSUME NEW w, NEW x, w = wire'[Producer], x = cq'[Consumer]
        PROVE  sendSeq' - arrTail' = Weight(w, HoldsOf) + Weight(x, HoldsOf)
    BY <2>2, <1>0, <1>2 DEF CountInv
  <2>3. arrHead' <= arrTail' /\ sendSeq' - credits' <= SlotCount
    BY <1>0, <1>2, <1>11 DEF CountInv
  <2> QED BY <2>1, <2>2, <2>3 DEF CountInv
<1>17. SlotInv' /\ StreamInv'
  <2>1. \A k \in arrHead' .. arrTail - 1 : k \in arrHead .. arrTail - 1
    BY <1>3, <1>11
  <2>2. \A k \in arrHead' .. sendSeq - 1 : k \in arrHead .. sendSeq - 1
    BY <1>3, <1>11
  <2>3. SlotInv'
    BY <2>1, <1>0, <1>2 DEF SlotInv, InFlight
  <2>4. StreamInv'
    BY <2>2, <1>0, <1>2, <1>13 DEF StreamInv
  <2> QED BY <2>3, <2>4
<1>18. ReceivedInv'
  <2>1. CASE arrOffset + chunk = length
    <3>1. arrHead' = arrHead + 1 /\ arrOffset' = 0 /\ Len(received') = c.from + c.len
      BY <2>1, <1>2, <1>6, <1>8, <1>10
    <3>2. arrHead' = sendSeq => Len(received') = Sent
      <4>1. arrHead = sendSeq - 1 => c.from + c.len = Sent
        BY <1>0, <1>4, <1>5 DEF StreamInv
      <4>2. arrHead' = sendSeq => arrHead = sendSeq - 1
        BY <3>1, <1>3
      <4> QED BY <4>1, <4>2, <3>1
    <3>3. arrHead' < sendSeq => Len(received') = stage[arrHead' % SlotCount].from + arrOffset'
      <4> SUFFICES ASSUME arrHead' < sendSeq PROVE Len(received') = stage[arrHead' % SlotCount].from + arrOffset'
        OBVIOUS
      <4>1. arrHead < sendSeq - 1 /\ arrHead + 1 \in arrHead .. sendSeq - 1
        BY <3>1, <1>3
      <4>2. c.from + c.len = stage[(arrHead + 1) % SlotCount].from /\ stage[(arrHead + 1) % SlotCount].from \in Nat
        BY <4>1, <1>0, <1>4, <1>5 DEF StreamInv
      <4> QED BY <4>2, <3>1
    <3>4. arrHead' < arrTail => arrOffset' < stage[arrHead' % SlotCount].len
      <4> SUFFICES ASSUME arrHead' < arrTail PROVE arrOffset' < stage[arrHead' % SlotCount].len
        OBVIOUS
      <4>1. arrHead + 1 \in arrHead .. sendSeq - 1
        BY <3>1, <1>3
      <4>2. stage[(arrHead + 1) % SlotCount].len \in 1 .. SlotSize
        BY <4>1, <1>0 DEF StreamInv
      <4>3. 0 < stage[(arrHead + 1) % SlotCount].len
        <5>1. SlotSize \in Nat
          BY Sizes
        <5> QED BY <5>1, <4>2
      <4> QED BY <4>3, <3>1
    <3> QED BY <3>1, <3>2, <3>3, <3>4, <1>2, <1>10, <1>13 DEF ReceivedInv
  <2>2. CASE arrOffset + chunk # length
    <3>1. arrHead' = arrHead /\ arrOffset' = arrOffset + chunk /\ Len(received') = c.from + arrOffset'
      BY <2>2, <1>2, <1>6, <1>8, <1>10
    <3>2. arrOffset' < c.len
      <4>1. \A a, b, l \in Nat : a + b <= l /\ a + b # l => a + b < l
        OBVIOUS
      <4>2. arrOffset + chunk < length
        BY <4>1, <2>2, <1>6, <1>8
      <4> QED BY <4>2, <3>1, <1>6
    <3> QED BY <3>1, <3>2, <1>2, <1>3, <1>4, <1>5, <1>10 DEF ReceivedInv
  <2> QED BY <2>1, <2>2
<1>19. CallInv' /\ NoStrandedCredit'
  <2>1. \A f \in Ends : MessageSize(f)' = MessageSize(f)
    BY <1>2 DEF MessageSize
  <2>2. progress'[Consumer] = progress[Consumer] + chunk /\ progress'[Producer] = progress[Producer]
    BY <1>0, <1>2, EndFacts DEF TypeOK
  <2>3. \A f \in Ends : batch'[f] > 0 => progress'[f] <= MessageSize(f)'
    BY <2>1, <2>2, <1>0, <1>2, <1>8, EndFacts DEF CallInv
  <2>4. \A f \in Ends : batch'[f] > 0 /\ pc'[f] = "idle" => progress'[f] = MessageSize(f)'
    BY <2>1, <2>2, <1>0, <1>2, EndFacts DEF CallInv
  <2>5. (\A f \in Ends : pc'[f] = "start" => batch'[f] = 0) /\ batch'[Consumer] # 0
    <3>1. batch' = batch /\ pc' = pc /\ batch[Consumer] > 0 /\ \A f \in Ends : pc[f] = "start" => batch[f] = 0
      BY <1>0, <1>2 DEF CallInv
    <3> QED BY <3>1
  <2>6. NoStrandedCredit'
    BY <1>2 DEF NoStrandedCredit
  <2> QED BY <2>3, <2>4, <2>5, <2>6 DEF CallInv
<1> QED BY <1>12, <1>14, <1>15, <1>16, <1>17, <1>18, <1>19 DEF IInv

\* TryRecv posts the credit that is due and returns.
LEMMA RecvReturnInv ==
  ASSUME IInv, RecvReturn
  PROVE  IInv'
<1>0. /\ TypeOK /\ EntryInv /\ ControlInv /\ KindInv /\ CountInv /\ FlightInv /\ SlotInv
      /\ StreamInv /\ ReceivedInv /\ CallInv /\ NoStrandedCredit
  BY DEF IInv
<1>1. PICK cr : cr = [op |-> "credit", slot |-> 0, len |-> pending, from |-> -1, seq |-> -1, signaled |-> TRUE]
  OBVIOUS
<1>2. /\ UNCHANGED <<plan, active, batch, controlDone, recvs, cq, armed, events, stage, sendSeq, credits,
                     slots, arrHead, arrTail, arrOffset, arrLen, received>>
      /\ pc[Consumer] = "move" /\ batch[Consumer] > 0
      /\ progress[Consumer] = MessageSize(Consumer) \/ arrHead = arrTail
      /\ progress' = [progress EXCEPT ![Consumer] = progress[Consumer]]
      /\ \E x \in {"idle", "parked", "poll"} :
           /\ pc' = [pc EXCEPT ![Consumer] = x]
           /\ x = "idle" <=> progress[Consumer] = MessageSize(Consumer)
  BY DEF RecvReturn, Return, sendVars
<1>3. \/ CreditDue /\ pending' = 0 /\ wire' = [wire EXCEPT ![Consumer] = Append(@, cr)]
      \/ ~CreditDue /\ pending' = pending /\ wire' = wire
  BY <1>1 DEF RecvReturn, CreditLeft
<1>4. /\ progress \in [Ends -> Nat] /\ pending \in Nat /\ wire \in [Ends -> Seq(Request)]
      /\ pc \in [Ends -> {"start", "drain", "arm", "poll", "move", "parked", "idle"}]
  BY <1>0 DEF TypeOK
<1>5. progress' = progress
  BY <1>2, <1>4, EndFacts
<1>6. cr \in Request /\ cr \in Item /\ cr.op = "credit" /\ cr.len = pending
  BY <1>1, <1>4, Sizes DEF Request, Item, Slots
<1>7. HoldsOf[cr] = pending /\ ControlOf[cr] = 0
  BY <1>6, ItemFacts DEF Holds
<1>8. CreditDue => pending >= 1
  BY <1>4, Sizes DEF CreditDue
<1>9. PICK q : q = wire[Consumer] /\ q \in Seq(Request) /\ q \in Seq(Item)
  BY <1>4, ItemFacts, EndFacts
<1>10. /\ wire' \in [Ends -> Seq(Request)] /\ wire'[Producer] = wire[Producer]
       /\ \/ CreditDue /\ pending' = 0 /\ wire'[Consumer] = Append(q, cr)
          \/ ~CreditDue /\ pending' = pending /\ wire'[Consumer] = q
  <2>1. Append(q, cr) \in Seq(Request)
    BY <1>6, <1>9
  <2>2. CASE CreditDue
    BY <2>1, <2>2, <1>3, <1>4, <1>9, EndFacts
  <2>3. CASE ~CreditDue
    BY <2>3, <1>3, <1>4, <1>9, EndFacts
  <2> QED BY <2>2, <2>3
<1>11. TypeOK'
  <2>1. pc' \in [Ends -> {"start", "drain", "arm", "poll", "move", "parked", "idle"}]
    BY <1>2, <1>4
  <2>2. pending' \in Nat
    BY <1>3, <1>4
  <2> QED BY <2>1, <2>2, <1>0, <1>2, <1>5, <1>10 DEF TypeOK
<1>12. Sent' = Sent
  BY <1>2, <1>5 DEF Sent
<1>13. EntryInv' /\ StreamInv' /\ ReceivedInv'
  BY <1>0, <1>2, <1>12, Stable
<1>14. /\ Weight(Append(q, cr), HoldsOf) = Weight(q, HoldsOf) + pending /\ Weight(q, HoldsOf) \in Nat
       /\ Weight(Append(q, cr), ControlOf) = Weight(q, ControlOf)
  <2>1. /\ Weight(Append(q, cr), HoldsOf) = Weight(q, HoldsOf) + HoldsOf[cr] /\ Weight(q, HoldsOf) \in Nat
        /\ Weight(Append(q, cr), ControlOf) = Weight(q, ControlOf) + ControlOf[cr] /\ Weight(q, ControlOf) \in Nat
    BY <1>6, <1>9, QueueWeights DEF Measures
  <2> QED BY <2>1, <1>7
<1>15. ControlInv'
  <2>1. \A f \in Ends : pc'[f] = "start" => pc[f] = "start"
    BY <1>2, <1>4
  <2>2. ASSUME NEW f \in Ends, NEW w, w = wire'[f] PROVE Weight(w, ControlOf) = Weight(wire[f], ControlOf)
    BY <2>2, <1>9, <1>10, <1>14, EndFacts
  <2>3. ASSUME NEW f \in Ends, NEW w, NEW c, w = wire'[f], c = cq'[Other(f)]
        PROVE  /\ Weight(w, ControlOf) + Weight(c, ControlOf) <= 1
               /\ pc'[f] = "start" => Weight(w, ControlOf) + Weight(c, ControlOf) = 0
    BY <2>1, <2>2, <2>3, <1>0, <1>2 DEF ControlInv
  <2> QED BY <2>3 DEF ControlInv
<1>16. KindInv'
  <2>1. \A i \in DOMAIN wire'[Consumer] :
          (i \in DOMAIN q /\ wire'[Consumer][i] = q[i]) \/ (CreditDue /\ wire'[Consumer][i] = cr)
    BY <1>6, <1>9, <1>10
  <2>2. \A i \in DOMAIN wire'[Consumer] :
          /\ wire'[Consumer][i].op \in {"credit", "control"}
          /\ wire'[Consumer][i].op = "credit" => wire'[Consumer][i].len >= 1
    BY <2>1, <1>0, <1>6, <1>8, <1>9 DEF KindInv
  <2> QED BY <2>2, <1>0, <1>2, <1>10 DEF KindInv
<1>17. CountInv'
  <2>1. ASSUME NEW w, NEW x, w = wire'[Consumer], x = cq'[Producer]
        PROVE  arrHead' - credits' = pending' + Weight(w, HoldsOf) + Weight(x, HoldsOf)
    <3>1. x = cq[Producer] /\ arrHead' = arrHead /\ credits' = credits
      BY <2>1, <1>2
    <3>2. arrHead - credits = pending + Weight(q, HoldsOf) + Weight(x, HoldsOf)
      BY <3>1, <1>0, <1>9 DEF CountInv
    <3>3. Weight(x, HoldsOf) \in Nat
      <4>1. x \in Seq(Item)
        BY <3>1, <1>0, EndFacts, ItemFacts DEF TypeOK
      <4> QED BY <4>1, QueueWeights DEF Measures
    <3>4. pending' + Weight(w, HoldsOf) = pending + Weight(q, HoldsOf)
      <4>1. CASE CreditDue
        <5>1. w = Append(q, cr) /\ pending' = 0
          BY <4>1, <2>1, <1>10
        <5> QED BY <5>1, <1>4, <1>14
      <4>2. CASE ~CreditDue
        BY <4>2, <2>1, <1>10
      <4> QED BY <4>1, <4>2
    <3> QED BY <3>1, <3>2, <3>4
  <2>2. ASSUME NEW w, NEW x, w = wire'[Producer], x = cq'[Consumer]
        PROVE  sendSeq' - arrTail' = Weight(w, HoldsOf) + Weight(x, HoldsOf)
    BY <2>2, <1>0, <1>2, <1>10 DEF CountInv
  <2> QED BY <2>1, <2>2, <1>0, <1>2 DEF CountInv
<1>18. FlightInv' /\ SlotInv'
  <2>1. /\ {i \in DOMAIN wire'[Producer] : wire'[Producer][i].op = "data"} = InFlight(wire[Producer])
        /\ \A i \in InFlight(wire[Producer]) : wire'[Producer][i] = wire[Producer][i]
        /\ {i \in DOMAIN cq'[Consumer] : cq'[Consumer][i].op = "data"} = InFlight(cq[Consumer])
        /\ \A i \in InFlight(cq[Consumer]) : cq'[Consumer][i] = cq[Consumer][i]
    BY <1>2, <1>10 DEF InFlight
  <2> QED BY <2>1, <1>0, <1>2, FlightSame
<1>19. CallInv' /\ NoStrandedCredit'
  <2>1. \A f \in Ends : MessageSize(f)' = MessageSize(f)
    BY <1>2 DEF MessageSize
  <2>2. /\ pc'[Producer] = pc[Producer] /\ pc'[Consumer] # "start"
        /\ pc'[Consumer] = "idle" <=> progress[Consumer] = MessageSize(Consumer)
    BY <1>2, <1>4, EndFacts
  <2>3. \A f \in Ends : batch'[f] > 0 /\ pc'[f] = "idle" => progress'[f] = MessageSize(f)'
    BY <2>1, <2>2, <1>0, <1>2, <1>5, EndFacts DEF CallInv
  <2>4. \A f \in Ends : batch'[f] > 0 => progress'[f] <= MessageSize(f)'
    BY <2>1, <1>0, <1>2, <1>5 DEF CallInv
  <2>5. (\A f \in Ends : pc'[f] = "start" => batch'[f] = 0) /\ batch'[Consumer] # 0
    <3>1. batch' = batch /\ batch[Consumer] > 0 /\ \A f \in Ends : pc[f] = "start" => batch[f] = 0
      BY <1>0, <1>2 DEF CallInv
    <3> QED BY <3>1, <2>2, EndFacts
  <2>6. NoStrandedCredit'
    <3>1. pc'[Consumer] = "parked" => pending' = 0
      BY <2>2, <1>2, <1>3, <1>4 DEF CreditDue
    <3>2. pending' < CreditBatch
      <4>1. CreditBatch \in Nat \ {0}
        BY Sizes
      <4>2. CASE CreditDue
        BY <4>1, <4>2, <1>3
      <4>3. CASE ~CreditDue
        <5>1. ~(pending >= CreditBatch)
          BY <4>3 DEF CreditDue
        <5> QED BY <5>1, <4>1, <4>3, <1>3, <1>4
      <4> QED BY <4>2, <4>3
    <3> QED BY <3>1, <3>2 DEF NoStrandedCredit
  <2> QED BY <2>3, <2>4, <2>5, <2>6 DEF CallInv
<1> QED BY <1>11, <1>13, <1>15, <1>16, <1>17, <1>18, <1>19 DEF IInv

\* Every chunk but the last of a message is a whole slot.
LEMMA ChunkStart ==
  ASSUME NEW rest \in Nat
  PROVE  /\ Chunks(rest) \in Nat
         /\ \A i \in Nat : 1 <= i /\ i <= Chunks(rest) => (i - 1) * SlotSize < rest
<1> DEFINE d == Chunks(rest)
           x == rest + SlotSize - 1
<1>1. SlotSize \in Nat /\ SlotSize > 0 /\ x \in Nat
  BY Sizes
<1>2. d \in Int /\ x = SlotSize * d + (x % SlotSize) /\ x % SlotSize \in 0 .. SlotSize - 1
  BY <1>1 DEF Chunks
<1>3. d \in Nat
  <2> SUFFICES ASSUME d <= -1 PROVE FALSE
    BY <1>2
  <2>1. SlotSize * d <= -SlotSize
    BY <1>1, <1>2
  <2> QED BY <2>1, <1>1, <1>2
<1>4. ASSUME NEW i \in Nat, 1 <= i, i <= d PROVE (i - 1) * SlotSize < rest
  <2>1. PICK n \in Nat : n = d - i
    BY <1>3, <1>4
  <2>2. SlotSize * n \in Nat
    BY <1>1
  <2>3. SlotSize * d = SlotSize * (i - 1) + SlotSize + SlotSize * n
    <3>1. d = (i - 1) + 1 + n
      BY <2>1, <1>3
    <3> QED BY <3>1, <1>1
  <2>4. SlotSize * (i - 1) = (i - 1) * SlotSize /\ SlotSize * (i - 1) \in Nat
    BY <1>1, <1>4
  <2>5. x = rest + SlotSize - 1
    OBVIOUS
  <2> HIDE DEF d, x
  <2> QED BY <2>2, <2>3, <2>4, <2>5, <1>1, <1>2
<1> QED BY <1>3, <1>4

\* The chunks of one PostWrites follow one another and end where the sender's
\* progress ends.
LEMMA ChunkFacts ==
  ASSUME NEW at \in Nat, NEW rest \in Nat, NEW count \in Nat, count <= Chunks(rest)
  PROVE  /\ Min({count * SlotSize, rest}) \in 0 .. rest
         /\ Min({count * SlotSize, rest}) <= count * SlotSize
         /\ \A i \in 1 .. count :
              /\ ChunkAt(at, rest, i) \in Content
              /\ ChunkAt(at, rest, i).from \in Nat /\ ChunkAt(at, rest, i).len \in 1 .. SlotSize
              /\ i = 1 => ChunkAt(at, rest, i).from = at
              /\ i = count => ChunkAt(at, rest, i).from + ChunkAt(at, rest, i).len = at + Min({count * SlotSize, rest})
              /\ i < count => ChunkAt(at, rest, i).from + ChunkAt(at, rest, i).len = ChunkAt(at, rest, i + 1).from
              /\ ChunkAt(at, rest, i).from + ChunkAt(at, rest, i).len <= at + Min({count * SlotSize, rest})
              /\ at + Min({count * SlotSize, rest}) <= ChunkAt(at, rest, i).from + (count - i + 1) * SlotSize
<1>1. SlotSize \in Nat /\ SlotSize > 0
  BY Sizes
<1>2. count * SlotSize \in Nat
  BY <1>1
<1> DEFINE m == Min({count * SlotSize, rest})
<1>3. m = Min({count * SlotSize, rest})
  OBVIOUS
<1> HIDE DEF m
<1>4. m = (IF count * SlotSize <= rest THEN count * SlotSize ELSE rest) /\ m \in Nat /\ m <= rest /\ m <= count * SlotSize
  BY <1>2, <1>3, MinOfTwo
<1>5. ASSUME NEW i \in 1 .. count
      PROVE  /\ ChunkAt(at, rest, i) \in Content
             /\ ChunkAt(at, rest, i).from \in Nat /\ ChunkAt(at, rest, i).len \in 1 .. SlotSize
             /\ i = 1 => ChunkAt(at, rest, i).from = at
             /\ i = count => ChunkAt(at, rest, i).from + ChunkAt(at, rest, i).len = at + m
             /\ i < count => ChunkAt(at, rest, i).from + ChunkAt(at, rest, i).len = ChunkAt(at, rest, i + 1).from
             /\ ChunkAt(at, rest, i).from + ChunkAt(at, rest, i).len <= at + m
             /\ at + m <= ChunkAt(at, rest, i).from + (count - i + 1) * SlotSize
  <2>1. PICK a : a = (i - 1) * SlotSize
    OBVIOUS
  <2>2. a \in Nat /\ a < rest
    BY <2>1, <1>1, ChunkStart
  <2>3. PICK l : l = Min({SlotSize, rest - a})
    OBVIOUS
  <2>4. l = (IF SlotSize <= rest - a THEN SlotSize ELSE rest - a) /\ l \in 1 .. SlotSize
    BY <2>2, <2>3, <1>1, MinOfTwo
  <2>5. ChunkAt(at, rest, i) = [from |-> at + a, len |-> l]
    BY <2>1, <2>3 DEF ChunkAt
  <2>6. PICK b : b = (count - i + 1) * SlotSize
    OBVIOUS
  <2>7. count * SlotSize = a + b /\ b \in Nat
    BY <2>1, <2>6, <1>1
  <2>8. b >= SlotSize
    <3>1. PICK n \in Nat : n = count - i
      OBVIOUS
    <3>2. b = n * SlotSize + SlotSize /\ n * SlotSize \in Nat
      BY <3>1, <2>6, <1>1
    <3> QED BY <3>2, <1>1
  <2>9. i = 1 => a = 0
    BY <2>1, <1>1
  <2>10. i = count => b = SlotSize
    BY <2>6, <1>1
  <2>11. i < count => /\ ChunkAt(at, rest, i + 1).from = at + a + SlotSize
                      /\ a + SlotSize < rest
    <3> SUFFICES ASSUME i < count PROVE ChunkAt(at, rest, i + 1).from = at + a + SlotSize /\ a + SlotSize < rest
      OBVIOUS
    <3>1. ((i + 1) - 1) * SlotSize < rest
      <4>1. i + 1 \in Nat /\ 1 <= i + 1 /\ i + 1 <= Chunks(rest)
        BY ChunkStart
      <4> QED BY <4>1, ChunkStart
    <3>2. ((i + 1) - 1) * SlotSize = a + SlotSize
      BY <2>1, <1>1
    <3>3. ChunkAt(at, rest, i + 1).from = at + ((i + 1) - 1) * SlotSize
      BY DEF ChunkAt
    <3> QED BY <3>1, <3>2, <3>3, <2>2, <1>1
  <2>12. ChunkAt(at, rest, i) \in Content
    BY <2>2, <2>4, <2>5, <1>1 DEF Content
  <2>13. a + l <= m
    BY ONLY <2>2, <2>4, <2>7, <2>8, <1>1, <1>4, rest \in Nat
  <2>14. i = count => a + l = m
    BY ONLY <2>2, <2>4, <2>7, <2>10, <1>1, <1>4, rest \in Nat
  <2>15. i < count => a + l = a + SlotSize
    BY ONLY <2>2, <2>4, <2>11, <1>1, rest \in Nat
  <2>16. m <= a + b
    BY <2>7, <1>4
  <2>17. ChunkAt(at, rest, i).from = at + a /\ ChunkAt(at, rest, i).len = l
    BY <2>5
  <2>18. l \in Nat /\ m \in Nat
    BY <2>4, <1>1, <1>4
  <2> QED BY <2>2, <2>4, <2>6, <2>7, <2>9, <2>11, <2>12, <2>13, <2>14, <2>15, <2>16, <2>17, <2>18
<1>6. m \in 0 .. rest
  BY <1>4
<1> USE DEF m
<1> QED BY <1>4, <1>5, <1>6

\* PostWrites fills free slots only and posts one write for each.
LEMMA SendMoveInv ==
  ASSUME IInv, SendMove
  PROVE  IInv'
<1>0. /\ TypeOK /\ EntryInv /\ ControlInv /\ KindInv /\ CountInv /\ FlightInv /\ SlotInv
      /\ StreamInv /\ ReceivedInv /\ CallInv /\ NoStrandedCredit
  BY DEF IInv
<1>1. PICK at, rest, count, moved, new, q :
        /\ at = StartOf(plan, batch[Producer]) + progress[Producer]
        /\ rest = MessageSize(Producer) - progress[Producer]
        /\ count = Min({Available, Chunks(rest)})
        /\ moved = Min({count * SlotSize, rest})
        /\ new = [i \in 1 .. count |->
                    [op |-> "data", slot |-> ChunkSlot(i), len |-> ChunkAt(at, rest, i).len,
                     from |-> ChunkAt(at, rest, i).from, seq |-> sendSeq + i - 1,
                     signaled |-> i = count]]
        /\ q = wire[Producer]
  OBVIOUS
<1>2. /\ UNCHANGED <<plan, active, batch, controlDone, recvs, cq, armed, events, credits,
                     slots, arrHead, arrTail, arrOffset, arrLen, pending, received>>
      /\ pc[Producer] = "move" /\ batch[Producer] > 0
      /\ stage' = [s \in Slots |->
                     LET own == {i \in 1 .. count : ChunkSlot(i) = s} IN
                     IF own = {} THEN stage[s] ELSE ChunkAt(at, rest, Max(own))]
      /\ wire' = [wire EXCEPT ![Producer] = q \o new]
      /\ sendSeq' = sendSeq + count
      /\ Return(Producer, progress[Producer] + moved)
  BY <1>1 DEF SendMove, recvVars
<1>3. /\ progress' = [progress EXCEPT ![Producer] = progress[Producer] + moved]
      /\ \E x \in {"idle", "parked", "poll"} :
           /\ pc' = [pc EXCEPT ![Producer] = x]
           /\ x = "idle" => progress[Producer] + moved = MessageSize(Producer)
  BY <1>2 DEF Return
<1>4. /\ progress \in [Ends -> Nat] /\ stage \in [Slots -> Content] /\ wire \in [Ends -> Seq(Request)]
      /\ pc \in [Ends -> {"start", "drain", "arm", "poll", "move", "parked", "idle"}]
      /\ q \in Seq(Request) /\ q \in Seq(Item)
  BY <1>0, <1>1, EndFacts, ItemFacts DEF TypeOK
<1>5. /\ StartOf(plan, batch[Producer]) \in Nat /\ MessageSize(Producer) \in Nat
      /\ progress[Producer] \in Nat /\ progress[Producer] <= MessageSize(Producer)
  BY <1>0, <1>2, <1>4, EndFacts, MessageFacts DEF TypeOK, CallInv
<1>6. at \in Nat /\ rest \in Nat /\ Sent = at
  BY <1>1, <1>2, <1>5 DEF Sent
<1>7. /\ sendSeq \in Nat /\ credits \in Nat /\ arrHead \in Nat /\ arrTail \in Nat /\ pending \in Nat
      /\ credits + pending <= arrHead /\ arrHead <= arrTail /\ arrTail <= sendSeq
      /\ sendSeq <= credits + SlotCount
  BY <1>0, Bounds
<1>8. SlotCount \in Nat \ {0} /\ SlotSize \in Nat \ {0}
  BY Sizes
<1>9. count \in Nat /\ count <= Chunks(rest) /\ sendSeq + count <= credits + SlotCount
  <2>1. Available \in Nat /\ Chunks(rest) \in Nat
    BY <1>6, <1>7, <1>8, ChunkStart DEF Available
  <2>2. count = IF Available <= Chunks(rest) THEN Available ELSE Chunks(rest)
    BY <2>1, <1>1, MinOfTwo
  <2>3. count \in Nat /\ count <= Chunks(rest) /\ count <= Available
    BY <2>1, <2>2
  <2>4. Available = credits + SlotCount - sendSeq
    BY DEF Available
  <2> QED BY <2>3, <2>4, <1>7, <1>8
<1>10. moved \in Nat /\ moved <= rest /\ moved <= count * SlotSize
  <2>1. moved \in 0 .. rest /\ moved <= count * SlotSize
    BY <1>1, <1>6, <1>9, ChunkFacts
  <2> QED BY <2>1, <1>6
<1>11. \A i \in 1 .. count :
         /\ ChunkAt(at, rest, i) \in Content
         /\ ChunkAt(at, rest, i).from \in Nat /\ ChunkAt(at, rest, i).len \in 1 .. SlotSize
         /\ i = 1 => ChunkAt(at, rest, i).from = at
         /\ i = count => ChunkAt(at, rest, i).from + ChunkAt(at, rest, i).len = at + moved
         /\ i < count => ChunkAt(at, rest, i).from + ChunkAt(at, rest, i).len = ChunkAt(at, rest, i + 1).from
         /\ ChunkAt(at, rest, i).from + ChunkAt(at, rest, i).len <= at + moved
         /\ at + moved <= ChunkAt(at, rest, i).from + (count - i + 1) * SlotSize
  <2>1. moved = Min({count * SlotSize, rest})
    BY <1>1
  <2>2. at \in Nat /\ rest \in Nat /\ count \in Nat /\ count <= Chunks(rest)
    BY <1>6, <1>9
  <2> QED BY ONLY <2>1, <2>2, ChunkFacts, SMTT(30)
<1>12. Sent' = at + moved
  <2>1. progress'[Producer] = progress[Producer] + moved
    BY <1>3, <1>4, EndFacts
  <2>2. batch'[Producer] = batch[Producer] /\ plan' = plan /\ batch[Producer] # 0
    BY <1>2
  <2>3. Sent' = StartOf(plan, batch[Producer]) + (progress[Producer] + moved)
    BY <2>1, <2>2 DEF Sent, StartOf
  <2> QED BY <2>3, <1>1, <1>5, <1>10
<1>13. /\ \A i \in 1 .. count : sendSeq + i - 1 \in Nat /\ ChunkSlot(i) = (sendSeq + i - 1) % SlotCount /\ ChunkSlot(i) \in Slots
       /\ \A i, j \in 1 .. count : ChunkSlot(i) = ChunkSlot(j) => i = j
       /\ \A i \in 1 .. count : \A k \in arrHead .. sendSeq - 1 : k % SlotCount # ChunkSlot(i)
  <2>1. \A i \in 1 .. count : sendSeq + i - 1 \in Nat /\ ChunkSlot(i) = (sendSeq + i - 1) % SlotCount /\ ChunkSlot(i) \in Slots
    <3> SUFFICES ASSUME NEW i \in 1 .. count
                 PROVE  sendSeq + i - 1 \in Nat /\ ChunkSlot(i) = (sendSeq + i - 1) % SlotCount /\ ChunkSlot(i) \in Slots
      OBVIOUS
    <3>1. sendSeq + i - 1 \in Nat
      BY <1>7, <1>9
    <3> QED BY <3>1, Sizes DEF ChunkSlot
  <2>2. ASSUME NEW i \in 1 .. count, NEW j \in 1 .. count, i < j PROVE ChunkSlot(i) # ChunkSlot(j)
    <3>1. /\ sendSeq + i - 1 \in Nat /\ sendSeq + j - 1 \in Nat
          /\ sendSeq + i - 1 < sendSeq + j - 1 /\ (sendSeq + j - 1) - (sendSeq + i - 1) < SlotCount
      BY <2>1, <2>2, <1>7, <1>8, <1>9
    <3> QED BY <3>1, <2>1, SlotUnique
  <2>3. ASSUME NEW i \in 1 .. count, NEW k \in arrHead .. sendSeq - 1 PROVE k % SlotCount # ChunkSlot(i)
    <3>1. /\ k \in Nat /\ sendSeq + i - 1 \in Nat
          /\ k < sendSeq + i - 1 /\ (sendSeq + i - 1) - k < SlotCount
      BY <1>7, <1>8, <1>9
    <3> QED BY <3>1, <2>1, SlotUnique
  <2>4. \A i, j \in 1 .. count : ChunkSlot(i) = ChunkSlot(j) => i = j
    BY <2>2, <1>9
  <2> QED BY <2>1, <2>3, <2>4
<1>14. \A i \in 1 .. count : stage'[ChunkSlot(i)] = ChunkAt(at, rest, i)
  <2> SUFFICES ASSUME NEW i \in 1 .. count PROVE stage'[ChunkSlot(i)] = ChunkAt(at, rest, i)
    OBVIOUS
  <2>1. {j \in 1 .. count : ChunkSlot(j) = ChunkSlot(i)} = {i}
    BY <1>13
  <2>2. Max({i}) = i
    <3>1. \A y \in {i} : i >= y
      BY <1>9
    <3> QED BY <3>1 DEF Max
  <2> QED BY <2>1, <2>2, <1>2, <1>13
<1>15. \A k \in arrHead .. sendSeq - 1 : stage'[k % SlotCount] = stage[k % SlotCount]
  <2> SUFFICES ASSUME NEW k \in arrHead .. sendSeq - 1 PROVE stage'[k % SlotCount] = stage[k % SlotCount]
    OBVIOUS
  <2>1. k % SlotCount \in Slots
    BY <1>7, Sizes
  <2>2. {j \in 1 .. count : ChunkSlot(j) = k % SlotCount} = {}
    BY <1>13
  <2> QED BY <2>1, <2>2, <1>2
<1>16. stage' \in [Slots -> Content]
  <2> SUFFICES ASSUME NEW s \in Slots PROVE stage'[s] \in Content
    BY <1>2
  <2>1. CASE {j \in 1 .. count : ChunkSlot(j) = s} = {}
    BY <2>1, <1>2, <1>4
  <2>2. CASE {j \in 1 .. count : ChunkSlot(j) = s} # {}
    <3>1. PICK i \in 1 .. count : ChunkSlot(i) = s
      BY <2>2
    <3> QED BY <3>1, <1>11, <1>14
  <2> QED BY <2>1, <2>2
<1>17. /\ new \in Seq(Request) /\ new \in Seq(Item) /\ Len(new) = count /\ DOMAIN new = 1 .. count
       /\ \A i \in 1 .. count :
            /\ new[i] \in Request /\ new[i] \in Item /\ new[i].op = "data"
            /\ new[i].slot = ChunkSlot(i) /\ new[i].seq = sendSeq + i - 1
            /\ new[i].from = ChunkAt(at, rest, i).from /\ new[i].len = ChunkAt(at, rest, i).len
  <2>1. ASSUME NEW i \in 1 .. count
        PROVE  /\ new[i] \in Request /\ new[i] \in Item /\ new[i].op = "data"
               /\ new[i].slot = ChunkSlot(i) /\ new[i].seq = sendSeq + i - 1
               /\ new[i].from = ChunkAt(at, rest, i).from /\ new[i].len = ChunkAt(at, rest, i).len
    <3>1. new[i] = [op |-> "data", slot |-> ChunkSlot(i), len |-> ChunkAt(at, rest, i).len,
                    from |-> ChunkAt(at, rest, i).from, seq |-> sendSeq + i - 1, signaled |-> i = count]
      BY <1>1
    <3>2. /\ ChunkSlot(i) \in Slots /\ ChunkAt(at, rest, i).len \in Nat /\ ChunkAt(at, rest, i).from \in Int
          /\ sendSeq + i - 1 \in Int
      BY <1>11, <1>13 DEF Content
    <3>3. new[i] \in Request
      BY <3>1, <3>2 DEF Request
    <3> QED BY <3>1, <3>3 DEF Item
  <2>2. DOMAIN new = 1 .. count /\ new = [i \in 1 .. count |-> new[i]]
    BY <1>1
  <2>3. new \in Seq(Request) /\ Len(new) = count
    BY <2>1, <2>2, <1>9
  <2> QED BY <2>1, <2>2, <2>3, ItemFacts
<1>18. /\ wire' \in [Ends -> Seq(Request)] /\ wire'[Producer] = q \o new /\ wire'[Consumer] = wire[Consumer]
       /\ Len(q) \in Nat /\ DOMAIN q = 1 .. Len(q) /\ DOMAIN (q \o new) = 1 .. Len(q) + count
       /\ \A i \in 1 .. Len(q) : (q \o new)[i] = q[i]
       /\ \A i \in 1 .. count : (q \o new)[Len(q) + i] = new[i]
  <2>1. /\ q \o new \in Seq(Request) /\ Len(q \o new) = Len(q) + count /\ Len(q) \in Nat
        /\ \A i \in 1 .. Len(q) + count : (q \o new)[i] = IF i <= Len(q) THEN q[i] ELSE new[i - Len(q)]
    <3>1. q \in Seq(Request) /\ new \in Seq(Request) /\ Len(new) = count
      BY <1>4, <1>17
    <3>2. q \o new \in Seq(Request) /\ Len(q \o new) = Len(q) + Len(new) /\ Len(q) \in Nat
      BY ONLY <3>1, ConcatProperties, LenProperties
    <3>3. \A i \in 1 .. Len(q) + Len(new) : (q \o new)[i] = IF i <= Len(q) THEN q[i] ELSE new[i - Len(q)]
      BY ONLY <3>1, ConcatProperties
    <3> QED BY ONLY <3>1, <3>2, <3>3
  <2>2. wire' \in [Ends -> Seq(Request)] /\ wire'[Producer] = q \o new /\ wire'[Consumer] = wire[Consumer]
    BY <2>1, <1>2, <1>4, EndFacts
  <2>3. \A i \in 1 .. Len(q) : (q \o new)[i] = q[i]
    BY <2>1, <1>9
  <2>4. ASSUME NEW i \in 1 .. count PROVE (q \o new)[Len(q) + i] = new[i]
    <3>1. Len(q) + i \in 1 .. Len(q) + count /\ ~(Len(q) + i <= Len(q)) /\ (Len(q) + i) - Len(q) = i
      BY <2>1, <1>9
    <3> QED BY <3>1, <2>1
  <2>5. DOMAIN q = 1 .. Len(q) /\ DOMAIN (q \o new) = 1 .. Len(q \o new)
    BY ONLY <2>1, q \in Seq(Request), <1>4
  <2> QED BY <2>1, <2>2, <2>3, <2>4, <2>5
<1>19. TypeOK'
  <2>1. progress' \in [Ends -> Nat]
    <3>1. progress[Producer] + moved \in Nat
      BY <1>5, <1>10
    <3> QED BY <3>1, <1>3, <1>4
  <2>2. pc' \in [Ends -> {"start", "drain", "arm", "poll", "move", "parked", "idle"}]
    BY <1>3, <1>4
  <2>3. sendSeq' \in Nat
    BY <1>2, <1>7, <1>9
  <2> QED BY <2>1, <2>2, <2>3, <1>0, <1>2, <1>16, <1>18 DEF TypeOK
<1>20. EntryInv'
  BY <1>0, <1>2, Stable
<1>21. /\ Weight(q \o new, HoldsOf) = Weight(q, HoldsOf) + count /\ Weight(q, HoldsOf) \in Nat
       /\ Weight(q \o new, ControlOf) = Weight(q, ControlOf)
  <2>1. \A i \in DOMAIN new : HoldsOf[new[i]] = 1 /\ ControlOf[new[i]] = 0
    BY <1>17, ItemFacts DEF Holds
  <2>2. HoldsOf \in [Item -> Nat] /\ ControlOf \in [Item -> Nat]
    BY ItemFacts DEF Measures
  <2>3. Weight(new, HoldsOf) = count
    BY <2>1, <2>2, <1>17, WeightUniform
  <2>4. Weight(new, ControlOf) = 0
    BY <2>1, <2>2, <1>17, WeightUniform
  <2>5. /\ Weight(q \o new, HoldsOf) = Weight(q, HoldsOf) + Weight(new, HoldsOf) /\ Weight(q, HoldsOf) \in Nat
        /\ Weight(q \o new, ControlOf) = Weight(q, ControlOf) + Weight(new, ControlOf) /\ Weight(q, ControlOf) \in Nat
    BY <1>4, <1>17, QueueWeights DEF Measures
  <2> QED BY <2>3, <2>4, <2>5
<1>22. ControlInv'
  <2>1. \A f \in Ends : pc'[f] = "start" => pc[f] = "start"
    BY <1>3, <1>4
  <2>2. ASSUME NEW f \in Ends, NEW w, w = wire'[f] PROVE Weight(w, ControlOf) = Weight(wire[f], ControlOf)
    BY <2>2, <1>1, <1>18, <1>21, EndFacts
  <2>3. ASSUME NEW f \in Ends, NEW w, NEW c, w = wire'[f], c = cq'[Other(f)]
        PROVE  /\ Weight(w, ControlOf) + Weight(c, ControlOf) <= 1
               /\ pc'[f] = "start" => Weight(w, ControlOf) + Weight(c, ControlOf) = 0
    BY <2>1, <2>2, <2>3, <1>0, <1>2 DEF ControlInv
  <2> QED BY <2>3 DEF ControlInv
<1>23. CountInv'
  <2>1. ASSUME NEW w, NEW x, w = wire'[Producer], x = cq'[Consumer]
        PROVE  sendSeq' - arrTail' = Weight(w, HoldsOf) + Weight(x, HoldsOf)
    <3>1. x = cq[Consumer] /\ w = q \o new /\ arrTail' = arrTail /\ sendSeq' = sendSeq + count
      BY <2>1, <1>2, <1>18
    <3>2. sendSeq - arrTail = Weight(q, HoldsOf) + Weight(x, HoldsOf)
      BY <3>1, <1>0, <1>1 DEF CountInv
    <3>3. Weight(x, HoldsOf) \in Nat
      <4>1. x \in Seq(Item)
        BY <3>1, <1>0, EndFacts, ItemFacts DEF TypeOK
      <4> QED BY <4>1, QueueWeights DEF Measures
    <3>4. Weight(w, HoldsOf) = Weight(q, HoldsOf) + count
      BY <3>1, <1>21
    <3> QED BY ONLY <3>1, <3>2, <3>3, <3>4, <1>7, <1>9, <1>21
  <2>2. ASSUME NEW w, NEW x, w = wire'[Consumer], x = cq'[Producer]
        PROVE  arrHead' - credits' = pending' + Weight(w, HoldsOf) + Weight(x, HoldsOf)
    BY <2>2, <1>0, <1>2, <1>18 DEF CountInv
  <2>3. arrHead' <= arrTail' /\ sendSeq' - credits' <= SlotCount
    BY <1>2, <1>7, <1>8, <1>9
  <2> QED BY <2>1, <2>2, <2>3 DEF CountInv
<1>24. KindInv'
  <2>1. ASSUME NEW i \in DOMAIN wire'[Producer] PROVE wire'[Producer][i].op \in {"data", "control"}
    <3>1. i \in 1 .. Len(q) + count
      BY <1>18
    <3>2. CASE i <= Len(q)
      <4>1. i \in DOMAIN q /\ wire'[Producer][i] = q[i]
        BY <3>1, <3>2, <1>9, <1>18
      <4> QED BY <4>1, <1>0, <1>1 DEF KindInv
    <3>3. CASE i > Len(q)
      <4>1. i - Len(q) \in 1 .. count /\ Len(q) + (i - Len(q)) = i
        BY <3>1, <3>3, <1>9, <1>18
      <4>2. wire'[Producer][i] = new[i - Len(q)]
        BY <4>1, <1>18
      <4> QED BY <4>1, <4>2, <1>17
    <3> QED BY <3>1, <3>2, <3>3, <1>9, <1>18
  <2> QED BY <2>1, <1>0, <1>2, <1>18 DEF KindInv
<1> DEFINE W == InFlight(q)
           N == {Len(q) + i : i \in 1 .. count}
           C == InFlight(cq[Consumer])
<1>25. InFlight(wire[Producer])' = W \cup N /\ InFlight(cq[Consumer])' = C
  <2>1. {i \in DOMAIN wire'[Producer] : wire'[Producer][i].op = "data"} = W \cup N
    <3>1. ASSUME NEW i \in 1 .. Len(q) + count PROVE (q \o new)[i].op = "data" <=> i \in W \cup N
      <4>1. CASE i <= Len(q)
        <5>1. i \in 1 .. Len(q) /\ i \notin N
          BY <4>1, <1>9, <1>18
        <5> QED BY <5>1, <1>18 DEF InFlight
      <4>2. CASE i > Len(q)
        <5>1. i - Len(q) \in 1 .. count /\ Len(q) + (i - Len(q)) = i
          BY <4>2, <3>1, <1>9, <1>18
        <5>2. (q \o new)[i] = new[i - Len(q)]
          BY <5>1, <1>18
        <5> QED BY <5>1, <5>2, <1>17
      <4>3. i <= Len(q) \/ i > Len(q)
        BY <1>9, <1>18
      <4> QED BY <4>1, <4>2, <4>3
    <3>2. W \cup N \subseteq 1 .. Len(q) + count
      BY <1>9, <1>18 DEF InFlight
    <3> HIDE DEF W, N
    <3> QED BY <3>1, <3>2, <1>18
  <2>2. {i \in DOMAIN cq'[Consumer] : cq'[Consumer][i].op = "data"} = C
    BY <1>2 DEF InFlight
  <2> QED BY <2>1, <2>2 DEF InFlight
<1>26. /\ \A i \in W : wire'[Producer][i] = q[i] /\ i \in 1 .. Len(q)
       /\ \A i \in N : \E j \in 1 .. count : i = Len(q) + j /\ wire'[Producer][i] = new[j]
       /\ \A j \in 1 .. count : Len(q) + j \in N
  BY <1>18 DEF InFlight
<1>27. /\ \A i \in W : q[i].seq \in arrTail .. sendSeq - 1
       /\ \A i \in C : cq[Consumer][i].seq \in arrTail .. sendSeq - 1
       /\ \A i, j \in W : i < j => q[i].seq < q[j].seq
       /\ \A i, j \in C : i < j => cq[Consumer][i].seq < cq[Consumer][j].seq
       /\ \A i \in C, j \in W : cq[Consumer][i].seq < q[j].seq
       /\ \A k \in arrTail .. sendSeq - 1 :
            \/ \E i \in W : q[i].seq = k
            \/ \E i \in C : cq[Consumer][i].seq = k
  BY <1>0, <1>1 DEF FlightInv
<1>28. FlightInv'
  <2> HIDE DEF W, N, C
  <2>1. /\ cq' = cq /\ arrTail' = arrTail /\ sendSeq' = sendSeq + count
    BY <1>2
  <2>2. \A i \in N : wire'[Producer][i].seq \in sendSeq .. sendSeq' - 1
    <3> SUFFICES ASSUME NEW i \in N PROVE wire'[Producer][i].seq \in sendSeq .. sendSeq' - 1
      OBVIOUS
    <3>1. PICK j \in 1 .. count : i = Len(q) + j /\ wire'[Producer][i] = new[j]
      BY <1>26
    <3>2. new[j].seq = sendSeq + j - 1
      BY <1>17
    <3> QED BY <3>1, <3>2, <2>1, <1>7, <1>9
  <2>3. \A i \in W \cup N : wire'[Producer][i].seq \in arrTail' .. sendSeq' - 1
    <3>1. \A k : k \in arrTail .. sendSeq - 1 \/ k \in sendSeq .. sendSeq' - 1 => k \in arrTail' .. sendSeq' - 1
      BY <2>1, <1>7, <1>9
    <3> QED BY <3>1, <2>2, <1>26, <1>27
  <2>4. \A i \in C : cq'[Consumer][i].seq \in arrTail' .. sendSeq' - 1
    <3>1. \A k \in arrTail .. sendSeq - 1 : k \in arrTail' .. sendSeq' - 1
      BY <2>1, <1>7, <1>9
    <3> QED BY <3>1, <2>1, <1>27
  <2>5. ASSUME NEW i \in W \cup N, NEW j \in W \cup N, i < j
        PROVE  wire'[Producer][i].seq < wire'[Producer][j].seq
    <3>1. CASE i \in W /\ j \in W
      BY <3>1, <2>5, <1>26, <1>27
    <3>2. CASE i \in W /\ j \in N
      <4>1. wire'[Producer][i].seq \in arrTail .. sendSeq - 1 /\ wire'[Producer][j].seq \in sendSeq .. sendSeq' - 1
        BY <3>2, <2>2, <1>26, <1>27
      <4> QED BY <4>1, <2>1, <1>7, <1>9
    <3>3. CASE i \in N /\ j \in W
      <4>1. PICK a \in 1 .. count : i = Len(q) + a
        BY <3>3, <1>26
      <4>2. j \in 1 .. Len(q)
        BY <3>3, <1>26
      <4> QED BY <4>1, <4>2, <2>5, <1>9, <1>18
    <3>4. CASE i \in N /\ j \in N
      <4>1. PICK a \in 1 .. count : i = Len(q) + a /\ wire'[Producer][i] = new[a]
        BY <3>4, <1>26
      <4>2. PICK b \in 1 .. count : j = Len(q) + b /\ wire'[Producer][j] = new[b]
        BY <3>4, <1>26
      <4>3. new[a].seq = sendSeq + a - 1 /\ new[b].seq = sendSeq + b - 1
        BY <1>17
      <4> QED BY <4>1, <4>2, <4>3, <2>5, <1>7, <1>9, <1>18
    <3> QED BY <3>1, <3>2, <3>3, <3>4
  <2>6. ASSUME NEW i \in C, NEW j \in W \cup N
        PROVE  cq'[Consumer][i].seq < wire'[Producer][j].seq
    <3>1. CASE j \in W
      BY <3>1, <2>1, <1>26, <1>27
    <3>2. CASE j \in N
      <4>1. cq'[Consumer][i].seq \in arrTail .. sendSeq - 1 /\ wire'[Producer][j].seq \in sendSeq .. sendSeq' - 1
        BY <3>2, <2>1, <2>2, <1>27
      <4> QED BY <4>1, <2>1, <1>7, <1>9
    <3> QED BY <3>1, <3>2
  <2>7. \A i, j \in C : i < j => cq'[Consumer][i].seq < cq'[Consumer][j].seq
    BY <2>1, <1>27
  <2>8. ASSUME NEW k \in arrTail' .. sendSeq' - 1
        PROVE  \/ \E i \in W \cup N : wire'[Producer][i].seq = k
               \/ \E i \in C : cq'[Consumer][i].seq = k
    <3>1. CASE k < sendSeq
      <4>1. k \in arrTail .. sendSeq - 1
        BY <3>1, <2>1, <1>7, <1>9
      <4> QED BY <4>1, <2>1, <1>26, <1>27
    <3>2. CASE k >= sendSeq
      <4>1. PICK j \in 1 .. count : k = sendSeq + j - 1
        <5>1. k - sendSeq + 1 \in 1 .. count /\ k = sendSeq + (k - sendSeq + 1) - 1
          BY <3>2, <2>1, <1>7, <1>9
        <5> QED BY <5>1
      <4>2. Len(q) + j \in N /\ wire'[Producer][Len(q) + j] = new[j]
        BY <1>18, <1>26
      <4>3. new[j].seq = k
        BY <4>1, <1>17
      <4> QED BY <4>2, <4>3
    <3> QED BY <3>1, <3>2, <2>1, <1>7, <1>9
  <2> QED BY <2>3, <2>4, <2>5, <2>6, <2>7, <2>8, <1>25 DEF FlightInv
<1>29. SlotInv'
  <2> HIDE DEF W, N
  <2>1. /\ \A i \in W :
             /\ q[i].slot = q[i].seq % SlotCount
             /\ stage[q[i].slot] = [from |-> q[i].from, len |-> q[i].len]
        /\ \A i \in C :
             /\ cq[Consumer][i].slot = cq[Consumer][i].seq % SlotCount
             /\ stage[cq[Consumer][i].slot] = [from |-> cq[Consumer][i].from, len |-> cq[Consumer][i].len]
             /\ slots[cq[Consumer][i].slot] = stage[cq[Consumer][i].slot]
        /\ \A k \in arrHead .. arrTail - 1 :
             slots[k % SlotCount] = stage[k % SlotCount] /\ arrLen[k % SlotCount] = stage[k % SlotCount].len
    <3> USE DEF W
    <3> QED BY <1>0, <1>1 DEF SlotInv
  <2> HIDE DEF C
  <2>2. \A k \in arrTail .. sendSeq - 1 : stage'[k % SlotCount] = stage[k % SlotCount]
    <3>1. \A k \in arrTail .. sendSeq - 1 : k \in arrHead .. sendSeq - 1
      BY <1>7
    <3> QED BY <3>1, <1>15
  <2>3. cq' = cq /\ slots' = slots /\ arrLen' = arrLen /\ arrHead' = arrHead /\ arrTail' = arrTail
    BY <1>2
  <2>4. ASSUME NEW i \in W \cup N
        PROVE  /\ wire'[Producer][i].slot = wire'[Producer][i].seq % SlotCount
               /\ stage'[wire'[Producer][i].slot] = [from |-> wire'[Producer][i].from, len |-> wire'[Producer][i].len]
    <3>1. CASE i \in W
      <4>1. wire'[Producer][i] = q[i] /\ q[i].seq \in arrTail .. sendSeq - 1
        BY <3>1, <1>26, <1>27
      <4> QED BY <3>1, <4>1, <2>1, <2>2
    <3>2. CASE i \in N
      <4>1. PICK j \in 1 .. count : wire'[Producer][i] = new[j]
        BY <3>2, <1>26
      <4>2. /\ new[j].slot = ChunkSlot(j) /\ new[j].seq = sendSeq + j - 1
            /\ new[j].from = ChunkAt(at, rest, j).from /\ new[j].len = ChunkAt(at, rest, j).len
            /\ ChunkSlot(j) = (sendSeq + j - 1) % SlotCount
            /\ stage'[ChunkSlot(j)] = ChunkAt(at, rest, j)
        BY <1>13, <1>14, <1>17
      <4>3. ChunkAt(at, rest, j) = [from |-> ChunkAt(at, rest, j).from, len |-> ChunkAt(at, rest, j).len]
        BY DEF ChunkAt
      <4> QED BY <4>1, <4>2, <4>3
    <3> QED BY <3>1, <3>2
  <2>5. ASSUME NEW i \in C
        PROVE  /\ cq'[Consumer][i].slot = cq'[Consumer][i].seq % SlotCount
               /\ stage'[cq'[Consumer][i].slot] = [from |-> cq'[Consumer][i].from, len |-> cq'[Consumer][i].len]
               /\ slots'[cq'[Consumer][i].slot] = stage'[cq'[Consumer][i].slot]
    <3>1. cq[Consumer][i].seq \in arrTail .. sendSeq - 1
      BY <1>27
    <3> QED BY <3>1, <2>1, <2>2, <2>3
  <2>6. ASSUME NEW k \in arrHead' .. arrTail' - 1
        PROVE  slots'[k % SlotCount] = stage'[k % SlotCount] /\ arrLen'[k % SlotCount] = stage'[k % SlotCount].len
    <3>1. k \in arrHead .. arrTail - 1 /\ k \in arrHead .. sendSeq - 1
      BY <2>3, <1>7
    <3> QED BY <3>1, <2>1, <2>3, <1>15
  <2> QED BY <2>4, <2>5, <2>6, <1>25 DEF SlotInv
<1>30. StreamInv'
  <2>0. arrHead' = arrHead /\ sendSeq' = sendSeq + count
    BY <1>2
  <2>1. ASSUME NEW k \in arrHead .. sendSeq - 1
        PROVE  /\ stage'[k % SlotCount].from \in Nat /\ stage'[k % SlotCount].len \in 1 .. SlotSize
               /\ k = sendSeq + count - 1 => stage'[k % SlotCount].from + stage'[k % SlotCount].len = at + moved
               /\ k < sendSeq + count - 1 => stage'[k % SlotCount].from + stage'[k % SlotCount].len = stage'[(k + 1) % SlotCount].from
               /\ stage'[k % SlotCount].from + stage'[k % SlotCount].len <= at + moved
               /\ at + moved <= stage'[k % SlotCount].from + (sendSeq + count - k) * SlotSize
    <3>1. PICK c : c = stage[k % SlotCount] /\ c = stage'[k % SlotCount]
      BY <1>15
    <3>2. /\ c.from \in Nat /\ c.len \in 1 .. SlotSize
          /\ k = sendSeq - 1 => c.from + c.len = at
          /\ k < sendSeq - 1 => c.from + c.len = stage[(k + 1) % SlotCount].from
          /\ c.from + c.len <= at
          /\ at <= c.from + (sendSeq - k) * SlotSize
      BY <3>1, <1>0, <1>6 DEF StreamInv
    <3>3. c.len \in Nat
      BY <3>2, <1>8
    <3>4. k = sendSeq + count - 1 => c.from + c.len = at + moved
      <4> SUFFICES ASSUME k = sendSeq + count - 1 PROVE c.from + c.len = at + moved
        OBVIOUS
      <4>1. count = 0 /\ k = sendSeq - 1
        BY <1>7, <1>9
      <4>2. moved = 0
        BY <4>1, <1>8, <1>10
      <4> QED BY <4>1, <4>2, <3>2, <1>6
    <3>5. k < sendSeq + count - 1 => c.from + c.len = stage'[(k + 1) % SlotCount].from
      <4>1. CASE k < sendSeq - 1
        <5>1. k + 1 \in arrHead .. sendSeq - 1
          BY <4>1, <1>7
        <5> QED BY <5>1, <4>1, <3>2, <1>15
      <4>2. CASE k = sendSeq - 1 /\ count > 0
        <5>1. 1 \in 1 .. count
          BY <4>2, <1>9
        <5>2. ChunkSlot(1) = (k + 1) % SlotCount
          <6>1. sendSeq + 1 - 1 = k + 1
            BY <4>2, <1>7
          <6> QED BY <6>1, <5>1, <1>13
        <5>3. stage'[(k + 1) % SlotCount] = ChunkAt(at, rest, 1) /\ ChunkAt(at, rest, 1).from = at
          BY <5>1, <5>2, <1>11, <1>14
        <5> QED BY <5>3, <4>2, <3>2
      <4>3. CASE k = sendSeq - 1 /\ count = 0
        BY <4>3, <1>7
      <4>4. k < sendSeq - 1 \/ (k = sendSeq - 1 /\ (count > 0 \/ count = 0))
        BY <1>7, <1>9
      <4> QED BY <4>1, <4>2, <4>3, <4>4
    <3>6. c.from + c.len <= at + moved
      BY <3>2, <3>3, <1>6, <1>10
    <3>7. at + moved <= c.from + (sendSeq + count - k) * SlotSize
      <4>1. PICK n \in Nat : n = sendSeq - k
        BY <1>7
      <4>2. (sendSeq + count - k) * SlotSize = n * SlotSize + count * SlotSize
        <5>1. sendSeq + count - k = n + count
          BY <4>1, <1>7, <1>9
        <5> QED BY <5>1, <1>8, <1>9
      <4>3. n * SlotSize \in Nat /\ count * SlotSize \in Nat /\ at <= c.from + n * SlotSize
        BY <4>1, <3>2, <1>8, <1>9
      <4> QED BY <4>2, <4>3, <3>2, <1>6, <1>10
    <3> QED BY <3>1, <3>2, <3>4, <3>5, <3>6, <3>7
  <2>2. ASSUME NEW k \in sendSeq .. sendSeq + count - 1
        PROVE  /\ stage'[k % SlotCount].from \in Nat /\ stage'[k % SlotCount].len \in 1 .. SlotSize
               /\ k = sendSeq + count - 1 => stage'[k % SlotCount].from + stage'[k % SlotCount].len = at + moved
               /\ k < sendSeq + count - 1 => stage'[k % SlotCount].from + stage'[k % SlotCount].len = stage'[(k + 1) % SlotCount].from
               /\ stage'[k % SlotCount].from + stage'[k % SlotCount].len <= at + moved
               /\ at + moved <= stage'[k % SlotCount].from + (sendSeq + count - k) * SlotSize
    <3>1. PICK i : i = k - sendSeq + 1
      OBVIOUS
    <3>2. i \in 1 .. count /\ sendSeq + i - 1 = k /\ sendSeq + count - k = count - i + 1
      BY <3>1, <1>7, <1>9
    <3>3. ChunkSlot(i) = k % SlotCount /\ stage'[k % SlotCount] = ChunkAt(at, rest, i)
      BY <3>2, <1>13, <1>14
    <3>4. k = sendSeq + count - 1 <=> i = count
      BY <3>1, <1>7, <1>9
    <3>5. k < sendSeq + count - 1 => /\ i < count
                                     /\ stage'[(k + 1) % SlotCount] = ChunkAt(at, rest, i + 1)
      <4> SUFFICES ASSUME k < sendSeq + count - 1
                   PROVE  i < count /\ stage'[(k + 1) % SlotCount] = ChunkAt(at, rest, i + 1)
        OBVIOUS
      <4>1. i < count /\ i + 1 \in 1 .. count /\ sendSeq + (i + 1) - 1 = k + 1
        BY <3>1, <1>7, <1>9
      <4>2. ChunkSlot(i + 1) = (k + 1) % SlotCount
        BY <4>1, <1>13
      <4> QED BY <4>1, <4>2, <1>14
    <3> QED BY <3>2, <3>3, <3>4, <3>5, <1>11
  <2>3. \A k \in arrHead .. sendSeq + count - 1 : k \in arrHead .. sendSeq - 1 \/ k \in sendSeq .. sendSeq + count - 1
    BY <1>7, <1>9
  <2>4. ASSUME NEW k \in arrHead .. sendSeq + count - 1
        PROVE  /\ stage'[k % SlotCount].from \in Nat /\ stage'[k % SlotCount].len \in 1 .. SlotSize
               /\ k = sendSeq + count - 1 => stage'[k % SlotCount].from + stage'[k % SlotCount].len = at + moved
               /\ k < sendSeq + count - 1 => stage'[k % SlotCount].from + stage'[k % SlotCount].len = stage'[(k + 1) % SlotCount].from
               /\ stage'[k % SlotCount].from + stage'[k % SlotCount].len <= at + moved
               /\ at + moved <= stage'[k % SlotCount].from + (sendSeq + count - k) * SlotSize
    <3>1. CASE k \in arrHead .. sendSeq - 1
      BY ONLY <3>1, <2>1
    <3>2. CASE k \in sendSeq .. sendSeq + count - 1
      BY ONLY <3>2, <2>2
    <3> QED BY <3>1, <3>2, <2>3
  <2>5. ASSUME NEW k \in arrHead' .. sendSeq' - 1
        PROVE  /\ stage'[k % SlotCount].from \in Nat /\ stage'[k % SlotCount].len \in 1 .. SlotSize
               /\ k = sendSeq' - 1 => stage'[k % SlotCount].from + stage'[k % SlotCount].len = Sent'
               /\ k < sendSeq' - 1 => stage'[k % SlotCount].from + stage'[k % SlotCount].len = stage'[(k + 1) % SlotCount].from
               /\ stage'[k % SlotCount].from + stage'[k % SlotCount].len <= Sent'
               /\ Sent' <= stage'[k % SlotCount].from + (sendSeq' - k) * SlotSize
    <3>1. k \in arrHead .. sendSeq + count - 1
      BY <2>0, <1>7, <1>9
    <3>2. sendSeq' = sendSeq + count /\ Sent' = at + moved
      BY <2>0, <1>12
    <3>3. k = sendSeq + count - 1 <=> k = sendSeq' - 1
      BY <3>2, <2>0, <1>7, <1>9
    <3>4. k < sendSeq + count - 1 <=> k < sendSeq' - 1
      BY <3>2, <2>0, <1>7, <1>9
    <3>5. sendSeq + count - k = sendSeq' - k
      BY <3>2, <2>0, <1>7, <1>9
    <3> QED BY ONLY <3>1, <3>2, <3>3, <3>4, <3>5, <2>4
  <2> QED BY ONLY <2>5 DEF StreamInv
<1>31. ReceivedInv'
  <2>0. /\ arrHead' = arrHead /\ sendSeq' = sendSeq + count /\ arrTail' = arrTail /\ arrOffset' = arrOffset /\ received' = received
    BY <1>2
  <2>1. arrHead = sendSeq + count => Len(received) = at + moved
    <3> SUFFICES ASSUME arrHead = sendSeq + count PROVE Len(received) = at + moved
      OBVIOUS
    <3>1. count = 0 /\ arrHead = sendSeq
      BY <1>7, <1>9
    <3>2. moved = 0
      BY <3>1, <1>8, <1>10
    <3> QED BY <3>1, <3>2, <1>0, <1>6 DEF ReceivedInv
  <2>2. arrHead < sendSeq + count => Len(received) = stage'[arrHead % SlotCount].from + arrOffset
    <3>1. CASE arrHead < sendSeq
      <4>1. arrHead \in arrHead .. sendSeq - 1
        BY <3>1, <1>7
      <4> QED BY <4>1, <3>1, <1>0, <1>15 DEF ReceivedInv
    <3>2. CASE arrHead = sendSeq /\ count > 0
      <4>1. 1 \in 1 .. count
        BY <3>2, <1>9
      <4>2. ChunkSlot(1) = arrHead % SlotCount
        <5>1. sendSeq + 1 - 1 = arrHead
          BY <3>2, <1>7
        <5> QED BY <5>1, <4>1, <1>13
      <4>3. stage'[arrHead % SlotCount].from = at
        BY <4>1, <4>2, <1>11, <1>14
      <4>4. Len(received) = at /\ arrOffset = 0
        BY <3>2, <1>0, <1>6, <1>7 DEF ReceivedInv
      <4> QED BY <4>3, <4>4, <1>6
    <3> QED BY <3>1, <3>2, <1>7, <1>9
  <2>3. arrHead < arrTail => arrOffset < stage'[arrHead % SlotCount].len
    <3> SUFFICES ASSUME arrHead < arrTail PROVE arrOffset < stage'[arrHead % SlotCount].len
      OBVIOUS
    <3>1. arrHead \in arrHead .. sendSeq - 1
      BY <1>7
    <3> QED BY <3>1, <1>0, <1>15 DEF ReceivedInv
  <2> QED BY <2>0, <2>1, <2>2, <2>3, <1>0, <1>12 DEF ReceivedInv
<1>32. CallInv' /\ NoStrandedCredit'
  <2>1. \A f \in Ends : MessageSize(f)' = MessageSize(f)
    BY <1>2 DEF MessageSize
  <2>2. /\ progress'[Producer] = progress[Producer] + moved /\ progress'[Consumer] = progress[Consumer]
        /\ pc'[Consumer] = pc[Consumer] /\ pc'[Producer] # "start"
        /\ pc'[Producer] = "idle" => progress[Producer] + moved = MessageSize(Producer)
    BY <1>3, <1>4, EndFacts
  <2>3. progress[Producer] + moved <= MessageSize(Producer)
    BY <1>1, <1>5, <1>6, <1>10
  <2>4. \A f \in Ends : batch'[f] > 0 => progress'[f] <= MessageSize(f)'
    BY <2>1, <2>2, <2>3, <1>0, <1>2, EndFacts DEF CallInv
  <2>5. \A f \in Ends : batch'[f] > 0 /\ pc'[f] = "idle" => progress'[f] = MessageSize(f)'
    BY <2>1, <2>2, <1>0, <1>2, EndFacts DEF CallInv
  <2>6. (\A f \in Ends : pc'[f] = "start" => batch'[f] = 0) /\ (batch'[Consumer] = 0 => pending' = 0)
    BY <2>2, <1>0, <1>2, EndFacts DEF CallInv
  <2>7. NoStrandedCredit'
    BY <2>2, <1>0, <1>2 DEF NoStrandedCredit
  <2> QED BY <2>4, <2>5, <2>6, <2>7 DEF CallInv
<1> QED BY <1>19, <1>20, <1>22, <1>23, <1>24, <1>28, <1>29, <1>30, <1>31, <1>32 DEF IInv

\* A step that changes nothing.
LEMMA StutterInv ==
  ASSUME IInv, UNCHANGED vars
  PROVE  IInv'
<1>0. /\ TypeOK /\ EntryInv /\ ControlInv /\ KindInv /\ CountInv /\ FlightInv /\ SlotInv
      /\ StreamInv /\ ReceivedInv /\ CallInv /\ NoStrandedCredit
  BY DEF IInv
<1>1. UNCHANGED <<plan, active, pc, batch, progress, controlDone, wire, recvs, cq, armed, events,
                  stage, sendSeq, credits, slots, arrHead, arrTail, arrOffset, arrLen, pending, received>>
  BY DEF vars, callVars, cardVars, sendVars, recvVars
<1>2. Sent' = Sent
  BY <1>1 DEF Sent, StartOf
<1>3. EntryInv' /\ KindInv' /\ CountInv' /\ FlightInv' /\ SlotInv' /\ StreamInv' /\ ReceivedInv'
  BY <1>0, <1>1, <1>2, Stable
<1>4. TypeOK'
  BY <1>0, <1>1 DEF TypeOK
<1>5. ControlInv'
  BY <1>0, <1>1 DEF ControlInv
<1>6. CallInv'
  BY <1>0, <1>1 DEF CallInv, MessageSize, StartOf
<1>7. NoStrandedCredit'
  BY <1>0, <1>1 DEF NoStrandedCredit
<1> QED BY <1>3, <1>4, <1>5, <1>6, <1>7 DEF IInv

\* Every step preserves the invariant.
LEMMA NextInv == IInv /\ [Next]_vars => IInv'
<1> SUFFICES ASSUME IInv, [Next]_vars PROVE IInv'
  OBVIOUS
<1>1. CASE UNCHANGED vars
  BY <1>1, StutterInv
<1>2. CASE Finished
  BY <1>2, StutterInv DEF Finished
<1>3. ASSUME NEW e \in Ends, EndStep(e) PROVE IInv'
  <2>1. CASE DrainEvent(e) \/ Rearm(e) \/ PollEmpty(e) \/ FlagSeen(e) \/ Wake(e)
    BY <2>1, MoveOnInv
  <2>2. CASE Handshake(e)
    BY <2>2, HandshakeInv
  <2>3. CASE Poll(e)
    BY <2>3, PollInv
  <2>4. CASE Begin(e)
    BY <2>4, BeginInv
  <2>5. CASE SendMove
    BY <2>5, SendMoveInv
  <2>6. CASE RecvCopy
    BY <2>6, RecvCopyInv
  <2>7. CASE RecvReturn
    BY <2>7, RecvReturnInv
  <2> QED BY <1>3, <2>1, <2>2, <2>3, <2>4, <2>5, <2>6, <2>7 DEF EndStep
<1>4. ASSUME NEW e \in Ends, Execute(e) PROVE IInv'
  BY <1>4, ExecuteInv
<1>5. ASSUME NEW e \in Ends, Repush(e) PROVE IInv'
  BY <1>5, MoveOnInv
<1> QED BY <1>1, <1>2, <1>3, <1>4, <1>5 DEF Next

\* While a behaviour looks at the zero-copy path, the ring stands still.
LEMMA RingOfPath == PathSpec => Init /\ [][Next]_vars
<1>1. PathInit => Init
  BY DEF PathInit, RingInit, ZcInit
<1>2. [PathNext]_pathVars => [Next]_vars
  BY DEF PathNext, RingStep, ZcStep, pathVars
<1> QED BY <1>1, <1>2, PTL DEF PathSpec

\* The slots, the credits, the receive entries and the bytes of the ring stay
\* in step in every reachable state, whatever the order in which the card and
\* the two endpoints take their steps.
THEOREM RingInvariant == PathSpec => []IInv
BY InitInv, NextInv, RingOfPath, PTL

-----------------------------------------------------------------------------
(* What the invariant says about the code.                                  *)

\* Slots taken, in flight, unread and credited back add up.
LEMMA InvConserves == IInv => CreditConserved
<1> SUFFICES ASSUME IInv PROVE CreditConserved
  OBVIOUS
<1>1. TypeOK /\ CountInv
  BY DEF IInv
<1>2. PICK wp, wc, cp, cc : wp = wire[Producer] /\ wc = wire[Consumer] /\ cp = cq[Producer] /\ cc = cq[Consumer]
  OBVIOUS
<1>3. wp \in Seq(Item) /\ wc \in Seq(Item) /\ cp \in Seq(Item) /\ cc \in Seq(Item)
  BY <1>1, <1>2, EndFacts, ItemFacts DEF TypeOK
<1>4. /\ SlotsIn(wp) = Weight(wp, HoldsOf) /\ SlotsIn(wc) = Weight(wc, HoldsOf)
      /\ SlotsIn(cp) = Weight(cp, HoldsOf) /\ SlotsIn(cc) = Weight(cc, HoldsOf)
  BY <1>3, SlotsInIs
<1>5. /\ Weight(wp, HoldsOf) \in Nat /\ Weight(wc, HoldsOf) \in Nat
      /\ Weight(cp, HoldsOf) \in Nat /\ Weight(cc, HoldsOf) \in Nat
  BY <1>3, QueueWeights DEF Measures
<1>6. /\ sendSeq - arrTail = Weight(wp, HoldsOf) + Weight(cc, HoldsOf)
      /\ arrHead - credits = pending + Weight(wc, HoldsOf) + Weight(cp, HoldsOf)
  BY <1>1, <1>2 DEF CountInv
<1>7. /\ sendSeq \in Nat /\ credits \in Nat /\ arrHead \in Nat /\ arrTail \in Nat /\ pending \in Nat
      /\ credits + pending <= arrHead /\ arrHead <= arrTail /\ arrTail <= sendSeq
      /\ sendSeq <= credits + SlotCount
  BY <1>1, Bounds
<1>8. SlotCount \in Nat
  BY Sizes
<1>9. sendSeq - credits = SlotsIn(wp) + SlotsIn(cc) + (arrTail - arrHead) + pending + SlotsIn(wc) + SlotsIn(cp)
  BY ONLY <1>4, <1>5, <1>6, <1>7
<1>10. sendSeq - credits \in 0 .. SlotCount
  BY ONLY <1>7, <1>8
<1> QED BY <1>2, <1>9, <1>10 DEF CreditConserved

\* The count of slots taken always equals the slots in flight, unread and on
\* their way back, and never exceeds SlotCount: no credit is lost, invented
\* or counted twice (TryRecv's PostCredit, HandleCompletion, PostWrites).
THEOREM CreditsConserved == PathSpec => []CreditConserved
BY RingInvariant, InvConserves, PTL

\* A posted request carries an entry, and the entries used on one side are
\* bounded by the slots on the way and the one control message.
LEMMA EntriesBound ==
  ASSUME NEW q \in Seq(Item),
         \A i \in DOMAIN q : q[i].op = "credit" => q[i].len >= 1
  PROVE  Weight(q, EntryOf) <= Weight(q, HoldsOf) + Weight(q, ControlOf)
<1> DEFINE u == [i \in DOMAIN q |-> EntryOf[q[i]]]
           v == [i \in DOMAIN q |-> HoldsOf[q[i]]]
           w == [i \in DOMAIN q |-> ControlOf[q[i]]]
<1>1. EntryOf \in [Item -> Nat] /\ HoldsOf \in [Item -> Nat] /\ ControlOf \in [Item -> Nat]
  BY ItemFacts DEF Measures
<1>2. \A i \in DOMAIN q : q[i] \in Item
  OBVIOUS
<1>3. u \in Seq(Nat) /\ v \in Seq(Nat) /\ w \in Seq(Nat) /\ Len(u) = Len(q) /\ Len(v) = Len(q) /\ Len(w) = Len(q)
  <2>1. \A h \in [Item -> Nat] :
          [i \in DOMAIN q |-> h[q[i]]] \in Seq(Nat) /\ Len([i \in DOMAIN q |-> h[q[i]]]) = Len(q)
    BY <1>2
  <2> QED BY <2>1, <1>1
<1>4. DOMAIN u = DOMAIN q
  OBVIOUS
<1>5. ASSUME NEW i \in DOMAIN q PROVE u[i] <= v[i] \/ u[i] <= w[i]
  <2>1. /\ u[i] = Repost(q[i]) /\ v[i] = Holds(q[i]) /\ w[i] = (IF q[i].op = "control" THEN 1 ELSE 0)
    BY <1>2, ItemFacts
  <2>2. q[i].op = "credit" => q[i].len \in Nat /\ q[i].len >= 1
    BY <1>2 DEF Item, Request, Completion
  <2>3. Holds(q[i]) \in Nat
    BY <1>1, <1>2, ItemFacts
  <2> HIDE DEF u, v, w
  <2> QED BY <2>1, <2>2, <2>3 DEF Repost, Holds
<1> HIDE DEF u, v, w
<1>6. Total(u) <= Total(v) + Total(w)
  BY <1>3, <1>4, <1>5, TotalBound
<1> USE DEF u, v, w
<1> QED BY <1>6 DEF Weight

\* Every posted request has a receive entry waiting for it.
LEMMA InvReady == IInv => ReceiveReady
<1> SUFFICES ASSUME IInv, NEW e \in Ends PROVE Len(wire[e]) <= recvs[Other(e)]
  BY DEF ReceiveReady
<1>1. TypeOK /\ EntryInv /\ ControlInv /\ KindInv /\ CountInv
  BY DEF IInv
<1>2. PICK w, c : w = wire[e] /\ c = cq[Other(e)]
  OBVIOUS
<1>3. w \in Seq(Request) /\ w \in Seq(Item) /\ c \in Seq(Item) /\ recvs[Other(e)] \in Nat
  <2>1. /\ wire \in [Ends -> Seq(Request)] /\ cq \in [Ends -> Seq(Completion)]
        /\ recvs \in [Ends -> 0 .. RecvPool]
    BY <1>1 DEF TypeOK
  <2>2. Other(e) \in Ends
    BY EndFacts
  <2>3. recvs[Other(e)] \in Nat
    BY <2>1, <2>2, Sizes
  <2>4. w \in Seq(Request) /\ c \in Seq(Completion)
    BY <2>1, <2>2, <1>2
  <2> QED BY <2>3, <2>4, ItemFacts
<1>4. /\ \A i \in DOMAIN w : w[i].op = "credit" => w[i].len >= 1
      /\ \A i \in DOMAIN c : c[i].op = "credit" => c[i].len >= 1
      /\ \A i \in DOMAIN w : w[i].op \in {"data", "control", "credit"}
  BY <1>1, <1>2, EndFacts DEF KindInv
<1>5. Weight(w, EntryOf) = Len(w)
  <2>1. \A i \in DOMAIN w : w[i] \in Item /\ EntryOf[w[i]] = 1
    BY <1>3, <1>4, ItemFacts DEF Repost
  <2>2. EntryOf \in [Item -> Nat]
    BY ItemFacts DEF Measures
  <2> QED BY <2>1, <2>2, <1>3, WeightUniform
<1>6. /\ Weight(w, EntryOf) <= Weight(w, HoldsOf) + Weight(w, ControlOf)
      /\ Weight(c, EntryOf) <= Weight(c, HoldsOf) + Weight(c, ControlOf)
  BY <1>3, <1>4, EntriesBound
<1>7. /\ Weight(w, EntryOf) \in Nat /\ Weight(w, HoldsOf) \in Nat /\ Weight(w, ControlOf) \in Nat
      /\ Weight(c, EntryOf) \in Nat /\ Weight(c, HoldsOf) \in Nat /\ Weight(c, ControlOf) \in Nat
  BY <1>3, QueueWeights DEF Measures
<1>8. Weight(w, ControlOf) + Weight(c, ControlOf) <= 1
  BY <1>1, <1>2 DEF ControlInv
<1>9. recvs[Other(e)] + Weight(c, EntryOf) = RecvPool
  BY <1>1, <1>2, EndFacts DEF EntryInv
<1>10. /\ sendSeq \in Nat /\ credits \in Nat /\ arrHead \in Nat /\ arrTail \in Nat /\ pending \in Nat
       /\ credits + pending <= arrHead /\ arrHead <= arrTail /\ arrTail <= sendSeq
       /\ sendSeq <= credits + SlotCount
  BY <1>1, Bounds
<1>11. Weight(w, HoldsOf) + Weight(c, HoldsOf) <= SlotCount
  <2>1. SlotCount \in Nat
    BY Sizes
  <2>2. CASE e = Producer
    <3>1. sendSeq - arrTail = Weight(w, HoldsOf) + Weight(c, HoldsOf)
      BY <1>1, <1>2, <2>2, EndFacts DEF CountInv
    <3> QED BY ONLY <3>1, <2>1, <1>7, <1>10
  <2>3. CASE e = Consumer
    <3>1. arrHead - credits = pending + Weight(w, HoldsOf) + Weight(c, HoldsOf)
      BY <1>1, <1>2, <2>3, EndFacts DEF CountInv
    <3> QED BY ONLY <3>1, <2>1, <1>7, <1>10
  <2> QED BY <2>2, <2>3, EndFacts
<1>12. SlotCount \in Nat /\ RecvPool \in Nat /\ RecvPool > SlotCount
  BY Sizes
<1>13. Len(w) <= recvs[Other(e)]
  BY ONLY <1>3, <1>5, <1>6, <1>7, <1>8, <1>9, <1>11, <1>12
<1> QED BY <1>2, <1>13

\* The slots keep the bytes that were posted until they were copied out.
LEMMA InvIntact == IInv => SlotIntact
<1> SUFFICES ASSUME IInv PROVE SlotIntact
  OBVIOUS
<1>1. SlotInv
  BY DEF IInv
<1>2. \A i \in DOMAIN wire[Producer] :
        wire[Producer][i].op = "data" =>
          stage[wire[Producer][i].slot] = [from |-> wire[Producer][i].from, len |-> wire[Producer][i].len]
  BY <1>1 DEF SlotInv, InFlight
<1>3. \A i \in DOMAIN cq[Consumer] :
        cq[Consumer][i].op = "data" =>
          slots[cq[Consumer][i].slot] = [from |-> cq[Consumer][i].from, len |-> cq[Consumer][i].len]
  BY <1>1 DEF SlotInv, InFlight
<1>4. \A k \in arrHead .. arrTail - 1 : slots[k % SlotCount].len = arrLen[k % SlotCount]
  BY <1>1 DEF SlotInv
<1> QED BY <1>2, <1>3, <1>4 DEF SlotIntact

\* No slot is overwritten before both sides have read it, although the
\* completions of the writes are ignored; no request meets an empty receive
\* queue (rnr_retry_count 0 never bites); and a receiver that waits has
\* returned every credit it owes.
THEOREM SlotsAlwaysReady == PathSpec => []SlotsReady
<1>1. IInv => SlotsReady
  BY InvIntact, InvReady DEF IInv, SlotsReady
<1> QED BY <1>1, RingInvariant, PTL

-----------------------------------------------------------------------------
(* No completion is slept over.                                             *)

\* A card step: a queue that was armed raises an event, and one that was not
\* has an event to read already or is about to be armed.
LEMMA ExecuteWakes ==
  ASSUME TypeOK, WakeInv, NEW e \in Ends, Execute(e)
  PROVE  WakeInv'
<1>1. PICK arrived :
        /\ cq' = [f \in Ends |-> cq[f] \o arrived[f]]
        /\ events' = [f \in Ends |-> IF armed[f] /\ arrived[f] /= << >> THEN events[f] + 1 ELSE events[f]]
        /\ armed' = [f \in Ends |-> armed[f] /\ arrived[f] = << >>]
        /\ \A f \in Ends : arrived[f] \in Seq(Completion)
  <2> DEFINE wr == Head(wire[e])
             there == [op |-> wr.op, slot |-> wr.slot, len |-> wr.len, from |-> wr.from, seq |-> wr.seq]
             arr == [f \in Ends |-> IF f = e THEN OwnCompletion(wr) ELSE <<there>>]
  <2>1. Complete(arr)
    BY DEF Execute
  <2>2. wr \in Request
    BY DEF Execute, TypeOK
  <2>3. there \in Completion
    BY <2>2 DEF Request, Completion
  <2>4. OwnCompletion(wr) \in Seq(Completion)
    <3>1. \A op \in {"send", "write"} : [op |-> op, slot |-> 0, len |-> 0, from |-> -1, seq |-> -1] \in Completion
      <4>1. 0 \in Slots
        BY Sizes DEF Slots
      <4> QED BY <4>1 DEF Completion
    <3> HIDE DEF wr
    <3> QED BY <3>1 DEF OwnCompletion
  <2>5. <<there>> \in Seq(Completion)
    <3> HIDE DEF there
    <3> QED BY <2>3
  <2> HIDE DEF there, wr
  <2>6. \A f \in Ends : arr[f] \in Seq(Completion)
    BY <2>4, <2>5
  <2> HIDE DEF arr
  <2> QED BY <2>1, <2>6 DEF Complete
<1>2. UNCHANGED pc
  BY DEF Execute, callVars
<1>3. events \in [Ends -> Nat] /\ cq \in [Ends -> Seq(Completion)] /\ armed \in [Ends -> BOOLEAN]
  BY DEF TypeOK
<1> SUFFICES ASSUME NEW f \in Ends
             PROVE  /\ armed'[f] \/ events'[f] > 0 \/ pc[f] = "arm"
                    /\ pc[f] \in {"move", "parked"} /\ cq'[f] # << >> => events'[f] > 0
  BY <1>2 DEF WakeInv
<1>4. /\ armed[f] \/ events[f] > 0 \/ pc[f] = "arm"
      /\ pc[f] \in {"move", "parked"} /\ cq[f] # << >> => events[f] > 0
  BY DEF WakeInv
<1>5. CASE arrived[f] = << >>
  <2>1. cq'[f] = cq[f] /\ events'[f] = events[f] /\ armed'[f] = armed[f]
    <3>1. cq'[f] = cq[f]
      BY <1>1, <1>3, <1>5
    <3>2. events'[f] = events[f]
      BY <1>1, <1>5
    <3>3. armed'[f] = (armed[f] /\ TRUE)
      BY <1>1, <1>5
    <3>4. armed[f] \in BOOLEAN
      BY <1>3
    <3>5. armed'[f] = armed[f]
      BY ONLY <3>3, <3>4
    <3> QED BY <3>1, <3>2, <3>5
  <2> QED BY <2>1, <1>4
<1>6. CASE arrived[f] # << >>
  <2>1. CASE armed[f]
    <3>1. events'[f] = events[f] + 1
      BY <1>1, <1>6, <2>1
    <3>2. events'[f] > 0
      BY <3>1, <1>3
    <3> QED BY <3>2
  <2>2. CASE ~armed[f]
    <3>1. events'[f] = events[f]
      BY <1>1, <2>2
    <3> QED BY <3>1, <2>2, <1>4
  <2> QED BY <2>1, <2>2
<1> QED BY <1>5, <1>6

\* Every step keeps a waiting end's queue empty or its channel readable.
LEMMA NextWakes == TypeOK /\ WakeInv /\ [Next]_vars => WakeInv'
<1> SUFFICES ASSUME TypeOK, WakeInv, [Next]_vars PROVE WakeInv'
  OBVIOUS
<1>1. /\ pc \in [Ends -> {"start", "drain", "arm", "poll", "move", "parked", "idle"}]
      /\ events \in [Ends -> Nat] /\ cq \in [Ends -> Seq(Completion)] /\ armed \in [Ends -> BOOLEAN]
  BY DEF TypeOK
<1>2. ASSUME UNCHANGED <<cq, armed, events>>, NEW e \in Ends,
             NEW x \in {"drain", "poll", "move", "parked", "idle"},
             pc' = [pc EXCEPT ![e] = x],
             pc[e] # "arm",
             x = "move" => cq[e] = << >>,
             x = "parked" => pc[e] = "move"
      PROVE  WakeInv'
  BY <1>1, <1>2 DEF WakeInv
<1>3. CASE UNCHANGED <<pc, cq, armed, events>>
  BY <1>3 DEF WakeInv
<1>4. ASSUME NEW e \in Ends, DrainEvent(e) PROVE WakeInv'
  <2>1. UNCHANGED <<cq, armed>> /\ pc[e] = "drain"
    BY <1>4 DEF DrainEvent
  <2>2. CASE events[e] > 0
    <3>1. pc' = [pc EXCEPT ![e] = "arm"] /\ events' = [events EXCEPT ![e] = @ - 1]
      BY <1>4, <2>2 DEF DrainEvent
    <3> QED BY <3>1, <2>1, <1>1 DEF WakeInv
  <2>3. CASE ~(events[e] > 0)
    <3>1. pc' = [pc EXCEPT ![e] = "poll"] /\ events' = events
      BY <1>4, <2>3 DEF DrainEvent
    <3> QED BY <3>1, <2>1, <1>2
  <2> QED BY <2>2, <2>3
<1>5. ASSUME NEW e \in Ends, Rearm(e) PROVE WakeInv'
  <2>1. /\ UNCHANGED <<cq, events>> /\ pc' = [pc EXCEPT ![e] = "drain"]
        /\ armed' = [armed EXCEPT ![e] = TRUE]
    BY <1>5 DEF Rearm
  <2> QED BY <2>1, <1>1 DEF WakeInv
<1>6. ASSUME NEW e \in Ends, Handshake(e) PROVE WakeInv'
  BY <1>6, <1>2 DEF Handshake
<1>7. ASSUME NEW e \in Ends, Poll(e) PROVE WakeInv'
  <2>1. UNCHANGED <<pc, armed, events>> /\ cq' = [cq EXCEPT ![e] = Tail(@)] /\ pc[e] = "poll"
    BY <1>7 DEF Poll
  <2> QED BY <2>1, <1>1 DEF WakeInv
<1>8. ASSUME NEW e \in Ends, PollEmpty(e) PROVE WakeInv'
  BY <1>8, <1>2 DEF PollEmpty, cardVars
<1>9. ASSUME NEW e \in Ends, FlagSeen(e) PROVE WakeInv'
  <2>1. PICK x \in {"idle", "parked"} : pc' = [pc EXCEPT ![e] = x]
    BY <1>9 DEF FlagSeen
  <2>2. UNCHANGED <<cq, armed, events>> /\ pc[e] = "move"
    BY <1>9 DEF FlagSeen, cardVars
  <2> QED BY <2>1, <2>2, <1>2
<1>10. ASSUME NEW e \in Ends, Begin(e) PROVE WakeInv'
  <2>1. PICK x \in {"drain", "poll"} : pc' = [pc EXCEPT ![e] = x]
    BY <1>10 DEF Begin, Process
  <2>2. UNCHANGED <<cq, armed, events>> /\ pc[e] = "idle"
    BY <1>10 DEF Begin, cardVars
  <2> QED BY <2>1, <2>2, <1>2
<1>11. ASSUME NEW e \in Ends, Wake(e) \/ Repush(e) PROVE WakeInv'
  BY <1>11, <1>2 DEF Wake, Repush, cardVars
<1>12. ASSUME NEW e \in Ends, NEW n, Return(e, n), UNCHANGED <<cq, armed, events>>, pc[e] = "move"
       PROVE  WakeInv'
  <2>1. PICK x \in {"idle", "parked", "poll"} : pc' = [pc EXCEPT ![e] = x]
    BY <1>12 DEF Return
  <2> QED BY <2>1, <1>12, <1>2
<1>13. CASE SendMove
  <2>1. /\ UNCHANGED <<cq, armed, events>> /\ pc[Producer] = "move"
        /\ \E n : Return(Producer, n)
    BY <1>13 DEF SendMove
  <2> QED BY <2>1, <1>12, EndFacts
<1>14. CASE RecvCopy
  BY <1>14, <1>3 DEF RecvCopy, cardVars
<1>15. CASE RecvReturn
  <2>1. UNCHANGED <<cq, armed, events>> /\ pc[Consumer] = "move" /\ \E n : Return(Consumer, n)
    BY <1>15 DEF RecvReturn
  <2> QED BY <2>1, <1>12, EndFacts
<1>16. ASSUME NEW e \in Ends, Execute(e) PROVE WakeInv'
  BY <1>16, ExecuteWakes
<1>17. CASE UNCHANGED vars
  BY <1>17, <1>3 DEF vars, callVars, cardVars
<1>18. CASE Finished
  BY <1>18, <1>17 DEF Finished
<1> QED BY <1>4, <1>5, <1>6, <1>7, <1>8, <1>9, <1>10, <1>11, <1>13, <1>14, <1>15, <1>16, <1>17, <1>18
        DEF Next, EndStep

\* An end that sleeps on its completion channel never sleeps over a
\* completion: DrainCompletionEvents re-arms before the queue is polled, so
\* one that arrives after the last poll raises an event.
THEOREM WakeupsKept == PathSpec => []NoLostWakeup
<1>1. Init => WakeInv
  BY DEF Init, WakeInv
<1>2. IInv => TypeOK
  BY DEF IInv
<1>3. WakeInv => NoLostWakeup
  BY DEF WakeInv, NoLostWakeup
<1> QED BY <1>1, <1>2, <1>3, NextWakes, RingInvariant, RingOfPath, PTL

-----------------------------------------------------------------------------
(* The ring is a byte channel.                                              *)

\* What was accepted and not yet received fits into the slots.
StreamFits ==
  /\ Sent \in Nat /\ Len(received) \in Nat
  /\ Len(received) <= Sent /\ Sent - Len(received) <= SlotCount * SlotSize

\* The bytes in the unread slots and the receiver's place in them add up.
LEMMA StreamBound == IInv => StreamFits
<1> SUFFICES ASSUME IInv PROVE StreamFits
  OBVIOUS
<1> USE DEF StreamFits
<1>1. TypeOK /\ CountInv /\ StreamInv /\ ReceivedInv
  BY DEF IInv
<1>2. /\ sendSeq \in Nat /\ credits \in Nat /\ arrHead \in Nat /\ arrTail \in Nat /\ pending \in Nat
      /\ credits + pending <= arrHead /\ arrHead <= arrTail /\ arrTail <= sendSeq
      /\ sendSeq <= credits + SlotCount
  BY <1>1, Bounds
<1>3. SlotCount \in Nat /\ SlotSize \in Nat
  BY Sizes
<1>4. Len(received) \in Nat /\ arrOffset \in Nat
  BY <1>1 DEF TypeOK
<1>5. Sent \in Nat
  <2>1. CASE batch[Producer] = 0
    BY <2>1 DEF Sent
  <2>2. CASE batch[Producer] # 0
    <3>1. batch[Producer] \in 0 .. Len(plan) /\ Len(plan) \in Nat /\ progress[Producer] \in Nat
      BY <1>1, EndFacts, PlanFacts DEF TypeOK
    <3>2. batch[Producer] > 0
      BY <3>1, <2>2
    <3>3. StartOf(plan, batch[Producer]) \in Nat
      BY <3>2, <1>1, EndFacts, MessageFacts DEF TypeOK
    <3> QED BY <3>1, <3>3, <2>2 DEF Sent
  <2> QED BY <2>1, <2>2
<1>6. SlotCount * SlotSize \in Nat
  BY <1>3
<1>7. CASE arrHead = sendSeq
  <2>1. Len(received) = Sent
    BY <1>1, <1>7 DEF ReceivedInv
  <2> QED BY <2>1, <1>4, <1>5, <1>6
<1>8. CASE arrHead < sendSeq
  <2>1. arrHead \in arrHead .. sendSeq - 1
    BY <1>2, <1>8
  <2>2. PICK c : c = stage[arrHead % SlotCount]
    OBVIOUS
  <2>3. /\ c.from \in Nat /\ c.len \in 1 .. SlotSize /\ c.from + c.len <= Sent
        /\ Sent <= c.from + (sendSeq - arrHead) * SlotSize
    BY <2>1, <2>2, <1>1 DEF StreamInv
  <2>4. Len(received) = c.from + arrOffset /\ arrOffset <= c.len
    <3>1. Len(received) = c.from + arrOffset
      BY <2>2, <1>1, <1>8 DEF ReceivedInv
    <3>2. CASE arrHead = arrTail
      BY <3>1, <3>2, <2>3, <1>1, <1>3 DEF ReceivedInv
    <3>3. CASE arrHead < arrTail
      BY <3>1, <3>3, <2>2, <2>3, <1>1, <1>3, <1>4 DEF ReceivedInv
    <3> QED BY <3>2, <3>3, <1>2
  <2>5. (sendSeq - arrHead) * SlotSize <= SlotCount * SlotSize
    <3>1. PICK a \in Nat, b \in Nat : a = sendSeq - arrHead /\ SlotCount = a + b
      <4>1. sendSeq - arrHead \in Nat /\ SlotCount - (sendSeq - arrHead) \in Nat
        BY <1>2, <1>3
      <4>2. SlotCount = (sendSeq - arrHead) + (SlotCount - (sendSeq - arrHead))
        BY <1>2, <1>3
      <4> QED BY <4>1, <4>2
    <3>2. SlotCount * SlotSize = a * SlotSize + b * SlotSize /\ a * SlotSize \in Nat /\ b * SlotSize \in Nat
      BY <3>1, <1>3
    <3> QED BY <3>1, <3>2
  <2>6. (sendSeq - arrHead) * SlotSize \in Int
    BY <1>2, <1>3
  <2>7. c.len \in Nat
    BY <2>3, <1>3
  <2> QED BY <2>3, <2>4, <2>5, <2>6, <2>7, <1>4, <1>5, <1>6
<1> QED BY <1>2, <1>7, <1>8

\* A step that changes what was accepted moves SendMove's bytes, one that
\* changes what was received RecvCopy's, and no step does both.
LEMMA ChannelStep ==
  ASSUME IInv, [Next]_vars
  PROVE  \/ Sent' = Sent /\ received' = received
         \/ \E n \in Nat : Sent' = Sent + n /\ received' = received
         \/ \E n \in Nat \ {0} : /\ Sent' = Sent /\ Len(received) + n <= Sent
                                 /\ received' = received \o [i \in 1 .. n |-> Len(received) + i - 1]
<1>0. TypeOK /\ CallInv /\ CountInv /\ SlotInv /\ StreamInv /\ ReceivedInv
  BY DEF IInv
<1>1. ASSUME UNCHANGED <<plan, batch, progress, received>> PROVE Sent' = Sent /\ received' = received
  BY <1>1 DEF Sent, StartOf
<1>2. ASSUME NEW e \in Ends, Begin(e) PROVE Sent' = Sent /\ received' = received
  <2>1. /\ plan' = plan /\ received' = received /\ pc[e] = "idle" /\ batch[e] < Len(plan)
        /\ batch' = [batch EXCEPT ![e] = @ + 1] /\ progress' = [progress EXCEPT ![e] = 0]
    BY <1>2 DEF Begin, recvVars
  <2>2. batch \in [Ends -> 0 .. Len(plan)] /\ progress \in [Ends -> Nat] /\ Len(plan) \in Nat
    BY <1>0, PlanFacts DEF TypeOK
  <2>3. CASE e = Consumer
    <3>1. batch'[Producer] = batch[Producer] /\ progress'[Producer] = progress[Producer]
      BY <2>1, <2>2, <2>3, EndFacts
    <3> QED BY <3>1, <2>1 DEF Sent, StartOf
  <2>4. CASE e = Producer
    <3>1. batch'[Producer] = batch[Producer] + 1 /\ progress'[Producer] = 0 /\ batch[Producer] \in Nat
      BY <2>1, <2>2, <2>4, EndFacts
    <3>2. Sent' = StartOf(plan, batch[Producer] + 1) + 0
      BY <3>1, <2>1 DEF Sent, StartOf
    <3>3. CASE batch[Producer] = 0
      <4>1. batch[Producer] + 1 = 1 /\ Sent = 0
        BY <3>3 DEF Sent
      <4>2. StartOf(plan, 1) = 0
        BY DEF StartOf
      <4> QED BY <4>1, <4>2, <3>2, <2>1
    <3>4. CASE batch[Producer] # 0
      <4>1. batch[Producer] > 0
        BY <3>1, <3>4
      <4>2. progress[Producer] = MessageSize(Producer)
        BY <4>1, <2>1, <2>4, <1>0, EndFacts DEF CallInv
      <4>3. /\ StartOf(plan, batch[Producer]) \in Nat /\ MessageSize(Producer) \in Nat
            /\ StartOf(plan, batch[Producer]) + MessageSize(Producer) = plan[batch[Producer]].end
        BY <4>1, <1>0, EndFacts, MessageFacts DEF TypeOK
      <4>4. StartOf(plan, batch[Producer] + 1) = plan[batch[Producer]].end
        <5>1. batch[Producer] + 1 # 1 /\ (batch[Producer] + 1) - 1 = batch[Producer]
          BY <3>1, <3>4
        <5> QED BY <5>1 DEF StartOf
      <4>5. Sent = plan[batch[Producer]].end
        BY <4>2, <4>3, <3>4 DEF Sent
      <4>6. plan[batch[Producer]].end \in Nat
        BY <4>3
      <4> QED BY <4>4, <4>5, <4>6, <3>2, <2>1
    <3> QED BY <3>3, <3>4, <2>1
  <2> QED BY <2>3, <2>4, EndFacts
<1>3. CASE SendMove
  <2>1. PICK n, count, rest :
          /\ n = Min({count * SlotSize, rest})
          /\ rest = MessageSize(Producer) - progress[Producer]
          /\ count = Min({Available, Chunks(rest)})
          /\ progress' = [progress EXCEPT ![Producer] = progress[Producer] + n]
    BY <1>3 DEF SendMove, Return
  <2>2. plan' = plan /\ batch' = batch /\ received' = received /\ batch[Producer] > 0
    BY <1>3 DEF SendMove, recvVars
  <2>3. /\ progress \in [Ends -> Nat] /\ StartOf(plan, batch[Producer]) \in Nat /\ MessageSize(Producer) \in Nat
        /\ progress[Producer] <= MessageSize(Producer) /\ progress[Producer] \in Nat
    BY <2>2, <1>0, EndFacts, MessageFacts DEF TypeOK, CallInv
  <2>4. rest \in Nat
    BY <2>1, <2>3
  <2>5. /\ sendSeq \in Nat /\ credits \in Nat /\ sendSeq <= credits + SlotCount
    BY <1>0, Bounds
  <2>6. SlotCount \in Nat /\ SlotSize \in Nat
    BY Sizes
  <2>7. Available \in Nat /\ Chunks(rest) \in Nat
    BY <2>4, <2>5, <2>6, ChunkStart DEF Available
  <2>8. count \in Nat
    BY <2>7, <2>1, MinOfTwo
  <2>9. count * SlotSize \in Nat
    BY <2>6, <2>8
  <2>10. n \in Nat
    <3>1. PICK a \in Nat : a = count * SlotSize
      BY <2>9
    <3>2. n = Min({a, rest})
      BY <3>1, <2>1
    <3>3. Min({a, rest}) = IF a <= rest THEN a ELSE rest
      BY <2>4, MinOfTwo
    <3> QED BY <3>2, <3>3, <2>4
  <2>11. progress'[Producer] = progress[Producer] + n /\ batch[Producer] # 0
    BY <2>1, <2>2, <2>3, EndFacts
  <2>12. Sent' = StartOf(plan, batch[Producer]) + (progress[Producer] + n)
    BY <2>2, <2>11 DEF Sent, StartOf
  <2>13. Sent = StartOf(plan, batch[Producer]) + progress[Producer]
    BY <2>11 DEF Sent
  <2>14. Sent' = Sent + n
    BY <2>3, <2>10, <2>12, <2>13
  <2> QED BY <2>2, <2>10, <2>14
<1>4. CASE RecvCopy
  <2>1. PICK length, chunk :
          /\ length = arrLen[arrHead % SlotCount]
          /\ chunk = Min({length - arrOffset, MessageSize(Consumer) - progress[Consumer]})
          /\ received' = received \o SlotBytes(chunk)
          /\ progress' = [progress EXCEPT ![Consumer] = @ + chunk]
    BY <1>4 DEF RecvCopy
  <2>2. /\ plan' = plan /\ batch' = batch /\ batch[Consumer] > 0
        /\ progress[Consumer] < MessageSize(Consumer) /\ arrHead # arrTail
    BY <1>4 DEF RecvCopy
  <2>3. Sent' = Sent
    <3>1. progress'[Producer] = progress[Producer]
      BY <2>1, <1>0, EndFacts DEF TypeOK
    <3> QED BY <3>1, <2>2 DEF Sent, StartOf
  <2>4. /\ arrHead \in Nat /\ arrTail \in Nat /\ sendSeq \in Nat /\ arrHead < arrTail /\ arrTail <= sendSeq
    BY <2>2, <1>0, Bounds
  <2>5. arrHead \in arrHead .. arrTail - 1 /\ arrHead \in arrHead .. sendSeq - 1 /\ arrHead < sendSeq
    BY <2>4
  <2>6. PICK c : c = stage[arrHead % SlotCount]
    OBVIOUS
  <2>7. slots[arrHead % SlotCount] = c /\ length = c.len
    BY <2>1, <2>5, <2>6, <1>0 DEF SlotInv
  <2>8. c.from \in Nat /\ c.len \in 1 .. SlotSize /\ c.from + c.len <= Sent
    BY <2>5, <2>6, <1>0 DEF StreamInv
  <2>9. Len(received) = c.from + arrOffset /\ arrOffset < c.len
    BY <2>4, <2>5, <2>6, <1>0 DEF ReceivedInv
  <2>10. /\ arrOffset \in Nat /\ MessageSize(Consumer) \in Nat /\ progress[Consumer] \in Nat
    BY <2>2, <1>0, EndFacts, MessageFacts DEF TypeOK
  <2>11. c.len \in Nat /\ c.len - arrOffset \in Int /\ MessageSize(Consumer) - progress[Consumer] \in Int
    <3>1. SlotSize \in Nat
      BY Sizes
    <3> QED BY <3>1, <2>8, <2>10
  <2>12. chunk = IF c.len - arrOffset <= MessageSize(Consumer) - progress[Consumer]
                 THEN c.len - arrOffset ELSE MessageSize(Consumer) - progress[Consumer]
    BY <2>1, <2>7, <2>11, MinOfTwo
  <2>13. chunk \in Nat \ {0} /\ chunk <= c.len - arrOffset
    BY <2>2, <2>9, <2>10, <2>11, <2>12
  <2>14. Sent \in Nat
    BY StreamBound DEF StreamFits
  <2>15. Len(received) + chunk <= Sent
    BY ONLY <2>8, <2>9, <2>10, <2>11, <2>13, <2>14, SMTT(30)
  <2>16. SlotBytes(chunk) = [i \in 1 .. chunk |-> Len(received) + i - 1]
    BY <2>7, <2>9 DEF SlotBytes
  <2> QED BY <2>1, <2>3, <2>13, <2>15, <2>16
<1>5. CASE RecvReturn
  <2>1. /\ plan' = plan /\ batch' = batch /\ received' = received
        /\ progress' = [progress EXCEPT ![Consumer] = progress[Consumer]]
    BY <1>5 DEF RecvReturn, Return
  <2>2. progress'[Producer] = progress[Producer]
    BY <2>1, <1>0, EndFacts DEF TypeOK
  <2> QED BY <2>1, <2>2 DEF Sent, StartOf
<1>6. ASSUME NEW e \in Ends, \/ Handshake(e) \/ DrainEvent(e) \/ Rearm(e) \/ Poll(e) \/ PollEmpty(e)
                             \/ FlagSeen(e) \/ Wake(e) \/ Repush(e) \/ Execute(e)
      PROVE  UNCHANGED <<plan, batch, progress, received>>
  BY <1>6 DEF Handshake, DrainEvent, Rearm, Poll, PollEmpty, FlagSeen, Wake, Repush, Execute, callVars, recvVars
<1>7. CASE UNCHANGED vars
  BY <1>7, <1>1 DEF vars, callVars, recvVars
<1>8. CASE Finished
  BY <1>8, <1>7 DEF Finished
<1> QED BY <1>1, <1>2, <1>3, <1>4, <1>5, <1>6, <1>7, <1>8 DEF Next, EndStep

\* A step of the ring is a step of the byte channel, or none.
LEMMA StepRefines ==
  IInv /\ StreamFits /\ StreamFits' /\ [Next]_vars => [Channel!ChannelNext]_(Channel!channelVars)
<1> SUFFICES ASSUME IInv, StreamFits, StreamFits', [Next]_vars PROVE [Channel!ChannelNext]_(Channel!channelVars)
  OBVIOUS
<1> DEFINE cap == SlotCount * SlotSize
<1>1. /\ Sent \in Nat /\ Len(received) \in Nat /\ Len(received) <= Sent /\ Sent - Len(received) <= cap
  BY DEF StreamFits
<1>2. /\ Sent' \in Nat /\ Len(received') \in Nat /\ Len(received') <= Sent' /\ Sent' - Len(received') <= cap
  BY DEF StreamFits
<1>3. cap \in Nat
  BY Sizes
<1> HIDE DEF cap
<1>4. CASE Sent' = Sent /\ received' = received
  BY <1>4 DEF Channel!channelVars, Sent
<1>5. ASSUME NEW n \in Nat, Sent' = Sent + n, received' = received
      PROVE  [Channel!ChannelNext]_(Channel!channelVars)
  <2>1. CASE n = 0
    BY <2>1, <1>1, <1>4, <1>5
  <2>2. CASE n # 0
    <3>1. n \in 1 .. cap /\ Sent + n - Len(received) <= cap
      BY <2>2, <1>1, <1>2, <1>3, <1>5
    <3>2. Channel!Put(n)
      BY <3>1, <2>2, <1>5 DEF Channel!Put, Sent, cap
    <3> QED BY <3>1, <3>2 DEF Channel!ChannelNext, cap
  <2> QED BY <2>1, <2>2
<1>6. ASSUME NEW n \in Nat \ {0}, Sent' = Sent, Len(received) + n <= Sent,
             received' = received \o [i \in 1 .. n |-> Len(received) + i - 1]
      PROVE  [Channel!ChannelNext]_(Channel!channelVars)
  <2>1. n \in 1 .. cap
    BY <1>1, <1>3, <1>6
  <2>2. Channel!Get(n)
    BY <1>6 DEF Channel!Get, Channel!StreamSlice, Sent
  <2> QED BY <2>1, <2>2 DEF Channel!ChannelNext, cap
<1> QED BY <1>4, <1>5, <1>6, ChannelStep

\* TransportRDMA's copying path implements the bounded lossless byte channel:
\* TryRecv hands out exactly the bytes TrySend accepted, in order, each once,
\* and at most SlotCount * SlotSize of them are on the way.
THEOREM RdmaImplementsChannel == PathSpec => ImplementsChannel
<1>1. Init => Channel!ChannelInit
  BY EndFacts DEF Init, Channel!ChannelInit
<1> QED BY <1>1, StepRefines, StreamBound, RingInvariant, RingOfPath, PTL DEF ImplementsChannel, Channel!ChannelSpec

-----------------------------------------------------------------------------
(* The invariant of the zero-copy path *)

ZcEnds == {"sender", "receiver"}

\* The chunk size both ends arrive at, the chunks of a message, and where
\* the k-th of them lies.
Cut == IF ZcChunk["sender"] <= ZcChunk["receiver"] THEN ZcChunk["sender"] ELSE ZcChunk["receiver"]
ChunksIn(size) == (size + Cut - 1) \div Cut
ZcTotal(b) == ChunksIn(zcPlan[b].size)
ChunkFrom(k) == (k - 1) * Cut
ChunkLen(b, k) == IF Cut <= zcPlan[b].size - ChunkFrom(k) THEN Cut ELSE zcPlan[b].size - ChunkFrom(k)

IsLarge(b) == zcPlan[b].size >= Threshold

Requests(e) == IF e = "sender" THEN sq ELSE rq

Piece == [msg : Nat, from : Nat, to : Nat, len : Nat]
Report == [op : {"zc_send", "zc_recv", "ring"}, id : Nat]
Region == [buf : Int, size : Nat, key : Nat]

\* No message up to b has failed at either end.
Settled(b) == \A a \in aborted : b < a[2]

ZcTypes ==
  /\ zcPlan \in ZcPlans
  /\ zcBatch \in [ZcEnds -> Nat] /\ (\A e \in ZcEnds : zcBatch[e] \in 1 .. Len(zcPlan) + 1)
  /\ zcActive \in [ZcEnds -> BOOLEAN]
  /\ posted \in [ZcEnds -> Nat] /\ completed \in [ZcEnds -> Nat]
  /\ mr \in [ZcEnds -> Region]
  /\ sq \in Seq(Zc!ZcRequest) /\ rq \in Seq(Zc!ZcRequest)
  /\ acks \in Seq(Nat)
  /\ zcCq \in [ZcEnds -> Seq(Report)]
  /\ ringWire \in Nat /\ arrivals \in Nat
  /\ filled \in [DOMAIN zcPlan -> Seq(Piece)]
  /\ aborted \in SUBSET (ZcEnds \X DOMAIN zcPlan) /\ torn \in SUBSET ZcEnds

\* The counters of end e, whatever has failed.
Counted(e) ==
  /\ posted[e] - completed[e] <= Window
  /\ (~zcActive[e] => posted[e] = 0)
  /\ (zcActive[e] => posted[e] <= ChunksIn(mr[e].size))

\* What e has failed at lies behind it; what is left of a torn chain is of
\* such a message, or of a later one.
Behind(e) ==
  /\ (\A a \in aborted : a[1] = e => a[2] < zcBatch[e])
  /\ (e \in torn => (\E a \in aborted : a[1] = e) /\ \A i \in DOMAIN Requests(e) : ~Settled(Requests(e)[i].msg))

\* Up to a failure, the transfer an end has begun is that of its message.
AtMessage(e) ==
  Settled(zcBatch[e]) /\ zcActive[e] =>
    /\ zcBatch[e] <= Len(zcPlan) /\ IsLarge(zcBatch[e])
    /\ mr[e].buf = zcPlan[zcBatch[e]].buf[e] /\ mr[e].size = zcPlan[zcBatch[e]].size

\* Request q asks for the k-th chunk of message b, in the region with that key.
AsksFor(q, b, k, key) == q.id = k /\ q.msg = b /\ q.from = ChunkFrom(k) /\ q.len = ChunkLen(b, k) /\ q.key = key

\* A message end e may have requests for: its own, or one that failed there,
\* and the registered region is for it.
Owned(e, b) ==
  /\ b \in DOMAIN zcPlan /\ IsLarge(b)
  /\ b = zcBatch[e] \/ <<e, b>> \in aborted
  /\ mr[e].buf = zcPlan[b].buf[e] /\ mr[e].size = zcPlan[b].size

\* The requests of e the card has not executed are the last ones posted.
Queued(e) ==
  /\ completed[e] <= posted[e] - Len(Requests(e))
  /\ \A i \in DOMAIN Requests(e) :
       /\ Owned(e, Requests(e)[i].msg)
       /\ AsksFor(Requests(e)[i], Requests(e)[i].msg, posted[e] - Len(Requests(e)) + i, mr[e].key)

\* How many chunks of a message are in the receiver's buffer, as end e could
\* tell: this is what keeps the two ends in step, up to a failure.
Executed(e) ==
  \A b \in DOMAIN zcPlan : Settled(b) =>
    /\ (b < zcBatch[e] => Len(filled[b]) = IF IsLarge(b) THEN ZcTotal(b) ELSE 0)
    /\ (b = zcBatch[e] => Len(filled[b]) = posted[e] - Len(Requests(e)))
    /\ (b > zcBatch[e] => Len(filled[b]) = 0)

\* The chunks in the receiver's buffer are its message's, in order.
Pieces ==
  \A b \in DOMAIN zcPlan : Settled(b) =>
    /\ Len(filled[b]) <= ZcTotal(b)
    /\ (\A k \in DOMAIN filled[b] : filled[b][k] = [msg |-> b, from |-> ChunkFrom(k), to |-> ChunkFrom(k), len |-> ChunkLen(b, k)])

\* Completions of RECVs: each is of a request posted, and a failing poll may
\* have lost some.
RecvIn(q) == {i \in DOMAIN q : q[i].op = "zc_recv"}

RecvAccounted == completed["receiver"] + Cardinality(RecvIn(zcCq["receiver"])) + Len(rq) <= posted["receiver"]

\* Those of signaled SENDs: in the order of their wr_ids, none of them old,
\* none of a request not executed.
SendAccounted ==
  /\ (\A i \in DOMAIN zcCq["sender"] :
        /\ zcCq["sender"][i].op = "zc_send"
        /\ zcCq["sender"][i].id > completed["sender"] /\ zcCq["sender"][i].id <= posted["sender"] - Len(sq)
        /\ (\A j \in DOMAIN zcCq["sender"] : i < j => zcCq["sender"][i].id < zcCq["sender"][j].id)
        /\ (\A j \in DOMAIN acks : zcCq["sender"][i].id < acks[j]))
  /\ (\A i \in DOMAIN acks :
        /\ acks[i] > completed["sender"] /\ acks[i] <= posted["sender"] - Len(sq)
        /\ (\A j \in DOMAIN acks : i < j => acks[i] < acks[j]))

Accounted(e) == IF e = "sender" THEN SendAccounted ELSE RecvAccounted

\* Of an end that has posted no chain in part.
Whole(e) == e \notin torn => Queued(e) /\ Accounted(e)

EndInv(e) == Counted(e) /\ Behind(e) /\ AtMessage(e) /\ Whole(e) /\ Executed(e)

ZcInv == ZcTypes /\ Pieces /\ \A e \in ZcEnds : EndInv(e)

-----------------------------------------------------------------------------
(* Chunks *)

\* The instance's copies of the finite-set operators are those operators.
LEMMA ZcCopies ==
  /\ (\A S : Zc!Cardinality(S) = Cardinality(S)) /\ (\A S : Zc!Min(S) = Min(S)) /\ (\A S : Zc!Max(S) = Max(S))
BY Zenon DEF Zc!Cardinality, Cardinality, Zc!Min, Min, Zc!Max, Max

\* A size rounded up to whole chunks: every chunk begins inside, the last
\* one reaches the end.
LEMMA RoundUp ==
  ASSUME NEW c \in Nat \ {0}, NEW n \in Nat \ {0}
  PROVE  /\ (n + c - 1) \div c \in Nat \ {0}
         /\ n <= ((n + c - 1) \div c) * c
         /\ (((n + c - 1) \div c) - 1) * c < n
<1>1. PICK m \in Nat : m = n + c - 1 /\ m >= c
  OBVIOUS
<1>2. PICK t \in Int : t = m \div c
  BY <1>1
<1>3. m = c * t + (m % c) /\ m % c \in 0 .. c - 1
  BY <1>1, <1>2, SMTT(30)
<1>4. c * t <= m /\ m < c * t + c
  BY <1>3
<1>5. t > 0
  <2>1. CASE t <= 0
    <3>1. c * t <= 0
      BY <2>1, SMTT(30)
    <3> QED BY <3>1, <1>1, <1>4
  <2> QED BY <2>1
<1>6. t * c = c * t /\ (t - 1) * c = c * t - c /\ c * t \in Int
  BY SMTT(30)
<1> QED BY <1>1, <1>2, <1>4, <1>5, <1>6

\* What the assumptions give of the chunk size and of a message.
LEMMA CutFacts ==
  /\ Cut \in Nat \ {0} /\ Window \in Nat \ {0} /\ Threshold \in Nat \ {0}
  /\ (\A e \in ZcEnds : Zc!Chunk(e) = Cut) /\ Zc!Ends = ZcEnds
<1>1. Zc!Ends = ZcEnds /\ Zc!Sender = "sender" /\ Zc!Receiver = "receiver"
  BY DEF Zc!Ends, ZcEnds, Zc!Sender, Zc!Receiver
<1>2. ZcChunk["sender"] \in Nat \ {0} /\ ZcChunk["receiver"] \in Nat \ {0}
  BY <1>1, ZcAssumption DEF ZcEnds
<1>3. \A a, b \in Int : Zc!Min({a, b}) = IF a <= b THEN a ELSE b
  BY MinOfTwo, ZcCopies
<1>4. ASSUME NEW e \in ZcEnds PROVE Zc!Chunk(e) = Cut
  <2>1. CASE e = "sender"
    <3>1. Zc!Chunk(e) = Zc!Min({ZcChunk["sender"], ZcChunk["receiver"]})
      BY <1>1, <2>1 DEF Zc!Chunk, Zc!Other
    <3> QED BY <3>1, <1>2, <1>3 DEF Cut
  <2>2. CASE e = "receiver"
    <3>1. Zc!Chunk(e) = Zc!Min({ZcChunk["receiver"], ZcChunk["sender"]})
      BY <1>1, <2>2 DEF Zc!Chunk, Zc!Other
    <3> QED BY <3>1, <1>2, <1>3 DEF Cut
  <2> QED BY <2>1, <2>2 DEF ZcEnds
<1> QED BY <1>1, <1>2, <1>4, ZcAssumption DEF Cut

\* A message of the plan.
LEMMA ZcMessageFacts ==
  ASSUME zcPlan \in ZcPlans
  PROVE  /\ zcPlan \in Seq(Zc!Message) /\ Len(zcPlan) \in Nat /\ DOMAIN zcPlan = 1 .. Len(zcPlan)
         /\ (\A b \in DOMAIN zcPlan : zcPlan[b].size \in Nat \ {0} /\ zcPlan[b].buf \in [ZcEnds -> Nat])
<1>1. zcPlan \in Seq(Zc!Message) /\ \A b \in DOMAIN zcPlan : zcPlan[b].size > 0
  BY ZcAssumption
<1>2. Zc!Message = [size : Nat, buf : [ZcEnds -> Nat]]
  BY CutFacts DEF Zc!Message
<1>3. \A b \in DOMAIN zcPlan : zcPlan[b] \in Zc!Message
  BY <1>1
<1> QED BY <1>1, <1>2, <1>3

\* Its chunks lie in it, are not empty, follow one another and reach its end.
LEMMA ZcChunkFacts ==
  ASSUME zcPlan \in ZcPlans, NEW b \in DOMAIN zcPlan
  PROVE  /\ ZcTotal(b) \in Nat \ {0}
         /\ (\A k \in 1 .. ZcTotal(b) :
               /\ ChunkFrom(k) \in Nat /\ ChunkLen(b, k) \in Nat \ {0} /\ ChunkFrom(k) + ChunkLen(b, k) <= zcPlan[b].size
               /\ (k < ZcTotal(b) => ChunkFrom(k) + ChunkLen(b, k) = ChunkFrom(k + 1))
               /\ (k = ZcTotal(b) => ChunkFrom(k) + ChunkLen(b, k) = zcPlan[b].size))
         /\ ChunkFrom(1) = 0
<1>1. PICK c \in Nat \ {0} : c = Cut
  BY CutFacts
<1>2. PICK n \in Nat \ {0} : n = zcPlan[b].size
  BY ZcMessageFacts
<1>3. PICK t \in Nat \ {0} : t = ZcTotal(b) /\ n <= t * c /\ (t - 1) * c < n
  BY <1>1, <1>2, RoundUp DEF ZcTotal, ChunksIn
<1>4. ASSUME NEW k \in 1 .. t
      PROVE  /\ ChunkFrom(k) \in Nat /\ ChunkFrom(k) < n /\ ChunkFrom(k + 1) = ChunkFrom(k) + c
             /\ (k < t => ChunkFrom(k) + c < n) /\ (k = t => n <= ChunkFrom(k) + c)
  <2>1. ChunkFrom(k) = (k - 1) * c /\ ChunkFrom(k + 1) = k * c
    BY <1>1 DEF ChunkFrom
  <2>2. k * c = (k - 1) * c + c /\ (k - 1) * c \in Nat
    BY SMTT(30)
  <2>3. \A i, j \in Nat : i <= j => i * c <= j * c
    <3> TAKE i, j \in Nat
    <3> HAVE i <= j
    <3>1. PICK d \in Nat : j = i + d
      OBVIOUS
    <3>2. j * c = i * c + d * c /\ d * c \in Nat /\ i * c \in Nat
      BY <3>1, SMTT(30)
    <3> QED BY <3>2
  <2>4. (k - 1) * c <= (t - 1) * c /\ (k < t => k * c <= (t - 1) * c) /\ t * c \in Nat /\ (t - 1) * c \in Nat
    BY <2>3, SMTT(30)
  <2> QED BY <2>1, <2>2, <2>4, <1>3
<1>5. \A k \in 1 .. t : ChunkLen(b, k) = IF c <= n - ChunkFrom(k) THEN c ELSE n - ChunkFrom(k)
  BY <1>1, <1>2 DEF ChunkLen
<1>6. ChunkFrom(1) = 0
  BY <1>1 DEF ChunkFrom
<1> QED BY <1>2, <1>3, <1>4, <1>5, <1>6

-----------------------------------------------------------------------------
(* What an end can say of itself *)

\* The types of one end's variables.
LEMMA EndTypes ==
  ASSUME ZcTypes, NEW e \in ZcEnds
  PROVE  /\ posted[e] \in Nat /\ completed[e] \in Nat /\ zcBatch[e] \in Nat /\ Len(zcPlan) \in Nat
         /\ Requests(e) \in Seq(Zc!ZcRequest) /\ Len(Requests(e)) \in Nat /\ DOMAIN Requests(e) = 1 .. Len(Requests(e))
         /\ (Len(Requests(e)) = 0 => Requests(e) = << >>)
         /\ zcActive[e] \in BOOLEAN /\ mr[e] \in Region
<1>1. /\ posted[e] \in Nat /\ completed[e] \in Nat /\ zcBatch[e] \in Nat /\ Len(zcPlan) \in Nat
      /\ Requests(e) \in Seq(Zc!ZcRequest) /\ zcActive[e] \in BOOLEAN /\ mr[e] \in Region
  BY ZcMessageFacts DEF ZcTypes, Requests
<1>2. Len(Requests(e)) \in Nat /\ DOMAIN Requests(e) = 1 .. Len(Requests(e)) /\ (Len(Requests(e)) = 0 => Requests(e) = << >>)
  BY <1>1
<1> QED BY <1>1, <1>2

\* What the card has executed of a transfer does not exceed what was posted.
LEMMA TransferFacts ==
  ASSUME ZcTypes, NEW e \in ZcEnds, Counted(e), Queued(e)
  PROVE  /\ completed[e] <= posted[e] - Len(Requests(e)) /\ Len(Requests(e)) <= posted[e] /\ completed[e] <= posted[e]
         /\ (~zcActive[e] => posted[e] = 0 /\ completed[e] = 0 /\ Len(Requests(e)) = 0 /\ Requests(e) = << >>)
<1>1. PICK p \in Nat, c \in Nat, n \in Nat : p = posted[e] /\ c = completed[e] /\ n = Len(Requests(e))
  BY EndTypes
<1>2. c <= p - n
  BY <1>1 DEF Queued
<1>3. n <= p /\ c <= p /\ (p = 0 => c = 0 /\ n = 0)
  BY <1>2
<1>4. ~zcActive[e] => p = 0
  BY <1>1 DEF Counted
<1> QED BY <1>1, <1>2, <1>3, <1>4, EndTypes

\* A message that has failed, or one behind it, is not settled: what is
\* settled lies before.
LEMMA SettledFacts ==
  ASSUME ZcTypes
  PROVE  /\ (\A b, c \in Nat : Settled(c) /\ b <= c => Settled(b))
         /\ (\A e \in ZcEnds : Behind(e) /\ Settled(zcBatch[e]) =>
               e \notin torn /\ \A b : <<e, b>> \notin aborted)
         /\ (\A a \in aborted : a[2] \in DOMAIN zcPlan /\ a[2] \in Nat /\ ~Settled(a[2]))
<1>1. \A a \in aborted : a[2] \in DOMAIN zcPlan /\ a[2] \in Nat
  BY ZcMessageFacts DEF ZcTypes
<1>2. \A b, c \in Nat : Settled(c) /\ b <= c => Settled(b)
  BY <1>1 DEF Settled
<1>3. \A a \in aborted : ~Settled(a[2])
  BY <1>1 DEF Settled
<1>4. ASSUME NEW e \in ZcEnds, Behind(e), Settled(zcBatch[e])
      PROVE  e \notin torn /\ \A b : <<e, b>> \notin aborted
  <2>1. \A a \in aborted : a[1] # e
    <3> SUFFICES ASSUME NEW a \in aborted, a[1] = e PROVE FALSE
      OBVIOUS
    <3>1. a[2] < zcBatch[e] /\ zcBatch[e] < a[2] /\ a[2] \in Nat /\ zcBatch[e] \in Nat
      BY <1>1, <1>4, EndTypes DEF Behind, Settled
    <3> QED BY <3>1
  <2>2. \A b : <<e, b>> \notin aborted
    BY <2>1
  <2>3. e \notin torn
    BY <1>4, <2>1 DEF Behind
  <2> QED BY <2>2, <2>3
<1> QED BY <1>1, <1>2, <1>3, <1>4

\* What an end takes for its chunk count is the operator of the model.
LEMMA ModelNames ==
  ASSUME ZcTypes, NEW e \in ZcEnds, NEW b \in DOMAIN zcPlan, b = zcBatch[e]
  PROVE  /\ Zc!Current(e) = zcPlan[b] /\ Zc!Total(e) = ZcTotal(b)
         /\ (Zc!IsZc(Zc!Current(e)) <=> IsLarge(b))
         /\ (Zc!Matches(e) <=> mr[e].buf = zcPlan[b].buf[e] /\ mr[e].size = zcPlan[b].size)
<1>1. Zc!Current(e) = zcPlan[b]
  BY DEF Zc!Current
<1>2. Zc!Total(e) = ZcTotal(b)
  BY <1>1, CutFacts DEF Zc!Total, ZcTotal, ChunksIn
<1> QED BY <1>1, <1>2 DEF Zc!IsZc, IsLarge, Zc!Matches

\* An end with a message left is at one of the plan.
LEMMA OfPlan ==
  ASSUME ZcTypes, NEW e \in ZcEnds, zcBatch[e] <= Len(zcPlan)
  PROVE  zcBatch[e] \in DOMAIN zcPlan
BY ZcMessageFacts DEF ZcTypes

-----------------------------------------------------------------------------
(* What the completion queue tells an end *)

\* A bounded set of numbers has a greatest member.
LEMMA BoundedMax ==
  ASSUME NEW S, S \subseteq Nat, S # {}, NEW B \in Nat, \A x \in S : x <= B
  PROVE  \E x \in S : \A y \in S : y <= x
<1> DEFINE R == OpToRel(<, Nat)
           T == {B - x : x \in S}
<1>1. T \subseteq Nat /\ T # {}
  <2>1. \A x \in S : B - x \in Nat
    OBVIOUS
  <2>2. T \subseteq Nat
    BY <2>1
  <2>3. PICK x \in S : TRUE
    OBVIOUS
  <2>4. B - x \in T
    OBVIOUS
  <2> QED BY <2>2, <2>4
<1>2. IsWellFoundedOn(R, Nat)
  BY NatLessThanWellFounded
<1>3. \A m, n \in Nat : m < n => <<m, n>> \in R
  BY DEF OpToRel
<1> HIDE DEF R, T
<1>4. PICK t \in T : \A u \in T : ~(<<u, t>> \in R)
  BY <1>1, <1>2, WFMin
<1>5. PICK x \in S : t = B - x
  BY DEF T
<1>6. \A y \in S : y <= x
  <2> TAKE y \in S
  <2>1. B - y \in T /\ B - y \in Nat /\ t \in Nat
    BY <1>1 DEF T
  <2>2. ~(B - y < t)
    BY <2>1, <1>3, <1>4
  <2>3. x \in Nat /\ y \in Nat
    OBVIOUS
  <2> QED BY <2>1, <2>2, <2>3, <1>5
<1> QED BY <1>6

\* The sender's count after the first n completions is one it had, or the
\* wr_id of one of them.
LEMMA SendHandledFacts ==
  ASSUME ZcTypes, NEW n \in 0 .. Len(zcCq["sender"])
  PROVE  /\ Zc!SendHandled(n) \in Nat /\ completed["sender"] <= Zc!SendHandled(n)
         /\ \/ Zc!SendHandled(n) = completed["sender"]
            \/ \E i \in DOMAIN zcCq["sender"] :
                 zcCq["sender"][i].op = "zc_send" /\ Zc!SendHandled(n) = zcCq["sender"][i].id
<1> DEFINE own == {zcCq["sender"][i].id : i \in Zc!Polled("sender", "zc_send", n)}
           S == {completed["sender"]} \cup {id \in own : zcActive["sender"] /\ id <= posted["sender"]}
<1>1. PICK p \in Nat, c \in Nat : p = posted["sender"] /\ c = completed["sender"]
  BY EndTypes DEF ZcEnds
<1>2. PICK q \in Seq(Report) : q = zcCq["sender"]
  BY DEF ZcTypes, ZcEnds
<1>3. \A i \in DOMAIN q : q[i].id \in Nat
  <2>1. \A x \in Report : x.id \in Nat
    BY DEF Report
  <2>2. \A i \in DOMAIN q : q[i] \in Report
    OBVIOUS
  <2> QED BY <2>1, <2>2
<1>4. Zc!Polled("sender", "zc_send", n) \subseteq {i \in DOMAIN q : q[i].op = "zc_send"}
  BY <1>2 DEF Zc!Polled
<1>5. \A x \in own : \E i \in DOMAIN q : q[i].op = "zc_send" /\ x = q[i].id
  BY <1>2, <1>4
<1>6. Zc!SendHandled(n) = Max(S)
  BY ZcCopies DEF Zc!SendHandled, Zc!Sender
<1> HIDE DEF own
<1>7. \A x \in S : x = c \/ (x <= p /\ \E i \in DOMAIN q : q[i].op = "zc_send" /\ x = q[i].id)
  BY <1>1, <1>5
<1>8. c \in S
  BY <1>1
<1> HIDE DEF S
<1>9. S \subseteq Nat /\ S # {} /\ \A x \in S : x <= c + p
  BY <1>1, <1>3, <1>7, <1>8
<1>10. \E x \in S : \A y \in S : y <= x
  <2>1. PICK B \in Nat : B = c + p
    OBVIOUS
  <2>2. PICK R : R = S
    OBVIOUS
  <2>3. R \subseteq Nat /\ R # {} /\ \A x \in R : x <= B
    BY <1>9, <2>1, <2>2
  <2>4. \E x \in R : \A y \in R : y <= x
    BY <2>3, BoundedMax
  <2> QED BY <2>2, <2>4
<1>11. Max(S) \in S /\ \A y \in S : y <= Max(S)
  BY <1>9, <1>10 DEF Max
<1> QED BY <1>1, <1>2, <1>6, <1>7, <1>8, <1>9, <1>11

\* The members of an interval that a test selects are finitely many.
LEMMA Selected ==
  ASSUME NEW n \in Nat, NEW S, S \subseteq 1 .. n
  PROVE  IsFiniteSet(S) /\ Cardinality(S) \in Nat
<1>1. IsFiniteSet(1 .. n)
  BY FS_Interval
<1> QED BY <1>1, FS_Subset, FS_CardinalityType

\* The receiver counts one for each RECV completion it handles.
LEMMA RecvHandledFacts ==
  ASSUME ZcTypes, NEW n \in 0 .. Len(zcCq["receiver"])
  PROVE  /\ Zc!RecvHandled(n) \in Nat /\ completed["receiver"] <= Zc!RecvHandled(n)
         /\ Cardinality(RecvIn(zcCq["receiver"])) \in Nat
         /\ Zc!RecvHandled(n) <= completed["receiver"] + Cardinality(RecvIn(zcCq["receiver"]))
<1>1. PICK c \in Nat : c = completed["receiver"]
  BY EndTypes DEF ZcEnds
<1>2. PICK q \in Seq(Report), m \in Nat : q = zcCq["receiver"] /\ m = Len(q) /\ DOMAIN q = 1 .. m
  BY DEF ZcTypes, ZcEnds
<1>3. PICK P : P = Zc!Polled("receiver", "zc_recv", n)
  OBVIOUS
<1>4. PICK R : R = RecvIn(q)
  OBVIOUS
<1>5. P \subseteq R /\ R \subseteq 1 .. m
  BY <1>2, <1>3, <1>4 DEF Zc!Polled, RecvIn
<1>6. IsFiniteSet(R) /\ Cardinality(R) \in Nat
  BY <1>5, Selected
<1>7. Cardinality(P) \in Nat /\ Cardinality(P) <= Cardinality(R)
  BY <1>5, <1>6, FS_Subset, FS_CardinalityType
<1>8. Zc!RecvHandled(n) = c + Cardinality(P)
  BY <1>1, <1>3, ZcCopies DEF Zc!RecvHandled, Zc!Receiver
<1> QED BY <1>1, <1>2, <1>4, <1>6, <1>7, <1>8

\* Whatever an end polls, it counts no request the card has not executed, and
\* no acknowledgement still to come is of a request it has counted.
LEMMA HandledFacts ==
  ASSUME ZcTypes, NEW e \in ZcEnds, NEW n \in 0 .. Len(zcCq[e])
  PROVE  /\ Zc!Handled(e, n) \in Nat /\ completed[e] <= Zc!Handled(e, n)
         /\ (Queued(e) /\ Accounted(e) =>
               /\ Zc!Handled(e, n) <= posted[e] - Len(Requests(e))
               /\ (e = "sender" => \A i \in DOMAIN acks : acks[i] > Zc!Handled(e, n)))
<1>1. CASE e = "sender"
  <2>1. Zc!Handled(e, n) = Zc!SendHandled(n)
    BY <1>1 DEF Zc!Handled, Zc!Sender
  <2>2. PICK h : h = Zc!SendHandled(n)
    OBVIOUS
  <2>3. /\ h \in Nat /\ completed["sender"] <= h
        /\ \/ h = completed["sender"]
           \/ \E i \in DOMAIN zcCq["sender"] : zcCq["sender"][i].op = "zc_send" /\ h = zcCq["sender"][i].id
    BY <1>1, <2>2, SendHandledFacts
  <2>4. ASSUME Queued(e), Accounted(e)
        PROVE  h <= posted[e] - Len(Requests(e)) /\ \A i \in DOMAIN acks : acks[i] > h
    <3>1. SendAccounted /\ Requests(e) = sq /\ completed["sender"] <= posted["sender"] - Len(sq)
      BY <1>1, <2>4 DEF Accounted, Queued, Requests
    <3>2. CASE h = completed["sender"]
      BY <1>1, <3>1, <3>2 DEF SendAccounted
    <3>3. CASE \E i \in DOMAIN zcCq["sender"] : h = zcCq["sender"][i].id
      BY <1>1, <3>1, <3>3 DEF SendAccounted
    <3> QED BY <2>3, <3>2, <3>3
  <2> QED BY <1>1, <2>1, <2>2, <2>3, <2>4
<1>2. CASE e = "receiver"
  <2>1. Zc!Handled(e, n) = Zc!RecvHandled(n)
    BY <1>2 DEF Zc!Handled, Zc!Sender
  <2>2. PICK h \in Nat, k \in Nat : /\ h = Zc!RecvHandled(n) /\ k = Cardinality(RecvIn(zcCq["receiver"]))
                                    /\ completed["receiver"] <= h /\ h <= completed["receiver"] + k
    BY <1>2, RecvHandledFacts
  <2>3. ASSUME Accounted(e)
        PROVE  h <= posted[e] - Len(Requests(e))
    <3>1. completed["receiver"] + k + Len(rq) <= posted["receiver"] /\ Requests(e) = rq
      BY <1>2, <2>2, <2>3 DEF Accounted, RecvAccounted, Requests
    <3>2. PICK p \in Nat, c \in Nat, m \in Nat : p = posted["receiver"] /\ c = completed["receiver"] /\ m = Len(rq)
      BY <1>2, <3>1, EndTypes
    <3> QED BY <1>2, <2>2, <3>1, <3>2
  <2> QED BY <1>2, <2>1, <2>2, <2>3
<1> QED BY <1>1, <1>2 DEF ZcEnds

\* Ring messages are counted on top of those not read yet.
LEMMA ArrivalsCounted ==
  ASSUME ZcTypes, NEW n \in 0 .. Len(zcCq["receiver"])
  PROVE  Zc!ArrivalsHandled(n) \in Nat
<1>1. PICK S : S = Zc!Polled("receiver", "ring", n)
  OBVIOUS
<1>2. S \subseteq 1 .. n /\ n \in Nat
  BY <1>1 DEF Zc!Polled
<1>3. Cardinality(S) \in Nat
  BY <1>2, Selected
<1>4. Zc!ArrivalsHandled(n) = arrivals + Cardinality(S)
  BY <1>1, ZcCopies DEF Zc!ArrivalsHandled, Zc!Receiver
<1> QED BY <1>3, <1>4 DEF ZcTypes

\* An empty queue reports nothing.
LEMMA NoReports == RecvIn(<< >>) = {} /\ Cardinality(RecvIn(<< >>)) = 0
<1>1. RecvIn(<< >>) = {}
  BY DEF RecvIn
<1> QED BY <1>1, FS_EmptySet

\* After a call the completion queue is empty, and what is accounted for is
\* what the call counted, or nothing if the transfer was released.
LEMMA EmptiedAccounts ==
  ASSUME ZcTypes, NEW e \in ZcEnds, Counted(e), Queued(e), Accounted(e),
         NEW h \in Nat, h <= posted[e] - Len(Requests(e)), e = "sender" => \A i \in DOMAIN acks : acks[i] > h,
         zcCq'[e] = << >>, acks' = acks,
         \/ completed'[e] = h /\ posted'[e] - Len(Requests(e)') = posted[e] - Len(Requests(e))
         \/ completed'[e] = 0 /\ posted'[e] = 0 /\ Len(Requests(e)') = 0 /\ h = posted[e] /\ Len(Requests(e)) = 0,
         posted'[e] \in Nat, Len(Requests(e)') \in Nat
  PROVE  Accounted(e)'
<1>1. PICK p \in Nat, n \in Nat, x \in Nat, y \in Nat :
        p = posted[e] /\ n = Len(Requests(e)) /\ x = posted'[e] /\ y = Len(Requests(e)')
  BY EndTypes
<1>2. CASE e = "sender"
  <2>1. Requests(e) = sq /\ Requests(e)' = sq' /\ acks \in Seq(Nat)
    BY <1>2 DEF Requests, ZcTypes
  <2>2. \A i \in DOMAIN acks :
          /\ acks[i] \in Nat /\ acks[i] > h /\ acks[i] <= p - n
          /\ (\A j \in DOMAIN acks : i < j => acks[i] < acks[j])
    <3>1. \A i \in DOMAIN acks : acks[i] \in Nat
      BY <2>1
    <3>2. \A i \in DOMAIN acks : acks[i] <= p - n /\ (\A j \in DOMAIN acks : i < j => acks[i] < acks[j])
      BY <1>1, <1>2, <2>1 DEF Accounted, SendAccounted
    <3> QED BY <3>1, <3>2, <1>2
  <2>3. CASE completed'[e] = h /\ x - y = p - n
    <3>1. DOMAIN zcCq'["sender"] = {}
      BY <1>2
    <3>2. \A i \in DOMAIN acks' :
            /\ acks'[i] > completed'["sender"] /\ acks'[i] <= posted'["sender"] - Len(sq')
            /\ (\A j \in DOMAIN acks' : i < j => acks'[i] < acks'[j])
      BY <1>1, <1>2, <2>1, <2>2, <2>3
    <3> QED BY <1>2, <3>1, <3>2 DEF Accounted, SendAccounted
  <2>4. CASE h = p /\ n = 0
    <3>1. DOMAIN zcCq'["sender"] = {}
      BY <1>2
    <3>2. DOMAIN acks' = {}
      <4>1. ASSUME NEW i \in DOMAIN acks PROVE FALSE
        <5>1. acks[i] \in Nat /\ acks[i] > p /\ acks[i] <= p - 0
          BY <2>2, <2>4
        <5> QED BY <5>1
      <4> QED BY <4>1
    <3> QED BY <1>2, <3>1, <3>2 DEF Accounted, SendAccounted
  <2> QED BY <1>1, <2>3, <2>4
<1>3. CASE e = "receiver"
  <2>1. Requests(e)' = rq' /\ zcCq'["receiver"] = << >>
    BY <1>3 DEF Requests
  <2>2. completed'[e] + 0 + y <= x
    BY <1>1
  <2> QED BY <1>1, <1>3, <2>1, <2>2, NoReports DEF Accounted, RecvAccounted
<1> QED BY <1>2, <1>3 DEF ZcEnds

-----------------------------------------------------------------------------
(* The requests a call posts *)

\* The work request for a chunk.
LEMMA RequestFacts ==
  ASSUME ZcTypes, NEW e \in ZcEnds, NEW b \in DOMAIN zcPlan, b = zcBatch[e], NEW k \in 1 .. ZcTotal(b),
         NEW region \in Region, NEW last \in BOOLEAN
  PROVE  Zc!Request(e, k, region, last) \in Zc!ZcRequest /\ AsksFor(Zc!Request(e, k, region, last), b, k, region.key)
<1>1. zcPlan \in ZcPlans
  BY DEF ZcTypes
<1>2. /\ ZcTotal(b) \in Nat /\ ChunkFrom(k) \in Nat /\ ChunkLen(b, k) \in Nat
  BY <1>1, ZcChunkFacts
<1>3. Zc!Chunk(e) = Cut /\ Cut \in Nat /\ zcPlan[b].size \in Nat /\ b \in Nat /\ region.key \in Nat
  BY <1>1, CutFacts, ZcMessageFacts DEF Region
<1>4. (k - 1) * Zc!Chunk(e) = ChunkFrom(k)
  BY <1>3 DEF ChunkFrom
<1>5. Zc!ChunkLength(e, k) = ChunkLen(b, k)
  <2>1. Zc!ChunkLength(e, k) = Zc!Min({Cut, zcPlan[b].size - ChunkFrom(k)})
    BY <1>3, <1>4 DEF Zc!ChunkLength, Zc!Current
  <2> QED BY <2>1, <1>2, <1>3, MinOfTwo, ZcCopies DEF ChunkLen
<1>6. Zc!Request(e, k, region, last) =
        [id |-> k, msg |-> b, from |-> ChunkFrom(k), len |-> ChunkLen(b, k), key |-> region.key, signaled |-> last]
  BY <1>4, <1>5 DEF Zc!Request
<1> QED BY <1>2, <1>3, <1>6 DEF Zc!ZcRequest, AsksFor

\* The elements of two sequences one behind the other.
LEMMA Joined ==
  ASSUME NEW S, NEW q \in Seq(S), NEW r \in Seq(S)
  PROVE  /\ q \o r \in Seq(S) /\ Len(q \o r) = Len(q) + Len(r) /\ DOMAIN (q \o r) = 1 .. Len(q) + Len(r)
         /\ (\A i \in 1 .. Len(q) : (q \o r)[i] = q[i])
         /\ (\A i \in Len(q) + 1 .. Len(q) + Len(r) : (q \o r)[i] = r[i - Len(q)])
OBVIOUS

\* The requests of e with a chain of count new ones behind them.
Chain(e, count, region, last) ==
  Requests(e) \o [i \in 1 .. count |-> Zc!Request(e, posted[e] + i, region, last[i])]

\* PostZc: the new requests stand behind the old ones, each for its chunk.
LEMMA ChainGrows ==
  ASSUME ZcTypes, NEW e \in ZcEnds, NEW b \in DOMAIN zcPlan, b = zcBatch[e],
         NEW region \in Region, NEW count \in Nat, posted[e] + count <= ZcTotal(b),
         NEW last \in [1 .. count -> BOOLEAN],
         NEW Q, Q = Chain(e, count, region, last)
  PROVE  /\ Q \in Seq(Zc!ZcRequest) /\ Len(Q) = Len(Requests(e)) + count
         /\ DOMAIN Q = 1 .. Len(Requests(e)) + count
         /\ (\A i \in 1 .. Len(Requests(e)) : i \in DOMAIN Requests(e) /\ Q[i] = Requests(e)[i])
         /\ (\A i \in 1 .. count : AsksFor(Q[Len(Requests(e)) + i], b, posted[e] + i, region.key))
         /\ (\A i \in DOMAIN Q : (i \in DOMAIN Requests(e) /\ Q[i] = Requests(e)[i]) \/ Q[i].msg = b)
<1>1. PICK p \in Nat : p = posted[e]
  BY EndTypes
<1>2. PICK t \in Nat \ {0} : t = ZcTotal(b) /\ p + count <= t
  BY <1>1, ZcChunkFacts DEF ZcTypes
<1>3. PICK q \in Seq(Zc!ZcRequest), n \in Nat : q = Requests(e) /\ n = Len(q) /\ DOMAIN q = 1 .. n
  BY EndTypes
<1>a. PICK new : new = [i \in 1 .. count |-> Zc!Request(e, posted[e] + i, region, last[i])]
  OBVIOUS
<1>4. \A i \in 1 .. count : new[i] \in Zc!ZcRequest /\ AsksFor(new[i], b, p + i, region.key)
  <2> TAKE i \in 1 .. count
  <2>1. PICK k \in 1 .. t : k = p + i
    BY <1>2
  <2>2. new[i] = Zc!Request(e, k, region, last[i]) /\ last[i] \in BOOLEAN
    BY <2>1, <1>1, <1>a
  <2>3. /\ Zc!Request(e, k, region, last[i]) \in Zc!ZcRequest
        /\ AsksFor(Zc!Request(e, k, region, last[i]), b, k, region.key)
    BY <1>2, RequestFacts
  <2> QED BY <2>1, <2>2, <2>3
<1>5. new \in [1 .. count -> Zc!ZcRequest]
  BY <1>4, <1>a
<1>6. new \in Seq(Zc!ZcRequest) /\ Len(new) = count
  BY <1>5
<1>7. /\ Q \in Seq(Zc!ZcRequest) /\ Len(Q) = n + count /\ DOMAIN Q = 1 .. n + count
      /\ (\A i \in 1 .. n : Q[i] = q[i])
      /\ (\A i \in n + 1 .. n + count : Q[i] = new[i - n])
  <2>1. /\ q \o new \in Seq(Zc!ZcRequest) /\ Len(q \o new) = Len(q) + Len(new) /\ DOMAIN (q \o new) = 1 .. Len(q) + Len(new)
        /\ (\A i \in 1 .. Len(q) : (q \o new)[i] = q[i])
        /\ (\A i \in Len(q) + 1 .. Len(q) + Len(new) : (q \o new)[i] = new[i - Len(q)])
    BY <1>6, Joined
  <2>2. Q = q \o new /\ Len(q) = n /\ Len(new) = count
    BY <1>3, <1>6, <1>a DEF Chain
  <2> QED BY ONLY <2>1, <2>2, Zenon
<1>8. \A i \in 1 .. count : Q[n + i] = new[i]
  <2> TAKE i \in 1 .. count
  <2>1. n + i \in n + 1 .. n + count /\ (n + i) - n = i
    OBVIOUS
  <2> QED BY <2>1, <1>7
<1>9. \A i \in 1 .. count : AsksFor(Q[n + i], b, p + i, region.key)
  BY <1>4, <1>8
<1>10. \A i \in DOMAIN Q : i \in 1 .. n \/ \E j \in 1 .. count : i = n + j
  <2> TAKE i \in DOMAIN Q
  <2>1. i \in 1 .. n + count
    BY <1>7
  <2>2. CASE i > n
    <3>1. i - n \in 1 .. count /\ i = n + (i - n)
      BY <2>1, <2>2
    <3> QED BY <3>1
  <2> QED BY <2>1, <2>2
<1>11. \A i \in DOMAIN Q : (i \in DOMAIN q /\ Q[i] = q[i]) \/ Q[i].msg = b
  <2> TAKE i \in DOMAIN Q
  <2>1. CASE i \in 1 .. n
    BY <2>1, <1>3, <1>7
  <2>2. CASE \E j \in 1 .. count : i = n + j
    BY <2>2, <1>9 DEF AsksFor
  <2> QED BY <2>1, <2>2, <1>10
<1> QED BY <1>1, <1>3, <1>7, <1>9, <1>11

\* Requests Q of end e at message b, the last of the first sent ones, lie in
\* the region.
Placed(Q, e, b, sent, region) ==
  \A i \in DOMAIN Q :
    /\ Q[i].msg \in DOMAIN zcPlan /\ IsLarge(Q[i].msg)
    /\ Q[i].msg = b \/ <<e, Q[i].msg>> \in aborted
    /\ region.buf = zcPlan[Q[i].msg].buf[e] /\ region.size = zcPlan[Q[i].msg].size
    /\ AsksFor(Q[i], Q[i].msg, sent - Len(Q) + i, region.key)

\* Of an end that has torn no chain, all of them lie in the region, one after
\* the other up to what is then posted.
LEMMA QueueGrows ==
  ASSUME ZcTypes, NEW e \in ZcEnds, Counted(e), Queued(e),
         NEW b \in DOMAIN zcPlan, b = zcBatch[e], IsLarge(b),
         NEW region \in Region, region.buf = zcPlan[b].buf[e], region.size = zcPlan[b].size, zcActive[e] => region = mr[e],
         NEW count \in Nat, posted[e] + count <= ZcTotal(b),
         NEW last \in [1 .. count -> BOOLEAN],
         NEW Q, Q = Chain(e, count, region, last)
  PROVE  Placed(Q, e, b, posted[e] + count, region)
<1>1. PICK p \in Nat, n \in Nat, q \in Seq(Zc!ZcRequest) : p = posted[e] /\ q = Requests(e) /\ n = Len(q) /\ DOMAIN q = 1 .. n
  BY EndTypes
<1>2. /\ Len(Q) = n + count /\ DOMAIN Q = 1 .. n + count
      /\ (\A i \in 1 .. n : i \in DOMAIN q /\ Q[i] = q[i])
      /\ (\A i \in 1 .. count : AsksFor(Q[n + i], b, p + i, region.key))
  <2>1. /\ Len(Q) = Len(Requests(e)) + count
        /\ DOMAIN Q = 1 .. Len(Requests(e)) + count
        /\ (\A i \in 1 .. Len(Requests(e)) : i \in DOMAIN Requests(e) /\ Q[i] = Requests(e)[i])
        /\ (\A i \in 1 .. count : AsksFor(Q[Len(Requests(e)) + i], b, posted[e] + i, region.key))
    BY ChainGrows
  <2>2. p = posted[e] /\ q = Requests(e) /\ n = Len(Requests(e))
    BY <1>1
  <2> QED BY ONLY <2>1, <2>2, Zenon
<1> SUFFICES ASSUME NEW i \in DOMAIN Q
             PROVE  /\ Q[i].msg \in DOMAIN zcPlan /\ IsLarge(Q[i].msg)
                    /\ Q[i].msg = b \/ <<e, Q[i].msg>> \in aborted
                    /\ region.buf = zcPlan[Q[i].msg].buf[e] /\ region.size = zcPlan[Q[i].msg].size
                    /\ AsksFor(Q[i], Q[i].msg, p + count - Len(Q) + i, region.key)
  BY <1>1 DEF Placed
<1>3. i \in Nat /\ i >= 1 /\ i <= n + count
  BY <1>2
<1>4. CASE i <= n
  <2>0. i \in 1 .. n
    BY ONLY <1>3, <1>4, n \in Nat
  <2>1. i \in 1 .. n /\ i \in DOMAIN q /\ Q[i] = q[i]
    BY <2>0, <1>2
  <2>2. zcActive[e]
    <3>1. n # 0
      BY <2>1
    <3> QED BY <3>1, <1>1, TransferFacts
  <2>3. region = mr[e]
    BY <2>2
  <2>4. Owned(e, q[i].msg) /\ AsksFor(q[i], q[i].msg, p - n + i, mr[e].key)
    BY <2>1, <1>1 DEF Queued
  <2>5. p - n + i = p + count - Len(Q) + i
    BY <1>2, <1>3
  <2> QED BY <2>1, <2>3, <2>4, <2>5 DEF Owned
<1>5. CASE i > n
  <2>1. PICK j \in 1 .. count : j = i - n
    BY ONLY <1>3, <1>5, n \in Nat, count \in Nat
  <2>2. i = n + j /\ p + j = p + count - Len(Q) + i
    BY <2>1, <1>2, <1>3
  <2>3. AsksFor(Q[i], b, p + j, region.key)
    BY <2>2, <1>2
  <2>4. Q[i].msg = b
    BY <2>3 DEF AsksFor
  <2> QED BY <2>2, <2>3, <2>4
<1>6. i <= n \/ i > n
  BY ONLY <1>3, n \in Nat
<1> QED BY <1>4, <1>5, <1>6

\* The count of new requests, with what the window and the message leave.
PostCount(e, finished) ==
  IF Window - (posted[e] - finished) <= ZcTotal(zcBatch[e]) - posted[e]
  THEN Window - (posted[e] - finished) ELSE ZcTotal(zcBatch[e]) - posted[e]

\* The region a call works on.
CallRegion(e) == IF zcActive[e] THEN mr[e] ELSE Zc!Acquire(e)

\* How far the window and the message let a call go.
LEMMA PostRange ==
  ASSUME NEW w \in Nat, NEW p \in Nat, NEW f \in Nat, NEW t \in Nat, p <= t, p - f <= w,
         NEW c, c = IF w - (p - f) <= t - p THEN w - (p - f) ELSE t - p
  PROVE  c \in Nat /\ p + c <= t /\ p + c - f <= w
OBVIOUS

\* BeginZc and the window: how far a call goes, and on which region.
LEMMA CallGoes ==
  ASSUME ZcTypes, NEW e \in ZcEnds, Counted(e), Zc!MayGo(e),
         NEW b \in DOMAIN zcPlan, b = zcBatch[e],
         NEW finished \in Nat, completed[e] <= finished
  PROVE  /\ IsLarge(b)
         /\ PostCount(e, finished) \in Nat /\ posted[e] + PostCount(e, finished) <= ZcTotal(b)
         /\ posted[e] + PostCount(e, finished) - finished <= Window
         /\ CallRegion(e) \in Region /\ CallRegion(e).buf = zcPlan[b].buf[e] /\ CallRegion(e).size = zcPlan[b].size
         /\ (zcActive[e] => CallRegion(e) = mr[e])
         /\ Zc!Min({Zc!WindowLeft(posted[e], finished), Zc!Total(e) - posted[e]}) = PostCount(e, finished)
<1>0. IsLarge(b) /\ (zcActive[e] => mr[e].buf = zcPlan[b].buf[e] /\ mr[e].size = zcPlan[b].size)
  BY ModelNames DEF Zc!MayGo
<1>1. PICK p \in Nat : p = posted[e]
  BY EndTypes
<1>2. PICK t \in Nat \ {0} : t = ZcTotal(b)
  BY ZcChunkFacts DEF ZcTypes
<1>3. PICK w \in Nat \ {0} : w = Window
  BY CutFacts
<1>4. PICK c \in Nat : c = completed[e] /\ p - c <= w /\ c <= finished
  BY <1>1, <1>3, EndTypes DEF Counted
<1>5. p <= t /\ p - finished <= w
  <2>1. CASE zcActive[e]
    <3>1. p <= ChunksIn(mr[e].size)
      BY <2>1, <1>1 DEF Counted
    <3>2. ChunksIn(mr[e].size) = t
      BY <2>1, <1>0, <1>2 DEF ZcTotal
    <3> QED BY <3>1, <3>2, <1>4
  <2>2. CASE ~zcActive[e]
    <3>1. p = 0
      BY <2>2, <1>1 DEF Counted
    <3> QED BY <3>1, <1>4
  <2> QED BY <2>1, <2>2
<1>6. PostCount(e, finished) = IF w - (p - finished) <= t - p THEN w - (p - finished) ELSE t - p
  BY <1>1, <1>2, <1>3 DEF PostCount
<1>7. zcPlan[b].size \in Nat /\ zcPlan[b].buf[e] \in Nat
  BY ZcMessageFacts DEF ZcTypes
<1>8. PICK r : r = CallRegion(e)
  OBVIOUS
<1>9. r \in Region /\ r.buf = zcPlan[b].buf[e] /\ r.size = zcPlan[b].size /\ (zcActive[e] => r = mr[e])
  <2>1. CASE zcActive[e]
    BY <2>1, <1>0, <1>8, EndTypes DEF CallRegion
  <2>2. CASE ~zcActive[e]
    <3>1. r = Zc!Acquire(e) /\ mr[e] \in Region
      BY <2>2, <1>8, EndTypes DEF CallRegion
    <3>2. Zc!Current(e) = zcPlan[b]
      BY DEF Zc!Current
    <3>3. r = IF mr[e].buf = zcPlan[b].buf[e] /\ mr[e].size = zcPlan[b].size THEN mr[e]
              ELSE [buf |-> zcPlan[b].buf[e], size |-> zcPlan[b].size, key |-> mr[e].key + 1]
      BY <3>1, <3>2 DEF Zc!Acquire, Zc!Matches
    <3> QED BY <2>2, <3>1, <3>3, <1>7 DEF Region
  <2> QED BY <2>1, <2>2
<1>10. PICK k : k = PostCount(e, finished)
  OBVIOUS
<1>11. k \in Nat /\ p + k <= t /\ p + k - finished <= w
  BY <1>5, <1>6, <1>10, PostRange
<1>12. Zc!Min({Zc!WindowLeft(posted[e], finished), Zc!Total(e) - posted[e]}) = k
  <2>1. Zc!WindowLeft(posted[e], finished) = w - (p - finished)
    BY <1>1, <1>3 DEF Zc!WindowLeft
  <2>2. Zc!Total(e) - posted[e] = t - p
    BY <1>1, <1>2, ModelNames
  <2>3. Zc!Min({w - (p - finished), t - p}) = Min({w - (p - finished), t - p})
    BY ZcCopies
  <2>4. Min({w - (p - finished), t - p}) = IF w - (p - finished) <= t - p THEN w - (p - finished) ELSE t - p
    <3>1. w - (p - finished) \in Int /\ t - p \in Int
      OBVIOUS
    <3> QED BY <3>1, MinOfTwo
  <2> QED BY <2>1, <2>2, <2>3, <2>4, <1>6, <1>10
<1> QED BY <1>0, <1>1, <1>2, <1>3, <1>8, <1>9, <1>10, <1>11, <1>12

-----------------------------------------------------------------------------
(* What a step of one end leaves of the other end *)

\* A step of end e: what it assigns of its own, and that it assigns nothing of
\* the other end's.
Moves(e, b, act, p, c, m, Q, q) ==
  /\ zcBatch' = [zcBatch EXCEPT ![e] = b] /\ zcActive' = [zcActive EXCEPT ![e] = act]
  /\ posted' = [posted EXCEPT ![e] = p] /\ completed' = [completed EXCEPT ![e] = c]
  /\ mr' = [mr EXCEPT ![e] = m] /\ zcCq' = [zcCq EXCEPT ![e] = q]
  /\ Requests(e)' = Q /\ (\A d \in ZcEnds \ {e} : Requests(d)' = Requests(d))
  /\ zcPlan' = zcPlan /\ filled' = filled /\ acks' = acks
  /\ ringWire' \in Nat /\ arrivals' \in Nat

\* What it may add to the histories.
Tells(e) ==
  /\ aborted' = aborted \/ aborted' = aborted \cup {<<e, zcBatch[e]>>}
  /\ torn' = torn \/ torn' = torn \cup {e}

OnlyEnd(e) ==
  /\ zcPlan' = zcPlan /\ filled' = filled /\ acks' = acks
  /\ \A d \in ZcEnds \ {e} :
       /\ Requests(d)' = Requests(d) /\ zcBatch'[d] = zcBatch[d] /\ zcActive'[d] = zcActive[d]
       /\ posted'[d] = posted[d] /\ completed'[d] = completed[d] /\ mr'[d] = mr[d] /\ zcCq'[d] = zcCq[d]
  /\ Tells(e)

\* Types, and the values a step assigns.
LEMMA Moved ==
  ASSUME ZcTypes, NEW e \in ZcEnds, NEW b \in 1 .. Len(zcPlan) + 1, NEW act \in BOOLEAN, NEW p \in Nat, NEW c \in Nat,
         NEW m \in Region, NEW Q \in Seq(Zc!ZcRequest), NEW q \in Seq(Report),
         Moves(e, b, act, p, c, m, Q, q), Tells(e), aborted' # aborted => zcBatch[e] \in DOMAIN zcPlan
  PROVE  /\ ZcTypes' /\ OnlyEnd(e)
         /\ zcBatch'[e] = b /\ zcActive'[e] = act /\ posted'[e] = p /\ completed'[e] = c /\ mr'[e] = m
         /\ zcCq'[e] = q /\ Requests(e)' = Q
<1>1. /\ zcBatch' = [zcBatch EXCEPT ![e] = b] /\ zcActive' = [zcActive EXCEPT ![e] = act]
      /\ posted' = [posted EXCEPT ![e] = p] /\ completed' = [completed EXCEPT ![e] = c]
      /\ mr' = [mr EXCEPT ![e] = m] /\ zcCq' = [zcCq EXCEPT ![e] = q]
  BY DEF Moves
<1>2. /\ Requests(e)' = Q /\ (\A d \in ZcEnds \ {e} : Requests(d)' = Requests(d))
      /\ zcPlan' = zcPlan /\ filled' = filled /\ acks' = acks /\ ringWire' \in Nat /\ arrivals' \in Nat
  BY DEF Moves
<1>3. /\ zcPlan \in ZcPlans /\ zcBatch \in [ZcEnds -> Nat] /\ (\A d \in ZcEnds : zcBatch[d] \in 1 .. Len(zcPlan) + 1)
      /\ zcActive \in [ZcEnds -> BOOLEAN] /\ posted \in [ZcEnds -> Nat] /\ completed \in [ZcEnds -> Nat]
      /\ mr \in [ZcEnds -> Region] /\ zcCq \in [ZcEnds -> Seq(Report)]
      /\ sq \in Seq(Zc!ZcRequest) /\ rq \in Seq(Zc!ZcRequest)
      /\ acks \in Seq(Nat) /\ filled \in [DOMAIN zcPlan -> Seq(Piece)]
      /\ aborted \in SUBSET (ZcEnds \X DOMAIN zcPlan) /\ torn \in SUBSET ZcEnds
  BY DEF ZcTypes
<1>4. b \in Nat
  BY <1>3, ZcMessageFacts
<1>5. /\ zcBatch' \in [ZcEnds -> Nat] /\ zcBatch'[e] = b /\ (\A d \in ZcEnds \ {e} : zcBatch'[d] = zcBatch[d])
      /\ (\A d \in ZcEnds : zcBatch'[d] \in 1 .. Len(zcPlan) + 1)
  BY <1>1, <1>3, <1>4
<1>6. zcActive' \in [ZcEnds -> BOOLEAN] /\ zcActive'[e] = act /\ (\A d \in ZcEnds \ {e} : zcActive'[d] = zcActive[d])
  BY <1>1, <1>3
<1>7. posted' \in [ZcEnds -> Nat] /\ posted'[e] = p /\ (\A d \in ZcEnds \ {e} : posted'[d] = posted[d])
  BY <1>1, <1>3
<1>8. completed' \in [ZcEnds -> Nat] /\ completed'[e] = c /\ (\A d \in ZcEnds \ {e} : completed'[d] = completed[d])
  BY <1>1, <1>3
<1>9. mr' \in [ZcEnds -> Region] /\ mr'[e] = m /\ (\A d \in ZcEnds \ {e} : mr'[d] = mr[d])
  BY <1>1, <1>3
<1>10. zcCq' \in [ZcEnds -> Seq(Report)] /\ zcCq'[e] = q /\ (\A d \in ZcEnds \ {e} : zcCq'[d] = zcCq[d])
  BY <1>1, <1>3
<1>11. sq' \in Seq(Zc!ZcRequest) /\ rq' \in Seq(Zc!ZcRequest)
  <2>1. Requests("sender")' = sq' /\ Requests("receiver")' = rq' /\ Requests("sender") = sq /\ Requests("receiver") = rq
    BY DEF Requests
  <2>2. "sender" \in ZcEnds /\ "receiver" \in ZcEnds
    BY DEF ZcEnds
  <2>3. sq' = Q \/ sq' = sq
    BY <2>1, <2>2, <1>2
  <2>4. rq' = Q \/ rq' = rq
    BY <2>1, <2>2, <1>2
  <2> QED BY <2>3, <2>4, <1>3
<1>12. aborted' \in SUBSET (ZcEnds \X DOMAIN zcPlan) /\ torn' \in SUBSET ZcEnds
  BY <1>3 DEF Tells
<1>13. ZcTypes'
  BY <1>2, <1>3, <1>5, <1>6, <1>7, <1>8, <1>9, <1>10, <1>11, <1>12 DEF ZcTypes
<1>14. OnlyEnd(e)
  BY <1>2, <1>5, <1>6, <1>7, <1>8, <1>9, <1>10 DEF OnlyEnd
<1> QED BY <1>2, <1>5, <1>6, <1>7, <1>8, <1>9, <1>10, <1>13, <1>14

\* What fails never unsettles less.
LEMMA SettledBefore ==
  ASSUME aborted \subseteq aborted', NEW b
  PROVE  Settled(b)' => Settled(b)
BY DEF Settled

\* The other end does not notice.
LEMMA OtherKeeps ==
  ASSUME ZcTypes, NEW e \in ZcEnds, NEW d \in ZcEnds \ {e}, EndInv(d), OnlyEnd(e)
  PROVE  EndInv(d)'
<1>1. /\ Requests(d)' = Requests(d) /\ zcBatch'[d] = zcBatch[d] /\ zcActive'[d] = zcActive[d]
      /\ posted'[d] = posted[d] /\ completed'[d] = completed[d] /\ mr'[d] = mr[d] /\ zcCq'[d] = zcCq[d]
      /\ zcPlan' = zcPlan /\ filled' = filled /\ acks' = acks
  BY DEF OnlyEnd
<1>2. aborted \subseteq aborted' /\ (\A a \in aborted' : a[1] = d => a \in aborted) /\ (d \in torn' <=> d \in torn)
  BY DEF OnlyEnd, Tells
<1>3. \A b : Settled(b)' => Settled(b)
  BY <1>2, SettledBefore
<1>4. \A b : <<d, b>> \in aborted' <=> <<d, b>> \in aborted
  <2> TAKE b
  <2>1. <<d, b>>[1] = d
    OBVIOUS
  <2> QED BY <2>1, <1>2
<1>5. Counted(d) /\ Behind(d) /\ AtMessage(d) /\ Whole(d) /\ Executed(d)
  BY DEF EndInv
<1>6. Counted(d)'
  BY <1>1, <1>5 DEF Counted, ChunksIn
<1>7. Behind(d)'
  <2>1. \A a \in aborted' : a[1] = d => a[2] < zcBatch'[d]
    BY <1>1, <1>2, <1>5 DEF Behind
  <2>2. ASSUME d \in torn'
        PROVE  (\E a \in aborted' : a[1] = d) /\ \A i \in DOMAIN Requests(d)' : (~Settled(Requests(d)[i].msg))'
    <3>1. (\E a \in aborted : a[1] = d) /\ \A i \in DOMAIN Requests(d) : ~Settled(Requests(d)[i].msg)
      BY <2>2, <1>2, <1>5 DEF Behind
    <3>2. \A i \in DOMAIN Requests(d)' : (Requests(d)[i].msg)' = Requests(d)[i].msg /\ i \in DOMAIN Requests(d)
      BY <1>1
    <3>3. \A i \in DOMAIN Requests(d)' : (~Settled(Requests(d)[i].msg))'
      <4> TAKE i \in DOMAIN Requests(d)'
      <4>1. PICK b : b = Requests(d)[i].msg
        OBVIOUS
      <4>2. ~Settled(b) /\ (Requests(d)[i].msg)' = b
        BY <3>1, <3>2, <4>1
      <4>3. ~Settled(b)'
        BY <4>2, <1>3
      <4> QED BY <4>2, <4>3 DEF Settled
    <3> QED BY <3>1, <3>3, <1>2
  <2> QED BY <2>1, <2>2 DEF Behind
<1>8. AtMessage(d)'
  <2> SUFFICES ASSUME Settled(zcBatch[d])', zcActive'[d]
               PROVE  /\ zcBatch'[d] <= Len(zcPlan') /\ IsLarge(zcBatch[d])'
                      /\ mr'[d].buf = zcPlan'[zcBatch'[d]].buf[d] /\ mr'[d].size = zcPlan'[zcBatch'[d]].size
    BY DEF AtMessage
  <2>1. PICK b : b = zcBatch[d] /\ b = zcBatch'[d]
    BY <1>1
  <2>2. Settled(b)'
    BY <2>1 DEF Settled
  <2>3. Settled(b)
    BY <2>2, <1>3
  <2>4. b <= Len(zcPlan) /\ IsLarge(b) /\ mr[d].buf = zcPlan[b].buf[d] /\ mr[d].size = zcPlan[b].size
    BY <2>1, <2>3, <1>1, <1>5 DEF AtMessage
  <2> QED BY <2>1, <2>4, <1>1 DEF IsLarge
<1>9. Whole(d)'
  <2> SUFFICES ASSUME d \notin torn PROVE Queued(d)' /\ Accounted(d)'
    BY <1>2 DEF Whole
  <2>1. Queued(d) /\ Accounted(d)
    BY <1>5 DEF Whole
  <2>2. Queued(d)'
    <3>1. \A i \in DOMAIN Requests(d) :
            /\ Owned(d, Requests(d)[i].msg)
            /\ AsksFor(Requests(d)[i], Requests(d)[i].msg, posted[d] - Len(Requests(d)) + i, mr[d].key)
      BY <2>1 DEF Queued
    <3>2. \A i \in DOMAIN Requests(d) :
            /\ Owned(d, Requests(d)[i].msg)'
            /\ AsksFor(Requests(d)[i], Requests(d)[i].msg, posted[d] - Len(Requests(d)) + i, mr[d].key)'
      <4> TAKE i \in DOMAIN Requests(d)
      <4>1. Owned(d, Requests(d)[i].msg)'
        BY <3>1, <1>1, <1>4 DEF Owned, IsLarge
      <4>2. AsksFor(Requests(d)[i], Requests(d)[i].msg, posted[d] - Len(Requests(d)) + i, mr[d].key)'
        BY <3>1, <1>1 DEF AsksFor, ChunkFrom, ChunkLen
      <4> QED BY <4>1, <4>2
    <3>3. completed'[d] <= posted'[d] - Len(Requests(d)')
      BY <2>1, <1>1 DEF Queued
    <3> QED BY <3>2, <3>3, <1>1 DEF Queued
  <2>3. Accounted(d)'
    <3>1. CASE d = "sender"
      <4>1. sq' = sq
        BY <3>1, <1>1 DEF Requests
      <4>2. SendAccounted
        BY <3>1, <2>1 DEF Accounted
      <4>3. SendAccounted'
        BY <3>1, <4>1, <4>2, <1>1 DEF SendAccounted
      <4> QED BY <3>1, <4>3 DEF Accounted
    <3>2. CASE d = "receiver"
      <4>1. rq' = rq
        BY <3>2, <1>1 DEF Requests
      <4>2. RecvAccounted
        BY <3>2, <2>1 DEF Accounted
      <4>3. RecvAccounted'
        BY <3>2, <4>1, <4>2, <1>1 DEF RecvAccounted
      <4> QED BY <3>2, <4>3 DEF Accounted
    <3> QED BY <3>1, <3>2 DEF ZcEnds
  <2> QED BY <2>2, <2>3
<1>10. Executed(d)'
  <2> SUFFICES ASSUME NEW b \in DOMAIN zcPlan, Settled(b)
               PROVE  /\ (b < zcBatch[d] => Len(filled[b]) = IF IsLarge(b) THEN ZcTotal(b) ELSE 0)
                      /\ (b = zcBatch[d] => Len(filled[b]) = posted[d] - Len(Requests(d)))
                      /\ (b > zcBatch[d] => Len(filled[b]) = 0)
    BY <1>1, <1>3 DEF Executed, IsLarge, ZcTotal, ChunksIn
  <2> QED BY <1>5 DEF Executed
<1> QED BY <1>6, <1>7, <1>8, <1>9, <1>10 DEF EndInv

\* The receiver's buffers are as they were.
LEMMA PiecesUntouched ==
  ASSUME Pieces, zcPlan' = zcPlan, filled' = filled, aborted \subseteq aborted'
  PROVE  Pieces'
<1>1. \A b : Settled(b)' => Settled(b)
  BY SettledBefore
<1> SUFFICES ASSUME NEW b \in DOMAIN zcPlan, Settled(b)
             PROVE  /\ Len(filled[b]) <= ZcTotal(b)
                    /\ (\A k \in DOMAIN filled[b] :
                          filled[b][k] = [msg |-> b, from |-> ChunkFrom(k), to |-> ChunkFrom(k), len |-> ChunkLen(b, k)])
  BY <1>1 DEF Pieces, ZcTotal, ChunksIn, ChunkFrom, ChunkLen
<1> QED BY DEF Pieces

\* So a step of one end keeps the invariant if it keeps that end's.
LEMMA EndStepKeeps ==
  ASSUME ZcInv, NEW e \in ZcEnds, OnlyEnd(e), ZcTypes', EndInv(e)'
  PROVE  ZcInv'
<1>1. ZcTypes /\ Pieces /\ \A d \in ZcEnds : EndInv(d)
  BY DEF ZcInv
<1>2. Pieces'
  BY <1>1, PiecesUntouched DEF OnlyEnd, Tells
<1>3. ASSUME NEW d \in ZcEnds PROVE EndInv(d)'
  <2>1. CASE d = e
    BY <2>1
  <2>2. CASE d # e
    BY <2>2, <1>1, OtherKeeps
  <2> QED BY <2>1, <2>2
<1> QED BY <1>2, <1>3 DEF ZcInv

-----------------------------------------------------------------------------
(* What a call leaves of its own end *)

\* The counters a zero-copy call leaves.
LEMMA CallCounts ==
  ASSUME ZcTypes, NEW e \in ZcEnds, Counted(e), Zc!MayGo(e), NEW b \in DOMAIN zcPlan, b = zcBatch[e],
         NEW f \in Nat, completed[e] <= f,
         NEW count, count = PostCount(e, f), NEW done \in BOOLEAN, zcPlan' = zcPlan,
         zcActive'[e] = (~done), posted'[e] = (IF done THEN 0 ELSE posted[e] + count),
         completed'[e] = (IF done THEN 0 ELSE f), mr'[e] = CallRegion(e)
  PROVE  Counted(e)'
<1>1. /\ count \in Nat /\ posted[e] + count <= ZcTotal(b) /\ posted[e] + count - f <= Window
      /\ CallRegion(e).size = zcPlan[b].size
  BY CallGoes
<1>2. CASE done
  <2>1. zcActive'[e] = FALSE /\ posted'[e] = 0 /\ completed'[e] = 0
    BY <1>2
  <2>2. 0 - 0 <= Window
    BY CutFacts
  <2> QED BY <2>1, <2>2 DEF Counted
<1>3. CASE ~done
  <2>1. zcActive'[e] = TRUE /\ posted'[e] = posted[e] + count /\ completed'[e] = f
    BY <1>3
  <2>2. ChunksIn(mr[e].size)' = ZcTotal(b)
    BY <1>1 DEF ChunksIn, ZcTotal
  <2>3. posted'[e] <= ChunksIn(mr[e].size)'
    BY <2>1, <2>2, <1>1
  <2>4. posted'[e] - completed'[e] <= Window
    <3>1. PICK p \in Nat : p = posted[e]
      BY EndTypes
    <3>2. p + count - f <= Window /\ count \in Nat
      BY <3>1, <1>1
    <3>3. PICK x, y : x = posted'[e] /\ y = completed'[e] /\ x = p + count /\ y = f
      BY <2>1, <3>1
    <3>4. x - y <= Window
      BY <3>2, <3>3
    <3> QED BY <3>3, <3>4
  <2> QED BY <2>1, <2>3, <2>4 DEF Counted
<1> QED BY <1>2, <1>3

\* A finished transfer has executed everything it posted.
LEMMA DoneAll ==
  ASSUME ZcTypes, NEW e \in ZcEnds, Counted(e), Queued(e), Zc!MayGo(e), NEW b \in DOMAIN zcPlan, b = zcBatch[e],
         NEW f \in Nat, completed[e] <= f, f <= posted[e] - Len(Requests(e)), f = ZcTotal(b)
  PROVE  f = posted[e] /\ Len(Requests(e)) = 0 /\ Requests(e) = << >> /\ PostCount(e, f) = 0
<1>1. PICK p \in Nat, n \in Nat, t \in Nat, k \in Nat :
        p = posted[e] /\ n = Len(Requests(e)) /\ t = ZcTotal(b) /\ k = PostCount(e, f) /\ p + k <= t
  <2>1. PostCount(e, f) \in Nat /\ posted[e] + PostCount(e, f) <= ZcTotal(b)
    BY CallGoes
  <2>2. ZcTotal(b) \in Nat
    BY ZcChunkFacts DEF ZcTypes
  <2> QED BY <2>1, <2>2, EndTypes
<1>2. f <= p - n /\ f = t
  BY <1>1
<1>3. f = p /\ n = 0 /\ k = 0
  BY ONLY <1>1, <1>2, p \in Nat, n \in Nat, t \in Nat, k \in Nat, f \in Nat
<1> QED BY <1>1, <1>3, EndTypes

\* What a zero-copy call of e leaves, with f requests completed.
CallLeaves(e, b, f, count, last, done) ==
  /\ Requests(e)' = Chain(e, count, CallRegion(e), last) /\ zcCq'[e] = << >>
  /\ zcBatch'[e] = (IF done THEN b + 1 ELSE b)
  /\ zcActive'[e] = (~done) /\ posted'[e] = (IF done THEN 0 ELSE posted[e] + count)
  /\ completed'[e] = (IF done THEN 0 ELSE f) /\ mr'[e] = CallRegion(e)

\* A call that succeeds keeps the invariant of the end that makes it.
LEMMA CallKeepsEnd ==
  ASSUME ZcTypes, NEW e \in ZcEnds, EndInv(e), Zc!MayGo(e), NEW b \in DOMAIN zcPlan, b = zcBatch[e],
         NEW f \in Nat, f = Zc!Handled(e, Len(zcCq[e])),
         NEW done \in BOOLEAN, done <=> f = ZcTotal(b),
         NEW count \in Nat, count = PostCount(e, f),
         NEW last \in [1 .. count -> BOOLEAN],
         ZcTypes', OnlyEnd(e), aborted' = aborted, torn' = torn,
         CallLeaves(e, b, f, count, last, done)
  PROVE  EndInv(e)'
<1>a. /\ Requests(e)' = Chain(e, count, CallRegion(e), last) /\ zcCq'[e] = << >>
      /\ zcBatch'[e] = (IF done THEN b + 1 ELSE b)
      /\ zcActive'[e] = (~done) /\ posted'[e] = (IF done THEN 0 ELSE posted[e] + count)
      /\ completed'[e] = (IF done THEN 0 ELSE f) /\ mr'[e] = CallRegion(e)
  BY DEF CallLeaves
<1> USE <1>a
<1>1. Counted(e) /\ Behind(e) /\ AtMessage(e) /\ Whole(e) /\ Executed(e)
  BY DEF EndInv
<1>2. /\ zcPlan' = zcPlan /\ filled' = filled /\ acks' = acks
  BY DEF OnlyEnd
<1>3. /\ completed[e] <= f
      /\ (Queued(e) /\ Accounted(e) =>
            f <= posted[e] - Len(Requests(e)) /\ (e = "sender" => \A i \in DOMAIN acks : acks[i] > f))
  <2>1. Len(zcCq[e]) \in 0 .. Len(zcCq[e])
    <3>1. zcCq[e] \in Seq(Report)
      BY DEF ZcTypes
    <3> QED BY <3>1
  <2> QED BY <2>1, HandledFacts
<1>4. PICK region \in Region :
        /\ region = CallRegion(e) /\ region.buf = zcPlan[b].buf[e] /\ region.size = zcPlan[b].size
        /\ (zcActive[e] => region = mr[e])
  BY <1>1, <1>3, CallGoes
<1>5. IsLarge(b) /\ posted[e] + count <= ZcTotal(b)
  BY <1>1, <1>3, CallGoes
<1>6. PICK p \in Nat, n \in Nat : p = posted[e] /\ n = Len(Requests(e))
  BY EndTypes
<1>7. PICK Q : Q = Chain(e, count, region, last)
  OBVIOUS
<1>8. Requests(e)' = Q /\ mr'[e] = region
  BY <1>4, <1>7
<1>9. /\ Q \in Seq(Zc!ZcRequest) /\ Len(Q) = n + count
      /\ (\A i \in DOMAIN Q : (i \in DOMAIN Requests(e) /\ Q[i] = Requests(e)[i]) \/ Q[i].msg = b)
  <2>1. /\ Q \in Seq(Zc!ZcRequest) /\ Len(Q) = Len(Requests(e)) + count
        /\ (\A i \in DOMAIN Q : (i \in DOMAIN Requests(e) /\ Q[i] = Requests(e)[i]) \/ Q[i].msg = b)
    BY <1>5, <1>7, ChainGrows
  <2> QED BY <2>1, <1>6
<1>10. \A c : Settled(c)' <=> Settled(c)
  BY DEF Settled
<1>11. b \in Nat /\ b <= Len(zcPlan) /\ Len(zcPlan) \in Nat
  BY ZcMessageFacts DEF ZcTypes
<1>12. Counted(e)'
  BY <1>1, <1>2, <1>3, CallCounts
<1>13. Behind(e)'
  <2>1. ASSUME NEW a \in aborted', a[1] = e PROVE a[2] < zcBatch'[e]
    <3>1. a[2] < b /\ a[2] \in Nat
      BY <2>1, <1>1, SettledFacts DEF Behind
    <3> QED BY <3>1, <1>11
  <2>2. ASSUME e \in torn'
        PROVE  (\E a \in aborted' : a[1] = e) /\ \A i \in DOMAIN Requests(e)' : (~Settled(Requests(e)[i].msg))'
    <3>1. (\E a \in aborted : a[1] = e) /\ \A i \in DOMAIN Requests(e) : ~Settled(Requests(e)[i].msg)
      BY <2>2, <1>1 DEF Behind
    <3>2. ~Settled(b)
      BY <2>2, <1>1, SettledFacts
    <3>3. \A i \in DOMAIN Q : ~Settled(Q[i].msg)
      BY <3>1, <3>2, <1>9
    <3>4. \A i \in DOMAIN Q : (~Settled(Requests(e)[i].msg))'
      BY <3>3, <1>8, <1>10 DEF Settled
    <3> QED BY <3>1, <3>4, <1>8
  <2> QED BY <2>1, <2>2 DEF Behind
<1>14. AtMessage(e)'
  <2>1. CASE done
    BY <2>1 DEF AtMessage
  <2>2. CASE ~done
    <3>1. zcBatch'[e] = b
      BY <2>2
    <3> QED BY <3>1, <1>2, <1>4, <1>5, <1>8, <1>11 DEF AtMessage, IsLarge
  <2> QED BY <2>1, <2>2
<1>15. ASSUME e \notin torn PROVE Queued(e)' /\ Accounted(e)'
  <2>1. Queued(e) /\ Accounted(e) /\ f <= posted[e] - Len(Requests(e))
    BY <1>1, <1>3, <1>15 DEF Whole
  <2>2. done => f = p /\ n = 0 /\ count = 0
    BY <2>1, <1>1, <1>3, <1>6, DoneAll
  <2>3. CASE done
    <3>1. Len(Q) = 0 /\ DOMAIN Q = {}
      BY <2>2, <2>3, <1>9
    <3>2. Queued(e)'
      <4>1. completed'[e] <= posted'[e] - Len(Requests(e)') /\ DOMAIN Requests(e)' = {}
        BY <2>3, <3>1, <1>8
      <4> QED BY <4>1 DEF Queued
    <3>3. Accounted(e)'
      <4>1. completed'[e] = 0 /\ posted'[e] = 0 /\ Len(Requests(e)') = 0 /\ f = posted[e] /\ Len(Requests(e)) = 0
        BY <2>2, <2>3, <3>1, <1>6, <1>8
      <4> QED BY <4>1, <2>1, <1>1, <1>2, <1>3, EmptiedAccounts
    <3> QED BY <3>2, <3>3
  <2>4. CASE ~done
    <3>1. posted'[e] = p + count /\ completed'[e] = f /\ zcBatch'[e] = b
      BY <2>4, <1>6
    <3>2. \A i \in DOMAIN Q :
            /\ Q[i].msg \in DOMAIN zcPlan /\ IsLarge(Q[i].msg)
            /\ Q[i].msg = b \/ <<e, Q[i].msg>> \in aborted
            /\ region.buf = zcPlan[Q[i].msg].buf[e] /\ region.size = zcPlan[Q[i].msg].size
            /\ AsksFor(Q[i], Q[i].msg, p + count - Len(Q) + i, region.key)
      <4>1. Placed(Q, e, b, posted[e] + count, region)
        BY <2>1, <1>1, <1>4, <1>5, <1>7, QueueGrows
      <4>2. posted[e] + count = p + count
        BY <1>6
      <4> QED BY <4>1, <4>2 DEF Placed
    <3>3. f <= (p + count) - Len(Q)
      BY <2>1, <1>6, <1>9
    <3>4. Queued(e)'
      <4>1. completed'[e] <= posted'[e] - Len(Requests(e)')
        BY <3>1, <3>3, <1>8
      <4>2. \A i \in DOMAIN Q :
              /\ Owned(e, Requests(e)[i].msg)'
              /\ AsksFor(Requests(e)[i], Requests(e)[i].msg, posted[e] - Len(Requests(e)) + i, mr[e].key)'
        <5> TAKE i \in DOMAIN Q
        <5>1. Owned(e, Requests(e)[i].msg)'
          BY <3>1, <3>2, <1>2, <1>8 DEF Owned, IsLarge
        <5>2. AsksFor(Q[i], Q[i].msg, posted'[e] - Len(Q) + i, region.key)
          <6>1. posted'[e] = p + count
            BY <3>1
          <6>2. AsksFor(Q[i], Q[i].msg, p + count - Len(Q) + i, region.key)
            BY <3>2
          <6> QED BY <6>1, <6>2
        <5>3. AsksFor(Requests(e)[i], Requests(e)[i].msg, posted[e] - Len(Requests(e)) + i, mr[e].key)'
          BY <5>2, <1>2, <1>8 DEF AsksFor, ChunkFrom, ChunkLen
        <5> QED BY <5>1, <5>3
      <4> QED BY <4>1, <4>2, <1>8 DEF Queued
    <3>5. Accounted(e)'
      <4>1. completed'[e] = f /\ posted'[e] - Len(Requests(e)') = posted[e] - Len(Requests(e))
        BY <3>1, <1>6, <1>8, <1>9
      <4>2. posted'[e] \in Nat /\ Len(Requests(e)') \in Nat
        BY <3>1, <1>8, <1>9
      <4> QED BY <4>1, <4>2, <2>1, <1>1, <1>2, <1>3, EmptiedAccounts
    <3> QED BY <3>4, <3>5
  <2> QED BY <2>3, <2>4
<1>16. Executed(e)'
  <2> SUFFICES ASSUME NEW a \in DOMAIN zcPlan, Settled(a)
               PROVE  /\ (a < zcBatch'[e] => Len(filled[a]) = IF IsLarge(a) THEN ZcTotal(a) ELSE 0)
                      /\ (a = zcBatch'[e] => Len(filled[a]) = posted'[e] - Len(Q))
                      /\ (a > zcBatch'[e] => Len(filled[a]) = 0)
    BY <1>2, <1>8, <1>10 DEF Executed, IsLarge, ZcTotal, ChunksIn
  <2>1. /\ (a < b => Len(filled[a]) = IF IsLarge(a) THEN ZcTotal(a) ELSE 0)
        /\ (a = b => Len(filled[a]) = p - n)
        /\ (a > b => Len(filled[a]) = 0)
    BY <1>1, <1>6 DEF Executed
  <2>a. a \in Nat
    BY ZcMessageFacts DEF ZcTypes
  <2>2. CASE ~done
    <3>1. zcBatch'[e] = b /\ posted'[e] - Len(Q) = p - n
      BY <2>2, <1>6, <1>9
    <3> QED BY <3>1, <2>1
  <2>3. CASE done
    <3>1. zcBatch'[e] = b + 1 /\ posted'[e] = 0
      BY <2>3
    <3>2. CASE a < b
      BY <3>1, <3>2, <2>1, <2>a, <1>11
    <3>3. CASE a >= b
      <4>1. Settled(b)
        BY <3>3, <2>a, <1>11, SettledFacts
      <4>2. e \notin torn
        BY <4>1, <1>1, SettledFacts
      <4>3. Queued(e) /\ Accounted(e) /\ f <= posted[e] - Len(Requests(e))
        BY <4>2, <1>1, <1>3 DEF Whole
      <4>4. f = p /\ n = 0 /\ count = 0 /\ f = ZcTotal(b)
        BY <4>3, <2>3, <1>1, <1>3, <1>6, DoneAll
      <4>5. Len(Q) = 0 /\ p - n = ZcTotal(b)
        BY <4>4, <1>9
      <4>6. a < b + 1 => a = b
        BY <3>3, <2>a, <1>11
      <4>7. a >= b + 1 => a > b
        BY <2>a, <1>11
      <4> QED BY <3>1, <4>5, <4>6, <4>7, <2>1, <1>5, <1>11
    <3> QED BY <3>2, <3>3, <2>a, <1>11
  <2> QED BY <2>2, <2>3
<1> QED BY <1>12, <1>13, <1>14, <1>15, <1>16 DEF EndInv, Whole

\* A call on a small message: up to a failure its end has no transfer; a
\* stale one stays as it was.
LEMMA SmallKeepsEnd ==
  ASSUME ZcTypes, NEW e \in ZcEnds, EndInv(e), NEW b \in DOMAIN zcPlan, b = zcBatch[e], ~IsLarge(b),
         NEW f \in Nat, f = Zc!Handled(e, Len(zcCq[e])), NEW done \in BOOLEAN,
         ZcTypes', OnlyEnd(e), aborted' = aborted, torn' = torn,
         Requests(e)' = Requests(e), zcCq'[e] = << >>,
         zcBatch'[e] = (IF done THEN b + 1 ELSE b),
         zcActive'[e] = zcActive[e], posted'[e] = posted[e], completed'[e] = f, mr'[e] = mr[e]
  PROVE  EndInv(e)'
<1>1. Counted(e) /\ Behind(e) /\ AtMessage(e) /\ Whole(e) /\ Executed(e)
  BY DEF EndInv
<1>2. /\ zcPlan' = zcPlan /\ filled' = filled /\ acks' = acks
  BY DEF OnlyEnd
<1>3. /\ completed[e] <= f
      /\ (Queued(e) /\ Accounted(e) =>
            f <= posted[e] - Len(Requests(e)) /\ (e = "sender" => \A i \in DOMAIN acks : acks[i] > f))
  <2>1. Len(zcCq[e]) \in 0 .. Len(zcCq[e])
    <3>1. zcCq[e] \in Seq(Report)
      BY DEF ZcTypes
    <3> QED BY <3>1
  <2> QED BY <2>1, HandledFacts
<1>4. b \in Nat /\ b <= Len(zcPlan) /\ Len(zcPlan) \in Nat
  BY ZcMessageFacts DEF ZcTypes
<1>5. \A c : Settled(c)' <=> Settled(c)
  BY DEF Settled
<1>6. zcBatch'[e] \in Nat /\ b <= zcBatch'[e] /\ zcBatch'[e] <= b + 1
  BY <1>4
<1>7. Settled(b) => /\ ~zcActive[e] /\ e \notin torn
                    /\ posted[e] = 0 /\ Len(Requests(e)) = 0
  <2> HAVE Settled(b)
  <2>1. ~zcActive[e] /\ e \notin torn
    BY <1>1, SettledFacts DEF AtMessage
  <2> QED BY <2>1, <1>1, TransferFacts DEF Whole
<1>8. Counted(e)'
  <2>1. PICK p \in Nat, c \in Nat : p = posted[e] /\ c = completed[e] /\ p - c <= Window
    BY <1>1, EndTypes DEF Counted
  <2>2. p - f <= Window
    BY <2>1, <1>3, CutFacts
  <2>3. posted'[e] - completed'[e] <= Window
    BY <2>1, <2>2
  <2>4. (~zcActive'[e] => posted'[e] = 0) /\ (zcActive'[e] => posted'[e] <= ChunksIn(mr[e].size)')
    BY <1>1 DEF Counted, ChunksIn
  <2> QED BY <2>3, <2>4 DEF Counted
<1>9. Behind(e)'
  <2>1. ASSUME NEW a \in aborted', a[1] = e PROVE a[2] < zcBatch'[e]
    <3>1. a[2] < b /\ a[2] \in Nat
      BY <2>1, <1>1, SettledFacts DEF Behind
    <3> QED BY <3>1, <1>4, <1>6
  <2>2. ASSUME e \in torn'
        PROVE  (\E a \in aborted' : a[1] = e) /\ \A i \in DOMAIN Requests(e)' : (~Settled(Requests(e)[i].msg))'
    BY <2>2, <1>1 DEF Behind, Settled
  <2> QED BY <2>1, <2>2 DEF Behind
<1>10. AtMessage(e)'
  <2>1. Settled(zcBatch[e])' => Settled(b)
    <3>1. Settled(zcBatch[e])' => Settled(zcBatch'[e])
      BY DEF Settled
    <3> QED BY <3>1, <1>4, <1>6, SettledFacts
  <2> QED BY <2>1, <1>7 DEF AtMessage
<1>11. ASSUME e \notin torn PROVE Queued(e)' /\ Accounted(e)'
  <2>1. Queued(e) /\ Accounted(e) /\ f <= posted[e] - Len(Requests(e))
    BY <1>1, <1>3, <1>11 DEF Whole
  <2>2. ASSUME NEW i \in DOMAIN Requests(e)
        PROVE  /\ Owned(e, Requests(e)[i].msg)'
               /\ AsksFor(Requests(e)[i], Requests(e)[i].msg, posted[e] - Len(Requests(e)) + i, mr[e].key)'
    <3>1. /\ Owned(e, Requests(e)[i].msg)
          /\ AsksFor(Requests(e)[i], Requests(e)[i].msg, posted[e] - Len(Requests(e)) + i, mr[e].key)
      BY <2>1 DEF Queued
    <3>2. <<e, Requests(e)[i].msg>> \in aborted
      BY <3>1 DEF Owned
    <3>3. Owned(e, Requests(e)[i].msg)'
      BY <3>1, <3>2, <1>2 DEF Owned, IsLarge
    <3>4. AsksFor(Requests(e)[i], Requests(e)[i].msg, posted[e] - Len(Requests(e)) + i, mr[e].key)'
      BY <3>1, <1>2 DEF AsksFor, ChunkFrom, ChunkLen
    <3> QED BY <3>3, <3>4
  <2>3. completed'[e] <= posted'[e] - Len(Requests(e)')
    BY <2>1
  <2>4. Queued(e)'
    BY <2>2, <2>3 DEF Queued
  <2>5. Accounted(e)'
    <3>1. completed'[e] = f /\ posted'[e] - Len(Requests(e)') = posted[e] - Len(Requests(e))
      OBVIOUS
    <3>2. posted'[e] \in Nat /\ Len(Requests(e)') \in Nat
      BY EndTypes
    <3> QED BY <3>1, <3>2, <2>1, <1>1, <1>2, <1>3, EmptiedAccounts
  <2> QED BY <2>4, <2>5
<1>12. Executed(e)'
  <2> SUFFICES ASSUME NEW a \in DOMAIN zcPlan, Settled(a)
               PROVE  /\ (a < zcBatch'[e] => Len(filled[a]) = IF IsLarge(a) THEN ZcTotal(a) ELSE 0)
                      /\ (a = zcBatch'[e] => Len(filled[a]) = posted[e] - Len(Requests(e)))
                      /\ (a > zcBatch'[e] => Len(filled[a]) = 0)
    BY <1>2, <1>5 DEF Executed, IsLarge, ZcTotal, ChunksIn
  <2>1. /\ (a < b => Len(filled[a]) = IF IsLarge(a) THEN ZcTotal(a) ELSE 0)
        /\ (a = b => Len(filled[a]) = posted[e] - Len(Requests(e)))
        /\ (a > b => Len(filled[a]) = 0)
    BY <1>1 DEF Executed
  <2>2. a \in Nat
    BY ZcMessageFacts DEF ZcTypes
  <2>3. CASE a < b
    BY <2>1, <2>2, <2>3, <1>4, <1>6
  <2>4. CASE a >= b
    <3>1. Settled(b)
      BY <2>2, <2>4, <1>4, SettledFacts
    <3>2. posted[e] - Len(Requests(e)) = 0
      BY <3>1, <1>7
    <3>3. Len(filled[a]) = 0
      BY <2>1, <2>2, <2>4, <3>2, <1>4
    <3>4. a < zcBatch'[e] => a = b
      BY <2>2, <2>4, <1>4, <1>6
    <3> QED BY <3>2, <3>3, <3>4
  <2> QED BY <2>2, <2>3, <2>4, <1>4
<1> QED BY <1>8, <1>9, <1>10, <1>11, <1>12 DEF EndInv, Whole

\* A failure at message b of e: nothing that is settled afterwards is at e's
\* message or behind it.
LEMMA FailKeepsEnd ==
  ASSUME ZcTypes, NEW e \in ZcEnds, EndInv(e), NEW b \in DOMAIN zcPlan, b = zcBatch[e],
         ZcTypes', OnlyEnd(e), aborted' = aborted \cup {<<e, b>>},
         NEW Q, Requests(e)' = Q,
         \A i \in DOMAIN Q : (i \in DOMAIN Requests(e) /\ Q[i] = Requests(e)[i]) \/ Q[i].msg = b,
         e \notin torn' => /\ e \notin torn /\ Q = Requests(e)
                           /\ completed'[e] <= posted[e] - Len(Requests(e)) /\ Accounted(e)',
         zcBatch'[e] = b + 1, posted'[e] = posted[e], completed[e] <= completed'[e],
         zcActive'[e] = zcActive[e] \/ zcActive'[e] = TRUE, mr'[e] = mr[e] \/ zcActive[e] = FALSE
  PROVE  EndInv(e)'
<1>1. Counted(e) /\ Behind(e) /\ Whole(e) /\ Executed(e)
  BY DEF EndInv
<1>2. /\ zcPlan' = zcPlan /\ filled' = filled
  BY DEF OnlyEnd
<1>3. b \in Nat /\ b <= Len(zcPlan) /\ Len(zcPlan) \in Nat
  BY ZcMessageFacts DEF ZcTypes
<1>4. /\ (\A c : Settled(c)' => Settled(c) /\ c < b)
      /\ (\A c : ~Settled(c) => ~Settled(c)')
      /\ (\A c : <<e, c>> \in aborted => ~Settled(c))
  <2>1. <<e, b>>[2] = b /\ <<e, b>> \in aborted'
    OBVIOUS
  <2>2. \A c : Settled(c)' => Settled(c) /\ c < b
    BY <2>1 DEF Settled
  <2>3. \A c : <<e, c>> \in aborted => ~Settled(c)
    <3> TAKE c
    <3> HAVE <<e, c>> \in aborted
    <3>1. <<e, c>>[2] = c
      OBVIOUS
    <3> QED BY <3>1, SettledFacts
  <2> QED BY <2>2, <2>3
<1>5. Counted(e)'
  <2>1. PICK p \in Nat, c \in Nat : p = posted[e] /\ c = completed[e] /\ p - c <= Window
    BY <1>1, EndTypes DEF Counted
  <2>2. PICK d \in Nat : d = completed'[e] /\ c <= d
    BY <2>1 DEF ZcTypes
  <2>3. p - d <= Window
    BY <2>1, <2>2, CutFacts
  <2>4. posted'[e] - completed'[e] <= Window
    BY <2>1, <2>2, <2>3
  <2>5. zcActive[e] = FALSE => posted[e] = 0
    BY <1>1 DEF Counted
  <2>6. ChunksIn(mr[e].size)' \in Nat
    <3>1. PICK s \in Nat : s = mr'[e].size
      BY DEF ZcTypes, Region
    <3>2. PICK c1 \in Nat \ {0} : c1 = Cut
      BY CutFacts
    <3>3. (s + c1 - 1) \div c1 \in Nat
      <4>1. CASE s = 0
        <5>1. PICK t \in Int : t = (c1 - 1) \div c1
          OBVIOUS
        <5>2. c1 - 1 = c1 * t + ((c1 - 1) % c1) /\ (c1 - 1) % c1 \in 0 .. c1 - 1
          BY <5>1, SMTT(30)
        <5>3. t >= 0
          <6>1. CASE t < 0
            <7>1. c1 * t <= 0 - c1
              BY <6>1, SMTT(30)
            <7> QED BY <7>1, <5>2
          <6> QED BY <6>1
        <5>4. s + c1 - 1 = c1 - 1
          BY <4>1
        <5> QED BY <5>1, <5>3, <5>4
      <4>2. CASE s # 0
        BY <4>2, RoundUp
      <4> QED BY <4>1, <4>2
    <3> QED BY <3>1, <3>2, <3>3 DEF ChunksIn
  <2>7. zcActive'[e] => posted'[e] <= ChunksIn(mr[e].size)'
    <3>1. CASE zcActive[e] = FALSE
      BY <3>1, <2>5, <2>6
    <3>2. CASE zcActive[e] # FALSE
      <4>1. zcActive[e] /\ mr'[e] = mr[e]
        BY <3>2, EndTypes
      <4> QED BY <4>1, <1>1 DEF Counted, ChunksIn
    <3> QED BY <3>1, <3>2
  <2>8. ~zcActive'[e] => posted'[e] = 0
    BY <2>5, EndTypes
  <2> QED BY <2>4, <2>7, <2>8 DEF Counted
<1>6. Behind(e)'
  <2>1. ASSUME NEW a \in aborted', a[1] = e PROVE a[2] < zcBatch'[e]
    <3>1. CASE a \in aborted
      <4>1. a[2] < b /\ a[2] \in Nat
        BY <2>1, <3>1, <1>1, SettledFacts DEF Behind
      <4> QED BY <4>1, <1>3
    <3>2. CASE a = <<e, b>>
      BY <3>2, <1>3
    <3> QED BY <3>1, <3>2
  <2>2. ASSUME e \in torn', NEW i \in DOMAIN Q PROVE ~Settled(Q[i].msg)'
    <3>1. CASE Q[i].msg = b
      <4>1. ~(b < b)
        BY <1>3
      <4> QED BY <3>1, <4>1, <1>4
    <3>2. CASE i \in DOMAIN Requests(e) /\ Q[i] = Requests(e)[i] /\ e \in torn
      BY <3>2, <1>1, <1>4 DEF Behind
    <3>3. CASE i \in DOMAIN Requests(e) /\ Q[i] = Requests(e)[i] /\ e \notin torn
      <4>1. Owned(e, Requests(e)[i].msg)
        BY <3>3, <1>1 DEF Whole, Queued
      <4>2. Q[i].msg = b \/ <<e, Q[i].msg>> \in aborted
        BY <3>3, <4>1 DEF Owned
      <4> QED BY <3>1, <4>2, <1>4
    <3> QED BY <3>1, <3>2, <3>3
  <2>3. \A i \in DOMAIN Requests(e)' : (~Settled(Requests(e)[i].msg))' <=> ~Settled(Q[i].msg)'
    BY DEF Settled
  <2>4. \E a \in aborted' : a[1] = e
    <3>1. <<e, b>> \in aborted' /\ <<e, b>>[1] = e
      OBVIOUS
    <3> QED BY <3>1
  <2> QED BY <2>1, <2>2, <2>3, <2>4 DEF Behind
<1>7. AtMessage(e)'
  <2>1. ~Settled(zcBatch[e])'
    <3>1. ~(b + 1 < b)
      BY <1>3
    <3>2. ~Settled(b + 1)'
      BY <3>1, <1>4
    <3> QED BY <3>2 DEF Settled
  <2> QED BY <2>1 DEF AtMessage
<1>8. Whole(e)'
  <2> SUFFICES ASSUME e \notin torn' PROVE Queued(e)'
    BY DEF Whole
  <2>1. e \notin torn /\ Q = Requests(e) /\ completed'[e] <= posted[e] - Len(Requests(e))
    OBVIOUS
  <2>2. Queued(e)
    BY <2>1, <1>1 DEF Whole
  <2>3. ASSUME NEW i \in DOMAIN Q
        PROVE  /\ Owned(e, Requests(e)[i].msg)'
               /\ AsksFor(Requests(e)[i], Requests(e)[i].msg, posted[e] - Len(Requests(e)) + i, mr[e].key)'
    <3>1. /\ Owned(e, Q[i].msg)
          /\ AsksFor(Q[i], Q[i].msg, posted[e] - Len(Q) + i, mr[e].key)
      BY <2>1, <2>2 DEF Queued
    <3>2. mr'[e] = mr[e]
      <4>1. zcActive[e] # FALSE
        <5>1. Requests(e) # << >>
          BY <2>1, <2>3
        <5> QED BY <5>1, <2>2, <1>1, TransferFacts
      <4> QED BY <4>1
    <3>3. <<e, Q[i].msg>> \in aborted'
      BY <3>1 DEF Owned
    <3>4. Owned(e, Requests(e)[i].msg)'
      BY <3>1, <3>2, <3>3, <1>2 DEF Owned, IsLarge
    <3>5. AsksFor(Requests(e)[i], Requests(e)[i].msg, posted[e] - Len(Requests(e)) + i, mr[e].key)'
      BY <3>1, <3>2, <1>2 DEF AsksFor, ChunkFrom, ChunkLen
    <3> QED BY <3>4, <3>5
  <2>4. completed'[e] <= posted'[e] - Len(Requests(e)')
    BY <2>1
  <2> QED BY <2>3, <2>4 DEF Queued
<1>9. Executed(e)'
  <2> SUFFICES ASSUME NEW a \in DOMAIN zcPlan, Settled(a), a < b
               PROVE  /\ (a < zcBatch'[e] => Len(filled[a]) = IF IsLarge(a) THEN ZcTotal(a) ELSE 0)
                      /\ a # zcBatch'[e] /\ ~(a > zcBatch'[e])
    BY <1>2, <1>4 DEF Executed, IsLarge, ZcTotal, ChunksIn
  <2>1. a \in Nat
    BY ZcMessageFacts DEF ZcTypes
  <2>2. Len(filled[a]) = IF IsLarge(a) THEN ZcTotal(a) ELSE 0
    BY <1>1 DEF Executed
  <2> QED BY <2>1, <2>2, <1>3
<1> QED BY <1>5, <1>6, <1>7, <1>8, <1>9 DEF EndInv

-----------------------------------------------------------------------------
(* The calls *)

\* The parts of the invariant.
LEMMA InvParts ==
  ASSUME ZcInv
  PROVE  /\ ZcTypes /\ Pieces /\ (\A e \in ZcEnds : EndInv(e))
         /\ "sender" \in ZcEnds /\ "receiver" \in ZcEnds /\ ZcEnds = {"sender", "receiver"}
         /\ Requests("sender") = sq /\ Requests("receiver") = rq /\ Requests("sender")' = sq' /\ Requests("receiver")' = rq'
BY DEF ZcInv, ZcEnds, Requests

\* All the completions an end finds.
LEMMA AllHandled ==
  ASSUME ZcTypes, NEW e \in ZcEnds
  PROVE  /\ Len(zcCq[e]) \in 0 .. Len(zcCq[e])
         /\ Zc!Handled(e, Len(zcCq[e])) \in Nat /\ completed[e] <= Zc!Handled(e, Len(zcCq[e]))
<1>1. zcCq[e] \in Seq(Report)
  BY DEF ZcTypes
<1>2. Len(zcCq[e]) \in 0 .. Len(zcCq[e])
  BY <1>1
<1> QED BY <1>2, HandledFacts

\* A zero-copy call of either end.
LEMMA CallKeeps ==
  ASSUME ZcInv, NEW e \in ZcEnds, Zc!MayGo(e), NEW f, f = Zc!Handled(e, Len(zcCq[e])),
         LET already == posted[e]
             count   == Zc!Min({Zc!WindowLeft(already, f), Zc!Total(e) - already})
             sent    == already + count
             done    == Zc!Done(f, sent, Zc!Total(e))
             region  == IF zcActive[e] THEN mr[e] ELSE Zc!Acquire(e)
         IN /\ mr' = [mr EXCEPT ![e] = region]
            /\ Requests(e)' = Requests(e) \o [i \in 1 .. count |-> Zc!Request(e, already + i, region, i = count)]
            /\ Zc!Settle(e, done, sent, f)
            /\ Zc!Proceed(e, done),
         \A d \in ZcEnds \ {e} : Requests(d)' = Requests(d), zcCq' = [zcCq EXCEPT ![e] = << >>],
         zcPlan' = zcPlan, filled' = filled, acks' = acks, ringWire' \in Nat, arrivals' \in Nat,
         aborted' = aborted, torn' = torn
  PROVE  ZcInv'
<1>1. ZcTypes /\ EndInv(e) /\ Counted(e)
  BY InvParts DEF EndInv
<1>2. PICK b \in DOMAIN zcPlan : b = zcBatch[e]
  BY <1>1, OfPlan DEF Zc!MayGo
<1>3. f \in Nat /\ completed[e] <= f
  BY <1>1, AllHandled
<1>4. PICK count, region :
        /\ count = PostCount(e, f) /\ region = CallRegion(e)
        /\ count = Zc!Min({Zc!WindowLeft(posted[e], f), Zc!Total(e) - posted[e]})
        /\ count \in Nat /\ region \in Region /\ posted[e] + count <= ZcTotal(b)
  BY <1>1, <1>2, <1>3, CallGoes
<1>5. PICK done \in BOOLEAN : (done <=> f = ZcTotal(b)) /\ done = Zc!Done(f, posted[e] + count, Zc!Total(e))
  <2>1. Zc!Done(f, posted[e] + count, Zc!Total(e)) = (f = ZcTotal(b))
    BY <1>1, <1>2, ModelNames DEF Zc!Done
  <2> QED BY <2>1
<1>6. /\ mr' = [mr EXCEPT ![e] = region]
      /\ Requests(e)' = Requests(e) \o [i \in 1 .. count |-> Zc!Request(e, posted[e] + i, region, i = count)]
      /\ Zc!Settle(e, done, posted[e] + count, f)
      /\ Zc!Proceed(e, done)
  BY <1>4, <1>5, Zenon DEF CallRegion
<1>7. PICK last \in [1 .. count -> BOOLEAN] : last = [i \in 1 .. count |-> i = count]
  OBVIOUS
<1>8. [i \in 1 .. count |-> Zc!Request(e, posted[e] + i, region, i = count)]
        = [i \in 1 .. count |-> Zc!Request(e, posted[e] + i, region, last[i])]
  BY <1>7
<1>9. Requests(e)' = Chain(e, count, region, last)
  BY <1>6, <1>8 DEF Chain
<1>10. /\ zcActive' = [zcActive EXCEPT ![e] = ~done]
       /\ posted' = [posted EXCEPT ![e] = IF done THEN 0 ELSE posted[e] + count]
       /\ completed' = [completed EXCEPT ![e] = IF done THEN 0 ELSE f]
       /\ zcBatch' = [zcBatch EXCEPT ![e] = IF done THEN b + 1 ELSE b]
  <2>1. /\ zcActive' = [zcActive EXCEPT ![e] = ~done]
        /\ posted' = [posted EXCEPT ![e] = IF done THEN 0 ELSE posted[e] + count]
        /\ completed' = [completed EXCEPT ![e] = IF done THEN 0 ELSE f]
    BY <1>6 DEF Zc!Settle
  <2>2. zcBatch' = [zcBatch EXCEPT ![e] = IF done THEN b + 1 ELSE b]
    <3>1. zcBatch' = IF done THEN [zcBatch EXCEPT ![e] = b + 1] ELSE zcBatch
      BY <1>2, <1>6 DEF Zc!Proceed
    <3>2. zcBatch = [zcBatch EXCEPT ![e] = b]
      BY <1>1, <1>2 DEF ZcTypes
    <3> QED BY <3>1, <3>2
  <2> QED BY <2>1, <2>2
<1>11. PICK b2 \in 1 .. Len(zcPlan) + 1, p2 \in Nat, c2 \in Nat, Q \in Seq(Zc!ZcRequest) :
         /\ b2 = (IF done THEN b + 1 ELSE b) /\ p2 = (IF done THEN 0 ELSE posted[e] + count)
         /\ c2 = (IF done THEN 0 ELSE f) /\ Q = Chain(e, count, region, last)
  <2>1. b \in 1 .. Len(zcPlan) + 1 /\ b + 1 \in 1 .. Len(zcPlan) + 1
    <3>1. DOMAIN zcPlan = 1 .. Len(zcPlan) /\ Len(zcPlan) \in Nat
      BY <1>1, ZcMessageFacts DEF ZcTypes
    <3> QED BY <3>1
  <2>2. posted[e] + count \in Nat
    BY <1>1, <1>4, EndTypes
  <2>3. Chain(e, count, region, last) \in Seq(Zc!ZcRequest)
    BY <1>1, <1>2, <1>4, ChainGrows
  <2> QED BY <2>1, <2>2, <2>3, <1>3
<1>12. PICK act \in BOOLEAN : act = (~done)
  OBVIOUS
<1>a. << >> \in Seq(Report)
  OBVIOUS
<1>b. PICK none \in Seq(Report) : none = << >>
  BY <1>a
<1>13. Moves(e, b2, act, p2, c2, region, Q, none) /\ Tells(e)
  BY <1>6, <1>9, <1>10, <1>11, <1>12, <1>b DEF Moves, Tells
<1>14. /\ ZcTypes' /\ OnlyEnd(e)
       /\ zcBatch'[e] = b2 /\ zcActive'[e] = act /\ posted'[e] = p2 /\ completed'[e] = c2 /\ mr'[e] = region
       /\ zcCq'[e] = none /\ Requests(e)' = Q
  <2>1. aborted' # aborted => zcBatch[e] \in DOMAIN zcPlan
    OBVIOUS
  <2>2. ZcTypes /\ e \in ZcEnds /\ act \in BOOLEAN
    BY <1>1
  <2>3. region \in Region
    BY <1>4
  <2> QED BY ONLY <2>1, <2>2, <2>3, <1>13, Moved, b2 \in 1 .. Len(zcPlan) + 1, p2 \in Nat, c2 \in Nat,
               Q \in Seq(Zc!ZcRequest), none \in Seq(Report)
<1>15. EndInv(e)'
  <2>1. CallLeaves(e, b, f, count, last, done)
    BY <1>4, <1>11, <1>12, <1>14, <1>b DEF CallLeaves
  <2>2. f = Zc!Handled(e, Len(zcCq[e])) /\ (done <=> f = ZcTotal(b)) /\ count = PostCount(e, f) /\ b = zcBatch[e]
    BY <1>2, <1>4, <1>5
  <2>3. last \in [1 .. count -> BOOLEAN] /\ count \in Nat /\ done \in BOOLEAN /\ f \in Nat /\ b \in DOMAIN zcPlan
    BY <1>3, <1>4
  <2>4. ZcTypes /\ EndInv(e) /\ Zc!MayGo(e) /\ ZcTypes' /\ OnlyEnd(e) /\ aborted' = aborted /\ torn' = torn
    BY <1>1, <1>14
  <2> QED BY ONLY e \in ZcEnds, <2>1, <2>2, <2>3, <2>4, CallKeepsEnd
<1> QED BY <1>14, <1>15, EndStepKeeps

\* TrySend on a large message.
LEMMA TrySendZcKeeps ==
  ASSUME ZcInv, Zc!TrySendZc
  PROVE  ZcInv'
<1>0. /\ ZcTypes /\ "sender" \in ZcEnds /\ ZcEnds \ {"sender"} = {"receiver"}
      /\ Requests("sender") = sq /\ Requests("receiver") = rq /\ Requests("sender")' = sq' /\ Requests("receiver")' = rq'
  BY InvParts
<1>1. PICK f : f = Zc!Handled("sender", Len(zcCq["sender"]))
  OBVIOUS
<1>2. Zc!SendCompleted = f
  BY <1>1 DEF Zc!SendCompleted, Zc!Handled, Zc!Sender
<1>3. /\ Zc!MayGo("sender")
      /\ LET finished == Zc!SendCompleted
             already == posted["sender"]
             count   == Zc!Min({Zc!WindowLeft(already, finished), Zc!Total("sender") - already})
             sent    == already + count
             done    == Zc!Done(finished, sent, Zc!Total("sender"))
             region  == IF zcActive["sender"] THEN mr["sender"] ELSE Zc!Acquire("sender")
         IN /\ mr' = [mr EXCEPT !["sender"] = region]
            /\ sq' = sq \o [i \in 1 .. count |-> Zc!Request("sender", already + i, region, i = count)]
            /\ Zc!Settle("sender", done, sent, finished)
            /\ Zc!Proceed("sender", done)
      /\ zcCq' = [zcCq EXCEPT !["sender"] = << >>]
      /\ zcPlan' = zcPlan /\ rq' = rq /\ acks' = acks /\ ringWire' = ringWire /\ arrivals' = arrivals /\ filled' = filled
      /\ aborted' = aborted /\ torn' = torn
  BY DEF Zc!TrySendZc, Zc!Sender, Zc!historyVars
<1>4. LET already == posted["sender"]
          count   == Zc!Min({Zc!WindowLeft(already, f), Zc!Total("sender") - already})
          sent    == already + count
          done    == Zc!Done(f, sent, Zc!Total("sender"))
          region  == IF zcActive["sender"] THEN mr["sender"] ELSE Zc!Acquire("sender")
      IN /\ mr' = [mr EXCEPT !["sender"] = region]
         /\ Requests("sender")' = Requests("sender") \o [i \in 1 .. count |-> Zc!Request("sender", already + i, region, i = count)]
         /\ Zc!Settle("sender", done, sent, f)
         /\ Zc!Proceed("sender", done)
  BY <1>0, <1>2, <1>3, Zenon
<1>5. ringWire' \in Nat /\ arrivals' \in Nat
  BY <1>0, <1>3 DEF ZcTypes
<1>6. \A d \in ZcEnds \ {"sender"} : Requests(d)' = Requests(d)
  BY <1>0, <1>3
<1> QED BY <1>0, <1>1, <1>3, <1>4, <1>5, <1>6, CallKeeps

\* TryRecv on a large message.
LEMMA TryRecvZcKeeps ==
  ASSUME ZcInv, Zc!TryRecvZc
  PROVE  ZcInv'
<1>0. /\ ZcTypes /\ "receiver" \in ZcEnds /\ ZcEnds \ {"receiver"} = {"sender"}
      /\ Requests("sender") = sq /\ Requests("receiver") = rq /\ Requests("sender")' = sq' /\ Requests("receiver")' = rq'
  BY InvParts
<1>1. PICK f : f = Zc!Handled("receiver", Len(zcCq["receiver"]))
  OBVIOUS
<1>2. Zc!RecvCompleted = f
  BY <1>1 DEF Zc!RecvCompleted, Zc!Handled, Zc!Sender, Zc!Receiver
<1>3. /\ Zc!MayGo("receiver")
      /\ LET finished == Zc!RecvCompleted
             already == posted["receiver"]
             count   == Zc!Min({Zc!WindowLeft(already, finished), Zc!Total("receiver") - already})
             sent    == already + count
             done    == Zc!Done(finished, sent, Zc!Total("receiver"))
             region  == IF zcActive["receiver"] THEN mr["receiver"] ELSE Zc!Acquire("receiver")
         IN /\ mr' = [mr EXCEPT !["receiver"] = region]
            /\ rq' = rq \o [i \in 1 .. count |-> Zc!Request("receiver", already + i, region, i = count)]
            /\ Zc!Settle("receiver", done, sent, finished)
            /\ Zc!Proceed("receiver", done)
      /\ arrivals' = Zc!ArrivalsNow
      /\ zcCq' = [zcCq EXCEPT !["receiver"] = << >>]
      /\ zcPlan' = zcPlan /\ sq' = sq /\ acks' = acks /\ ringWire' = ringWire /\ filled' = filled
      /\ aborted' = aborted /\ torn' = torn
  BY DEF Zc!TryRecvZc, Zc!Receiver, Zc!historyVars
<1>4. LET already == posted["receiver"]
          count   == Zc!Min({Zc!WindowLeft(already, f), Zc!Total("receiver") - already})
          sent    == already + count
          done    == Zc!Done(f, sent, Zc!Total("receiver"))
          region  == IF zcActive["receiver"] THEN mr["receiver"] ELSE Zc!Acquire("receiver")
      IN /\ mr' = [mr EXCEPT !["receiver"] = region]
         /\ Requests("receiver")' = Requests("receiver") \o [i \in 1 .. count |-> Zc!Request("receiver", already + i, region, i = count)]
         /\ Zc!Settle("receiver", done, sent, f)
         /\ Zc!Proceed("receiver", done)
  BY <1>0, <1>2, <1>3, Zenon
<1>5. ringWire' \in Nat /\ arrivals' \in Nat
  <2>1. Zc!ArrivalsNow \in Nat
    BY <1>0, AllHandled, ArrivalsCounted DEF Zc!ArrivalsNow, Zc!Receiver
  <2> QED BY <2>1, <1>0, <1>3 DEF ZcTypes
<1>6. \A d \in ZcEnds \ {"receiver"} : Requests(d)' = Requests(d)
  BY <1>0, <1>3
<1> QED BY <1>0, <1>1, <1>3, <1>4, <1>5, <1>6, CallKeeps

\* A call on a small message of either end.
LEMMA SmallKeeps ==
  ASSUME ZcInv, NEW e \in ZcEnds, zcBatch[e] <= Len(zcPlan), ~Zc!IsZc(Zc!Current(e)),
         NEW f, f = Zc!Handled(e, Len(zcCq[e])), NEW done \in BOOLEAN,
         zcBatch' = (IF done THEN [zcBatch EXCEPT ![e] = zcBatch[e] + 1] ELSE zcBatch),
         completed' = [completed EXCEPT ![e] = f], zcCq' = [zcCq EXCEPT ![e] = << >>],
         zcPlan' = zcPlan, zcActive' = zcActive, posted' = posted, mr' = mr, sq' = sq, rq' = rq,
         acks' = acks, filled' = filled, ringWire' \in Nat, arrivals' \in Nat, aborted' = aborted, torn' = torn
  PROVE  ZcInv'
<1>1. ZcTypes /\ EndInv(e)
  BY InvParts
<1>2. PICK b \in DOMAIN zcPlan : b = zcBatch[e]
  BY <1>1, OfPlan
<1>3. ~IsLarge(b)
  BY <1>1, <1>2, ModelNames
<1>4. f \in Nat
  BY <1>1, AllHandled
<1>a. PICK act \in BOOLEAN, p \in Nat : act = zcActive[e] /\ p = posted[e]
  BY <1>1, EndTypes
<1>b. PICK m \in Region, Q \in Seq(Zc!ZcRequest) : m = mr[e] /\ Q = Requests(e)
  BY <1>1, EndTypes
<1>c. << >> \in Seq(Report)
  OBVIOUS
<1>d. PICK none \in Seq(Report) : none = << >>
  BY <1>c
<1>5. act = zcActive[e] /\ p = posted[e] /\ m = mr[e] /\ Q = Requests(e) /\ none = << >>
  BY <1>a, <1>b, <1>d
<1>6. PICK b2 \in 1 .. Len(zcPlan) + 1 : b2 = IF done THEN b + 1 ELSE b
  <2>1. DOMAIN zcPlan = 1 .. Len(zcPlan) /\ Len(zcPlan) \in Nat
    BY <1>1, ZcMessageFacts DEF ZcTypes
  <2> QED BY <2>1
<1>7. zcBatch' = [zcBatch EXCEPT ![e] = b2]
  <2>1. zcBatch = [zcBatch EXCEPT ![e] = b]
    BY <1>1, <1>2 DEF ZcTypes
  <2> QED BY <2>1, <1>2, <1>6
<1>8. zcActive' = [zcActive EXCEPT ![e] = act] /\ posted' = [posted EXCEPT ![e] = p] /\ mr' = [mr EXCEPT ![e] = m]
  BY <1>1, <1>5 DEF ZcTypes
<1>9. \A d : Requests(d)' = Requests(d)
  BY DEF Requests
<1>10. Moves(e, b2, act, p, f, m, Q, none) /\ Tells(e)
  BY <1>5, <1>7, <1>8, <1>9 DEF Moves, Tells
<1>11. /\ ZcTypes' /\ OnlyEnd(e)
       /\ zcBatch'[e] = b2 /\ zcActive'[e] = act /\ posted'[e] = p /\ completed'[e] = f /\ mr'[e] = m
       /\ zcCq'[e] = none /\ Requests(e)' = Q
  BY <1>1, <1>4, <1>10, Moved
<1>12. EndInv(e)'
  <2>1. /\ zcBatch'[e] = (IF done THEN b + 1 ELSE b) /\ zcActive'[e] = zcActive[e] /\ posted'[e] = posted[e]
        /\ mr'[e] = mr[e] /\ zcCq'[e] = << >> /\ Requests(e)' = Requests(e)
    BY <1>5, <1>6, <1>11
  <2> QED BY <2>1, <1>1, <1>2, <1>3, <1>4, <1>11, SmallKeepsEnd
<1> QED BY <1>11, <1>12, EndStepKeeps

\* A small message goes to the ring, and the sender to its next message.
LEMMA TrySendRingKeeps ==
  ASSUME ZcInv, Zc!TrySendRing
  PROVE  ZcInv'
<1>1. /\ zcBatch["sender"] <= Len(zcPlan) /\ ~Zc!IsZc(Zc!Current("sender"))
      /\ ringWire' = ringWire + 1
      /\ completed' = [completed EXCEPT !["sender"] = Zc!SendCompleted]
      /\ zcBatch' = [zcBatch EXCEPT !["sender"] = zcBatch["sender"] + 1]
      /\ zcCq' = [zcCq EXCEPT !["sender"] = << >>]
      /\ zcPlan' = zcPlan /\ zcActive' = zcActive /\ posted' = posted /\ mr' = mr /\ sq' = sq /\ rq' = rq
      /\ acks' = acks /\ arrivals' = arrivals /\ filled' = filled /\ aborted' = aborted /\ torn' = torn
  BY DEF Zc!TrySendRing, Zc!Sender, Zc!Proceed, Zc!historyVars
<1>2. PICK f : f = Zc!Handled("sender", Len(zcCq["sender"])) /\ f = Zc!SendCompleted
  BY DEF Zc!SendCompleted, Zc!Handled, Zc!Sender
<1>3. ZcTypes /\ "sender" \in ZcEnds
  BY InvParts
<1>4. ringWire' \in Nat /\ arrivals' \in Nat
  BY <1>1, <1>3 DEF ZcTypes
<1>5. PICK done \in BOOLEAN : done = TRUE
  OBVIOUS
<1>6. zcBatch' = (IF done THEN [zcBatch EXCEPT !["sender"] = zcBatch["sender"] + 1] ELSE zcBatch)
  BY <1>1, <1>5
<1>7. completed' = [completed EXCEPT !["sender"] = f]
  BY <1>1, <1>2
<1> QED BY <1>1, <1>2, <1>3, <1>4, <1>6, <1>7, SmallKeeps

\* A small message is read from the ring when it has arrived.
LEMMA TryRecvRingKeeps ==
  ASSUME ZcInv, Zc!TryRecvRing
  PROVE  ZcInv'
<1>1. /\ zcBatch["receiver"] <= Len(zcPlan) /\ ~Zc!IsZc(Zc!Current("receiver"))
      /\ arrivals' = (IF Zc!ArrivalsNow > 0 THEN Zc!ArrivalsNow - 1 ELSE 0)
      /\ completed' = [completed EXCEPT !["receiver"] = Zc!RecvCompleted]
      /\ zcBatch' = (IF Zc!ArrivalsNow > 0 THEN [zcBatch EXCEPT !["receiver"] = zcBatch["receiver"] + 1] ELSE zcBatch)
      /\ zcCq' = [zcCq EXCEPT !["receiver"] = << >>]
      /\ zcPlan' = zcPlan /\ zcActive' = zcActive /\ posted' = posted /\ mr' = mr /\ sq' = sq /\ rq' = rq
      /\ acks' = acks /\ ringWire' = ringWire /\ filled' = filled /\ aborted' = aborted /\ torn' = torn
  BY DEF Zc!TryRecvRing, Zc!Receiver, Zc!Proceed, Zc!historyVars
<1>2. PICK f : f = Zc!Handled("receiver", Len(zcCq["receiver"])) /\ f = Zc!RecvCompleted
  BY DEF Zc!RecvCompleted, Zc!Handled, Zc!Sender, Zc!Receiver
<1>3. ZcTypes /\ "receiver" \in ZcEnds
  BY InvParts
<1>4. PICK n \in Nat : n = Zc!ArrivalsNow
  BY <1>3, AllHandled, ArrivalsCounted DEF Zc!ArrivalsNow, Zc!Receiver
<1>5. ringWire' \in Nat /\ arrivals' \in Nat
  <2>1. arrivals' = IF n > 0 THEN n - 1 ELSE 0
    BY <1>1, <1>4
  <2> QED BY <2>1, <1>1, <1>3 DEF ZcTypes
<1>6. PICK done \in BOOLEAN : done = (IF n > 0 THEN TRUE ELSE FALSE)
  OBVIOUS
<1>7. zcBatch' = (IF done THEN [zcBatch EXCEPT !["receiver"] = zcBatch["receiver"] + 1] ELSE zcBatch)
  BY <1>1, <1>4, <1>6
<1>8. completed' = [completed EXCEPT !["receiver"] = f]
  BY <1>1, <1>2
<1> QED BY <1>1, <1>2, <1>3, <1>5, <1>7, <1>8, SmallKeeps

-----------------------------------------------------------------------------
(* Failures *)

\* End e gives its message b up: it goes on to the next, and counts nothing
\* that is not so unless a chain of it was torn.
LEMMA GiveUpKeeps ==
  ASSUME ZcInv, NEW e \in ZcEnds, NEW b \in DOMAIN zcPlan, b = zcBatch[e],
         aborted' = aborted \cup {<<e, b>>}, torn' = torn \/ torn' = torn \cup {e},
         NEW act \in BOOLEAN, act = zcActive[e] \/ act = TRUE,
         NEW c \in Nat, completed[e] <= c,
         NEW m \in Region, m = mr[e] \/ zcActive[e] = FALSE,
         NEW Q \in Seq(Zc!ZcRequest),
         \A i \in DOMAIN Q : (i \in DOMAIN Requests(e) /\ Q[i] = Requests(e)[i]) \/ Q[i].msg = b,
         NEW q \in Seq(Report), NEW p \in Nat, p = posted[e],
         Moves(e, b + 1, act, p, c, m, Q, q),
         e \notin torn' => /\ Q = Requests(e)
                           /\ (Queued(e) /\ Accounted(e) => c <= posted[e] - Len(Requests(e)) /\ Accounted(e)')
  PROVE  ZcInv'
<1>1. ZcTypes /\ EndInv(e) /\ Whole(e)
  BY InvParts DEF EndInv
<1>2. PICK b2 \in 1 .. Len(zcPlan) + 1 : b2 = b + 1
  <2>1. DOMAIN zcPlan = 1 .. Len(zcPlan) /\ Len(zcPlan) \in Nat
    BY <1>1, ZcMessageFacts DEF ZcTypes
  <2> QED BY <2>1
<1>3. Tells(e) /\ Moves(e, b2, act, p, c, m, Q, q)
  BY <1>2 DEF Tells
<1>4. /\ ZcTypes' /\ OnlyEnd(e)
      /\ zcBatch'[e] = b2 /\ zcActive'[e] = act /\ posted'[e] = p /\ completed'[e] = c /\ mr'[e] = m
      /\ zcCq'[e] = q /\ Requests(e)' = Q
  BY <1>1, <1>3, Moved
<1>5. e \notin torn' => /\ e \notin torn /\ Q = Requests(e)
                        /\ completed'[e] <= posted[e] - Len(Requests(e)) /\ Accounted(e)'
  <2> HAVE e \notin torn'
  <2>1. e \notin torn
    OBVIOUS
  <2>2. Queued(e) /\ Accounted(e)
    BY <2>1, <1>1 DEF Whole
  <2> QED BY <2>1, <2>2, <1>4
<1>6. /\ zcBatch'[e] = b + 1 /\ posted'[e] = posted[e] /\ completed[e] <= completed'[e]
      /\ (zcActive'[e] = zcActive[e] \/ zcActive'[e] = TRUE) /\ (mr'[e] = mr[e] \/ zcActive[e] = FALSE)
      /\ Requests(e)' = Q
  BY <1>2, <1>4
<1>7. EndInv(e)'
  BY <1>1, <1>4, <1>5, <1>6, FailKeepsEnd
<1> QED BY <1>4, <1>7, EndStepKeeps

\* Giving up assigns the end's message and the history.
LEMMA GivesUp ==
  ASSUME ZcTypes, NEW e \in ZcEnds, Zc!GiveUp(e)
  PROVE  /\ zcBatch[e] \in DOMAIN zcPlan /\ zcBatch' = [zcBatch EXCEPT ![e] = zcBatch[e] + 1]
         /\ aborted' = aborted \cup {<<e, zcBatch[e]>>}
         /\ zcPlan' = zcPlan /\ acks' = acks /\ ringWire' \in Nat /\ filled' = filled
BY OfPlan DEF Zc!GiveUp, ZcTypes

\* A poll, whether it went well or not, leaves no completion.
LEMMA PollLeaves ==
  ASSUME ZcTypes, NEW e \in ZcEnds, NEW n \in 0 .. Len(zcCq[e]), Zc!Poll(e, n)
  PROVE  /\ zcCq' = [zcCq EXCEPT ![e] = << >>] /\ completed' = [completed EXCEPT ![e] = Zc!Handled(e, n)]
         /\ arrivals' \in Nat
<1>1. /\ zcCq' = [zcCq EXCEPT ![e] = << >>] /\ completed' = [completed EXCEPT ![e] = Zc!Handled(e, n)]
      /\ arrivals' = IF e = "receiver" THEN Zc!ArrivalsHandled(n) ELSE arrivals
  BY DEF Zc!Poll, Zc!Receiver
<1>2. e = "receiver" => Zc!ArrivalsHandled(n) \in Nat
  BY ArrivalsCounted
<1> QED BY <1>1, <1>2 DEF ZcTypes

\* A failing call, after the first n completions.
LEMMA FailedCallKeeps ==
  ASSUME ZcInv, NEW e \in ZcEnds, Zc!GiveUp(e), NEW n \in 0 .. Len(zcCq[e]), Zc!Poll(e, n),
         torn' = torn \/ torn' = torn \cup {e},
         NEW act \in BOOLEAN, act = zcActive[e] \/ act = TRUE, zcActive' = [zcActive EXCEPT ![e] = act],
         NEW m \in Region, m = mr[e] \/ zcActive[e] = FALSE, mr' = [mr EXCEPT ![e] = m], posted' = posted,
         NEW Q \in Seq(Zc!ZcRequest), Requests(e)' = Q,
         \A i \in DOMAIN Q : (i \in DOMAIN Requests(e) /\ Q[i] = Requests(e)[i]) \/ Q[i].msg = zcBatch[e],
         e \notin torn' => Q = Requests(e), \A d \in ZcEnds \ {e} : Requests(d)' = Requests(d)
  PROVE  ZcInv'
<1>1. ZcTypes /\ EndInv(e) /\ Counted(e)
  BY InvParts DEF EndInv
<1>2. PICK b \in DOMAIN zcPlan : b = zcBatch[e]
  BY <1>1, GivesUp
<1>3. PICK c \in Nat : c = Zc!Handled(e, n) /\ completed[e] <= c
  BY <1>1, HandledFacts
<1>4. << >> \in Seq(Report)
  OBVIOUS
<1>5. PICK none \in Seq(Report) : none = << >>
  BY <1>4
<1>6. PICK p \in Nat : p = posted[e]
  BY <1>1, EndTypes
<1>7. /\ aborted' = aborted \cup {<<e, b>>} /\ zcBatch' = [zcBatch EXCEPT ![e] = b + 1]
      /\ zcPlan' = zcPlan /\ acks' = acks /\ ringWire' \in Nat /\ filled' = filled
  BY <1>1, <1>2, GivesUp
<1>8. zcCq' = [zcCq EXCEPT ![e] = none] /\ completed' = [completed EXCEPT ![e] = c] /\ arrivals' \in Nat
  BY <1>1, <1>3, <1>5, PollLeaves
<1>9. posted' = [posted EXCEPT ![e] = p]
  BY <1>1, <1>6 DEF ZcTypes
<1>10. Moves(e, b + 1, act, p, c, m, Q, none)
  BY <1>7, <1>8, <1>9 DEF Moves
<1>11. e \notin torn' => /\ Q = Requests(e)
                         /\ (Queued(e) /\ Accounted(e) => c <= posted[e] - Len(Requests(e)) /\ Accounted(e)')
  <2> SUFFICES ASSUME e \notin torn', Queued(e), Accounted(e)
               PROVE  c <= posted[e] - Len(Requests(e)) /\ Accounted(e)'
    OBVIOUS
  <2>1. c <= posted[e] - Len(Requests(e)) /\ (e = "sender" => \A i \in DOMAIN acks : acks[i] > c)
    BY <1>1, <1>3, HandledFacts
  <2>2. Requests(e)' = Requests(e) /\ posted'[e] = posted[e]
    OBVIOUS
  <2>3. completed'[e] = c /\ zcCq'[e] = << >>
    BY <1>1, <1>5, <1>8 DEF ZcTypes
  <2>4. completed'[e] = c /\ posted'[e] - Len(Requests(e)') = posted[e] - Len(Requests(e))
    BY <2>2, <2>3
  <2>5. posted'[e] \in Nat /\ Len(Requests(e)') \in Nat
    BY <2>2, <1>1, EndTypes
  <2> QED BY <2>1, <2>3, <2>4, <2>5, <1>1, <1>7, EmptiedAccounts
<1>12. \A i \in DOMAIN Q : (i \in DOMAIN Requests(e) /\ Q[i] = Requests(e)[i]) \/ Q[i].msg = b
  BY <1>2
<1> QED BY <1>2, <1>3, <1>6, <1>7, <1>10, <1>11, <1>12, GiveUpKeeps

\* Another task fails: the end knows nothing of it.
LEMMA AbandonKeeps ==
  ASSUME ZcInv, NEW e \in ZcEnds, Zc!Abandon(e)
  PROVE  ZcInv'
<1>1. ZcTypes /\ EndInv(e) /\ Counted(e)
  BY InvParts DEF EndInv
<1>2. /\ Zc!GiveUp(e) /\ zcActive' = zcActive /\ posted' = posted /\ completed' = completed /\ mr' = mr
      /\ sq' = sq /\ rq' = rq /\ zcCq' = zcCq /\ arrivals' = arrivals /\ torn' = torn
  BY DEF Zc!Abandon, Zc!Fails, Zc!countVars
<1>3. PICK b \in DOMAIN zcPlan : b = zcBatch[e]
  BY <1>1, <1>2, GivesUp
<1>4. PICK act \in BOOLEAN, p \in Nat, c \in Nat : act = zcActive[e] /\ p = posted[e] /\ c = completed[e]
  BY <1>1, EndTypes
<1>5. PICK m \in Region, Q \in Seq(Zc!ZcRequest) : m = mr[e] /\ Q = Requests(e)
  BY <1>1, EndTypes
<1>6. PICK q \in Seq(Report) : q = zcCq[e]
  BY <1>1 DEF ZcTypes
<1>7. /\ aborted' = aborted \cup {<<e, b>>} /\ zcBatch' = [zcBatch EXCEPT ![e] = b + 1]
      /\ zcPlan' = zcPlan /\ acks' = acks /\ ringWire' \in Nat /\ filled' = filled
  BY <1>1, <1>2, <1>3, GivesUp
<1>8. /\ zcActive' = [zcActive EXCEPT ![e] = act] /\ posted' = [posted EXCEPT ![e] = p]
      /\ completed' = [completed EXCEPT ![e] = c] /\ mr' = [mr EXCEPT ![e] = m] /\ zcCq' = [zcCq EXCEPT ![e] = q]
      /\ arrivals' \in Nat
  BY <1>1, <1>2, <1>4, <1>5, <1>6 DEF ZcTypes
<1>9. \A d : Requests(d)' = Requests(d)
  BY <1>2 DEF Requests
<1>10. Moves(e, b + 1, act, p, c, m, Q, q)
  BY <1>5, <1>7, <1>8, <1>9 DEF Moves
<1>11. Queued(e) /\ Accounted(e) => c <= posted[e] - Len(Requests(e)) /\ Accounted(e)'
  <2> HAVE Queued(e) /\ Accounted(e)
  <2>1. c <= posted[e] - Len(Requests(e))
    BY <1>1, <1>4, TransferFacts
  <2>2. Accounted(e)'
    BY <1>2, <1>7 DEF Accounted, SendAccounted, RecvAccounted
  <2> QED BY <2>1, <2>2
<1>12. completed[e] <= c
  BY <1>4
<1>13. \A i \in DOMAIN Q : (i \in DOMAIN Requests(e) /\ Q[i] = Requests(e)[i]) \/ Q[i].msg = b
  BY <1>5
<1> QED BY <1>2, <1>3, <1>4, <1>5, <1>7, <1>10, <1>11, <1>12, <1>13, GiveUpKeeps

\* A call fails or is refused before it changes the transfer.
LEMMA BareFailureKeeps ==
  ASSUME ZcInv, NEW e \in ZcEnds, Zc!GiveUp(e), NEW n \in 0 .. Len(zcCq[e]), Zc!Poll(e, n),
         zcActive' = zcActive, posted' = posted, mr' = mr, sq' = sq, rq' = rq, torn' = torn
  PROVE  ZcInv'
<1>1. ZcTypes
  BY InvParts
<1>2. PICK act \in BOOLEAN : act = zcActive[e]
  BY <1>1, EndTypes
<1>3. PICK m \in Region, Q \in Seq(Zc!ZcRequest) : m = mr[e] /\ Q = Requests(e)
  BY <1>1, EndTypes
<1>4. zcActive' = [zcActive EXCEPT ![e] = act] /\ mr' = [mr EXCEPT ![e] = m]
  BY <1>1, <1>2, <1>3 DEF ZcTypes
<1>5. \A d : Requests(d)' = Requests(d)
  BY DEF Requests
<1>6. Requests(e)' = Q /\ \A d \in ZcEnds \ {e} : Requests(d)' = Requests(d)
  BY <1>3, <1>5
<1>7. \A i \in DOMAIN Q : (i \in DOMAIN Requests(e) /\ Q[i] = Requests(e)[i]) \/ Q[i].msg = zcBatch[e]
  BY <1>3
<1> QED BY <1>2, <1>3, <1>4, <1>6, <1>7, FailedCallKeeps

\* The completion queue cannot be polled.
LEMMA PollFailsKeeps ==
  ASSUME ZcInv, NEW e \in ZcEnds, Zc!PollFails(e)
  PROVE  ZcInv'
<1>1. /\ Zc!GiveUp(e) /\ zcActive' = zcActive /\ posted' = posted /\ mr' = mr /\ sq' = sq /\ rq' = rq /\ torn' = torn
      /\ \E n \in 0 .. Len(zcCq[e]) : Zc!Poll(e, n)
  BY DEF Zc!PollFails, Zc!Fails
<1>2. PICK n \in 0 .. Len(zcCq[e]) : Zc!Poll(e, n)
  BY <1>1
<1> QED BY <1>1, <1>2, BareFailureKeeps

\* A call is refused.
LEMMA RefuseKeeps ==
  ASSUME ZcInv, NEW e \in ZcEnds, Zc!Refuse(e)
  PROVE  ZcInv'
<1>1. /\ Zc!GiveUp(e) /\ zcActive' = zcActive /\ posted' = posted /\ mr' = mr /\ sq' = sq /\ rq' = rq /\ torn' = torn
      /\ Zc!Poll(e, Len(zcCq[e]))
  BY DEF Zc!Refuse
<1>2. ZcTypes
  BY InvParts
<1>3. PICK n \in 0 .. Len(zcCq[e]) : n = Len(zcCq[e])
  BY <1>2, AllHandled
<1> QED BY <1>1, <1>3, BareFailureKeeps

\* The region cannot be registered.
LEMMA RegisterFailsKeeps ==
  ASSUME ZcInv, NEW e \in ZcEnds, Zc!RegisterFails(e)
  PROVE  ZcInv'
<1>1. /\ Zc!GiveUp(e) /\ zcActive' = zcActive /\ posted' = posted /\ sq' = sq /\ rq' = rq /\ torn' = torn
      /\ zcActive[e] # TRUE /\ Zc!Poll(e, Len(zcCq[e]))
      /\ mr' = [mr EXCEPT ![e] = [Zc!NoMr EXCEPT !.key = mr[e].key]]
  BY DEF Zc!RegisterFails, Zc!Fails
<1>2. ZcTypes
  BY InvParts
<1>3. PICK n \in 0 .. Len(zcCq[e]) : n = Len(zcCq[e])
  BY <1>2, AllHandled
<1>4. PICK act \in BOOLEAN : act = zcActive[e] /\ zcActive[e] = FALSE
  BY <1>1, <1>2, EndTypes
<1>5. PICK Q \in Seq(Zc!ZcRequest) : Q = Requests(e)
  BY <1>2, EndTypes
<1>6. [Zc!NoMr EXCEPT !.key = mr[e].key] \in Region
  <2>1. mr[e].key \in Nat
    BY <1>2, EndTypes DEF Region
  <2>2. [Zc!NoMr EXCEPT !.key = mr[e].key] = [buf |-> -1, size |-> 0, key |-> mr[e].key]
    BY DEF Zc!NoMr
  <2> QED BY <2>1, <2>2 DEF Region
<1>7. PICK m \in Region : m = [Zc!NoMr EXCEPT !.key = mr[e].key]
  BY <1>6
<1>8. zcActive' = [zcActive EXCEPT ![e] = act] /\ mr' = [mr EXCEPT ![e] = m]
  BY <1>1, <1>2, <1>4, <1>7 DEF ZcTypes
<1>9. \A d : Requests(d)' = Requests(d)
  BY <1>1 DEF Requests
<1>10. Requests(e)' = Q /\ \A d \in ZcEnds \ {e} : Requests(d)' = Requests(d)
  BY <1>5, <1>9
<1>11. \A i \in DOMAIN Q : (i \in DOMAIN Requests(e) /\ Q[i] = Requests(e)[i]) \/ Q[i].msg = zcBatch[e]
  BY <1>5
<1> QED BY <1>1, <1>3, <1>4, <1>5, <1>8, <1>10, <1>11, FailedCallKeeps

\* A chain is posted in part.
LEMMA PostFailsKeeps ==
  ASSUME ZcInv, NEW e \in ZcEnds, Zc!PostFails(e)
  PROVE  ZcInv'
<1>1. ZcTypes /\ Counted(e)
  BY InvParts DEF EndInv
<1>2. PICK f : f = Zc!Handled(e, Len(zcCq[e]))
  OBVIOUS
<1>3. /\ Zc!GiveUp(e) /\ Zc!MayGo(e) /\ Zc!Poll(e, Len(zcCq[e])) /\ posted' = posted
      /\ zcActive' = [zcActive EXCEPT ![e] = TRUE]
  BY DEF Zc!PostFails, Zc!Fails
<1>4. PICK k \in 0 .. Zc!Min({Zc!WindowLeft(posted[e], f), Zc!Total(e) - posted[e]}) - 1 :
        LET region == IF zcActive[e] THEN mr[e] ELSE Zc!Acquire(e)
            longer == Zc!Queue(e) \o [i \in 1 .. k |-> Zc!Request(e, posted[e] + i, region, FALSE)]
        IN /\ mr' = [mr EXCEPT ![e] = region]
           /\ sq' = (IF e = "sender" THEN longer ELSE sq)
           /\ rq' = (IF e = "receiver" THEN longer ELSE rq)
           /\ torn' = IF k > 0 THEN torn \cup {e} ELSE torn
  BY <1>2 DEF Zc!PostFails, Zc!Sender, Zc!Receiver
<1>5. PICK b \in DOMAIN zcPlan : b = zcBatch[e]
  BY <1>1, <1>3, OfPlan DEF Zc!MayGo
<1>6. f \in Nat /\ completed[e] <= f
  BY <1>1, <1>2, AllHandled
<1>7. PICK count, region :
        /\ region = CallRegion(e)
        /\ count = Zc!Min({Zc!WindowLeft(posted[e], f), Zc!Total(e) - posted[e]})
        /\ count \in Nat /\ region \in Region /\ posted[e] + count <= ZcTotal(b)
        /\ (zcActive[e] => region = mr[e])
  BY <1>1, <1>3, <1>5, <1>6, CallGoes
<1>8. PICK last \in [1 .. k -> BOOLEAN] : last = [i \in 1 .. k |-> FALSE]
  OBVIOUS
<1>9. k \in Nat /\ posted[e] + k <= ZcTotal(b)
  <2>1. PICK p \in Nat, t \in Nat : p = posted[e] /\ t = ZcTotal(b) /\ p + count <= t
    BY <1>1, <1>7, EndTypes, ZcChunkFacts DEF ZcTypes
  <2>2. k \in 0 .. count - 1
    BY <1>7
  <2>3. k \in Nat /\ p + k <= t
    BY <2>1, <2>2, <1>7
  <2> QED BY <2>1, <2>3
<1>10. PICK Q : Q = Chain(e, k, region, last)
  OBVIOUS
<1>11. /\ Q \in Seq(Zc!ZcRequest) /\ Len(Q) = Len(Requests(e)) + k
       /\ (\A i \in 1 .. Len(Requests(e)) : i \in DOMAIN Requests(e) /\ Q[i] = Requests(e)[i])
       /\ (\A i \in DOMAIN Q : (i \in DOMAIN Requests(e) /\ Q[i] = Requests(e)[i]) \/ Q[i].msg = b)
  BY <1>1, <1>5, <1>7, <1>9, <1>10, ChainGrows
<1>12. /\ mr' = [mr EXCEPT ![e] = region]
       /\ sq' = (IF e = "sender" THEN Q ELSE sq)
       /\ rq' = (IF e = "receiver" THEN Q ELSE rq)
       /\ torn' = IF k > 0 THEN torn \cup {e} ELSE torn
  <2>1. Zc!Queue(e) = Requests(e)
    BY DEF Zc!Queue, Zc!Sender, Requests
  <2>2. [i \in 1 .. k |-> Zc!Request(e, posted[e] + i, region, FALSE)]
          = [i \in 1 .. k |-> Zc!Request(e, posted[e] + i, region, last[i])]
    BY <1>8
  <2>3. Q = Zc!Queue(e) \o [i \in 1 .. k |-> Zc!Request(e, posted[e] + i, region, FALSE)]
    BY <2>1, <2>2, <1>10 DEF Chain
  <2>4. region = IF zcActive[e] THEN mr[e] ELSE Zc!Acquire(e)
    BY <1>7 DEF CallRegion
  <2> QED BY <2>3, <2>4, <1>4
<1>13. Requests(e)' = Q /\ \A d \in ZcEnds \ {e} : Requests(d)' = Requests(d)
  BY <1>12 DEF Requests, ZcEnds
<1>14. e \notin torn' => Q = Requests(e)
  <2> HAVE e \notin torn'
  <2>1. k = 0
    BY <1>9, <1>12
  <2>2. PICK old \in Seq(Zc!ZcRequest) : old = Requests(e)
    BY <1>1, EndTypes
  <2>3. Len(Q) = Len(old) /\ \A i \in 1 .. Len(old) : Q[i] = old[i]
    BY <2>1, <2>2, <1>11
  <2> QED BY <2>2, <2>3, <1>11
<1>15. PICK act \in BOOLEAN : act = TRUE
  OBVIOUS
<1>16. PICK n \in 0 .. Len(zcCq[e]) : n = Len(zcCq[e])
  BY <1>1, AllHandled
<1>17. torn' = torn \/ torn' = torn \cup {e}
  BY <1>12
<1>18. region = mr[e] \/ zcActive[e] = FALSE
  BY <1>1, <1>7, EndTypes
<1>19. region \in Region /\ Q \in Seq(Zc!ZcRequest)
  BY <1>7, <1>11
<1>20. zcActive' = [zcActive EXCEPT ![e] = act] /\ mr' = [mr EXCEPT ![e] = region] /\ Zc!Poll(e, n)
  BY <1>3, <1>12, <1>15, <1>16
<1>21. \A i \in DOMAIN Q : (i \in DOMAIN Requests(e) /\ Q[i] = Requests(e)[i]) \/ Q[i].msg = zcBatch[e]
  BY <1>5, <1>11
<1> QED BY ONLY ZcInv, e \in ZcEnds, act \in BOOLEAN, n \in 0 .. Len(zcCq[e]),
             <1>3, <1>13, <1>14, <1>15, <1>17, <1>18, <1>19, <1>20, <1>21, FailedCallKeeps

-----------------------------------------------------------------------------
(* The card *)

\* The card changes neither what the ends know nor what has failed.
CardOnly ==
  /\ zcPlan' = zcPlan /\ zcBatch' = zcBatch /\ zcActive' = zcActive /\ posted' = posted /\ completed' = completed
  /\ mr' = mr /\ aborted' = aborted /\ torn' = torn

\* What an end can say of itself, apart from its queues, it still can.
LEMMA CardKeeps ==
  ASSUME CardOnly, NEW e \in ZcEnds, EndInv(e)
  PROVE  /\ Counted(e)' /\ AtMessage(e)' /\ (\A b : Settled(b)' <=> Settled(b))
         /\ (\A b : Owned(e, b)' <=> Owned(e, b))
         /\ (\A a, b, k, key : AsksFor(a, b, k, key)' <=> AsksFor(a, b, k, key))
<1>1. /\ zcPlan' = zcPlan /\ zcBatch' = zcBatch /\ zcActive' = zcActive /\ posted' = posted /\ completed' = completed
      /\ mr' = mr /\ aborted' = aborted /\ torn' = torn
  BY DEF CardOnly
<1>2. Counted(e) /\ AtMessage(e)
  BY DEF EndInv
<1>3. Counted(e)'
  BY <1>1, <1>2 DEF Counted, ChunksIn
<1>4. AtMessage(e)'
  BY <1>1, <1>2 DEF AtMessage, Settled, IsLarge
<1>5. \A b : Settled(b)' <=> Settled(b)
  BY <1>1 DEF Settled
<1>6. \A b : Owned(e, b)' <=> Owned(e, b)
  BY <1>1 DEF Owned, IsLarge
<1>7. \A a, b, k, key : AsksFor(a, b, k, key)' <=> AsksFor(a, b, k, key)
  BY <1>1 DEF AsksFor, ChunkFrom, ChunkLen
<1> QED BY <1>3, <1>4, <1>5, <1>6, <1>7

\* A step of the card that takes no request.
LEMMA QuietCard ==
  ASSUME CardOnly, NEW e \in ZcEnds, EndInv(e), Requests(e)' = Requests(e), filled' = filled,
         Accounted(e) => Accounted(e)'
  PROVE  EndInv(e)'
<1>1. /\ zcPlan' = zcPlan /\ zcBatch' = zcBatch /\ posted' = posted /\ completed' = completed
      /\ mr' = mr /\ aborted' = aborted /\ torn' = torn
  BY DEF CardOnly
<1>2. Behind(e) /\ Whole(e) /\ Executed(e)
  BY DEF EndInv
<1>3. /\ Counted(e)' /\ AtMessage(e)' /\ (\A b : Settled(b)' <=> Settled(b))
      /\ (\A b : Owned(e, b)' <=> Owned(e, b))
      /\ (\A a, b, k, key : AsksFor(a, b, k, key)' <=> AsksFor(a, b, k, key))
  BY CardKeeps
<1>4. Behind(e)'
  BY <1>1, <1>2 DEF Behind, Settled
<1>5. Queued(e) => Queued(e)'
  BY <1>1 DEF Queued, Owned, IsLarge, AsksFor, ChunkFrom, ChunkLen
<1>6. Whole(e)'
  BY <1>1, <1>2, <1>5 DEF Whole
<1>7. Executed(e)'
  BY <1>1, <1>2, <1>3 DEF Executed, IsLarge, ZcTotal, ChunksIn
<1> QED BY <1>3, <1>4, <1>6, <1>7 DEF EndInv

\* An end whose message is settled has requests for that message only.
LEMMA HeadMsg ==
  ASSUME ZcTypes, NEW e \in ZcEnds, EndInv(e), Requests(e) # << >>
  PROVE  /\ 1 \in DOMAIN Requests(e) /\ Head(Requests(e)) = Requests(e)[1]
         /\ (Settled(zcBatch[e]) => e \notin torn /\ Head(Requests(e)).msg = zcBatch[e])
         /\ (Settled(Head(Requests(e)).msg) => e \notin torn /\ Head(Requests(e)).msg = zcBatch[e])
<1>1. Behind(e) /\ Whole(e)
  BY DEF EndInv
<1>2. PICK q \in Seq(Zc!ZcRequest) : q = Requests(e)
  BY EndTypes
<1>3. 1 \in DOMAIN q /\ Head(q) = q[1]
  BY <1>2
<1>4. e \notin torn => Owned(e, q[1].msg)
  BY <1>1, <1>2, <1>3 DEF Whole, Queued
<1>5. Settled(zcBatch[e]) => e \notin torn /\ q[1].msg = zcBatch[e]
  BY <1>1, <1>4, SettledFacts DEF Owned
<1>6. e \in torn => ~Settled(q[1].msg)
  BY <1>1, <1>2, <1>3 DEF Behind
<1>7. <<e, q[1].msg>> \in aborted => ~Settled(q[1].msg)
  <2>1. PICK b : b = q[1].msg
    OBVIOUS
  <2>2. <<e, b>>[2] = b
    OBVIOUS
  <2>3. <<e, b>> \in aborted => ~Settled(b)
    BY <2>2, SettledFacts
  <2> QED BY <2>1, <2>3
<1> QED BY <1>2, <1>3, <1>4, <1>5, <1>6, <1>7 DEF Owned

\* The first request of an end at a settled message is for the chunk after
\* those executed.
LEMMA FirstRequest ==
  ASSUME ZcTypes, NEW e \in ZcEnds, EndInv(e), Requests(e) # << >>, Settled(zcBatch[e])
  PROVE  /\ zcBatch[e] \in DOMAIN zcPlan /\ IsLarge(zcBatch[e])
         /\ Len(filled[zcBatch[e]]) \in Nat /\ Len(filled[zcBatch[e]]) = posted[e] - Len(Requests(e))
         /\ Len(filled[zcBatch[e]]) + 1 <= ZcTotal(zcBatch[e])
         /\ AsksFor(Head(Requests(e)), zcBatch[e], Len(filled[zcBatch[e]]) + 1, mr[e].key)
<1>1. Counted(e) /\ AtMessage(e) /\ Whole(e) /\ Executed(e) /\ e \notin torn /\ Head(Requests(e)).msg = zcBatch[e]
  BY HeadMsg DEF EndInv
<1>2. Queued(e)
  BY <1>1 DEF Whole
<1>3. zcActive[e]
  BY <1>1, <1>2, TransferFacts
<1>4. PICK b \in DOMAIN zcPlan : b = zcBatch[e] /\ IsLarge(b) /\ mr[e].size = zcPlan[b].size
  BY <1>1, <1>3, OfPlan DEF AtMessage
<1>5. PICK q \in Seq(Zc!ZcRequest), n \in Nat, p \in Nat : q = Requests(e) /\ n = Len(q) /\ p = posted[e] /\ n <= p /\ n > 0
  BY <1>1, <1>2, TransferFacts, EndTypes
<1>6. Head(q) = q[1] /\ 1 \in DOMAIN q /\ q[1].msg = b
  BY <1>1, <1>4, <1>5
<1>7. Len(filled[b]) = p - n
  BY <1>1, <1>4, <1>5 DEF Executed
<1>8. PICK t \in Nat : t = ZcTotal(b)
  BY ZcChunkFacts DEF ZcTypes
<1>9. p <= t
  BY <1>1, <1>3, <1>4, <1>5, <1>8 DEF Counted, ZcTotal
<1>10. AsksFor(q[1], b, p - n + 1, mr[e].key)
  BY <1>2, <1>4, <1>5, <1>6 DEF Queued
<1>11. p - n \in Nat /\ p - n + 1 <= t
  BY <1>5, <1>9
<1> QED BY <1>4, <1>5, <1>6, <1>7, <1>8, <1>10, <1>11

\* Both ends' first requests are for the same chunk of the same message, if
\* one end's message is settled: an end that were ahead would have seen the
\* whole of the other's message.
LEMMA SameChunk ==
  ASSUME ZcTypes, NEW e \in ZcEnds, NEW d \in ZcEnds, EndInv(e), EndInv(d),
         Requests(e) # << >>, Requests(d) # << >>, Settled(zcBatch[e])
  PROVE  zcBatch[d] = zcBatch[e]
<1>1. PICK b \in DOMAIN zcPlan : b = zcBatch[e] /\ IsLarge(b) /\ Len(filled[b]) \in Nat /\ Len(filled[b]) + 1 <= ZcTotal(b)
  BY FirstRequest
<1>2. PICK c \in Nat : c = zcBatch[d]
  BY EndTypes
<1>3. b \in Nat /\ ZcTotal(b) \in Nat
  BY ZcMessageFacts, ZcChunkFacts DEF ZcTypes
<1>4. ~(b < c)
  <2>1. b < c => Len(filled[b]) = ZcTotal(b)
    BY <1>1, <1>2 DEF Executed, EndInv
  <2> QED BY <2>1, <1>1, <1>3
<1>5. ~(c < b)
  <2> SUFFICES ASSUME c < b PROVE FALSE
    OBVIOUS
  <2>1. Settled(c)
    BY <1>1, <1>2, <1>3, SettledFacts
  <2>2. c \in DOMAIN zcPlan /\ IsLarge(c) /\ Len(filled[c]) \in Nat /\ Len(filled[c]) + 1 <= ZcTotal(c)
    BY <2>1, <1>2, FirstRequest
  <2>3. Len(filled[c]) = ZcTotal(c)
    BY <2>1, <2>2, <1>1 DEF Executed, EndInv
  <2> QED BY <2>2, <2>3
<1> QED BY <1>1, <1>2, <1>3, <1>4, <1>5

\* The queue of an end without its first request.
LEMMA RequestTaken ==
  ASSUME ZcTypes, NEW e \in ZcEnds, EndInv(e), Requests(e) # << >>, Requests(e)' = Tail(Requests(e)), CardOnly
  PROVE  /\ Behind(e)' /\ (e \notin torn => Queued(e)') /\ Requests(e)' \in Seq(Zc!ZcRequest)
         /\ Len(Requests(e)') \in Nat /\ Len(Requests(e)') = Len(Requests(e)) - 1
<1>1. PICK q \in Seq(Zc!ZcRequest), n \in Nat, p \in Nat : q = Requests(e) /\ n = Len(q) /\ p = posted[e] /\ n > 0
  <2>1. Requests(e) \in Seq(Zc!ZcRequest) /\ posted[e] \in Nat
    BY EndTypes
  <2> QED BY <2>1
<1>2. PICK r : r = Tail(q)
  OBVIOUS
<1>3. r \in Seq(Zc!ZcRequest) /\ Len(r) = n - 1 /\ DOMAIN r = 1 .. n - 1 /\ DOMAIN q = 1 .. n /\ \A i \in 1 .. n - 1 : r[i] = q[i + 1]
  BY <1>1, <1>2
<1>4. Requests(e)' = r
  BY <1>1, <1>2
<1>5. \A i \in DOMAIN r : i + 1 \in DOMAIN q /\ r[i] = q[i + 1] /\ i \in Nat
  BY <1>1, <1>3
<1>6. zcBatch' = zcBatch /\ posted' = posted /\ completed' = completed /\ mr' = mr /\ aborted' = aborted /\ torn' = torn
  BY DEF CardOnly
<1>7. Behind(e)'
  <2>1. Behind(e)
    BY DEF EndInv
  <2>2. ASSUME e \in torn, NEW i \in DOMAIN r PROVE ~Settled(r[i].msg)
    BY <2>1, <2>2, <1>1, <1>5 DEF Behind
  <2> QED BY <2>1, <2>2, <1>4, <1>6 DEF Behind, Settled
<1>8. ASSUME e \notin torn PROVE Queued(e)'
  <2>1. Queued(e)
    BY <1>8 DEF EndInv, Whole
  <2>2. ASSUME NEW i \in DOMAIN r
        PROVE  Owned(e, r[i].msg) /\ AsksFor(r[i], r[i].msg, p - Len(r) + i, mr[e].key)
    <3>1. Owned(e, q[i + 1].msg) /\ AsksFor(q[i + 1], q[i + 1].msg, p - n + (i + 1), mr[e].key)
      BY <2>1, <1>1, <1>5 DEF Queued
    <3>2. p - n + (i + 1) = p - Len(r) + i
      BY <1>3, <1>5
    <3> QED BY <3>1, <3>2, <1>5
  <2>3. completed'[e] <= posted'[e] - Len(r)
    <3>1. PICK c \in Nat : c = completed[e]
      BY EndTypes
    <3>2. c <= p - n
      BY <3>1, <2>1, <1>1 DEF Queued
    <3>3. c <= p - Len(r)
      BY <3>2, <1>3
    <3> QED BY <3>1, <3>3, <1>1, <1>6
  <2>4. \A i \in DOMAIN r : Owned(e, r[i].msg)' /\ AsksFor(r[i], r[i].msg, posted[e] - Len(r) + i, mr[e].key)'
    <3> TAKE i \in DOMAIN r
    <3>1. PICK a, b, k, key : a = r[i] /\ b = r[i].msg /\ k = p - Len(r) + i /\ key = mr[e].key
      OBVIOUS
    <3>2. Owned(e, b)' /\ AsksFor(a, b, k, key)'
      BY <3>1, <2>2, CardKeeps
    <3> QED BY <3>1, <3>2, <1>1, <1>6 DEF Owned, AsksFor, IsLarge, ChunkFrom, ChunkLen
  <2> QED BY <2>3, <2>4, <1>4 DEF Queued
<1> QED BY <1>1, <1>3, <1>4, <1>7, <1>8

\* One more completion is one more report of a RECV, or none.
LEMMA ReportCount ==
  ASSUME NEW q \in Seq(Report), NEW x \in Report
  PROVE  /\ IsFiniteSet(RecvIn(q)) /\ Cardinality(RecvIn(q)) \in Nat
         /\ (x.op = "zc_recv" => Cardinality(RecvIn(Append(q, x))) = Cardinality(RecvIn(q)) + 1)
         /\ (x.op # "zc_recv" => Cardinality(RecvIn(Append(q, x))) = Cardinality(RecvIn(q)))
<1>1. PICK n \in Nat : n = Len(q) /\ DOMAIN q = 1 .. n
  OBVIOUS
<1>2. /\ DOMAIN Append(q, x) = 1 .. n + 1
      /\ (\A i \in 1 .. n : Append(q, x)[i] = q[i]) /\ Append(q, x)[n + 1] = x
  BY <1>1
<1>3. IsFiniteSet(1 .. n)
  BY FS_Interval
<1>4. RecvIn(q) \subseteq 1 .. n
  BY <1>1 DEF RecvIn
<1>5. IsFiniteSet(RecvIn(q)) /\ Cardinality(RecvIn(q)) \in Nat
  BY <1>3, <1>4, FS_Subset, FS_CardinalityType
<1>6. n + 1 \notin RecvIn(q)
  BY <1>4
<1>7. x.op = "zc_recv" => RecvIn(Append(q, x)) = RecvIn(q) \cup {n + 1}
  BY <1>1, <1>2 DEF RecvIn
<1>8. x.op # "zc_recv" => RecvIn(Append(q, x)) = RecvIn(q)
  BY <1>1, <1>2 DEF RecvIn
<1>9. Cardinality(RecvIn(q) \cup {n + 1}) = Cardinality(RecvIn(q)) + 1
  BY <1>5, <1>6, FS_AddElement
<1> QED BY <1>5, <1>7, <1>8, <1>9

\* A SEND meets a RECV.
Meets(s, r) ==
  /\ sq # << >> /\ rq # << >> /\ s = Head(sq) /\ r = Head(rq) /\ sq' = Tail(sq) /\ rq' = Tail(rq)
  /\ filled' = [filled EXCEPT ![r.msg] = Append(filled[r.msg], [msg |-> s.msg, from |-> s.from, to |-> r.from, len |-> s.len])]
  /\ zcCq' = [zcCq EXCEPT !["receiver"] = Append(zcCq["receiver"], [op |-> "zc_recv", id |-> r.id])]
  /\ acks' = (IF s.signaled THEN Append(acks, s.id) ELSE acks)
  /\ ringWire' = ringWire /\ arrivals' = arrivals /\ CardOnly

\* The receiver gets one report for one request.
LEMMA ReceiveReported ==
  ASSUME ZcTypes, EndInv("receiver"), NEW s \in Zc!ZcRequest, NEW r \in Zc!ZcRequest, Meets(s, r), RecvAccounted,
         Len(rq') \in Nat, Len(rq') = Len(rq) - 1
  PROVE  RecvAccounted'
<1>1. r.id \in Nat /\ zcCq \in [ZcEnds -> Seq(Report)] /\ "receiver" \in ZcEnds
  BY DEF Zc!ZcRequest, ZcTypes, ZcEnds
<1>2. PICK y \in Report : y = [op |-> "zc_recv", id |-> r.id] /\ y.op = "zc_recv"
  <2>1. PICK y : y = [op |-> "zc_recv", id |-> r.id]
    OBVIOUS
  <2>2. y \in Report /\ y.op = "zc_recv"
    BY <2>1, <1>1 DEF Report
  <2> QED BY <2>1, <2>2
<1>3. PICK q \in Seq(Report) : q = zcCq["receiver"] /\ zcCq'["receiver"] = Append(q, y)
  BY <1>1, <1>2 DEF Meets
<1>4. PICK k \in Nat : k = Cardinality(RecvIn(q)) /\ Cardinality(RecvIn(Append(q, y))) = k + 1
  BY <1>2, ReportCount
<1>5. PICK c \in Nat, n \in Nat, p \in Nat : c = completed["receiver"] /\ n = Len(rq) /\ p = posted["receiver"]
  BY <1>1, EndTypes DEF ZcTypes
<1>6. c + k + n <= p
  BY <1>3, <1>4, <1>5 DEF RecvAccounted
<1>7. PICK m \in Nat : m = Len(rq') /\ m = n - 1
  BY <1>5
<1>8. c + (k + 1) + m <= p
  BY <1>6, <1>7
<1>9. completed' = completed /\ posted' = posted
  BY DEF Meets, CardOnly
<1> QED BY <1>3, <1>4, <1>5, <1>7, <1>8, <1>9 DEF RecvAccounted

\* The sender's acknowledgement follows those still to come.
LEMMA SendAcked ==
  ASSUME ZcTypes, NEW s \in Zc!ZcRequest, NEW r \in Zc!ZcRequest, Meets(s, r), SendAccounted, Queued("sender"),
         Len(sq') \in Nat, Len(sq') = Len(sq) - 1
  PROVE  SendAccounted' /\ acks' \in Seq(Nat)
<1>0. /\ acks' = (IF s.signaled THEN Append(acks, s.id) ELSE acks) /\ posted' = posted /\ completed' = completed
      /\ s = Head(sq) /\ sq # << >> /\ Requests("sender") = sq /\ "sender" \in ZcEnds
      /\ zcCq'["sender"] = zcCq["sender"]
  BY DEF Meets, CardOnly, Requests, ZcEnds, ZcTypes
<1>1. PICK p \in Nat, m \in Nat : p = posted["sender"] /\ m = Len(sq) /\ m > 0 /\ 1 \in DOMAIN sq /\ Head(sq) = sq[1]
  <2>1. sq \in Seq(Zc!ZcRequest) /\ posted["sender"] \in Nat
    BY <1>0 DEF ZcTypes
  <2> QED BY <2>1, <1>0
<1>2. s.id = p - m + 1 /\ s.id \in Nat
  <2>1. AsksFor(sq[1], sq[1].msg, posted["sender"] - Len(sq) + 1, mr["sender"].key)
    BY <1>0, <1>1 DEF Queued
  <2> QED BY <2>1, <1>0, <1>1 DEF AsksFor, Zc!ZcRequest
<1>3. PICK c \in Nat : c = completed["sender"] /\ c <= p - m
  BY <1>0, <1>1, EndTypes DEF Queued
<1>4. PICK n \in Nat : n = p - m
  BY <1>1, <1>3
<1>5. posted["sender"] - Len(sq') = n + 1
  BY <1>1, <1>4
<1>6. acks \in Seq(Nat) /\ acks' \in Seq(Nat)
  <2>1. acks \in Seq(Nat)
    BY DEF ZcTypes
  <2> QED BY <2>1, <1>0, <1>2
<1>7. PICK q \in Seq(Report) : q = zcCq["sender"] /\ \A i \in DOMAIN q : q[i].id \in Nat
  <2>1. zcCq["sender"] \in Seq(Report)
    BY <1>0 DEF ZcTypes
  <2>2. \A w \in Report : w.id \in Nat
    BY DEF Report
  <2> QED BY <2>1, <2>2
<1>8. \A i \in DOMAIN q :
        /\ q[i].op = "zc_send" /\ q[i].id > c /\ q[i].id <= n
        /\ (\A j \in DOMAIN q : i < j => q[i].id < q[j].id)
        /\ (\A j \in DOMAIN acks : q[i].id < acks[j])
  BY <1>1, <1>3, <1>4, <1>7 DEF SendAccounted
<1>9. \A i \in DOMAIN acks : acks[i] \in Nat /\ acks[i] > c /\ acks[i] <= n /\ (\A j \in DOMAIN acks : i < j => acks[i] < acks[j])
  <2>1. \A i \in DOMAIN acks : acks[i] \in Nat
    BY <1>6
  <2>2. \A i \in DOMAIN acks : acks[i] > c /\ acks[i] <= n /\ (\A j \in DOMAIN acks : i < j => acks[i] < acks[j])
    BY <1>1, <1>3, <1>4 DEF SendAccounted
  <2> QED BY <2>1, <2>2
<1>10. \A i \in DOMAIN acks' : (i \in DOMAIN acks /\ acks'[i] = acks[i]) \/ (i = Len(acks) + 1 /\ acks'[i] = n + 1)
  <2>1. CASE s.signaled
    <3>1. acks' = Append(acks, n + 1)
      BY <2>1, <1>0, <1>2, <1>4
    <3>2. PICK u \in Seq(Nat), l \in Nat : u = acks /\ l = Len(u) /\ DOMAIN u = 1 .. l
      BY <1>6
    <3>3. DOMAIN Append(u, n + 1) = 1 .. l + 1 /\ (\A i \in 1 .. l : Append(u, n + 1)[i] = u[i]) /\ Append(u, n + 1)[l + 1] = n + 1
      BY <3>2
    <3>4. \A i \in 1 .. l + 1 : i \in 1 .. l \/ i = l + 1
      BY <3>2
    <3> QED BY <3>1, <3>2, <3>3, <3>4
  <2>2. CASE ~s.signaled
    BY <2>2, <1>0
  <2> QED BY <2>1, <2>2
<1>11. (\A i \in DOMAIN acks : i \in Nat /\ i <= Len(acks)) /\ Len(acks) \in Nat
  BY <1>6
<1>12. \A i \in DOMAIN acks' :
         /\ acks'[i] > c /\ acks'[i] <= n + 1
         /\ (\A j \in DOMAIN acks' : i < j => acks'[i] < acks'[j])
  <2> TAKE i \in DOMAIN acks'
  <2>1. acks'[i] > c /\ acks'[i] <= n + 1
    BY <1>3, <1>4, <1>9, <1>10
  <2>2. ASSUME NEW j \in DOMAIN acks', i < j PROVE acks'[i] < acks'[j]
    <3>1. i \in DOMAIN acks /\ acks'[i] = acks[i]
      BY <2>2, <1>10, <1>11
    <3> QED BY <2>2, <3>1, <1>9, <1>10
  <2> QED BY <2>1, <2>2
<1>13. \A i \in DOMAIN q : q[i].id <= n + 1 /\ \A j \in DOMAIN acks' : q[i].id < acks'[j]
  BY <1>7, <1>8, <1>9, <1>10
<1>14. SendAccounted'
  BY <1>0, <1>3, <1>5, <1>7, <1>8, <1>12, <1>13 DEF SendAccounted
<1> QED BY <1>6, <1>14

\* If its message is settled, so is the sender's, and both are at the chunk
\* after those executed; if not, neither end's message is.
LEMMA MeetingPoint ==
  ASSUME ZcInv, NEW s, NEW r, Meets(s, r)
  PROVE  /\ Settled(r.msg) =>
              /\ r.msg \in DOMAIN zcPlan /\ IsLarge(r.msg) /\ s.msg = r.msg
              /\ zcBatch["sender"] = r.msg /\ zcBatch["receiver"] = r.msg
              /\ Len(filled[r.msg]) \in Nat /\ Len(filled[r.msg]) + 1 <= ZcTotal(r.msg)
              /\ Len(filled[r.msg]) = posted["sender"] - Len(sq) /\ Len(filled[r.msg]) = posted["receiver"] - Len(rq)
              /\ s.from = ChunkFrom(Len(filled[r.msg]) + 1) /\ r.from = ChunkFrom(Len(filled[r.msg]) + 1)
              /\ s.len = ChunkLen(r.msg, Len(filled[r.msg]) + 1)
         /\ ~Settled(r.msg) => ~Settled(zcBatch["sender"]) /\ ~Settled(zcBatch["receiver"])
<1>0. /\ ZcTypes /\ EndInv("sender") /\ EndInv("receiver") /\ "sender" \in ZcEnds /\ "receiver" \in ZcEnds
      /\ Requests("sender") = sq /\ Requests("receiver") = rq
  BY InvParts
<1>1. sq # << >> /\ rq # << >> /\ s = Head(sq) /\ r = Head(rq)
  BY DEF Meets
<1>2. ASSUME Settled(r.msg)
      PROVE  /\ r.msg \in DOMAIN zcPlan /\ IsLarge(r.msg) /\ s.msg = r.msg
             /\ zcBatch["sender"] = r.msg /\ zcBatch["receiver"] = r.msg
             /\ Len(filled[r.msg]) \in Nat /\ Len(filled[r.msg]) + 1 <= ZcTotal(r.msg)
             /\ Len(filled[r.msg]) = posted["sender"] - Len(sq) /\ Len(filled[r.msg]) = posted["receiver"] - Len(rq)
             /\ s.from = ChunkFrom(Len(filled[r.msg]) + 1) /\ r.from = ChunkFrom(Len(filled[r.msg]) + 1)
             /\ s.len = ChunkLen(r.msg, Len(filled[r.msg]) + 1)
  <2>1. zcBatch["receiver"] = r.msg
    BY <1>0, <1>1, <1>2, HeadMsg
  <2>2. zcBatch["sender"] = r.msg
    BY <2>1, <1>0, <1>1, <1>2, SameChunk
  <2>3. s.msg = r.msg
    BY <2>2, <1>0, <1>1, <1>2, HeadMsg
  <2>4. /\ zcBatch["receiver"] \in DOMAIN zcPlan /\ IsLarge(zcBatch["receiver"])
        /\ Len(filled[zcBatch["receiver"]]) \in Nat /\ Len(filled[zcBatch["receiver"]]) = posted["receiver"] - Len(rq)
        /\ Len(filled[zcBatch["receiver"]]) + 1 <= ZcTotal(zcBatch["receiver"])
        /\ AsksFor(Head(rq), zcBatch["receiver"], Len(filled[zcBatch["receiver"]]) + 1, mr["receiver"].key)
    BY <2>1, <1>0, <1>1, <1>2, FirstRequest
  <2>5. /\ Len(filled[zcBatch["sender"]]) = posted["sender"] - Len(sq)
        /\ AsksFor(Head(sq), zcBatch["sender"], Len(filled[zcBatch["sender"]]) + 1, mr["sender"].key)
    BY <2>2, <1>0, <1>1, <1>2, FirstRequest
  <2> QED BY <2>1, <2>2, <2>3, <2>4, <2>5, <1>1 DEF AsksFor
<1>3. Settled(zcBatch["receiver"]) => Settled(r.msg)
  BY <1>0, <1>1, HeadMsg
<1>4. Settled(zcBatch["sender"]) => Settled(r.msg)
  <2> HAVE Settled(zcBatch["sender"])
  <2>1. zcBatch["receiver"] = zcBatch["sender"]
    BY <1>0, <1>1, SameChunk
  <2> QED BY <2>1, <1>3
<1> QED BY <1>2, <1>3, <1>4

\* The receiver's buffers: one chunk more of the message, if it is settled;
\* nothing of a settled one otherwise.
LEMMA OneMore ==
  ASSUME ZcTypes, NEW s \in Zc!ZcRequest, NEW r \in Zc!ZcRequest, Meets(s, r)
  PROVE  /\ filled' \in [DOMAIN zcPlan -> Seq(Piece)]
         /\ (\A a \in DOMAIN zcPlan : a # r.msg => filled'[a] = filled[a])
         /\ (r.msg \in DOMAIN zcPlan =>
               /\ Len(filled[r.msg]) \in Nat /\ DOMAIN filled[r.msg] = 1 .. Len(filled[r.msg])
               /\ Len(filled'[r.msg]) = Len(filled[r.msg]) + 1 /\ DOMAIN filled'[r.msg] = 1 .. Len(filled[r.msg]) + 1
               /\ (\A k \in 1 .. Len(filled[r.msg]) : filled'[r.msg][k] = filled[r.msg][k])
               /\ filled'[r.msg][Len(filled[r.msg]) + 1] = [msg |-> s.msg, from |-> s.from, to |-> r.from, len |-> s.len])
<1>1. PICK x \in Piece : x = [msg |-> s.msg, from |-> s.from, to |-> r.from, len |-> s.len]
  BY DEF Piece, Zc!ZcRequest
<1>2. filled \in [DOMAIN zcPlan -> Seq(Piece)] /\ filled' = [filled EXCEPT ![r.msg] = Append(filled[r.msg], x)]
  BY <1>1 DEF ZcTypes, Meets
<1>3. CASE r.msg \in DOMAIN zcPlan
  <2>1. PICK f \in Seq(Piece), n \in Nat : f = filled[r.msg] /\ n = Len(f) /\ DOMAIN f = 1 .. n
    BY <1>2, <1>3
  <2>2. PICK g : g = Append(f, x)
    OBVIOUS
  <2>3. g \in Seq(Piece) /\ Len(g) = n + 1 /\ DOMAIN g = 1 .. n + 1 /\ (\A k \in 1 .. n : g[k] = f[k]) /\ g[n + 1] = x
    BY <2>1, <2>2
  <2>4. /\ filled'[r.msg] = g /\ filled' \in [DOMAIN zcPlan -> Seq(Piece)]
        /\ (\A a \in DOMAIN zcPlan : a # r.msg => filled'[a] = filled[a])
    BY <2>1, <2>2, <2>3, <1>2, <1>3
  <2> QED BY <2>1, <2>3, <2>4, <1>1
<1>4. CASE r.msg \notin DOMAIN zcPlan
  <2>1. filled' = filled
    BY <1>2, <1>4
  <2> QED BY <2>1, <1>2, <1>4
<1> QED BY <1>3, <1>4

\* What each end can tell of the chunks executed.
LEMMA OneMoreExecuted ==
  ASSUME ZcInv, NEW s \in Zc!ZcRequest, NEW r \in Zc!ZcRequest, Meets(s, r), NEW e \in ZcEnds,
         Len(Requests(e)') \in Nat, Len(Requests(e)') = Len(Requests(e)) - 1
  PROVE  Executed(e)'
<1>0. /\ ZcTypes /\ Executed(e) /\ e \in {"sender", "receiver"}
      /\ Requests("sender") = sq /\ Requests("receiver") = rq
  BY InvParts DEF EndInv
<1>1. zcPlan' = zcPlan /\ zcBatch' = zcBatch /\ posted' = posted /\ \A b : Settled(b)' <=> Settled(b)
  BY DEF Meets, CardOnly, Settled
<1> SUFFICES ASSUME NEW a \in DOMAIN zcPlan, Settled(a)
             PROVE  /\ (a < zcBatch[e] => Len(filled'[a]) = IF IsLarge(a) THEN ZcTotal(a) ELSE 0)
                    /\ (a = zcBatch[e] => Len(filled'[a]) = posted[e] - Len(Requests(e)'))
                    /\ (a > zcBatch[e] => Len(filled'[a]) = 0)
  BY <1>1 DEF Executed, ZcTotal, IsLarge, ChunksIn
<1>2. /\ (a < zcBatch[e] => Len(filled[a]) = IF IsLarge(a) THEN ZcTotal(a) ELSE 0)
      /\ (a = zcBatch[e] => Len(filled[a]) = posted[e] - Len(Requests(e)))
      /\ (a > zcBatch[e] => Len(filled[a]) = 0)
  BY <1>0 DEF Executed
<1>3. CASE a = r.msg
  <2>1. zcBatch[e] = a /\ Len(filled[a]) \in Nat /\ Len(filled[a]) = posted[e] - Len(Requests(e))
    BY <1>0, <1>3, MeetingPoint
  <2>2. Len(filled'[a]) = Len(filled[a]) + 1
    BY <1>0, <1>3, OneMore
  <2>3. posted[e] \in Nat /\ Len(Requests(e)) \in Nat
    BY <1>0, EndTypes
  <2>4. posted[e] - Len(Requests(e)') = Len(filled[a]) + 1
    BY <2>1, <2>3
  <2>5. a \in Nat
    BY <1>0, ZcMessageFacts DEF ZcTypes
  <2> QED BY <2>1, <2>2, <2>4, <2>5
<1>4. CASE a # r.msg
  <2>1. filled'[a] = filled[a]
    BY <1>0, <1>4, OneMore
  <2>2. a # zcBatch[e]
    <3>1. CASE Settled(r.msg)
      BY <3>1, <1>0, <1>4, MeetingPoint
    <3>2. CASE ~Settled(r.msg)
      BY <3>2, <1>0, MeetingPoint
    <3> QED BY <3>1, <3>2
  <2> QED BY <2>1, <2>2, <1>2
<1> QED BY <1>3, <1>4

\* The buffers hold one chunk more, where the RECV was posted for.
LEMMA OneMorePiece ==
  ASSUME ZcInv, NEW s \in Zc!ZcRequest, NEW r \in Zc!ZcRequest, Meets(s, r)
  PROVE  Pieces'
<1>0. ZcTypes /\ Pieces
  BY InvParts
<1>1. /\ zcPlan' = zcPlan /\ (\A b : Settled(b)' <=> Settled(b)) /\ (\A a : ZcTotal(a)' = ZcTotal(a))
      /\ (\A k : ChunkFrom(k)' = ChunkFrom(k)) /\ (\A a, k : ChunkLen(a, k)' = ChunkLen(a, k))
  BY DEF Meets, CardOnly, Settled, ZcTotal, ChunksIn, ChunkFrom, ChunkLen
<1> SUFFICES ASSUME NEW a \in DOMAIN zcPlan, Settled(a)
             PROVE  /\ Len(filled'[a]) <= ZcTotal(a)
                    /\ (\A k \in DOMAIN filled'[a] : filled'[a][k] = [msg |-> a, from |-> ChunkFrom(k), to |-> ChunkFrom(k), len |-> ChunkLen(a, k)])
  BY <1>1 DEF Pieces
<1>2. /\ Len(filled[a]) <= ZcTotal(a)
      /\ (\A k \in DOMAIN filled[a] : filled[a][k] = [msg |-> a, from |-> ChunkFrom(k), to |-> ChunkFrom(k), len |-> ChunkLen(a, k)])
  BY <1>0 DEF Pieces
<1>3. CASE a = r.msg
  <2>1. PICK n \in Nat : n = Len(filled[a]) /\ n + 1 <= ZcTotal(a)
    BY <1>3, MeetingPoint
  <2>2. s.msg = a /\ s.from = ChunkFrom(n + 1) /\ r.from = ChunkFrom(n + 1) /\ s.len = ChunkLen(a, n + 1)
    BY <2>1, <1>3, MeetingPoint
  <2>3. /\ DOMAIN filled[a] = 1 .. n /\ Len(filled'[a]) = n + 1 /\ DOMAIN filled'[a] = 1 .. n + 1
        /\ (\A k \in 1 .. n : filled'[a][k] = filled[a][k])
        /\ filled'[a][n + 1] = [msg |-> s.msg, from |-> s.from, to |-> r.from, len |-> s.len]
    BY <2>1, <1>0, <1>3, OneMore
  <2>4. \A k \in 1 .. n + 1 : k \in 1 .. n \/ k = n + 1
    BY <2>1
  <2> QED BY <2>1, <2>2, <2>3, <2>4, <1>2
<1>4. CASE a # r.msg
  <2>1. filled'[a] = filled[a]
    BY <1>0, <1>4, OneMore
  <2> QED BY <2>1, <1>2
<1> QED BY <1>3, <1>4

\* The card executes a SEND.
LEMMA ExecuteSendKeeps ==
  ASSUME ZcInv, Zc!ExecuteSend
  PROVE  ZcInv'
<1>0. /\ ZcTypes /\ Pieces /\ (\A e \in ZcEnds : EndInv(e))
      /\ "sender" \in ZcEnds /\ "receiver" \in ZcEnds /\ ZcEnds = {"sender", "receiver"}
      /\ Requests("sender") = sq /\ Requests("receiver") = rq /\ Requests("sender")' = sq' /\ Requests("receiver")' = rq'
  BY InvParts
<1>1. PICK s, r : s = Head(sq) /\ r = Head(rq)
  OBVIOUS
<1>2. Meets(s, r)
  BY <1>1 DEF Zc!ExecuteSend, Zc!Receiver, Zc!countVars, Zc!historyVars, Meets, CardOnly
<1>3. /\ sq # << >> /\ rq # << >> /\ sq' = Tail(sq) /\ rq' = Tail(rq) /\ CardOnly
      /\ zcCq' = [zcCq EXCEPT !["receiver"] = Append(zcCq["receiver"], [op |-> "zc_recv", id |-> r.id])]
      /\ acks' = (IF s.signaled THEN Append(acks, s.id) ELSE acks) /\ ringWire' = ringWire /\ arrivals' = arrivals
  BY <1>2 DEF Meets
<1>4. s \in Zc!ZcRequest /\ r \in Zc!ZcRequest
  <2>1. sq \in Seq(Zc!ZcRequest) /\ rq \in Seq(Zc!ZcRequest)
    BY <1>0 DEF ZcTypes
  <2> QED BY <2>1, <1>1, <1>3
<1>5. \A e \in ZcEnds : /\ Behind(e)' /\ (e \notin torn => Queued(e)') /\ Requests(e)' \in Seq(Zc!ZcRequest)
                        /\ Len(Requests(e)') \in Nat /\ Len(Requests(e)') = Len(Requests(e)) - 1
  <2> TAKE e \in ZcEnds
  <2>1. Requests(e) # << >> /\ Requests(e)' = Tail(Requests(e))
    BY <1>0, <1>3
  <2> QED BY <2>1, <1>0, <1>3, RequestTaken
<1>6. acks' \in Seq(Nat)
  <2>1. acks \in Seq(Nat) /\ s.id \in Nat
    BY <1>0, <1>4 DEF ZcTypes, Zc!ZcRequest
  <2> QED BY <2>1, <1>3
<1>7. zcCq' \in [ZcEnds -> Seq(Report)]
  <2>1. PICK y \in Report : y = [op |-> "zc_recv", id |-> r.id]
    BY <1>4 DEF Report, Zc!ZcRequest
  <2>2. zcCq \in [ZcEnds -> Seq(Report)]
    BY <1>0 DEF ZcTypes
  <2> QED BY <2>1, <2>2, <1>0, <1>3
<1>8. filled' \in [DOMAIN zcPlan -> Seq(Piece)]
  BY <1>0, <1>2, <1>4, OneMore
<1>9. ZcTypes'
  <2>1. sq' \in Seq(Zc!ZcRequest) /\ rq' \in Seq(Zc!ZcRequest)
    BY <1>0, <1>5
  <2> QED BY <2>1, <1>0, <1>3, <1>6, <1>7, <1>8 DEF ZcTypes, CardOnly
<1>10. Pieces'
  BY <1>2, <1>4, OneMorePiece
<1>11. ASSUME NEW e \in ZcEnds PROVE EndInv(e)'
  <2>1. Counted(e)' /\ AtMessage(e)' /\ torn' = torn
    BY <1>0, <1>3, CardKeeps DEF CardOnly
  <2>2. Executed(e)'
    BY <1>2, <1>4, <1>5, OneMoreExecuted
  <2>3. ASSUME e \notin torn PROVE Accounted(e)'
    <3>1. Queued(e) /\ Accounted(e)
      BY <2>3, <1>0 DEF EndInv, Whole
    <3>2. CASE e = "sender"
      <4>1. SendAccounted /\ Queued("sender")
        BY <3>1, <3>2 DEF Accounted
      <4>2. Len(sq') \in Nat /\ Len(sq') = Len(sq) - 1
        BY <1>0, <1>5
      <4>3. SendAccounted'
        BY <4>1, <4>2, <1>0, <1>2, <1>4, SendAcked
      <4> QED BY <3>2, <4>3 DEF Accounted
    <3>3. CASE e = "receiver"
      <4>1. RecvAccounted
        BY <3>1, <3>3 DEF Accounted
      <4>2. Len(rq') \in Nat /\ Len(rq') = Len(rq) - 1
        BY <1>0, <1>5
      <4>3. RecvAccounted'
        BY <4>1, <4>2, <1>0, <1>2, <1>4, ReceiveReported
      <4> QED BY <3>3, <4>3 DEF Accounted
    <3> QED BY <3>2, <3>3, <1>0
  <2>4. Whole(e)'
    BY <2>1, <2>3, <1>5 DEF Whole
  <2> QED BY <2>1, <2>2, <2>4, <1>5 DEF EndInv
<1> QED BY <1>9, <1>10, <1>11 DEF ZcInv

\* The card acknowledges a SEND.
Acknowledges ==
  /\ acks # << >> /\ acks' = Tail(acks)
  /\ zcCq' = [zcCq EXCEPT !["sender"] = Append(zcCq["sender"], [op |-> "zc_send", id |-> Head(acks)])]
  /\ sq' = sq /\ rq' = rq /\ ringWire' = ringWire /\ arrivals' = arrivals /\ filled' = filled /\ CardOnly

\* Its report follows those in the queue.
LEMMA AcknowledgedInOrder ==
  ASSUME ZcTypes, Acknowledges
  PROVE  /\ acks' \in Seq(Nat) /\ zcCq' \in [ZcEnds -> Seq(Report)] /\ zcCq'["receiver"] = zcCq["receiver"]
         /\ (SendAccounted => SendAccounted')
<1>0. ZcTypes /\ "sender" \in ZcEnds /\ "receiver" \in ZcEnds
  BY DEF ZcEnds
<1>1. /\ acks # << >> /\ acks' = Tail(acks)
      /\ zcCq' = [zcCq EXCEPT !["sender"] = Append(zcCq["sender"], [op |-> "zc_send", id |-> Head(acks)])]
      /\ sq' = sq /\ completed' = completed /\ posted' = posted
  BY DEF Acknowledges, CardOnly
<1>2. PICK u \in Seq(Nat), m \in Nat : u = acks /\ m = Len(u) /\ DOMAIN u = 1 .. m /\ m > 0
  <2>1. acks \in Seq(Nat)
    BY <1>0 DEF ZcTypes
  <2> QED BY <2>1, <1>1
<1>3. PICK v \in Seq(Nat) : v = acks' /\ DOMAIN v = 1 .. m - 1 /\ (\A i \in 1 .. m - 1 : v[i] = u[i + 1])
  <2>1. PICK v : v = Tail(u)
    OBVIOUS
  <2>2. v \in Seq(Nat) /\ Len(v) = m - 1
    BY <2>1, <1>2
  <2>3. DOMAIN v = 1 .. m - 1
    BY <2>2, <1>2
  <2>4. \A i \in 1 .. m - 1 : v[i] = u[i + 1]
    BY <2>1, <1>2
  <2> QED BY <2>1, <2>2, <2>3, <2>4, <1>1, <1>2
<1>4. PICK h \in Nat : h = Head(acks) /\ h = u[1]
  BY <1>2
<1>5. PICK x \in Report : x = [op |-> "zc_send", id |-> h]
  BY DEF Report
<1>6. zcCq \in [ZcEnds -> Seq(Report)]
  BY <1>0 DEF ZcTypes
<1>7. PICK q \in Seq(Report), n \in Nat : q = zcCq["sender"] /\ n = Len(q) /\ DOMAIN q = 1 .. n
  BY <1>0, <1>6
<1>8. PICK r \in Seq(Report) : r = Append(q, x) /\ DOMAIN r = 1 .. n + 1 /\ (\A i \in 1 .. n : r[i] = q[i]) /\ r[n + 1] = x
  <2>1. PICK r : r = Append(q, x)
    OBVIOUS
  <2>2. r \in Seq(Report) /\ DOMAIN r = 1 .. n + 1
    BY <2>1, <1>7
  <2>3. (\A i \in 1 .. n : r[i] = q[i]) /\ r[n + 1] = x
    BY <2>1, <1>7
  <2> QED BY <2>1, <2>2, <2>3
<1>9. zcCq'["sender"] = r /\ zcCq'["receiver"] = zcCq["receiver"] /\ zcCq' \in [ZcEnds -> Seq(Report)]
  BY <1>0, <1>1, <1>4, <1>5, <1>6, <1>7, <1>8
<1> SUFFICES ASSUME SendAccounted PROVE SendAccounted'
  BY <1>3, <1>9
<1>10. PICK c, p : c = completed["sender"] /\ p = posted["sender"] - Len(sq)
  OBVIOUS
<1>11. \A i \in DOMAIN q :
         /\ q[i].op = "zc_send" /\ q[i].id > c /\ q[i].id <= p
         /\ (\A j \in DOMAIN q : i < j => q[i].id < q[j].id)
         /\ (\A j \in DOMAIN u : q[i].id < u[j])
  BY <1>2, <1>7, <1>10 DEF SendAccounted
<1>12. \A i \in DOMAIN u : u[i] > c /\ u[i] <= p /\ (\A j \in DOMAIN u : i < j => u[i] < u[j])
  BY <1>2, <1>10 DEF SendAccounted
<1>13. \A i \in DOMAIN v : i + 1 \in DOMAIN u /\ v[i] = u[i + 1] /\ i \in Nat /\ i > 0
  BY <1>2, <1>3, SMTT(30)
<1>14. \A i \in DOMAIN v : v[i] > c /\ v[i] <= p /\ (\A j \in DOMAIN v : i < j => v[i] < v[j])
  <2> TAKE i \in DOMAIN v
  <2>1. v[i] > c /\ v[i] <= p
    BY <1>12, <1>13
  <2>2. ASSUME NEW j \in DOMAIN v, i < j PROVE v[i] < v[j]
    <3>1. i + 1 < j + 1
      BY <2>2, <1>13
    <3> QED BY <3>1, <1>12, <1>13
  <2> QED BY <2>1, <2>2
<1>15. 1 \in DOMAIN u
  BY <1>2
<1>16. \A i \in DOMAIN r : i \in DOMAIN q \/ i = n + 1
  BY <1>7, <1>8
<1>17. \A i \in DOMAIN r :
         /\ r[i].op = "zc_send" /\ r[i].id > c /\ r[i].id <= p
         /\ (\A j \in DOMAIN r : i < j => r[i].id < r[j].id)
         /\ (\A j \in DOMAIN v : r[i].id < v[j])
  <2> TAKE i \in DOMAIN r
  <2>1. CASE i \in DOMAIN q
    <3>1. r[i] = q[i] /\ i \in 1 .. n
      BY <2>1, <1>7, <1>8
    <3>2. r[i].op = "zc_send" /\ r[i].id > c /\ r[i].id <= p
      BY <2>1, <3>1, <1>11
    <3>3. ASSUME NEW j \in DOMAIN r, i < j PROVE r[i].id < r[j].id
      <4>1. CASE j \in DOMAIN q
        <5>1. r[j] = q[j]
          BY <4>1, <1>7, <1>8
        <5> QED BY <4>1, <5>1, <2>1, <3>1, <3>3, <1>11
      <4>2. CASE j = n + 1
        <5>1. r[j].id = u[1]
          BY <4>2, <1>4, <1>5, <1>8
        <5> QED BY <5>1, <2>1, <3>1, <1>11, <1>15
      <4> QED BY <4>1, <4>2, <1>16
    <3>4. ASSUME NEW j \in DOMAIN v PROVE r[i].id < v[j]
      BY <2>1, <3>1, <1>11, <1>13
    <3> QED BY <3>2, <3>3, <3>4
  <2>2. CASE i = n + 1
    <3>1. r[i].op = "zc_send" /\ r[i].id = u[1]
      BY <2>2, <1>4, <1>5, <1>8
    <3>2. r[i].id > c /\ r[i].id <= p
      BY <3>1, <1>12, <1>15
    <3>3. \A j \in DOMAIN r : ~(i < j)
      BY <2>2, <1>8
    <3>4. ASSUME NEW j \in DOMAIN v PROVE r[i].id < v[j]
      <4>1. 1 < j + 1
        BY <1>13
      <4> QED BY <3>1, <4>1, <1>12, <1>13, <1>15
    <3> QED BY <3>1, <3>2, <3>3, <3>4
  <2> QED BY <2>1, <2>2, <1>16
<1>18. completed'["sender"] = c /\ posted'["sender"] - Len(sq') = p
  BY <1>1, <1>10
<1> QED BY <1>3, <1>9, <1>14, <1>17, <1>18 DEF SendAccounted

\* A signaled SEND is acknowledged.
LEMMA AcknowledgeSendKeeps ==
  ASSUME ZcInv, Zc!AcknowledgeSend
  PROVE  ZcInv'
<1>0. /\ ZcTypes /\ Pieces /\ (\A e \in ZcEnds : EndInv(e)) /\ ZcEnds = {"sender", "receiver"}
      /\ Requests("sender") = sq /\ Requests("receiver") = rq /\ Requests("sender")' = sq' /\ Requests("receiver")' = rq'
  BY InvParts
<1>1. Acknowledges
  BY DEF Zc!AcknowledgeSend, Zc!Sender, Zc!countVars, Zc!historyVars, Acknowledges, CardOnly
<1>2. /\ sq' = sq /\ rq' = rq /\ ringWire' = ringWire /\ arrivals' = arrivals /\ filled' = filled /\ CardOnly
  BY <1>1 DEF Acknowledges
<1>3. /\ acks' \in Seq(Nat) /\ zcCq' \in [ZcEnds -> Seq(Report)] /\ zcCq'["receiver"] = zcCq["receiver"]
      /\ (SendAccounted => SendAccounted')
  BY <1>0, <1>1, AcknowledgedInOrder
<1>4. ZcTypes'
  BY <1>0, <1>2, <1>3 DEF ZcTypes, CardOnly
<1>5. Pieces'
  BY <1>0, <1>2, PiecesUntouched DEF CardOnly
<1>6. RecvAccounted => RecvAccounted'
  BY <1>2, <1>3 DEF RecvAccounted, CardOnly
<1>7. ASSUME NEW e \in ZcEnds PROVE EndInv(e)'
  <2>1. Requests(e)' = Requests(e)
    BY <1>0, <1>2
  <2>2. Accounted(e) => Accounted(e)'
    BY <1>3, <1>6 DEF Accounted
  <2> QED BY <2>1, <2>2, <1>0, <1>2, QuietCard
<1> QED BY <1>4, <1>5, <1>7 DEF ZcInv

\* A ring message arrives.
LEMMA ExecuteWriteKeeps ==
  ASSUME ZcInv, Zc!ExecuteWrite
  PROVE  ZcInv'
<1>0. /\ ZcTypes /\ Pieces /\ (\A e \in ZcEnds : EndInv(e)) /\ ZcEnds = {"sender", "receiver"}
      /\ Requests("sender") = sq /\ Requests("receiver") = rq /\ Requests("sender")' = sq' /\ Requests("receiver")' = rq'
  BY InvParts
<1>1. /\ ringWire > 0 /\ ringWire' = ringWire - 1
      /\ zcCq' = [zcCq EXCEPT !["receiver"] = Append(zcCq["receiver"], [op |-> "ring", id |-> 0])]
      /\ sq' = sq /\ rq' = rq /\ acks' = acks /\ arrivals' = arrivals /\ filled' = filled /\ CardOnly
  BY DEF Zc!ExecuteWrite, Zc!Receiver, Zc!countVars, Zc!historyVars, CardOnly
<1>2. PICK x \in Report : x = [op |-> "ring", id |-> 0] /\ x.op # "zc_recv"
  <2>1. PICK x : x = [op |-> "ring", id |-> 0]
    OBVIOUS
  <2>2. x \in Report /\ x.op # "zc_recv"
    BY <2>1 DEF Report
  <2> QED BY <2>1, <2>2
<1>3. zcCq \in [ZcEnds -> Seq(Report)] /\ ringWire \in Nat
  BY <1>0 DEF ZcTypes
<1>4. zcCq'["receiver"] = Append(zcCq["receiver"], x) /\ zcCq'["sender"] = zcCq["sender"] /\ zcCq' \in [ZcEnds -> Seq(Report)]
  BY <1>0, <1>1, <1>2, <1>3
<1>5. ZcTypes'
  <2>1. ringWire' \in Nat
    BY <1>1, <1>3
  <2> QED BY <2>1, <1>0, <1>1, <1>4 DEF ZcTypes, CardOnly
<1>6. Pieces'
  BY <1>0, <1>1, PiecesUntouched DEF CardOnly
<1>7. RecvAccounted => RecvAccounted'
  <2>1. PICK q \in Seq(Report) : q = zcCq["receiver"]
    BY <1>0, <1>3
  <2>2. Cardinality(RecvIn(Append(q, x))) = Cardinality(RecvIn(q))
    BY <1>2, ReportCount
  <2> QED BY <2>1, <2>2, <1>1, <1>4 DEF RecvAccounted, CardOnly
<1>8. SendAccounted => SendAccounted'
  BY <1>1, <1>4 DEF SendAccounted, CardOnly
<1>9. ASSUME NEW e \in ZcEnds PROVE EndInv(e)'
  <2>1. Requests(e)' = Requests(e)
    BY <1>0, <1>1
  <2>2. Accounted(e) => Accounted(e)'
    BY <1>7, <1>8 DEF Accounted
  <2> QED BY <2>1, <2>2, <1>0, <1>1, QuietCard
<1> QED BY <1>5, <1>6, <1>9 DEF ZcInv

\* Nothing of the zero-copy path changes.
LEMMA ZcUntouched ==
  ASSUME ZcInv, UNCHANGED zcVars
  PROVE  ZcInv'
<1>0. ZcTypes /\ Pieces /\ (\A e \in ZcEnds : EndInv(e))
  BY InvParts
<1>1. /\ CardOnly /\ sq' = sq /\ rq' = rq /\ acks' = acks /\ zcCq' = zcCq /\ ringWire' = ringWire
      /\ arrivals' = arrivals /\ filled' = filled
  BY DEF zcVars, CardOnly
<1>2. ZcTypes'
  BY <1>0, <1>1 DEF ZcTypes, CardOnly
<1>3. Pieces'
  BY <1>0, <1>1, PiecesUntouched DEF CardOnly
<1>4. ASSUME NEW e \in ZcEnds PROVE EndInv(e)'
  <2>1. Requests(e)' = Requests(e)
    BY <1>1 DEF Requests
  <2>2. Accounted(e) => Accounted(e)'
    BY <1>1 DEF Accounted, SendAccounted, RecvAccounted, CardOnly
  <2> QED BY <2>1, <2>2, <1>0, <1>1, QuietCard
<1> QED BY <1>2, <1>3, <1>4 DEF ZcInv

-----------------------------------------------------------------------------
(* The specification *)

\* Nothing is posted at the start, and nothing has failed.
LEMMA ZcInitInv ==
  ASSUME Zc!Init
  PROVE  ZcInv
<1>1. /\ zcPlan \in ZcPlans /\ zcBatch = [e \in ZcEnds |-> 1] /\ zcActive = [e \in ZcEnds |-> FALSE]
      /\ posted = [e \in ZcEnds |-> 0] /\ completed = [e \in ZcEnds |-> 0]
      /\ mr = [e \in ZcEnds |-> [buf |-> -1, size |-> 0, key |-> 0]]
      /\ sq = << >> /\ rq = << >> /\ acks = << >> /\ zcCq = [e \in ZcEnds |-> << >>]
      /\ ringWire = 0 /\ arrivals = 0 /\ filled = [b \in DOMAIN zcPlan |-> << >>]
      /\ aborted = {} /\ torn = {}
  BY CutFacts DEF Zc!Init, Zc!NoMr
<1>2. ZcTypes
  <2>1. mr \in [ZcEnds -> Region]
    <3>1. [buf |-> -1, size |-> 0, key |-> 0] \in Region
      BY DEF Region
    <3> QED BY <3>1, <1>1
  <2>2. Len(zcPlan) \in Nat
    BY <1>1, ZcMessageFacts
  <2>3. zcBatch \in [ZcEnds -> Nat] /\ \A e \in ZcEnds : zcBatch[e] \in 1 .. Len(zcPlan) + 1
    BY <1>1, <2>2
  <2>4. filled \in [DOMAIN zcPlan -> Seq(Piece)] /\ zcCq \in [ZcEnds -> Seq(Report)]
    BY <1>1
  <2> QED BY <2>1, <2>3, <2>4, <1>1 DEF ZcTypes
<1>3. \A e \in ZcEnds : Requests(e) = << >> /\ Len(Requests(e)) = 0 /\ DOMAIN Requests(e) = {}
  BY <1>1 DEF Requests
<1>4. Pieces
  <2> SUFFICES ASSUME NEW b \in DOMAIN zcPlan
               PROVE  /\ Len(filled[b]) <= ZcTotal(b)
                      /\ (\A k \in DOMAIN filled[b] : filled[b][k] = [msg |-> b, from |-> ChunkFrom(k), to |-> ChunkFrom(k), len |-> ChunkLen(b, k)])
    BY DEF Pieces
  <2>1. filled[b] = << >> /\ ZcTotal(b) \in Nat
    BY <1>1, ZcChunkFacts
  <2> QED BY <2>1
<1>5. RecvAccounted
  <2>1. zcCq["receiver"] = << >> /\ completed["receiver"] = 0 /\ posted["receiver"] = 0 /\ Len(rq) = 0
    BY <1>1 DEF ZcEnds
  <2> QED BY <2>1, NoReports DEF RecvAccounted
<1>6. SendAccounted
  <2>1. DOMAIN zcCq["sender"] = {} /\ DOMAIN acks = {}
    BY <1>1 DEF ZcEnds
  <2> QED BY <2>1 DEF SendAccounted
<1>7. ASSUME NEW e \in ZcEnds PROVE EndInv(e)
  <2>1. Counted(e)
    BY <1>1, CutFacts DEF Counted
  <2>2. Behind(e) /\ AtMessage(e)
    BY <1>1 DEF Behind, AtMessage
  <2>3. Queued(e)
    BY <1>1, <1>3 DEF Queued
  <2>4. Accounted(e)
    BY <1>5, <1>6 DEF Accounted
  <2>5. Executed(e)
    <3> SUFFICES ASSUME NEW b \in DOMAIN zcPlan
                 PROVE  /\ (b < zcBatch[e] => Len(filled[b]) = IF IsLarge(b) THEN ZcTotal(b) ELSE 0)
                        /\ (b = zcBatch[e] => Len(filled[b]) = posted[e] - Len(Requests(e)))
                        /\ (b > zcBatch[e] => Len(filled[b]) = 0)
      BY DEF Executed
    <3>1. Len(filled[b]) = 0 /\ zcBatch[e] = 1 /\ posted[e] - Len(Requests(e)) = 0
      BY <1>1, <1>3
    <3>2. ~(b < 1)
      BY <1>1, ZcMessageFacts
    <3> QED BY <3>1, <3>2
  <2> QED BY <2>1, <2>2, <2>3, <2>4, <2>5 DEF EndInv, Whole
<1> QED BY <1>2, <1>4, <1>7 DEF ZcInv

\* Either path: the ring leaves the zero-copy path alone.
LEMMA PathStepKeeps ==
  ASSUME ZcInv, [PathNext]_pathVars
  PROVE  ZcInv'
<1>1. CASE RingStep
  BY <1>1, ZcUntouched DEF RingStep
<1>2. CASE ZcStep
  <2>1. CASE Zc!TrySendZc
    BY <2>1, TrySendZcKeeps
  <2>2. CASE Zc!TrySendRing
    BY <2>2, TrySendRingKeeps
  <2>3. CASE Zc!TryRecvZc
    BY <2>3, TryRecvZcKeeps
  <2>4. CASE Zc!TryRecvRing
    BY <2>4, TryRecvRingKeeps
  <2>5. CASE Zc!ExecuteSend
    BY <2>5, ExecuteSendKeeps
  <2>6. CASE Zc!AcknowledgeSend
    BY <2>6, AcknowledgeSendKeeps
  <2>7. CASE Zc!ExecuteWrite
    BY <2>7, ExecuteWriteKeeps
  <2>8. CASE Zc!FailStep
    <3>1. PICK e \in ZcEnds :
            Zc!Abandon(e) \/ Zc!PollFails(e) \/ Zc!RegisterFails(e) \/ Zc!PostFails(e) \/ Zc!Refuse(e)
      BY <2>8, CutFacts DEF Zc!FailStep
    <3>2. CASE Zc!Abandon(e)
      BY <3>2, AbandonKeeps
    <3>3. CASE Zc!PollFails(e)
      BY <3>3, PollFailsKeeps
    <3>4. CASE Zc!RegisterFails(e)
      BY <3>4, RegisterFailsKeeps
    <3>5. CASE Zc!PostFails(e)
      BY <3>5, PostFailsKeeps
    <3>6. CASE Zc!Refuse(e)
      BY <3>6, RefuseKeeps
    <3> QED BY <3>1, <3>2, <3>3, <3>4, <3>5, <3>6
  <2>9. CASE Zc!Finished
    <3>1. UNCHANGED zcVars
      BY <2>9 DEF Zc!Finished, Zc!vars, Zc!countVars, Zc!historyVars, zcVars
    <3> QED BY <3>1, ZcUntouched
  <2> QED BY <1>2, <2>1, <2>2, <2>3, <2>4, <2>5, <2>6, <2>7, <2>8, <2>9
          DEF ZcStep, Zc!Next, Zc!SenderStep, Zc!ReceiverStep, Zc!CardStep
<1>3. CASE UNCHANGED pathVars
  BY <1>3, ZcUntouched DEF pathVars
<1> QED BY <1>1, <1>2, <1>3 DEF PathNext

\* ZcInv is an inductive invariant of both transports' runs: up to the first
\* message that fails, what the card has executed of a message is the same
\* count seen from either end; behind it, an end's requests are still those
\* it counts, unless it has posted a chain in part.
THEOREM ZcInvariant == PathSpec => []ZcInv
<1>1. PathInit => ZcInv
  BY ZcInitInv DEF PathInit, RingInit, ZcInit
<1>2. ZcInv /\ [PathNext]_pathVars => ZcInv'
  BY PathStepKeeps
<1> QED BY <1>1, <1>2, PTL DEF PathSpec

-----------------------------------------------------------------------------
(* The properties *)

\* What the invariant says of a request the card has yet to execute, at an
\* end that has posted no chain in part.
LEMMA RequestCovered ==
  ASSUME ZcInv, NEW e \in ZcEnds, e \notin torn, NEW i \in DOMAIN Requests(e)
  PROVE  /\ Requests(e)[i].msg = zcBatch[e] \/ <<e, Requests(e)[i].msg>> \in aborted
         /\ Requests(e)[i].key = mr[e].key /\ Requests(e)[i].msg \in DOMAIN zcPlan
         /\ mr[e].buf = zcPlan[Requests(e)[i].msg].buf[e]
         /\ Requests(e)[i].from + Requests(e)[i].len <= mr[e].size
<1>1. ZcTypes /\ Counted(e) /\ Queued(e)
  BY InvParts DEF EndInv, Whole
<1>2. PICK q \in Seq(Zc!ZcRequest), n \in Nat, p \in Nat : q = Requests(e) /\ n = Len(q) /\ DOMAIN q = 1 .. n /\ p = posted[e] /\ n <= p
  BY <1>1, TransferFacts, EndTypes
<1>3. zcActive[e]
  <2>1. q # << >>
    BY <1>2
  <2> QED BY <2>1, <1>1, <1>2, TransferFacts
<1>4. PICK b \in DOMAIN zcPlan :
        /\ b = q[i].msg /\ (b = zcBatch[e] \/ <<e, b>> \in aborted)
        /\ mr[e].buf = zcPlan[b].buf[e] /\ mr[e].size = zcPlan[b].size
  BY <1>1, <1>2 DEF Queued, Owned
<1>5. p <= ZcTotal(b)
  BY <1>1, <1>2, <1>3, <1>4 DEF Counted, ZcTotal
<1>6. PICK k \in Nat : k = p - n + i /\ k >= 1 /\ k <= p /\ AsksFor(q[i], b, k, mr[e].key)
  BY <1>1, <1>2, <1>4 DEF Queued
<1>7. ZcTotal(b) \in Nat /\ zcPlan \in ZcPlans
  BY <1>1, ZcChunkFacts DEF ZcTypes
<1>8. k \in 1 .. ZcTotal(b)
  BY <1>2, <1>5, <1>6, <1>7
<1>9. ChunkFrom(k) + ChunkLen(b, k) <= zcPlan[b].size
  BY <1>7, <1>8, ZcChunkFacts
<1> QED BY <1>2, <1>4, <1>6, <1>9 DEF AsksFor

\* A released transfer has left nothing.
LEMMA ReleasedQuiet ==
  ASSUME ZcInv
  PROVE  Zc!QuietRelease
<1>0. /\ ZcTypes /\ EndInv("sender") /\ EndInv("receiver")
      /\ "sender" \in ZcEnds /\ "receiver" \in ZcEnds /\ Requests("sender") = sq /\ Requests("receiver") = rq
  BY InvParts
<1>1. ASSUME "sender" \notin torn, ~zcActive["sender"]
      PROVE  sq = << >> /\ acks = << >> /\ \A i \in DOMAIN zcCq["sender"] : zcCq["sender"][i].op # "zc_send"
  <2>0. Counted("sender") /\ Queued("sender") /\ SendAccounted
    BY <1>0, <1>1 DEF EndInv, Whole, Accounted
  <2>1. sq = << >> /\ posted["sender"] = 0 /\ completed["sender"] = 0
    BY <2>0, <1>0, <1>1, TransferFacts
  <2>2. Len(sq) = 0
    BY <2>1
  <2>3. acks \in Seq(Nat) /\ zcCq["sender"] \in Seq(Report)
    BY <1>0 DEF ZcTypes
  <2>4. \A i \in DOMAIN acks : acks[i] > 0 /\ acks[i] <= 0 - 0
    BY <2>0, <2>1, <2>2 DEF SendAccounted
  <2>5. DOMAIN acks = {}
    <3>1. \A i \in DOMAIN acks : acks[i] \in Nat
      BY <2>3
    <3>2. ASSUME NEW i \in DOMAIN acks PROVE FALSE
      <4>1. acks[i] \in Nat /\ acks[i] > 0 /\ acks[i] <= 0 - 0
        BY <3>1, <2>4
      <4> QED BY <4>1
    <3> QED BY <3>2
  <2>6. acks = << >>
    BY <2>3, <2>5
  <2>7. \A i \in DOMAIN zcCq["sender"] : zcCq["sender"][i].id > 0 /\ zcCq["sender"][i].id <= 0 - 0
    BY <2>0, <2>1, <2>2 DEF SendAccounted
  <2>8. \A i \in DOMAIN zcCq["sender"] : zcCq["sender"][i].id \in Nat
    <3>1. \A x \in Report : x.id \in Nat
      BY DEF Report
    <3>2. \A i \in DOMAIN zcCq["sender"] : zcCq["sender"][i] \in Report
      BY <2>3
    <3> QED BY <3>1, <3>2
  <2>9. DOMAIN zcCq["sender"] = {}
    BY <2>7, <2>8
  <2> QED BY <2>1, <2>6, <2>9
<1>2. ASSUME "receiver" \notin torn, ~zcActive["receiver"]
      PROVE  rq = << >> /\ \A i \in DOMAIN zcCq["receiver"] : zcCq["receiver"][i].op # "zc_recv"
  <2>0. Counted("receiver") /\ Queued("receiver") /\ RecvAccounted
    BY <1>0, <1>2 DEF EndInv, Whole, Accounted
  <2>1. rq = << >> /\ posted["receiver"] = 0 /\ completed["receiver"] = 0
    BY <2>0, <1>0, <1>2, TransferFacts
  <2>2. Len(rq) = 0
    BY <2>1
  <2>3. zcCq["receiver"] \in Seq(Report) /\ [op |-> "ring", id |-> 0] \in Report
    BY <1>0 DEF ZcTypes, Report
  <2>4. PICK S : S = RecvIn(zcCq["receiver"]) /\ IsFiniteSet(S) /\ Cardinality(S) \in Nat
    BY <2>3, ReportCount
  <2>5. 0 + Cardinality(S) + 0 <= 0
    BY <2>0, <2>1, <2>2, <2>4 DEF RecvAccounted
  <2>6. Cardinality(S) = 0
    BY <2>4, <2>5
  <2>7. S = {}
    BY <2>4, <2>6, FS_EmptySet
  <2> QED BY <2>1, <2>4, <2>7 DEF RecvIn
<1> QED BY <1>1, <1>2 DEF Zc!QuietRelease, Zc!Sender, Zc!Receiver

\* Types, and what is completed against what is posted.
LEMMA ZcTyped ==
  ASSUME ZcInv
  PROVE  Zc!TypeOK /\ Zc!QueueFits
<1>1. ZcTypes /\ \A e \in ZcEnds : EndInv(e)
  BY InvParts
<1>2. \A e \in ZcEnds : posted[e] - completed[e] <= Window /\ (e \notin torn => completed[e] <= posted[e])
  <2> TAKE e \in ZcEnds
  <2>1. Counted(e) /\ (e \notin torn => Queued(e))
    BY <1>1 DEF EndInv, Whole
  <2>2. e \notin torn => completed[e] <= posted[e]
    BY <2>1, <1>1, TransferFacts
  <2> QED BY <2>1, <2>2 DEF Counted
<1>3. Zc!Ends = ZcEnds
  BY CutFacts
<1>4. zcBatch \in [ZcEnds -> 1 .. Len(zcPlan) + 1]
  BY <1>1 DEF ZcTypes
<1>5. Zc!QueueFits
  BY <1>2, <1>3 DEF Zc!QueueFits
<1>6. Zc!TypeOK
  BY <1>1, <1>2, <1>3, <1>4 DEF Zc!TypeOK, ZcTypes, Region, Report, Piece
<1> QED BY <1>5, <1>6

\* Once TrySend or TryRecv has said done, the card has nothing more to do with
\* the caller's buffer, for every plan, window, threshold, pair of chunk sizes
\* and number of failures: a request still with the card is of the message its
\* end is at, or of one whose call or plan failed, where the caller's buffer is
\* not the caller's alone until Close (transport_rdma_zc.cpp:178, :198, :326).
THEOREM BuffersOwned == PathSpec => []BufferOwned
<1>1. ZcInv => BufferOwned
  <2> HAVE ZcInv
  <2>1. Zc!RegionCovers
    <3>1. Zc!Ends = ZcEnds /\ \A e \in ZcEnds : Zc!Queue(e) = Requests(e)
      BY CutFacts DEF Zc!Queue, Zc!Sender, Requests
    <3>2. \A e \in ZcEnds \ torn : \A i \in DOMAIN Requests(e) :
            /\ Requests(e)[i].msg = zcBatch[e] \/ <<e, Requests(e)[i].msg>> \in aborted
            /\ Requests(e)[i].key = mr[e].key /\ Requests(e)[i].msg \in DOMAIN zcPlan
            /\ mr[e].buf = zcPlan[Requests(e)[i].msg].buf[e]
            /\ Requests(e)[i].from + Requests(e)[i].len <= mr[e].size
      BY RequestCovered
    <3> QED BY <3>1, <3>2 DEF Zc!RegionCovers
  <2> QED BY <2>1, ReleasedQuiet, ZcTyped DEF BufferOwned
<1> QED BY <1>1, ZcInvariant, PTL

\* The receiver's buffer is filled with the chunks of its own message, in
\* order and without a gap, and to the last byte before TryRecv says done, up
\* to the first message that fails at either end.
THEOREM ChunksExact == PathSpec => []ZcExact
<1>1. ASSUME ZcInv PROVE ZcExact
  <2>0. /\ ZcTypes /\ Pieces /\ Executed("receiver") /\ zcPlan \in ZcPlans
        /\ zcBatch["receiver"] \in Nat
    BY <1>1, InvParts, EndTypes DEF ZcTypes, EndInv
  <2> DEFINE UpTo(b, k) == IF k = 0 THEN 0 ELSE filled[b][k].to + filled[b][k].len
  <2> SUFFICES ASSUME NEW b \in DOMAIN zcPlan, Settled(b)
               PROVE  /\ (\A k \in DOMAIN filled[b] :
                            /\ filled[b][k].msg = b /\ filled[b][k].from = filled[b][k].to /\ filled[b][k].len > 0
                            /\ filled[b][k].to = UpTo(b, k - 1))
                      /\ ((Zc!IsZc(zcPlan[b]) /\ zcBatch["receiver"] > b) => UpTo(b, Len(filled[b])) = zcPlan[b].size)
    BY DEF ZcExact, Zc!Exact, Zc!Receiver, Zc!Untroubled, Settled
  <2>1. PICK f \in Seq(Piece), n \in Nat, t \in Nat : f = filled[b] /\ n = Len(f) /\ DOMAIN f = 1 .. n /\ t = ZcTotal(b) /\ t > 0
    BY <2>0, ZcChunkFacts DEF ZcTypes
  <2>2. n <= t /\ \A k \in 1 .. n : f[k] = [msg |-> b, from |-> ChunkFrom(k), to |-> ChunkFrom(k), len |-> ChunkLen(b, k)]
    BY <2>0, <2>1 DEF Pieces
  <2>a. \A k \in 1 .. n : f[k].msg = b /\ f[k].from = ChunkFrom(k) /\ f[k].to = ChunkFrom(k) /\ f[k].len = ChunkLen(b, k)
    <3> TAKE k \in 1 .. n
    <3>1. PICK x : x = f[k] /\ x = [msg |-> b, from |-> ChunkFrom(k), to |-> ChunkFrom(k), len |-> ChunkLen(b, k)]
      BY <2>2
    <3>2. x.msg = b /\ x.from = ChunkFrom(k) /\ x.to = ChunkFrom(k) /\ x.len = ChunkLen(b, k)
      BY <3>1
    <3> QED BY <3>1, <3>2
  <2>3. /\ (\A k \in 1 .. t : ChunkFrom(k) \in Nat /\ ChunkLen(b, k) \in Nat \ {0})
        /\ (\A k \in 1 .. t : k < t => ChunkFrom(k) + ChunkLen(b, k) = ChunkFrom(k + 1))
        /\ ChunkFrom(t) + ChunkLen(b, t) = zcPlan[b].size /\ ChunkFrom(1) = 0
    BY <2>0, <2>1, ZcChunkFacts
  <2>4. ASSUME NEW k \in DOMAIN f
        PROVE  f[k].msg = b /\ f[k].from = f[k].to /\ f[k].len > 0 /\ f[k].to = UpTo(b, k - 1)
    <3>1. k \in 1 .. n /\ k \in 1 .. t
      BY <2>1, <2>2
    <3>2. f[k].msg = b /\ f[k].from = ChunkFrom(k) /\ f[k].to = ChunkFrom(k) /\ f[k].len = ChunkLen(b, k)
      BY <3>1, <2>a
    <3>3. ChunkFrom(k) = UpTo(b, k - 1)
      <4>1. CASE k = 1
        BY <4>1, <2>3
      <4>2. CASE k > 1
        <5>1. PICK j \in 1 .. n : j = k - 1 /\ j \in 1 .. t /\ j < t /\ j # 0 /\ j + 1 = k
          BY <4>2, <3>1
        <5>2. f[j].to = ChunkFrom(j) /\ f[j].len = ChunkLen(b, j)
          BY <2>a
        <5>3. ChunkFrom(j) + ChunkLen(b, j) = ChunkFrom(k)
          BY <5>1, <2>3
        <5> QED BY <5>1, <5>2, <5>3, <2>1
      <4> QED BY <4>1, <4>2, <3>1
    <3> QED BY <3>1, <3>2, <3>3, <2>3
  <2>5. ASSUME Zc!IsZc(zcPlan[b]), zcBatch["receiver"] > b PROVE UpTo(b, Len(filled[b])) = zcPlan[b].size
    <3>1. b \in Nat
      BY <2>0, ZcMessageFacts
    <3>2. b < zcBatch["receiver"] /\ IsLarge(b)
      BY <2>5, <3>1, <2>0 DEF Zc!IsZc, IsLarge
    <3>3. n = t
      BY <3>2, <2>0, <2>1 DEF Executed
    <3>4. f[t].to = ChunkFrom(t) /\ f[t].len = ChunkLen(b, t)
      BY <3>3, <2>1, <2>a
    <3> QED BY <3>3, <3>4, <2>1, <2>3
  <2> QED BY <2>1, <2>4, <2>5
<1> QED BY <1>1, ZcInvariant, PTL

=============================================================================
