-------------------------------- MODULE RdmaZc -------------------------------
(***************************************************************************)
(* The zero-copy data path of TransportRDMAZc (transport_rdma_zc.cpp).  A  *)
(* message of at least threshold bytes is cut into chunks that go straight *)
(* from the sender's buffer to the receiver's by SEND and RECV on a queue  *)
(* pair of its own, at most Window requests at a time; a smaller message   *)
(* takes the copying ring (module RdmaRing; here one arrival per message,  *)
(* always with a credit).  Both queue pairs report to one completion queue.*)
(*                                                                         *)
(* A call of TrySend or TryRecv is one step: ProcessCompletions, window,   *)
(* post, done.  How an endpoint is woken is the subject of RdmaRing; here  *)
(* it calls again at any time.  The card runs between calls, and reads or  *)
(* writes the user's buffers when it executes a request, not earlier.      *)
(*                                                                         *)
(* A call may return false, and an executor that aborts a plan leaves a    *)
(* transfer where it is: no path but Close takes requests back from the    *)
(* card.  The caller then has its buffer back and goes on to its next      *)
(* message, and the endpoint still holds the old transfer.                 *)
(***************************************************************************)
EXTENDS Integers, Sequences, FiniteSetsExt

CONSTANTS
  Window,      \* kRdmaZcWindow
  Threshold,   \* threshold_
  ZcChunk,     \* the chunk size each end advertises, kRdmaZcChunk
  Plans,       \* the message sequences the ends may be given
  Failures     \* how many messages may fail other than by a refusal (a bound)

Sender == "sender"
Receiver == "receiver"
Ends == {Sender, Receiver}

Other(e) == IF e = Sender THEN Receiver ELSE Sender

\* A message: its size, and the buffer each end has for it.
Message == [size : Nat, buf : [Ends -> Nat]]

VARIABLES
  plan,        \* the messages both ends move (never changes)
  batch,       \* the message each end is at
  zcActive,    \* zc_send_active, zc_recv_active
  posted,      \* zc_send_posted, zc_recv_posted
  completed,   \* zc_send_completed, zc_recv_completed
  mr,          \* the registered region: buffer, size and key, or NoMr
  sq, rq,      \* posted SENDs and RECVs the card has not executed
  acks,        \* wr_ids of executed signaled SENDs, not yet completed
  cq,          \* the shared completion queue, per end
  ringWire,    \* ring messages posted and not executed
  arrivals,    \* ring messages completed at the receiver and not read
  filled,      \* history: chunks in the receiver's buffers, per message
  aborted,     \* history: <<end, message>> whose call or plan failed
  torn         \* history: ends at which part of a chain was posted

countVars == <<zcActive, posted, completed>>
historyVars == <<aborted, torn>>
vars == <<plan, batch, countVars, mr, sq, rq, acks, cq, ringWire, arrivals, filled, historyVars>>

\* No region is registered.
NoMr == [buf |-> -1, size |-> 0, key |-> 0]

\* Mutant: each end uses its own chunk.
OwnChunk(e) == ZcChunk[e]

\* zc_chunk: FinalizeConnection takes the smaller of its own chunk and the one
\* the peer advertised.
Chunk(e) == Min({ZcChunk[e], ZcChunk[Other(e)]})

Current(e) == plan[batch[e]]

IsZc(m) == m.size >= Threshold

\* zc_total: chunks of e's message.
Total(e) == (Current(e).size + Chunk(e) - 1) \div Chunk(e)

\* ZcChunkLength of the chunk with the given number (from 1).
ChunkLength(e, id) == Min({Chunk(e), Current(e).size - (id - 1) * Chunk(e)})

\* The work request for that chunk: its place in e's message, and the key of
\* the region it names.  A chain asks for a completion of its last request.
Request(e, id, region, last) ==
  [id |-> id, msg |-> batch[e], from |-> (id - 1) * Chunk(e), len |-> ChunkLength(e, id),
   key |-> region.key, signaled |-> last]

Init ==
  /\ plan \in Plans
  /\ batch = [e \in Ends |-> 1]
  /\ zcActive = [e \in Ends |-> FALSE]
  /\ posted = [e \in Ends |-> 0] /\ completed = [e \in Ends |-> 0]
  /\ mr = [e \in Ends |-> NoMr]
  /\ sq = << >> /\ rq = << >> /\ acks = << >>
  /\ cq = [e \in Ends |-> << >>]
  /\ ringWire = 0 /\ arrivals = 0
  /\ filled = [b \in DOMAIN plan |-> << >>]
  /\ aborted = {} /\ torn = {}

-----------------------------------------------------------------------------
(* HandleCompletion, for the first n completions in the queue.              *)

\* Those of e's first n completions that have the given opcode.
Polled(e, op, n) == {i \in 1 .. n : cq[e][i].op = op}

\* A SEND completion stands for all requests up to its wr_id, and counts only
\* for an active send that has posted that one.
SendHandled(n) ==
  LET own == {cq[Sender][i].id : i \in Polled(Sender, "zc_send", n)} IN
  Max({completed[Sender]} \cup {id \in own : zcActive[Sender] /\ id <= posted[Sender]})

\* A RECV completion counts for one request.
RecvHandled(n) == completed[Receiver] + Cardinality(Polled(Receiver, "zc_recv", n))

\* Ring arrivals go to the base class.
ArrivalsHandled(n) == arrivals + Cardinality(Polled(Receiver, "ring", n))

\* PollCompletionQueue empties the queue.
SendCompleted == SendHandled(Len(cq[Sender]))
RecvCompleted == RecvHandled(Len(cq[Receiver]))
ArrivalsNow == ArrivalsHandled(Len(cq[Receiver]))

-----------------------------------------------------------------------------
(* TrySend.                                                                 *)

\* The registered region is for e's message.
Matches(e) == mr[e].buf = Current(e).buf[e] /\ mr[e].size = Current(e).size

\* Mutant: a call goes on with whatever transfer is begun.
MayGoAnyway(e) == batch[e] <= Len(plan) /\ IsZc(Current(e))

\* The call is on a large message, and not refused: a transfer begun is for
\* this buffer and size.
MayGo(e) ==
  /\ batch[e] <= Len(plan) /\ IsZc(Current(e))
  /\ zcActive[e] => Matches(e)

\* AcquireZcMr: the cached region, or the old one dropped for a new one.
Acquire(e) ==
  IF Matches(e) THEN mr[e]
  ELSE [buf |-> Current(e).buf[e], size |-> Current(e).size, key |-> mr[e].key + 1]

\* Requests the window lets an end post.
WindowLeft(already, finished) == Window - (already - finished)

\* Mutant: done when everything is posted.
DoneWhenPosted(finished, sent, total) == sent = total

\* *done.
Done(finished, sent, total) == finished = total

\* After a call that was done the executor goes on to its next message.
Proceed(e, done) ==
  batch' = IF done THEN [batch EXCEPT ![e] = @ + 1] ELSE batch

\* zc_*_active, posted and completed at the end of a zero-copy call: BeginZc*
\* at its start, ReleaseZc when done.
Settle(e, done, sent, finished) ==
  /\ zcActive' = [zcActive EXCEPT ![e] = ~done]
  /\ posted' = [posted EXCEPT ![e] = IF done THEN 0 ELSE sent]
  /\ completed' = [completed EXCEPT ![e] = IF done THEN 0 ELSE finished]

\* TransportRDMAZc::TrySend on a large message; PostZcSends chains requests
\* and asks for a completion of the last only.
TrySendZc ==
  /\ MayGo(Sender)
  /\ LET finished == SendCompleted
         already  == posted[Sender]
         count    == Min({WindowLeft(already, finished), Total(Sender) - already})
         sent     == already + count
         done     == Done(finished, sent, Total(Sender))
         region   == IF zcActive[Sender] THEN mr[Sender] ELSE Acquire(Sender)
     IN /\ mr' = [mr EXCEPT ![Sender] = region]
        /\ sq' = sq \o [i \in 1 .. count |-> Request(Sender, already + i, region, i = count)]
        /\ Settle(Sender, done, sent, finished)
        /\ Proceed(Sender, done)
  /\ cq' = [cq EXCEPT ![Sender] = << >>]
  /\ UNCHANGED <<plan, rq, acks, ringWire, arrivals, filled, historyVars>>

\* A small message is forwarded to TransportRDMA::TrySend.
TrySendRing ==
  /\ batch[Sender] <= Len(plan) /\ ~IsZc(Current(Sender))
  /\ ringWire' = ringWire + 1
  /\ completed' = [completed EXCEPT ![Sender] = SendCompleted]
  /\ Proceed(Sender, TRUE)
  /\ cq' = [cq EXCEPT ![Sender] = << >>]
  /\ UNCHANGED <<plan, zcActive, posted, mr, sq, rq, acks, arrivals, filled, historyVars>>

-----------------------------------------------------------------------------
(* TryRecv.                                                                 *)

\* TransportRDMAZc::TryRecv on a large message.
TryRecvZc ==
  /\ MayGo(Receiver)
  /\ LET finished == RecvCompleted
         already  == posted[Receiver]
         count    == Min({WindowLeft(already, finished), Total(Receiver) - already})
         sent     == already + count
         done     == Done(finished, sent, Total(Receiver))
         region   == IF zcActive[Receiver] THEN mr[Receiver] ELSE Acquire(Receiver)
     IN /\ mr' = [mr EXCEPT ![Receiver] = region]
        /\ rq' = rq \o [i \in 1 .. count |-> Request(Receiver, already + i, region, i = count)]
        /\ Settle(Receiver, done, sent, finished)
        /\ Proceed(Receiver, done)
  /\ arrivals' = ArrivalsNow
  /\ cq' = [cq EXCEPT ![Receiver] = << >>]
  /\ UNCHANGED <<plan, sq, acks, ringWire, filled, historyVars>>

\* A small message is forwarded to TransportRDMA::TryRecv.
TryRecvRing ==
  /\ batch[Receiver] <= Len(plan) /\ ~IsZc(Current(Receiver))
  /\ arrivals' = IF ArrivalsNow > 0 THEN ArrivalsNow - 1 ELSE 0
  /\ Proceed(Receiver, ArrivalsNow > 0)
  /\ completed' = [completed EXCEPT ![Receiver] = RecvCompleted]
  /\ cq' = [cq EXCEPT ![Receiver] = << >>]
  /\ UNCHANGED <<plan, zcActive, posted, mr, sq, rq, acks, ringWire, filled, historyVars>>

-----------------------------------------------------------------------------
(* Failures.  The caller of a failed call or plan goes on to its next      *)
(* message; what the endpoint holds stays as it was left.                   *)

Queue(e) == IF e = Sender THEN sq ELSE rq

Handled(e, n) == IF e = Sender THEN SendHandled(n) ELSE RecvHandled(n)

\* What a call of e leaves after the first n completions were handled: a poll
\* takes all there are, and loses those behind the one that failed.
Poll(e, n) ==
  /\ cq' = [cq EXCEPT ![e] = << >>]
  /\ completed' = [completed EXCEPT ![e] = Handled(e, n)]
  /\ arrivals' = IF e = Receiver THEN ArrivalsHandled(n) ELSE arrivals

GiveUp(e) ==
  /\ batch[e] <= Len(plan)
  /\ batch' = [batch EXCEPT ![e] = @ + 1]
  /\ aborted' = aborted \cup {<<e, batch[e]>>}
  /\ UNCHANGED <<plan, acks, ringWire, filled>>

\* Something that goes wrong outside this code, in one message of either end.
Fails(e) == Cardinality(aborted) < Failures /\ GiveUp(e)

\* Another task of the plan failed: the executor aborts the plan between two
\* calls and tells the transport nothing.
Abandon(e) ==
  /\ Fails(e)
  /\ UNCHANGED <<countVars, mr, sq, rq, cq, arrivals, torn>>

\* ProcessCompletions fails: a completion has an error status, or a pool
\* receive cannot be posted again.
PollFails(e) ==
  /\ Fails(e)
  /\ \E n \in 0 .. Len(cq[e]) : Poll(e, n)
  /\ UNCHANGED <<zcActive, posted, mr, sq, rq, torn>>

\* ibv_reg_mr fails, after the old region was dropped.
RegisterFails(e) ==
  /\ Fails(e) /\ MayGo(e) /\ ~zcActive[e] /\ ~Matches(e)
  /\ Poll(e, Len(cq[e]))
  /\ mr' = [mr EXCEPT ![e] = [NoMr EXCEPT !.key = mr[e].key]]
  /\ UNCHANGED <<zcActive, posted, sq, rq, torn>>

\* ibv_post_send or ibv_post_recv fails: the requests of the chain before the
\* failed one are with the card, and not counted.
PostFails(e) ==
  /\ Fails(e) /\ MayGo(e)
  /\ Poll(e, Len(cq[e]))
  /\ LET finished == Handled(e, Len(cq[e]))
         count    == Min({WindowLeft(posted[e], finished), Total(e) - posted[e]})
         region   == IF zcActive[e] THEN mr[e] ELSE Acquire(e)
     IN \E k \in 0 .. count - 1 :
          LET longer == Queue(e) \o [i \in 1 .. k |-> Request(e, posted[e] + i, region, FALSE)] IN
          /\ mr' = [mr EXCEPT ![e] = region]
          /\ sq' = IF e = Sender THEN longer ELSE sq
          /\ rq' = IF e = Receiver THEN longer ELSE rq
          /\ torn' = IF k > 0 THEN torn \cup {e} ELSE torn
  /\ zcActive' = [zcActive EXCEPT ![e] = TRUE]
  /\ UNCHANGED posted

\* A transfer is begun for another buffer or size: the call is refused.
Refuse(e) ==
  /\ GiveUp(e) /\ IsZc(Current(e)) /\ ~MayGo(e)
  /\ Poll(e, Len(cq[e]))
  /\ UNCHANGED <<zcActive, posted, mr, sq, rq, torn>>

-----------------------------------------------------------------------------
(* The card.  A SEND that finds no RECV is tried again (rnr_retry_count 7); *)
(* one longer than its RECV, which only ends that have lost step post,      *)
(* breaks the pair, and nothing more is executed.                           *)

ExecuteSend ==
  /\ sq /= << >> /\ rq /= << >> /\ Head(sq).len <= Head(rq).len
  /\ LET s == Head(sq)  r == Head(rq) IN
       /\ filled' = [filled EXCEPT ![r.msg] = Append(@, [msg |-> s.msg, from |-> s.from, to |-> r.from, len |-> s.len])]
       /\ cq' = [cq EXCEPT ![Receiver] = Append(@, [op |-> "zc_recv", id |-> r.id])]
       /\ acks' = IF s.signaled THEN Append(acks, s.id) ELSE acks
  /\ sq' = Tail(sq) /\ rq' = Tail(rq)
  /\ UNCHANGED <<plan, batch, countVars, mr, ringWire, arrivals, historyVars>>

AcknowledgeSend ==
  /\ acks /= << >>
  /\ cq' = [cq EXCEPT ![Sender] = Append(@, [op |-> "zc_send", id |-> Head(acks)])]
  /\ acks' = Tail(acks)
  /\ UNCHANGED <<plan, batch, countVars, mr, sq, rq, ringWire, arrivals, filled, historyVars>>

ExecuteWrite ==
  /\ ringWire > 0
  /\ ringWire' = ringWire - 1
  /\ cq' = [cq EXCEPT ![Receiver] = Append(@, [op |-> "ring", id |-> 0])]
  /\ UNCHANGED <<plan, batch, countVars, mr, sq, rq, acks, arrivals, filled, historyVars>>

-----------------------------------------------------------------------------
AllDone == \A e \in Ends : batch[e] > Len(plan)

Finished == AllDone /\ UNCHANGED vars

SenderStep == TrySendZc \/ TrySendRing
ReceiverStep == TryRecvZc \/ TryRecvRing
CardStep == ExecuteSend \/ AcknowledgeSend \/ ExecuteWrite

FailStep ==
  \E e \in Ends : Abandon(e) \/ PollFails(e) \/ RegisterFails(e) \/ PostFails(e) \/ Refuse(e)

Next == SenderStep \/ ReceiverStep \/ CardStep \/ FailStep \/ Finished

Spec == Init /\ [][Next]_vars

\* Executors call again until done; the card executes what it can.
Fairness ==
  /\ WF_vars(SenderStep) /\ WF_vars(ReceiverStep)
  /\ WF_vars(ExecuteSend) /\ WF_vars(AcknowledgeSend) /\ WF_vars(ExecuteWrite)

FairSpec == Spec /\ Fairness

-----------------------------------------------------------------------------
ZcRequest == [id : Nat, msg : Nat, from : Nat, len : Nat, key : Nat, signaled : BOOLEAN]

\* Every variable stays in its type; completed requests are within the posted
\* ones, unless a chain was posted in part.
TypeOK ==
  /\ plan \in Plans
  /\ batch \in [Ends -> 1 .. Len(plan) + 1]
  /\ zcActive \in [Ends -> BOOLEAN]
  /\ posted \in [Ends -> Nat] /\ completed \in [Ends -> Nat]
  /\ \A e \in Ends \ torn : completed[e] <= posted[e]
  /\ mr \in [Ends -> [buf : Int, size : Nat, key : Nat]]
  /\ sq \in Seq(ZcRequest) /\ rq \in Seq(ZcRequest)
  /\ acks \in Seq(Nat)
  /\ \A e \in Ends : cq[e] \in Seq([op : {"zc_send", "zc_recv", "ring"}, id : Nat])
  /\ ringWire \in Nat /\ arrivals \in Nat
  /\ \A b \in DOMAIN plan : filled[b] \in Seq([msg : Nat, from : Nat, to : Nat, len : Nat])
  /\ aborted \in SUBSET (Ends \X DOMAIN plan) /\ torn \in SUBSET Ends

\* When a transfer is released, nothing of it is left behind: no request the
\* card could still execute on the caller's buffer, and no late completion
\* the next transfer could count as its own (transport_rdma_zc.cpp:178).
QuietRelease ==
  /\ Sender \notin torn /\ ~zcActive[Sender] =>
       sq = << >> /\ acks = << >> /\ \A i \in DOMAIN cq[Sender] : cq[Sender][i].op /= "zc_send"
  /\ Receiver \notin torn /\ ~zcActive[Receiver] =>
       rq = << >> /\ \A i \in DOMAIN cq[Receiver] : cq[Receiver][i].op /= "zc_recv"

\* No message up to b has failed at either end.
Untroubled(b) == \A a \in aborted : b < a[2]

\* The receiver's buffer is filled in order with the chunks of the message it
\* is for, each at its own place and beginning where the one before it ended,
\* and to the last byte before TryRecv says done.  A failure ends that for the
\* message it hits and those after it, on both ends.
Exact ==
  \A b \in DOMAIN plan :
    LET chunks == filled[b]
        upTo(k) == IF k = 0 THEN 0 ELSE chunks[k].to + chunks[k].len
    IN Untroubled(b) =>
         /\ \A k \in DOMAIN chunks :
              chunks[k].msg = b /\ chunks[k].from = chunks[k].to /\ chunks[k].len > 0 /\ chunks[k].to = upTo(k - 1)
         /\ IsZc(plan[b]) /\ batch[Receiver] > b => upTo(Len(chunks)) = plan[b].size

\* A request the card has yet to execute is of the message its end is at, or
\* of one that failed there, never of one reported done; it names a region
\* that is still registered for that message and contains its chunk
\* (transport_rdma_zc.cpp:198: the region is kept across transfers and
\* replaced when the buffer or the size changes).
RegionCovers ==
  \A e \in Ends \ torn : \A i \in DOMAIN Queue(e) :
    LET q == Queue(e)[i] IN
    /\ q.msg = batch[e] \/ <<e, q.msg>> \in aborted
    /\ q.key = mr[e].key /\ q.msg \in DOMAIN plan /\ mr[e].buf = plan[q.msg].buf[e]
    /\ q.from + q.len <= mr[e].size

\* The queue pair's max_send_wr and max_recv_wr are never exceeded.  An entry
\* is taken until a completion that stands for it was polled.
QueueFits == \A e \in Ends \ torn : posted[e] - completed[e] <= Window

\* Every message is eventually delivered, whichever path it takes, unless one
\* fails.
Completes == <>(AllDone \/ aborted /= {})
=============================================================================
