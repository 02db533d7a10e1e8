--------------------------- MODULE RingCollective ----------------------------
(***************************************************************************)
(* TopologyRing: the five ring collectives of topology_ring.cpp as the     *)
(* state machine CollectiveInit / CollectiveStep / CollectiveDone that an  *)
(* executor drives on every rank of one channel.                           *)
(*                                                                         *)
(* Each rank runs the tasks in order, so one rank may already be in the    *)
(* next task while its neighbour still works on the last one.  The edge    *)
(* from a rank to the next is the bounded FIFO of module ByteChannel, here *)
(* moving whole elements: a byte count in the code is an element count     *)
(* here, and an element on an edge carries no address, as in the code.     *)
(*                                                                         *)
(* Data is symbolic.  An element's value is the bag of the inputs summed   *)
(* into it, each <<rank, index>>, so that an input lost, doubled or put in *)
(* the wrong place shows.                                                  *)
(***************************************************************************)
EXTENDS Integers, Sequences, FiniteSetsExt, Bags

CONSTANTS
  Capacity,   \* elements an edge can hold
  Cases       \* the worlds and task lists to consider: records [n, tasks]

VARIABLES
  n,          \* world_size
  tasks,      \* the channel's task list, the same on every rank
  cur,        \* cur[r]: index of the task rank r is in, 0 before the first
  st,         \* st[r]: CollOpState and buffers of rank r's current task
  edge,       \* edge[r]: elements in flight from r to its next rank
  results     \* results[r]: recv_buf of each task rank r has finished

vars == <<n, tasks, cur, st, edge, results>>

Ranks == 0 .. n - 1
GetNextRank(r) == (r + 1) % n
GetPrevRank(r) == (r - 1 + n) % n

\* The value of an element no task has written, and of rank r's input i.
Garbage == EmptyBag
Input(r, i) == SetToBag({<<r, i>>})

\* ApplyAverage: a mark that tells how often, and how early, it was applied.
Averaged(v) == v (+) SetToBag({<<-1, BagCardinality(v)>>})

-----------------------------------------------------------------------------
(* Which elements go where.  t is the task, s the rank's state.            *)

\* ChunkElemCount: the elements of chunk c, none past the end.
ChunkElemCount(t, c) ==
  LET start == c * t.chunk
  IN  IF start >= t.count THEN 0 ELSE Min({t.chunk, t.count - start})

AllreduceUnit(s) == s.step \div (n - 1)
AllreduceStepInUnit(s) == s.step % (n - 1)

AllreduceSendChunk(r, s) ==
  LET turn == IF s.phase = "ReduceScatter" THEN 0 ELSE 1
  IN  AllreduceUnit(s) * n + ((r - AllreduceStepInUnit(s) + turn + n) % n)

AllreduceRecvChunk(r, s) ==
  LET turn == IF s.phase = "ReduceScatter" THEN 1 ELSE 0
  IN  AllreduceUnit(s) * n + ((r - AllreduceStepInUnit(s) - turn + n) % n)

AllreduceUnits(t) == (t.count + t.chunk * n - 1) \div (t.chunk * n)

\* Mutants: the block it has just sent, one step late.
AllGatherRecvBlockSame(r, s) == (r - s.step + n) % n
ReduceScatterInputChunkLate(r, s) == (r - s.step - 1 + 2 * n) % n

AllGatherSendBlock(r, s) == (r - s.step + n) % n
AllGatherRecvBlock(r, s) == (r - s.step - 1 + n) % n

\* The two buffers of a ReduceScatter swap roles on every step.
ReduceScatterSendBuf(s) == IF s.step % 2 = 0 THEN "buf" ELSE "tmp"
ReduceScatterRecvBuf(s) == IF s.step % 2 = 0 THEN "tmp" ELSE "buf"

ReduceScatterInputChunk(r, s) == (r - s.step - 2 + 2 * n) % n

RootPosition(r, t) == (r - t.root + n) % n

\* A region is a buffer ("buf" for recv_buf, "tmp" for temp_buffer), the
\* index it starts at and the number of its elements.
Region(b, i, c) == [base |-> b, at |-> i, len |-> c]

SendRegion(r, t, s) ==
  CASE t.func = "AllReduce" ->
         LET c == AllreduceSendChunk(r, s) IN Region("buf", c * t.chunk, ChunkElemCount(t, c))
    [] t.func = "Broadcast"     -> Region("buf", 0, t.count)
    [] t.func = "AllGather"     -> Region("buf", AllGatherSendBlock(r, s) * t.stride, t.count)
    [] t.func = "Reduce"        -> Region("tmp", 0, t.count)
    [] t.func = "ReduceScatter" -> Region(ReduceScatterSendBuf(s), 0, t.count)

RecvRegion(r, t, s) ==
  CASE t.func = "AllReduce" ->
         LET c == AllreduceRecvChunk(r, s)
         IN  IF s.phase = "ReduceScatter" THEN Region("tmp", 0, ChunkElemCount(t, c))
             ELSE Region("buf", c * t.chunk, ChunkElemCount(t, c))
    [] t.func = "Broadcast"     -> Region("buf", 0, t.count)
    [] t.func = "AllGather"     -> Region("buf", AllGatherRecvBlock(r, s) * t.stride, t.count)
    [] t.func = "Reduce"        -> Region("tmp", t.count, t.count)
    [] t.func = "ReduceScatter" -> Region(ReduceScatterRecvBuf(s), 0, t.count)

-----------------------------------------------------------------------------
(* A rank's handlers, as functions of its state.  s.out and s.in are the   *)
(* edges the rank writes and reads while the handler runs.                 *)

\* memcpy, PerformReduce and ApplyAverage on a region: the element at
\* offset k of the region becomes F(k).
Store(s, g, F(_)) ==
  [s EXCEPT ![g.base] = [i \in DOMAIN @ |-> IF i - g.at \in 0 .. g.len - 1 THEN F(i - g.at) ELSE @[i]]]

At(s, g, k) == s[g.base][g.at + k]

PerformReduce(s, from, to) ==
  Store(s, to, LAMBDA k : At(s, to, k) (+) At(s, from, k))

ApplyAverageIf(cond, s, g) ==
  IF cond THEN Store(s, g, LAMBDA k : Averaged(At(s, g, k))) ELSE s

\* PushBuffer(Writable): TrySend moves what the edge has room for.
PushWritable(r, t, s) ==
  LET g == SendRegion(r, t, s)
      moved == Min({Capacity - Len(s.out), g.len - s.sendProgress})
  IN  IF s.sendDone THEN s
      ELSE [s EXCEPT !.out = @ \o [i \in 1 .. moved |-> At(s, g, s.sendProgress + i - 1)],
                     !.sendProgress = @ + moved,
                     !.sendDone = s.sendProgress + moved = g.len]

\* PushBuffer(Readable): TryRecv moves what the edge holds.
PushReadable(r, t, s) ==
  LET g == RecvRegion(r, t, s)
      moved == Min({Len(s.in), g.len - s.recvProgress})
      got == Region(g.base, g.at + s.recvProgress, moved)
  IN  IF s.recvDone THEN s
      ELSE [Store(s, got, LAMBDA k : s.in[k + 1])
              EXCEPT !.in = SubSeq(@, moved + 1, Len(@)),
                     !.recvProgress = @ + moved,
                     !.recvDone = s.recvProgress + moved = g.len]

\* BeginPhase: reset progress and done flags, skip the sides the phase does
\* not use or that have no bytes, then push both sides at once.
BeginPhase(r, t, s, phase) ==
  LET p == [s EXCEPT !.phase = phase, !.sendProgress = 0, !.recvProgress = 0]
      q == [p EXCEPT !.sendDone = phase \in {"Recv", "Done"} \/ SendRegion(r, t, p).len = 0,
                     !.recvDone = phase \in {"Send", "Done"} \/ RecvRegion(r, t, p).len = 0]
  IN  PushReadable(r, t, PushWritable(r, t, q))

\* One turn of each Complete* loop, entered with both sides done.
CompleteBroadcast(r, t, s) ==
  BeginPhase(r, t, s, IF s.phase = "Recv" /\ GetNextRank(r) # t.root THEN "Send" ELSE "Done")

CompleteAllGather(r, t, s) ==
  LET next == [s EXCEPT !.step = @ + 1]
  IN  BeginPhase(r, t, next, IF next.step < n - 1 THEN "Exchange" ELSE "Done")

CompleteReduce(r, t, s) ==
  LET summed == PerformReduce(s, Region("tmp", t.count, t.count), Region("tmp", 0, t.count))
      out    == Region("buf", 0, t.count)
      stored == ApplyAverageIf(t.op = "AVG", Store(summed, out, LAMBDA k : summed.tmp[k]), out)
  IN  IF s.phase # "Recv" THEN BeginPhase(r, t, s, "Done")
      ELSE IF r = t.root THEN BeginPhase(r, t, stored, "Done")
      ELSE BeginPhase(r, t, summed, "Send")

CompleteReduceScatter(r, t, s) ==
  LET incoming == RecvRegion(r, t, s)
      block    == ReduceScatterInputChunk(r, s)
      summed   == Store(s, incoming, LAMBDA k : At(s, incoming, k) (+) Input(r, block * t.stride + k))
      next     == [summed EXCEPT !.step = @ + 1]
      out      == Region("buf", 0, t.count)
      stored   == ApplyAverageIf(t.op = "AVG", Store(next, out, LAMBDA k : At(next, incoming, k)), out)
  IN  IF next.step < n - 1 THEN BeginPhase(r, t, next, "Exchange")
      ELSE BeginPhase(r, t, stored, "Done")

CompleteAllreduce(r, t, s) ==
  LET totalOps == AllreduceUnits(t) * (n - 1)
      chunk  == AllreduceRecvChunk(r, s)
      mine   == Region("buf", chunk * t.chunk, ChunkElemCount(t, chunk))
      summed == ApplyAverageIf(t.op = "AVG" /\ AllreduceStepInUnit(s) = n - 2,
                               PerformReduce(s, RecvRegion(r, t, s), mine), mine)
      next   == [(IF s.phase = "ReduceScatter" THEN summed ELSE s) EXCEPT !.step = @ + 1]
  IN  IF next.step < totalOps THEN BeginPhase(r, t, next, s.phase)
      ELSE IF s.phase = "ReduceScatter"
      THEN BeginPhase(r, t, [next EXCEPT !.phase = "AllGather", !.step = 0], "AllGather")
      ELSE [next EXCEPT !.phase = "Done"]

CompleteOnce(r, t, s) ==
  CASE t.func = "AllReduce"     -> CompleteAllreduce(r, t, s)
    [] t.func = "Broadcast"     -> CompleteBroadcast(r, t, s)
    [] t.func = "AllGather"     -> CompleteAllGather(r, t, s)
    [] t.func = "Reduce"        -> CompleteReduce(r, t, s)
    [] t.func = "ReduceScatter" -> CompleteReduceScatter(r, t, s)

\* The while of each Complete*: a phase that finds its edges ready is over
\* before BeginPhase returns.
RECURSIVE Complete(_, _, _)
Complete(r, t, s) ==
  IF s.sendDone /\ s.recvDone /\ s.phase # "Done" THEN Complete(r, t, CompleteOnce(r, t, s)) ELSE s

-----------------------------------------------------------------------------
(* CollectiveInit.                                                         *)

\* The user's recv_buf holds (n * stride) elements at most; a Broadcast
\* finds its input there, at the root.
UserBuffer(r, t) ==
  [i \in 0 .. n * t.stride - 1 |->
     IF t.func = "Broadcast" /\ r = t.root /\ i < t.count THEN Input(r, i) ELSE Garbage]

\* A fresh CollOpState over the task's buffers; temp_buffer is zero-filled.
FreshState(r, t) ==
  [phase |-> "Unstarted", step |-> 0,
   sendProgress |-> 0, recvProgress |-> 0, sendDone |-> TRUE, recvDone |-> TRUE,
   buf |-> UserBuffer(r, t), tmp |-> [i \in 0 .. 2 * Max({t.count, t.chunk}) - 1 |-> Garbage]]

\* What every *Init copies before the first phase, and the first phase.
FirstCopy(r, t, s) ==
  CASE t.func = "AllReduce"     -> Store(s, Region("buf", 0, t.count), LAMBDA k : Input(r, k))
    [] t.func = "Broadcast"     -> s
    [] t.func = "AllGather"     -> Store(s, Region("buf", r * t.stride, t.count), LAMBDA k : Input(r, k))
    [] t.func = "Reduce"        -> Store(s, Region("tmp", 0, t.count), LAMBDA k : Input(r, k))
    [] t.func = "ReduceScatter" ->
         Store(s, Region("buf", 0, t.count), LAMBDA k : Input(r, GetPrevRank(r) * t.stride + k))

FirstPhase(r, t) ==
  CASE t.func = "AllReduce"     -> "ReduceScatter"
    [] t.func = "Broadcast"     -> IF r = t.root THEN "Send" ELSE "Recv"
    [] t.func = "Reduce"        -> IF RootPosition(r, t) = 1 THEN "Send" ELSE "Recv"
    [] OTHER                    -> "Exchange"

\* With one rank only the copy is left (Reduce and ReduceScatter copy
\* send_buf straight to recv_buf, AllReduce averages in place).
SingleRank(t, s) ==
  LET out == Region("buf", 0, t.count)
      copied == IF t.func \in {"Reduce", "ReduceScatter"} THEN Store(s, out, LAMBDA k : Input(0, k))
                ELSE FirstCopy(0, t, s)
  IN  [ApplyAverageIf(t.op = "AVG" /\ t.func = "AllReduce", copied, out) EXCEPT !.phase = "Done"]

CollectiveInit(r, t, s) ==
  IF t.count = 0 THEN [s EXCEPT !.phase = "Done"]
  ELSE IF n = 1 THEN SingleRank(t, s)
  ELSE Complete(r, t, BeginPhase(r, t, [FirstCopy(r, t, s) EXCEPT !.phase = FirstPhase(r, t)], FirstPhase(r, t)))

\* CollectiveStep: push the side the event is about, then go on as far as
\* the transports allow.
CollectiveStep(r, t, s, event) ==
  IF s.phase = "Done" THEN s
  ELSE Complete(r, t, IF event = "Writable" THEN PushWritable(r, t, s) ELSE PushReadable(r, t, s))

-----------------------------------------------------------------------------
(* The executor's view: Init and Step of each rank's current task.         *)

CollectiveDone(r) == st[r].phase = "Done"

Idle == [phase |-> "Done"]

Init ==
  /\ \E c \in Cases : n = c.n /\ tasks = c.tasks
  /\ cur = [r \in Ranks |-> 0]
  /\ st = [r \in Ranks |-> Idle]
  /\ edge = [r \in Ranks |-> << >>]
  /\ results = [r \in Ranks |-> << >>]

WithEdges(r, s) == s @@ [out |-> edge[r], in |-> edge[GetPrevRank(r)]]

\* Run handler's effect s of rank r: write back its edges, keep the result
\* of a task that is now done.
Finish(r, s) ==
  /\ edge' = [edge EXCEPT ![r] = s.out, ![GetPrevRank(r)] = IF n = 1 THEN s.out ELSE s.in]
  /\ st' = [st EXCEPT ![r] = IF s.phase = "Done" THEN Idle
                             ELSE [f \in DOMAIN s \ {"out", "in"} |-> s[f]]]
  /\ results' = IF s.phase = "Done" THEN [results EXCEPT ![r] = Append(@, s.buf)] ELSE results
  /\ UNCHANGED <<n, tasks>>

\* The executor takes the rank's next task and initialises it.
Start(r) ==
  /\ CollectiveDone(r) /\ cur[r] < Len(tasks)
  /\ cur' = [cur EXCEPT ![r] = @ + 1]
  /\ LET t == tasks[cur[r] + 1]
     IN  Finish(r, CollectiveInit(r, t, WithEdges(r, FreshState(r, t))))

\* The executor reports a transport ready.
Step(r, event) ==
  /\ st[r].phase \notin {"Done", "Failed"}
  /\ Finish(r, CollectiveStep(r, tasks[cur[r]], WithEdges(r, st[r]), event))
  /\ UNCHANGED cur

Finished(r) == CollectiveDone(r) /\ cur[r] = Len(tasks)
Failed(r) == st[r].phase = "Failed"

\* TrySend or TryRecv returns false in CollectiveInit or CollectiveStep: the
\* handler returns false and the executor drops the channel's other tasks.
Fail(r) ==
  /\ ~Failed(r) /\ ~Finished(r)
  /\ st' = [st EXCEPT ![r].phase = "Failed"]
  /\ UNCHANGED <<n, tasks, cur, edge, results>>

AllDone == \A r \in Ranks : Finished(r)
SomeFailed == \E r \in Ranks : Failed(r)

\* The executors have returned.
Quiet == (\A r \in Ranks : Failed(r) \/ Finished(r)) /\ UNCHANGED vars

RankStep(r) == Start(r) \/ \E event \in {"Writable", "Readable"} : Step(r, event)

Next == (\E r \in Ranks : RankStep(r) \/ Fail(r)) \/ Quiet

Spec == Init /\ [][Next]_vars

\* The rank has something to do: a task to take, or a side that can move.
CanMove(r) ==
  \/ CollectiveDone(r) /\ cur[r] < Len(tasks)
  \/ /\ st[r].phase \notin {"Done", "Failed"}
     /\ \/ ~st[r].sendDone /\ Len(edge[r]) < Capacity
        \/ ~st[r].recvDone /\ edge[GetPrevRank(r)] # << >>

Moved(r) == cur'[r] # cur[r] \/ st'[r] # st[r]

\* Weak fairness of each rank's executor: it takes the next task, and
\* reports a transport that stays ready (a polling executor calls again, an
\* event-driven one is woken: NoLostWakeup of module ShmRing).  This is
\* WF_vars(RankStep(r)) with its ENABLED written out as CanMove(r).
MaxRanks == Max({c.n : c \in Cases})
Fairness ==
  \A r \in 0 .. MaxRanks - 1 :
    []<>(r \in Ranks => ~CanMove(r)) \/ []<><<r \in Ranks /\ Moved(r)>>_vars

FairSpec == Spec /\ Fairness

-----------------------------------------------------------------------------
(* What the collectives promise.                                           *)

\* The sum over all ranks of their input i, divided once if AVG.
SumOver(t, i) ==
  LET sum == SetToBag({<<r, i>> : r \in Ranks})
  IN  IF t.op = "AVG" /\ (n > 1 \/ t.func = "AllReduce") THEN Averaged(sum) ELSE sum

Expected(r, t) ==
  [i \in 0 .. n * t.stride - 1 |->
     CASE t.func = "AllReduce" /\ i < t.count                   -> SumOver(t, i)
       [] t.func = "Broadcast" /\ i < t.count                   -> Input(t.root, i)
       [] t.func = "AllGather" /\ (i % t.stride) < t.count      -> Input(i \div t.stride, i % t.stride)
       [] t.func = "Reduce" /\ i < t.count /\ r = t.root        -> SumOver(t, i)
       [] t.func = "ReduceScatter" /\ i < t.count               -> SumOver(t, r * t.stride + i)
       [] OTHER                                                 -> Garbage]

Active(r) == st[r].phase \notin {"Done", "Failed"}

\* Every cursor of a rank's state stays inside its region and every edge
\* inside its capacity.
TypeOK ==
  /\ cur \in [Ranks -> 0 .. Len(tasks)]
  /\ \A r \in Ranks : Len(edge[r]) <= Capacity
  /\ \A r \in Ranks : Active(r) =>
       LET s == st[r] t == tasks[cur[r]]
       IN  /\ s.phase \in {"ReduceScatter", "AllGather", "Send", "Recv", "Exchange"}
           /\ s.sendProgress \in 0 .. SendRegion(r, t, s).len
           /\ s.recvProgress \in 0 .. RecvRegion(r, t, s).len

\* Whatever the skew between the ranks, and even if some rank fails, every
\* task a rank completes left exactly the promised elements in recv_buf and
\* nothing beside them: each input summed once, averaged once and last.
Correct ==
  \A r \in Ranks : \A k \in DOMAIN results[r] : results[r][k] = Expected(r, tasks[k])

\* The elements being received never land on elements still to be sent
\* (recv_buf is sent from and received into by the same phase).
NoAliasing ==
  \A r \in Ranks : Active(r) =>
    LET s == st[r] t == tasks[cur[r]]
        g == SendRegion(r, t, s) h == RecvRegion(r, t, s)
    IN  ~s.sendDone /\ ~s.recvDone =>
          g.base # h.base \/ g.at + g.len <= h.at \/ h.at + h.len <= g.at

\* A task in progress always waits for a transport: the Complete* loop never
\* returns with both sides done, after which no event would come.
StepPending == \A r \in Ranks : Active(r) => ~(st[r].sendDone /\ st[r].recvDone)

\* What one rank sent for a task is exactly what its neighbour consumed: no
\* element is left to be taken for the next plan's data.
Drained == AllDone => \A r \in Ranks : edge[r] = << >>

\* Unless a transport fails, all ranks finish every task.
Completes == <>(AllDone \/ SomeFailed)
=============================================================================
