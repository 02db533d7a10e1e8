--------------------------- MODULE DynamicExecutor ---------------------------
(***************************************************************************)
(* DynamicMultiThreadExecutor on all ranks: which channel executes which   *)
(* slice is decided while the plan runs.  On rank 0 an idle channel claims *)
(* the next slices under mutex_ and tells the other ranks with a ring      *)
(* Broadcast on that same channel; every rank then executes those slices   *)
(* on that channel.  Nothing but the order of the bytes on an edge tells a *)
(* control message from a slice's data, or one run from the next.          *)
(*                                                                         *)
(* How Run hands the plan to its workers and waits for them is module      *)
(* WorkerPool; how a collective moves its data is module RingCollective.   *)
(* Here a collective is one item on every edge it uses: an Exchange sends  *)
(* to the next rank and receives from the previous one in any order, a     *)
(* Broadcast is received before it is passed on.                           *)
(***************************************************************************)
EXTENDS Integers, Sequences, FiniteSetsExt

CONSTANTS
  N,           \* world_size
  Channels,    \* the channel ids
  BatchSize,   \* OCCL_DYNAMIC_BATCH
  Capacity,    \* items an edge can hold
  Runs,        \* sequences of plans to execute; a plan is a sequence of slices
  Faulty,      \* the members of Runs in which ExecuteTask may fail
  MaxFailed    \* bound: how many workers ExecuteTask fails

Ranks == 0 .. N - 1
GetNextRank(r) == (r + 1) % N
GetPrevRank(r) == (r - 1 + N) % N

ASSUME DynamicAssumption ==
  /\ N \in Nat \ {0} /\ BatchSize \in Nat \ {0} /\ Capacity \in Nat \ {0}
  /\ Channels # {} /\ IsFiniteSet(Channels)
  /\ Runs \subseteq Seq(Seq([func : {"Exchange", "Broadcast"}, root : Ranks]))
  /\ Faulty \subseteq Runs /\ MaxFailed \in Nat

VARIABLES
  plans,       \* the plans, the same on every rank
  run,         \* run[r]: index of the plan rank r is in, 0 before the first
  nextSlice,   \* rank 0's next_slice_
  pc,          \* pc[r][c]: where the worker of channel c is in ProcessChannel
  msg,         \* msg[r][c]: its ControlMessage
  pos,         \* pos[r][c]: slices of the message it has executed
  sent, rcvd,  \* sent[r][c], rcvd[r][c]: sides of the current task done
  edge,        \* edge[r][c]: items in flight from r to the next rank
  claims,      \* history: claims[c]: the tasks channel c is to execute
  log          \* history: log[r][c]: the tasks it has executed

vars == <<plans, run, nextSlice, pc, msg, pos, sent, rcvd, edge, claims, log>>

NoMsg == [type |-> "None", start |-> 0, count |-> 0]

Each(x) == [r \in Ranks |-> [c \in Channels |-> x]]

Init ==
  /\ plans \in Runs
  /\ run = [r \in Ranks |-> 0] /\ nextSlice = 0
  /\ pc = Each("idle") /\ msg = Each(NoMsg) /\ pos = Each(0)
  /\ sent = Each(FALSE) /\ rcvd = Each(FALSE)
  /\ edge = Each(<< >>) /\ claims = [c \in Channels |-> << >>] /\ log = Each(<< >>)

Slices(r) == plans[run[r]]

-----------------------------------------------------------------------------
(* The caller: Run.                                                        *)

WorkersIdle(r) == \A c \in Channels : pc[r][c] = "idle"

\* What Run leaves in next_slice_ before it wakes the workers.
ResetSlice == 0

\* Run of the next plan, after the one before has returned: an empty plan
\* wakes nobody.  On rank 0 a worker begins with a claim, elsewhere with the
\* control Broadcast.
Run(r) ==
  /\ WorkersIdle(r) /\ run[r] < Len(plans)
  /\ run' = [run EXCEPT ![r] = @ + 1]
  /\ IF plans[run[r] + 1] = << >> THEN UNCHANGED <<pc, nextSlice>>
     ELSE /\ pc' = [pc EXCEPT ![r] = [c \in Channels |-> IF r = 0 THEN "claim" ELSE "control"]]
          /\ nextSlice' = IF r = 0 THEN ResetSlice ELSE nextSlice
  /\ UNCHANGED <<plans, msg, pos, sent, rcvd, edge, claims, log>>

-----------------------------------------------------------------------------
(* A worker: ProcessChannel.                                               *)

\* std::min(plan.slices.size() - next_slice_, BatchSize()).
ClaimCount == Min({Len(plans[run[0]]) - nextSlice, BatchSize})

\* The n-th task of a channel, by what sets it apart from the others.
ControlTask(k, m, n) == [tag |-> "control", run |-> k, index |-> 0, msg |-> m, nth |-> n]
SliceTask(k, i, n) == [tag |-> "slice", run |-> k, index |-> i, msg |-> NoMsg, nth |-> n]

\* What a claim makes every rank execute on the channel: a control Broadcast,
\* then the slices its message names.
Tasks(k, m, n) ==
  [j \in 1 .. m.count + 1 |-> IF j = 1 THEN ControlTask(k, m, n + 1) ELSE SliceTask(k, m.start + j - 2, n + j)]

\* Mutant: next_slice_ moves by one, whatever the count.
ClaimByOne(c) ==
  /\ pc[0][c] = "claim"
  /\ nextSlice' = nextSlice + (IF ClaimCount = 0 THEN 0 ELSE 1)
  /\ msg' = [msg EXCEPT ![0][c] = [type |-> IF ClaimCount = 0 THEN "End" ELSE "Batch",
                                   start |-> nextSlice, count |-> ClaimCount]]
  /\ pc' = [pc EXCEPT ![0][c] = "control"]
  /\ claims' = [claims EXCEPT ![c] = @ \o Tasks(run[0], msg'[0][c], Len(@))]
  /\ UNCHANGED <<plans, run, pos, sent, rcvd, edge, log>>

\* The message: none left makes it END.
ClaimMessage ==
  IF ClaimCount = 0 THEN [type |-> "End", start |-> 0, count |-> 0]
  ELSE [type |-> "Batch", start |-> nextSlice, count |-> ClaimCount]

\* Rank 0 claims slices under the mutex.
Claim(c) ==
  /\ pc[0][c] = "claim"
  /\ nextSlice' = nextSlice + ClaimCount
  /\ msg' = [msg EXCEPT ![0][c] = ClaimMessage]
  /\ pc' = [pc EXCEPT ![0][c] = "control"]
  /\ claims' = [claims EXCEPT ![c] = @ \o Tasks(run[0], ClaimMessage, Len(@))]
  /\ UNCHANGED <<plans, run, pos, sent, rcvd, edge, log>>

\* The slice the worker is to execute next (an index into plan.slices).
Index(r, c) == msg[r][c].start + pos[r][c]

\* The task a worker is in: the control Broadcast from rank 0, or a slice.
Task(r, c) ==
  IF pc[r][c] = "control" THEN [func |-> "Broadcast", root |-> 0]
  ELSE Slices(r)[Index(r, c) + 1]

\* Mutant: a Broadcast is passed on to its root.
SendsAround(r, t) == N > 1

\* Mutant: the last rank but one keeps a Broadcast to itself.
SendsShort(r, t) == N > 1 /\ (t.func = "Exchange" \/ GetNextRank(GetNextRank(r)) # t.root)

Sends(r, t) == N > 1 /\ (t.func = "Exchange" \/ GetNextRank(r) # t.root)

Recvs(r, t) == N > 1 /\ (t.func = "Exchange" \/ r # t.root)

\* What the task puts on an edge: all but the message is history.
Item(r, c) ==
  IF pc[r][c] = "control" THEN ControlTask(run[r], msg[r][c], Len(log[r][c]) + 1)
  ELSE SliceTask(run[r], Index(r, c), Len(log[r][c]) + 1)

InTask(r, c) ==
  \/ pc[r][c] = "control"
  \/ pc[r][c] = "slice" /\ Index(r, c) < Len(Slices(r))

TaskSend(r, c) ==
  /\ InTask(r, c)
  /\ Sends(r, Task(r, c)) /\ ~sent[r][c]
  /\ Task(r, c).func = "Broadcast" /\ Recvs(r, Task(r, c)) => rcvd[r][c]
  /\ Len(edge[r][c]) < Capacity
  /\ edge' = [edge EXCEPT ![r][c] = Append(@, Item(r, c))]
  /\ sent' = [sent EXCEPT ![r][c] = TRUE]
  /\ UNCHANGED <<plans, run, nextSlice, pc, msg, pos, rcvd, claims, log>>

\* A control Broadcast writes what arrives into message.
TaskRecv(r, c) ==
  /\ InTask(r, c)
  /\ Recvs(r, Task(r, c)) /\ ~rcvd[r][c]
  /\ edge[GetPrevRank(r)][c] # << >>
  /\ edge' = [edge EXCEPT ![GetPrevRank(r)][c] = Tail(@)]
  /\ msg' = IF pc[r][c] = "control" THEN [msg EXCEPT ![r][c] = Head(edge[GetPrevRank(r)][c]).msg] ELSE msg
  /\ rcvd' = [rcvd EXCEPT ![r][c] = TRUE]
  /\ UNCHANGED <<plans, run, nextSlice, pc, pos, sent, claims, log>>

TaskDone(r, c) ==
  /\ InTask(r, c)
  /\ Sends(r, Task(r, c)) => sent[r][c]
  /\ Recvs(r, Task(r, c)) => rcvd[r][c]

\* The while of ProcessChannel begins again.
LoopStart(r) == IF r = 0 THEN "claim" ELSE "control"

\* The control Broadcast is over: END leaves ProcessChannel and reports.
AfterControl(r, c) ==
  /\ pc[r][c] = "control" /\ TaskDone(r, c)
  /\ pc' = [pc EXCEPT ![r][c] = IF msg[r][c].type = "End" THEN "idle" ELSE "slice"]
  /\ pos' = [pos EXCEPT ![r][c] = 0]
  /\ sent' = [sent EXCEPT ![r][c] = FALSE] /\ rcvd' = [rcvd EXCEPT ![r][c] = FALSE]
  /\ log' = [log EXCEPT ![r][c] = Append(@, Item(r, c))]
  /\ UNCHANGED <<plans, run, nextSlice, msg, edge, claims>>

\* A slice is over: the next one of the message, or the next message.
AfterSlice(r, c) ==
  /\ pc[r][c] = "slice" /\ TaskDone(r, c)
  /\ log' = [log EXCEPT ![r][c] = Append(@, Item(r, c))]
  /\ pos' = [pos EXCEPT ![r][c] = @ + 1]
  /\ pc' = [pc EXCEPT ![r][c] = IF pos[r][c] + 1 < msg[r][c].count THEN "slice" ELSE LoopStart(r)]
  /\ sent' = [sent EXCEPT ![r][c] = FALSE] /\ rcvd' = [rcvd EXCEPT ![r][c] = FALSE]
  /\ UNCHANGED <<plans, run, nextSlice, msg, edge, claims>>

FailedWorkers == {w \in Ranks \X Channels : pc[w[1]][w[2]] = "failed"}

\* The worker gives up its channel: the message names a slice out of range,
\* or ExecuteTask fails.  Run will return false; this rank goes no further.
Fail(r, c) ==
  /\ \/ plans \in Faulty /\ Cardinality(FailedWorkers) < MaxFailed /\ InTask(r, c)
     \/ pc[r][c] = "slice" /\ Index(r, c) >= Len(Slices(r))
  /\ pc' = [pc EXCEPT ![r][c] = "failed"]
  /\ UNCHANGED <<plans, run, nextSlice, msg, pos, sent, rcvd, edge, claims, log>>

-----------------------------------------------------------------------------
Returned(r) == WorkersIdle(r) /\ run[r] = Len(plans)

Finished == (\A r \in Ranks : Returned(r)) /\ UNCHANGED vars

WorkerStep(r, c) ==
  \/ TaskSend(r, c) \/ TaskRecv(r, c) \/ AfterControl(r, c) \/ AfterSlice(r, c)

Next ==
  \/ \E r \in Ranks : Run(r)
  \/ \E c \in Channels : Claim(c)
  \/ \E r \in Ranks, c \in Channels : WorkerStep(r, c) \/ Fail(r, c)
  \/ Finished

Spec == Init /\ [][Next]_vars

\* Every thread is scheduled.
Fairness ==
  /\ \A r \in Ranks : WF_vars(Run(r))
  /\ \A c \in Channels : WF_vars(Claim(c))
  /\ \A r \in Ranks, c \in Channels : WF_vars(WorkerStep(r, c))

FairSpec == Spec /\ Fairness

-----------------------------------------------------------------------------
\* Every variable stays in its type.
TypeOK ==
  /\ plans \in Runs
  /\ run \in [Ranks -> 0 .. Len(plans)] /\ nextSlice \in Nat
  /\ pc \in [Ranks -> [Channels -> {"idle", "claim", "control", "slice", "failed"}]]
  /\ \A r \in Ranks, c \in Channels : msg[r][c].type \in {"None", "Batch", "End"} /\ Len(edge[r][c]) <= Capacity
  /\ sent \in [Ranks -> [Channels -> BOOLEAN]] /\ rcvd \in [Ranks -> [Channels -> BOOLEAN]]

\* The bytes a task is about to receive are the bytes its neighbour sent for
\* the same task of the same run: control is never read as data, nor data of
\* one slice or run as another's (no byte on the edge says which it is).
Framed ==
  \A r \in Ranks, c \in Channels :
    InTask(r, c) /\ Recvs(r, Task(r, c)) /\ ~rcvd[r][c] /\ edge[GetPrevRank(r)][c] # << >> =>
      LET item == Head(edge[GetPrevRank(r)][c])
      IN  /\ item.tag = pc[r][c] /\ item.run = run[r]
          /\ item.tag = "slice" => item.index = Index(r, c)

\* On every channel all ranks execute the same tasks in the same order.
Agreement ==
  \A r, q \in Ranks, c \in Channels : \A k \in DOMAIN log[r][c] \cap DOMAIN log[q][c] :
    log[r][c][k] = log[q][c][k]

\* The places in the lists of tasks t, one for each channel, of slice i of
\* plan k.
Places(t, k, i) ==
  UNION {{<<c, x>> : x \in {y \in DOMAIN t[c] : t[c][y].tag = "slice" /\ t[c][y].run = k /\ t[c][y].index = i}} :
         c \in Channels}

Executions(r, k, i) == Places(log[r], k, i)

\* No rank executes a slice twice, and Run returns true only when every
\* slice of the plan was executed: two channels never claim the same slice
\* and none falls between two claims or between two runs.
ExactlyOnce ==
  \A r \in Ranks : \A k \in 1 .. run[r] : \A i \in 0 .. Len(plans[k]) - 1 :
    /\ Cardinality(Executions(r, k, i)) <= 1
    /\ k < run[r] \/ WorkersIdle(r) => Executions(r, k, i) # {}

\* The decisions as a whole: rank 0's claims, passed on as control messages,
\* make all ranks execute the same slices, each of them once.
SlicesOnce == TypeOK /\ Agreement /\ ExactlyOnce

\* When every rank has returned, the edges hold nothing that the next plan,
\* static or dynamic, would take for its own data.
Drained == (\A r \in Ranks : Returned(r)) => \A r \in Ranks, c \in Channels : edge[r][c] = << >>

\* Every edge carries what its receiver expects, to the last item.
EdgesFramed == Framed /\ Drained

\* Unless a task fails every Run returns on every rank: each channel gets its
\* END, and no circle of channels waits for each other's bytes.
Completes == <>(FailedWorkers # {} \/ \A r \in Ranks : Returned(r))
=============================================================================
