------------------------------ MODULE WorkerPool ------------------------------
(***************************************************************************)
(* MultiThreadExecutor: one caller thread and one worker thread per        *)
(* channel, which meet in Run through mutex_, work_ready_ and work_done_.  *)
(* DynamicMultiThreadExecutor uses the same protocol line for line; only   *)
(* what a worker does with its channel differs (module DynamicExecutor).   *)
(*                                                                         *)
(* A critical section of mutex_ is one step.  A condition variable wait is *)
(* the check of its predicate (one step), a sleep that only a notify or a  *)
(* spurious wake-up ends, and the check again.  The caller performs the    *)
(* calls of script in order: Run of a plan with some channels, each with a *)
(* number of tasks, or Shutdown.  A task either succeeds or fails, as the  *)
(* transports decide.                                                      *)
(***************************************************************************)
EXTENDS Integers, Sequences, FiniteSets

CONSTANTS
  MaxChannels,   \* most channels of a plan
  Scripts        \* the sequences of calls the caller may make

\* A call, and for a Run the number of tasks on each channel of its plan.
Call == [op : {"Run", "Shutdown"}, tasks : Seq(Nat)]

ASSUME PoolAssumption ==
  /\ MaxChannels \in Nat
  /\ \A sc \in Scripts :
       /\ sc \in Seq(Call)
       /\ \A k \in DOMAIN sc : Len(sc[k].tasks) <= MaxChannels

VARIABLES
  script, call,      \* the calls, and the index of the one under way (0: none yet)
  cPc,               \* where the caller is
  workers,           \* workers_.size()
  batchId,           \* batch_id_
  plan,              \* plan_: the call whose plan it points to, 0 for none
  active, completed, \* active_channels_, completed_channels_
  success,           \* batch_success_
  stop,              \* stop_
  wPc,               \* wPc[i]: where worker i is
  wDone,             \* wDone[i]: its completed_batch_id
  wPlan, wBatch,     \* its copies of plan_ and batch_id_
  wTask, wSuccess,   \* tasks of its channel done, and its success
  ran,               \* history: ran[k]: <<channel, task>> executed, with outcome
  returned           \* history: what each Run returned

callerVars == <<script, call, cPc, workers, returned>>
sharedVars == <<batchId, plan, active, completed, success, stop>>
workerVars == <<wPc, wDone, wPlan, wBatch, wTask, wSuccess>>
vars == <<callerVars, sharedVars, workerVars, ran>>

\* Worker i serves channel i (channel_id = i - 1).
WorkerIds == 1 .. MaxChannels

Channels(k) == Len(script[k].tasks)

Init ==
  /\ script \in Scripts /\ call = 0 /\ cPc = "idle"
  /\ workers = 0 /\ returned = << >>
  /\ batchId = 0 /\ plan = 0 /\ active = 0 /\ completed = 0
  /\ success = TRUE /\ stop = FALSE
  /\ wPc = [i \in WorkerIds |-> "none"]
  /\ wDone = [i \in WorkerIds |-> 0]
  /\ wPlan = [i \in WorkerIds |-> 0] /\ wBatch = [i \in WorkerIds |-> 0]
  /\ wTask = [i \in WorkerIds |-> 0] /\ wSuccess = [i \in WorkerIds |-> TRUE]
  /\ ran = [k \in DOMAIN script |-> << >>]

\* notify_all of work_ready_: every sleeping worker gets to check again.
WokenWorkers == [i \in WorkerIds |-> IF wPc[i] = "asleep" THEN "check" ELSE wPc[i]]

-----------------------------------------------------------------------------
(* The caller.                                                             *)

BeginCall ==
  /\ cPc = "idle" /\ call < Len(script)
  /\ call' = call + 1
  /\ cPc' = IF script[call + 1].op = "Shutdown" THEN "stop" ELSE "ensure"
  /\ UNCHANGED <<script, workers, returned, sharedVars, workerVars, ran>>

\* Mutant: a new worker has seen no batch at all.
FirstBatchZero == 0

\* What a new worker takes for its last finished batch.
FirstBatchOfWorker == batchId

\* EnsureWorkers: start the missing workers; they believe the batch before
\* the one about to be published is done.
EnsureWorkers ==
  /\ cPc = "ensure"
  /\ workers' = IF workers < Channels(call) THEN Channels(call) ELSE workers
  /\ wPc' = [i \in WorkerIds |-> IF i \in workers + 1 .. workers' THEN "check" ELSE wPc[i]]
  /\ wDone' = [i \in WorkerIds |-> IF i \in workers + 1 .. workers' THEN FirstBatchOfWorker ELSE wDone[i]]
  /\ cPc' = IF Channels(call) = 0 THEN "return" ELSE "publish"
  /\ UNCHANGED <<script, call, returned, sharedVars, wPlan, wBatch, wTask, wSuccess, ran>>

\* Run's critical section up to the first check of the wait: every worker,
\* one beyond the plan's channels too, is to report.
Publish ==
  /\ cPc = "publish"
  /\ plan' = call
  /\ active' = workers
  /\ completed' = 0
  /\ success' = TRUE
  /\ batchId' = batchId + 1
  /\ wPc' = WokenWorkers
  /\ cPc' = "asleep"
  /\ UNCHANGED <<script, call, workers, returned, stop, wDone, wPlan, wBatch, wTask, wSuccess, ran>>

\* work_done_.wait checks again after a wake-up.
CallerCheck ==
  /\ cPc = "check"
  /\ cPc' = IF completed = active THEN "return" ELSE "asleep"
  /\ UNCHANGED <<script, call, workers, returned, sharedVars, workerVars, ran>>

\* Run returns batch_success_ (TRUE for a plan without channels); the plan
\* is a local of Communicator::Flush and dies with it.
Return ==
  /\ cPc = "return"
  /\ returned' = Append(returned, [call |-> call, ok |-> Channels(call) = 0 \/ success])
  /\ cPc' = "idle"
  /\ UNCHANGED <<script, call, workers, sharedVars, workerVars, ran>>

\* StopWorkers: stop_ under the lock, then notify_all.
StopWorkers ==
  /\ cPc = "stop"
  /\ stop' = TRUE
  /\ wPc' = WokenWorkers
  /\ cPc' = "join"
  /\ UNCHANGED <<script, call, workers, returned, batchId, plan, active, completed, success,
                 wDone, wPlan, wBatch, wTask, wSuccess, ran>>

\* Every thread has been joined: clear workers_ and lower stop_.
Join ==
  /\ cPc = "join"
  /\ \A i \in 1 .. workers : wPc[i] = "exited"
  /\ workers' = 0
  /\ wPc' = [i \in WorkerIds |-> "none"]
  /\ stop' = FALSE
  /\ cPc' = "idle"
  /\ UNCHANGED <<script, call, returned, batchId, plan, active, completed, success,
                 wDone, wPlan, wBatch, wTask, wSuccess, ran>>

-----------------------------------------------------------------------------
(* A worker.                                                               *)

\* The predicate of work_ready_.wait.
WorkReady(i) == stop \/ batchId # wDone[i]

\* WorkerLoop takes the lock, or wakes up, and looks at the predicate.
WorkerCheck(i) ==
  /\ wPc[i] = "check"
  /\ \/ /\ ~WorkReady(i)
        /\ wPc' = [wPc EXCEPT ![i] = "asleep"]
        /\ UNCHANGED <<wPlan, wBatch, wTask, wSuccess>>
     \/ /\ stop
        /\ wPc' = [wPc EXCEPT ![i] = "exited"]
        /\ UNCHANGED <<wPlan, wBatch, wTask, wSuccess>>
     \/ /\ WorkReady(i) /\ ~stop
        /\ wPc' = [wPc EXCEPT ![i] = "run"]
        /\ wPlan' = [wPlan EXCEPT ![i] = plan]
        /\ wBatch' = [wBatch EXCEPT ![i] = batchId]
        /\ wTask' = [wTask EXCEPT ![i] = 0]
        /\ wSuccess' = [wSuccess EXCEPT ![i] = TRUE]
  /\ UNCHANGED <<callerVars, sharedVars, wDone, ran>>

\* Mutant: goes on after a failed task.
TasksLeftAnyway(i) == i <= Channels(wPlan[i]) /\ wTask[i] < script[wPlan[i]].tasks[i]

\* The tasks of its channel that worker i has still to execute.
TasksLeft(i) ==
  i <= Channels(wPlan[i]) /\ wSuccess[i] /\ wTask[i] < script[wPlan[i]].tasks[i]

\* ExecuteTask of the next task; a failure breaks the channel's loop.
ExecuteTask(i, ok) ==
  /\ wPc[i] = "run" /\ TasksLeft(i)
  /\ wTask' = [wTask EXCEPT ![i] = @ + 1]
  /\ wSuccess' = [wSuccess EXCEPT ![i] = ok]
  /\ ran' = [ran EXCEPT ![wPlan[i]] = Append(@, [channel |-> i, task |-> wTask[i] + 1, ok |-> ok])]
  /\ UNCHANGED <<callerVars, sharedVars, wPc, wDone, wPlan, wBatch>>

\* Mutants: the last report decides the result; the caller is not notified.
ReportOverwrites(i) ==
  /\ wPc[i] = "run" /\ ~TasksLeft(i)
  /\ success' = wSuccess[i]
  /\ completed' = completed + 1
  /\ wDone' = [wDone EXCEPT ![i] = wBatch[i]]
  /\ cPc' = IF completed' = active /\ cPc = "asleep" THEN "check" ELSE cPc
  /\ wPc' = [wPc EXCEPT ![i] = "check"]
  /\ UNCHANGED <<script, call, workers, returned, batchId, plan, active, stop, wPlan, wBatch, wTask, wSuccess, ran>>

ReportSilently(i) ==
  /\ wPc[i] = "run" /\ ~TasksLeft(i)
  /\ success' = (success /\ wSuccess[i])
  /\ completed' = completed + 1
  /\ wDone' = [wDone EXCEPT ![i] = wBatch[i]]
  /\ wPc' = [wPc EXCEPT ![i] = "check"]
  /\ UNCHANGED <<callerVars, batchId, plan, active, stop, wPlan, wBatch, wTask, wSuccess, ran>>

\* The closing critical section of WorkerLoop.
Report(i) ==
  /\ wPc[i] = "run" /\ ~TasksLeft(i)
  /\ success' = (success /\ wSuccess[i])
  /\ completed' = completed + 1
  /\ wDone' = [wDone EXCEPT ![i] = wBatch[i]]
  /\ cPc' = IF completed' = active /\ cPc = "asleep" THEN "check" ELSE cPc
  /\ wPc' = [wPc EXCEPT ![i] = "check"]
  /\ UNCHANGED <<script, call, workers, returned, batchId, plan, active, stop,
                 wPlan, wBatch, wTask, wSuccess, ran>>

\* A condition variable may wake without a notify.
SpuriousWake ==
  \/ /\ cPc = "asleep"
     /\ cPc' = "check"
     /\ UNCHANGED <<script, call, workers, returned, sharedVars, workerVars, ran>>
  \/ \E i \in WorkerIds :
       /\ wPc[i] = "asleep"
       /\ wPc' = [wPc EXCEPT ![i] = "check"]
       /\ UNCHANGED <<callerVars, sharedVars, wDone, wPlan, wBatch, wTask, wSuccess, ran>>

-----------------------------------------------------------------------------
Finished == cPc = "idle" /\ call = Len(script) /\ UNCHANGED vars

CallerStep == BeginCall \/ EnsureWorkers \/ Publish \/ CallerCheck \/ Return \/ StopWorkers \/ Join

WorkerStep(i) == WorkerCheck(i) \/ (\E ok \in BOOLEAN : ExecuteTask(i, ok)) \/ Report(i)

Next == CallerStep \/ (\E i \in WorkerIds : WorkerStep(i)) \/ SpuriousWake \/ Finished

Spec == Init /\ [][Next]_vars

\* Threads are scheduled and tasks end (Completes of module RingCollective);
\* no spurious wake-up is owed.
Fairness == WF_vars(CallerStep) /\ \A i \in WorkerIds : WF_vars(WorkerStep(i))

FairSpec == Spec /\ Fairness

-----------------------------------------------------------------------------
\* Every variable stays in its type.
TypeOK ==
  /\ script \in Scripts
  /\ call \in 0 .. Len(script)
  /\ cPc \in {"idle", "ensure", "publish", "asleep", "check", "return", "stop", "join"}
  /\ workers \in 0 .. MaxChannels
  /\ batchId \in Nat /\ plan \in 0 .. Len(script)
  /\ active \in 0 .. MaxChannels /\ completed \in 0 .. active
  /\ success \in BOOLEAN /\ stop \in BOOLEAN
  /\ wPc \in [WorkerIds -> {"none", "check", "asleep", "run", "exited"}]
  /\ wDone \in [WorkerIds -> Nat] /\ wBatch \in [WorkerIds -> Nat]
  /\ wPlan \in [WorkerIds -> 0 .. Len(script)]
  /\ wTask \in [WorkerIds -> Nat]
  /\ wSuccess \in [WorkerIds -> BOOLEAN]

\* A worker that holds a plan pointer holds the plan of the Run that is
\* still waiting: Run never returns, and no Shutdown or later Run begins,
\* while a worker may still read the caller's plan (it dies with Flush).
PlanAlive ==
  \A i \in WorkerIds : wPc[i] = "run" => cPc \in {"asleep", "check"} /\ wPlan[i] = call

\* Run waits for exactly the workers that have not reported this batch: no
\* report is missing from completed_channels_, counted twice, or owed to an
\* earlier batch.
ReportsCounted ==
  cPc \in {"asleep", "check"} =>
    completed = active - Cardinality({i \in 1 .. workers : wDone[i] # batchId})

Executed(k, c, t, ok) == \E e \in DOMAIN ran[k] : ran[k][e] = [channel |-> c, task |-> t, ok |-> ok]

\* Run returns true only if every task of every channel of its plan was
\* executed and succeeded, and false only if one failed.
ResultFaithful ==
  \A e \in DOMAIN returned :
    LET k == returned[e].call
        all == UNION {{<<c, t>> : t \in 1 .. script[k].tasks[c]} : c \in 1 .. Channels(k)}
    IN  IF returned[e].ok
        THEN \A p \in all : Executed(k, p[1], p[2], TRUE)
        ELSE \E p \in all : Executed(k, p[1], p[2], FALSE)

\* A channel's tasks are executed at most once, in order, by one worker, and
\* none after a failed one.
OncePerTask ==
  \A k \in DOMAIN ran : \A d, e \in DOMAIN ran[k] :
    d < e /\ ran[k][d].channel = ran[k][e].channel =>
      ran[k][d].task < ran[k][e].task /\ ran[k][d].ok

\* A batch as the pool sees it: types, each worker reports a batch once, and
\* executes its channel's tasks once (ProcessChannel and the batch ids).
BatchOnce == TypeOK /\ ReportsCounted /\ OncePerTask

\* Every call returns: no wake-up of a worker or of the caller is lost.
Completes == <>(cPc = "idle" /\ call = Len(script))
=============================================================================
