---------------------------- MODULE ReactorExecutor ---------------------------
(***************************************************************************)
(* ReactorExecutor::Run (executor/reactor_executor.cpp): one reactor       *)
(* thread waits for the edges of tasks that have nothing to do and posts   *)
(* jobs; worker threads run the jobs and post completions, waking the      *)
(* reactor through a level-triggered eventfd.  A task is either watched    *)
(* by the epoll set or owned by a job, and is not protected by a lock.     *)
(***************************************************************************)
EXTENDS TaskEdges

Workers == Threads

VARIABLES
  pc,         \* of the reactor: boot, wait, drain, swap, process, join, returned
  slot,       \* the channel the first loop of Run starts next
  current,    \* current[slot] as a task number; 0 for nullptr
  active,     \* tasks past their init
  inFlight,   \* in_flight
  queue,      \* work_queue_
  completions,\* completions_
  completed,  \* the local queue they are swapped into
  notify,     \* notify_fd_'s counter is not zero
  post,       \* workers that pushed a completion and have not written notify_fd_
  stop,       \* stop_
  gone,       \* workers that have left WorkerLoop
  ok

runVars == <<pc, slot, current, active, inFlight, queue, completions, completed, notify, post, stop, gone, ok>>
vars == <<edgeVars, runVars>>

\* WorkItem without the task, which is current[slot], and Completion.
Job == [slot : Channels, init : BOOLEAN, steps : Seq(Sides)]
Completion == [slot : Channels, init : BOOLEAN, state : {"waiting", "done", "failed"}]

Init ==
  /\ EdgesInit
  /\ pc = "boot"
  /\ slot = 1
  /\ current = [c \in Channels |-> 0]
  /\ active = 0
  /\ inFlight = 0
  /\ queue = << >>
  /\ completions = << >>
  /\ completed = << >>
  /\ notify = FALSE
  /\ post = {}
  /\ stop = FALSE
  /\ gone = {}
  /\ ok = TRUE

-----------------------------------------------------------------------------
(* The reactor *)

\* start_next: the channel's next task, if any, becomes an init job.  The
\* task number counts the tasks started, as task_index does.
StartNext(c, started, flying) ==
  IF started < Len(plan[c])
  THEN /\ current' = [current EXCEPT ![c] = started + 1]
       /\ inFlight' = flying + 1
       /\ queue' = Append(queue, [slot |-> c, init |-> TRUE, steps |-> << >>])
  ELSE /\ current' = [current EXCEPT ![c] = 0]
       /\ inFlight' = flying
       /\ UNCHANGED queue

Boot ==
  /\ pc = "boot"
  /\ StartNext(slot, 0, inFlight)
  /\ IF slot < ChannelCount
     THEN slot' = slot + 1 /\ UNCHANGED pc
     ELSE pc' = "wait" /\ UNCHANGED slot
  /\ UNCHANGED <<edgeVars, active, completions, completed, notify, post, stop, gone, ok>>

\* The steps an event loop pass found for a channel, in a job's order.
ReadySteps(c, es) ==
  InOrder({s \in Sides : current[c] # 0 /\ <<c, s>> \in es})

\* The channels whose tasks become step jobs, in slot order.
ToPost(es) == Ascending({c \in Channels : ReadySteps(c, es) # << >>})

\* Mutant: the posted task's edges stay in the set.
UnwatchNone(cs) ==
  /\ ready' = {}
  /\ UNCHANGED reg

\* UnregisterTask of every channel posted; epoll_wait emptied the ready list.
Unwatch(cs) ==
  /\ ready' = {}
  /\ reg' = reg \ (cs \X Sides)

\* epoll_wait and the two loops over what it returned.
Wait ==
  LET es == FetchedEdges
      cs == ToPost(es) IN
  /\ pc = "wait"
  /\ active > 0 \/ inFlight > 0
  /\ ready # {} \/ notify
  /\ nospace' = PollMarks(ready)
  /\ Unwatch({cs[i] : i \in DOMAIN cs})
  /\ inFlight' = inFlight + Len(cs)
  /\ queue' = queue \o [i \in DOMAIN cs |-> [slot |-> cs[i], init |-> FALSE, steps |-> ReadySteps(cs[i], es)]]
  /\ pc' = IF notify THEN "drain" ELSE "wait"
  /\ UNCHANGED <<plan, task, phase, left, snd, sent, arrived, taken, call, slot, current, active,
                 completions, completed, notify, post, stop, gone, ok>>

DrainNotify ==
  /\ pc = "drain"
  /\ notify' = FALSE
  /\ pc' = "swap"
  /\ UNCHANGED <<edgeVars, slot, current, active, inFlight, queue, completions, completed, post, stop, gone, ok>>

\* std::swap(completed, completions_) under the lock.
Swap ==
  /\ pc = "swap"
  /\ completed' = completions
  /\ completions' = << >>
  /\ pc' = "process"
  /\ UNCHANGED <<edgeVars, slot, current, active, inFlight, queue, notify, post, stop, gone, ok>>

\* Mutant: the completions are taken before the notification is drained.
SwapBeforeDrain ==
  \/ /\ pc = "drain"
     /\ completed' = completions
     /\ completions' = << >>
     /\ pc' = "swap"
     /\ UNCHANGED <<edgeVars, slot, current, active, inFlight, queue, notify, post, stop, gone, ok>>
  \/ /\ pc = "swap"
     /\ notify' = FALSE
     /\ pc' = "process"
     /\ UNCHANGED <<edgeVars, slot, current, active, inFlight, queue, completions, completed, post, stop, gone, ok>>

TakeCompletions == DrainNotify \/ Swap

\* Mutant: Run returns without StopWorkers.
AbortPlanNoStop ==
  /\ UnregisterTasks({c \in Channels : current[c] # 0})
  /\ pc' = "returned"
  /\ ok' = FALSE
  /\ UNCHANGED stop

\* abort_plan: unregister what is current, then StopWorkers sets stop_ ...
AbortPlan ==
  /\ UnregisterTasks({c \in Channels : current[c] # 0})
  /\ stop' = TRUE
  /\ pc' = "join"
  /\ ok' = FALSE

Failed ==
  /\ pc = "process" /\ completed # << >> /\ Head(completed).state = "failed"
  /\ completed' = Tail(completed)
  /\ inFlight' = inFlight - 1
  /\ AbortPlan
  /\ UNCHANGED <<plan, task, phase, moveVars, arrived, call, slot, current, active, queue, completions,
                 notify, post, gone>>

\* ... joins them and empties the queues; Run returns false.
Join ==
  /\ pc = "join"
  /\ gone = Workers
  /\ queue' = << >>
  /\ completions' = << >>
  /\ stop' = FALSE
  /\ pc' = "returned"
  /\ UNCHANGED <<edgeVars, slot, current, active, inFlight, completed, notify, post, gone, ok>>

\* The task has nothing to do for now: watch its edges again.
Waiting ==
  LET done == Head(completed) IN
  /\ pc = "process" /\ completed # << >> /\ done.state = "waiting"
  /\ completed' = Tail(completed)
  /\ inFlight' = inFlight - 1
  /\ IF CanRegister(done.slot)
     THEN /\ RegisterTask(done.slot)
          /\ active' = IF done.init THEN active + 1 ELSE active
          /\ UNCHANGED <<pc, ok, stop>>
     ELSE /\ AbortPlan
          /\ UNCHANGED <<nospace, active>>
  /\ UNCHANGED <<plan, task, phase, left, snd, sent, arrived, taken, call, slot, current, queue, completions,
                 notify, post, gone>>

\* counted: a task whose init left it waiting was added to active.
CountedOut(init) == IF init THEN active ELSE active - 1

Done ==
  LET done == Head(completed) IN
  /\ pc = "process" /\ completed # << >> /\ done.state = "done"
  /\ completed' = Tail(completed)
  /\ active' = CountedOut(done.init)
  /\ StartNext(done.slot, current[done.slot], inFlight - 1)
  /\ UNCHANGED <<edgeVars, pc, slot, completions, notify, post, stop, gone, ok>>

Processed ==
  /\ pc = "process" /\ completed = << >>
  /\ pc' = "wait"
  /\ UNCHANGED <<edgeVars, slot, current, active, inFlight, queue, completions, completed, notify, post, stop, gone, ok>>

\* Nothing active, nothing in flight: Run returns true; the workers stay.
Return ==
  /\ pc = "wait" /\ active = 0 /\ inFlight = 0
  /\ pc' = "returned"
  /\ UNCHANGED <<edgeVars, slot, current, active, inFlight, queue, completions, completed, notify, post, stop, gone, ok>>

Reactor ==
  \/ Boot \/ Wait \/ TakeCompletions \/ Failed \/ Join \/ Waiting \/ Done \/ Processed \/ Return

-----------------------------------------------------------------------------
(* The workers *)

Idle(w) == w \notin gone /\ w \notin post /\ call[w] = NoCall

\* Take a job and call CollectiveInit or the steps.
TakeWork(w) ==
  LET job == Head(queue) IN
  /\ Idle(w) /\ ~stop /\ queue # << >>
  /\ queue' = Tail(queue)
  /\ IF job.init THEN CallInit(w, job.slot, current[job.slot]) ELSE CallSteps(w, job.slot, job.steps)
  /\ UNCHANGED <<plan, snd, sent, arrived, taken, nospace, reg, ready, pc, slot, current, active, inFlight,
                 completions, completed, notify, post, stop, gone, ok>>

\* PostCompletion pushes under the lock ...
PushCompletion(w) ==
  /\ call[w] # NoCall /\ call[w].result \in {"ok", "failed"}
  /\ call' = [call EXCEPT ![w] = NoCall]
  /\ completions' = Append(completions, [slot |-> call[w].slot, init |-> call[w].init,
       state |-> CASE call[w].result = "failed" -> "failed"
                   [] call[w].result = "ok" /\ TaskDone(call[w].slot) -> "done"
                   [] OTHER -> "waiting"])
  /\ post' = post \cup {w}
  /\ UNCHANGED <<plan, task, phase, moveVars, arrived, reg, ready, pc, slot, current, active, inFlight, queue,
                 completed, notify, stop, gone, ok>>

\* ... and writes notify_fd_ after it.
Notify(w) ==
  /\ w \in post
  /\ post' = post \ {w}
  /\ notify' = TRUE
  /\ UNCHANGED <<edgeVars, pc, slot, current, active, inFlight, queue, completions, completed, stop, gone, ok>>

Leave(w) ==
  /\ Idle(w) /\ stop
  /\ gone' = gone \cup {w}
  /\ UNCHANGED <<edgeVars, pc, slot, current, active, inFlight, queue, completions, completed, notify, post, stop, ok>>

WorkerLoop(w) ==
  \/ TakeWork(w) \/ PushCompletion(w) \/ Notify(w) \/ Leave(w)
  \/ Topology(w) /\ UNCHANGED runVars

Next == Reactor \/ (\E w \in Workers : WorkerLoop(w)) \/ (Kernel /\ UNCHANGED runVars)

\* Every thread is scheduled; the neighbours deliver and drain.
Fairness ==
  /\ WF_vars(Reactor)
  /\ \A w \in Workers : WF_vars(WorkerLoop(w))
  /\ \A c \in Channels : WF_vars(Arrive(c) /\ UNCHANGED runVars) /\ WF_vars(Drain(c) /\ UNCHANGED runVars)

Spec == Init /\ [][Next]_vars /\ Fairness

-----------------------------------------------------------------------------
(* Properties *)

\* Every variable has its type (the locals of Run, the queues, the sockets).
TypeOK ==
  /\ EdgesTypeOK
  /\ pc \in {"boot", "wait", "drain", "swap", "process", "join", "returned"}
  /\ slot \in Channels
  /\ \A c \in Channels : current[c] \in 0..Len(plan[c])
  /\ active \in 0..ChannelCount /\ inFlight \in 0..ChannelCount
  /\ queue \in Seq(Job)
  /\ completions \in Seq(Completion) /\ completed \in Seq(Completion)
  /\ post \subseteq Workers /\ gone \subseteq Workers
  /\ {notify, stop, ok} \subseteq BOOLEAN

\* The places a task of channel c can be: queued, in a worker's hands, done
\* with and reported, or watched by the epoll set.
JobsOf(c) == {i \in DOMAIN queue : queue[i].slot = c}
CallsOf(c) == {w \in Workers : call[w] # NoCall /\ call[w].slot = c}
Reports == completions \o completed
ReportsOf(c) == {i \in DOMAIN Reports : Reports[i].slot = c}
Watched(c) == IF EdgesOf(c) \subseteq reg THEN 1 ELSE 0
Places(c) == Cardinality(JobsOf(c)) + Cardinality(CallsOf(c)) + Cardinality(ReportsOf(c)) + Watched(c)

\* The task of channel c is still before the end of its init job.
InInit(c) ==
  \/ \E i \in JobsOf(c) : queue[i].init
  \/ \E w \in CallsOf(c) : call[w].init
  \/ \E i \in ReportsOf(c) : Reports[i].init

\* A current task is in exactly one of those places, any other in none.  A
\* task in two would be driven by two threads with no lock, one in none is
\* forgotten (PostWork, PostCompletion, RegisterTask, UnregisterTask).
OneOwner ==
  pc \notin {"boot", "join", "returned"} =>
    \A c \in Channels : Places(c) = IF current[c] = 0 THEN 0 ELSE 1

\* in_flight counts the jobs posted and not processed, active the tasks past
\* their init: so the loop ends neither early nor never.
Counted ==
  pc \notin {"join", "returned"} =>
    /\ inFlight = Cardinality({c \in Channels : current[c] # 0 /\ Watched(c) = 0})
    /\ active = Cardinality({c \in Channels : current[c] # 0 /\ ~InInit(c)})

\* A completion the reactor has not taken is announced, or its worker is
\* about to announce it, or the reactor is about to take it (DrainNotify comes
\* before the swap): a completion is never slept on.
NoLostCompletion ==
  completions # << >> /\ pc \notin {"swap", "join", "returned"} => notify \/ post # {}

\* When Run returns no worker holds a task of the plan, whose buffers the
\* caller may now free, no edge is watched and no job is left for the next
\* plan; true means every task is done.
Quiesced ==
  pc = "returned" =>
    /\ reg = {} /\ queue = << >> /\ completions = << >>
    /\ \A w \in Workers : call[w] = NoCall
    /\ ok => \A c \in Channels : Finished(c)

\* Run returns, whatever the workers and the neighbours interleave.
Completes == <>(pc = "returned")
=============================================================================
