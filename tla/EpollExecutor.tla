----------------------------- MODULE EpollExecutor ----------------------------
(***************************************************************************)
(* EpollExecutor::Run (executor/epoll_executor.cpp): one thread, one epoll *)
(* set with edge-triggered edges, one current task per channel.  A task's  *)
(* calls into the Topology are the steps of module TaskEdges; the          *)
(* neighbours move between any two of them.                                *)
(***************************************************************************)
EXTENDS TaskEdges

CONSTANT Main   \* the thread of Threads that runs the executor

VARIABLES
  pc,        \* start, init, wait, handle, step, returned
  slot,      \* the channel start() is working on
  boot,      \* channels the first loop of Run still has to start
  current,   \* current[slot] as a task number; 0 for nullptr
  active,
  events,    \* events epoll_wait has returned, not handled yet
  ok         \* what Run returned

runVars == <<pc, slot, boot, current, active, events, ok>>
vars == <<edgeVars, runVars>>

Init ==
  /\ EdgesInit
  /\ pc = "start"
  /\ slot = 1
  /\ boot = [i \in 1..(ChannelCount - 1) |-> i + 1]
  /\ current = [c \in Channels |-> 0]
  /\ active = 0
  /\ events = {}
  /\ ok = TRUE

\* Where control goes when start(slot) returns true: to the next channel of
\* the first loop, or back to the events.
AfterStart ==
  IF boot # << >>
  THEN pc' = "start" /\ slot' = Head(boot) /\ boot' = Tail(boot)
  ELSE pc' = "handle" /\ UNCHANGED <<slot, boot>>

\* start(): CollectiveInit of the channel's next task.
StartInit ==
  /\ pc = "start"
  /\ task[slot] < Len(plan[slot])
  /\ CallInit(Main, slot, task[slot] + 1)
  /\ pc' = "init"
  /\ UNCHANGED <<plan, snd, sent, arrived, taken, nospace, reg, ready, slot, boot, current, active, events, ok>>

\* start() with no task left.
StartNone ==
  /\ pc = "start"
  /\ task[slot] = Len(plan[slot])
  /\ AfterStart
  /\ UNCHANGED <<edgeVars, current, active, events, ok>>

\* abort_plan(): unregister what is current; Run returns false.
AbortPlan ==
  /\ UnregisterTasks({c \in Channels : current[c] # 0})
  /\ pc' = "returned"
  /\ ok' = FALSE

InitFails ==
  /\ pc = "init" /\ InCall(Main, "failed")
  /\ call' = [call EXCEPT ![Main] = NoCall]
  /\ AbortPlan
  /\ UNCHANGED <<plan, task, phase, moveVars, arrived, slot, boot, current, active, events>>

\* A task that is done after its init is skipped.
InitSkips ==
  /\ pc = "init" /\ InCall(Main, "ok") /\ TaskDone(slot)
  /\ call' = [call EXCEPT ![Main] = NoCall]
  /\ pc' = "start"
  /\ UNCHANGED <<plan, task, phase, moveVars, arrived, reg, ready, slot, boot, current, active, events, ok>>

\* current, active and RegisterTask; an edge already in the set is EEXIST.
InitRegisters ==
  /\ pc = "init" /\ InCall(Main, "ok") /\ ~TaskDone(slot)
  /\ call' = [call EXCEPT ![Main] = NoCall]
  /\ current' = [current EXCEPT ![slot] = task[slot]]
  /\ active' = active + 1
  /\ IF CanRegister(slot)
     THEN RegisterTask(slot) /\ AfterStart /\ UNCHANGED ok
     ELSE AbortPlan /\ UNCHANGED <<nospace, slot, boot>>
  /\ UNCHANGED <<plan, task, phase, left, snd, sent, arrived, taken, events>>

Wait ==
  /\ pc = "handle" /\ events = {} /\ active > 0
  /\ ready # {}
  /\ events' = FetchedEdges
  /\ EpollWait
  /\ UNCHANGED <<plan, task, phase, left, snd, sent, arrived, taken, reg, call, pc, slot, boot, current, active, ok>>

\* An event goes to the task that is current now, or is dropped.
Handle ==
  /\ pc = "handle"
  /\ \E e \in events :
       /\ events' = events \ {e}
       /\ IF current[e[1]] = 0
          THEN UNCHANGED <<task, phase, left, call, pc, slot>>
          ELSE /\ CallSteps(Main, e[1], <<e[2]>>)
               /\ pc' = "step"
               /\ slot' = e[1]
  /\ UNCHANGED <<plan, snd, sent, arrived, taken, nospace, reg, ready, boot, current, active, ok>>

StepFails ==
  /\ pc = "step" /\ InCall(Main, "failed")
  /\ call' = [call EXCEPT ![Main] = NoCall]
  /\ AbortPlan
  /\ UNCHANGED <<plan, task, phase, moveVars, arrived, slot, boot, current, active, events>>

StepWaits ==
  /\ pc = "step" /\ InCall(Main, "ok") /\ ~TaskDone(slot)
  /\ call' = [call EXCEPT ![Main] = NoCall]
  /\ pc' = "handle"
  /\ UNCHANGED <<plan, task, phase, moveVars, arrived, reg, ready, slot, boot, current, active, events, ok>>

StepDone ==
  /\ pc = "step" /\ InCall(Main, "ok") /\ TaskDone(slot)
  /\ call' = [call EXCEPT ![Main] = NoCall]
  /\ active' = active - 1
  /\ UnregisterTasks({slot})
  /\ current' = [current EXCEPT ![slot] = 0]
  /\ pc' = "start"
  /\ UNCHANGED <<plan, task, phase, moveVars, arrived, slot, boot, events, ok>>

\* No active task and no event left: Run returns true.
Return ==
  /\ pc = "handle" /\ events = {} /\ active = 0
  /\ pc' = "returned"
  /\ UNCHANGED <<edgeVars, slot, boot, current, active, events, ok>>

Run ==
  \/ StartInit \/ StartNone \/ InitFails \/ InitSkips \/ InitRegisters
  \/ Wait \/ Handle \/ StepFails \/ StepWaits \/ StepDone \/ Return
  \/ Topology(Main) /\ UNCHANGED runVars

Next == Run \/ (Kernel /\ UNCHANGED runVars)

\* The executor's thread is scheduled; the neighbours deliver and drain.
Fairness ==
  /\ WF_vars(Run)
  /\ \A c \in Channels : WF_vars(Arrive(c) /\ UNCHANGED runVars) /\ WF_vars(Drain(c) /\ UNCHANGED runVars)

Spec == Init /\ [][Next]_vars /\ Fairness

-----------------------------------------------------------------------------
(* Properties *)

\* Every variable has its type (the locals of Run, the socket state).
TypeOK ==
  /\ EdgesTypeOK
  /\ pc \in {"start", "init", "handle", "step", "returned"}
  /\ slot \in Channels
  /\ \A c \in Channels : current[c] \in 0..Len(plan[c])
  /\ active \in 0..ChannelCount
  /\ events \subseteq Channels \X Sides
  /\ ok \in BOOLEAN

\* Edge-triggered epoll reports a change once.  Outside a Topology call, a
\* side of a current task with units left to move is either blocked, with
\* the kernel asked for an edge, or has its event in the ready list or in
\* the batch being handled: no channel is forgotten with work it could do.
NoLostEdge ==
  pc = "handle" =>
    \A c \in Channels, s \in Sides : current[c] # 0 /\ left[c][s] > 0 =>
      \/ <<c, s>> \in ready \cup events
      \/ ~IsReady(<<c, s>>) /\ (s = "send" => nospace[c])

\* The epoll set holds exactly the edges of the current tasks, and active
\* counts them: the loop neither ends early nor waits with nothing watched.
Accounted ==
  pc # "returned" =>
    /\ active = Cardinality({c \in Channels : current[c] # 0})
    /\ reg = UNION {EdgesOf(c) : c \in {d \in Channels : current[d] # 0}}

\* Run leaves the set empty for the next plan, failed or not (abort_plan),
\* and returns true only when every task of every channel is done.
CleanExit ==
  pc = "returned" => reg = {} /\ (ok => \A c \in Channels : Finished(c))

\* Run returns: no wait in epoll_wait(-1) lasts for ever.
Completes == <>(pc = "returned")
=============================================================================
