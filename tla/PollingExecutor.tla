---------------------------- MODULE PollingExecutor ---------------------------
(***************************************************************************)
(* PollingExecutor::Run (executor/polling_executor.cpp): one thread that   *)
(* passes over the channels for ever and lets each current task push the   *)
(* sides that were not done when its turn began.  No epoll set is used.    *)
(* progressed only decides about sched_yield and is left out.              *)
(***************************************************************************)
EXTENDS TaskEdges

CONSTANT Main   \* the thread of Threads that runs the executor

VARIABLES
  pc,        \* boot, init, turn, step, returned
  slot,      \* the channel being started or visited
  booted,    \* the first loop of Run is over
  current,   \* current[slot] as a task number; 0 for nullptr
  active,
  ok

runVars == <<pc, slot, booted, current, active, ok>>
vars == <<edgeVars, runVars>>

Init ==
  /\ EdgesInit
  /\ pc = "boot"
  /\ slot = 1
  /\ booted = FALSE
  /\ current = [c \in Channels |-> 0]
  /\ active = 0
  /\ ok = TRUE

\* On to the next channel; after the last one the while loop tests active.
NextSlot(count) ==
  /\ slot' = (slot % ChannelCount) + 1
  /\ booted' = (booted \/ slot = ChannelCount)
  /\ pc' = CASE ~booted' -> "boot"
             [] booted' /\ slot = ChannelCount /\ count = 0 -> "returned"
             [] OTHER -> "turn"

\* StartFrontTask: CollectiveInit of the channel's next task.
StartFrontTask(t) ==
  /\ CallInit(Main, slot, t)
  /\ pc' = "init"
  /\ UNCHANGED <<plan, snd, sent, arrived, taken, nospace, reg, ready, slot, booted, ok>>

BootStart ==
  /\ pc = "boot" /\ plan[slot] # << >>
  /\ StartFrontTask(1)
  /\ UNCHANGED <<current, active>>

BootNone ==
  /\ pc = "boot" /\ plan[slot] = << >>
  /\ NextSlot(active)
  /\ UNCHANGED <<edgeVars, current, active, ok>>

InitReturns ==
  /\ pc = "init" /\ InCall(Main, "ok")
  /\ call' = [call EXCEPT ![Main] = NoCall]
  /\ current' = [current EXCEPT ![slot] = task[slot]]
  /\ active' = active + 1
  /\ NextSlot(active + 1)
  /\ UNCHANGED <<plan, task, phase, moveVars, arrived, reg, ready, ok>>

CallFails ==
  /\ pc \in {"init", "step"} /\ InCall(Main, "failed")
  /\ call' = [call EXCEPT ![Main] = NoCall]
  /\ pc' = "returned" /\ ok' = FALSE
  /\ UNCHANGED <<plan, task, phase, moveVars, arrived, reg, ready, slot, booted, current, active>>

TurnNone ==
  /\ pc = "turn" /\ current[slot] = 0
  /\ NextSlot(active)
  /\ UNCHANGED <<edgeVars, current, active, ok>>

\* send_done and recv_done are read once, before either step.
PendingSteps(c) == InOrder({s \in Sides : left[c][s] > 0})

Turn ==
  /\ pc = "turn" /\ current[slot] # 0
  /\ CallSteps(Main, slot, PendingSteps(slot))
  /\ pc' = "step"
  /\ UNCHANGED <<plan, snd, sent, arrived, taken, nospace, reg, ready, slot, booted, current, active, ok>>

StepWaits ==
  /\ pc = "step" /\ InCall(Main, "ok") /\ ~TaskDone(slot)
  /\ call' = [call EXCEPT ![Main] = NoCall]
  /\ NextSlot(active)
  /\ UNCHANGED <<plan, task, phase, moveVars, arrived, reg, ready, current, active, ok>>

Retires == pc = "step" /\ InCall(Main, "ok") /\ TaskDone(slot)

StepNext ==
  /\ Retires /\ task[slot] < Len(plan[slot])
  /\ active' = active - 1
  /\ current' = [current EXCEPT ![slot] = 0]
  /\ StartFrontTask(task[slot] + 1)

StepLast ==
  /\ Retires /\ task[slot] = Len(plan[slot])
  /\ call' = [call EXCEPT ![Main] = NoCall]
  /\ active' = active - 1
  /\ current' = [current EXCEPT ![slot] = 0]
  /\ NextSlot(active - 1)
  /\ UNCHANGED <<plan, task, phase, moveVars, arrived, reg, ready, ok>>

Run ==
  \/ BootStart \/ BootNone \/ InitReturns \/ CallFails
  \/ TurnNone \/ Turn \/ StepWaits \/ StepNext \/ StepLast
  \/ Topology(Main) /\ UNCHANGED runVars

Next == Run \/ (Kernel /\ UNCHANGED runVars)

\* The executor's thread is scheduled; the neighbours deliver and drain.
Fairness ==
  /\ WF_vars(Run)
  /\ \A c \in Channels : WF_vars(Arrive(c) /\ UNCHANGED runVars) /\ WF_vars(Drain(c) /\ UNCHANGED runVars)

Spec == Init /\ [][Next]_vars /\ Fairness

-----------------------------------------------------------------------------
(* Properties *)

\* Every variable has its type (the locals of Run, the socket state).
TypeOK ==
  /\ EdgesTypeOK
  /\ pc \in {"boot", "init", "turn", "step", "returned"}
  /\ slot \in Channels
  /\ booted \in BOOLEAN
  /\ \A c \in Channels : current[c] \in 0..Len(plan[c])
  /\ active \in 0..ChannelCount
  /\ ok \in BOOLEAN

\* Run returns true only when every task of every channel is done, although
\* a task that is done after its init is counted active until its next turn.
TrueMeansDone ==
  pc = "returned" /\ ok => \A c \in Channels : Finished(c)

\* The passes end: every task is driven to its end although a turn steps only
\* the sides that were open when it began, and a failed step ends Run.
Completes == <>(pc = "returned")
=============================================================================
