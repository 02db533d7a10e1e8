------------------------------ MODULE Executors -------------------------------
(***************************************************************************)
(* What Executor::Run promises, over the three executors that drive a plan *)
(* through the readiness of its transports: EpollExecutor, PollingExecutor *)
(* and ReactorExecutor.  They share the channels of module TaskEdges and   *)
(* the local variables of Run they have in common; one of them is at work  *)
(* in a behaviour.                                                         *)
(***************************************************************************)
EXTENDS TaskEdges

CONSTANTS
  Main,    \* the thread that calls Run
  Cases    \* which executor runs which plan: records [executor, plan]

ASSUME ExecutorsAssumption ==
  /\ Main \in Threads
  /\ \A x \in Cases : x.executor \in {"epoll", "polling", "reactor"} /\ x.plan \in Plans

VARIABLES
  executor,                        \* who runs (never changes)
  pc, slot, current, active, ok,   \* locals of Run that all three have
  boot, events,                    \* EpollExecutor
  booted,                          \* PollingExecutor
  inFlight, queue, completions, completed, notify, post, stop, gone  \* ReactorExecutor

Epoll == INSTANCE EpollExecutor
Polling == INSTANCE PollingExecutor
Reactor == INSTANCE ReactorExecutor

runVars == <<executor, pc, slot, current, active, ok>>
epollVars == <<boot, events>>
reactorVars == <<inFlight, queue, completions, completed, notify, post, stop, gone>>
vars == <<edgeVars, runVars, epollVars, booted, reactorVars>>

NoEpoll == boot = << >> /\ events = {}
NoPolling == booted = FALSE
NoReactor ==
  /\ inFlight = 0 /\ queue = << >> /\ completions = << >> /\ completed = << >>
  /\ notify = FALSE /\ post = {} /\ stop = FALSE /\ gone = {}

EpollInit == executor = "epoll" /\ Epoll!Init /\ NoPolling /\ NoReactor
PollingInit == executor = "polling" /\ Polling!Init /\ NoEpoll /\ NoReactor
ReactorInit == executor = "reactor" /\ Reactor!Init /\ NoEpoll /\ NoPolling

Init == (EpollInit \/ PollingInit \/ ReactorInit) /\ [executor |-> executor, plan |-> plan] \in Cases

EpollRun == executor = "epoll" /\ Epoll!Run /\ UNCHANGED <<executor, booted, reactorVars>>
PollingRun == executor = "polling" /\ Polling!Run /\ UNCHANGED <<executor, epollVars, reactorVars>>
ReactorRun == executor = "reactor" /\ Reactor!Reactor /\ UNCHANGED <<executor, epollVars, booted>>
ReactorWorker(w) ==
  executor = "reactor" /\ Reactor!WorkerLoop(w) /\ UNCHANGED <<executor, epollVars, booted>>
Deliver(c) == Arrive(c) /\ UNCHANGED <<runVars, epollVars, booted, reactorVars>>
Take(c) == Drain(c) /\ UNCHANGED <<runVars, epollVars, booted, reactorVars>>

Next ==
  \/ EpollRun \/ PollingRun \/ ReactorRun
  \/ \E w \in Threads : ReactorWorker(w)
  \/ \E c \in Channels : Deliver(c) \/ Take(c)

\* Every thread is scheduled; the neighbours deliver and drain.
Fairness ==
  /\ WF_vars(EpollRun) /\ WF_vars(PollingRun) /\ WF_vars(ReactorRun)
  /\ \A w \in Threads : WF_vars(ReactorWorker(w))
  /\ \A c \in Channels : WF_vars(Deliver(c)) /\ WF_vars(Take(c))

Spec == Init /\ [][Next]_vars /\ Fairness

-----------------------------------------------------------------------------
(* Properties; Aligned of TaskEdges is one of them *)

IsEpoll == executor = "epoll"
IsPolling == executor = "polling"
IsReactor == executor = "reactor"

\* The counters that end the loops agree with where the tasks are, whatever
\* was fetched, posted or reported in between.  EpollExecutor watches exactly
\* the edges of its current tasks; in ReactorExecutor a current task is in
\* exactly one place (queued, in one worker's hands, reported or watched): in
\* two it would be driven by two threads with no lock, in none forgotten.
OneOwner ==
  /\ IsEpoll => Epoll!TypeOK /\ Epoll!Accounted
  /\ IsPolling => Polling!TypeOK
  /\ IsReactor => Reactor!TypeOK /\ Reactor!OneOwner /\ Reactor!Counted

\* Nothing is slept on.  An edge-triggered event is reported once: a side that
\* could move has its event in the ready list or in the batch being handled
\* (EpollExecutor); a completion not yet taken is announced, or about to be,
\* although the notification is drained first (ReactorExecutor).
NoLostEvent ==
  /\ IsEpoll => Epoll!NoLostEdge
  /\ IsReactor => Reactor!NoLostCompletion

\* When Run returns, true means that every task of every channel is done;
\* true or false, no edge stays watched, no worker holds a task of the plan
\* or will touch its buffers, and no job is left for the next.  (What a
\* transport has handed to a card is not the executor's: FailedLetGo in
\* RdmaTransports.)
CleanReturn ==
  /\ IsEpoll => Epoll!CleanExit
  /\ IsPolling => Polling!TrueMeansDone
  /\ IsReactor => Reactor!Quiesced

\* Run returns: no wait in epoll_wait(-1), no pass over the channels and no
\* join of the workers lasts for ever, whatever fails.
Completes == <>(pc = "returned")
=============================================================================
