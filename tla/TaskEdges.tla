------------------------------- MODULE TaskEdges ------------------------------
(***************************************************************************)
(* One rank's end of its channels, as its executor sees it: the socket     *)
(* buffers of the two TCP edges of a channel (transport_tcp.cpp), the      *)
(* kernel's edge-triggered readiness list, and the Topology call that      *)
(* moves a task's bytes (CollectiveInit, CollectiveStep).  A task is a     *)
(* sequence of phases, each sending and receiving some units; the neigh-   *)
(* bours deliver and drain units at any time.  That the ranks do not wait  *)
(* for one another in a circle is the subject of RingCollective.           *)
(*                                                                         *)
(* Modules EpollExecutor, PollingExecutor and ReactorExecutor extend it.   *)
(* A channel has one edge per side; its tasks use the same two edges.      *)
(***************************************************************************)
EXTENDS Ordered, FiniteSetsExt

CONSTANTS
  ChannelCount,   \* plan.channels.size()
  Plans,          \* the plans Run may be given: channel -> tasks
  SndCap, RcvCap, \* units the kernel buffers per edge
  Threads,        \* who calls the Topology
  MayFail         \* whether TrySend and TryRecv may return false

Channels == 1..ChannelCount
Sides == {"send", "recv"}
Phase == [send : Nat, recv : Nat]

ASSUME TaskEdgesAssumption ==
  /\ ChannelCount \in Nat \ {0}
  /\ SndCap \in Nat \ {0} /\ RcvCap \in Nat \ {0}
  /\ Plans \subseteq [Channels -> Seq(Seq(Phase))]
  /\ MayFail \in BOOLEAN

VARIABLES
  plan,       \* the plan being run (never changes)
  task,       \* per channel, the task last initialised; 0 before the first
  phase,      \* state.phase: the phase that task is in
  left,       \* per channel and side, units its phase still has to move
  snd,        \* units in the socket's send buffer
  sent,       \* units ever accepted by the send buffer
  arrived,    \* units the neighbour has ever delivered
  taken,      \* units ever read from the receive buffer
  nospace,    \* a writer saw the send buffer full (SOCK_NOSPACE)
  reg,        \* the <<channel, side>> edges in the epoll set
  ready,      \* its ready list
  call        \* per thread, the Topology call it is in, or NoCall

edgeVars == <<plan, task, phase, left, snd, sent, arrived, taken, nospace, reg, ready, call>>
moveVars == <<left, snd, sent, taken, nospace>>

\* slot; the PushBuffer calls still to make; the CollectiveSteps after the
\* current one; whether the call is CollectiveInit; what it has come to.
Call == [slot : Channels, todo : Seq(Sides), steps : Seq(Sides),
         init : BOOLEAN, result : {"running", "ok", "failed"}]
NoCall == [slot |-> 0]
BothSides == <<"send", "recv">>

\* The sides of a set, in the order every executor steps them.
InOrder(sides) ==
  (IF "send" \in sides THEN <<"send">> ELSE << >>) \o (IF "recv" \in sides THEN <<"recv">> ELSE << >>)

Phases(c, t) == plan[c][t]
TaskDone(c) == phase[c] > Len(Phases(c, task[c]))
Finished(c) == task[c] = Len(plan[c]) /\ (task[c] > 0 => TaskDone(c))

\* The phases of channel c in the tasks before t, and those of t before p.
PhasesBefore(c, t, p) ==
  {x \in UNION {{k} \X DOMAIN Phases(c, k) : k \in (1 .. t) \cap DOMAIN plan[c]} : x[1] < t \/ x[2] < p}

\* The units they have on side s.
UnitsBefore(c, t, p, s) ==
  Cardinality(UNION {{x} \X (1 .. Phases(c, x[1])[x[2]][s]) : x \in PhasesBefore(c, t, p)})

UnitsTotal(c, s) == UnitsBefore(c, Len(plan[c]) + 1, 1, s)

EdgesInit ==
  /\ plan \in Plans
  /\ task = [c \in Channels |-> 0]
  /\ phase = [c \in Channels |-> 0]
  /\ left = [c \in Channels |-> [s \in Sides |-> 0]]
  /\ snd = [c \in Channels |-> 0]
  /\ sent = [c \in Channels |-> 0]
  /\ arrived = [c \in Channels |-> 0]
  /\ taken = [c \in Channels |-> 0]
  /\ nospace = [c \in Channels |-> FALSE]
  /\ reg = {}
  /\ ready = {}
  /\ call = [th \in Threads |-> NoCall]

-----------------------------------------------------------------------------
(* The kernel and the neighbours *)

Readable(c) == arrived[c] > taken[c]
Writable(c) == snd[c] < SndCap
IsReady(e) == IF e[2] = "recv" THEN Readable(e[1]) ELSE Writable(e[1])

\* The left neighbour's data reaches the socket: an edge for the epoll set.
Arrive(c) ==
  /\ arrived[c] < UnitsTotal(c, "recv")
  /\ arrived[c] - taken[c] < RcvCap
  /\ arrived' = [arrived EXCEPT ![c] = @ + 1]
  /\ ready' = ready \cup ({<<c, "recv">>} \cap reg)
  /\ UNCHANGED <<plan, task, phase, left, snd, sent, taken, nospace, reg, call>>

\* The right neighbour takes data: an edge only if a writer ran out of space.
Drain(c) ==
  /\ snd[c] > 0
  /\ snd' = [snd EXCEPT ![c] = @ - 1]
  /\ nospace' = [nospace EXCEPT ![c] = FALSE]
  /\ ready' = IF nospace[c] THEN ready \cup ({<<c, "send">>} \cap reg) ELSE ready
  /\ UNCHANGED <<plan, task, phase, left, sent, arrived, taken, reg, call>>

Kernel == \E c \in Channels : Arrive(c) \/ Drain(c)

-----------------------------------------------------------------------------
(* TrySend and TryRecv: move until the buffer refuses or the phase is done *)

Moved(avail, want) == Min({avail, want})

TrySend(c) ==
  LET n == Moved(SndCap - snd[c], left[c]["send"]) IN
  /\ left' = [left EXCEPT ![c]["send"] = @ - n]
  /\ snd' = [snd EXCEPT ![c] = @ + n]
  /\ sent' = [sent EXCEPT ![c] = @ + n]
  /\ nospace' = [nospace EXCEPT ![c] = @ \/ n < left[c]["send"]]
  /\ UNCHANGED taken

TryRecv(c) ==
  LET n == Moved(arrived[c] - taken[c], left[c]["recv"]) IN
  /\ left' = [left EXCEPT ![c]["recv"] = @ - n]
  /\ taken' = [taken EXCEPT ![c] = @ + n]
  /\ UNCHANGED <<snd, sent, nospace>>

-----------------------------------------------------------------------------
(* The Topology call a thread is in *)

InCall(th, result) == call[th] # NoCall /\ call[th].result = result

\* One side of PushBuffer; a side that is done is skipped.
PushBuffer(th) ==
  LET c == call[th].slot
      s == Head(call[th].todo) IN
  /\ InCall(th, "running")
  /\ call[th].todo # << >>
  /\ call' = [call EXCEPT ![th].todo = Tail(@)]
  /\ \/ left[c][s] = 0 /\ UNCHANGED moveVars
     \/ left[c][s] > 0 /\ s = "send" /\ TrySend(c)
     \/ left[c][s] > 0 /\ s = "recv" /\ TryRecv(c)
  /\ UNCHANGED <<plan, task, phase, arrived, reg, ready>>

\* TrySend or TryRecv returns false: the connection is broken.
PushFails(th) ==
  /\ MayFail
  /\ InCall(th, "running")
  /\ call[th].todo # << >>
  /\ left[call[th].slot][Head(call[th].todo)] > 0
  /\ call' = [call EXCEPT ![th].result = "failed"]
  /\ UNCHANGED <<plan, task, phase, moveVars, arrived, reg, ready>>

\* Mutant: a new phase waits for events and pushes nothing itself.
BeginPhaseIdle(c, t, p) == << >>

\* BeginPhase pushes both sides at once; kPhaseDone has nothing to push.
BeginPhase(c, t, p) ==
  IF p > Len(Phases(c, t)) THEN << >> ELSE BothSides

PhaseUnits(c, t, p) ==
  IF p > Len(Phases(c, t)) THEN [s \in Sides |-> 0]
  ELSE [s \in Sides |-> Phases(c, t)[p][s]]

\* Mutant: the phase is over when its receive side is.
PhaseOverRecv(c) == ~TaskDone(c) /\ left[c]["recv"] = 0

PhaseOver(c) == ~TaskDone(c) /\ \A s \in Sides : left[c][s] = 0

\* The loop of Complete...: both sides done, so on to the next phase.
NextPhase(th) ==
  LET c == call[th].slot
      p == phase[c] + 1 IN
  /\ InCall(th, "running")
  /\ call[th].todo = << >>
  /\ PhaseOver(c)
  /\ phase' = [phase EXCEPT ![c] = p]
  /\ left' = [left EXCEPT ![c] = PhaseUnits(c, task[c], p)]
  /\ call' = [call EXCEPT ![th].todo = BeginPhase(c, task[c], p)]
  /\ UNCHANGED <<plan, task, snd, sent, arrived, taken, nospace, reg, ready>>

\* CollectiveStep: nothing for a task that is done, else one push.
NextStep(th) ==
  LET c == call[th].slot IN
  /\ InCall(th, "running")
  /\ call[th].todo = << >>
  /\ ~PhaseOver(c)
  /\ call[th].steps # << >>
  /\ call' = [call EXCEPT ![th].todo = IF TaskDone(c) THEN << >> ELSE <<Head(call[th].steps)>>,
                          ![th].steps = Tail(@)]
  /\ UNCHANGED <<plan, task, phase, moveVars, arrived, reg, ready>>

CallReturns(th) ==
  LET c == call[th].slot IN
  /\ InCall(th, "running")
  /\ call[th].todo = << >>
  /\ ~PhaseOver(c)
  /\ call[th].steps = << >>
  /\ call' = [call EXCEPT ![th].result = "ok"]
  /\ UNCHANGED <<plan, task, phase, moveVars, arrived, reg, ready>>

Topology(th) ==
  PushBuffer(th) \/ PushFails(th) \/ NextPhase(th) \/ NextStep(th) \/ CallReturns(th)

\* CollectiveInit of the t-th task of channel c: state = CollOpState{}, then
\* BeginPhase; a task of no units is done at once.
CallInit(th, c, t) ==
  /\ task' = [task EXCEPT ![c] = t]
  /\ phase' = [phase EXCEPT ![c] = 1]
  /\ left' = [left EXCEPT ![c] = PhaseUnits(c, t, 1)]
  /\ call' = [call EXCEPT ![th] = [slot |-> c, todo |-> BeginPhase(c, t, 1), steps |-> << >>,
                                   init |-> TRUE, result |-> "running"]]

CallSteps(th, c, steps) ==
  /\ call' = [call EXCEPT ![th] = [slot |-> c, todo |-> << >>, steps |-> steps,
                                   init |-> FALSE, result |-> "running"]]
  /\ UNCHANGED <<task, phase, left>>

-----------------------------------------------------------------------------
(* The epoll set: edge-triggered registration of both edges of a channel *)

EdgesOf(c) == {c} \X Sides

\* A full send buffer found by a poll asks for an edge (tcp_poll).
PollMarks(es) == [c \in Channels |-> nospace[c] \/ (<<c, "send">> \in es /\ ~Writable(c))]

\* EPOLL_CTL_ADD reports what is ready now; it fails for an edge in the set.
CanRegister(c) == EdgesOf(c) \cap reg = {}
AddedEdges(c) == {e \in EdgesOf(c) : IsReady(e)}

RegisterTask(c) ==
  /\ reg' = reg \cup EdgesOf(c)
  /\ ready' = ready \cup AddedEdges(c)
  /\ nospace' = PollMarks(EdgesOf(c))

UnregisterTasks(cs) ==
  /\ reg' = reg \ (cs \X Sides)
  /\ ready' = ready \ (cs \X Sides)

\* epoll_wait empties the ready list and reports what is still ready.
FetchedEdges == {e \in ready : IsReady(e)}

EpollWait ==
  /\ ready' = {}
  /\ nospace' = PollMarks(ready)

-----------------------------------------------------------------------------
(* Shared properties *)

EdgesTypeOK ==
  /\ plan \in Plans
  /\ \A c \in Channels :
       /\ task[c] \in 0..Len(plan[c])
       /\ snd[c] \in 0..SndCap
       /\ arrived[c] - taken[c] \in 0..RcvCap
       /\ \A s \in Sides : left[c][s] \in Nat
  /\ nospace \in [Channels -> BOOLEAN]
  /\ reg \subseteq Channels \X Sides
  /\ ready \subseteq reg
  /\ \A th \in Threads : call[th] = NoCall \/ call[th] \in Call

\* Every unit a task has sent or read is its own: the streams of a channel
\* stand exactly at the phase its current task is in.  An executor may hand a
\* task an event that was fetched for the one before it, or steps decided
\* before a phase ended; CollectiveStep then must not touch the next task's
\* bytes, nor start a task over another that is not done.
Aligned ==
  \A c \in Channels : task[c] > 0 =>
    LET upto(s) == UnitsBefore(c, task[c], phase[c], s) + PhaseUnits(c, task[c], phase[c])[s] - left[c][s] IN
    sent[c] = upto("send") /\ taken[c] = upto("recv")
=============================================================================
