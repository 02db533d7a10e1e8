--------------------------- MODULE ExecutorsProofs ---------------------------
(***************************************************************************)
(* Proofs about the three readiness-driven executors, for every number of  *)
(* channels, every plan, every buffer size and every number of workers:    *)
(* OneOwner, NoLostEvent and CleanReturn of module Executors, and Aligned  *)
(* of TaskEdges.                                                           *)
(***************************************************************************)
EXTENDS Executors, ProofLemmas

-----------------------------------------------------------------------------
(* The inductive invariant *)

\* What all three executors keep of the channels: the types, and a task
\* behind every call.  A task past its last phase has nothing left to move.
EdgesOK ==
  /\ plan \in Plans
  /\ task \in [Channels -> Nat] /\ (\A c \in Channels : task[c] <= Len(plan[c]))
  /\ phase \in [Channels -> Nat]
  /\ left \in [Channels -> [Sides -> Nat]]
  /\ snd \in [Channels -> 0 .. SndCap]
  /\ arrived \in [Channels -> Nat] /\ taken \in [Channels -> Nat]
  /\ (\A c \in Channels : arrived[c] - taken[c] \in 0 .. RcvCap)
  /\ nospace \in [Channels -> BOOLEAN]
  /\ reg \subseteq Channels \X Sides /\ ready \subseteq reg
  /\ call \in [Threads -> Call \cup {NoCall}]
  /\ (\A th \in Threads : call[th] # NoCall => task[call[th].slot] > 0)

Over(c) == task[c] > 0 => TaskDone(c)
DoneIdle == \A c \in Channels : task[c] > 0 /\ TaskDone(c) => \A s \in Sides : left[c][s] = 0

\* The locals of Run in the executors with a single thread.
RunOK ==
  /\ slot \in Channels
  /\ current \in [Channels -> Nat] /\ (\A c \in Channels : current[c] # 0 => current[c] = task[c])
  /\ active \in Nat
  /\ ok \in BOOLEAN

CurrentSet == {c \in Channels : current[c] # 0}

-----------------------------------------------------------------------------
(* EpollExecutor *)

\* The channels the first loop has not come to: those after the slot.
Unstarted == {c \in Channels : c > ChannelCount - Len(boot)}

EpollTypes ==
  /\ pc \in {"start", "init", "handle", "step", "returned"}
  /\ events \subseteq Channels \X Sides
  /\ boot \in Seq(Channels) /\ Len(boot) < ChannelCount
  /\ (\A i \in DOMAIN boot : boot[i] = ChannelCount - Len(boot) + i)
  /\ (boot # << >> => slot = ChannelCount - Len(boot))
  /\ (boot # << >> => pc \in {"start", "init", "returned"})

\* Main is in a call on slot exactly in init and step.
EpollCalls ==
  /\ (pc \in {"init", "step"} => call[Main] \in Call /\ call[Main].slot = slot /\ task[slot] > 0)
  /\ (pc \notin {"init", "step"} => call[Main] = NoCall)
  /\ (call[Main] # NoCall /\ call[Main].result = "ok" => call[Main].todo = << >> /\ call[Main].steps = << >>)

\* What the epoll set watches, and what the counter counts.
EpollCounts ==
  /\ active = Cardinality(CurrentSet)
  /\ (pc # "returned" => reg = UNION {EdgesOf(c) : c \in CurrentSet})

\* A channel without a current task is finished, but for the one being
\* started and those not yet started.
EpollProgress ==
  pc # "returned" =>
    /\ (\A c \in Unstarted : current[c] = 0 /\ task[c] = 0)
    /\ (pc = "start" => current[slot] = 0 /\ Over(slot))
    /\ (pc = "init" => current[slot] = 0)
    /\ (pc = "step" => current[slot] # 0)
    /\ (\A c \in Channels \ Unstarted : current[c] = 0 /\ (pc \in {"start", "init"} => c # slot) => Finished(c))

\* Side s of channel c has its event, or is blocked with an edge asked for.
Announced(c, s) ==
  \/ <<c, s>> \in ready \cup events
  \/ ~IsReady(<<c, s>>) /\ (s = "send" => nospace[c])

\* The running call will still push side s.
ToPush(s) ==
  \/ \E i \in DOMAIN call[Main].todo : call[Main].todo[i] = s
  \/ \E i \in DOMAIN call[Main].steps : call[Main].steps[i] = s

EpollAnnounced ==
  pc # "returned" =>
    \A c \in Channels, s \in Sides : current[c] # 0 /\ left[c][s] > 0 =>
      Announced(c, s) \/ (pc = "step" /\ c = slot /\ (ToPush(s) \/ call[Main].result = "failed"))

EpollExit == pc = "returned" => reg = {} /\ (ok => \A c \in Channels : Finished(c))

EpollInv ==
  EdgesOK /\ DoneIdle /\ RunOK /\ EpollTypes /\ EpollCalls /\ EpollCounts /\ EpollProgress /\ EpollAnnounced /\ EpollExit

-----------------------------------------------------------------------------
(* PollingExecutor *)

PollingTypes ==
  /\ pc \in {"boot", "init", "turn", "step", "returned"}
  /\ booted \in BOOLEAN
  /\ (pc = "boot" => ~booted)
  /\ (pc \in {"turn", "step"} => booted)

PollingCalls ==
  /\ (pc \in {"init", "step"} => call[Main] \in Call /\ call[Main].slot = slot /\ task[slot] > 0)
  /\ (pc \notin {"init", "step"} => call[Main] = NoCall)

PollingCounts == active = Cardinality(CurrentSet)

\* As in EpollProgress; the first loop starts the channels in order.
PollingProgress ==
  pc # "returned" =>
    /\ (~booted => \A c \in Channels : (c > slot \/ (c = slot /\ pc = "boot")) => current[c] = 0 /\ task[c] = 0)
    /\ (pc = "init" => current[slot] = 0)
    /\ (pc = "step" => current[slot] # 0)
    /\ (\A c \in Channels : current[c] = 0 /\ (~booted => c < slot) /\ (pc = "init" => c # slot) => Finished(c))

PollingExit == pc = "returned" /\ ok => \A c \in Channels : Finished(c)

PollingInv ==
  EdgesOK /\ RunOK /\ PollingTypes /\ PollingCalls /\ PollingCounts /\ PollingProgress /\ PollingExit

-----------------------------------------------------------------------------
(* ReactorExecutor *)

\* The channels whose jobs or reports are in a queue, and those in their init.
Slots(q) == {q[i].slot : i \in DOMAIN q}
Inits(q) == {q[i].slot : i \in {k \in DOMAIN q : q[k].init}}
NoTwice(q) == \A i, j \in DOMAIN q : q[i].slot = q[j].slot => i = j

Busy == {w \in Threads : call[w] # NoCall}
CallSlots == {call[w].slot : w \in Busy}
CallInits == {call[w].slot : w \in {v \in Busy : call[v].init}}
WatchedSet == {c \in Channels : <<c, "send">> \in reg}
InitSet == Inits(queue) \cup CallInits \cup Inits(completions) \cup Inits(completed)

ReactorTypes ==
  /\ pc \in {"boot", "wait", "drain", "swap", "process", "join", "returned"}
  /\ slot \in Channels
  /\ current \in [Channels -> Nat] /\ (\A c \in Channels : current[c] <= Len(plan[c]))
  /\ active \in 0 .. ChannelCount /\ inFlight \in 0 .. ChannelCount
  /\ queue \in Seq(Reactor!Job)
  /\ completions \in Seq(Reactor!Completion) /\ completed \in Seq(Reactor!Completion)
  /\ post \subseteq Threads /\ gone \subseteq Threads
  /\ notify \in BOOLEAN /\ stop \in BOOLEAN /\ ok \in BOOLEAN

\* Workers leave only while StopWorkers waits for them, and hold nothing then.
ReactorGone ==
  /\ (stop <=> pc = "join")
  /\ (\A w \in gone : call[w] = NoCall /\ w \notin post)
  /\ (pc = "join" => ~ok)
  /\ (pc \notin {"join", "returned"} => gone = {} /\ ok)

Live == pc \notin {"join", "returned"}

\* The places of the tasks at work are disjoint and hold all of them: the
\* queue, the workers' calls, the completions and the watched edges.
Parted(Q, K, A, B, W, C) ==
  /\ Q \cap K = {} /\ Q \cap A = {} /\ Q \cap B = {} /\ Q \cap W = {}
  /\ K \cap A = {} /\ K \cap B = {} /\ K \cap W = {}
  /\ A \cap B = {} /\ A \cap W = {} /\ B \cap W = {}
  /\ C = Q \cup K \cup A \cup B \cup W

\* A current task is in exactly one place.
ReactorOwned ==
  Live =>
    /\ NoTwice(queue) /\ NoTwice(completions) /\ NoTwice(completed)
    /\ (\A v, w \in Busy : call[v].slot = call[w].slot => v = w)
    /\ Parted(Slots(queue), CallSlots, Slots(completions), Slots(completed), WatchedSet, CurrentSet)
    /\ reg = UNION {EdgesOf(c) : c \in WatchedSet}
    /\ (pc # "process" => completed = << >>)

ReactorCounts ==
  Live => /\ inFlight = Cardinality(CurrentSet \ WatchedSet)
          /\ active = Cardinality(CurrentSet \ InitSet)

\* A report of a task that is done.
Truthful(q) == \A i \in DOMAIN q : q[i].state = "done" => TaskDone(q[i].slot)

\* Where the task number of a channel stands.
ReactorProgress ==
  Live =>
    /\ (pc = "boot" => \A c \in Channels : c >= slot => current[c] = 0 /\ task[c] = 0)
    /\ (\A c \in Channels : current[c] = 0 /\ (pc = "boot" => c < slot) => Finished(c))
    /\ (\A c \in CurrentSet \ Inits(queue) : task[c] = current[c])
    /\ (\A c \in Inits(queue) : current[c] = task[c] + 1 /\ Over(c))
    /\ Truthful(completions) /\ Truthful(completed)

ReactorExit ==
  /\ (pc = "join" => reg = {})
  /\ (pc = "returned" =>
        /\ reg = {} /\ queue = << >> /\ completions = << >>
        /\ (\A w \in Threads : call[w] = NoCall)
        /\ (ok => \A c \in Channels : Finished(c)))

ReactorWoken ==
  completions # << >> /\ pc \notin {"swap", "join", "returned"} => notify \/ post # {}

ReactorInv ==
  EdgesOK /\ ReactorTypes /\ ReactorGone /\ ReactorOwned /\ ReactorCounts /\ ReactorProgress /\ ReactorExit /\ ReactorWoken

-----------------------------------------------------------------------------
IInv ==
  /\ executor \in {"epoll", "polling", "reactor"}
  /\ (executor = "epoll" => EpollInv)
  /\ (executor = "polling" => PollingInv)
  /\ (executor = "reactor" => ReactorInv)
-----------------------------------------------------------------------------
(* The steps of TaskEdges *)

\* What TrySend and TryRecv move: all that is wanted or all that fits.
LEMMA MovedFacts ==
  ASSUME NEW a \in Nat, NEW b \in Nat
  PROVE  Moved(a, b) \in Nat /\ Moved(a, b) <= a /\ Moved(a, b) <= b /\ (Moved(a, b) = a \/ Moved(a, b) = b)
BY MinOfTwo DEF Moved

\* A call is not the absence of one.
LEMMA CallIsCall == NoCall \notin Call
BY TaskEdgesAssumption DEF NoCall, Call, Channels

\* The units of a phase are naturals, and none are left after the last phase.
LEMMA PhaseUnitsType ==
  ASSUME plan \in Plans, NEW c \in Channels, NEW t \in 1 .. Len(plan[c]), NEW p \in Nat \ {0}
  PROVE  /\ PhaseUnits(c, t, p) \in [Sides -> Nat]
         /\ (p > Len(Phases(c, t)) => \A s \in Sides : PhaseUnits(c, t, p)[s] = 0)
         /\ BeginPhase(c, t, p) \in Seq(Sides)
         /\ (p <= Len(Phases(c, t)) => BeginPhase(c, t, p) = BothSides)
         /\ Phases(c, t) \in Seq(Phase)
<1>1. plan[c] \in Seq(Seq(Phase))
  BY TaskEdgesAssumption
<1>2. Phases(c, t) \in Seq(Phase)
  BY <1>1 DEF Phases
<1>3. p <= Len(Phases(c, t)) => \A s \in Sides : Phases(c, t)[p][s] \in Nat
  <2>1. SUFFICES ASSUME p <= Len(Phases(c, t)) PROVE \A s \in Sides : Phases(c, t)[p][s] \in Nat
    OBVIOUS
  <2>2. p \in 1 .. Len(Phases(c, t))
    BY <2>1, <1>2
  <2>3. Phases(c, t)[p] \in Phase
    BY <2>2, <1>2
  <2> QED BY <2>3 DEF Phase, Sides
<1>4. Len(Phases(c, t)) \in Nat
  BY <1>2
<1>5. PhaseUnits(c, t, p) \in [Sides -> Nat]
  BY <1>3, <1>4 DEF PhaseUnits
<1>6. BothSides \in Seq(Sides)
  BY DEF BothSides, Sides
<1> QED BY <1>2, <1>4, <1>5, <1>6 DEF PhaseUnits, BeginPhase

\* CollectiveInit of a task of the plan.
LEMMA InitCall ==
  ASSUME EdgesOK, NEW th \in Threads, NEW c \in Channels, NEW t \in 1 .. Len(plan[c]),
         CallInit(th, c, t), UNCHANGED <<plan, snd, arrived, taken, nospace, reg, ready>>
  PROVE  /\ EdgesOK'
         /\ call'[th] \in Call /\ call'[th].slot = c /\ call'[th].init /\ call'[th].result = "running"
         /\ task' = [task EXCEPT ![c] = t] /\ (\A d \in Channels \ {c} : phase'[d] = phase[d] /\ left'[d] = left[d])
         /\ (\A w \in Threads \ {th} : call'[w] = call[w])
         /\ (DoneIdle => DoneIdle')
<1> DEFINE new == [slot |-> c, todo |-> BeginPhase(c, t, 1), steps |-> << >>, init |-> TRUE, result |-> "running"]
<1>1. /\ PhaseUnits(c, t, 1) \in [Sides -> Nat]
      /\ (1 > Len(Phases(c, t)) => \A s \in Sides : PhaseUnits(c, t, 1)[s] = 0)
      /\ BeginPhase(c, t, 1) \in Seq(Sides)
  <2>1. plan \in Plans /\ 1 \in Nat \ {0}
    BY DEF EdgesOK
  <2> QED BY <2>1, PhaseUnitsType, ZenonT(60)
<1>2. new \in Call
  BY <1>1 DEF Call, Sides
<1>3. /\ task' = [task EXCEPT ![c] = t] /\ phase' = [phase EXCEPT ![c] = 1]
      /\ left' = [left EXCEPT ![c] = PhaseUnits(c, t, 1)] /\ call' = [call EXCEPT ![th] = new]
  BY DEF CallInit
<1>4. t \in Nat /\ t <= Len(plan[c]) /\ t > 0
  BY TaskEdgesAssumption DEF EdgesOK
<1>5. /\ task' \in [Channels -> Nat] /\ (\A d \in Channels : task'[d] <= Len(plan[d]))
      /\ task'[c] = t /\ (\A d \in Channels \ {c} : task'[d] = task[d])
  BY <1>3, <1>4 DEF EdgesOK
<1>6. /\ phase' \in [Channels -> Nat] /\ phase'[c] = 1 /\ (\A d \in Channels \ {c} : phase'[d] = phase[d])
  BY <1>3 DEF EdgesOK
<1>7. /\ left' \in [Channels -> [Sides -> Nat]] /\ left'[c] = PhaseUnits(c, t, 1)
      /\ (\A d \in Channels \ {c} : left'[d] = left[d])
  BY <1>1, <1>3 DEF EdgesOK
<1>8. /\ call' \in [Threads -> Call \cup {NoCall}] /\ call'[th] = new /\ (\A w \in Threads \ {th} : call'[w] = call[w])
  BY <1>2, <1>3 DEF EdgesOK
<1>9. \A w \in Threads : call'[w] # NoCall => task'[call'[w].slot] > 0
  <2> TAKE w \in Threads
  <2>1. CASE w = th
    BY <2>1, <1>4, <1>5, <1>8
  <2>2. CASE w # th /\ call[w] # NoCall
    <3>1. call[w].slot \in Channels /\ task[call[w].slot] > 0
      BY <2>2 DEF EdgesOK, Call
    <3> QED BY <3>1, <2>2, <1>4, <1>5, <1>8
  <2>3. CASE w # th /\ call[w] = NoCall
    BY <2>3, <1>8
  <2> QED BY <2>1, <2>2, <2>3
<1>10. DoneIdle => DoneIdle'
  <2> HAVE DoneIdle
  <2> SUFFICES ASSUME NEW d \in Channels, task'[d] > 0, phase'[d] > Len(plan[d][task'[d]]), NEW s \in Sides
               PROVE  left'[d][s] = 0
    BY DEF DoneIdle, TaskDone, Phases
  <2>1. CASE d = c
    BY <2>1, <1>1, <1>5, <1>6, <1>7 DEF Phases
  <2>2. CASE d # c
    <3>1. task'[d] = task[d] /\ phase'[d] = phase[d] /\ left'[d] = left[d]
      BY <2>2, <1>5, <1>6, <1>7
    <3>2. task[d] > 0 /\ phase[d] > Len(plan[d][task[d]])
      BY <3>1
    <3> QED BY <3>1, <3>2, SMTT(30) DEF DoneIdle, TaskDone, Phases
  <2> QED BY <2>1, <2>2
<1>11. EdgesOK'
  BY <1>5, <1>6, <1>7, <1>8, <1>9 DEF EdgesOK
<1> QED BY <1>2, <1>3, <1>6, <1>7, <1>8, <1>10, <1>11

\* A change of the calls alone.
LEMMA CallChange ==
  ASSUME EdgesOK, NEW th \in Threads, NEW x \in Call \cup {NoCall}, x # NoCall => task[x.slot] > 0,
         call' = [call EXCEPT ![th] = x],
         UNCHANGED <<plan, task, phase, left, snd, arrived, taken, nospace, reg, ready>>
  PROVE  EdgesOK' /\ call'[th] = x /\ (\A w \in Threads \ {th} : call'[w] = call[w]) /\ (DoneIdle => DoneIdle')
<1>1. call' \in [Threads -> Call \cup {NoCall}] /\ call'[th] = x /\ (\A w \in Threads \ {th} : call'[w] = call[w])
  BY DEF EdgesOK
<1>2. \A w \in Threads : call'[w] # NoCall => task'[call'[w].slot] > 0
  BY <1>1 DEF EdgesOK
<1>3. EdgesOK'
  BY <1>1, <1>2 DEF EdgesOK
<1>4. DoneIdle => DoneIdle'
  BY DEF DoneIdle, TaskDone, Phases
<1> QED BY <1>1, <1>3, <1>4

\* The steps of a task that has been initialised.
LEMMA StepsCall ==
  ASSUME EdgesOK, NEW th \in Threads, NEW c \in Channels, NEW steps \in Seq(Sides), task[c] > 0,
         CallSteps(th, c, steps), UNCHANGED <<plan, snd, arrived, taken, nospace, reg, ready>>
  PROVE  /\ EdgesOK' /\ (DoneIdle => DoneIdle') /\ call'[th] \in Call
         /\ call'[th] = [slot |-> c, todo |-> << >>, steps |-> steps, init |-> FALSE, result |-> "running"]
         /\ (\A w \in Threads \ {th} : call'[w] = call[w])
<1> DEFINE new == [slot |-> c, todo |-> << >>, steps |-> steps, init |-> FALSE, result |-> "running"]
<1>1. new \in Call /\ new.slot = c
  BY DEF Call, Sides
<1>2. call' = [call EXCEPT ![th] = new] /\ UNCHANGED <<task, phase, left>>
  BY DEF CallSteps
<1>3. new \in Call \cup {NoCall} /\ (new # NoCall => task[new.slot] > 0)
  BY <1>1
<1> HIDE DEF new
<1>4. EdgesOK' /\ call'[th] = new /\ (\A w \in Threads \ {th} : call'[w] = call[w]) /\ (DoneIdle => DoneIdle')
  BY <1>2, <1>3, CallChange
<1> QED BY <1>1, <1>4 DEF new

\* The sides of a set in order are a sequence of sides.
LEMMA InOrderType ==
  ASSUME NEW S
  PROVE  InOrder(S) \in Seq(Sides) /\ (InOrder(S) # << >> <=> S \cap Sides # {})
<1>1. CASE "send" \in S /\ "recv" \in S
  <2>1. InOrder(S) = <<"send">> \o <<"recv">>
    BY <1>1 DEF InOrder
  <2>2. <<"send">> \in Seq(Sides) /\ <<"recv">> \in Seq(Sides)
    BY DEF Sides
  <2>3. InOrder(S) \in Seq(Sides) /\ Len(InOrder(S)) = Len(<<"send">>) + Len(<<"recv">>)
    BY <2>1, <2>2, ConcatProperties
  <2>4. Len(InOrder(S)) # 0
    BY <2>3
  <2> QED BY <1>1, <2>3, <2>4 DEF Sides
<1>2. CASE "send" \in S /\ "recv" \notin S
  <2>1. InOrder(S) = <<"send">>
    BY <1>2 DEF InOrder
  <2> QED BY <1>2, <2>1 DEF Sides
<1>3. CASE "send" \notin S /\ "recv" \in S
  <2>1. InOrder(S) = <<"recv">>
    BY <1>3 DEF InOrder
  <2> QED BY <1>3, <2>1 DEF Sides
<1>4. CASE "send" \notin S /\ "recv" \notin S
  <2>1. InOrder(S) = << >>
    BY <1>4 DEF InOrder
  <2> QED BY <1>4, <2>1 DEF Sides
<1> QED BY <1>1, <1>2, <1>3, <1>4

\* What a step of the Topology may touch: the units and the phase of the
\* call's own channel, and the progress of the call.
Moves(th) ==
  LET c == call[th].slot IN
  /\ EdgesOK' /\ (DoneIdle => DoneIdle')
  /\ UNCHANGED <<plan, task, arrived, reg, ready>>
  /\ call[th] \in Call /\ call'[th] \in Call /\ call'[th].slot = c /\ call'[th].init = call[th].init
  /\ (\A w \in Threads \ {th} : call'[w] = call[w])
  /\ (\A d \in Channels \ {c} : /\ phase'[d] = phase[d] /\ left'[d] = left[d]
                                /\ snd'[d] = snd[d] /\ taken'[d] = taken[d] /\ nospace'[d] = nospace[d])

\* What pushing side s0 of channel c may do: fewer units are left, and if
\* some are, the buffer refused and, for a sender, the refusal is noted.
Shifted(c, s0) ==
  /\ left' \in [Channels -> [Sides -> Nat]] /\ snd' \in [Channels -> 0 .. SndCap] /\ taken' \in [Channels -> Nat]
  /\ (\A d \in Channels : arrived'[d] - taken'[d] \in 0 .. RcvCap) /\ nospace' \in [Channels -> BOOLEAN]
  /\ (\A d \in Channels \ {c} : left'[d] = left[d] /\ snd'[d] = snd[d] /\ taken'[d] = taken[d] /\ nospace'[d] = nospace[d])
  /\ (\A s \in Sides : left'[c][s] <= left[c][s])
  /\ snd'[c] >= snd[c] /\ taken'[c] >= taken[c] /\ (nospace[c] => nospace'[c])
  /\ (left'[c][s0] > 0 => IF s0 = "send" THEN snd'[c] = SndCap /\ nospace'[c] ELSE taken'[c] = arrived[c])

\* A side that is done is skipped.
LEMMA NothingShifts ==
  ASSUME EdgesOK, NEW c \in Channels, NEW s0 \in Sides, left[c][s0] = 0, UNCHANGED moveVars, arrived' = arrived
  PROVE  Shifted(c, s0)
<1>1. left' = left /\ snd' = snd /\ taken' = taken /\ nospace' = nospace
  BY DEF moveVars
<1>2. (\A s \in Sides : left[c][s] \in Nat) /\ snd[c] \in Nat /\ taken[c] \in Nat
  BY TaskEdgesAssumption DEF EdgesOK
<1>3. (\A s \in Sides : left[c][s] <= left[c][s]) /\ snd[c] >= snd[c] /\ taken[c] >= taken[c] /\ ~(left[c][s0] > 0)
  BY <1>2
<1> QED BY <1>1, <1>3 DEF EdgesOK, Shifted

\* TrySend.
LEMMA SendShifts ==
  ASSUME EdgesOK, NEW c \in Channels, TrySend(c), arrived' = arrived
  PROVE  Shifted(c, "send")
<1>1. left[c] \in [Sides -> Nat] /\ left[c]["send"] \in Nat /\ left[c]["recv"] \in Nat
  BY DEF EdgesOK, Sides
<1>2. snd[c] \in Nat /\ snd[c] <= SndCap /\ SndCap \in Nat /\ taken[c] \in Nat
  BY TaskEdgesAssumption DEF EdgesOK
<1>3. PICK n : n = Moved(SndCap - snd[c], left[c]["send"])
  OBVIOUS
<1>4. /\ left' = [left EXCEPT ![c]["send"] = @ - n] /\ snd' = [snd EXCEPT ![c] = @ + n]
      /\ nospace' = [nospace EXCEPT ![c] = @ \/ n < left[c]["send"]] /\ taken' = taken
  BY <1>3 DEF TrySend
<1>5. SndCap - snd[c] \in Nat
  BY <1>2
<1>6. n \in Nat /\ n <= SndCap - snd[c] /\ n <= left[c]["send"] /\ (n = SndCap - snd[c] \/ n = left[c]["send"])
  BY <1>1, <1>3, <1>5, MovedFacts
<1>7. left[c]["send"] - n \in Nat /\ snd[c] + n \in 0 .. SndCap
  BY <1>1, <1>2, <1>6
<1>8. /\ left' \in [Channels -> [Sides -> Nat]] /\ left'[c]["send"] = left[c]["send"] - n
      /\ left'[c]["recv"] = left[c]["recv"] /\ (\A d \in Channels \ {c} : left'[d] = left[d])
  <2>1. [left[c] EXCEPT !["send"] = left[c]["send"] - n] \in [Sides -> Nat]
    BY <1>1, <1>7
  <2>2. left' = [left EXCEPT ![c] = [left[c] EXCEPT !["send"] = left[c]["send"] - n]]
    BY <1>4 DEF EdgesOK
  <2> QED BY <1>1, <2>1, <2>2 DEF EdgesOK, Sides
<1>9. snd' \in [Channels -> 0 .. SndCap] /\ snd'[c] = snd[c] + n /\ (\A d \in Channels \ {c} : snd'[d] = snd[d])
  BY <1>4, <1>7 DEF EdgesOK
<1>10. /\ nospace' \in [Channels -> BOOLEAN] /\ (nospace[c] => nospace'[c]) /\ (n < left[c]["send"] => nospace'[c])
       /\ (\A d \in Channels \ {c} : nospace'[d] = nospace[d])
  BY <1>4 DEF EdgesOK
<1>11. \A s \in Sides : left'[c][s] <= left[c][s]
  BY <1>1, <1>6, <1>8 DEF Sides
<1>12. left'[c]["send"] > 0 => snd'[c] = SndCap /\ nospace'[c]
  BY <1>1, <1>2, <1>6, <1>8, <1>9, <1>10
<1>13. taken' \in [Channels -> Nat] /\ (\A d \in Channels : taken'[d] = taken[d] /\ arrived'[d] - taken'[d] \in 0 .. RcvCap)
  BY <1>4 DEF EdgesOK
<1>14. snd'[c] >= snd[c] /\ taken'[c] >= taken[c]
  BY <1>2, <1>4, <1>6, <1>9
<1> QED BY <1>8, <1>9, <1>10, <1>11, <1>12, <1>13, <1>14 DEF Shifted

\* TryRecv.
LEMMA RecvShifts ==
  ASSUME EdgesOK, NEW c \in Channels, TryRecv(c), arrived' = arrived
  PROVE  Shifted(c, "recv")
<1>1. left[c] \in [Sides -> Nat] /\ left[c]["send"] \in Nat /\ left[c]["recv"] \in Nat
  BY DEF EdgesOK, Sides
<1>2. snd[c] \in Nat /\ RcvCap \in Nat /\ taken[c] \in Nat /\ arrived[c] \in Nat /\ arrived[c] - taken[c] \in 0 .. RcvCap
  BY TaskEdgesAssumption DEF EdgesOK
<1>3. PICK n : n = Moved(arrived[c] - taken[c], left[c]["recv"])
  OBVIOUS
<1>4. /\ left' = [left EXCEPT ![c]["recv"] = @ - n] /\ taken' = [taken EXCEPT ![c] = @ + n]
      /\ nospace' = nospace /\ snd' = snd
  BY <1>3 DEF TryRecv
<1>5. arrived[c] - taken[c] \in Nat
  BY <1>2
<1>6. n \in Nat /\ n <= arrived[c] - taken[c] /\ n <= left[c]["recv"] /\ (n = arrived[c] - taken[c] \/ n = left[c]["recv"])
  BY <1>1, <1>3, <1>5, MovedFacts
<1>7. left[c]["recv"] - n \in Nat /\ taken[c] + n \in Nat /\ arrived[c] - (taken[c] + n) \in 0 .. RcvCap
  BY <1>1, <1>2, <1>6
<1>8. /\ left' \in [Channels -> [Sides -> Nat]] /\ left'[c]["recv"] = left[c]["recv"] - n
      /\ left'[c]["send"] = left[c]["send"] /\ (\A d \in Channels \ {c} : left'[d] = left[d])
  <2>1. [left[c] EXCEPT !["recv"] = left[c]["recv"] - n] \in [Sides -> Nat]
    BY <1>1, <1>7
  <2>2. left' = [left EXCEPT ![c] = [left[c] EXCEPT !["recv"] = left[c]["recv"] - n]]
    BY <1>4 DEF EdgesOK
  <2> QED BY <1>1, <2>1, <2>2 DEF EdgesOK, Sides
<1>9. taken' \in [Channels -> Nat] /\ taken'[c] = taken[c] + n /\ (\A d \in Channels \ {c} : taken'[d] = taken[d])
  BY <1>4, <1>7 DEF EdgesOK
<1>10. \A d \in Channels : arrived'[d] - taken'[d] \in 0 .. RcvCap
  BY <1>7, <1>9 DEF EdgesOK
<1>11. \A s \in Sides : left'[c][s] <= left[c][s]
  BY <1>1, <1>6, <1>8 DEF Sides
<1>12. left'[c]["recv"] > 0 => taken'[c] = arrived[c]
  BY <1>1, <1>2, <1>6, <1>8, <1>9
<1>13. snd'[c] >= snd[c] /\ taken'[c] >= taken[c]
  BY <1>2, <1>4, <1>6, <1>9
<1>14. snd' \in [Channels -> 0 .. SndCap] /\ nospace' \in [Channels -> BOOLEAN]
  BY <1>4 DEF EdgesOK
<1> QED BY <1>4, <1>8, <1>9, <1>10, <1>11, <1>12, <1>13, <1>14 DEF Shifted

\* One side of PushBuffer.
LEMMA PushBufferMoves ==
  ASSUME EdgesOK, NEW th \in Threads, PushBuffer(th)
  PROVE  Moves(th) /\ phase' = phase
         /\ call'[th].todo = Tail(call[th].todo) /\ call'[th].steps = call[th].steps /\ call'[th].result = "running"
         /\ \A c \in {call[th].slot}, s \in Sides :
              /\ left'[c][s] <= left[c][s] /\ (IsReady(<<c, s>>)' => IsReady(<<c, s>>)) /\ (nospace[c] => nospace'[c])
              /\ (s = Head(call[th].todo) /\ left'[c][s] > 0 => ~IsReady(<<c, s>>)' /\ (s = "send" => nospace'[c]))
<1>0. call[th] \in Call /\ call[th].todo \in Seq(Sides) /\ call[th].todo # << >> /\ call[th].result = "running"
      /\ task[call[th].slot] > 0
  BY DEF EdgesOK, PushBuffer, InCall, Call
<1>a. PICK c \in Channels : c = call[th].slot
  BY <1>0 DEF Call
<1>b. PICK s0 \in Sides : s0 = Head(call[th].todo)
  BY <1>0
<1>c. PICK new : new = [call[th] EXCEPT !.todo = Tail(@)]
  OBVIOUS
<1>2. Tail(call[th].todo) \in Seq(Sides)
  BY <1>0
<1>3. new \in Call /\ new.slot = c /\ new.init = call[th].init /\ new.todo = Tail(call[th].todo) /\ new.steps = call[th].steps
      /\ new.result = "running"
  BY <1>0, <1>2, <1>a, <1>c DEF Call
<1>4. call' = [call EXCEPT ![th] = new]
  BY <1>c DEF PushBuffer
<1>5. UNCHANGED <<plan, task, phase, arrived, reg, ready>>
  BY DEF PushBuffer
<1>6. call' \in [Threads -> Call \cup {NoCall}] /\ call'[th] = new /\ (\A w \in Threads \ {th} : call'[w] = call[w])
  BY <1>3, <1>4 DEF EdgesOK
<1>7. \A w \in Threads : call'[w] # NoCall => task'[call'[w].slot] > 0
  BY <1>0, <1>a, <1>3, <1>5, <1>6 DEF EdgesOK
<1>8. Shifted(c, s0)
  <2>1. left[c][s0] \in Nat /\ (s0 = "send" \/ s0 = "recv")
    BY <1>a, <1>b DEF EdgesOK, Sides
  <2>2. CASE left[c][s0] = 0
    <3>1. UNCHANGED moveVars
      BY <1>a, <1>b, <2>2 DEF PushBuffer
    <3> QED BY <3>1, <2>2, <1>5, NothingShifts
  <2>3. CASE left[c][s0] > 0 /\ s0 = "send"
    <3>0. TrySend(call[th].slot)
      BY <1>a, <1>b, <2>1, <2>3 DEF PushBuffer
    <3>1. TrySend(c)
      BY <3>0, <1>a
    <3> QED BY <3>1, <2>3, <1>5, SendShifts
  <2>4. CASE left[c][s0] > 0 /\ s0 = "recv"
    <3>0. TryRecv(call[th].slot)
      BY <1>a, <1>b, <2>1, <2>4 DEF PushBuffer
    <3>1. TryRecv(c)
      BY <3>0, <1>a
    <3> QED BY <3>1, <2>4, <1>5, RecvShifts
  <2> QED BY <2>1, <2>2, <2>3, <2>4
<1>9. EdgesOK'
  BY <1>5, <1>6, <1>7, <1>8 DEF EdgesOK, Shifted
<1>10. DoneIdle => DoneIdle'
  <2> HAVE DoneIdle
  <2> SUFFICES ASSUME NEW d \in Channels, task[d] > 0, phase[d] > Len(plan[d][task[d]]), NEW s \in Sides
               PROVE  left'[d][s] = 0
    BY <1>5 DEF DoneIdle, TaskDone, Phases
  <2>1. left[d][s] = 0
    BY DEF DoneIdle, TaskDone, Phases
  <2>2. left'[d][s] <= left[d][s] /\ left'[d][s] \in Nat
    <3>1. CASE d = c
      BY <3>1, <1>8 DEF Shifted
    <3>2. CASE d # c
      BY <3>2, <1>8, <2>1 DEF Shifted
    <3> QED BY <3>1, <3>2
  <2> QED BY <2>1, <2>2
<1>11. Moves(th)
  BY <1>0, <1>a, <1>3, <1>5, <1>6, <1>8, <1>9, <1>10 DEF Moves, Shifted
<1>12. ASSUME NEW s \in Sides
       PROVE  /\ IsReady(<<c, s>>)' => IsReady(<<c, s>>)
              /\ s = s0 /\ left'[c][s] > 0 => ~IsReady(<<c, s>>)' /\ (s = "send" => nospace'[c])
  <2>1. /\ snd[c] \in Nat /\ snd'[c] \in Nat /\ SndCap \in Nat /\ arrived[c] \in Nat /\ taken[c] \in Nat /\ taken'[c] \in Nat
    BY <1>8, <1>9, TaskEdgesAssumption DEF EdgesOK
  <2>2. IsReady(<<c, s>>)' <=> IF s = "recv" THEN arrived[c] > taken'[c] ELSE snd'[c] < SndCap
    BY <1>5 DEF IsReady, Readable, Writable
  <2>3. IsReady(<<c, s>>) <=> IF s = "recv" THEN arrived[c] > taken[c] ELSE snd[c] < SndCap
    BY DEF IsReady, Readable, Writable
  <2> QED BY <2>1, <2>2, <2>3, <1>8 DEF Sides, Shifted
<1>13. \A s \in Sides : left'[c][s] <= left[c][s] /\ (nospace[c] => nospace'[c])
  BY <1>8 DEF Shifted
<1> QED BY <1>a, <1>b, <1>3, <1>5, <1>6, <1>11, <1>12, <1>13

\* A change of the call a thread is in that keeps its slot and its kind.
LEMMA CallProceeds ==
  ASSUME EdgesOK, NEW th \in Threads, call[th] \in Call, NEW x \in Call,
         x.slot = call[th].slot, x.init = call[th].init, call' = [call EXCEPT ![th] = x],
         UNCHANGED <<plan, task, phase, moveVars, arrived, reg, ready>>
  PROVE  Moves(th) /\ call'[th] = x
<1>1. call[th] # NoCall /\ x # NoCall
  BY CallIsCall
<1>2. x \in Call \cup {NoCall} /\ (x # NoCall => task[x.slot] > 0)
  BY <1>1 DEF EdgesOK
<1>3. UNCHANGED <<plan, task, phase, left, snd, arrived, taken, nospace, reg, ready>>
  BY DEF moveVars
<1>4. EdgesOK' /\ call'[th] = x /\ (\A w \in Threads \ {th} : call'[w] = call[w]) /\ (DoneIdle => DoneIdle')
  BY <1>2, <1>3, CallChange
<1> QED BY <1>3, <1>4 DEF Moves

\* The call a thread is in has the type of one.
LEMMA InCallType ==
  ASSUME EdgesOK, NEW th \in Threads, NEW r, InCall(th, r)
  PROVE  /\ call[th] \in Call /\ call[th].slot \in Channels /\ call[th].todo \in Seq(Sides)
         /\ call[th].steps \in Seq(Sides) /\ call[th].result = r /\ task[call[th].slot] > 0
BY DEF EdgesOK, InCall, Call

\* A push that fails.
LEMMA PushFailsMoves ==
  ASSUME EdgesOK, NEW th \in Threads, PushFails(th)
  PROVE  Moves(th) /\ call'[th].result = "failed" /\ call'[th].todo = call[th].todo /\ call'[th].steps = call[th].steps
         /\ UNCHANGED <<phase, moveVars>>
<1>1. call[th] \in Call
  BY InCallType DEF PushFails
<1>2. PICK x : x = [call[th] EXCEPT !.result = "failed"]
  OBVIOUS
<1>3. x \in Call /\ x.slot = call[th].slot /\ x.init = call[th].init /\ x.todo = call[th].todo /\ x.steps = call[th].steps
      /\ x.result = "failed"
  BY <1>1, <1>2 DEF Call
<1>4. call' = [call EXCEPT ![th] = x] /\ UNCHANGED <<plan, task, phase, moveVars, arrived, reg, ready>>
  BY <1>2 DEF PushFails
<1>5. Moves(th) /\ call'[th] = x
  BY <1>1, <1>3, <1>4, CallProceeds
<1> QED BY <1>3, <1>4, <1>5

\* On to the next phase.
LEMMA NextPhaseMoves ==
  ASSUME EdgesOK, NEW th \in Threads, NextPhase(th)
  PROVE  /\ Moves(th) /\ call'[th].result = "running" /\ call'[th].steps = call[th].steps
         /\ UNCHANGED <<snd, taken, nospace>>
         /\ \/ call'[th].todo = BothSides
            \/ \A s \in Sides : left'[call[th].slot][s] = 0
<1>1. /\ call[th] \in Call /\ call[th].slot \in Channels /\ call[th].todo \in Seq(Sides)
      /\ call[th].steps \in Seq(Sides) /\ call[th].result = "running" /\ task[call[th].slot] > 0
  BY InCallType DEF NextPhase
<1>2. PICK c \in Channels : c = call[th].slot
  BY <1>1
<1>3. PICK p \in Nat \ {0} : p = phase[c] + 1
  BY DEF EdgesOK
<1>4. PICK t \in 1 .. Len(plan[c]) : t = task[c]
  <2>1. task[c] \in Nat /\ task[c] > 0 /\ task[c] <= Len(plan[c])
    BY <1>1, <1>2 DEF EdgesOK
  <2>2. plan[c] \in Seq(Seq(Phase))
    BY TaskEdgesAssumption DEF EdgesOK
  <2> QED BY <2>1, <2>2
<1>5. /\ PhaseUnits(c, t, p) \in [Sides -> Nat]
      /\ (p > Len(Phases(c, t)) => \A s \in Sides : PhaseUnits(c, t, p)[s] = 0)
      /\ BeginPhase(c, t, p) \in Seq(Sides)
      /\ (p <= Len(Phases(c, t)) => BeginPhase(c, t, p) = BothSides)
      /\ Phases(c, t) \in Seq(Phase)
  BY PhaseUnitsType DEF EdgesOK
<1>6. PICK x : x = [call[th] EXCEPT !.todo = BeginPhase(c, t, p)]
  OBVIOUS
<1>7. x \in Call /\ x.slot = c /\ x.init = call[th].init /\ x.todo = BeginPhase(c, t, p) /\ x.steps = call[th].steps
      /\ x.result = "running"
  BY <1>1, <1>2, <1>5, <1>6 DEF Call
<1>8. /\ call' = [call EXCEPT ![th] = x] /\ phase' = [phase EXCEPT ![c] = p]
      /\ left' = [left EXCEPT ![c] = PhaseUnits(c, t, p)]
      /\ UNCHANGED <<plan, task, snd, sent, arrived, taken, nospace, reg, ready>>
  BY <1>2, <1>3, <1>4, <1>6 DEF NextPhase
<1>9. phase' \in [Channels -> Nat] /\ phase'[c] = p /\ (\A d \in Channels \ {c} : phase'[d] = phase[d])
  BY <1>8 DEF EdgesOK
<1>10. /\ left' \in [Channels -> [Sides -> Nat]] /\ left'[c] = PhaseUnits(c, t, p)
       /\ (\A d \in Channels \ {c} : left'[d] = left[d])
  BY <1>5, <1>8 DEF EdgesOK
<1>11. call' \in [Threads -> Call \cup {NoCall}] /\ call'[th] = x /\ (\A w \in Threads \ {th} : call'[w] = call[w])
  BY <1>7, <1>8 DEF EdgesOK
<1>12. \A w \in Threads : call'[w] # NoCall => task'[call'[w].slot] > 0
  BY <1>1, <1>2, <1>7, <1>8, <1>11 DEF EdgesOK
<1>13. EdgesOK'
  BY <1>8, <1>9, <1>10, <1>11, <1>12 DEF EdgesOK
<1>14. DoneIdle => DoneIdle'
  <2> HAVE DoneIdle
  <2> SUFFICES ASSUME NEW d \in Channels, task[d] > 0, phase'[d] > Len(plan[d][task[d]]), NEW s \in Sides
               PROVE  left'[d][s] = 0
    BY <1>8 DEF DoneIdle, TaskDone, Phases
  <2>1. CASE d = c
    BY <2>1, <1>4, <1>5, <1>9, <1>10 DEF Phases
  <2>2. CASE d # c
    BY <2>2, <1>9, <1>10 DEF DoneIdle, TaskDone, Phases
  <2> QED BY <2>1, <2>2
<1>15. Moves(th)
  BY <1>1, <1>2, <1>7, <1>8, <1>9, <1>10, <1>11, <1>13, <1>14 DEF Moves
<1>16. call'[th].todo = BothSides \/ \A s \in Sides : left'[c][s] = 0
  BY <1>5, <1>7, <1>10, <1>11
<1> QED BY <1>2, <1>7, <1>8, <1>11, <1>15, <1>16

\* The next CollectiveStep.
LEMMA NextStepMoves ==
  ASSUME EdgesOK, NEW th \in Threads, NextStep(th)
  PROVE  /\ Moves(th) /\ call'[th].result = "running" /\ UNCHANGED <<phase, moveVars>>
         /\ call'[th].todo = (IF TaskDone(call[th].slot) THEN << >> ELSE <<Head(call[th].steps)>>)
         /\ call'[th].steps = Tail(call[th].steps)
<1>1. /\ call[th] \in Call /\ call[th].slot \in Channels /\ call[th].todo \in Seq(Sides)
      /\ call[th].steps \in Seq(Sides) /\ call[th].result = "running" /\ call[th].steps # << >>
  BY InCallType DEF NextStep
<1>2. PICK todo : todo = IF TaskDone(call[th].slot) THEN << >> ELSE <<Head(call[th].steps)>>
  OBVIOUS
<1>3. todo \in Seq(Sides) /\ Tail(call[th].steps) \in Seq(Sides)
  <2>1. Head(call[th].steps) \in Sides
    BY <1>1
  <2>2. << >> \in Seq(Sides) /\ <<Head(call[th].steps)>> \in Seq(Sides)
    BY <2>1
  <2> QED BY <1>1, <1>2, <2>2
<1>4. PICK x : x = [call[th] EXCEPT !.todo = todo, !.steps = Tail(@)]
  OBVIOUS
<1>5. x \in Call /\ x.slot = call[th].slot /\ x.init = call[th].init /\ x.todo = todo /\ x.steps = Tail(call[th].steps)
      /\ x.result = "running"
  BY <1>1, <1>3, <1>4 DEF Call
<1>6. call' = [call EXCEPT ![th] = x] /\ UNCHANGED <<plan, task, phase, moveVars, arrived, reg, ready>>
  BY <1>2, <1>4 DEF NextStep
<1>7. Moves(th) /\ call'[th] = x
  BY <1>1, <1>5, <1>6, CallProceeds
<1> QED BY <1>2, <1>5, <1>6, <1>7

\* The call is over.
LEMMA CallReturnsMoves ==
  ASSUME EdgesOK, NEW th \in Threads, CallReturns(th)
  PROVE  /\ Moves(th) /\ call'[th].result = "ok" /\ UNCHANGED <<phase, moveVars>>
         /\ call[th].todo = << >> /\ call[th].steps = << >> /\ call'[th].todo = << >> /\ call'[th].steps = << >>
<1>1. call[th] \in Call /\ call[th].todo = << >> /\ call[th].steps = << >>
  BY InCallType DEF CallReturns
<1>2. PICK x : x = [call[th] EXCEPT !.result = "ok"]
  OBVIOUS
<1>3. x \in Call /\ x.slot = call[th].slot /\ x.init = call[th].init /\ x.todo = call[th].todo /\ x.steps = call[th].steps
      /\ x.result = "ok"
  BY <1>1, <1>2 DEF Call
<1>4. call' = [call EXCEPT ![th] = x] /\ UNCHANGED <<plan, task, phase, moveVars, arrived, reg, ready>>
  BY <1>2 DEF CallReturns
<1>5. Moves(th) /\ call'[th] = x
  BY <1>1, <1>3, <1>4, CallProceeds
<1> QED BY <1>1, <1>3, <1>4, <1>5

\* Any step of the Topology.
LEMMA TopologyMoves ==
  ASSUME EdgesOK, NEW th \in Threads, Topology(th)
  PROVE  Moves(th)
BY PushBufferMoves, PushFailsMoves, NextPhaseMoves, NextStepMoves, CallReturnsMoves DEF Topology

-----------------------------------------------------------------------------
(* The kernel and the epoll set *)

\* Data arrives.
LEMMA ArriveKeeps ==
  ASSUME EdgesOK, NEW c \in Channels, Arrive(c)
  PROVE  /\ EdgesOK' /\ (DoneIdle => DoneIdle')
         /\ UNCHANGED <<plan, task, phase, left, snd, taken, nospace, reg, call>>
         /\ (\A d \in Channels \ {c} : arrived'[d] = arrived[d])
         /\ ready \subseteq ready' /\ (<<c, "recv">> \in reg => <<c, "recv">> \in ready')
<1>1. UNCHANGED <<plan, task, phase, left, snd, taken, nospace, reg, call>>
  BY DEF Arrive
<1>2. arrived[c] \in Nat /\ taken[c] \in Nat /\ RcvCap \in Nat /\ arrived[c] - taken[c] < RcvCap /\ arrived[c] - taken[c] >= 0
  BY TaskEdgesAssumption DEF EdgesOK, Arrive
<1>3. arrived' \in [Channels -> Nat] /\ arrived'[c] = arrived[c] + 1 /\ (\A d \in Channels \ {c} : arrived'[d] = arrived[d])
  BY <1>2 DEF EdgesOK, Arrive
<1>4. \A d \in Channels : arrived'[d] - taken'[d] \in 0 .. RcvCap
  <2> TAKE d \in Channels
  <2>1. CASE d = c
    BY <2>1, <1>1, <1>2, <1>3
  <2>2. CASE d # c
    BY <2>2, <1>1, <1>3 DEF EdgesOK
  <2> QED BY <2>1, <2>2
<1>5. ready \subseteq ready' /\ (<<c, "recv">> \in reg => <<c, "recv">> \in ready') /\ (ready \subseteq reg => ready' \subseteq reg)
  BY DEF Arrive
<1>6. EdgesOK'
  BY <1>1, <1>3, <1>4, <1>5 DEF EdgesOK
<1>7. DoneIdle => DoneIdle'
  BY <1>1 DEF DoneIdle, TaskDone, Phases
<1> QED BY <1>1, <1>3, <1>5, <1>6, <1>7

\* The neighbour takes data.
LEMMA DrainKeeps ==
  ASSUME EdgesOK, NEW c \in Channels, Drain(c)
  PROVE  /\ EdgesOK' /\ (DoneIdle => DoneIdle')
         /\ UNCHANGED <<plan, task, phase, left, arrived, taken, reg, call>>
         /\ (\A d \in Channels \ {c} : snd'[d] = snd[d] /\ nospace'[d] = nospace[d])
         /\ ready \subseteq ready' /\ (nospace[c] /\ <<c, "send">> \in reg => <<c, "send">> \in ready')
<1>1. UNCHANGED <<plan, task, phase, left, arrived, taken, reg, call>>
  BY DEF Drain
<1>2. snd[c] \in Nat /\ SndCap \in Nat /\ snd[c] <= SndCap /\ snd[c] > 0
  BY TaskEdgesAssumption DEF EdgesOK, Drain
<1>3. snd' \in [Channels -> 0 .. SndCap] /\ (\A d \in Channels \ {c} : snd'[d] = snd[d])
  BY <1>2 DEF EdgesOK, Drain
<1>4. nospace' \in [Channels -> BOOLEAN] /\ (\A d \in Channels \ {c} : nospace'[d] = nospace[d])
  BY DEF EdgesOK, Drain
<1>5. /\ ready \subseteq ready' /\ (nospace[c] /\ <<c, "send">> \in reg => <<c, "send">> \in ready')
      /\ (ready \subseteq reg => ready' \subseteq reg)
  BY DEF Drain
<1>6. EdgesOK'
  BY <1>1, <1>3, <1>4, <1>5 DEF EdgesOK
<1>7. DoneIdle => DoneIdle'
  BY <1>1 DEF DoneIdle, TaskDone, Phases
<1> QED BY <1>1, <1>3, <1>4, <1>5, <1>6, <1>7

\* A poll notes the full send buffers it meets.
LEMMA PollMarksType ==
  ASSUME EdgesOK, NEW es
  PROVE  /\ PollMarks(es) \in [Channels -> BOOLEAN]
         /\ (\A c \in Channels : nospace[c] => PollMarks(es)[c])
         /\ (\A c \in Channels : <<c, "send">> \in es /\ ~Writable(c) => PollMarks(es)[c])
BY DEF PollMarks, EdgesOK

\* A change of the epoll set alone.
LEMMA WatchChange ==
  ASSUME EdgesOK, nospace' \in [Channels -> BOOLEAN], reg' \subseteq Channels \X Sides, ready' \subseteq reg',
         UNCHANGED <<plan, task, phase, left, snd, arrived, taken, call>>
  PROVE  EdgesOK' /\ (DoneIdle => DoneIdle')
<1>1. EdgesOK'
  BY DEF EdgesOK
<1>2. DoneIdle => DoneIdle'
  BY DEF DoneIdle, TaskDone, Phases
<1> QED BY <1>1, <1>2

\* The channels with a current task are finitely many.
LEMMA CurrentFinite == IsFiniteSet(CurrentSet) /\ IsFiniteSet(Channels) /\ Cardinality(Channels) = ChannelCount
<1>1. IsFiniteSet(Channels) /\ Cardinality(Channels) = ChannelCount
  BY FS_Interval, TaskEdgesAssumption DEF Channels
<1> QED BY <1>1, FS_Subset DEF CurrentSet

\* The initial state of the channels.
LEMMA EdgesBegin ==
  ASSUME EdgesInit
  PROVE  EdgesOK /\ DoneIdle /\ (\A c \in Channels : task[c] = 0) /\ (\A th \in Threads : call[th] = NoCall) /\ reg = {}
<1>1. SndCap \in Nat /\ RcvCap \in Nat /\ (\A c \in Channels : plan[c] \in Seq(Seq(Phase)))
  BY TaskEdgesAssumption DEF EdgesInit
<1>2. (\A c \in Channels : task[c] = 0) /\ (\A th \in Threads : call[th] = NoCall) /\ reg = {}
  BY DEF EdgesInit
<1>3. DoneIdle
  BY <1>2 DEF DoneIdle
<1>4. \A c \in Channels : task[c] <= Len(plan[c])
  BY <1>1, <1>2
<1>5. \A c \in Channels : arrived[c] - taken[c] \in 0 .. RcvCap
  BY <1>1 DEF EdgesInit
<1>6. EdgesOK
  BY <1>1, <1>2, <1>4, <1>5 DEF EdgesInit, EdgesOK
<1> QED BY <1>2, <1>3, <1>6

\* A finished channel stays so while its task and phase do.
LEMMA StillFinished ==
  ASSUME NEW c \in Channels, Finished(c), plan' = plan, task'[c] = task[c], phase'[c] = phase[c]
  PROVE  Finished(c)'
BY DEF Finished, TaskDone, Phases

-----------------------------------------------------------------------------
(* EpollExecutor *)

\* Its copies of the operators of TaskEdges are those operators.
LEMMA EpollCardinality ==
  ASSUME NEW S
  PROVE  Epoll!Cardinality(S) = Cardinality(S)
BY Zenon DEF Epoll!Cardinality, Cardinality

\* The same for the tests on a task and the calls of the Topology.
LEMMA EpollTopology ==
  ASSUME NEW th \in Threads, Epoll!Topology(th)
  PROVE  Topology(th)
<1>1. CASE Epoll!PushBuffer(th)
  <2>1. Epoll!InCall(th, "running") <=> InCall(th, "running")
    BY DEF Epoll!InCall, InCall, Epoll!NoCall, NoCall
  <2>2. \A a, b : Epoll!Moved(a, b) = Moved(a, b)
    BY DEF Epoll!Moved, Moved, Epoll!Min, Min
  <2>3. PushBuffer(th)
    BY <1>1, <2>1, <2>2 DEF Epoll!PushBuffer, PushBuffer, Epoll!TrySend, TrySend, Epoll!TryRecv, TryRecv,
                            Epoll!moveVars, moveVars
  <2> QED BY <2>3 DEF Topology
<1>2. CASE Epoll!PushFails(th)
  BY <1>2 DEF Epoll!PushFails, PushFails, Epoll!InCall, InCall, Epoll!NoCall, NoCall, Epoll!moveVars, moveVars, Topology
<1>3. CASE Epoll!NextPhase(th)
  <2>1. NextPhase(th)
    BY <1>3 DEF Epoll!NextPhase, NextPhase, Epoll!InCall, InCall, Epoll!NoCall, NoCall, Epoll!PhaseOver, PhaseOver,
                Epoll!TaskDone, TaskDone, Epoll!Phases, Phases, Epoll!Sides, Sides, Epoll!PhaseUnits, PhaseUnits,
                Epoll!BeginPhase, BeginPhase, Epoll!BothSides, BothSides
  <2> QED BY <2>1 DEF Topology
<1>4. CASE Epoll!NextStep(th)
  <2>1. NextStep(th)
    BY <1>4 DEF Epoll!NextStep, NextStep, Epoll!InCall, InCall, Epoll!NoCall, NoCall, Epoll!PhaseOver, PhaseOver,
                Epoll!TaskDone, TaskDone, Epoll!Phases, Phases, Epoll!Sides, Sides, Epoll!moveVars, moveVars
  <2> QED BY <2>1 DEF Topology
<1>5. CASE Epoll!CallReturns(th)
  <2>1. CallReturns(th)
    BY <1>5 DEF Epoll!CallReturns, CallReturns, Epoll!InCall, InCall, Epoll!NoCall, NoCall, Epoll!PhaseOver, PhaseOver,
                Epoll!TaskDone, TaskDone, Epoll!Phases, Phases, Epoll!Sides, Sides, Epoll!moveVars, moveVars
  <2> QED BY <2>1 DEF Topology
<1> QED BY <1>1, <1>2, <1>3, <1>4, <1>5 DEF Epoll!Topology

\* The channel at hand is not among those still to start.
LEMMA SlotStarted ==
  ASSUME EpollInv
  PROVE  slot \in Channels \ Unstarted /\ (boot = << >> => Unstarted = {})
         /\ (boot # << >> => Head(boot) \in Unstarted /\ Head(boot) = slot + 1)
<1>1. /\ ChannelCount \in Nat /\ Len(boot) \in Nat /\ slot \in Channels /\ boot \in Seq(Channels)
      /\ (\A i \in DOMAIN boot : boot[i] = ChannelCount - Len(boot) + i) /\ (boot # << >> => slot = ChannelCount - Len(boot))
  BY TaskEdgesAssumption DEF EpollInv, EpollTypes, RunOK
<1>2. CASE boot = << >>
  BY <1>1, <1>2 DEF Unstarted, Channels
<1>3. CASE boot # << >>
  <2>1. Len(boot) > 0 /\ 1 \in DOMAIN boot /\ Head(boot) = boot[1]
    BY <1>1, <1>3
  <2>2. Head(boot) = slot + 1 /\ Head(boot) \in Channels
    BY <1>1, <1>3, <2>1
  <2> QED BY <1>1, <1>3, <2>1, <2>2 DEF Unstarted, Channels
<1> QED BY <1>2, <1>3

\* AfterStart moves on to the next channel of the first loop, if any.
LEMMA BootMoves ==
  ASSUME EpollInv, pc \in {"start", "init"},
         \/ boot # << >> /\ pc' = "start" /\ slot' = Head(boot) /\ boot' = Tail(boot)
         \/ boot = << >> /\ pc' = "handle" /\ UNCHANGED <<slot, boot>>
  PROVE  /\ slot' \in Channels /\ boot' \in Seq(Channels) /\ Len(boot') < ChannelCount
         /\ (\A i \in DOMAIN boot' : boot'[i] = ChannelCount - Len(boot') + i)
         /\ (boot' # << >> => slot' = ChannelCount - Len(boot')) /\ (boot' # << >> => pc' = "start")
         /\ \/ pc' = "start" /\ slot' \in Unstarted /\ slot' # slot /\ Unstarted = Unstarted' \cup {slot'} /\ slot' \notin Unstarted'
            \/ pc' = "handle" /\ slot' = slot /\ Unstarted = {} /\ Unstarted' = {}
<1>1. /\ ChannelCount \in Nat /\ Len(boot) \in Nat /\ slot \in Channels /\ boot \in Seq(Channels) /\ Len(boot) < ChannelCount
      /\ (\A i \in DOMAIN boot : boot[i] = ChannelCount - Len(boot) + i) /\ (boot # << >> => slot = ChannelCount - Len(boot))
  BY TaskEdgesAssumption DEF EpollInv, EpollTypes, RunOK
<1>2. CASE boot = << >>
  BY <1>1, <1>2, SlotStarted DEF Unstarted
<1>3. CASE boot # << >>
  <2>1. /\ slot' = slot + 1 /\ slot' \in Unstarted /\ slot' # slot /\ boot' = Tail(boot) /\ pc' = "start"
    BY <1>1, <1>3, SlotStarted DEF Channels
  <2>2. boot' \in Seq(Channels) /\ Len(boot') = Len(boot) - 1 /\ (\A i \in DOMAIN boot' : boot'[i] = boot[i + 1] /\ i + 1 \in DOMAIN boot /\ i \in Nat)
    BY <1>1, <1>3, <2>1
  <2>3. \A i \in DOMAIN boot' : boot'[i] = ChannelCount - Len(boot') + i
    BY <1>1, <2>2
  <2>4. slot' = ChannelCount - Len(boot') /\ Len(boot') < ChannelCount
    BY <1>1, <1>3, <2>1, <2>2
  <2>5. \A d \in Channels : d > ChannelCount - Len(boot) <=> d > ChannelCount - Len(boot') \/ d = slot'
    BY <1>1, <1>3, <2>1, <2>2 DEF Channels
  <2>6. slot' \in Channels
    BY <2>1 DEF Unstarted
  <2>7. Unstarted = Unstarted' \cup {slot'} /\ slot' \notin Unstarted'
    BY <2>4, <2>5, <2>6, <1>1, <2>2 DEF Unstarted, Channels
  <2> QED BY <2>1, <2>2, <2>3, <2>4, <2>6, <2>7
<1> QED BY <1>2, <1>3

\* start() calls CollectiveInit of the next task.
LEMMA EpollStartInitKeeps ==
  ASSUME EpollInv, Epoll!StartInit
  PROVE  EpollInv'
<1>1. /\ pc = "start" /\ task[slot] < Len(plan[slot]) /\ CallInit(Main, slot, task[slot] + 1) /\ pc' = "init"
      /\ UNCHANGED <<plan, snd, arrived, taken, nospace, reg, ready, slot, boot, current, active, events, ok>>
  BY DEF Epoll!StartInit, Epoll!CallInit, CallInit, Epoll!PhaseUnits, PhaseUnits, Epoll!BeginPhase, BeginPhase, Epoll!Phases, Phases, Epoll!BothSides, BothSides, Epoll!Sides, Sides
<1>2. PICK c \in Channels : c = slot
  BY DEF EpollInv, RunOK
<1>3. PICK t \in 1 .. Len(plan[c]) : t = task[c] + 1
  <2>1. task[c] \in Nat /\ Len(plan[c]) \in Nat /\ task[c] < Len(plan[c])
    BY <1>1, <1>2, TaskEdgesAssumption DEF EpollInv, EdgesOK
  <2> QED BY <2>1
<1>e. /\ EdgesOK' /\ DoneIdle' /\ call'[Main] \in Call /\ call'[Main].slot = c /\ call'[Main].result = "running"
      /\ task' = [task EXCEPT ![c] = t] /\ (\A d \in Channels \ {c} : phase'[d] = phase[d] /\ left'[d] = left[d])
  BY <1>1, <1>2, <1>3, InitCall, ExecutorsAssumption DEF EpollInv
<1>4. task'[c] = t /\ t > 0 /\ (\A d \in Channels \ {c} : task'[d] = task[d])
  BY <1>e DEF EpollInv, EdgesOK
<1>22. RunOK'
  BY <1>1, <1>2, <1>4 DEF EpollInv, RunOK, EpollProgress
<1>23. EpollTypes'
  BY <1>1, <1>e DEF EpollInv, EpollTypes, RunOK
<1>24. EpollCalls'
  BY <1>1, <1>2, <1>4, <1>e DEF EpollInv, EpollCalls, RunOK
<1>25. EpollCounts'
  BY <1>1, <1>e DEF EpollInv, EpollCounts, RunOK, CurrentSet, EpollTypes
<1>26. EpollProgress'
  <2>1. c \notin Unstarted /\ Unstarted' = Unstarted
    BY <1>1, <1>2, SlotStarted DEF Unstarted
  <2>2. ASSUME NEW d \in Channels \ {c}, Finished(d) PROVE Finished(d)'
    BY <1>1, <1>4, <1>e, <2>2 DEF Finished, TaskDone, Phases
  <2>3. \A d \in Unstarted' : current'[d] = 0 /\ task'[d] = 0
    BY <1>1, <1>4, <2>1 DEF EpollInv, EpollProgress, Unstarted
  <2>4. \A d \in Channels \ Unstarted' : current'[d] = 0 /\ d # slot' => Finished(d)'
    BY <1>1, <1>2, <2>1, <2>2 DEF EpollInv, EpollProgress
  <2> QED BY <1>1, <1>2, <2>3, <2>4 DEF EpollInv, EpollProgress
<1>27. EpollAnnounced'
  <2> SUFFICES ASSUME NEW d \in Channels, NEW s \in Sides, current[d] # 0, left'[d][s] > 0
               PROVE  Announced(d, s)'
    BY <1>1 DEF EpollAnnounced
  <2>1. d # c
    BY <1>1, <1>2 DEF EpollInv, EpollProgress
  <2>2. Announced(d, s)
    BY <1>1, <1>2, <1>e, <2>1 DEF EpollInv, EpollAnnounced
  <2> QED BY <1>1, <2>2 DEF Announced, IsReady, Readable, Writable
<1>28. EpollExit'
  BY <1>1, <1>e DEF EpollInv, EpollExit
<1> QED BY <1>e, <1>22, <1>23, <1>24, <1>25, <1>26, <1>27, <1>28 DEF EpollInv

\* start() finds no task left.
LEMMA EpollStartNoneKeeps ==
  ASSUME EpollInv, Epoll!StartNone
  PROVE  EpollInv'
<1>1. /\ pc = "start" /\ task[slot] = Len(plan[slot])
      /\ \/ boot # << >> /\ pc' = "start" /\ slot' = Head(boot) /\ boot' = Tail(boot)
         \/ boot = << >> /\ pc' = "handle" /\ UNCHANGED <<slot, boot>>
      /\ UNCHANGED <<plan, task, phase, left, snd, arrived, taken, nospace, reg, ready, call, current, active, events, ok>>
  BY DEF Epoll!StartNone, Epoll!AfterStart, Epoll!edgeVars
<1>2. /\ slot' \in Channels /\ boot' \in Seq(Channels) /\ Len(boot') < ChannelCount
      /\ (\A i \in DOMAIN boot' : boot'[i] = ChannelCount - Len(boot') + i)
      /\ (boot' # << >> => slot' = ChannelCount - Len(boot')) /\ (boot' # << >> => pc' = "start")
      /\ \/ pc' = "start" /\ slot' \in Unstarted /\ slot' # slot /\ Unstarted = Unstarted' \cup {slot'} /\ slot' \notin Unstarted'
         \/ pc' = "handle" /\ slot' = slot /\ Unstarted = {} /\ Unstarted' = {}
  BY <1>1, BootMoves
<1>e. EdgesOK' /\ DoneIdle'
  BY <1>1 DEF EpollInv, EdgesOK, DoneIdle, TaskDone, Phases
<1>22. RunOK'
  BY <1>1, <1>2 DEF EpollInv, RunOK
<1>23. EpollTypes'
  BY <1>1, <1>2 DEF EpollInv, EpollTypes
<1>24. EpollCalls'
  BY <1>1 DEF EpollInv, EpollCalls
<1>25. EpollCounts'
  BY <1>1 DEF EpollInv, EpollCounts, CurrentSet, EdgesOf
<1>26. EpollProgress'
  <2>1. slot \in Channels \ Unstarted /\ Finished(slot)
    BY <1>1, SlotStarted DEF EpollInv, EpollProgress, Finished, Over
  <2>2. ASSUME NEW d \in Channels, Finished(d) PROVE Finished(d)'
    BY <1>1, <2>2 DEF Finished, TaskDone, Phases
  <2>3. \A d \in Unstarted' : current'[d] = 0 /\ task'[d] = 0
    BY <1>1, <1>2 DEF EpollInv, EpollProgress
  <2>4. pc' = "start" => current'[slot'] = 0 /\ Over(slot)'
    BY <1>1, <1>2 DEF EpollInv, EpollProgress, Over
  <2>5. \A d \in Channels \ Unstarted' : current'[d] = 0 /\ (pc' \in {"start", "init"} => d # slot') => Finished(d)'
    BY <1>1, <1>2, <2>1, <2>2 DEF EpollInv, EpollProgress
  <2> QED BY <1>2, <2>3, <2>4, <2>5 DEF EpollProgress
<1>27. EpollAnnounced'
  <2> SUFFICES ASSUME NEW d \in Channels, NEW s \in Sides, current[d] # 0, left[d][s] > 0
               PROVE  Announced(d, s)'
    BY <1>1 DEF EpollAnnounced
  <2>1. Announced(d, s)
    BY <1>1 DEF EpollInv, EpollAnnounced
  <2> QED BY <1>1, <2>1 DEF Announced, IsReady, Readable, Writable
<1>28. EpollExit'
  BY <1>1, <1>e DEF EpollInv, EpollExit
<1> QED BY <1>e, <1>22, <1>23, <1>24, <1>25, <1>26, <1>27, <1>28 DEF EpollInv

\* CollectiveInit fails.
LEMMA EpollInitFailsKeeps ==
  ASSUME EpollInv, Epoll!InitFails
  PROVE  EpollInv'
<1>1. /\ pc = "init" /\ call' = [call EXCEPT ![Main] = NoCall] /\ pc' = "returned" /\ ok' = FALSE
      /\ reg' = reg \ (CurrentSet \X Sides) /\ ready' = ready \ (CurrentSet \X Sides)
      /\ UNCHANGED <<plan, task, phase, moveVars, arrived, slot, boot, current, active, events>>
  BY DEF Epoll!InitFails, Epoll!AbortPlan, Epoll!UnregisterTasks, Epoll!NoCall, NoCall, Epoll!moveVars, moveVars, CurrentSet, Epoll!Channels, Channels, Epoll!Sides, Sides
<1>e. EdgesOK' /\ DoneIdle' /\ call'[Main] = NoCall
  <2>1. call' \in [Threads -> Call \cup {NoCall}] /\ call'[Main] = NoCall /\ (\A w \in Threads \ {Main} : call'[w] = call[w])
    BY <1>1, ExecutorsAssumption DEF EpollInv, EdgesOK
  <2>2. EdgesOK'
    BY <1>1, <2>1 DEF EpollInv, EdgesOK, moveVars
  <2>3. DoneIdle'
    BY <1>1 DEF EpollInv, DoneIdle, TaskDone, Phases, moveVars
  <2> QED BY <2>1, <2>2, <2>3
<1>22. RunOK'
  BY <1>1, <1>e DEF EpollInv, RunOK
<1>23. EpollTypes'
  BY <1>1, <1>e DEF EpollInv, EpollTypes, RunOK
<1>24. EpollCalls'
  BY <1>1, <1>e DEF EpollInv, EpollCalls, RunOK, EpollTypes
<1>25. EpollCounts'
  BY <1>1, <1>e DEF EpollInv, EpollCounts, RunOK, CurrentSet, EpollTypes
<1>26. EpollProgress'
  BY <1>1, <1>e DEF EpollInv, EpollProgress, RunOK, EpollTypes, Finished, Over, TaskDone, Phases, Unstarted, CurrentSet
<1>27. EpollAnnounced'
  BY <1>1, <1>e DEF EpollInv, EpollAnnounced, EpollProgress, RunOK, EpollCalls, Announced, IsReady, Readable, Writable, ToPush
<1>28. EpollExit'
  <2>1. reg = UNION {EdgesOf(d) : d \in CurrentSet}
    BY <1>1 DEF EpollInv, EpollCounts
  <2>2. reg' = {}
    BY <1>1, <2>1 DEF EdgesOf
  <2> QED BY <1>1, <2>2 DEF EpollExit
<1> QED BY <1>e, <1>22, <1>23, <1>24, <1>25, <1>26, <1>27, <1>28 DEF EpollInv

\* A step fails.
LEMMA EpollStepFailsKeeps ==
  ASSUME EpollInv, Epoll!StepFails
  PROVE  EpollInv'
<1>1. /\ pc = "step" /\ call' = [call EXCEPT ![Main] = NoCall] /\ pc' = "returned" /\ ok' = FALSE
      /\ reg' = reg \ (CurrentSet \X Sides) /\ ready' = ready \ (CurrentSet \X Sides)
      /\ UNCHANGED <<plan, task, phase, moveVars, arrived, slot, boot, current, active, events>>
  BY DEF Epoll!StepFails, Epoll!AbortPlan, Epoll!UnregisterTasks, Epoll!NoCall, NoCall, Epoll!moveVars, moveVars, CurrentSet, Epoll!Channels, Channels, Epoll!Sides, Sides
<1>e. EdgesOK' /\ DoneIdle' /\ call'[Main] = NoCall
  <2>1. call' \in [Threads -> Call \cup {NoCall}] /\ call'[Main] = NoCall /\ (\A w \in Threads \ {Main} : call'[w] = call[w])
    BY <1>1, ExecutorsAssumption DEF EpollInv, EdgesOK
  <2>2. EdgesOK'
    BY <1>1, <2>1 DEF EpollInv, EdgesOK, moveVars
  <2>3. DoneIdle'
    BY <1>1 DEF EpollInv, DoneIdle, TaskDone, Phases, moveVars
  <2> QED BY <2>1, <2>2, <2>3
<1>22. RunOK'
  BY <1>1, <1>e DEF EpollInv, RunOK
<1>23. EpollTypes'
  BY <1>1, <1>e DEF EpollInv, EpollTypes, RunOK
<1>24. EpollCalls'
  BY <1>1, <1>e DEF EpollInv, EpollCalls, RunOK, EpollTypes
<1>25. EpollCounts'
  BY <1>1, <1>e DEF EpollInv, EpollCounts, RunOK, CurrentSet, EpollTypes
<1>26. EpollProgress'
  BY <1>1, <1>e DEF EpollInv, EpollProgress, RunOK, EpollTypes, Finished, Over, TaskDone, Phases, Unstarted, CurrentSet
<1>27. EpollAnnounced'
  BY <1>1, <1>e DEF EpollInv, EpollAnnounced, EpollProgress, RunOK, EpollCalls, Announced, IsReady, Readable, Writable, ToPush
<1>28. EpollExit'
  <2>1. reg = UNION {EdgesOf(d) : d \in CurrentSet}
    BY <1>1 DEF EpollInv, EpollCounts
  <2>2. reg' = {}
    BY <1>1, <2>1 DEF EdgesOf
  <2> QED BY <1>1, <2>2 DEF EpollExit
<1> QED BY <1>e, <1>22, <1>23, <1>24, <1>25, <1>26, <1>27, <1>28 DEF EpollInv

\* A task that is done after its init is skipped.
LEMMA EpollInitSkipsKeeps ==
  ASSUME EpollInv, Epoll!InitSkips
  PROVE  EpollInv'
<1>1. /\ pc = "init" /\ InCall(Main, "ok") /\ TaskDone(slot) /\ call' = [call EXCEPT ![Main] = NoCall] /\ pc' = "start"
      /\ UNCHANGED <<plan, task, phase, moveVars, arrived, reg, ready, slot, boot, current, active, events, ok>>
  BY DEF Epoll!InitSkips, Epoll!InCall, InCall, Epoll!NoCall, NoCall, Epoll!TaskDone, TaskDone, Epoll!Phases, Phases, Epoll!moveVars, moveVars
<1>e. EdgesOK' /\ DoneIdle' /\ call'[Main] = NoCall
  <2>1. NoCall \in Call \cup {NoCall} /\ Main \in Threads
    BY ExecutorsAssumption
  <2> QED BY <1>1, <2>1, CallChange DEF EpollInv, moveVars
<1>22. RunOK'
  BY <1>1, <1>e DEF EpollInv, RunOK
<1>23. EpollTypes'
  BY <1>1, <1>e DEF EpollInv, EpollTypes, RunOK
<1>24. EpollCalls'
  BY <1>1, <1>e DEF EpollInv, EpollCalls, RunOK, EpollTypes
<1>25. EpollCounts'
  BY <1>1, <1>e DEF EpollInv, EpollCounts, RunOK, CurrentSet, EpollTypes
<1>26. EpollProgress'
  BY <1>1, <1>e DEF EpollInv, EpollProgress, RunOK, EpollTypes, Finished, Over, TaskDone, Phases, Unstarted, CurrentSet
<1>27. EpollAnnounced'
  <2>0. left' = left /\ snd' = snd /\ taken' = taken /\ nospace' = nospace
    BY <1>1 DEF moveVars
  <2> SUFFICES ASSUME NEW d \in Channels, NEW s \in Sides, current[d] # 0, left[d][s] > 0
               PROVE  Announced(d, s)'
    BY <1>1, <2>0 DEF EpollAnnounced
  <2>1. Announced(d, s)
    BY <1>1 DEF EpollInv, EpollAnnounced
  <2> QED BY <1>1, <2>0, <2>1 DEF Announced, IsReady, Readable, Writable
<1>28. EpollExit'
  BY <1>1, <1>e DEF EpollInv, EpollExit
<1> QED BY <1>e, <1>22, <1>23, <1>24, <1>25, <1>26, <1>27, <1>28 DEF EpollInv

\* A step leaves the task waiting.
LEMMA EpollStepWaitsKeeps ==
  ASSUME EpollInv, Epoll!StepWaits
  PROVE  EpollInv'
<1>1. /\ pc = "step" /\ InCall(Main, "ok") /\ ~TaskDone(slot) /\ call' = [call EXCEPT ![Main] = NoCall] /\ pc' = "handle"
      /\ UNCHANGED <<plan, task, phase, moveVars, arrived, reg, ready, slot, boot, current, active, events, ok>>
  BY DEF Epoll!StepWaits, Epoll!InCall, InCall, Epoll!NoCall, NoCall, Epoll!TaskDone, TaskDone, Epoll!Phases, Phases, Epoll!moveVars, moveVars
<1>e. EdgesOK' /\ DoneIdle' /\ call'[Main] = NoCall
  <2>1. NoCall \in Call \cup {NoCall} /\ Main \in Threads
    BY ExecutorsAssumption
  <2> QED BY <1>1, <2>1, CallChange DEF EpollInv, moveVars
<1>22. RunOK'
  BY <1>1, <1>e DEF EpollInv, RunOK
<1>23. EpollTypes'
  BY <1>1, <1>e DEF EpollInv, EpollTypes, RunOK
<1>24. EpollCalls'
  BY <1>1, <1>e DEF EpollInv, EpollCalls, RunOK, EpollTypes
<1>25. EpollCounts'
  BY <1>1, <1>e DEF EpollInv, EpollCounts, RunOK, CurrentSet, EpollTypes
<1>26. EpollProgress'
  BY <1>1, <1>e DEF EpollInv, EpollProgress, RunOK, EpollTypes, Finished, Over, TaskDone, Phases, Unstarted, CurrentSet
<1>27. EpollAnnounced'
  <2>0. left' = left /\ snd' = snd /\ taken' = taken /\ nospace' = nospace
    BY <1>1 DEF moveVars
  <2> SUFFICES ASSUME NEW d \in Channels, NEW s \in Sides, current[d] # 0, left[d][s] > 0
               PROVE  Announced(d, s)'
    BY <1>1, <2>0 DEF EpollAnnounced
  <2>1. ~ToPush(s) /\ call[Main].result # "failed"
    BY <1>1 DEF EpollInv, EpollCalls, ToPush, InCall
  <2>2. Announced(d, s)
    BY <1>1, <2>1 DEF EpollInv, EpollAnnounced
  <2> QED BY <1>1, <2>0, <2>2 DEF Announced, IsReady, Readable, Writable
<1>28. EpollExit'
  BY <1>1, <1>e DEF EpollInv, EpollExit
<1> QED BY <1>e, <1>22, <1>23, <1>24, <1>25, <1>26, <1>27, <1>28 DEF EpollInv

\* The task becomes current and its edges are watched.
LEMMA EpollInitRegistersKeeps ==
  ASSUME EpollInv, Epoll!InitRegisters
  PROVE  EpollInv'
<1>1. /\ pc = "init" /\ InCall(Main, "ok") /\ ~TaskDone(slot) /\ call' = [call EXCEPT ![Main] = NoCall]
      /\ current' = [current EXCEPT ![slot] = task[slot]] /\ active' = active + 1
      /\ IF CanRegister(slot)
         THEN /\ RegisterTask(slot) /\ UNCHANGED ok
              /\ \/ boot # << >> /\ pc' = "start" /\ slot' = Head(boot) /\ boot' = Tail(boot)
                 \/ boot = << >> /\ pc' = "handle" /\ UNCHANGED <<slot, boot>>
         ELSE /\ reg' = reg \ (CurrentSet \X Sides) /\ ready' = ready \ (CurrentSet \X Sides)
              /\ pc' = "returned" /\ ok' = FALSE /\ UNCHANGED <<nospace, slot, boot>>
      /\ UNCHANGED <<plan, task, phase, left, snd, arrived, taken, events>>
  BY DEF Epoll!InitRegisters, Epoll!InCall, InCall, Epoll!NoCall, NoCall, Epoll!TaskDone, TaskDone, Epoll!Phases, Phases, Epoll!AbortPlan, Epoll!UnregisterTasks, CurrentSet, Epoll!Channels, Channels, Epoll!Sides, Sides, Epoll!CanRegister, CanRegister, Epoll!EdgesOf, EdgesOf, Epoll!AfterStart, Epoll!RegisterTask, RegisterTask, Epoll!AddedEdges, AddedEdges, Epoll!IsReady, IsReady, Epoll!Readable, Readable, Epoll!Writable, Writable, Epoll!PollMarks, PollMarks
<1>2. PICK c \in Channels : c = slot
  BY DEF EpollInv, RunOK
<1>3. task[c] \in Nat /\ task[c] > 0 /\ current[c] = 0 /\ c \notin CurrentSet
  BY <1>1, <1>2 DEF EpollInv, EpollCalls, EpollProgress, EdgesOK, CurrentSet
<1>4. CanRegister(c)
  BY <1>1, <1>3 DEF EpollInv, EpollCounts, CanRegister, EdgesOf
<1>5. /\ current' = [current EXCEPT ![c] = task[c]] /\ reg' = reg \cup EdgesOf(c) /\ ready' = ready \cup AddedEdges(c)
      /\ nospace' = PollMarks(EdgesOf(c)) /\ ok' = ok
      /\ \/ boot # << >> /\ pc' = "start" /\ slot' = Head(boot) /\ boot' = Tail(boot)
         \/ boot = << >> /\ pc' = "handle" /\ UNCHANGED <<slot, boot>>
  BY <1>1, <1>2, <1>4 DEF RegisterTask
<1>6. /\ slot' \in Channels /\ boot' \in Seq(Channels) /\ Len(boot') < ChannelCount
      /\ (\A i \in DOMAIN boot' : boot'[i] = ChannelCount - Len(boot') + i)
      /\ (boot' # << >> => slot' = ChannelCount - Len(boot')) /\ (boot' # << >> => pc' = "start")
      /\ \/ pc' = "start" /\ slot' \in Unstarted /\ slot' # slot /\ Unstarted = Unstarted' \cup {slot'} /\ slot' \notin Unstarted'
         \/ pc' = "handle" /\ slot' = slot /\ Unstarted = {} /\ Unstarted' = {}
  BY <1>1, <1>5, BootMoves
<1>7. current'[c] = task[c] /\ (\A d \in Channels \ {c} : current'[d] = current[d]) /\ current' \in [Channels -> Nat]
  BY <1>3, <1>5 DEF EpollInv, RunOK
<1>8. CurrentSet' = CurrentSet \cup {c}
  BY <1>3, <1>7 DEF CurrentSet
<1>9. /\ PollMarks(EdgesOf(c)) \in [Channels -> BOOLEAN] /\ (\A d \in Channels : nospace[d] => PollMarks(EdgesOf(c))[d])
      /\ (\A d \in Channels : <<d, "send">> \in EdgesOf(c) /\ ~Writable(d) => PollMarks(EdgesOf(c))[d])
  BY PollMarksType DEF EpollInv
<1>e. EdgesOK' /\ DoneIdle' /\ call'[Main] = NoCall
  <2>1. call' \in [Threads -> Call \cup {NoCall}] /\ call'[Main] = NoCall /\ (\A w \in Threads \ {Main} : call'[w] = call[w])
    BY <1>1, ExecutorsAssumption DEF EpollInv, EdgesOK
  <2>2. reg' \subseteq Channels \X Sides /\ ready' \subseteq reg'
    BY <1>5 DEF EpollInv, EdgesOK, AddedEdges, EdgesOf
  <2>3. EdgesOK'
    BY <1>1, <1>5, <1>9, <2>1, <2>2 DEF EpollInv, EdgesOK
  <2>4. DoneIdle'
    BY <1>1 DEF EpollInv, DoneIdle, TaskDone, Phases
  <2> QED BY <2>1, <2>3, <2>4
<1>22. RunOK'
  <2>1. active' \in Nat
    BY <1>1 DEF EpollInv, RunOK
  <2> QED BY <1>1, <1>5, <1>6, <1>7, <2>1 DEF EpollInv, RunOK
<1>23. EpollTypes'
  BY <1>1, <1>6 DEF EpollInv, EpollTypes
<1>24. EpollCalls'
  BY <1>5, <1>e DEF EpollCalls
<1>25. EpollCounts'
  <2>1. IsFiniteSet(CurrentSet)
    BY CurrentFinite
  <2>2. Cardinality(CurrentSet \cup {c}) = Cardinality(CurrentSet) + 1
    BY <2>1, <1>3, FS_AddElement
  <2>3. reg' = UNION {EdgesOf(d) : d \in CurrentSet \cup {c}}
    BY <1>1, <1>5 DEF EpollInv, EpollCounts
  <2> QED BY <1>1, <1>8, <2>2, <2>3 DEF EpollInv, EpollCounts
<1>26. EpollProgress'
  <2>0. c \notin Unstarted
    BY <1>2, SlotStarted
  <2>2. ASSUME NEW d \in Channels, Finished(d) PROVE Finished(d)'
    BY <1>1, <2>2 DEF Finished, TaskDone, Phases
  <2>3. \A d \in Unstarted' : current'[d] = 0 /\ task'[d] = 0
    BY <1>1, <1>6, <1>7, <2>0 DEF EpollInv, EpollProgress, Unstarted
  <2>4. pc' = "start" => current'[slot'] = 0 /\ Over(slot)'
    BY <1>1, <1>2, <1>6, <1>7 DEF EpollInv, EpollProgress, Over
  <2>5. \A d \in Channels \ Unstarted' : current'[d] = 0 /\ (pc' \in {"start", "init"} => d # slot') => Finished(d)'
    BY <1>1, <1>2, <1>3, <1>6, <1>7, <2>2 DEF EpollInv, EpollProgress
  <2> QED BY <1>6, <2>3, <2>4, <2>5 DEF EpollProgress
<1>27. EpollAnnounced'
  <2> SUFFICES ASSUME NEW d \in Channels, NEW s \in Sides, current'[d] # 0, left[d][s] > 0
               PROVE  Announced(d, s)'
    BY <1>1 DEF EpollAnnounced
  <2>0. IsReady(<<d, s>>)' <=> IsReady(<<d, s>>)
    BY <1>1 DEF IsReady, Readable, Writable
  <2>1. CASE d = c
    <3>1. IsReady(<<c, s>>) => <<c, s>> \in ready'
      BY <1>5 DEF AddedEdges, EdgesOf
    <3>2. s = "send" /\ ~IsReady(<<c, s>>) => nospace'[c]
      BY <1>5, <1>9 DEF IsReady, EdgesOf
    <3> QED BY <2>0, <2>1, <3>1, <3>2 DEF Announced
  <2>2. CASE d # c
    <3>1. Announced(d, s)
      BY <1>1, <1>7, <2>2 DEF EpollInv, EpollAnnounced
    <3> QED BY <1>1, <1>5, <1>9, <2>0, <3>1 DEF Announced
  <2> QED BY <2>1, <2>2
<1>28. EpollExit'
  BY <1>6 DEF EpollExit
<1> QED BY <1>e, <1>22, <1>23, <1>24, <1>25, <1>26, <1>27, <1>28 DEF EpollInv

\* epoll_wait.
LEMMA EpollWaitKeeps ==
  ASSUME EpollInv, Epoll!Wait
  PROVE  EpollInv'
<1>1. /\ pc = "handle" /\ events = {} /\ active > 0 /\ events' = FetchedEdges /\ EpollWait
      /\ UNCHANGED <<plan, task, phase, left, snd, arrived, taken, reg, call, pc, slot, boot, current, active, ok>>
  BY DEF Epoll!Wait, Epoll!FetchedEdges, FetchedEdges, Epoll!EpollWait, EpollWait, Epoll!IsReady, IsReady, Epoll!Readable, Readable, Epoll!Writable, Writable, Epoll!PollMarks, PollMarks, Epoll!Channels, Channels
<1>e. EdgesOK' /\ DoneIdle'
  BY <1>1, PollMarksType, WatchChange DEF EpollWait, EpollInv, EdgesOK
<1>22. RunOK'
  BY <1>1, <1>e DEF EpollInv, RunOK
<1>23. EpollTypes'
  BY <1>1 DEF EpollInv, EpollTypes, EdgesOK, FetchedEdges
<1>24. EpollCalls'
  BY <1>1, <1>e DEF EpollInv, EpollCalls, RunOK, EpollTypes
<1>25. EpollCounts'
  BY <1>1, <1>e DEF EpollInv, EpollCounts, RunOK, CurrentSet, EpollTypes
<1>26. EpollProgress'
  BY <1>1, <1>e DEF EpollInv, EpollProgress, RunOK, EpollTypes, Finished, Over, TaskDone, Phases, Unstarted, CurrentSet
<1>27. EpollAnnounced'
  <2> SUFFICES ASSUME NEW d \in Channels, NEW s \in Sides, current[d] # 0, left[d][s] > 0
               PROVE  Announced(d, s)'
    BY <1>1 DEF EpollAnnounced
  <2>0. IsReady(<<d, s>>)' <=> IsReady(<<d, s>>)
    BY <1>1 DEF IsReady, Readable, Writable
  <2>1. Announced(d, s)
    BY <1>1 DEF EpollInv, EpollAnnounced
  <2>2. /\ nospace' \in [Channels -> BOOLEAN] /\ (\A c \in Channels : nospace[c] => nospace'[c])
        /\ (\A c \in Channels : <<c, "send">> \in ready /\ ~Writable(c) => nospace'[c])
    BY <1>1, PollMarksType DEF EpollInv, EpollWait
  <2>3. s = "send" /\ ~IsReady(<<d, s>>) /\ <<d, s>> \in ready => nospace'[d]
    BY <2>2 DEF IsReady
  <2> QED BY <1>1, <2>0, <2>1, <2>2, <2>3 DEF Announced, FetchedEdges
<1>28. EpollExit'
  BY <1>1, <1>e DEF EpollInv, EpollExit
<1> QED BY <1>e, <1>22, <1>23, <1>24, <1>25, <1>26, <1>27, <1>28 DEF EpollInv

\* An event is handed to the current task, or dropped.
LEMMA EpollHandleKeeps ==
  ASSUME EpollInv, Epoll!Handle
  PROVE  EpollInv'
<1>1. /\ pc = "handle" /\ UNCHANGED <<plan, snd, arrived, taken, nospace, reg, ready, boot, current, active, ok>>
      /\ \E e \in events :
           /\ events' = events \ {e}
           /\ \/ current[e[1]] = 0 /\ UNCHANGED <<task, phase, left, call, pc, slot>>
              \/ current[e[1]] # 0 /\ CallSteps(Main, e[1], <<e[2]>>) /\ pc' = "step" /\ slot' = e[1]
  BY DEF Epoll!Handle, Epoll!CallSteps, CallSteps
<1>2. PICK e \in events :
           /\ events' = events \ {e}
           /\ \/ current[e[1]] = 0 /\ UNCHANGED <<task, phase, left, call, pc, slot>>
              \/ current[e[1]] # 0 /\ CallSteps(Main, e[1], <<e[2]>>) /\ pc' = "step" /\ slot' = e[1]
  BY <1>1
<1>3. PICK c \in Channels, s0 \in Sides : e = <<c, s0>>
  BY DEF EpollInv, EpollTypes
<1>4. CASE current[c] = 0
  <2>1. UNCHANGED <<plan, task, phase, left, snd, arrived, taken, nospace, reg, ready, call, pc, slot, boot, current, active, ok>>
    BY <1>1, <1>2, <1>3, <1>4
  <2>2. EdgesOK' /\ DoneIdle'
    BY <2>1 DEF EpollInv, EdgesOK, DoneIdle, TaskDone, Phases
  <2>6. RunOK' /\ EpollCalls' /\ EpollExit'
    BY <1>1, <2>1 DEF EpollInv, RunOK, EpollCalls, EpollExit
  <2>7. EpollCounts'
    BY <2>1 DEF EpollInv, EpollCounts, CurrentSet
  <2>3. EpollTypes'
    BY <2>1, <1>2 DEF EpollInv, EpollTypes
  <2>4. EpollProgress'
    BY <2>1 DEF EpollInv, EpollProgress, Unstarted, Over, Finished, TaskDone, Phases
  <2>5. EpollAnnounced'
    <3> SUFFICES ASSUME NEW d \in Channels, NEW s \in Sides, current[d] # 0, left[d][s] > 0
                 PROVE  Announced(d, s)'
      BY <2>1 DEF EpollAnnounced
    <3>1. Announced(d, s) /\ <<d, s>> # e
      BY <1>1, <1>3, <1>4 DEF EpollInv, EpollAnnounced
    <3> QED BY <1>2, <2>1, <3>1 DEF Announced, IsReady, Readable, Writable
  <2> QED BY <2>2, <2>3, <2>4, <2>5, <2>6, <2>7 DEF EpollInv
<1>5. CASE current[c] # 0
  <2>1. CallSteps(Main, c, <<s0>>) /\ pc' = "step" /\ slot' = c
    BY <1>2, <1>3, <1>5
  <2>2. Main \in Threads /\ <<s0>> \in Seq(Sides) /\ task[c] > 0
    BY <1>5, ExecutorsAssumption DEF EpollInv, RunOK, EdgesOK
  <2>3. /\ EdgesOK' /\ DoneIdle' /\ call'[Main] \in Call
        /\ call'[Main] = [slot |-> c, todo |-> << >>, steps |-> <<s0>>, init |-> FALSE, result |-> "running"]
    BY <1>1, <2>1, <2>2, StepsCall DEF EpollInv
  <2>4. UNCHANGED <<task, phase, left>>
    BY <2>1 DEF CallSteps
  <2>5. RunOK'
    BY <1>1, <2>1, <2>4 DEF EpollInv, RunOK
  <2>6. EpollTypes'
    BY <1>1, <1>2, <2>1 DEF EpollInv, EpollTypes
  <2>7. EpollCalls'
    BY <2>1, <2>2, <2>3, <2>4 DEF EpollCalls
  <2>8. EpollCounts' /\ EpollExit'
    BY <1>1, <2>1 DEF EpollInv, EpollCounts, CurrentSet, EpollExit
  <2>9. EpollProgress'
    BY <1>1, <1>5, <2>1, <2>4 DEF EpollInv, EpollProgress, Unstarted, Finished, TaskDone, Phases
  <2>10. EpollAnnounced'
    <3> SUFFICES ASSUME NEW d \in Channels, NEW s \in Sides, current[d] # 0, left[d][s] > 0
                 PROVE  Announced(d, s)' \/ (d = c /\ ToPush(s)')
      BY <1>1, <2>1, <2>4 DEF EpollAnnounced
    <3>1. Announced(d, s)
      BY <1>1 DEF EpollInv, EpollAnnounced
    <3>2. CASE <<d, s>> = e
      BY <1>3, <2>3, <3>2 DEF ToPush
    <3>3. CASE <<d, s>> # e
      BY <1>1, <1>2, <2>4, <3>1, <3>3 DEF Announced, IsReady, Readable, Writable
    <3> QED BY <3>2, <3>3
  <2> QED BY <2>3, <2>5, <2>6, <2>7, <2>8, <2>9, <2>10 DEF EpollInv
<1> QED BY <1>4, <1>5

\* The task is done: its edges leave the set.
LEMMA EpollStepDoneKeeps ==
  ASSUME EpollInv, Epoll!StepDone
  PROVE  EpollInv'
<1>1. /\ pc = "step" /\ InCall(Main, "ok") /\ TaskDone(slot) /\ call' = [call EXCEPT ![Main] = NoCall] /\ pc' = "start"
      /\ active' = active - 1 /\ current' = [current EXCEPT ![slot] = 0]
      /\ reg' = reg \ EdgesOf(slot) /\ ready' = ready \ EdgesOf(slot)
      /\ UNCHANGED <<plan, task, phase, moveVars, arrived, slot, boot, events, ok>>
  BY DEF Epoll!StepDone, Epoll!InCall, InCall, Epoll!NoCall, NoCall, Epoll!TaskDone, TaskDone, Epoll!Phases, Phases, Epoll!moveVars, moveVars, Epoll!UnregisterTasks, EdgesOf, Epoll!Sides, Sides
<1>2. PICK c \in Channels : c = slot
  BY DEF EpollInv, RunOK
<1>3. current[c] # 0 /\ c \in CurrentSet /\ task[c] > 0
  BY <1>1, <1>2 DEF EpollInv, EpollCalls, EpollProgress, CurrentSet
<1>4. current'[c] = 0 /\ (\A d \in Channels \ {c} : current'[d] = current[d]) /\ current' \in [Channels -> Nat]
  BY <1>1, <1>2 DEF EpollInv, RunOK
<1>5. CurrentSet' = CurrentSet \ {c}
  BY <1>3, <1>4 DEF CurrentSet
<1>6. active \in Nat /\ active = Cardinality(CurrentSet) /\ Cardinality(CurrentSet \ {c}) = Cardinality(CurrentSet) - 1
      /\ Cardinality(CurrentSet \ {c}) \in Nat
  <2>1. IsFiniteSet(CurrentSet)
    BY CurrentFinite
  <2>2. Cardinality(CurrentSet \ {c}) = Cardinality(CurrentSet) - 1 /\ IsFiniteSet(CurrentSet \ {c})
    BY <2>1, <1>3, FS_RemoveElement
  <2>3. Cardinality(CurrentSet \ {c}) \in Nat
    BY <2>2, FS_CardinalityType
  <2> QED BY <1>1, <2>2, <2>3 DEF EpollInv, EpollCounts, RunOK
<1>e. EdgesOK' /\ DoneIdle' /\ call'[Main] = NoCall
  <2>1. call' \in [Threads -> Call \cup {NoCall}] /\ call'[Main] = NoCall /\ (\A w \in Threads \ {Main} : call'[w] = call[w])
    BY <1>1, ExecutorsAssumption DEF EpollInv, EdgesOK
  <2>2. EdgesOK'
    BY <1>1, <2>1 DEF EpollInv, EdgesOK, moveVars
  <2>3. DoneIdle'
    BY <1>1 DEF EpollInv, DoneIdle, TaskDone, Phases, moveVars
  <2> QED BY <2>1, <2>2, <2>3
<1>22. RunOK'
  BY <1>1, <1>4, <1>6 DEF EpollInv, RunOK
<1>23. EpollTypes'
  BY <1>1, <1>e DEF EpollInv, EpollTypes, RunOK
<1>24. EpollCalls'
  BY <1>1, <1>e DEF EpollInv, EpollCalls, RunOK, EpollTypes
<1>25. EpollCounts'
  <2>1. reg' = UNION {EdgesOf(d) : d \in CurrentSet \ {c}}
    BY <1>1, <1>2 DEF EpollInv, EpollCounts, EdgesOf
  <2> QED BY <1>1, <1>5, <1>6, <2>1 DEF EpollInv, EpollCounts
<1>26. EpollProgress'
  BY <1>1, <1>e DEF EpollInv, EpollProgress, RunOK, EpollTypes, Finished, Over, TaskDone, Phases, Unstarted, CurrentSet
<1>27. EpollAnnounced'
  <2>0. left' = left /\ snd' = snd /\ taken' = taken /\ nospace' = nospace
    BY <1>1 DEF moveVars
  <2> SUFFICES ASSUME NEW d \in Channels, NEW s \in Sides, current'[d] # 0, left[d][s] > 0
               PROVE  Announced(d, s)'
    BY <1>1, <2>0 DEF EpollAnnounced
  <2>1. d # c /\ current[d] # 0
    BY <1>4
  <2>2. Announced(d, s)
    BY <1>1, <1>2, <2>1 DEF EpollInv, EpollAnnounced
  <2> QED BY <1>1, <1>2, <2>0, <2>1, <2>2 DEF Announced, IsReady, Readable, Writable, EdgesOf
<1>28. EpollExit'
  BY <1>1, <1>e DEF EpollInv, EpollExit
<1> QED BY <1>e, <1>22, <1>23, <1>24, <1>25, <1>26, <1>27, <1>28 DEF EpollInv

\* Run returns true.
LEMMA EpollReturnKeeps ==
  ASSUME EpollInv, Epoll!Return
  PROVE  EpollInv'
<1>1. /\ pc = "handle" /\ events = {} /\ active = 0 /\ pc' = "returned"
      /\ UNCHANGED <<plan, task, phase, left, snd, arrived, taken, nospace, reg, ready, call, slot, boot, current, active, events, ok>>
  BY DEF Epoll!Return, Epoll!edgeVars
<1>e. EdgesOK' /\ DoneIdle'
  BY <1>1 DEF EpollInv, EdgesOK, DoneIdle, TaskDone, Phases
<1>22. RunOK'
  BY <1>1 DEF EpollInv, RunOK
<1>23. EpollTypes'
  BY <1>1, <1>e DEF EpollInv, EpollTypes, RunOK
<1>24. EpollCalls'
  BY <1>1 DEF EpollInv, EpollCalls
<1>25. EpollCounts'
  BY <1>1, <1>e DEF EpollInv, EpollCounts, RunOK, CurrentSet, EpollTypes
<1>26. EpollProgress'
  BY <1>1, <1>e DEF EpollInv, EpollProgress, RunOK, EpollTypes, Finished, Over, TaskDone, Phases, Unstarted, CurrentSet
<1>27. EpollAnnounced'
  BY <1>1, <1>e DEF EpollInv, EpollAnnounced, EpollProgress, RunOK, EpollCalls, Announced, IsReady, Readable, Writable, ToPush
<1>28. EpollExit'
  <2>1. CurrentSet = {}
    <3>1. IsFiniteSet(CurrentSet)
      BY CurrentFinite
    <3>2. Cardinality(CurrentSet) = 0
      BY <1>1 DEF EpollInv, EpollCounts
    <3> QED BY <3>1, <3>2, FS_EmptySet
  <2>2. reg = {} /\ (\A c \in Channels : current[c] = 0)
    BY <1>1, <2>1 DEF EpollInv, EpollCounts, CurrentSet
  <2>3. Unstarted = {}
    BY <1>1, SlotStarted DEF EpollInv, EpollTypes
  <2>4. \A c \in Channels : Finished(c)
    BY <1>1, <2>2, <2>3 DEF EpollInv, EpollProgress
  <2> QED BY <1>1, <2>2, <2>4 DEF EpollExit, Finished, TaskDone, Phases
<1> QED BY <1>e, <1>22, <1>23, <1>24, <1>25, <1>26, <1>27, <1>28 DEF EpollInv

\* What is in the tail or at the head of a sequence is all of it.
LEMMA HeadOrTail ==
  ASSUME NEW S, NEW q \in Seq(S), q # << >>, NEW i \in DOMAIN q
  PROVE  q[i] = Head(q) \/ \E k \in DOMAIN Tail(q) : Tail(q)[k] = q[i]
<1>1. CASE i = 1
  BY <1>1
<1>2. CASE i # 1
  <2>1. i - 1 \in DOMAIN Tail(q) /\ Tail(q)[i - 1] = q[i]
    BY <1>2
  <2> QED BY <2>1
<1> QED BY <1>1, <1>2

\* A step inside CollectiveInit or CollectiveStep.
LEMMA EpollTopologyKeeps ==
  ASSUME EpollInv, Topology(Main), UNCHANGED <<pc, slot, boot, current, active, events, ok>>
  PROVE  EpollInv'
<1>0. Main \in Threads /\ EdgesOK /\ DoneIdle
  BY ExecutorsAssumption DEF EpollInv
<1>1. Moves(Main)
  BY <1>0, TopologyMoves
<1>2. PICK c \in Channels : c = call[Main].slot
  BY <1>1 DEF Moves, Call
<1>3. pc \in {"init", "step"} /\ slot = c /\ task[c] > 0
  BY <1>1, <1>2, CallIsCall DEF EpollInv, EpollCalls, Moves
<1>4. /\ EdgesOK' /\ DoneIdle' /\ UNCHANGED <<plan, task, arrived, reg, ready>>
      /\ call[Main] \in Call /\ call'[Main] \in Call /\ call'[Main].slot = c
      /\ (\A d \in Channels \ {c} : /\ phase'[d] = phase[d] /\ left'[d] = left[d]
                                    /\ snd'[d] = snd[d] /\ taken'[d] = taken[d] /\ nospace'[d] = nospace[d])
  BY <1>0, <1>1, <1>2 DEF Moves
<1>5. RunOK' /\ EpollTypes' /\ EpollExit'
  BY <1>3, <1>4 DEF EpollInv, RunOK, EpollTypes, EpollExit
<1>6. EpollCounts'
  BY <1>4 DEF EpollInv, EpollCounts, CurrentSet
<1>7. EpollProgress'
  <2>1. ASSUME NEW d \in Channels \ {c}, Finished(d) PROVE Finished(d)'
    BY <1>4, <2>1 DEF Finished, TaskDone, Phases
  <2> QED BY <1>3, <1>4, <2>1 DEF EpollInv, EpollProgress, Unstarted
<1>8. ASSUME NEW s \in Sides, pc = "step", current[c] # 0, left[c][s] > 0 \/ left'[c][s] > 0
      PROVE  Announced(c, s) \/ ToPush(s) \/ call[Main].result = "failed" \/ left[c][s] = 0
  <2>1. left[c][s] \in Nat
    BY DEF EpollInv, EdgesOK
  <2> QED BY <1>3, <1>8, <2>1 DEF EpollInv, EpollAnnounced
<1>9. /\ EpollCalls'
      /\ \A s \in Sides : pc = "step" /\ current[c] # 0 /\ left'[c][s] > 0 =>
           Announced(c, s)' \/ ToPush(s)' \/ call'[Main].result = "failed"
  <2>1. CASE PushBuffer(Main)
    <3>1. /\ call'[Main].todo = Tail(call[Main].todo) /\ call'[Main].steps = call[Main].steps /\ call'[Main].result = "running"
          /\ \A s \in Sides :
              /\ left'[c][s] <= left[c][s] /\ (IsReady(<<c, s>>)' => IsReady(<<c, s>>)) /\ (nospace[c] => nospace'[c])
              /\ (s = Head(call[Main].todo) /\ left'[c][s] > 0 => ~IsReady(<<c, s>>)' /\ (s = "send" => nospace'[c]))
      BY <1>0, <1>2, <2>1, PushBufferMoves
    <3>2. EpollCalls'
      BY <1>3, <1>4, <3>1 DEF EpollCalls
    <3>3. ASSUME NEW s \in Sides, pc = "step", current[c] # 0, left'[c][s] > 0
          PROVE  Announced(c, s)' \/ ToPush(s)'
      <4>1. left[c][s] \in Nat /\ left'[c][s] \in Nat /\ left'[c][s] <= left[c][s] /\ left[c][s] # 0
        <5>1. left[c][s] \in Nat /\ left'[c][s] \in Nat
          BY <1>0, <1>4 DEF EdgesOK
        <5>2. left'[c][s] <= left[c][s] /\ left'[c][s] > 0
          BY <3>1, <3>3
        <5> QED BY <5>1, <5>2
      <4>2. call[Main].result = "running" /\ call[Main].todo # << >> /\ call[Main].todo \in Seq(Sides)
        BY <1>4, <2>1 DEF PushBuffer, InCall, Call
      <4>3. CASE s = Head(call[Main].todo)
        BY <3>1, <3>3, <4>3 DEF Announced
      <4>4. CASE Announced(c, s)
        BY <1>4, <3>1, <4>4 DEF Announced
      <4>5. CASE ToPush(s) /\ s # Head(call[Main].todo)
        <5>1. CASE \E i \in DOMAIN call[Main].steps : call[Main].steps[i] = s
          BY <5>1, <3>1 DEF ToPush
        <5>2. CASE \E i \in DOMAIN call[Main].todo : call[Main].todo[i] = s
          <6>1. \E k \in DOMAIN Tail(call[Main].todo) : Tail(call[Main].todo)[k] = s
            BY <5>2, <4>2, <4>5, HeadOrTail
          <6> QED BY <6>1, <3>1 DEF ToPush
        <5> QED BY <4>5, <5>1, <5>2 DEF ToPush
      <4> QED BY <1>8, <3>3, <4>1, <4>2, <4>3, <4>4, <4>5
    <3> QED BY <3>2, <3>3
  <2>2. CASE PushFails(Main)
    <3>1. call'[Main].result = "failed"
      BY <1>0, <2>2, PushFailsMoves
    <3>2. EpollCalls'
      BY <1>3, <1>4, <3>1 DEF EpollCalls
    <3> QED BY <3>1, <3>2
  <2>3. CASE NextPhase(Main)
    <3>1. /\ call'[Main].result = "running"
          /\ call'[Main].todo = BothSides \/ \A s \in Sides : left'[c][s] = 0
      BY <1>0, <1>2, <2>3, NextPhaseMoves
    <3>2. EpollCalls'
      BY <1>3, <1>4, <3>1 DEF EpollCalls
    <3>3. ASSUME NEW s \in Sides, left'[c][s] > 0 PROVE ToPush(s)'
      <4>1. call'[Main].todo = BothSides
        BY <3>1, <3>3
      <4>2. \E i \in DOMAIN BothSides : BothSides[i] = s
        BY DEF BothSides, Sides
      <4> QED BY <4>1, <4>2 DEF ToPush
    <3> QED BY <3>2, <3>3
  <2>4. CASE NextStep(Main)
    <3>1. /\ call'[Main].result = "running" /\ UNCHANGED <<phase, moveVars>>
          /\ call'[Main].todo = (IF TaskDone(c) THEN << >> ELSE <<Head(call[Main].steps)>>)
          /\ call'[Main].steps = Tail(call[Main].steps)
      BY <1>0, <1>2, <2>4, NextStepMoves
    <3>2. EpollCalls'
      BY <1>3, <1>4, <3>1 DEF EpollCalls
    <3>3. ASSUME NEW s \in Sides, pc = "step", current[c] # 0, left'[c][s] > 0
          PROVE  Announced(c, s)' \/ ToPush(s)'
      <4>1. left' = left /\ snd' = snd /\ taken' = taken /\ nospace' = nospace
        BY <3>1 DEF moveVars
      <4>2. call[Main].result = "running" /\ call[Main].todo = << >> /\ call[Main].steps # << >> /\ call[Main].steps \in Seq(Sides)
        BY <1>4, <2>4 DEF NextStep, InCall, Call
      <4>3. ~TaskDone(c) /\ left[c][s] # 0
        BY <1>0, <1>3, <3>3, <4>1 DEF DoneIdle
      <4>4. CASE Announced(c, s)
        BY <1>4, <4>1, <4>4 DEF Announced, IsReady, Readable, Writable
      <4>5. CASE ToPush(s)
        <5>1. \E i \in DOMAIN call[Main].steps : call[Main].steps[i] = s
          BY <4>2, <4>5 DEF ToPush
        <5>2. CASE s = Head(call[Main].steps)
          <6>1. call'[Main].todo = <<s>>
            BY <3>1, <4>3, <5>2
          <6> QED BY <6>1 DEF ToPush
        <5>3. CASE s # Head(call[Main].steps)
          <6>1. \E k \in DOMAIN Tail(call[Main].steps) : Tail(call[Main].steps)[k] = s
            BY <5>1, <5>3, <4>2, HeadOrTail
          <6> QED BY <6>1, <3>1 DEF ToPush
        <5> QED BY <5>2, <5>3
      <4> QED BY <1>8, <3>3, <4>2, <4>3, <4>4, <4>5
    <3> QED BY <3>2, <3>3
  <2>5. CASE CallReturns(Main)
    <3>1. /\ call'[Main].result = "ok" /\ UNCHANGED <<phase, moveVars>>
          /\ call[Main].todo = << >> /\ call[Main].steps = << >> /\ call'[Main].todo = << >> /\ call'[Main].steps = << >>
      BY <1>0, <2>5, CallReturnsMoves
    <3>2. EpollCalls'
      BY <1>3, <1>4, <3>1 DEF EpollCalls
    <3>3. ASSUME NEW s \in Sides, pc = "step", current[c] # 0, left'[c][s] > 0
          PROVE  Announced(c, s)'
      <4>1. left' = left /\ snd' = snd /\ taken' = taken /\ nospace' = nospace
        BY <3>1 DEF moveVars
      <4>2. call[Main].result = "running" /\ ~ToPush(s)
        BY <2>5, <3>1 DEF CallReturns, InCall, ToPush
      <4>3. Announced(c, s)
        BY <1>8, <3>3, <4>1, <4>2
      <4> QED BY <1>4, <4>1, <4>3 DEF Announced, IsReady, Readable, Writable
    <3> QED BY <3>2, <3>3
  <2> QED BY <2>1, <2>2, <2>3, <2>4, <2>5 DEF Topology
<1>10. EpollAnnounced'
  <2> SUFFICES ASSUME NEW d \in Channels, NEW s \in Sides, current[d] # 0, left'[d][s] > 0
               PROVE  Announced(d, s)' \/ (pc = "step" /\ d = c /\ (ToPush(s)' \/ call'[Main].result = "failed"))
    BY <1>3 DEF EpollAnnounced
  <2>1. CASE d = c
    <3>1. pc = "step"
      BY <1>3, <2>1 DEF EpollInv, EpollProgress
    <3> QED BY <1>9, <2>1, <3>1
  <2>2. CASE d # c
    <3>1. Announced(d, s)
      BY <1>3, <1>4, <2>2 DEF EpollInv, EpollAnnounced
    <3> QED BY <1>4, <2>2, <3>1 DEF Announced, IsReady, Readable, Writable
  <2> QED BY <2>1, <2>2
<1> QED BY <1>4, <1>5, <1>6, <1>7, <1>9, <1>10 DEF EpollInv

\* Data arrives, or is drained, behind the back of the executor.
LEMMA EpollKernelKeeps ==
  ASSUME EpollInv, NEW c \in Channels, Arrive(c) \/ Drain(c), UNCHANGED <<pc, slot, boot, current, active, events, ok>>
  PROVE  EpollInv'
<1>0. EdgesOK /\ DoneIdle
  BY DEF EpollInv
<1>1. EdgesOK' /\ DoneIdle' /\ UNCHANGED <<plan, task, phase, left, taken, reg, call>> /\ ready \subseteq ready'
  BY <1>0, ArriveKeeps, DrainKeeps
<1>2. RunOK' /\ EpollTypes'
  BY <1>1 DEF EpollInv, RunOK, EpollTypes
<1>3. EpollCalls'
  BY <1>1 DEF EpollInv, EpollCalls
<1>4. EpollCounts'
  BY <1>1 DEF EpollInv, EpollCounts, CurrentSet
<1>5. \A d \in Channels : Finished(d)' <=> Finished(d)
  BY <1>1 DEF Finished, TaskDone, Phases
<1>6. Over(slot)' <=> Over(slot)
  BY <1>1 DEF Over, TaskDone, Phases
<1>7. EpollProgress'
  BY <1>1, <1>5, <1>6 DEF EpollInv, EpollProgress, Unstarted
<1>8. EpollExit'
  BY <1>1, <1>5 DEF EpollInv, EpollExit
<1>9. EpollAnnounced'
  <2> SUFFICES ASSUME pc # "returned", NEW d \in Channels, NEW s \in Sides, current[d] # 0, left[d][s] > 0, Announced(d, s)
               PROVE  Announced(d, s)'
    BY <1>1 DEF EpollInv, EpollAnnounced, ToPush
  <2>0. <<d, s>> \in reg
    BY DEF EpollInv, EpollCounts, CurrentSet, EdgesOf
  <2>1. CASE Arrive(c)
    <3>1. /\ UNCHANGED <<snd, nospace>> /\ (\A e \in Channels \ {c} : arrived'[e] = arrived[e])
          /\ (<<c, "recv">> \in reg => <<c, "recv">> \in ready')
      BY <1>0, <2>1, ArriveKeeps
    <3>2. CASE d = c /\ s = "recv"
      BY <3>1, <3>2, <2>0 DEF Announced
    <3>3. CASE d # c \/ s = "send"
      BY <1>1, <3>1, <3>3 DEF Announced, IsReady, Readable, Writable
    <3> QED BY <3>2, <3>3 DEF Sides
  <2>2. CASE Drain(c)
    <3>1. /\ UNCHANGED arrived /\ (\A e \in Channels \ {c} : snd'[e] = snd[e] /\ nospace'[e] = nospace[e])
          /\ (nospace[c] /\ <<c, "send">> \in reg => <<c, "send">> \in ready')
      BY <1>0, <2>2, DrainKeeps
    <3>2. CASE d = c /\ s = "send"
      BY <1>1, <3>1, <3>2, <2>0 DEF Announced
    <3>3. CASE d # c \/ s = "recv"
      BY <1>1, <3>1, <3>3 DEF Announced, IsReady, Readable, Writable
    <3> QED BY <3>2, <3>3 DEF Sides
  <2> QED BY <2>1, <2>2
<1> QED BY <1>1, <1>2, <1>3, <1>4, <1>7, <1>8, <1>9 DEF EpollInv

\* Any step of Run.
LEMMA EpollRunKeeps ==
  ASSUME EpollInv, Epoll!Run
  PROVE  EpollInv'
<1>1. CASE Epoll!Topology(Main) /\ UNCHANGED <<pc, slot, boot, current, active, events, ok>>
  BY <1>1, ExecutorsAssumption, EpollTopology, EpollTopologyKeeps
<1> QED BY <1>1, EpollStartInitKeeps, EpollStartNoneKeeps, EpollInitFailsKeeps, EpollInitSkipsKeeps,
           EpollInitRegistersKeeps, EpollWaitKeeps, EpollHandleKeeps, EpollStepFailsKeeps, EpollStepWaitsKeeps,
           EpollStepDoneKeeps, EpollReturnKeeps DEF Epoll!Run, Epoll!runVars

\* The invariant holds when Run begins.
LEMMA EpollBegins ==
  ASSUME Epoll!Init
  PROVE  EpollInv
<1>1. EdgesInit
  BY DEF Epoll!Init, Epoll!EdgesInit, EdgesInit, Epoll!Channels, Channels, Epoll!Sides, Sides, Epoll!NoCall, NoCall
<1>2. EdgesOK /\ DoneIdle /\ (\A c \in Channels : task[c] = 0) /\ (\A th \in Threads : call[th] = NoCall) /\ reg = {}
  BY <1>1, EdgesBegin
<1>3. /\ pc = "start" /\ slot = 1 /\ boot = [i \in 1 .. (ChannelCount - 1) |-> i + 1] /\ current = [c \in Channels |-> 0]
      /\ active = 0 /\ events = {} /\ ok = TRUE
  BY DEF Epoll!Init, Epoll!Channels, Channels
<1>4. ChannelCount \in Nat /\ ChannelCount > 0 /\ slot \in Channels /\ (\A c \in Channels : current[c] = 0)
  BY <1>3, TaskEdgesAssumption DEF Channels
<1>5. boot \in Seq(Channels) /\ Len(boot) = ChannelCount - 1
  <2>1. \A i \in 1 .. (ChannelCount - 1) : i + 1 \in Channels
    BY <1>4 DEF Channels
  <2>2. boot \in [1 .. (ChannelCount - 1) -> Channels] /\ ChannelCount - 1 \in Nat
    BY <1>3, <1>4, <2>1
  <2> QED BY <2>2
<1>6. EpollTypes /\ RunOK
  BY <1>3, <1>4, <1>5 DEF EpollTypes, RunOK
<1>7. EpollCalls
  BY <1>2, <1>3, ExecutorsAssumption DEF EpollCalls
<1>8. CurrentSet = {}
  BY <1>4 DEF CurrentSet
<1>9. EpollCounts
  BY <1>2, <1>3, <1>8, FS_EmptySet DEF EpollCounts
<1>10. \A c \in Channels \ Unstarted : c = slot
  BY <1>3, <1>4, <1>5 DEF Unstarted, Channels
<1>11. EpollProgress
  <2>1. Over(slot) /\ (\A c \in Unstarted : c \in Channels)
    BY <1>2, <1>4 DEF Over, Unstarted
  <2>2. pc = "start"
    BY <1>3
  <2> QED BY <1>2, <1>4, <1>10, <2>1, <2>2 DEF EpollProgress
<1>12. EpollAnnounced /\ EpollExit
  BY <1>3, <1>4 DEF EpollAnnounced, EpollExit
<1> QED BY <1>2, <1>6, <1>7, <1>9, <1>11, <1>12 DEF EpollInv

-----------------------------------------------------------------------------
(* PollingExecutor *)

\* Its copies of the operators of TaskEdges are those operators.
LEMMA PollingCardinality ==
  ASSUME NEW S
  PROVE  Polling!Cardinality(S) = Cardinality(S)
BY Zenon DEF Polling!Cardinality, Cardinality

\* The same for the tests on a task and the calls of the Topology.
LEMMA PollingTopology ==
  ASSUME NEW th \in Threads, Polling!Topology(th)
  PROVE  Topology(th)
<1>1. CASE Polling!PushBuffer(th)
  <2>1. Polling!InCall(th, "running") <=> InCall(th, "running")
    BY DEF Polling!InCall, InCall, Polling!NoCall, NoCall
  <2>2. \A a, b : Polling!Moved(a, b) = Moved(a, b)
    BY DEF Polling!Moved, Moved, Polling!Min, Min
  <2>3. PushBuffer(th)
    BY <1>1, <2>1, <2>2 DEF Polling!PushBuffer, PushBuffer, Polling!TrySend, TrySend, Polling!TryRecv, TryRecv,
                            Polling!moveVars, moveVars
  <2> QED BY <2>3 DEF Topology
<1>2. CASE Polling!PushFails(th)
  BY <1>2 DEF Polling!PushFails, PushFails, Polling!InCall, InCall, Polling!NoCall, NoCall, Polling!moveVars, moveVars, Topology
<1>3. CASE Polling!NextPhase(th)
  <2>1. NextPhase(th)
    BY <1>3 DEF Polling!NextPhase, NextPhase, Polling!InCall, InCall, Polling!NoCall, NoCall, Polling!PhaseOver, PhaseOver,
                Polling!TaskDone, TaskDone, Polling!Phases, Phases, Polling!Sides, Sides, Polling!PhaseUnits, PhaseUnits,
                Polling!BeginPhase, BeginPhase, Polling!BothSides, BothSides
  <2> QED BY <2>1 DEF Topology
<1>4. CASE Polling!NextStep(th)
  <2>1. NextStep(th)
    BY <1>4 DEF Polling!NextStep, NextStep, Polling!InCall, InCall, Polling!NoCall, NoCall, Polling!PhaseOver, PhaseOver,
                Polling!TaskDone, TaskDone, Polling!Phases, Phases, Polling!Sides, Sides, Polling!moveVars, moveVars
  <2> QED BY <2>1 DEF Topology
<1>5. CASE Polling!CallReturns(th)
  <2>1. CallReturns(th)
    BY <1>5 DEF Polling!CallReturns, CallReturns, Polling!InCall, InCall, Polling!NoCall, NoCall, Polling!PhaseOver, PhaseOver,
                Polling!TaskDone, TaskDone, Polling!Phases, Phases, Polling!Sides, Sides, Polling!moveVars, moveVars
  <2> QED BY <2>1 DEF Topology
<1> QED BY <1>1, <1>2, <1>3, <1>4, <1>5 DEF Polling!Topology

\* On to the next channel, and after the last one the test of the while loop.
LEMMA SlotMoves ==
  ASSUME slot \in Channels, booted \in BOOLEAN, NEW count, Polling!NextSlot(count)
  PROVE  /\ slot' \in Channels /\ booted' \in BOOLEAN
         /\ \/ slot < ChannelCount /\ slot' = slot + 1 /\ booted' = booted /\ pc' = IF booted THEN "turn" ELSE "boot"
            \/ slot = ChannelCount /\ booted' = TRUE /\ pc' = IF count = 0 THEN "returned" ELSE "turn"
<1>1. /\ slot' = (slot % ChannelCount) + 1 /\ booted' = (booted \/ slot = ChannelCount)
      /\ pc' = CASE ~booted' -> "boot"
                 [] booted' /\ slot = ChannelCount /\ count = 0 -> "returned"
                 [] OTHER -> "turn"
  BY DEF Polling!NextSlot
<1>2. ChannelCount \in Nat \ {0} /\ slot \in Nat /\ slot >= 1 /\ slot <= ChannelCount
  BY TaskEdgesAssumption DEF Channels
<1>3. CASE slot < ChannelCount
  <2>1. slot % ChannelCount = slot
    BY <1>2, <1>3
  <2> QED BY <1>1, <1>2, <1>3, <2>1 DEF Channels
<1>4. CASE slot = ChannelCount
  <2>1. slot' = 1 /\ slot' \in Channels
    <3>1. slot % ChannelCount = 0
      BY <1>2, <1>4
    <3> QED BY <1>1, <1>2, <3>1 DEF Channels
  <2>2. booted' = TRUE
    BY <1>1, <1>4
  <2>3. CASE count = 0
    <3>1. pc' = "returned"
      BY <1>1, <1>4, <2>2, <2>3
    <3> QED BY <1>4, <2>1, <2>2, <2>3, <3>1
  <2>4. CASE count # 0
    <3>1. pc' = "turn"
      BY <1>1, <1>4, <2>2, <2>4
    <3> QED BY <1>4, <2>1, <2>2, <2>4, <3>1
  <2> QED BY <2>3, <2>4
<1>5. slot < ChannelCount \/ slot = ChannelCount
  BY <1>2
<1> QED BY <1>3, <1>4, <1>5

\* The end of a channel's turn.
LEMMA PollingMovesOn ==
  ASSUME EdgesOK', slot \in Channels, booted \in BOOLEAN, Polling!NextSlot(active'),
         current' \in [Channels -> Nat], \A c \in Channels : current'[c] # 0 => current'[c] = task'[c],
         active' = Cardinality(CurrentSet'), ok' \in BOOLEAN, call'[Main] = NoCall,
         ~booted => \A c \in Channels : c > slot => current'[c] = 0 /\ task'[c] = 0,
         \A c \in Channels : current'[c] = 0 /\ (~booted => c <= slot) => Finished(c)'
  PROVE  PollingInv'
<1>1. /\ slot' \in Channels /\ booted' \in BOOLEAN
      /\ \/ slot < ChannelCount /\ slot' = slot + 1 /\ booted' = booted /\ pc' = IF booted THEN "turn" ELSE "boot"
         \/ slot = ChannelCount /\ booted' = TRUE /\ pc' = IF active' = 0 THEN "returned" ELSE "turn"
  BY SlotMoves
<1>2. IsFiniteSet(CurrentSet') /\ active' \in Nat
  <2>1. CurrentSet' \subseteq Channels
    BY DEF CurrentSet
  <2>2. IsFiniteSet(CurrentSet')
    BY <2>1, CurrentFinite, FS_Subset
  <2> QED BY <2>2, FS_CardinalityType
<1>3. RunOK'
  BY <1>1, <1>2 DEF RunOK
<1>4. PollingTypes'
  BY <1>1 DEF PollingTypes
<1>5. PollingCalls'
  BY <1>1 DEF PollingCalls
<1>6. PollingCounts'
  BY DEF PollingCounts
<1>7. slot \in Nat /\ ChannelCount \in Nat /\ slot <= ChannelCount /\ (\A c \in Channels : c \in Nat /\ c <= ChannelCount)
  BY TaskEdgesAssumption DEF Channels
<1>8. PollingProgress'
  <2>1. CASE slot < ChannelCount /\ slot' = slot + 1 /\ booted' = booted /\ pc' = IF booted THEN "turn" ELSE "boot"
    <3>1. ~booted' => \A c \in Channels : (c > slot' \/ (c = slot' /\ pc' = "boot")) => current'[c] = 0 /\ task'[c] = 0
      BY <1>7, <2>1
    <3>2. \A c \in Channels : current'[c] = 0 /\ (~booted' => c < slot') => Finished(c)'
      BY <1>7, <2>1
    <3> QED BY <2>1, <3>1, <3>2 DEF PollingProgress
  <2>2. CASE slot = ChannelCount /\ booted' = TRUE /\ pc' = IF active' = 0 THEN "returned" ELSE "turn"
    BY <1>7, <2>2 DEF PollingProgress
  <2> QED BY <1>1, <2>1, <2>2
<1>9. PollingExit'
  <2> SUFFICES ASSUME pc' = "returned", NEW c \in Channels PROVE Finished(c)'
    BY DEF PollingExit
  <2>1. slot = ChannelCount /\ active' = 0
    BY <1>1
  <2>2. CurrentSet' = {}
    BY <1>2, <2>1, FS_EmptySet
  <2>3. current'[c] = 0
    BY <2>2 DEF CurrentSet
  <2> QED BY <1>7, <2>1, <2>3
<1> QED BY <1>3, <1>4, <1>5, <1>6, <1>8, <1>9 DEF PollingInv

\* StartFrontTask in the first loop.
LEMMA PollingBootStartKeeps ==
  ASSUME PollingInv, Polling!BootStart
  PROVE  PollingInv'
<1>1. /\ pc = "boot" /\ plan[slot] # << >> /\ CallInit(Main, slot, 1) /\ pc' = "init"
      /\ UNCHANGED <<plan, snd, arrived, taken, nospace, reg, ready, slot, booted, ok, current, active>>
  BY DEF Polling!BootStart, Polling!StartFrontTask, Polling!CallInit, CallInit, Polling!PhaseUnits, PhaseUnits,
         Polling!BeginPhase, BeginPhase, Polling!Phases, Phases, Polling!BothSides, BothSides, Polling!Sides, Sides
<1>2. PICK c \in Channels : c = slot
  BY DEF PollingInv, RunOK
<1>3. 1 \in 1 .. Len(plan[c])
  <2>1. plan[c] \in Seq(Seq(Phase)) /\ plan[c] # << >>
    BY <1>1, <1>2, TaskEdgesAssumption DEF PollingInv, EdgesOK
  <2> QED BY <2>1
<1>4. /\ EdgesOK' /\ call'[Main] \in Call /\ call'[Main].slot = c
      /\ task' = [task EXCEPT ![c] = 1] /\ (\A d \in Channels \ {c} : phase'[d] = phase[d])
  BY <1>1, <1>2, <1>3, InitCall, ExecutorsAssumption DEF PollingInv
<1>5. ~booted /\ current[c] = 0 /\ task'[c] = 1 /\ (\A d \in Channels \ {c} : task'[d] = task[d])
  BY <1>1, <1>2, <1>4 DEF PollingInv, EdgesOK, PollingTypes, PollingProgress
<1>6. RunOK' /\ PollingTypes' /\ PollingExit'
  BY <1>1, <1>2, <1>5 DEF PollingInv, RunOK, PollingTypes, PollingExit
<1>7. PollingCalls'
  BY <1>1, <1>2, <1>4, <1>5 DEF PollingCalls
<1>8. PollingCounts'
  BY <1>1 DEF PollingInv, PollingCounts, CurrentSet
<1>9. PollingProgress'
  <2>1. \A d \in Channels : d \in Nat
    BY DEF Channels
  <2>2. \A d \in Channels : d > slot => current[d] = 0 /\ task'[d] = 0
    BY <1>1, <1>2, <1>5, <2>1 DEF PollingInv, PollingProgress
  <2>3. \A d \in Channels : current[d] = 0 /\ d < slot /\ d # c => Finished(d)'
    BY <1>1, <1>4, <1>5, StillFinished DEF PollingInv, PollingProgress
  <2> QED BY <1>1, <1>2, <1>5, <2>1, <2>2, <2>3 DEF PollingProgress
<1> QED BY <1>4, <1>6, <1>7, <1>8, <1>9 DEF PollingInv

\* A channel without tasks, and one without a current task.
LEMMA PollingNoneKeeps ==
  ASSUME PollingInv, Polling!BootNone \/ Polling!TurnNone
  PROVE  PollingInv'
<1>1. /\ Polling!NextSlot(active)
      /\ UNCHANGED <<plan, task, phase, left, snd, arrived, taken, nospace, reg, ready, call, current, active, ok>>
      /\ (pc = "boot" /\ plan[slot] = << >>) \/ (pc = "turn" /\ current[slot] = 0)
  BY DEF Polling!BootNone, Polling!TurnNone, Polling!edgeVars
<1>2. EdgesOK'
  BY <1>1 DEF PollingInv, EdgesOK
<1>3. \A d \in Channels : d \in Nat
  BY DEF Channels
<1>4. slot \in Channels /\ booted \in BOOLEAN /\ (pc = "boot" => ~booted) /\ (pc = "turn" => booted)
  BY DEF PollingInv, RunOK, PollingTypes
<1>5. ASSUME NEW d \in Channels, current[d] = 0, ~booted => d <= slot
      PROVE  Finished(d)'
  <2>1. CASE pc = "boot" /\ d = slot
    <3>1. task[d] = 0 /\ Len(plan[d]) = 0
      BY <1>1, <2>1 DEF PollingInv, PollingProgress, PollingTypes
    <3>2. Finished(d)
      BY <3>1 DEF Finished
    <3> QED BY <1>1, <3>2, StillFinished
  <2>2. CASE pc = "turn" \/ d # slot
    <3>1. Finished(d)
      BY <1>1, <1>3, <1>4, <1>5, <2>2 DEF PollingInv, PollingProgress
    <3> QED BY <1>1, <3>1, StillFinished
  <2> QED BY <1>1, <2>1, <2>2
<1>6. /\ Polling!NextSlot(active') /\ current' \in [Channels -> Nat] /\ (\A c \in Channels : current'[c] # 0 => current'[c] = task'[c])
      /\ active' = Cardinality(CurrentSet') /\ ok' \in BOOLEAN /\ call'[Main] = NoCall
  <2>1. Polling!NextSlot(active')
    BY <1>1
  <2>2. CurrentSet' = CurrentSet
    BY <1>1 DEF CurrentSet
  <2> QED BY <1>1, <2>1, <2>2 DEF PollingInv, RunOK, PollingCounts, PollingCalls
<1>7. ~booted => \A c \in Channels : c > slot => current'[c] = 0 /\ task'[c] = 0
  BY <1>1 DEF PollingInv, PollingProgress
<1>8. \A c \in Channels : current'[c] = 0 /\ (~booted => c <= slot) => Finished(c)'
  BY <1>1, <1>5
<1> QED BY <1>2, <1>4, <1>6, <1>7, <1>8, PollingMovesOn

\* A task that is initialised is current.
LEMMA PollingInitReturnsKeeps ==
  ASSUME PollingInv, Polling!InitReturns
  PROVE  PollingInv'
<1>1. /\ pc = "init" /\ call' = [call EXCEPT ![Main] = NoCall] /\ current' = [current EXCEPT ![slot] = task[slot]]
      /\ active' = active + 1 /\ Polling!NextSlot(active + 1)
      /\ UNCHANGED <<plan, task, phase, left, snd, arrived, taken, nospace, reg, ready, ok>>
  BY DEF Polling!InitReturns, Polling!NoCall, NoCall, Polling!moveVars
<1>2. PICK c \in Channels : c = slot
  BY DEF PollingInv, RunOK
<1>3. task[c] \in Nat /\ task[c] > 0 /\ current[c] = 0
  BY <1>1, <1>2 DEF PollingInv, PollingCalls, PollingProgress, EdgesOK
<1>4. EdgesOK' /\ call'[Main] = NoCall
  <2>1. NoCall \in Call \cup {NoCall} /\ Main \in Threads
    BY ExecutorsAssumption
  <2> QED BY <1>1, <2>1, CallChange DEF PollingInv
<1>5. current'[c] = task[c] /\ (\A d \in Channels \ {c} : current'[d] = current[d]) /\ current' \in [Channels -> Nat]
  BY <1>1, <1>2, <1>3 DEF PollingInv, RunOK
<1>6. CurrentSet' = CurrentSet \cup {c} /\ c \notin CurrentSet
  BY <1>3, <1>5 DEF CurrentSet
<1>7. active' = Cardinality(CurrentSet')
  BY <1>1, <1>6, CurrentFinite, FS_AddElement DEF PollingInv, PollingCounts
<1>8. Polling!NextSlot(active')
  BY <1>1
<1>9. \A d \in Channels : d \in Nat
  BY DEF Channels
<1>10. slot \in Channels /\ booted \in BOOLEAN /\ ok' \in BOOLEAN
  BY <1>1 DEF PollingInv, RunOK, PollingTypes
<1>11. ~booted => \A d \in Channels : d > slot => current'[d] = 0 /\ task'[d] = 0
  BY <1>1, <1>2, <1>5, <1>9 DEF PollingInv, PollingProgress
<1>12. ASSUME NEW d \in Channels, current'[d] = 0, ~booted => d <= slot
       PROVE  Finished(d)'
  <2>1. d # c
    BY <1>3, <1>5, <1>12
  <2>2. Finished(d)
    BY <1>1, <1>2, <1>5, <1>9, <1>12, <2>1 DEF PollingInv, PollingProgress
  <2> QED BY <1>1, <2>2, StillFinished
<1>13. \A d \in Channels : current'[d] # 0 => current'[d] = task'[d]
  BY <1>1, <1>5 DEF PollingInv, RunOK
<1> QED BY <1>4, <1>5, <1>7, <1>8, <1>10, <1>11, <1>12, <1>13, PollingMovesOn

\* A failed call ends Run.
LEMMA PollingCallFailsKeeps ==
  ASSUME PollingInv, Polling!CallFails
  PROVE  PollingInv'
<1>1. /\ call' = [call EXCEPT ![Main] = NoCall] /\ pc' = "returned" /\ ok' = FALSE
      /\ UNCHANGED <<plan, task, phase, left, snd, arrived, taken, nospace, reg, ready, slot, booted, current, active>>
  BY DEF Polling!CallFails, Polling!NoCall, NoCall, Polling!moveVars
<1>2. EdgesOK' /\ call'[Main] = NoCall
  <2>1. NoCall \in Call \cup {NoCall} /\ Main \in Threads
    BY ExecutorsAssumption
  <2> QED BY <1>1, <2>1, CallChange DEF PollingInv
<1>3. RunOK' /\ PollingTypes' /\ PollingExit'
  BY <1>1 DEF PollingInv, RunOK, PollingTypes, PollingExit
<1>4. PollingCalls' /\ PollingProgress'
  BY <1>1, <1>2 DEF PollingCalls, PollingProgress
<1>5. PollingCounts'
  BY <1>1 DEF PollingInv, PollingCounts, CurrentSet
<1> QED BY <1>2, <1>3, <1>4, <1>5 DEF PollingInv

\* A turn begins: the sides that are not done are stepped.
LEMMA PollingTurnKeeps ==
  ASSUME PollingInv, Polling!Turn
  PROVE  PollingInv'
<1>1. PICK steps : /\ pc = "turn" /\ current[slot] # 0 /\ CallSteps(Main, slot, steps) /\ pc' = "step"
                   /\ steps = InOrder({s \in Sides : left[slot][s] > 0})
                   /\ UNCHANGED <<plan, snd, arrived, taken, nospace, reg, ready, slot, booted, current, active, ok>>
  BY DEF Polling!Turn, Polling!CallSteps, CallSteps, Polling!PendingSteps, Polling!InOrder, InOrder, Polling!Sides, Sides
<1>2. PICK c \in Channels : c = slot
  BY DEF PollingInv, RunOK
<1>3. steps \in Seq(Sides)
  BY <1>1, InOrderType
<1>4. current[c] # 0 /\ current[c] \in Nat /\ current[c] = task[c] /\ task[c] > 0
  BY <1>1, <1>2 DEF PollingInv, RunOK
<1>5. /\ EdgesOK' /\ call'[Main] \in Call
      /\ call'[Main] = [slot |-> c, todo |-> << >>, steps |-> steps, init |-> FALSE, result |-> "running"]
  BY <1>1, <1>2, <1>3, <1>4, StepsCall, ExecutorsAssumption DEF PollingInv
<1>6. call'[Main].slot = c /\ UNCHANGED <<task, phase, left>>
  BY <1>1, <1>5 DEF CallSteps
<1>7. RunOK' /\ PollingTypes' /\ PollingExit'
  BY <1>1, <1>6 DEF PollingInv, RunOK, PollingTypes, PollingExit
<1>8. PollingCalls'
  BY <1>1, <1>2, <1>4, <1>5, <1>6 DEF PollingCalls
<1>9. PollingCounts'
  BY <1>1 DEF PollingInv, PollingCounts, CurrentSet
<1>10. \A d \in Channels : Finished(d) => Finished(d)'
  BY <1>1, <1>6, StillFinished
<1>11. PollingProgress'
  BY <1>1, <1>10 DEF PollingInv, PollingProgress, PollingTypes
<1> QED BY <1>5, <1>7, <1>8, <1>9, <1>11 DEF PollingInv

\* A task that is not done waits for its next turn.
LEMMA PollingStepWaitsKeeps ==
  ASSUME PollingInv, Polling!StepWaits
  PROVE  PollingInv'
<1>1. /\ pc = "step" /\ call' = [call EXCEPT ![Main] = NoCall] /\ Polling!NextSlot(active)
      /\ UNCHANGED <<plan, task, phase, left, snd, arrived, taken, nospace, reg, ready, current, active, ok>>
  BY DEF Polling!StepWaits, Polling!NoCall, NoCall, Polling!moveVars
<1>2. EdgesOK' /\ call'[Main] = NoCall
  <2>1. NoCall \in Call \cup {NoCall} /\ Main \in Threads
    BY ExecutorsAssumption
  <2> QED BY <1>1, <2>1, CallChange DEF PollingInv
<1>3. slot \in Channels /\ booted \in BOOLEAN /\ ok' \in BOOLEAN /\ booted
  BY <1>1 DEF PollingInv, RunOK, PollingTypes
<1>4. CurrentSet' = CurrentSet
  BY <1>1 DEF CurrentSet
<1>5. /\ Polling!NextSlot(active') /\ active' = Cardinality(CurrentSet')
      /\ current' \in [Channels -> Nat] /\ (\A c \in Channels : current'[c] # 0 => current'[c] = task'[c])
  <2>1. Polling!NextSlot(active')
    BY <1>1
  <2> QED BY <1>1, <1>4, <2>1 DEF PollingInv, RunOK, PollingCounts
<1>6. ASSUME NEW d \in Channels, current'[d] = 0 PROVE Finished(d)'
  <2>1. Finished(d)
    BY <1>1, <1>3, <1>6 DEF PollingInv, PollingProgress
  <2> QED BY <1>1, <2>1, StillFinished
<1> QED BY <1>2, <1>3, <1>5, <1>6, PollingMovesOn

\* What retiring the task of a slot does to the current tasks.
LEMMA Retired ==
  ASSUME RunOK, NEW c \in Channels, current[c] # 0, active = Cardinality(CurrentSet),
         active' = active - 1, current' = [current EXCEPT ![c] = 0]
  PROVE  /\ current' \in [Channels -> Nat] /\ current'[c] = 0 /\ (\A d \in Channels \ {c} : current'[d] = current[d])
         /\ active' = Cardinality(CurrentSet') /\ active' \in Nat
<1>1. current' \in [Channels -> Nat] /\ current'[c] = 0 /\ (\A d \in Channels \ {c} : current'[d] = current[d])
  BY DEF RunOK
<1>2. CurrentSet' = CurrentSet \ {c} /\ c \in CurrentSet
  BY <1>1 DEF CurrentSet
<1>3. IsFiniteSet(CurrentSet \ {c}) /\ Cardinality(CurrentSet \ {c}) = Cardinality(CurrentSet) - 1
  BY <1>2, CurrentFinite, FS_RemoveElement
<1>4. Cardinality(CurrentSet \ {c}) \in Nat
  BY <1>3, FS_CardinalityType
<1> QED BY <1>1, <1>2, <1>3, <1>4

\* A task that is done is retired, and the channel's next one begins.
LEMMA PollingStepNextKeeps ==
  ASSUME PollingInv, Polling!StepNext
  PROVE  PollingInv'
<1>1. /\ pc = "step" /\ task[slot] < Len(plan[slot]) /\ CallInit(Main, slot, task[slot] + 1) /\ pc' = "init"
      /\ active' = active - 1 /\ current' = [current EXCEPT ![slot] = 0]
      /\ UNCHANGED <<plan, snd, arrived, taken, nospace, reg, ready, slot, booted, ok>>
  BY DEF Polling!StepNext, Polling!Retires, Polling!StartFrontTask, Polling!CallInit, CallInit, Polling!PhaseUnits, PhaseUnits,
         Polling!BeginPhase, BeginPhase, Polling!Phases, Phases, Polling!BothSides, BothSides, Polling!Sides, Sides
<1>2. PICK c \in Channels : c = slot
  BY DEF PollingInv, RunOK
<1>3. PICK t \in 1 .. Len(plan[c]) : t = task[c] + 1
  <2>1. task[c] \in Nat /\ Len(plan[c]) \in Nat /\ task[c] < Len(plan[c])
    BY <1>1, <1>2, TaskEdgesAssumption DEF PollingInv, EdgesOK
  <2> QED BY <2>1
<1>4. /\ EdgesOK' /\ call'[Main] \in Call /\ call'[Main].slot = c
      /\ task' = [task EXCEPT ![c] = t] /\ (\A d \in Channels \ {c} : phase'[d] = phase[d])
  BY <1>1, <1>2, <1>3, InitCall, ExecutorsAssumption DEF PollingInv
<1>5. booted /\ current[c] # 0 /\ task'[c] = t /\ t > 0 /\ (\A d \in Channels \ {c} : task'[d] = task[d])
  BY <1>1, <1>2, <1>4 DEF PollingInv, EdgesOK, PollingTypes, PollingProgress
<1>6. /\ current' \in [Channels -> Nat] /\ current'[c] = 0 /\ (\A d \in Channels \ {c} : current'[d] = current[d])
      /\ active' = Cardinality(CurrentSet') /\ active' \in Nat
  BY <1>1, <1>2, <1>5, Retired DEF PollingInv, PollingCounts
<1>7. RunOK' /\ PollingTypes' /\ PollingExit'
  BY <1>1, <1>2, <1>5, <1>6 DEF PollingInv, RunOK, PollingTypes, PollingExit
<1>8. PollingCalls'
  BY <1>1, <1>2, <1>4, <1>5 DEF PollingCalls
<1>9. PollingCounts'
  BY <1>6 DEF PollingCounts
<1>10. ASSUME NEW d \in Channels, current'[d] = 0, d # c PROVE Finished(d)'
  <2>1. Finished(d)
    BY <1>1, <1>5, <1>6, <1>10 DEF PollingInv, PollingProgress
  <2> QED BY <1>1, <1>4, <1>5, <1>10, <2>1, StillFinished
<1>11. PollingProgress'
  BY <1>1, <1>2, <1>5, <1>6, <1>10 DEF PollingProgress
<1> QED BY <1>4, <1>7, <1>8, <1>9, <1>11 DEF PollingInv

\* A task that is done was the last of its channel.
LEMMA PollingStepLastKeeps ==
  ASSUME PollingInv, Polling!StepLast
  PROVE  PollingInv'
<1>1. /\ pc = "step" /\ TaskDone(slot) /\ task[slot] = Len(plan[slot]) /\ call' = [call EXCEPT ![Main] = NoCall]
      /\ active' = active - 1 /\ current' = [current EXCEPT ![slot] = 0] /\ Polling!NextSlot(active - 1)
      /\ UNCHANGED <<plan, task, phase, left, snd, arrived, taken, nospace, reg, ready, ok>>
  BY DEF Polling!StepLast, Polling!Retires, Polling!NoCall, NoCall, Polling!moveVars, Polling!TaskDone, TaskDone,
         Polling!Phases, Phases
<1>2. PICK c \in Channels : c = slot
  BY DEF PollingInv, RunOK
<1>3. EdgesOK' /\ call'[Main] = NoCall
  <2>1. NoCall \in Call \cup {NoCall} /\ Main \in Threads
    BY ExecutorsAssumption
  <2> QED BY <1>1, <2>1, CallChange DEF PollingInv
<1>4. booted /\ current[c] # 0 /\ booted \in BOOLEAN /\ slot \in Channels /\ ok' \in BOOLEAN
  BY <1>1, <1>2 DEF PollingInv, RunOK, PollingTypes, PollingProgress
<1>5. /\ current' \in [Channels -> Nat] /\ current'[c] = 0 /\ (\A d \in Channels \ {c} : current'[d] = current[d])
      /\ active' = Cardinality(CurrentSet') /\ active' \in Nat
  BY <1>1, <1>2, <1>4, Retired DEF PollingInv, PollingCounts
<1>6. Polling!NextSlot(active')
  BY <1>1
<1>7. \A d \in Channels : current'[d] # 0 => current'[d] = task'[d]
  BY <1>1, <1>5 DEF PollingInv, RunOK
<1>8. ASSUME NEW d \in Channels, current'[d] = 0 PROVE Finished(d)'
  <2>1. Finished(d)
    <3>1. CASE d = c
      BY <1>1, <1>2, <3>1 DEF Finished
    <3>2. CASE d # c
      BY <1>1, <1>4, <1>5, <1>8, <3>2 DEF PollingInv, PollingProgress
    <3> QED BY <3>1, <3>2
  <2> QED BY <1>1, <2>1, StillFinished
<1> QED BY <1>3, <1>4, <1>5, <1>6, <1>7, <1>8, PollingMovesOn

\* A step inside CollectiveInit or CollectiveStep.
LEMMA PollingTopologyKeeps ==
  ASSUME PollingInv, Topology(Main), UNCHANGED <<pc, slot, booted, current, active, ok>>
  PROVE  PollingInv'
<1>0. Main \in Threads /\ EdgesOK
  BY ExecutorsAssumption DEF PollingInv
<1>1. Moves(Main)
  BY <1>0, TopologyMoves
<1>2. PICK c \in Channels : c = call[Main].slot
  BY <1>1 DEF Moves, Call
<1>3. pc \in {"init", "step"} /\ slot = c /\ task[c] > 0
  BY <1>1, <1>2, CallIsCall DEF PollingInv, PollingCalls, Moves
<1>4. /\ EdgesOK' /\ UNCHANGED <<plan, task>> /\ call'[Main] \in Call /\ call'[Main].slot = c
      /\ (\A d \in Channels \ {c} : phase'[d] = phase[d])
  BY <1>1, <1>2 DEF Moves
<1>5. RunOK' /\ PollingTypes' /\ PollingExit'
  BY <1>3, <1>4 DEF PollingInv, RunOK, PollingTypes, PollingExit
<1>6. PollingCalls'
  BY <1>3, <1>4 DEF PollingCalls
<1>7. PollingCounts'
  BY DEF PollingInv, PollingCounts, CurrentSet
<1>8. ASSUME NEW d \in Channels, Finished(d), d # c PROVE Finished(d)'
  BY <1>4, <1>8, StillFinished
<1>9. ASSUME NEW d \in Channels, current[d] = 0, ~booted => d < slot, pc = "init" => d # slot PROVE d # c
  <2>1. c \in Nat
    BY DEF Channels
  <2> QED BY <1>3, <1>9, <2>1 DEF PollingInv, PollingProgress
<1>10. PollingProgress'
  BY <1>3, <1>4, <1>8, <1>9 DEF PollingInv, PollingProgress
<1> QED BY <1>4, <1>5, <1>6, <1>7, <1>10 DEF PollingInv

\* Data arrives, or is drained.
LEMMA PollingKernelKeeps ==
  ASSUME PollingInv, NEW c \in Channels, Arrive(c) \/ Drain(c), UNCHANGED <<pc, slot, booted, current, active, ok>>
  PROVE  PollingInv'
<1>0. EdgesOK
  BY DEF PollingInv
<1>1. EdgesOK' /\ UNCHANGED <<plan, task, phase, call>>
  BY <1>0, ArriveKeeps, DrainKeeps
<1>2. \A d \in Channels : Finished(d)' <=> Finished(d)
  BY <1>1 DEF Finished, TaskDone, Phases
<1>3. RunOK' /\ PollingTypes'
  BY <1>1 DEF PollingInv, RunOK, PollingTypes
<1>4. PollingCalls' /\ PollingCounts'
  BY <1>1 DEF PollingInv, PollingCalls, PollingCounts, CurrentSet
<1>5. PollingProgress' /\ PollingExit'
  BY <1>1, <1>2 DEF PollingInv, PollingProgress, PollingExit
<1> QED BY <1>1, <1>3, <1>4, <1>5 DEF PollingInv

\* Any step of Run.
LEMMA PollingRunKeeps ==
  ASSUME PollingInv, Polling!Run
  PROVE  PollingInv'
<1>1. CASE Polling!Topology(Main) /\ UNCHANGED <<pc, slot, booted, current, active, ok>>
  BY <1>1, ExecutorsAssumption, PollingTopology, PollingTopologyKeeps
<1> QED BY <1>1, PollingBootStartKeeps, PollingNoneKeeps, PollingInitReturnsKeeps, PollingCallFailsKeeps,
           PollingTurnKeeps, PollingStepWaitsKeeps, PollingStepNextKeeps, PollingStepLastKeeps
        DEF Polling!Run, Polling!runVars

\* The invariant holds when Run begins.
LEMMA PollingBegins ==
  ASSUME Polling!Init
  PROVE  PollingInv
<1>1. EdgesInit
  BY DEF Polling!Init, Polling!EdgesInit, EdgesInit, Polling!Channels, Channels, Polling!Sides, Sides, Polling!NoCall, NoCall
<1>2. EdgesOK /\ (\A c \in Channels : task[c] = 0) /\ (\A th \in Threads : call[th] = NoCall)
  BY <1>1, EdgesBegin
<1>3. /\ pc = "boot" /\ slot = 1 /\ booted = FALSE /\ current = [c \in Channels |-> 0] /\ active = 0 /\ ok = TRUE
  BY DEF Polling!Init, Polling!Channels, Channels
<1>4. slot \in Channels /\ (\A c \in Channels : current[c] = 0 /\ c \in Nat /\ ~(c < 1))
  BY <1>3, TaskEdgesAssumption DEF Channels
<1>5. RunOK /\ PollingTypes /\ PollingExit
  BY <1>3, <1>4 DEF RunOK, PollingTypes, PollingExit
<1>6. PollingCalls
  BY <1>2, <1>3, ExecutorsAssumption DEF PollingCalls
<1>7. CurrentSet = {}
  BY <1>4 DEF CurrentSet
<1>8. PollingCounts
  BY <1>3, <1>7, FS_EmptySet DEF PollingCounts
<1>9. PollingProgress
  BY <1>2, <1>3, <1>4 DEF PollingProgress
<1> QED BY <1>2, <1>5, <1>6, <1>8, <1>9 DEF PollingInv

-----------------------------------------------------------------------------
(* ReactorExecutor *)

\* Its copies of the operators of TaskEdges are those operators.
LEMMA ReactorCardinality ==
  ASSUME NEW S
  PROVE  Reactor!Cardinality(S) = Cardinality(S)
BY Zenon DEF Reactor!Cardinality, Cardinality

\* The same for the tests on a task and the calls of the Topology.
LEMMA ReactorTopology ==
  ASSUME NEW th \in Threads, Reactor!Topology(th)
  PROVE  Topology(th)
<1>1. CASE Reactor!PushBuffer(th)
  <2>1. Reactor!InCall(th, "running") <=> InCall(th, "running")
    BY DEF Reactor!InCall, InCall, Reactor!NoCall, NoCall
  <2>2. \A a, b : Reactor!Moved(a, b) = Moved(a, b)
    BY DEF Reactor!Moved, Moved, Reactor!Min, Min
  <2>3. PushBuffer(th)
    BY <1>1, <2>1, <2>2 DEF Reactor!PushBuffer, PushBuffer, Reactor!TrySend, TrySend, Reactor!TryRecv, TryRecv,
                            Reactor!moveVars, moveVars
  <2> QED BY <2>3 DEF Topology
<1>2. CASE Reactor!PushFails(th)
  BY <1>2 DEF Reactor!PushFails, PushFails, Reactor!InCall, InCall, Reactor!NoCall, NoCall, Reactor!moveVars, moveVars, Topology
<1>3. CASE Reactor!NextPhase(th)
  <2>1. NextPhase(th)
    BY <1>3 DEF Reactor!NextPhase, NextPhase, Reactor!InCall, InCall, Reactor!NoCall, NoCall, Reactor!PhaseOver, PhaseOver,
                Reactor!TaskDone, TaskDone, Reactor!Phases, Phases, Reactor!Sides, Sides, Reactor!PhaseUnits, PhaseUnits,
                Reactor!BeginPhase, BeginPhase, Reactor!BothSides, BothSides
  <2> QED BY <2>1 DEF Topology
<1>4. CASE Reactor!NextStep(th)
  <2>1. NextStep(th)
    BY <1>4 DEF Reactor!NextStep, NextStep, Reactor!InCall, InCall, Reactor!NoCall, NoCall, Reactor!PhaseOver, PhaseOver,
                Reactor!TaskDone, TaskDone, Reactor!Phases, Phases, Reactor!Sides, Sides, Reactor!moveVars, moveVars
  <2> QED BY <2>1 DEF Topology
<1>5. CASE Reactor!CallReturns(th)
  <2>1. CallReturns(th)
    BY <1>5 DEF Reactor!CallReturns, CallReturns, Reactor!InCall, InCall, Reactor!NoCall, NoCall, Reactor!PhaseOver, PhaseOver,
                Reactor!TaskDone, TaskDone, Reactor!Phases, Phases, Reactor!Sides, Sides, Reactor!moveVars, moveVars
  <2> QED BY <2>1 DEF Topology
<1> QED BY <1>1, <1>2, <1>3, <1>4, <1>5 DEF Reactor!Topology

\* A job or a report of a new channel at the end of a queue.
LEMMA QueueAppend ==
  ASSUME NEW S, NEW q \in Seq(S), NEW x \in S, x.slot \notin Slots(q)
  PROVE  /\ Append(q, x) \in Seq(S) /\ Append(q, x) # << >>
         /\ Slots(Append(q, x)) = Slots(q) \cup {x.slot}
         /\ Inits(Append(q, x)) = Inits(q) \cup (IF x.init THEN {x.slot} ELSE {})
         /\ (NoTwice(q) => NoTwice(Append(q, x)))
         /\ (\A i \in DOMAIN Append(q, x) : Append(q, x)[i] = x \/ (i \in DOMAIN q /\ Append(q, x)[i] = q[i]))
<1>0. Append(q, x) \in Seq(S)
  OBVIOUS
<1>1. PICK r \in Seq(S) : r = Append(q, x)
  BY <1>0
<1>2. PICK n : n = Len(q) + 1
  OBVIOUS
<1>3. DOMAIN r = DOMAIN q \cup {n} /\ n \notin DOMAIN q /\ r[n] = x /\ (\A i \in DOMAIN q : r[i] = q[i]) /\ r # << >>
  BY <1>1, <1>2
<1>4. Slots(r) = Slots(q) \cup {x.slot}
  BY <1>3 DEF Slots
<1>5. Inits(r) = Inits(q) \cup (IF x.init THEN {x.slot} ELSE {})
  BY <1>3 DEF Inits
<1>6. NoTwice(q) => NoTwice(r)
  BY <1>3 DEF NoTwice, Slots
<1>7. \A i \in DOMAIN r : r[i] = x \/ (i \in DOMAIN q /\ r[i] = q[i])
  BY <1>3
<1> QED BY <1>1, <1>3, <1>4, <1>5, <1>6, <1>7

\* The first entry of a queue is taken.
LEMMA QueueTail ==
  ASSUME NEW S, NEW q \in Seq(S), q # << >>, NoTwice(q)
  PROVE  /\ Tail(q) \in Seq(S) /\ Head(q) \in S /\ Head(q).slot \in Slots(q)
         /\ Slots(Tail(q)) = Slots(q) \ {Head(q).slot}
         /\ Inits(Tail(q)) = Inits(q) \ {Head(q).slot}
         /\ (Head(q).init <=> Head(q).slot \in Inits(q))
         /\ NoTwice(Tail(q))
         /\ (\A i \in DOMAIN Tail(q) : \E j \in DOMAIN q : Tail(q)[i] = q[j])
<1>0. Tail(q) \in Seq(S)
  OBVIOUS
<1>1. PICK r \in Seq(S) : r = Tail(q)
  BY <1>0
<1>2. PICK x \in S : x = Head(q) /\ x = q[1] /\ 1 \in DOMAIN q
  OBVIOUS
<1>3. \A i \in DOMAIN r : i + 1 \in DOMAIN q /\ i + 1 # 1 /\ r[i] = q[i + 1]
  BY <1>1
<1>4. \A i \in DOMAIN q : i = 1 \/ (i - 1 \in DOMAIN r /\ r[i - 1] = q[i])
  BY <1>1
<1>5. \A i \in DOMAIN q : q[i].slot = x.slot => i = 1
  BY <1>2 DEF NoTwice
<1>6. Slots(r) = Slots(q) \ {x.slot} /\ x.slot \in Slots(q)
  BY <1>2, <1>3, <1>4, <1>5 DEF Slots
<1>7. Inits(r) = Inits(q) \ {x.slot} /\ (x.init <=> x.slot \in Inits(q))
  <2>1. ASSUME NEW c PROVE c \in Inits(q) <=> \E i \in DOMAIN q : q[i].init /\ q[i].slot = c
    BY DEF Inits
  <2>2. ASSUME NEW c PROVE c \in Inits(r) <=> \E i \in DOMAIN r : r[i].init /\ r[i].slot = c
    BY DEF Inits
  <2>3. x.init <=> x.slot \in Inits(q)
    BY <1>2, <1>5, <2>1
  <2>4. ASSUME NEW c PROVE c \in Inits(r) <=> c \in Inits(q) /\ c # x.slot
    <3>1. ASSUME c \in Inits(r) PROVE c \in Inits(q) /\ c # x.slot
      <4>1. PICK i \in DOMAIN r : r[i].init /\ r[i].slot = c
        BY <2>2, <3>1
      <4>2. i + 1 \in DOMAIN q /\ i + 1 # 1 /\ q[i + 1].init /\ q[i + 1].slot = c
        BY <1>3, <4>1
      <4> QED BY <4>2, <2>1, <1>5
    <3>2. ASSUME c \in Inits(q), c # x.slot PROVE c \in Inits(r)
      <4>1. PICK i \in DOMAIN q : q[i].init /\ q[i].slot = c
        BY <2>1, <3>2
      <4>2. i - 1 \in DOMAIN r /\ r[i - 1] = q[i]
        BY <1>2, <1>4, <3>2, <4>1
      <4> QED BY <4>1, <4>2, <2>2
    <3> QED BY <3>1, <3>2
  <2> QED BY <2>3, <2>4
<1>8. NoTwice(r)
  <2> SUFFICES ASSUME NEW i \in DOMAIN r, NEW j \in DOMAIN r, r[i].slot = r[j].slot PROVE i = j
    BY DEF NoTwice
  <2>1. i + 1 = j + 1
    BY <1>3 DEF NoTwice
  <2> QED BY <2>1, <1>1
<1>9. \A i \in DOMAIN r : \E j \in DOMAIN q : r[i] = q[j]
  BY <1>3
<1> QED BY <1>1, <1>2, <1>6, <1>7, <1>8, <1>9

\* One queue behind another.
LEMMA QueueConcat ==
  ASSUME NEW S, NEW q \in Seq(S), NEW r \in Seq(S), NoTwice(q), NoTwice(r), Slots(q) \cap Slots(r) = {}
  PROVE  /\ q \o r \in Seq(S) /\ Slots(q \o r) = Slots(q) \cup Slots(r)
         /\ Inits(q \o r) = Inits(q) \cup Inits(r) /\ NoTwice(q \o r)
<1>0. q \o r \in Seq(S)
  OBVIOUS
<1>1. PICK p \in Seq(S) : p = q \o r
  BY <1>0
<1>2. Len(q) \in Nat /\ Len(r) \in Nat /\ DOMAIN q = 1 .. Len(q) /\ DOMAIN r = 1 .. Len(r) /\ DOMAIN p = 1 .. (Len(q) + Len(r))
  BY <1>1
<1>3. \A i \in DOMAIN q : i \in DOMAIN p /\ p[i] = q[i]
  BY <1>1, <1>2
<1>4. \A i \in DOMAIN r : Len(q) + i \in DOMAIN p /\ p[Len(q) + i] = r[i]
  BY <1>1, <1>2
<1>5. \A i \in DOMAIN p : i \in DOMAIN q \/ (i - Len(q) \in DOMAIN r /\ p[i] = r[i - Len(q)])
  BY <1>1, <1>2
<1>6. Slots(p) = Slots(q) \cup Slots(r)
  <2>1. \A c : c \in Slots(p) <=> \E i \in DOMAIN p : p[i].slot = c
    BY DEF Slots
  <2>2. \A c : c \in Slots(q) <=> \E i \in DOMAIN q : q[i].slot = c
    BY DEF Slots
  <2>3. \A c : c \in Slots(r) <=> \E i \in DOMAIN r : r[i].slot = c
    BY DEF Slots
  <2>4. ASSUME NEW c PROVE c \in Slots(p) <=> c \in Slots(q) \/ c \in Slots(r)
    <3>1. c \in Slots(p) => c \in Slots(q) \/ c \in Slots(r)
      BY <1>3, <1>5, <2>1, <2>2, <2>3
    <3>2. c \in Slots(q) => c \in Slots(p)
      BY <1>3, <2>1, <2>2
    <3>3. c \in Slots(r) => c \in Slots(p)
      BY <1>4, <2>1, <2>3
    <3> QED BY <3>1, <3>2, <3>3
  <2> QED BY <2>4
<1>7. Inits(p) = Inits(q) \cup Inits(r)
  <2>1. \A c : c \in Inits(p) <=> \E i \in DOMAIN p : p[i].init /\ p[i].slot = c
    BY DEF Inits
  <2>2. \A c : c \in Inits(q) <=> \E i \in DOMAIN q : q[i].init /\ q[i].slot = c
    BY DEF Inits
  <2>3. \A c : c \in Inits(r) <=> \E i \in DOMAIN r : r[i].init /\ r[i].slot = c
    BY DEF Inits
  <2>4. ASSUME NEW c PROVE c \in Inits(p) <=> c \in Inits(q) \/ c \in Inits(r)
    <3>1. c \in Inits(p) => c \in Inits(q) \/ c \in Inits(r)
      BY <1>3, <1>5, <2>1, <2>2, <2>3
    <3>2. c \in Inits(q) => c \in Inits(p)
      BY <1>3, <2>1, <2>2
    <3>3. c \in Inits(r) => c \in Inits(p)
      BY <1>4, <2>1, <2>3
    <3> QED BY <3>1, <3>2, <3>3
  <2> QED BY <2>4
<1>8. NoTwice(p)
  <2> SUFFICES ASSUME NEW i \in DOMAIN p, NEW j \in DOMAIN p, p[i].slot = p[j].slot PROVE i = j
    BY DEF NoTwice
  <2>1. ASSUME NEW k \in DOMAIN q PROVE p[k].slot \in Slots(q)
    BY <1>3 DEF Slots
  <2>2. ASSUME NEW k \in DOMAIN p, k \notin DOMAIN q PROVE p[k].slot \in Slots(r)
    <3>1. k - Len(q) \in DOMAIN r /\ p[k] = r[k - Len(q)]
      BY <1>5, <2>2
    <3> QED BY <3>1 DEF Slots
  <2>3. CASE i \in DOMAIN q /\ j \in DOMAIN q
    BY <1>3, <2>3 DEF NoTwice
  <2>4. CASE i \notin DOMAIN q /\ j \notin DOMAIN q
    <3>1. i - Len(q) = j - Len(q)
      BY <1>5, <2>4 DEF NoTwice
    <3> QED BY <3>1, <1>2
  <2> QED BY <2>1, <2>2, <2>3, <2>4
<1> QED BY <1>1, <1>6, <1>7, <1>8

\* Only channels of a queue are in their init there; an empty queue has none.
LEMMA QueueFacts ==
  ASSUME NEW q
  PROVE  /\ Inits(q) \subseteq Slots(q)
         /\ (q = << >> => Slots(q) = {} /\ Inits(q) = {} /\ NoTwice(q))
<1>1. Inits(q) \subseteq Slots(q)
  BY DEF Inits, Slots
<1>2. q = << >> => Slots(q) = {} /\ Inits(q) = {} /\ NoTwice(q)
  BY DEF Inits, Slots, NoTwice
<1> QED BY <1>1, <1>2

\* A queue of no channels is empty.
LEMMA QueueEmpty ==
  ASSUME NEW S, NEW q \in Seq(S), Slots(q) = {}
  PROVE  q = << >>
<1>1. DOMAIN q = {}
  BY DEF Slots
<1> QED BY <1>1

\* One task changes its place.
LEMMA PartedMoves ==
  ASSUME NEW Q, NEW K, NEW A, NEW B, NEW W, NEW C, Parted(Q, K, A, B, W, C), NEW c
  PROVE  /\ (c \in Q => Parted(Q \ {c}, K \cup {c}, A, B, W, C))
         /\ (c \in K => Parted(Q, K \ {c}, A \cup {c}, B, W, C))
         /\ (c \in B => Parted(Q, K, A, B \ {c}, W \cup {c}, C))
         /\ (c \in B => Parted(Q \cup {c}, K, A, B \ {c}, W, C))
         /\ (c \in B => Parted(Q, K, A, B \ {c}, W, C \ {c}))
         /\ (c \notin C => Parted(Q \cup {c}, K, A, B, W, C \cup {c}))
         /\ (B = {} => Parted(Q, K, {}, A, W, C))
<1>1. c \in Q => Parted(Q \ {c}, K \cup {c}, A, B, W, C)
  BY DEF Parted
<1>2. c \in K => Parted(Q, K \ {c}, A \cup {c}, B, W, C)
  BY DEF Parted
<1>3. c \in B => Parted(Q, K, A, B \ {c}, W \cup {c}, C)
  BY DEF Parted
<1>4. c \in B => Parted(Q \cup {c}, K, A, B \ {c}, W, C)
  BY DEF Parted
<1>5. c \in B => Parted(Q, K, A, B \ {c}, W, C \ {c})
  BY DEF Parted
<1>6. c \notin C => Parted(Q \cup {c}, K, A, B, W, C \cup {c})
  BY DEF Parted
<1>7. B = {} => Parted(Q, K, {}, A, W, C)
  BY DEF Parted
<1> QED BY <1>1, <1>2, <1>3, <1>4, <1>5, <1>6, <1>7

\* Several watched tasks are queued.
LEMMA PartedPosts ==
  ASSUME NEW Q, NEW K, NEW A, NEW B, NEW W, NEW C, Parted(Q, K, A, B, W, C), NEW P, P \subseteq W
  PROVE  Parted(Q \cup P, K, A, B, W \ P, C)
BY DEF Parted

\* The numbers of a set in ascending order: each of them once.
LEMMA AscendingFacts ==
  ASSUME NEW n \in Nat, NEW S, S \subseteq 1 .. n
  PROVE  /\ Ascending(S) \in Seq(S) /\ Len(Ascending(S)) = Cardinality(S)
         /\ (\A c \in S : \E i \in DOMAIN Ascending(S) : Ascending(S)[i] = c)
         /\ (\A i, j \in DOMAIN Ascending(S) : Ascending(S)[i] = Ascending(S)[j] => i = j)
<1>1. IsFiniteSet(1 .. n) /\ S \in SUBSET (1 .. n) /\ S \subseteq Int
  BY FS_Interval
<1>2. IsFiniteSet(S)
  BY <1>1, FS_Subset
<1>3. Lists(Ascending(S), S)
  BY <1>1, <1>2, AscendingLists
<1> QED BY <1>3 DEF Lists

\* ReactorExecutor's copy of it.
LEMMA ReactorAscending ==
  ASSUME NEW S
  PROVE  Reactor!Ascending(S) = Ascending(S)
BY Zenon DEF Reactor!Ascending, Ascending, Reactor!Cardinality, Cardinality

\* The jobs and the reports are about channels.
LEMMA JobTypes ==
  /\ Reactor!Job = [slot : Channels, init : BOOLEAN, steps : Seq(Sides)]
  /\ Reactor!Completion = [slot : Channels, init : BOOLEAN, state : {"waiting", "done", "failed"}]
BY DEF Reactor!Job, Reactor!Completion, Reactor!Channels, Channels, Reactor!Sides, Sides

\* A set of channels is finite, and no larger than the channels are many.
LEMMA CountRange ==
  ASSUME NEW T, T \subseteq Channels
  PROVE  IsFiniteSet(T) /\ Cardinality(T) \in 0 .. ChannelCount
<1>1. IsFiniteSet(T) /\ Cardinality(T) <= ChannelCount
  BY CurrentFinite, FS_Subset
<1>2. Cardinality(T) \in Nat /\ ChannelCount \in Nat
  BY <1>1, FS_CardinalityType, TaskEdgesAssumption
<1> QED BY <1>1, <1>2

\* A worker's call begins.
LEMMA CallEnters ==
  ASSUME NEW w \in Threads, call[w] = NoCall, call'[w] # NoCall, \A v \in Threads \ {w} : call'[v] = call[v]
  PROVE  /\ Busy' = Busy \cup {w} /\ CallSlots' = CallSlots \cup {call'[w].slot}
         /\ CallInits' = CallInits \cup (IF call'[w].init THEN {call'[w].slot} ELSE {})
         /\ (\A u, v \in Busy : call[u].slot = call[v].slot => u = v) /\ call'[w].slot \notin CallSlots
               => (\A u, v \in Busy' : call'[u].slot = call'[v].slot => u = v)
<1>1. Busy' = Busy \cup {w} /\ w \notin Busy /\ (\A v \in Busy : call'[v] = call[v])
  BY DEF Busy
<1>2. CallSlots' = CallSlots \cup {call'[w].slot}
  BY <1>1 DEF CallSlots
<1>3. CallInits' = CallInits \cup (IF call'[w].init THEN {call'[w].slot} ELSE {})
  BY <1>1 DEF CallInits
<1>4. ASSUME \A u, v \in Busy : call[u].slot = call[v].slot => u = v, call'[w].slot \notin CallSlots
      PROVE  \A u, v \in Busy' : call'[u].slot = call'[v].slot => u = v
  <2>1. \A v \in Busy : call'[v].slot # call'[w].slot
    BY <1>1, <1>4 DEF CallSlots
  <2> QED BY <1>1, <1>4, <2>1
<1> QED BY <1>1, <1>2, <1>3, <1>4

\* A worker's call ends.
LEMMA CallLeaves ==
  ASSUME NEW w \in Threads, call[w] # NoCall, call'[w] = NoCall, \A v \in Threads \ {w} : call'[v] = call[v],
         \A u, v \in Busy : call[u].slot = call[v].slot => u = v
  PROVE  /\ Busy' = Busy \ {w} /\ CallSlots' = CallSlots \ {call[w].slot} /\ call[w].slot \in CallSlots
         /\ CallInits' = CallInits \ {call[w].slot} /\ (call[w].init <=> call[w].slot \in CallInits)
         /\ (\A u, v \in Busy' : call'[u].slot = call'[v].slot => u = v)
<1>1. Busy' = Busy \ {w} /\ w \in Busy /\ (\A v \in Busy' : call'[v] = call[v] /\ v \in Busy)
  BY DEF Busy
<1>2. \A v \in Busy \ {w} : call[v].slot # call[w].slot
  BY <1>1
<1>3. CallSlots' = CallSlots \ {call[w].slot} /\ call[w].slot \in CallSlots
  BY <1>1, <1>2 DEF CallSlots
<1>4. CallInits' = CallInits \ {call[w].slot} /\ (call[w].init <=> call[w].slot \in CallInits)
  BY <1>1, <1>2 DEF CallInits
<1> QED BY <1>1, <1>3, <1>4

\* A worker's call goes on.
LEMMA CallStays ==
  ASSUME NEW w \in Threads, call[w] # NoCall, call'[w] # NoCall, \A v \in Threads \ {w} : call'[v] = call[v],
         call'[w].slot = call[w].slot, call'[w].init = call[w].init
  PROVE  /\ Busy' = Busy /\ CallSlots' = CallSlots /\ CallInits' = CallInits
         /\ (\A v \in Busy : call'[v].slot = call[v].slot)
<1>1. Busy' = Busy /\ (\A v \in Busy : call'[v].slot = call[v].slot /\ call'[v].init = call[v].init)
  BY DEF Busy
<1>2. CallSlots' = CallSlots
  BY <1>1 DEF CallSlots
<1>3. CallInits' = CallInits
  BY <1>1 DEF CallInits
<1> QED BY <1>1, <1>2, <1>3

\* Where a task in some place is, and is not.
LEMMA LiveFacts ==
  ASSUME ReactorInv, Live
  PROVE  /\ CurrentSet \subseteq Channels /\ InitSet \subseteq CurrentSet \ WatchedSet
         /\ Slots(queue) \subseteq CurrentSet \ WatchedSet /\ CallSlots \subseteq CurrentSet \ WatchedSet
         /\ Slots(completions) \subseteq CurrentSet \ WatchedSet /\ Slots(completed) \subseteq CurrentSet \ WatchedSet
         /\ WatchedSet \subseteq CurrentSet /\ CallInits \subseteq CallSlots
<1>1. Parted(Slots(queue), CallSlots, Slots(completions), Slots(completed), WatchedSet, CurrentSet)
  BY DEF ReactorInv, ReactorOwned
<1>2. /\ Slots(queue) \subseteq CurrentSet \ WatchedSet /\ CallSlots \subseteq CurrentSet \ WatchedSet
      /\ Slots(completions) \subseteq CurrentSet \ WatchedSet /\ Slots(completed) \subseteq CurrentSet \ WatchedSet
      /\ WatchedSet \subseteq CurrentSet
  BY <1>1 DEF Parted
<1>3. CallInits \subseteq CallSlots
  BY DEF CallInits, CallSlots
<1>4. InitSet \subseteq CurrentSet \ WatchedSet
  BY <1>2, <1>3, QueueFacts DEF InitSet
<1>5. CurrentSet \subseteq Channels
  BY DEF CurrentSet
<1> QED BY <1>2, <1>3, <1>4, <1>5

\* A step that leaves every task in its place.
LEMMA PlacesStay ==
  ASSUME ReactorInv, Live, UNCHANGED <<plan, task, phase, reg, call, current, active, inFlight, queue, completions, completed, slot>>,
         pc # "boot" => pc' # "boot", pc = "boot" => pc' = "boot", pc' # "process" => completed = << >>
  PROVE  ReactorOwned' /\ ReactorCounts' /\ ReactorProgress'
<1>1. /\ Busy' = Busy /\ CallSlots' = CallSlots /\ CallInits' = CallInits /\ WatchedSet' = WatchedSet
      /\ CurrentSet' = CurrentSet
  BY DEF Busy, CallSlots, CallInits, WatchedSet, CurrentSet
<1>2. InitSet' = InitSet
  BY <1>1 DEF InitSet
<1>3. ReactorOwned'
  BY <1>1 DEF ReactorInv, ReactorOwned
<1>4. ReactorCounts'
  BY <1>1, <1>2 DEF ReactorInv, ReactorCounts
<1>5. \A c \in Channels : (Finished(c)' <=> Finished(c)) /\ (Over(c)' <=> Over(c))
  BY DEF Finished, Over, TaskDone, Phases
<1>6. Truthful(completions)' /\ Truthful(completed)'
  BY DEF ReactorInv, ReactorProgress, Truthful, TaskDone, Phases
<1>7. Inits(queue) \subseteq Channels
  BY LiveFacts, QueueFacts
<1>8. ReactorProgress'
  BY <1>1, <1>5, <1>6, <1>7 DEF ReactorInv, ReactorProgress
<1> QED BY <1>3, <1>4, <1>8

\* The first loop of Run posts a channel's first task.
LEMMA ReactorBootKeeps ==
  ASSUME ReactorInv, Reactor!Boot
  PROVE  ReactorInv'
<1>1. /\ pc = "boot" /\ \/ slot < ChannelCount /\ slot' = slot + 1 /\ pc' = "boot"
                        \/ ~(slot < ChannelCount) /\ slot' = slot /\ pc' = "wait"
      /\ \/ /\ 0 < Len(plan[slot]) /\ current' = [current EXCEPT ![slot] = 0 + 1] /\ inFlight' = inFlight + 1
            /\ queue' = Append(queue, [slot |-> slot, init |-> TRUE, steps |-> << >>])
         \/ /\ ~(0 < Len(plan[slot])) /\ current' = [current EXCEPT ![slot] = 0] /\ inFlight' = inFlight /\ queue' = queue
      /\ UNCHANGED <<plan, task, phase, left, snd, arrived, taken, nospace, reg, ready, call, active, completions, completed,
                     notify, post, stop, gone, ok>>
  BY DEF Reactor!Boot, Reactor!StartNext, Reactor!edgeVars
<1>2. PICK c \in Channels : c = slot
  BY DEF ReactorInv, ReactorTypes
<1>3. Live /\ Live'
  BY <1>1 DEF Live
<1>4. /\ CurrentSet \subseteq Channels /\ InitSet \subseteq CurrentSet \ WatchedSet
      /\ Slots(queue) \subseteq CurrentSet \ WatchedSet /\ WatchedSet \subseteq CurrentSet
  BY <1>3, LiveFacts
<1>5. ChannelCount \in Nat /\ c \in Nat /\ c <= ChannelCount /\ (\A d \in Channels : d \in Nat /\ d <= ChannelCount)
  BY TaskEdgesAssumption DEF Channels
<1>6. /\ current[c] = 0 /\ task[c] = 0 /\ c \notin CurrentSet /\ current \in [Channels -> Nat] /\ Len(plan[c]) \in Nat
      /\ (\A d \in Channels : current[d] <= Len(plan[d]))
  <2>1. current[c] = 0 /\ task[c] = 0
    BY <1>1, <1>2, <1>3, <1>5 DEF ReactorInv, ReactorProgress
  <2>2. plan[c] \in Seq(Seq(Phase))
    BY TaskEdgesAssumption DEF ReactorInv, EdgesOK
  <2> QED BY <2>1, <2>2 DEF CurrentSet, ReactorInv, ReactorTypes
<1>7. EdgesOK'
  BY <1>1 DEF ReactorInv, EdgesOK
<1>8. slot' \in Channels /\ (\A d \in Channels : pc' = "boot" => (d >= slot' => d > c) /\ (d < slot' => d <= c))
  BY <1>1, <1>2, <1>5 DEF Channels
<1>9. /\ Busy' = Busy /\ CallSlots' = CallSlots /\ CallInits' = CallInits /\ WatchedSet' = WatchedSet
  BY <1>1 DEF Busy, CallSlots, CallInits, WatchedSet
<1>10. ReactorGone' /\ ReactorExit' /\ ReactorWoken'
  BY <1>1 DEF ReactorInv, ReactorGone, ReactorExit, ReactorWoken
<1>11. /\ NoTwice(queue) /\ Parted(Slots(queue), CallSlots, Slots(completions), Slots(completed), WatchedSet, CurrentSet)
       /\ queue \in Seq(Reactor!Job) /\ inFlight = Cardinality(CurrentSet \ WatchedSet) /\ active = Cardinality(CurrentSet \ InitSet)
  BY <1>3 DEF ReactorInv, ReactorOwned, ReactorTypes, ReactorCounts
<1>12. /\ ReactorTypes' /\ ReactorCounts'
       /\ NoTwice(queue') /\ Parted(Slots(queue'), CallSlots, Slots(completions), Slots(completed), WatchedSet, CurrentSet')
       /\ (\A d \in Channels \ {c} : current'[d] = current[d])
       /\ \/ current'[c] = 1 /\ Inits(queue') = Inits(queue) \cup {c}
          \/ current'[c] = 0 /\ Len(plan[c]) = 0 /\ Inits(queue') = Inits(queue)
  <2>1. CASE 0 < Len(plan[c])
    <3>1. PICK job : job = [slot |-> c, init |-> TRUE, steps |-> << >>]
      OBVIOUS
    <3>2. job \in Reactor!Job /\ job.slot = c /\ job.init = TRUE
      BY <3>1, JobTypes
    <3>3. current' = [current EXCEPT ![c] = 1] /\ inFlight' = inFlight + 1 /\ queue' = Append(queue, job)
      BY <1>1, <1>2, <2>1, <3>1
    <3>4. current' \in [Channels -> Nat] /\ current'[c] = 1 /\ (\A d \in Channels \ {c} : current'[d] = current[d])
      BY <1>6, <3>3
    <3>5. CurrentSet' = CurrentSet \cup {c}
      BY <3>4 DEF CurrentSet
    <3>6. c \notin Slots(queue)
      BY <1>4, <1>6
    <3>7. /\ queue' \in Seq(Reactor!Job) /\ Slots(queue') = Slots(queue) \cup {c} /\ Inits(queue') = Inits(queue) \cup {c}
          /\ NoTwice(queue')
      BY <1>11, <3>2, <3>3, <3>6, QueueAppend
    <3>8. InitSet' = InitSet \cup {c}
      BY <1>1, <1>9, <3>7 DEF InitSet
    <3>9. CurrentSet' \ WatchedSet' = (CurrentSet \ WatchedSet) \cup {c} /\ c \notin CurrentSet \ WatchedSet
      BY <1>4, <1>6, <1>9, <3>5
    <3>10. CurrentSet' \ InitSet' = CurrentSet \ InitSet
      BY <1>6, <3>5, <3>8
    <3>11. IsFiniteSet(CurrentSet \ WatchedSet) /\ CurrentSet' \ WatchedSet' \subseteq Channels
      BY <1>4, <3>9, CountRange
    <3>12. inFlight' = Cardinality(CurrentSet' \ WatchedSet') /\ inFlight' \in 0 .. ChannelCount
      <4>1. Cardinality(CurrentSet' \ WatchedSet') = inFlight + 1
        BY <1>11, <3>9, <3>11, FS_AddElement
      <4>2. Cardinality(CurrentSet' \ WatchedSet') \in 0 .. ChannelCount
        BY <3>11, CountRange
      <4> QED BY <3>3, <4>1, <4>2
    <3>13. ReactorCounts'
      BY <1>1, <1>11, <3>10, <3>12 DEF ReactorCounts
    <3>14. \A d \in Channels : current'[d] <= Len(plan'[d])
      BY <1>1, <1>6, <2>1, <3>4
    <3>15. ReactorTypes'
      BY <1>1, <1>8, <3>4, <3>7, <3>12, <3>14 DEF ReactorInv, ReactorTypes
    <3>16. Parted(Slots(queue'), CallSlots, Slots(completions), Slots(completed), WatchedSet, CurrentSet')
      <4>1. Parted(Slots(queue) \cup {c}, CallSlots, Slots(completions), Slots(completed), WatchedSet, CurrentSet \cup {c})
        BY <1>6, <1>11, PartedMoves
      <4> QED BY <4>1, <3>5, <3>7
    <3> QED BY <3>4, <3>7, <3>13, <3>15, <3>16
  <2>2. CASE ~(0 < Len(plan[c]))
    <3>1. current' = [current EXCEPT ![c] = 0] /\ inFlight' = inFlight /\ queue' = queue
      BY <1>1, <1>2, <2>2
    <3>2. current' = current /\ Len(plan[c]) = 0
      BY <1>6, <2>2, <3>1
    <3>3. CurrentSet' = CurrentSet /\ InitSet' = InitSet
      BY <1>1, <1>9, <3>1, <3>2 DEF CurrentSet, InitSet
    <3>4. ReactorCounts'
      BY <1>1, <1>9, <1>11, <3>1, <3>3 DEF ReactorCounts
    <3>5. ReactorTypes'
      BY <1>1, <1>8, <3>1, <3>2 DEF ReactorInv, ReactorTypes
    <3> QED BY <1>6, <1>11, <3>1, <3>2, <3>3, <3>4, <3>5
  <2> QED BY <2>1, <2>2
<1>13. ReactorOwned'
  BY <1>1, <1>3, <1>9, <1>12 DEF ReactorInv, ReactorOwned
<1>14. ReactorProgress'
  <2>1. \A d \in Channels : (Finished(d)' <=> Finished(d)) /\ (Over(d)' <=> Over(d)) /\ task'[d] = task[d]
    BY <1>1 DEF Finished, Over, TaskDone, Phases
  <2>2. Truthful(completions)' /\ Truthful(completed)'
    BY <1>1, <1>3 DEF ReactorInv, ReactorProgress, Truthful, TaskDone, Phases
  <2>3. pc' = "boot" => \A d \in Channels : d >= slot' => current'[d] = 0 /\ task'[d] = 0
    BY <1>1, <1>2, <1>3, <1>5, <1>8, <1>12, <2>1 DEF ReactorInv, ReactorProgress
  <2>4. ASSUME NEW d \in Channels, current'[d] = 0, pc' = "boot" => d < slot' PROVE Finished(d)'
    <3>1. d <= c
      BY <1>1, <1>2, <1>5, <1>8, <2>4
    <3>2. CASE d = c
      <4>1. Len(plan[d]) = 0 /\ task[d] = 0
        BY <1>6, <1>12, <2>4, <3>2
      <4> QED BY <2>1, <4>1 DEF Finished
    <3>3. CASE d # c
      <4>1. current[d] = 0 /\ d < slot
        BY <1>2, <1>5, <1>12, <2>4, <3>1, <3>3
      <4>2. Finished(d)
        BY <1>1, <1>3, <4>1 DEF ReactorInv, ReactorProgress
      <4> QED BY <2>1, <4>2
    <3> QED BY <3>2, <3>3
  <2>5. ASSUME NEW d \in CurrentSet' \ Inits(queue') PROVE task'[d] = current'[d]
    <3>1. d # c /\ d \in Channels /\ current'[d] # 0 /\ d \notin Inits(queue)
      BY <1>12, <2>5 DEF CurrentSet
    <3>2. d \in CurrentSet
      BY <1>12, <3>1 DEF CurrentSet
    <3> QED BY <1>3, <1>12, <2>1, <3>1, <3>2 DEF ReactorInv, ReactorProgress
  <2>6. ASSUME NEW d \in Inits(queue') PROVE current'[d] = task'[d] + 1 /\ Over(d)'
    <3>1. CASE d \in Inits(queue)
      <4>1. d \in CurrentSet /\ d \in Channels /\ d # c
        BY <1>4, <1>6, <3>1, QueueFacts
      <4> QED BY <1>3, <1>12, <2>1, <3>1, <4>1 DEF ReactorInv, ReactorProgress
    <3>2. CASE d \notin Inits(queue)
      <4>1. d = c /\ current'[c] = 1
        BY <1>12, <2>6, <3>2
      <4> QED BY <1>6, <2>1, <4>1 DEF Over
    <3> QED BY <3>1, <3>2
  <2> QED BY <2>2, <2>3, <2>4, <2>5, <2>6 DEF ReactorProgress
<1> QED BY <1>7, <1>10, <1>12, <1>13, <1>14 DEF ReactorInv

\* The steps that leave every task where it is: the notification is drained,
\* the local queue is empty again, a worker writes notify_fd_ or leaves.
LEMMA ReactorQuietKeeps ==
  ASSUME ReactorInv,
         \/ Reactor!DrainNotify \/ Reactor!Processed
         \/ \E w \in Threads : Reactor!Notify(w) \/ Reactor!Leave(w)
  PROVE  ReactorInv'
<1>1. UNCHANGED <<plan, task, phase, left, snd, arrived, taken, nospace, reg, ready, call, slot, current, active, inFlight, queue,
                  completions, completed, stop, ok>>
  BY DEF Reactor!DrainNotify, Reactor!Processed, Reactor!Notify, Reactor!Leave, Reactor!edgeVars
<1>2. \/ pc = "drain" /\ pc' = "swap" /\ notify' = FALSE /\ UNCHANGED <<post, gone>>
      \/ pc = "process" /\ completed = << >> /\ pc' = "wait" /\ UNCHANGED <<notify, post, gone>>
      \/ \E w \in Threads : pc' = pc /\ w \in post /\ post' = post \ {w} /\ notify' = TRUE /\ gone' = gone
      \/ \E w \in Threads : pc' = pc /\ stop /\ w \notin post /\ call[w] = NoCall /\ gone' = gone \cup {w} /\ UNCHANGED <<notify, post>>
  BY DEF Reactor!DrainNotify, Reactor!Processed, Reactor!Notify, Reactor!Leave, Reactor!Idle, Reactor!NoCall, NoCall
<1>3. EdgesOK'
  BY <1>1 DEF ReactorInv, EdgesOK
<1>4. ReactorTypes'
  BY <1>1, <1>2 DEF ReactorInv, ReactorTypes
<1>5. ReactorGone'
  BY <1>1, <1>2 DEF ReactorInv, ReactorGone
<1>6. ReactorWoken'
  BY <1>1, <1>2 DEF ReactorInv, ReactorWoken
<1>7. \A d \in Channels : Finished(d)' <=> Finished(d)
  BY <1>1 DEF Finished, TaskDone, Phases
<1>8. ReactorExit'
  BY <1>1, <1>2, <1>7 DEF ReactorInv, ReactorExit
<1>9. ReactorOwned' /\ ReactorCounts' /\ ReactorProgress'
  <2>1. CASE Live
    <3>1. (pc # "boot" => pc' # "boot") /\ (pc = "boot" => pc' = "boot") /\ (pc' # "process" => completed = << >>)
      BY <1>2, <2>1 DEF ReactorInv, ReactorOwned
    <3> QED BY <1>1, <2>1, <3>1, PlacesStay
  <2>2. CASE ~Live
    <3>1. ~Live'
      BY <1>2, <2>2 DEF Live
    <3> QED BY <3>1 DEF ReactorOwned, ReactorCounts, ReactorProgress
  <2> QED BY <2>1, <2>2
<1> QED BY <1>3, <1>4, <1>5, <1>6, <1>8, <1>9 DEF ReactorInv

\* The completions become the reactor's own.
LEMMA ReactorSwapKeeps ==
  ASSUME ReactorInv, Reactor!Swap
  PROVE  ReactorInv'
<1>1. /\ pc = "swap" /\ completed' = completions /\ completions' = << >> /\ pc' = "process"
      /\ UNCHANGED <<plan, task, phase, left, snd, arrived, taken, nospace, reg, ready, call, slot, current, active, inFlight, queue,
                     notify, post, stop, gone, ok>>
  BY DEF Reactor!Swap, Reactor!edgeVars
<1>2. Live /\ completed = << >>
  BY <1>1 DEF Live, ReactorInv, ReactorOwned
<1>3. EdgesOK'
  BY <1>1 DEF ReactorInv, EdgesOK
<1>4. ReactorTypes'
  <2>1. completed' \in Seq(Reactor!Completion) /\ completions' \in Seq(Reactor!Completion)
    BY <1>1 DEF ReactorInv, ReactorTypes
  <2> QED BY <1>1, <2>1 DEF ReactorInv, ReactorTypes
<1>5. ReactorGone' /\ ReactorExit' /\ ReactorWoken'
  BY <1>1 DEF ReactorInv, ReactorGone, ReactorExit, ReactorWoken
<1>6. /\ Busy' = Busy /\ CallSlots' = CallSlots /\ CallInits' = CallInits /\ WatchedSet' = WatchedSet
      /\ CurrentSet' = CurrentSet
  BY <1>1 DEF Busy, CallSlots, CallInits, WatchedSet, CurrentSet
<1>7. /\ Slots(completed) = {} /\ Inits(completed) = {} /\ Slots(completions') = {} /\ Inits(completions') = {} /\ NoTwice(completions')
  BY <1>1, <1>2, QueueFacts
<1>8. InitSet' = InitSet
  BY <1>1, <1>6, <1>7 DEF InitSet
<1>9. ReactorCounts'
  BY <1>1, <1>2, <1>6, <1>8 DEF ReactorInv, ReactorCounts
<1>10. ReactorOwned'
  <2>1. Parted(Slots(queue), CallSlots, Slots(completions), Slots(completed), WatchedSet, CurrentSet)
    BY <1>2 DEF ReactorInv, ReactorOwned
  <2>2. Parted(Slots(queue), CallSlots, {}, Slots(completions), WatchedSet, CurrentSet)
    BY <2>1, <1>7, PartedMoves
  <2> QED BY <1>1, <1>2, <1>6, <1>7, <2>2 DEF ReactorInv, ReactorOwned
<1>11. ReactorProgress'
  <2>1. \A d \in Channels : (Finished(d)' <=> Finished(d)) /\ (Over(d)' <=> Over(d))
    BY <1>1 DEF Finished, Over, TaskDone, Phases
  <2>2. Truthful(completions)' /\ Truthful(completed)'
    BY <1>1, <1>2 DEF ReactorInv, ReactorProgress, Truthful, TaskDone, Phases
  <2>3. Inits(queue) \subseteq Channels
    BY <1>2, LiveFacts, QueueFacts
  <2> QED BY <1>1, <1>2, <1>6, <2>1, <2>2, <2>3 DEF ReactorInv, ReactorProgress
<1> QED BY <1>3, <1>4, <1>5, <1>9, <1>10, <1>11 DEF ReactorInv

\* The report at the head of the local queue.
LEMMA HeadReport ==
  ASSUME ReactorInv, Live, completed # << >>
  PROVE  /\ Head(completed) \in Reactor!Completion /\ Head(completed).slot \in Slots(completed)
         /\ Head(completed).slot \in Channels /\ Tail(completed) \in Seq(Reactor!Completion)
         /\ Head(completed).slot \in CurrentSet \ WatchedSet /\ Head(completed).slot \notin Slots(queue)
         /\ Head(completed).slot \notin CallSlots /\ Head(completed).slot \notin Slots(completions)
         /\ Slots(Tail(completed)) = Slots(completed) \ {Head(completed).slot}
         /\ Inits(Tail(completed)) = Inits(completed) \ {Head(completed).slot}
         /\ (Head(completed).init <=> Head(completed).slot \in Inits(completed)) /\ NoTwice(Tail(completed))
         /\ (\A i \in DOMAIN Tail(completed) : \E j \in DOMAIN completed : Tail(completed)[i] = completed[j])
         /\ (Head(completed).state = "done" => TaskDone(Head(completed).slot))
<1>1. completed \in Seq(Reactor!Completion) /\ NoTwice(completed)
  BY DEF ReactorInv, ReactorTypes, ReactorOwned
<1>2. /\ Tail(completed) \in Seq(Reactor!Completion) /\ Head(completed) \in Reactor!Completion
      /\ Head(completed).slot \in Slots(completed)
      /\ Slots(Tail(completed)) = Slots(completed) \ {Head(completed).slot}
      /\ Inits(Tail(completed)) = Inits(completed) \ {Head(completed).slot}
      /\ (Head(completed).init <=> Head(completed).slot \in Inits(completed)) /\ NoTwice(Tail(completed))
      /\ (\A i \in DOMAIN Tail(completed) : \E j \in DOMAIN completed : Tail(completed)[i] = completed[j])
  BY <1>1, QueueTail
<1>3. Head(completed).slot \in CurrentSet \ WatchedSet /\ Head(completed).slot \in Channels
  BY <1>2, LiveFacts
<1>4. Parted(Slots(queue), CallSlots, Slots(completions), Slots(completed), WatchedSet, CurrentSet)
  BY DEF ReactorInv, ReactorOwned
<1>5. /\ Head(completed).slot \notin Slots(queue) /\ Head(completed).slot \notin CallSlots
      /\ Head(completed).slot \notin Slots(completions)
  BY <1>2, <1>4 DEF Parted
<1>6. Head(completed).state = "done" => TaskDone(Head(completed).slot)
  <2>1. 1 \in DOMAIN completed /\ Head(completed) = completed[1]
    BY <1>1
  <2> QED BY <2>1 DEF ReactorInv, ReactorProgress, Truthful
<1> QED BY <1>2, <1>3, <1>5, <1>6

\* One task less is in flight.
LEMMA FlightEnds ==
  ASSUME ReactorInv, Live, completed # << >>, inFlight' = inFlight - 1
  PROVE  /\ inFlight' = Cardinality((CurrentSet \ WatchedSet) \ {Head(completed).slot})
         /\ inFlight' \in 0 .. ChannelCount
<1>1. Head(completed).slot \in CurrentSet \ WatchedSet /\ CurrentSet \subseteq Channels
  BY HeadReport, LiveFacts
<1>2. IsFiniteSet(CurrentSet \ WatchedSet) /\ inFlight = Cardinality(CurrentSet \ WatchedSet)
  BY <1>1, CountRange DEF ReactorInv, ReactorCounts
<1>3. inFlight' = Cardinality((CurrentSet \ WatchedSet) \ {Head(completed).slot})
  BY <1>1, <1>2, FS_RemoveElement
<1>4. (CurrentSet \ WatchedSet) \ {Head(completed).slot} \subseteq Channels
  BY <1>1
<1> QED BY <1>3, <1>4, CountRange

\* A task failed: the plan is aborted.
LEMMA ReactorFailedKeeps ==
  ASSUME ReactorInv, Reactor!Failed
  PROVE  ReactorInv'
<1>1. /\ pc = "process" /\ completed # << >> /\ completed' = Tail(completed) /\ inFlight' = inFlight - 1
      /\ reg' = reg \ (CurrentSet \X Sides) /\ ready' = ready \ (CurrentSet \X Sides)
      /\ stop' = TRUE /\ pc' = "join" /\ ok' = FALSE
      /\ UNCHANGED <<plan, task, phase, left, snd, arrived, taken, nospace, call, slot, current, active, queue, completions,
                     notify, post, gone>>
  BY DEF Reactor!Failed, Reactor!AbortPlan, Reactor!UnregisterTasks, Reactor!moveVars, CurrentSet, Reactor!Channels, Channels,
         Reactor!Sides, Sides
<1>2. Live /\ ~Live'
  BY <1>1 DEF Live
<1>3. EdgesOK'
  BY <1>1 DEF ReactorInv, EdgesOK
<1>4. inFlight' \in 0 .. ChannelCount /\ completed' \in Seq(Reactor!Completion)
  BY <1>1, <1>2, FlightEnds, HeadReport
<1>5. ReactorTypes'
  BY <1>1, <1>4 DEF ReactorInv, ReactorTypes
<1>6. ReactorGone' /\ ReactorWoken'
  BY <1>1, <1>2 DEF ReactorInv, ReactorGone, ReactorWoken, Live
<1>7. ReactorOwned' /\ ReactorCounts' /\ ReactorProgress'
  BY <1>2 DEF ReactorOwned, ReactorCounts, ReactorProgress
<1>8. reg' = {}
  <2>1. reg = UNION {EdgesOf(c) : c \in WatchedSet} /\ WatchedSet \subseteq CurrentSet
    BY <1>2, LiveFacts DEF ReactorInv, ReactorOwned
  <2> QED BY <1>1, <2>1 DEF EdgesOf
<1>9. ReactorExit'
  BY <1>1, <1>8 DEF ReactorExit
<1> QED BY <1>3, <1>5, <1>6, <1>7, <1>9 DEF ReactorInv

\* The workers have left, and the queues are emptied.
LEMMA ReactorJoinKeeps ==
  ASSUME ReactorInv, Reactor!Join
  PROVE  ReactorInv'
<1>1. /\ pc = "join" /\ gone = Threads /\ queue' = << >> /\ completions' = << >> /\ stop' = FALSE /\ pc' = "returned"
      /\ UNCHANGED <<plan, task, phase, left, snd, arrived, taken, nospace, reg, ready, call, slot, current, active, inFlight,
                     completed, notify, post, gone, ok>>
  BY DEF Reactor!Join, Reactor!edgeVars, Reactor!Workers
<1>2. EdgesOK'
  BY <1>1 DEF ReactorInv, EdgesOK
<1>3. ReactorTypes'
  <2>1. queue' \in Seq(Reactor!Job) /\ completions' \in Seq(Reactor!Completion)
    BY <1>1
  <2> QED BY <1>1, <2>1 DEF ReactorInv, ReactorTypes
<1>4. ReactorGone' /\ ReactorWoken'
  BY <1>1 DEF ReactorInv, ReactorGone, ReactorWoken
<1>5. ReactorOwned' /\ ReactorCounts' /\ ReactorProgress'
  BY <1>1 DEF ReactorOwned, ReactorCounts, ReactorProgress, Live
<1>6. ReactorExit'
  <2>1. reg = {} /\ ~ok /\ (\A w \in Threads : call[w] = NoCall)
    BY <1>1 DEF ReactorInv, ReactorExit, ReactorGone
  <2> QED BY <1>1, <2>1 DEF ReactorExit
<1> QED BY <1>2, <1>3, <1>4, <1>5, <1>6 DEF ReactorInv

\* A task that has nothing to do is watched again.
LEMMA ReactorWaitingKeeps ==
  ASSUME ReactorInv, Reactor!Waiting
  PROVE  ReactorInv'
<1>1. /\ pc = "process" /\ completed # << >> /\ completed' = Tail(completed) /\ inFlight' = inFlight - 1
      /\ UNCHANGED <<plan, task, phase, left, snd, arrived, taken, call, slot, current, queue, completions, notify, post, gone>>
      /\ (EdgesOf(Head(completed).slot) \cap reg = {} =>
            /\ reg' = reg \cup EdgesOf(Head(completed).slot)
            /\ ready' = ready \cup {e \in EdgesOf(Head(completed).slot) : IsReady(e)}
            /\ nospace' = PollMarks(EdgesOf(Head(completed).slot))
            /\ active' = (IF Head(completed).init THEN active + 1 ELSE active)
            /\ UNCHANGED <<pc, ok, stop>>)
  BY DEF Reactor!Waiting, Reactor!CanRegister, Reactor!RegisterTask, Reactor!EdgesOf, EdgesOf, Reactor!Sides, Sides,
         Reactor!AddedEdges, Reactor!IsReady, IsReady, Reactor!Readable, Readable, Reactor!Writable, Writable,
         Reactor!PollMarks, PollMarks, Reactor!Channels, Channels
<1>2. Live
  BY <1>1 DEF Live
<1>3. PICK c \in Channels : c = Head(completed).slot
  BY <1>1, <1>2, HeadReport
<1>4. /\ c \in Slots(completed) /\ completed' \in Seq(Reactor!Completion) /\ c \in CurrentSet \ WatchedSet
      /\ c \notin Slots(queue) /\ c \notin CallSlots /\ c \notin Slots(completions)
      /\ Slots(completed') = Slots(completed) \ {c} /\ Inits(completed') = Inits(completed) \ {c}
      /\ (Head(completed).init <=> c \in Inits(completed)) /\ NoTwice(completed')
      /\ (\A i \in DOMAIN completed' : \E j \in DOMAIN completed : completed'[i] = completed[j])
      /\ Head(completed).init \in BOOLEAN
  BY <1>1, <1>2, <1>3, HeadReport, JobTypes
<1>5. reg = UNION {EdgesOf(d) : d \in WatchedSet}
  BY <1>2 DEF ReactorInv, ReactorOwned
<1>6. EdgesOf(c) \cap reg = {}
  BY <1>4, <1>5 DEF EdgesOf
<1>7. /\ reg' = reg \cup EdgesOf(c) /\ ready' = ready \cup {e \in EdgesOf(c) : IsReady(e)} /\ nospace' = PollMarks(EdgesOf(c))
      /\ active' = (IF Head(completed).init THEN active + 1 ELSE active) /\ UNCHANGED <<pc, ok, stop>>
  BY <1>1, <1>3, <1>6
<1>8. EdgesOK'
  <2>1. nospace' \in [Channels -> BOOLEAN]
    BY <1>7, PollMarksType DEF ReactorInv
  <2>2. reg' \subseteq Channels \X Sides /\ ready' \subseteq reg'
    BY <1>7 DEF ReactorInv, EdgesOK, EdgesOf
  <2> QED BY <1>1, <2>1, <2>2, WatchChange DEF ReactorInv
<1>9. WatchedSet' = WatchedSet \cup {c} /\ reg' = UNION {EdgesOf(d) : d \in WatchedSet'}
  <2>1. WatchedSet' = WatchedSet \cup {c}
    BY <1>7 DEF WatchedSet, EdgesOf, Sides
  <2> QED BY <1>5, <1>7, <2>1 DEF EdgesOf
<1>10. Busy' = Busy /\ CallSlots' = CallSlots /\ CallInits' = CallInits /\ CurrentSet' = CurrentSet /\ Live'
  BY <1>1, <1>2, <1>7 DEF Busy, CallSlots, CallInits, CurrentSet, Live
<1>11. InitSet' = InitSet \ {c}
  <2>1. c \notin Inits(queue) /\ c \notin Inits(completions) /\ c \notin CallInits
    BY <1>2, <1>4, QueueFacts, LiveFacts
  <2> QED BY <1>1, <1>4, <1>10, <2>1 DEF InitSet
<1>12. c \in InitSet <=> Head(completed).init
  <2>1. c \notin Inits(queue) /\ c \notin Inits(completions) /\ c \notin CallInits
    BY <1>2, <1>4, QueueFacts, LiveFacts
  <2> QED BY <1>4, <2>1 DEF InitSet
<1>13. CurrentSet \subseteq Channels /\ active = Cardinality(CurrentSet \ InitSet) /\ active \in 0 .. ChannelCount
  BY <1>2, LiveFacts DEF ReactorInv, ReactorCounts, ReactorTypes
<1>14. active' = Cardinality(CurrentSet' \ InitSet') /\ active' \in 0 .. ChannelCount
  <2>1. CASE Head(completed).init
    <3>1. CurrentSet' \ InitSet' = (CurrentSet \ InitSet) \cup {c} /\ c \notin CurrentSet \ InitSet
      BY <1>4, <1>10, <1>11, <1>12, <2>1
    <3>2. IsFiniteSet(CurrentSet \ InitSet)
      BY <1>13, CountRange
    <3>3. Cardinality((CurrentSet \ InitSet) \cup {c}) = active + 1
      BY <1>13, <3>1, <3>2, FS_AddElement
    <3>4. (CurrentSet \ InitSet) \cup {c} \subseteq Channels
      BY <1>13
    <3>5. Cardinality((CurrentSet \ InitSet) \cup {c}) \in 0 .. ChannelCount
      BY <3>4, CountRange
    <3> QED BY <1>7, <2>1, <3>1, <3>3, <3>5
  <2>2. CASE ~Head(completed).init
    <3>1. CurrentSet' \ InitSet' = CurrentSet \ InitSet
      BY <1>10, <1>11, <1>12, <2>2
    <3> QED BY <1>7, <1>13, <2>2, <3>1
  <2> QED BY <2>1, <2>2
<1>15. inFlight' = Cardinality(CurrentSet' \ WatchedSet') /\ inFlight' \in 0 .. ChannelCount
  <2>1. CurrentSet' \ WatchedSet' = (CurrentSet \ WatchedSet) \ {c}
    BY <1>9, <1>10
  <2>2. inFlight' = Cardinality((CurrentSet \ WatchedSet) \ {c}) /\ inFlight' \in 0 .. ChannelCount
    BY <1>1, <1>2, <1>3, FlightEnds
  <2> QED BY <2>1, <2>2
<1>16. ReactorTypes'
  BY <1>1, <1>4, <1>7, <1>14, <1>15 DEF ReactorInv, ReactorTypes
<1>17. ReactorGone' /\ ReactorExit' /\ ReactorWoken'
  BY <1>1, <1>7 DEF ReactorInv, ReactorGone, ReactorExit, ReactorWoken
<1>18. ReactorCounts'
  BY <1>14, <1>15 DEF ReactorCounts
<1>19. ReactorOwned'
  <2>1. Parted(Slots(queue), CallSlots, Slots(completions), Slots(completed), WatchedSet, CurrentSet)
    BY <1>2 DEF ReactorInv, ReactorOwned
  <2>2. Parted(Slots(queue), CallSlots, Slots(completions), Slots(completed) \ {c}, WatchedSet \cup {c}, CurrentSet)
    BY <2>1, <1>4, PartedMoves
  <2>3. Parted(Slots(queue'), CallSlots', Slots(completions'), Slots(completed'), WatchedSet', CurrentSet')
    BY <1>1, <1>4, <1>9, <1>10, <2>2
  <2> QED BY <1>1, <1>2, <1>4, <1>7, <1>9, <1>10, <2>3 DEF ReactorInv, ReactorOwned
<1>20. ReactorProgress'
  <2>1. \A d \in Channels : (Finished(d)' <=> Finished(d)) /\ (Over(d)' <=> Over(d))
    BY <1>1 DEF Finished, Over, TaskDone, Phases
  <2>2. Truthful(completions)' /\ Truthful(completed)'
    BY <1>1, <1>2, <1>4 DEF ReactorInv, ReactorProgress, Truthful, TaskDone, Phases
  <2>3. Inits(queue) \subseteq Channels
    BY <1>2, LiveFacts, QueueFacts
  <2> QED BY <1>1, <1>2, <1>7, <1>10, <2>1, <2>2, <2>3 DEF ReactorInv, ReactorProgress
<1> QED BY <1>8, <1>16, <1>17, <1>18, <1>19, <1>20 DEF ReactorInv

\* A task is done, and the channel's next one, if any, is posted.
LEMMA ReactorDoneKeeps ==
  ASSUME ReactorInv, Reactor!Done
  PROVE  ReactorInv'
<1>1. /\ pc = "process" /\ completed # << >> /\ Head(completed).state = "done" /\ completed' = Tail(completed)
      /\ active' = (IF Head(completed).init THEN active ELSE active - 1)
      /\ UNCHANGED <<plan, task, phase, left, snd, arrived, taken, nospace, reg, ready, call, pc, slot, completions,
                     notify, post, stop, gone, ok>>
  BY DEF Reactor!Done, Reactor!CountedOut, Reactor!edgeVars
<1>2. Live /\ Live'
  BY <1>1 DEF Live
<1>3. PICK c \in Channels : c = Head(completed).slot
  BY <1>1, <1>2, HeadReport
<1>4. /\ c \in Slots(completed) /\ completed' \in Seq(Reactor!Completion) /\ c \in CurrentSet \ WatchedSet
      /\ c \notin Slots(queue) /\ c \notin CallSlots /\ c \notin Slots(completions)
      /\ Slots(completed') = Slots(completed) \ {c} /\ Inits(completed') = Inits(completed) \ {c}
      /\ (Head(completed).init <=> c \in Inits(completed)) /\ NoTwice(completed')
      /\ (\A i \in DOMAIN completed' : \E j \in DOMAIN completed : completed'[i] = completed[j])
      /\ TaskDone(c)
  BY <1>1, <1>2, <1>3, HeadReport
<1>5. \/ /\ current[c] < Len(plan[c]) /\ current' = [current EXCEPT ![c] = current[c] + 1] /\ inFlight' = (inFlight - 1) + 1
         /\ queue' = Append(queue, [slot |-> c, init |-> TRUE, steps |-> << >>])
      \/ /\ ~(current[c] < Len(plan[c])) /\ current' = [current EXCEPT ![c] = 0] /\ inFlight' = inFlight - 1 /\ queue' = queue
  BY <1>3 DEF Reactor!Done, Reactor!StartNext
<1>6. /\ current \in [Channels -> Nat] /\ current[c] \in Nat /\ current[c] # 0 /\ Len(plan[c]) \in Nat
      /\ (\A d \in Channels : current[d] <= Len(plan[d])) /\ task[c] = current[c] /\ c \notin Inits(queue)
      /\ queue \in Seq(Reactor!Job)
  <2>1. plan[c] \in Seq(Seq(Phase))
    BY TaskEdgesAssumption DEF ReactorInv, EdgesOK
  <2>2. c \in CurrentSet /\ c \notin Inits(queue)
    BY <1>4, QueueFacts
  <2> QED BY <1>2, <2>1, <2>2 DEF CurrentSet, ReactorInv, ReactorTypes, ReactorProgress
<1>7. EdgesOK'
  BY <1>1 DEF ReactorInv, EdgesOK
<1>8. Busy' = Busy /\ CallSlots' = CallSlots /\ CallInits' = CallInits /\ WatchedSet' = WatchedSet
  BY <1>1 DEF Busy, CallSlots, CallInits, WatchedSet
<1>9. /\ c \notin Inits(queue) /\ c \notin Inits(completions) /\ c \notin CallInits
      /\ CurrentSet \subseteq Channels /\ (c \in InitSet <=> Head(completed).init)
  <2>1. c \notin Inits(queue) /\ c \notin Inits(completions) /\ c \notin CallInits
    BY <1>2, <1>4, QueueFacts, LiveFacts
  <2> QED BY <1>2, <1>4, <2>1, LiveFacts DEF InitSet
<1>10. /\ inFlight = Cardinality(CurrentSet \ WatchedSet) /\ active = Cardinality(CurrentSet \ InitSet)
       /\ inFlight \in 0 .. ChannelCount /\ active \in 0 .. ChannelCount
       /\ NoTwice(queue) /\ Parted(Slots(queue), CallSlots, Slots(completions), Slots(completed), WatchedSet, CurrentSet)
  BY <1>2 DEF ReactorInv, ReactorCounts, ReactorTypes, ReactorOwned
<1>11. /\ current' \in [Channels -> Nat] /\ (\A d \in Channels : current'[d] <= Len(plan[d]))
       /\ (\A d \in Channels \ {c} : current'[d] = current[d]) /\ queue' \in Seq(Reactor!Job) /\ NoTwice(queue')
       /\ Parted(Slots(queue'), CallSlots, Slots(completions), Slots(completed'), WatchedSet, CurrentSet')
       /\ CurrentSet' \ InitSet' = (CurrentSet \ InitSet) \ {c}
       /\ inFlight' = Cardinality(CurrentSet' \ WatchedSet) /\ inFlight' \in 0 .. ChannelCount
       /\ \/ current'[c] = current[c] + 1 /\ Inits(queue') = Inits(queue) \cup {c}
          \/ current'[c] = 0 /\ current[c] = Len(plan[c]) /\ Inits(queue') = Inits(queue)
  <2>1. CASE current[c] < Len(plan[c])
    <3>1. PICK job : job = [slot |-> c, init |-> TRUE, steps |-> << >>]
      OBVIOUS
    <3>2. job \in Reactor!Job /\ job.slot = c /\ job.init = TRUE
      BY <3>1, JobTypes
    <3>3. current' = [current EXCEPT ![c] = current[c] + 1] /\ inFlight' = (inFlight - 1) + 1 /\ queue' = Append(queue, job)
      BY <1>5, <2>1, <3>1
    <3>4. /\ current' \in [Channels -> Nat] /\ current'[c] = current[c] + 1 /\ (\A d \in Channels \ {c} : current'[d] = current[d])
      BY <1>6, <3>3
    <3>5. \A d \in Channels : current'[d] <= Len(plan[d])
      BY <1>6, <2>1, <3>4
    <3>6. CurrentSet' = CurrentSet
      <4>1. current'[c] # 0 /\ current[c] # 0
        BY <1>6, <3>4
      <4> QED BY <3>4, <4>1 DEF CurrentSet
    <3>7. /\ queue' \in Seq(Reactor!Job) /\ Slots(queue') = Slots(queue) \cup {c} /\ Inits(queue') = Inits(queue) \cup {c}
          /\ NoTwice(queue')
      BY <1>4, <1>6, <1>10, <3>2, <3>3, QueueAppend
    <3>8. InitSet' = InitSet \cup {c}
      BY <1>1, <1>4, <1>8, <3>7 DEF InitSet
    <3>9. CurrentSet' \ InitSet' = (CurrentSet \ InitSet) \ {c}
      BY <3>6, <3>8
    <3>10. inFlight' = Cardinality(CurrentSet' \ WatchedSet) /\ inFlight' \in 0 .. ChannelCount
      <4>1. inFlight' = inFlight
        BY <1>10, <3>3
      <4> QED BY <1>10, <3>6, <4>1
    <3>11. Parted(Slots(queue) \cup {c}, CallSlots, Slots(completions), Slots(completed) \ {c}, WatchedSet, CurrentSet)
      BY <1>4, <1>10, PartedMoves
    <3>12. Parted(Slots(queue'), CallSlots, Slots(completions), Slots(completed'), WatchedSet, CurrentSet')
      BY <1>4, <3>6, <3>7, <3>11
    <3> QED BY <3>4, <3>5, <3>7, <3>9, <3>10, <3>12
  <2>2. CASE ~(current[c] < Len(plan[c]))
    <3>1. current' = [current EXCEPT ![c] = 0] /\ inFlight' = inFlight - 1 /\ queue' = queue
      BY <1>5, <2>2
    <3>2. current' \in [Channels -> Nat] /\ current'[c] = 0 /\ (\A d \in Channels \ {c} : current'[d] = current[d])
      BY <1>6, <3>1
    <3>3. current[c] = Len(plan[c]) /\ (\A d \in Channels : current'[d] <= Len(plan[d]))
      BY <1>6, <2>2, <3>2
    <3>4. CurrentSet' = CurrentSet \ {c}
      BY <3>2 DEF CurrentSet
    <3>5. InitSet' = InitSet \ {c}
      BY <1>1, <1>4, <1>8, <1>9, <3>1 DEF InitSet
    <3>6. CurrentSet' \ InitSet' = (CurrentSet \ InitSet) \ {c}
      BY <3>4, <3>5
    <3>7. CurrentSet' \ WatchedSet = (CurrentSet \ WatchedSet) \ {c}
      BY <3>4
    <3>8. inFlight' = Cardinality((CurrentSet \ WatchedSet) \ {c}) /\ inFlight' \in 0 .. ChannelCount
      BY <1>1, <1>2, <1>3, <3>1, FlightEnds
    <3>9. Parted(Slots(queue), CallSlots, Slots(completions), Slots(completed) \ {c}, WatchedSet, CurrentSet \ {c})
      BY <1>4, <1>10, PartedMoves
    <3>10. Parted(Slots(queue'), CallSlots, Slots(completions), Slots(completed'), WatchedSet, CurrentSet')
      BY <1>4, <3>1, <3>4, <3>9
    <3>11. queue' \in Seq(Reactor!Job) /\ NoTwice(queue') /\ Inits(queue') = Inits(queue)
      BY <1>6, <1>10, <3>1
    <3> QED BY <3>2, <3>3, <3>6, <3>7, <3>8, <3>10, <3>11
  <2> QED BY <2>1, <2>2
<1>12. active' = Cardinality(CurrentSet' \ InitSet') /\ active' \in 0 .. ChannelCount
  <2>1. CASE Head(completed).init
    <3>1. CurrentSet' \ InitSet' = CurrentSet \ InitSet
      BY <1>9, <1>11, <2>1
    <3> QED BY <1>1, <1>10, <2>1, <3>1
  <2>2. CASE ~Head(completed).init
    <3>1. c \in CurrentSet \ InitSet
      BY <1>4, <1>9, <2>2
    <3>2. IsFiniteSet(CurrentSet \ InitSet) /\ (CurrentSet \ InitSet) \ {c} \subseteq Channels
      BY <1>9, CountRange
    <3>3. Cardinality((CurrentSet \ InitSet) \ {c}) = active - 1
      BY <1>10, <3>1, <3>2, FS_RemoveElement
    <3>4. Cardinality((CurrentSet \ InitSet) \ {c}) \in 0 .. ChannelCount
      BY <3>2, CountRange
    <3> QED BY <1>1, <1>11, <2>2, <3>3, <3>4
  <2> QED BY <2>1, <2>2
<1>13. ReactorTypes'
  BY <1>1, <1>4, <1>11, <1>12 DEF ReactorInv, ReactorTypes
<1>14. ReactorGone' /\ ReactorExit' /\ ReactorWoken'
  BY <1>1 DEF ReactorInv, ReactorGone, ReactorExit, ReactorWoken
<1>15. ReactorCounts'
  BY <1>8, <1>11, <1>12 DEF ReactorCounts
<1>16. ReactorOwned'
  BY <1>1, <1>2, <1>4, <1>8, <1>11 DEF ReactorInv, ReactorOwned
<1>17. ReactorProgress'
  <2>1. \A d \in Channels : (Finished(d)' <=> Finished(d)) /\ (Over(d)' <=> Over(d)) /\ task'[d] = task[d]
    BY <1>1 DEF Finished, Over, TaskDone, Phases
  <2>2. Truthful(completions)' /\ Truthful(completed)'
    BY <1>1, <1>2, <1>4 DEF ReactorInv, ReactorProgress, Truthful, TaskDone, Phases
  <2>3. ASSUME NEW d \in Channels, current'[d] = 0 PROVE Finished(d)'
    <3>1. Finished(d)
      <4>1. CASE d = c
        <5>1. current[c] = Len(plan[c])
          BY <1>6, <1>11, <2>3, <4>1
        <5> QED BY <1>4, <1>6, <4>1, <5>1 DEF Finished
      <4>2. CASE d # c
        BY <1>1, <1>2, <1>11, <2>3, <4>2 DEF ReactorInv, ReactorProgress
      <4> QED BY <4>1, <4>2
    <3> QED BY <2>1, <3>1
  <2>4. ASSUME NEW d \in CurrentSet' \ Inits(queue') PROVE task'[d] = current'[d]
    <3>1. d # c /\ d \in Channels /\ current'[d] # 0 /\ d \notin Inits(queue)
      BY <1>11, <2>4 DEF CurrentSet
    <3>2. d \in CurrentSet
      BY <1>11, <3>1 DEF CurrentSet
    <3> QED BY <1>2, <1>11, <2>1, <3>1, <3>2 DEF ReactorInv, ReactorProgress
  <2>5. ASSUME NEW d \in Inits(queue') PROVE current'[d] = task'[d] + 1 /\ Over(d)'
    <3>1. CASE d \in Inits(queue)
      <4>1. d \in Channels /\ d # c
        BY <1>2, <1>9, <3>1, QueueFacts, LiveFacts
      <4> QED BY <1>2, <1>11, <2>1, <3>1, <4>1 DEF ReactorInv, ReactorProgress
    <3>2. CASE d \notin Inits(queue)
      <4>1. d = c /\ current'[c] = current[c] + 1
        BY <1>11, <2>5, <3>2
      <4> QED BY <1>4, <1>6, <2>1, <4>1 DEF Over
    <3> QED BY <3>1, <3>2
  <2> QED BY <1>1, <2>2, <2>3, <2>4, <2>5 DEF ReactorProgress
<1> QED BY <1>7, <1>13, <1>14, <1>15, <1>16, <1>17 DEF ReactorInv

\* Nothing is active or in flight: Run returns true.
LEMMA ReactorReturnKeeps ==
  ASSUME ReactorInv, Reactor!Return
  PROVE  ReactorInv'
<1>1. /\ pc = "wait" /\ active = 0 /\ inFlight = 0 /\ pc' = "returned"
      /\ UNCHANGED <<plan, task, phase, left, snd, arrived, taken, nospace, reg, ready, call, slot, current, active, inFlight, queue,
                     completions, completed, notify, post, stop, gone, ok>>
  BY DEF Reactor!Return, Reactor!edgeVars
<1>2. Live /\ ~Live'
  BY <1>1 DEF Live
<1>3. EdgesOK'
  BY <1>1 DEF ReactorInv, EdgesOK
<1>4. ReactorTypes'
  BY <1>1 DEF ReactorInv, ReactorTypes
<1>5. ReactorGone' /\ ReactorWoken'
  BY <1>1 DEF ReactorInv, ReactorGone, ReactorWoken
<1>6. ReactorOwned' /\ ReactorCounts' /\ ReactorProgress'
  BY <1>2 DEF ReactorOwned, ReactorCounts, ReactorProgress
<1>7. /\ CurrentSet \subseteq Channels /\ InitSet \subseteq CurrentSet \ WatchedSet
      /\ Slots(queue) \subseteq CurrentSet \ WatchedSet /\ CallSlots \subseteq CurrentSet \ WatchedSet
      /\ Slots(completions) \subseteq CurrentSet \ WatchedSet /\ WatchedSet \subseteq CurrentSet
  BY <1>2, LiveFacts
<1>8. CurrentSet \ WatchedSet = {} /\ CurrentSet \ InitSet = {}
  <2>1. IsFiniteSet(CurrentSet \ WatchedSet) /\ IsFiniteSet(CurrentSet \ InitSet)
    BY <1>7, CountRange
  <2>2. Cardinality(CurrentSet \ WatchedSet) = 0 /\ Cardinality(CurrentSet \ InitSet) = 0
    BY <1>1, <1>2 DEF ReactorInv, ReactorCounts
  <2> QED BY <2>1, <2>2, FS_EmptySet
<1>9. CurrentSet = {} /\ WatchedSet = {} /\ Slots(queue) = {} /\ CallSlots = {} /\ Slots(completions) = {}
  BY <1>7, <1>8
<1>10. queue = << >> /\ completions = << >>
  BY <1>9, QueueEmpty DEF ReactorInv, ReactorTypes
<1>11. reg = {}
  <2>1. reg = UNION {EdgesOf(d) : d \in WatchedSet}
    BY <1>2 DEF ReactorInv, ReactorOwned
  <2> QED BY <1>9, <2>1
<1>12. \A w \in Threads : call[w] = NoCall
  BY <1>9 DEF CallSlots, Busy
<1>13. ASSUME NEW d \in Channels PROVE Finished(d)'
  <2>1. current[d] = 0
    BY <1>9 DEF CurrentSet
  <2>2. Finished(d)
    BY <1>1, <1>2, <2>1 DEF ReactorInv, ReactorProgress
  <2> QED BY <1>1, <2>2, StillFinished
<1>14. ReactorExit'
  BY <1>1, <1>10, <1>11, <1>12, <1>13 DEF ReactorExit
<1> QED BY <1>3, <1>4, <1>5, <1>6, <1>14 DEF ReactorInv

\* epoll_wait returns, and the tasks with events are posted.
LEMMA ReactorWaitKeeps ==
  ASSUME ReactorInv, Reactor!Wait
  PROVE  ReactorInv'
<1> DEFINE es == {e \in ready : IsReady(e)}
           steps(c) == InOrder({s \in Sides : current[c] # 0 /\ <<c, s>> \in es})
           P == {c \in Channels : steps(c) # << >>}
           cs == Ascending(P)
           jobs == [i \in DOMAIN cs |-> [slot |-> cs[i], init |-> FALSE, steps |-> steps(cs[i])]]
<1>1. /\ pc = "wait" /\ nospace' = PollMarks(ready) /\ ready' = {} /\ pc' = (IF notify THEN "drain" ELSE "wait")
      /\ UNCHANGED <<plan, task, phase, left, snd, arrived, taken, call, slot, current, active, completions, completed,
                     notify, post, stop, gone, ok>>
  BY DEF Reactor!Wait, Reactor!Unwatch, Reactor!PollMarks, PollMarks, Reactor!Writable, Writable, Reactor!Channels, Channels
<1>2. /\ reg' = reg \ ({cs[i] : i \in DOMAIN cs} \X Sides) /\ inFlight' = inFlight + Len(cs) /\ queue' = queue \o jobs
  <2>1. Reactor!FetchedEdges = es
    BY DEF Reactor!FetchedEdges, Reactor!IsReady, IsReady, Reactor!Readable, Readable, Reactor!Writable, Writable
  <2>2. \A c : Reactor!ReadySteps(c, es) = steps(c)
    BY DEF Reactor!ReadySteps, Reactor!InOrder, InOrder, Reactor!Sides, Sides
  <2>3. {c \in Reactor!Channels : Reactor!ReadySteps(c, es) # << >>} = P
    BY <2>2 DEF Reactor!Channels, Channels
  <2>4. Reactor!ToPost(es) = cs
    BY <2>3, ReactorAscending DEF Reactor!ToPost
  <2>5. /\ reg' = reg \ ({cs[i] : i \in DOMAIN cs} \X Sides) /\ inFlight' = inFlight + Len(cs)
        /\ queue' = queue \o [i \in DOMAIN cs |-> [slot |-> cs[i], init |-> FALSE, steps |-> Reactor!ReadySteps(cs[i], es)]]
    <3> HIDE DEF cs, es
    <3> QED BY <2>1, <2>4 DEF Reactor!Wait, Reactor!Unwatch, Reactor!Sides, Sides
  <2>6. [i \in DOMAIN cs |-> [slot |-> cs[i], init |-> FALSE, steps |-> Reactor!ReadySteps(cs[i], es)]] = jobs
    <3> HIDE DEF cs, es, steps
    <3> QED BY <2>2
  <2> QED BY <2>5, <2>6
<1>3. Live /\ Live' /\ EdgesOK
  BY <1>1 DEF Live, ReactorInv
<1>4. \A c \in Channels : c \in P => c \in WatchedSet /\ current[c] # 0
  <2> TAKE c \in Channels
  <2> HAVE c \in P
  <2>1. {s \in Sides : current[c] # 0 /\ <<c, s>> \in es} \cap Sides # {}
    BY InOrderType
  <2>2. PICK s \in Sides : current[c] # 0 /\ <<c, s>> \in reg
    BY <1>3, <2>1 DEF EdgesOK
  <2>3. reg = UNION {EdgesOf(d) : d \in WatchedSet}
    BY <1>3 DEF ReactorInv, ReactorOwned
  <2> QED BY <2>2, <2>3 DEF EdgesOf
<1>5. P \subseteq WatchedSet /\ P \subseteq Channels
  BY <1>4
<1>6. \A c : steps(c) \in Seq(Sides)
  BY InOrderType
<1> HIDE DEF es, steps, P
<1>7. /\ cs \in Seq(P) /\ Len(cs) = Cardinality(P) /\ (\A c \in P : \E i \in DOMAIN cs : cs[i] = c)
      /\ (\A i, j \in DOMAIN cs : cs[i] = cs[j] => i = j)
  <2>1. ChannelCount \in Nat /\ P \subseteq 1 .. ChannelCount
    BY <1>5, TaskEdgesAssumption DEF Channels
  <2> QED BY <2>1, AscendingFacts
<1> HIDE DEF cs
<1>8. /\ jobs \in Seq(Reactor!Job) /\ DOMAIN jobs = DOMAIN cs
      /\ (\A i \in DOMAIN cs : jobs[i].slot = cs[i] /\ jobs[i].init = FALSE /\ cs[i] \in P)
  <2>1. \A i \in DOMAIN cs : cs[i] \in P
    BY <1>7
  <2>2. \A i \in DOMAIN cs : [slot |-> cs[i], init |-> FALSE, steps |-> steps(cs[i])] \in Reactor!Job
    BY <1>5, <1>6, <2>1, JobTypes
  <2>3. DOMAIN cs = 1 .. Len(cs) /\ Len(cs) \in Nat
    BY <1>7
  <2>4. jobs \in [1 .. Len(cs) -> Reactor!Job]
    BY <2>2, <2>3
  <2> QED BY <2>1, <2>3, <2>4
<1> HIDE DEF jobs
<1>9. {cs[i] : i \in DOMAIN cs} = P /\ Slots(jobs) = P /\ Inits(jobs) = {} /\ NoTwice(jobs)
  <2>1. {cs[i] : i \in DOMAIN cs} = P
    BY <1>7, <1>8
  <2>2. Slots(jobs) = {cs[i] : i \in DOMAIN cs}
    BY <1>8 DEF Slots
  <2>3. Inits(jobs) = {}
    BY <1>8 DEF Inits
  <2>4. NoTwice(jobs)
    BY <1>7, <1>8 DEF NoTwice
  <2> QED BY <2>1, <2>2, <2>3, <2>4
<1>10. /\ CurrentSet \subseteq Channels /\ Slots(queue) \subseteq CurrentSet \ WatchedSet /\ WatchedSet \subseteq CurrentSet
  BY <1>3, LiveFacts
<1>11. /\ queue \in Seq(Reactor!Job) /\ NoTwice(queue) /\ reg = UNION {EdgesOf(d) : d \in WatchedSet}
       /\ Parted(Slots(queue), CallSlots, Slots(completions), Slots(completed), WatchedSet, CurrentSet)
       /\ inFlight = Cardinality(CurrentSet \ WatchedSet) /\ active = Cardinality(CurrentSet \ InitSet)
  BY <1>3 DEF ReactorInv, ReactorTypes, ReactorOwned, ReactorCounts
<1>12. /\ queue' \in Seq(Reactor!Job) /\ Slots(queue') = Slots(queue) \cup P /\ Inits(queue') = Inits(queue) /\ NoTwice(queue')
  <2>1. Slots(queue) \cap Slots(jobs) = {}
    BY <1>5, <1>9, <1>10
  <2>2. /\ queue \o jobs \in Seq(Reactor!Job) /\ Slots(queue \o jobs) = Slots(queue) \cup Slots(jobs)
        /\ Inits(queue \o jobs) = Inits(queue) \cup Inits(jobs) /\ NoTwice(queue \o jobs)
    BY <1>8, <1>9, <1>11, <2>1, QueueConcat, ZenonT(60)
  <2> QED BY <1>2, <1>9, <2>2
<1>13. reg' = reg \ (P \X Sides)
  BY <1>2, <1>9
<1>14. WatchedSet' = WatchedSet \ P /\ reg' = UNION {EdgesOf(d) : d \in WatchedSet'}
  <2>1. WatchedSet' = WatchedSet \ P
    BY <1>13 DEF WatchedSet, Sides
  <2> QED BY <1>11, <1>13, <2>1 DEF EdgesOf
<1>15. Busy' = Busy /\ CallSlots' = CallSlots /\ CallInits' = CallInits /\ CurrentSet' = CurrentSet
  BY <1>1 DEF Busy, CallSlots, CallInits, CurrentSet
<1>16. InitSet' = InitSet
  BY <1>1, <1>12, <1>15 DEF InitSet
<1>17. EdgesOK'
  <2>1. nospace' \in [Channels -> BOOLEAN]
    BY <1>1, <1>3, PollMarksType
  <2>2. reg' \subseteq Channels \X Sides /\ ready' \subseteq reg'
    BY <1>1, <1>3, <1>13 DEF EdgesOK
  <2> QED BY <1>1, <1>3, <2>1, <2>2, WatchChange
<1>18. inFlight' = Cardinality(CurrentSet' \ WatchedSet') /\ inFlight' \in 0 .. ChannelCount
  <2>1. CurrentSet' \ WatchedSet' = (CurrentSet \ WatchedSet) \cup P /\ (CurrentSet \ WatchedSet) \cap P = {}
    BY <1>5, <1>10, <1>14, <1>15
  <2>2. /\ IsFiniteSet(CurrentSet \ WatchedSet) /\ IsFiniteSet(P) /\ Cardinality(P) \in 0 .. ChannelCount
        /\ Cardinality((CurrentSet \ WatchedSet) \cup P) \in 0 .. ChannelCount
        /\ Cardinality(CurrentSet \ WatchedSet) \in 0 .. ChannelCount
    <3>1. CurrentSet \ WatchedSet \subseteq Channels /\ (CurrentSet \ WatchedSet) \cup P \subseteq Channels
      BY <1>5, <1>10
    <3> QED BY <1>5, <3>1, CountRange
  <2>3. Cardinality((CurrentSet \ WatchedSet) \cup P) = Cardinality(CurrentSet \ WatchedSet) + Cardinality(P) - 0
    <3>1. Cardinality((CurrentSet \ WatchedSet) \cap P) = 0
      BY <2>1, FS_EmptySet
    <3>2. Cardinality((CurrentSet \ WatchedSet) \cup P)
            = Cardinality(CurrentSet \ WatchedSet) + Cardinality(P) - Cardinality((CurrentSet \ WatchedSet) \cap P)
      BY <2>2, FS_Union, ZenonT(60)
    <3> QED BY <3>1, <3>2
  <2>4. inFlight' = Cardinality((CurrentSet \ WatchedSet) \cup P)
    BY <1>2, <1>7, <1>11, <2>2, <2>3
  <2> QED BY <2>1, <2>2, <2>4
<1>19. ReactorTypes'
  BY <1>1, <1>12, <1>18 DEF ReactorInv, ReactorTypes
<1>20. ReactorGone' /\ ReactorExit' /\ ReactorWoken'
  BY <1>1 DEF ReactorInv, ReactorGone, ReactorExit, ReactorWoken
<1>21. ReactorCounts'
  BY <1>1, <1>11, <1>15, <1>16, <1>18 DEF ReactorCounts
<1>22. ReactorOwned'
  <2>1. Parted(Slots(queue) \cup P, CallSlots, Slots(completions), Slots(completed), WatchedSet \ P, CurrentSet)
    BY <1>5, <1>11, PartedPosts
  <2>2. Parted(Slots(queue'), CallSlots', Slots(completions'), Slots(completed'), WatchedSet', CurrentSet')
    BY <1>1, <1>12, <1>14, <1>15, <2>1
  <2>3. completed' = << >> /\ NoTwice(completions') /\ NoTwice(completed') /\ (\A v, w \in Busy' : call'[v].slot = call'[w].slot => v = w)
    BY <1>1, <1>3, <1>15 DEF ReactorInv, ReactorOwned
  <2> QED BY <1>12, <1>14, <2>2, <2>3 DEF ReactorOwned
<1>23. ReactorProgress'
  <2>1. \A d \in Channels : (Finished(d)' <=> Finished(d)) /\ (Over(d)' <=> Over(d))
    BY <1>1 DEF Finished, Over, TaskDone, Phases
  <2>2. Truthful(completions)' /\ Truthful(completed)'
    BY <1>1, <1>3 DEF ReactorInv, ReactorProgress, Truthful, TaskDone, Phases
  <2>3. Inits(queue) \subseteq Channels
    BY <1>3, LiveFacts, QueueFacts
  <2> QED BY <1>1, <1>3, <1>12, <1>15, <2>1, <2>2, <2>3 DEF ReactorInv, ReactorProgress
<1> QED BY <1>17, <1>19, <1>20, <1>21, <1>22, <1>23 DEF ReactorInv

\* A worker takes a job.
LEMMA ReactorTakeWorkKeeps ==
  ASSUME ReactorInv, NEW w \in Threads, Reactor!TakeWork(w)
  PROVE  ReactorInv'
<1>1. /\ call[w] = NoCall /\ w \notin gone /\ w \notin post /\ ~stop /\ queue # << >> /\ queue' = Tail(queue)
      /\ \/ Head(queue).init /\ CallInit(w, Head(queue).slot, current[Head(queue).slot])
         \/ ~Head(queue).init /\ CallSteps(w, Head(queue).slot, Head(queue).steps)
      /\ UNCHANGED <<plan, snd, arrived, taken, nospace, reg, ready, pc, slot, current, active, inFlight,
                     completions, completed, notify, post, stop, gone, ok>>
  BY DEF Reactor!TakeWork, Reactor!Idle, Reactor!NoCall, NoCall, Reactor!CallInit, CallInit, Reactor!CallSteps, CallSteps,
         Reactor!PhaseUnits, PhaseUnits, Reactor!BeginPhase, BeginPhase, Reactor!Phases, Phases, Reactor!BothSides, BothSides,
         Reactor!Sides, Sides
<1>2. pc # "join" /\ pc # "returned" /\ Live /\ Live' /\ EdgesOK
  BY <1>1 DEF ReactorInv, ReactorGone, ReactorExit, Live
<1>3. /\ queue \in Seq(Reactor!Job) /\ NoTwice(queue)
      /\ Parted(Slots(queue), CallSlots, Slots(completions), Slots(completed), WatchedSet, CurrentSet)
      /\ (\A u, v \in Busy : call[u].slot = call[v].slot => u = v)
  BY <1>2 DEF ReactorInv, ReactorTypes, ReactorOwned
<1>4. /\ queue' \in Seq(Reactor!Job) /\ Head(queue) \in Reactor!Job /\ Head(queue).slot \in Slots(queue)
      /\ Slots(queue') = Slots(queue) \ {Head(queue).slot} /\ Inits(queue') = Inits(queue) \ {Head(queue).slot}
      /\ (Head(queue).init <=> Head(queue).slot \in Inits(queue)) /\ NoTwice(queue')
  <2>1. /\ Tail(queue) \in Seq(Reactor!Job) /\ Head(queue) \in Reactor!Job /\ Head(queue).slot \in Slots(queue)
        /\ Slots(Tail(queue)) = Slots(queue) \ {Head(queue).slot} /\ Inits(Tail(queue)) = Inits(queue) \ {Head(queue).slot}
        /\ (Head(queue).init <=> Head(queue).slot \in Inits(queue)) /\ NoTwice(Tail(queue))
    BY <1>1, <1>3, QueueTail
  <2> QED BY <1>1, <2>1
<1>5. PICK c \in Channels : c = Head(queue).slot
  BY <1>4, JobTypes
<1>6. PICK steps \in Seq(Sides) : steps = Head(queue).steps
  BY <1>4, JobTypes
<1>7. PICK t \in 1 .. Len(plan[c]) : t = current[c]
  <2>1. c \in CurrentSet
    BY <1>2, <1>4, <1>5, LiveFacts
  <2>2. plan[c] \in Seq(Seq(Phase))
    BY <1>2, TaskEdgesAssumption DEF EdgesOK
  <2>3. current[c] \in Nat /\ current[c] # 0 /\ current[c] <= Len(plan[c])
    BY <2>1 DEF CurrentSet, ReactorInv, ReactorTypes
  <2> QED BY <2>2, <2>3
<1>8. /\ c \notin CallSlots /\ c \notin Slots(completions) /\ c \notin Slots(completed) /\ c \in CurrentSet
  BY <1>3, <1>4, <1>5 DEF Parted
<1>9. /\ EdgesOK' /\ call'[w] \in Call /\ call'[w].slot = c /\ (call'[w].init <=> c \in Inits(queue))
      /\ (\A v \in Threads \ {w} : call'[v] = call[v])
      /\ (\A d \in Channels \ {c} : task'[d] = task[d] /\ phase'[d] = phase[d]) /\ task'[c] = current[c]
  <2>1. CASE Head(queue).init
    <3>1. CallInit(w, c, t)
      BY <1>1, <1>5, <1>7, <2>1
    <3>2. /\ EdgesOK' /\ call'[w] \in Call /\ call'[w].slot = c /\ call'[w].init
          /\ task' = [task EXCEPT ![c] = t] /\ (\A d \in Channels \ {c} : phase'[d] = phase[d])
          /\ (\A v \in Threads \ {w} : call'[v] = call[v])
      BY <1>1, <1>2, <3>1, InitCall
    <3>3. task'[c] = t /\ (\A d \in Channels \ {c} : task'[d] = task[d])
      BY <1>2, <3>2 DEF EdgesOK
    <3> QED BY <1>4, <1>5, <1>7, <2>1, <3>2, <3>3
  <2>2. CASE ~Head(queue).init
    <3>1. CallSteps(w, c, steps)
      BY <1>1, <1>5, <1>6, <2>2
    <3>2. c \notin Inits(queue)
      BY <1>4, <1>5, <2>2
    <3>3. task[c] = current[c] /\ task[c] > 0
      BY <1>2, <1>7, <1>8, <3>2 DEF ReactorInv, ReactorProgress
    <3>4. /\ EdgesOK' /\ call'[w] \in Call
          /\ call'[w] = [slot |-> c, todo |-> << >>, steps |-> steps, init |-> FALSE, result |-> "running"]
          /\ (\A v \in Threads \ {w} : call'[v] = call[v])
      BY <1>1, <1>2, <3>1, <3>3, StepsCall
    <3>5. call'[w].slot = c /\ ~call'[w].init /\ UNCHANGED <<task, phase>>
      BY <3>1, <3>4 DEF CallSteps
    <3> QED BY <3>2, <3>3, <3>4, <3>5
  <2> QED BY <2>1, <2>2
<1>10. call'[w] # NoCall
  BY <1>9, CallIsCall
<1>11. /\ CallSlots' = CallSlots \cup {c} /\ CallInits' = CallInits \cup (IF c \in Inits(queue) THEN {c} ELSE {})
       /\ (\A u, v \in Busy' : call'[u].slot = call'[v].slot => u = v) /\ Busy' = Busy \cup {w}
  BY <1>1, <1>3, <1>8, <1>9, <1>10, CallEnters
<1>12. WatchedSet' = WatchedSet /\ CurrentSet' = CurrentSet
  BY <1>1 DEF WatchedSet, CurrentSet
<1>13. InitSet' = InitSet
  BY <1>1, <1>4, <1>5, <1>11 DEF InitSet
<1>14. ReactorTypes'
  BY <1>1, <1>4 DEF ReactorInv, ReactorTypes
<1>15. ReactorGone' /\ ReactorExit' /\ ReactorWoken'
  <2>0. \A v \in gone : v \in Threads \ {w}
    BY <1>1 DEF ReactorInv, ReactorTypes
  <2>1. ReactorGone'
    BY <1>1, <1>9, <2>0 DEF ReactorInv, ReactorGone
  <2> QED BY <1>1, <1>2, <2>1 DEF ReactorInv, ReactorExit, ReactorWoken
<1>16. ReactorCounts'
  BY <1>1, <1>2, <1>12, <1>13 DEF ReactorInv, ReactorCounts
<1>17. ReactorOwned'
  <2>1. Parted(Slots(queue) \ {c}, CallSlots \cup {c}, Slots(completions), Slots(completed), WatchedSet, CurrentSet)
    BY <1>3, <1>4, <1>5, PartedMoves
  <2>2. Parted(Slots(queue'), CallSlots', Slots(completions'), Slots(completed'), WatchedSet', CurrentSet')
    BY <1>1, <1>4, <1>5, <1>11, <1>12, <2>1
  <2>3. /\ NoTwice(completions') /\ NoTwice(completed') /\ (pc' # "process" => completed' = << >>)
        /\ reg' = UNION {EdgesOf(d) : d \in WatchedSet'}
    BY <1>1, <1>2, <1>12 DEF ReactorInv, ReactorOwned
  <2> QED BY <1>4, <1>11, <2>2, <2>3 DEF ReactorOwned
<1>18. ReactorProgress'
  <2>1. \A d \in Channels \ {c} : (Finished(d)' <=> Finished(d)) /\ (Over(d)' <=> Over(d)) /\ (TaskDone(d)' <=> TaskDone(d))
    BY <1>1, <1>9 DEF Finished, Over, TaskDone, Phases
  <2>2. completions \in Seq(Reactor!Completion) /\ completed \in Seq(Reactor!Completion)
    BY DEF ReactorInv, ReactorTypes
  <2>3. /\ (\A i \in DOMAIN completions : completions[i].slot \in Channels \ {c})
        /\ (\A i \in DOMAIN completed : completed[i].slot \in Channels \ {c})
    <3>1. /\ (\A i \in DOMAIN completions : completions[i] \in Reactor!Completion)
         /\ (\A i \in DOMAIN completed : completed[i] \in Reactor!Completion)
      BY <2>2
    <3>2. /\ (\A i \in DOMAIN completions : completions[i].slot \in Slots(completions))
         /\ (\A i \in DOMAIN completed : completed[i].slot \in Slots(completed))
      BY DEF Slots
    <3>3. \A x \in Reactor!Completion : x.slot \in Channels
      BY JobTypes
    <3> QED BY <1>8, <3>1, <3>2, <3>3
  <2>4. Truthful(completions)' /\ Truthful(completed)'
    BY <1>1, <1>2, <2>1, <2>3 DEF ReactorInv, ReactorProgress, Truthful
  <2>5. current[c] # 0
    BY <1>7
  <2>6. pc' = "boot" => \A d \in Channels : d >= slot' => current'[d] = 0 /\ task'[d] = 0
    BY <1>1, <1>2, <1>9, <2>5 DEF ReactorInv, ReactorProgress
  <2>7. \A d \in Channels : current'[d] = 0 /\ (pc' = "boot" => d < slot') => Finished(d)'
    BY <1>1, <1>2, <2>1, <2>5 DEF ReactorInv, ReactorProgress
  <2>8. ASSUME NEW d \in CurrentSet' \ Inits(queue') PROVE task'[d] = current'[d]
    <3>1. CASE d = c
      BY <1>1, <1>9, <3>1
    <3>2. CASE d # c
      <4>1. d \in CurrentSet \ Inits(queue) /\ d \in Channels
        BY <1>4, <1>5, <1>12, <2>8, <3>2 DEF CurrentSet
      <4> QED BY <1>1, <1>2, <1>9, <3>2, <4>1 DEF ReactorInv, ReactorProgress
    <3> QED BY <3>1, <3>2
  <2>9. ASSUME NEW d \in Inits(queue') PROVE current'[d] = task'[d] + 1 /\ Over(d)'
    <3>1. d \in Inits(queue) /\ d # c /\ d \in Channels
      BY <1>2, <1>4, <1>5, <2>9, QueueFacts, LiveFacts
    <3> QED BY <1>1, <1>2, <1>9, <2>1, <3>1 DEF ReactorInv, ReactorProgress
  <2> QED BY <2>4, <2>6, <2>7, <2>8, <2>9 DEF ReactorProgress
<1> QED BY <1>9, <1>14, <1>15, <1>16, <1>17, <1>18 DEF ReactorInv

\* A worker reports.
LEMMA ReactorPushCompletionKeeps ==
  ASSUME ReactorInv, NEW w \in Threads, Reactor!PushCompletion(w)
  PROVE  ReactorInv'
<1>1. /\ call[w] # NoCall /\ call' = [call EXCEPT ![w] = NoCall] /\ post' = post \cup {w}
      /\ UNCHANGED <<plan, task, phase, left, snd, arrived, taken, nospace, reg, ready, pc, slot, current, active, inFlight, queue,
                     completed, notify, stop, gone, ok>>
  BY DEF Reactor!PushCompletion, Reactor!NoCall, NoCall, Reactor!moveVars
<1>2. call[w] \in Call /\ call[w].slot \in Channels /\ call[w].init \in BOOLEAN /\ EdgesOK
  BY <1>1 DEF ReactorInv, EdgesOK, Call
<1>3. PICK c \in Channels : c = call[w].slot
  BY <1>2
<1>4. PICK state \in {"waiting", "done", "failed"} :
        /\ completions' = Append(completions, [slot |-> call[w].slot, init |-> call[w].init, state |-> state])
        /\ (state = "done" => TaskDone(c))
  <2>1. call[w].result \in {"ok", "failed"}
    BY DEF Reactor!PushCompletion
  <2>2. PICK s : s = CASE call[w].result = "failed" -> "failed"
                       [] call[w].result = "ok" /\ Reactor!TaskDone(call[w].slot) -> "done"
                       [] OTHER -> "waiting"
    OBVIOUS
  <2>3. completions' = Append(completions, [slot |-> call[w].slot, init |-> call[w].init, state |-> s])
    BY <2>2 DEF Reactor!PushCompletion
  <2>4. Reactor!TaskDone(call[w].slot) <=> TaskDone(c)
    BY <1>3 DEF Reactor!TaskDone, TaskDone, Reactor!Phases, Phases
  <2>5. CASE call[w].result = "failed"
    <3>1. s = "failed"
      BY <2>2, <2>5
    <3> QED BY <2>3, <3>1
  <2>6. CASE call[w].result = "ok" /\ TaskDone(c)
    <3>1. s = "done"
      BY <2>2, <2>4, <2>6
    <3> QED BY <2>3, <2>6, <3>1
  <2>7. CASE call[w].result = "ok" /\ ~TaskDone(c)
    <3>1. s = "waiting"
      BY <2>2, <2>4, <2>7
    <3> QED BY <2>3, <3>1
  <2> QED BY <2>1, <2>5, <2>6, <2>7
<1>5. PICK report : report = [slot |-> call[w].slot, init |-> call[w].init, state |-> state]
  OBVIOUS
<1>6. /\ report \in Reactor!Completion /\ report.slot = c /\ report.init = call[w].init /\ report.state = state
      /\ completions' = Append(completions, report)
  BY <1>2, <1>3, <1>4, <1>5, JobTypes
<1>7. EdgesOK' /\ call'[w] = NoCall /\ (\A v \in Threads \ {w} : call'[v] = call[v])
  <2>1. NoCall \in Call \cup {NoCall}
    OBVIOUS
  <2> QED BY <1>1, <1>2, <2>1, CallChange
<1>8. completions \in Seq(Reactor!Completion) /\ completions' \in Seq(Reactor!Completion)
  BY <1>6 DEF ReactorInv, ReactorTypes
<1>9. ReactorTypes'
  BY <1>1, <1>8 DEF ReactorInv, ReactorTypes
<1>10. ReactorGone'
  BY <1>1, <1>7 DEF ReactorInv, ReactorGone
<1>11. ReactorWoken'
  BY <1>1 DEF ReactorWoken
<1>12. ReactorExit'
  BY <1>1 DEF ReactorInv, ReactorExit
<1>13. ReactorOwned' /\ ReactorCounts' /\ ReactorProgress'
  <2>1. CASE ~Live
    <3>1. ~Live'
      BY <1>1, <2>1 DEF Live
    <3> QED BY <3>1 DEF ReactorOwned, ReactorCounts, ReactorProgress
  <2>2. CASE Live
    <3>1. /\ NoTwice(completions) /\ (\A u, v \in Busy : call[u].slot = call[v].slot => u = v)
          /\ Parted(Slots(queue), CallSlots, Slots(completions), Slots(completed), WatchedSet, CurrentSet)
      BY <2>2 DEF ReactorInv, ReactorOwned
    <3>2. /\ Busy' = Busy \ {w} /\ CallSlots' = CallSlots \ {c} /\ c \in CallSlots
          /\ CallInits' = CallInits \ {c} /\ (call[w].init <=> c \in CallInits)
          /\ (\A u, v \in Busy' : call'[u].slot = call'[v].slot => u = v)
      BY <1>1, <1>3, <1>7, <3>1, CallLeaves
    <3>3. c \notin Slots(completions) /\ c \notin Slots(queue) /\ c \notin Slots(completed)
      BY <3>1, <3>2 DEF Parted
    <3>4. /\ Slots(Append(completions, report)) = Slots(completions) \cup {report.slot}
          /\ Inits(Append(completions, report)) = Inits(completions) \cup (IF report.init THEN {report.slot} ELSE {})
          /\ NoTwice(Append(completions, report))
          /\ (\A i \in DOMAIN Append(completions, report) :
                Append(completions, report)[i] = report \/ (i \in DOMAIN completions /\ Append(completions, report)[i] = completions[i]))
      BY <1>6, <1>8, <3>1, <3>3, QueueAppend
    <3>5. /\ Slots(completions') = Slots(completions) \cup {c}
          /\ Inits(completions') = Inits(completions) \cup (IF call[w].init THEN {c} ELSE {})
          /\ NoTwice(completions')
          /\ (\A i \in DOMAIN completions' : completions'[i] = report \/ (i \in DOMAIN completions /\ completions'[i] = completions[i]))
      BY <1>6, <3>4
    <3>6. WatchedSet' = WatchedSet /\ CurrentSet' = CurrentSet /\ Live'
      BY <1>1, <2>2 DEF WatchedSet, CurrentSet, Live
    <3>7. InitSet' = InitSet
      BY <1>1, <3>2, <3>5 DEF InitSet
    <3>8. ReactorCounts'
      BY <1>1, <2>2, <3>6, <3>7 DEF ReactorInv, ReactorCounts
    <3>9. ReactorOwned'
      <4>1. Parted(Slots(queue), CallSlots \ {c}, Slots(completions) \cup {c}, Slots(completed), WatchedSet, CurrentSet)
        BY <3>1, <3>2, PartedMoves
      <4>2. Parted(Slots(queue'), CallSlots', Slots(completions'), Slots(completed'), WatchedSet', CurrentSet')
        BY <1>1, <3>2, <3>5, <3>6, <4>1
      <4>3. /\ NoTwice(queue') /\ NoTwice(completed') /\ (pc' # "process" => completed' = << >>)
            /\ reg' = UNION {EdgesOf(d) : d \in WatchedSet'}
        BY <1>1, <2>2, <3>6 DEF ReactorInv, ReactorOwned
      <4> QED BY <3>2, <3>5, <4>2, <4>3 DEF ReactorOwned
    <3>10. ReactorProgress'
      <4>1. \A d \in Channels : (Finished(d)' <=> Finished(d)) /\ (Over(d)' <=> Over(d)) /\ (TaskDone(d)' <=> TaskDone(d))
        BY <1>1 DEF Finished, Over, TaskDone, Phases
      <4>2. Truthful(completed)'
        BY <1>1, <2>2 DEF ReactorInv, ReactorProgress, Truthful, TaskDone, Phases
      <4>3. Truthful(completions)'
        <5> SUFFICES ASSUME NEW i \in DOMAIN completions', completions'[i].state = "done"
                     PROVE  TaskDone(completions[i].slot)'
          BY DEF Truthful
        <5>1. CASE completions'[i] = report
          <6>1. completions'[i].slot = c /\ TaskDone(c)
            BY <1>4, <1>6, <5>1
          <6>2. PICK d \in Channels : d = completions'[i].slot /\ TaskDone(d)
            BY <6>1
          <6> QED BY <6>2, <1>1 DEF TaskDone, Phases
        <5>2. CASE i \in DOMAIN completions /\ completions'[i] = completions[i]
          <6>1. PICK d : d = completions[i].slot /\ d = completions'[i].slot /\ TaskDone(d)
            BY <2>2, <5>2 DEF ReactorInv, ReactorProgress, Truthful
          <6> QED BY <6>1, <1>1 DEF TaskDone, Phases
        <5> QED BY <3>5, <5>1, <5>2
      <4>4. Inits(queue) \subseteq Channels
        BY <2>2, LiveFacts, QueueFacts
      <4> QED BY <1>1, <2>2, <3>6, <4>1, <4>2, <4>3, <4>4 DEF ReactorInv, ReactorProgress
    <3> QED BY <3>8, <3>9, <3>10
  <2> QED BY <2>1, <2>2
<1> QED BY <1>7, <1>9, <1>10, <1>11, <1>12, <1>13 DEF ReactorInv

\* A step inside a worker's call.
LEMMA ReactorTopologyKeeps ==
  ASSUME ReactorInv, NEW w \in Threads, Topology(w),
         UNCHANGED <<pc, slot, current, active, inFlight, queue, completions, completed, notify, post, stop, gone, ok>>
  PROVE  ReactorInv'
<1>1. Moves(w)
  BY TopologyMoves DEF ReactorInv
<1>2. PICK c \in Channels : c = call[w].slot
  BY <1>1 DEF Moves, Call
<1>3. /\ EdgesOK' /\ UNCHANGED <<plan, task, arrived, reg, ready>> /\ call[w] # NoCall /\ call'[w] # NoCall
      /\ call'[w].slot = c /\ call'[w].init = call[w].init /\ (\A v \in Threads \ {w} : call'[v] = call[v])
      /\ (\A d \in Channels \ {c} : phase'[d] = phase[d])
  BY <1>1, <1>2, CallIsCall DEF Moves
<1>4. ReactorTypes' /\ ReactorWoken'
  BY <1>3 DEF ReactorInv, ReactorTypes, ReactorWoken
<1>5. ReactorGone'
  <2>1. \A v \in gone : v \in Threads \ {w}
    BY <1>3 DEF ReactorInv, ReactorTypes, ReactorGone
  <2> QED BY <1>3, <2>1 DEF ReactorInv, ReactorGone
<1>6. ReactorExit'
  BY <1>3 DEF ReactorInv, ReactorExit
<1>7. ReactorOwned' /\ ReactorCounts' /\ ReactorProgress'
  <2>1. CASE ~Live
    <3>1. ~Live'
      BY <2>1 DEF Live
    <3> QED BY <3>1 DEF ReactorOwned, ReactorCounts, ReactorProgress
  <2>2. CASE Live
    <3>1. Busy' = Busy /\ CallSlots' = CallSlots /\ CallInits' = CallInits /\ (\A v \in Busy : call'[v].slot = call[v].slot)
      BY <1>2, <1>3, CallStays
    <3>2. WatchedSet' = WatchedSet /\ CurrentSet' = CurrentSet /\ Live'
      BY <1>3, <2>2 DEF WatchedSet, CurrentSet, Live
    <3>3. InitSet' = InitSet
      BY <3>1 DEF InitSet
    <3>4. ReactorCounts'
      BY <2>2, <3>2, <3>3 DEF ReactorInv, ReactorCounts
    <3>5. ReactorOwned'
      BY <1>3, <2>2, <3>1, <3>2 DEF ReactorInv, ReactorOwned
    <3>6. c \in CallSlots /\ c \notin Slots(queue) /\ c \notin Slots(completions) /\ c \notin Slots(completed) /\ current[c] # 0
      <4>1. c \in CallSlots
        BY <1>2, <1>3 DEF CallSlots, Busy
      <4>2. Parted(Slots(queue), CallSlots, Slots(completions), Slots(completed), WatchedSet, CurrentSet)
        BY <2>2 DEF ReactorInv, ReactorOwned
      <4>3. c \in CurrentSet /\ c \notin Slots(queue) /\ c \notin Slots(completions) /\ c \notin Slots(completed)
        BY <4>1, <4>2 DEF Parted
      <4> QED BY <4>1, <4>3 DEF CurrentSet
    <3>7. ReactorProgress'
      <4>1. \A d \in Channels \ {c} : (Finished(d)' <=> Finished(d)) /\ (Over(d)' <=> Over(d)) /\ (TaskDone(d)' <=> TaskDone(d))
        BY <1>3 DEF Finished, Over, TaskDone, Phases
      <4>2. completions \in Seq(Reactor!Completion) /\ completed \in Seq(Reactor!Completion)
        BY DEF ReactorInv, ReactorTypes
      <4>3. /\ (\A i \in DOMAIN completions : completions[i].slot \in Channels \ {c})
            /\ (\A i \in DOMAIN completed : completed[i].slot \in Channels \ {c})
        <5>1. /\ (\A i \in DOMAIN completions : completions[i] \in Reactor!Completion)
             /\ (\A i \in DOMAIN completed : completed[i] \in Reactor!Completion)
          BY <4>2
        <5>2. /\ (\A i \in DOMAIN completions : completions[i].slot \in Slots(completions))
             /\ (\A i \in DOMAIN completed : completed[i].slot \in Slots(completed))
          BY DEF Slots
        <5>3. \A x \in Reactor!Completion : x.slot \in Channels
          BY JobTypes
        <5> QED BY <3>6, <5>1, <5>2, <5>3
      <4>4. Truthful(completions)' /\ Truthful(completed)'
        BY <2>2, <4>1, <4>3 DEF ReactorInv, ReactorProgress, Truthful
      <4>5. Inits(queue) \subseteq Channels \ {c}
        BY <2>2, <3>6, LiveFacts, QueueFacts
      <4> QED BY <1>3, <2>2, <3>2, <3>6, <4>1, <4>4, <4>5 DEF ReactorInv, ReactorProgress
    <3> QED BY <3>4, <3>5, <3>7
  <2> QED BY <2>1, <2>2
<1> QED BY <1>3, <1>4, <1>5, <1>6, <1>7 DEF ReactorInv

\* Data arrives, or is drained.
LEMMA ReactorKernelKeeps ==
  ASSUME ReactorInv, NEW c \in Channels, Arrive(c) \/ Drain(c),
         UNCHANGED <<pc, slot, current, active, inFlight, queue, completions, completed, notify, post, stop, gone, ok>>
  PROVE  ReactorInv'
<1>1. EdgesOK' /\ UNCHANGED <<plan, task, phase, reg, call>>
  BY ArriveKeeps, DrainKeeps DEF ReactorInv
<1>2. \A d \in Channels : Finished(d)' <=> Finished(d)
  BY <1>1 DEF Finished, TaskDone, Phases
<1>3. ReactorTypes' /\ ReactorGone' /\ ReactorWoken'
  BY <1>1 DEF ReactorInv, ReactorTypes, ReactorGone, ReactorWoken
<1>4. ReactorExit'
  BY <1>1, <1>2 DEF ReactorInv, ReactorExit
<1>5. ReactorOwned' /\ ReactorCounts' /\ ReactorProgress'
  <2>1. CASE Live
    <3>1. pc # "process" => completed = << >>
      BY <2>1 DEF ReactorInv, ReactorOwned
    <3> QED BY <1>1, <2>1, <3>1, PlacesStay
  <2>2. CASE ~Live
    <3>1. ~Live'
      BY <2>2 DEF Live
    <3> QED BY <3>1 DEF ReactorOwned, ReactorCounts, ReactorProgress
  <2> QED BY <2>1, <2>2
<1> QED BY <1>1, <1>3, <1>4, <1>5 DEF ReactorInv

\* Any step of the reactor or of a worker.
LEMMA ReactorRunKeeps ==
  ASSUME ReactorInv, Reactor!Reactor \/ \E w \in Threads : Reactor!WorkerLoop(w)
  PROVE  ReactorInv'
<1>1. CASE Reactor!Reactor
  BY <1>1, ReactorBootKeeps, ReactorWaitKeeps, ReactorQuietKeeps, ReactorSwapKeeps, ReactorFailedKeeps, ReactorJoinKeeps,
     ReactorWaitingKeeps, ReactorDoneKeeps, ReactorReturnKeeps DEF Reactor!Reactor, Reactor!TakeCompletions
<1>2. ASSUME NEW w \in Threads, Reactor!WorkerLoop(w) PROVE ReactorInv'
  <2>1. CASE Reactor!Topology(w) /\ UNCHANGED <<pc, slot, current, active, inFlight, queue, completions, completed, notify, post,
                                                stop, gone, ok>>
    BY <2>1, ReactorTopology, ReactorTopologyKeeps
  <2> QED BY <1>2, <2>1, ReactorTakeWorkKeeps, ReactorPushCompletionKeeps, ReactorQuietKeeps
          DEF Reactor!WorkerLoop, Reactor!runVars
<1> QED BY <1>1, <1>2

\* The invariant holds when Run begins.
LEMMA ReactorBegins ==
  ASSUME Reactor!Init
  PROVE  ReactorInv
<1>1. EdgesInit
  BY DEF Reactor!Init, Reactor!EdgesInit, EdgesInit, Reactor!Channels, Channels, Reactor!Sides, Sides, Reactor!NoCall, NoCall
<1>2. EdgesOK /\ (\A c \in Channels : task[c] = 0) /\ (\A th \in Threads : call[th] = NoCall) /\ reg = {}
  BY <1>1, EdgesBegin
<1>3. /\ pc = "boot" /\ slot = 1 /\ current = [c \in Channels |-> 0] /\ active = 0 /\ inFlight = 0
      /\ queue = << >> /\ completions = << >> /\ completed = << >>
      /\ notify = FALSE /\ post = {} /\ stop = FALSE /\ gone = {} /\ ok = TRUE
  BY DEF Reactor!Init, Reactor!Channels, Channels
<1>4. /\ ChannelCount \in Nat /\ slot \in Channels /\ (\A c \in Channels : current[c] = 0 /\ c \in Nat /\ ~(c < 1))
      /\ (\A c \in Channels : Len(plan[c]) \in Nat)
  <2>1. \A c \in Channels : plan[c] \in Seq(Seq(Phase))
    BY <1>2, TaskEdgesAssumption DEF EdgesOK
  <2> QED BY <1>3, <2>1, TaskEdgesAssumption DEF Channels
<1>5. ReactorTypes
  <2>1. queue \in Seq(Reactor!Job) /\ completions \in Seq(Reactor!Completion) /\ completed \in Seq(Reactor!Completion)
    BY <1>3
  <2>2. current \in [Channels -> Nat] /\ (\A c \in Channels : current[c] <= Len(plan[c]))
    BY <1>3, <1>4
  <2>3. active \in 0 .. ChannelCount /\ inFlight \in 0 .. ChannelCount
    BY <1>3, <1>4
  <2> QED BY <1>3, <1>4, <2>1, <2>2, <2>3 DEF ReactorTypes
<1>6. ReactorGone /\ ReactorExit /\ ReactorWoken
  BY <1>3 DEF ReactorGone, ReactorExit, ReactorWoken
<1>7. /\ CurrentSet = {} /\ WatchedSet = {} /\ Busy = {} /\ CallSlots = {} /\ CallInits = {}
  BY <1>2, <1>4 DEF CurrentSet, WatchedSet, Busy, CallSlots, CallInits
<1>8. /\ Slots(queue) = {} /\ Inits(queue) = {} /\ NoTwice(queue) /\ Slots(completions) = {} /\ Inits(completions) = {}
      /\ NoTwice(completions) /\ Slots(completed) = {} /\ Inits(completed) = {} /\ NoTwice(completed)
  BY <1>3, QueueFacts
<1>9. ReactorOwned
  BY <1>2, <1>3, <1>7, <1>8 DEF ReactorOwned, Parted
<1>10. ReactorCounts
  BY <1>3, <1>7, FS_EmptySet DEF ReactorCounts
<1>11. ReactorProgress
  BY <1>2, <1>3, <1>4, <1>7, <1>8 DEF ReactorProgress, Truthful
<1> QED BY <1>2, <1>5, <1>6, <1>9, <1>10, <1>11 DEF ReactorInv

-----------------------------------------------------------------------------
(* The specification *)

\* A step that changes nothing keeps the invariant of each executor.
LEMMA StutterKeeps ==
  ASSUME UNCHANGED vars
  PROVE  /\ (EpollInv => EpollInv') /\ (PollingInv => PollingInv') /\ (ReactorInv => ReactorInv')
<1>1. /\ UNCHANGED <<plan, task, phase, left, snd, sent, arrived, taken, nospace, reg, ready, call>>
      /\ UNCHANGED <<pc, slot, current, active, ok, boot, events, booted>>
      /\ UNCHANGED <<inFlight, queue, completions, completed, notify, post, stop, gone>>
  BY DEF vars, edgeVars, runVars, epollVars, reactorVars
<1>2. (EdgesOK => EdgesOK') /\ (DoneIdle => DoneIdle') /\ (RunOK => RunOK')
  BY <1>1 DEF EdgesOK, DoneIdle, RunOK, TaskDone, Phases
<1>3. /\ CurrentSet' = CurrentSet /\ (\A c \in Channels : Finished(c)' <=> Finished(c)) /\ (\A c \in Channels : Over(c)' <=> Over(c))
  BY <1>1 DEF CurrentSet, Finished, Over, TaskDone, Phases
<1>4. ASSUME EpollInv PROVE EpollInv'
  <2>1. EpollTypes' /\ EpollCalls' /\ EpollCounts' /\ EpollExit'
    BY <1>1, <1>3, <1>4 DEF EpollInv, EpollTypes, EpollCalls, EpollCounts, EpollExit
  <2>2. EpollProgress'
    <3>1. Unstarted' = Unstarted
      BY <1>1 DEF Unstarted
    <3>2. slot \in Channels
      BY <1>4 DEF EpollInv, RunOK
    <3> QED BY <1>1, <1>3, <1>4, <3>1, <3>2 DEF EpollInv, EpollProgress
  <2>3. EpollAnnounced'
    BY <1>1, <1>4 DEF EpollInv, EpollAnnounced, Announced, ToPush, IsReady, Readable, Writable
  <2> QED BY <1>2, <1>4, <2>1, <2>2, <2>3 DEF EpollInv
<1>5. ASSUME PollingInv PROVE PollingInv'
  <2>1. PollingTypes' /\ PollingCalls' /\ PollingCounts' /\ PollingExit' /\ PollingProgress'
    BY <1>1, <1>3, <1>5 DEF PollingInv, PollingTypes, PollingCalls, PollingCounts, PollingExit, PollingProgress
  <2> QED BY <1>2, <1>5, <2>1 DEF PollingInv
<1>6. ASSUME ReactorInv PROVE ReactorInv'
  <2>1. ReactorTypes' /\ ReactorGone' /\ ReactorWoken' /\ ReactorExit'
    BY <1>1, <1>3, <1>6 DEF ReactorInv, ReactorTypes, ReactorGone, ReactorWoken, ReactorExit
  <2>2. ReactorOwned' /\ ReactorCounts' /\ ReactorProgress'
    <3>1. CASE Live
      <4>1. pc' # "process" => completed = << >>
        BY <1>1, <1>6, <3>1 DEF ReactorInv, ReactorOwned
      <4> QED BY <1>1, <1>6, <3>1, <4>1, PlacesStay
    <3>2. CASE ~Live
      BY <1>1, <3>2 DEF Live, ReactorOwned, ReactorCounts, ReactorProgress
    <3> QED BY <3>1, <3>2
  <2> QED BY <1>2, <1>6, <2>1, <2>2 DEF ReactorInv
<1> QED BY <1>4, <1>5, <1>6

\* The invariant holds at first.
LEMMA ExecutorsBegin ==
  ASSUME Init
  PROVE  IInv
<1>1. CASE EpollInit
  BY <1>1, EpollBegins DEF EpollInit, IInv
<1>2. CASE PollingInit
  BY <1>2, PollingBegins DEF PollingInit, IInv
<1>3. CASE ReactorInit
  BY <1>3, ReactorBegins DEF ReactorInit, IInv
<1> QED BY <1>1, <1>2, <1>3 DEF Init

\* Every step keeps it: a step of Run, of a worker, of a neighbour, or none.
LEMMA ExecutorsStep ==
  ASSUME IInv, [Next]_vars
  PROVE  IInv'
<1>1. CASE EpollRun
  BY <1>1, EpollRunKeeps DEF EpollRun, IInv
<1>2. CASE PollingRun
  BY <1>2, PollingRunKeeps DEF PollingRun, IInv
<1>3. CASE ReactorRun
  BY <1>3, ReactorRunKeeps DEF ReactorRun, IInv
<1>4. ASSUME NEW w \in Threads, ReactorWorker(w) PROVE IInv'
  BY <1>4, ReactorRunKeeps DEF ReactorWorker, IInv
<1>5. ASSUME NEW c \in Channels, Deliver(c) \/ Take(c) PROVE IInv'
  <2>1. /\ Arrive(c) \/ Drain(c)
        /\ executor' = executor /\ UNCHANGED <<pc, slot, boot, current, active, events, ok>>
        /\ UNCHANGED <<pc, slot, booted, current, active, ok>>
        /\ UNCHANGED <<pc, slot, current, active, inFlight, queue, completions, completed, notify, post, stop, gone, ok>>
    BY <1>5 DEF Deliver, Take, runVars, epollVars, reactorVars
  <2>2. (EpollInv => EpollInv') /\ (PollingInv => PollingInv') /\ (ReactorInv => ReactorInv')
    BY <2>1, EpollKernelKeeps, PollingKernelKeeps, ReactorKernelKeeps
  <2> QED BY <2>1, <2>2 DEF IInv
<1>6. CASE UNCHANGED vars
  <2>1. executor' = executor
    BY <1>6 DEF vars, runVars
  <2> QED BY <1>6, <2>1, StutterKeeps DEF IInv
<1> QED BY <1>1, <1>2, <1>3, <1>4, <1>5, <1>6 DEF Next

-----------------------------------------------------------------------------
(* What the invariant says of the properties *)

\* The types of the channels, in the words of TaskEdges.
LEMMA EdgesTypes ==
  ASSUME EdgesOK
  PROVE  EdgesTypeOK
<1>1. \A c \in Channels : Len(plan[c]) \in Nat
  BY TaskEdgesAssumption DEF EdgesOK
<1> QED BY <1>1 DEF EdgesOK, EdgesTypeOK

\* EpollExecutor: the set and the counter agree with the current tasks.
LEMMA EpollConclusions ==
  ASSUME EpollInv
  PROVE  /\ Epoll!TypeOK /\ Epoll!Accounted /\ Epoll!NoLostEdge /\ Epoll!CleanExit
<1>1. EdgesTypeOK
  BY EdgesTypes DEF EpollInv
<1>2. Epoll!EdgesTypeOK
  BY <1>1 DEF Epoll!EdgesTypeOK, EdgesTypeOK, Epoll!Channels, Channels, Epoll!Sides, Sides, Epoll!Call, Call, Epoll!NoCall, NoCall
<1>3. \A c \in Channels : current[c] \in 0 .. Len(plan[c])
  <2> TAKE c \in Channels
  <2>1. plan[c] \in Seq(Seq(Phase)) /\ task[c] \in Nat /\ task[c] <= Len(plan[c]) /\ current[c] \in Nat /\ (current[c] # 0 => current[c] = task[c])
    BY TaskEdgesAssumption DEF EpollInv, EdgesOK, RunOK
  <2> QED BY <2>1
<1>4. active = Cardinality(CurrentSet) /\ active \in 0 .. ChannelCount
  BY CountRange DEF EpollInv, EpollCounts, CurrentSet
<1>5. Epoll!TypeOK
  BY <1>2, <1>3, <1>4 DEF Epoll!TypeOK, EpollInv, RunOK, EpollTypes, Epoll!Channels, Channels, Epoll!Sides, Sides
<1>6. Epoll!Accounted
  <2>1. \A c : Epoll!EdgesOf(c) = EdgesOf(c)
    BY DEF Epoll!EdgesOf, EdgesOf, Epoll!Sides, Sides
  <2>2. Epoll!Channels = Channels
    BY DEF Epoll!Channels, Channels
  <2>3. Epoll!Cardinality(CurrentSet) = active
    BY <1>4, EpollCardinality
  <2>4. pc # "returned" => reg = UNION {EdgesOf(c) : c \in CurrentSet}
    BY DEF EpollInv, EpollCounts
  <2>5. pc # "returned" => reg = UNION {Epoll!EdgesOf(c) : c \in CurrentSet}
    BY <2>1, <2>4
  <2> QED BY <2>2, <2>3, <2>5, Zenon DEF Epoll!Accounted, CurrentSet
<1>7. Epoll!NoLostEdge
  BY DEF EpollInv, EpollAnnounced, Announced, Epoll!NoLostEdge, Epoll!Channels, Channels, Epoll!Sides, Sides, IsReady, Epoll!IsReady,
         Readable, Epoll!Readable, Writable, Epoll!Writable
<1>8. Epoll!CleanExit
  BY DEF EpollInv, EpollExit, Epoll!CleanExit, Epoll!Channels, Channels, Finished, Epoll!Finished, TaskDone, Epoll!TaskDone, Phases, Epoll!Phases
<1> QED BY <1>5, <1>6, <1>7, <1>8

\* PollingExecutor: the types, and what true means.
LEMMA PollingConclusions ==
  ASSUME PollingInv
  PROVE  Polling!TypeOK /\ Polling!TrueMeansDone
<1>1. EdgesTypeOK
  BY EdgesTypes DEF PollingInv
<1>2. Polling!EdgesTypeOK
  BY <1>1 DEF Polling!EdgesTypeOK, EdgesTypeOK, Polling!Channels, Channels, Polling!Sides, Sides, Polling!Call, Call, Polling!NoCall, NoCall
<1>3. \A c \in Channels : current[c] \in 0 .. Len(plan[c])
  <2> TAKE c \in Channels
  <2>1. plan[c] \in Seq(Seq(Phase)) /\ task[c] \in Nat /\ task[c] <= Len(plan[c]) /\ current[c] \in Nat /\ (current[c] # 0 => current[c] = task[c])
    BY TaskEdgesAssumption DEF PollingInv, EdgesOK, RunOK
  <2> QED BY <2>1
<1>4. active \in 0 .. ChannelCount
  BY CountRange DEF PollingInv, PollingCounts, CurrentSet
<1>5. Polling!TypeOK
  BY <1>2, <1>3, <1>4 DEF Polling!TypeOK, PollingInv, RunOK, PollingTypes, Polling!Channels, Channels
<1>6. Polling!TrueMeansDone
  BY DEF PollingInv, PollingExit, Polling!TrueMeansDone, Polling!Channels, Channels, Finished, Polling!Finished, TaskDone, Polling!TaskDone,
         Phases, Polling!Phases
<1> QED BY <1>5, <1>6

\* The jobs of a channel in a queue with no channel twice: one or none.
LEMMA PlacesInQueue ==
  ASSUME NEW S, NEW q \in Seq(S), NoTwice(q), NEW c
  PROVE  /\ Cardinality({i \in DOMAIN q : q[i].slot = c}) = (IF c \in Slots(q) THEN 1 ELSE 0)
         /\ ((\E i \in {k \in DOMAIN q : q[k].slot = c} : q[i].init) <=> c \in Inits(q))
<1>1. CASE c \in Slots(q)
  <2>1. PICK i \in DOMAIN q : q[i].slot = c
    BY <1>1 DEF Slots
  <2>2. {k \in DOMAIN q : q[k].slot = c} = {i}
    BY <2>1 DEF NoTwice
  <2> QED BY <1>1, <2>2, FS_Singleton DEF Inits
<1>2. CASE c \notin Slots(q)
  <2>1. {k \in DOMAIN q : q[k].slot = c} = {}
    BY <1>2 DEF Slots
  <2> QED BY <1>2, <2>1, FS_EmptySet DEF Inits, Slots
<1> QED BY <1>1, <1>2

\* The calls on a channel, when no two workers have the same: one or none.
LEMMA PlacesInCalls ==
  ASSUME \A v, w \in Busy : call[v].slot = call[w].slot => v = w, NEW c
  PROVE  /\ Cardinality({w \in Threads : call[w] # NoCall /\ call[w].slot = c}) = (IF c \in CallSlots THEN 1 ELSE 0)
         /\ ((\E w \in {v \in Threads : call[v] # NoCall /\ call[v].slot = c} : call[w].init) <=> c \in CallInits)
<1>1. CASE c \in CallSlots
  <2>1. PICK w \in Busy : call[w].slot = c
    BY <1>1 DEF CallSlots
  <2>2. {v \in Threads : call[v] # NoCall /\ call[v].slot = c} = {w}
    BY <2>1 DEF Busy
  <2>3. (\E v \in {w} : call[v].init) <=> c \in CallInits
    BY <2>1 DEF CallInits
  <2> QED BY <1>1, <2>2, <2>3, FS_Singleton
<1>2. CASE c \notin CallSlots
  <2>1. {v \in Threads : call[v] # NoCall /\ call[v].slot = c} = {}
    BY <1>2 DEF CallSlots, Busy
  <2>2. c \notin CallInits
    BY <1>2 DEF CallSlots, CallInits
  <2> QED BY <1>2, <2>1, <2>2, FS_EmptySet
<1> QED BY <1>1, <1>2

\* ReactorExecutor: where the task of a channel is, while Run goes on.
LEMMA ReactorPlaces ==
  ASSUME ReactorInv, Live, NEW c \in Channels
  PROVE  /\ Reactor!Places(c) = (IF current[c] = 0 THEN 0 ELSE 1)
         /\ (Reactor!Watched(c) = 0 <=> c \notin WatchedSet)
         /\ (Reactor!InInit(c) <=> c \in InitSet)
<1>1. /\ queue \in Seq(Reactor!Job) /\ completions \in Seq(Reactor!Completion) /\ completed \in Seq(Reactor!Completion)
      /\ NoTwice(queue) /\ NoTwice(completions) /\ NoTwice(completed)
      /\ (\A v, w \in Busy : call[v].slot = call[w].slot => v = w)
      /\ Parted(Slots(queue), CallSlots, Slots(completions), Slots(completed), WatchedSet, CurrentSet)
      /\ reg = UNION {EdgesOf(d) : d \in WatchedSet}
  BY DEF ReactorInv, ReactorTypes, ReactorOwned
<1>2. PICK told : told = completions \o completed
  OBVIOUS
<1>3. Slots(completions) \cap Slots(completed) = {}
  BY <1>1 DEF Parted
<1>4. /\ told \in Seq(Reactor!Completion) /\ NoTwice(told)
      /\ Slots(told) = Slots(completions) \cup Slots(completed) /\ Inits(told) = Inits(completions) \cup Inits(completed)
  <2>1. /\ completions \in Seq(Reactor!Completion) /\ completed \in Seq(Reactor!Completion)
        /\ NoTwice(completions) /\ NoTwice(completed)
    BY <1>1
  <2>2. /\ completions \o completed \in Seq(Reactor!Completion) /\ NoTwice(completions \o completed)
        /\ Slots(completions \o completed) = Slots(completions) \cup Slots(completed)
        /\ Inits(completions \o completed) = Inits(completions) \cup Inits(completed)
    BY <1>3, <2>1, QueueConcat, SMTT(30)
  <2> QED BY <1>2, <2>2, Zenon
<1>5. Reactor!Reports = told
  BY <1>2 DEF Reactor!Reports
<1> DEFINE jobs == {i \in DOMAIN queue : queue[i].slot = c}
           calls == {w \in Threads : call[w] # NoCall /\ call[w].slot = c}
           reports == {i \in DOMAIN told : told[i].slot = c}
<1>6. Reactor!JobsOf(c) = jobs /\ Reactor!CallsOf(c) = calls /\ Reactor!ReportsOf(c) = reports
  BY <1>5 DEF Reactor!JobsOf, Reactor!CallsOf, Reactor!ReportsOf, Reactor!NoCall, NoCall, Reactor!Workers
<1>7. /\ Cardinality(jobs) = (IF c \in Slots(queue) THEN 1 ELSE 0)
      /\ ((\E i \in jobs : queue[i].init) <=> c \in Inits(queue))
  BY <1>1, PlacesInQueue
<1>8. /\ Cardinality(calls) = (IF c \in CallSlots THEN 1 ELSE 0)
      /\ ((\E w \in calls : call[w].init) <=> c \in CallInits)
  BY <1>1, PlacesInCalls
<1>9. /\ Cardinality(reports) = (IF c \in Slots(told) THEN 1 ELSE 0)
      /\ ((\E i \in reports : told[i].init) <=> c \in Inits(told))
  BY <1>4, PlacesInQueue, ZenonT(60)
<1>10. Reactor!Watched(c) = (IF c \in WatchedSet THEN 1 ELSE 0)
  <2>1. EdgesOf(c) \subseteq reg <=> c \in WatchedSet
    BY <1>1 DEF WatchedSet, EdgesOf, Sides
  <2>2. Reactor!EdgesOf(c) = EdgesOf(c)
    BY DEF Reactor!EdgesOf, EdgesOf, Reactor!Sides, Sides
  <2> QED BY <2>1, <2>2 DEF Reactor!Watched
<1>11. Reactor!InInit(c) <=> c \in InitSet
  BY <1>4, <1>5, <1>6, <1>7, <1>8, <1>9 DEF Reactor!InInit, InitSet
<1>12. Reactor!Places(c) = (IF current[c] = 0 THEN 0 ELSE 1)
  <2>1. Reactor!Cardinality(jobs) = Cardinality(jobs) /\ Reactor!Cardinality(calls) = Cardinality(calls)
        /\ Reactor!Cardinality(reports) = Cardinality(reports)
    BY ReactorCardinality
  <2>2. Reactor!Places(c) = Cardinality(jobs) + Cardinality(calls) + Cardinality(reports) + Reactor!Watched(c)
    BY <2>1, <1>6, Zenon DEF Reactor!Places
  <2>3. current[c] # 0 <=> c \in CurrentSet
    BY DEF CurrentSet
  <2> HIDE DEF jobs, calls, reports
  <2> QED BY <1>1, <1>4, <1>7, <1>8, <1>9, <1>10, <2>2, <2>3 DEF Parted
<1> QED BY <1>10, <1>11, <1>12

\* ReactorExecutor: every task in one place, the counters right, no report
\* without a wake-up, nothing left behind.
LEMMA ReactorConclusions ==
  ASSUME ReactorInv
  PROVE  /\ Reactor!TypeOK /\ Reactor!OneOwner /\ Reactor!Counted /\ Reactor!NoLostCompletion /\ Reactor!Quiesced
<1>1. EdgesTypeOK
  BY EdgesTypes DEF ReactorInv
<1>2. Reactor!EdgesTypeOK
  BY <1>1 DEF Reactor!EdgesTypeOK, EdgesTypeOK, Reactor!Channels, Channels, Reactor!Sides, Sides, Reactor!Call, Call, Reactor!NoCall, NoCall
<1>3. Reactor!Channels = Channels
  BY DEF Reactor!Channels, Channels
<1>4. Reactor!TypeOK
  <2>1. \A c \in Channels : Len(plan[c]) \in Nat
    BY TaskEdgesAssumption DEF ReactorInv, EdgesOK
  <2>2. \A c \in Channels : current[c] \in 0 .. Len(plan[c])
    BY <2>1 DEF ReactorInv, ReactorTypes
  <2> QED BY <1>2, <1>3, <2>2 DEF Reactor!TypeOK, ReactorInv, ReactorTypes, Reactor!Workers
<1>5. Reactor!OneOwner
  BY <1>3, ReactorPlaces DEF Reactor!OneOwner, Live
<1>6. Reactor!Counted
  <2> SUFFICES ASSUME Live
               PROVE  /\ inFlight = Reactor!Cardinality({c \in Channels : current[c] # 0 /\ Reactor!Watched(c) = 0})
                      /\ active = Reactor!Cardinality({c \in Channels : current[c] # 0 /\ ~Reactor!InInit(c)})
    BY <1>3, Zenon DEF Reactor!Counted, Live
  <2>1. /\ {c \in Channels : current[c] # 0 /\ Reactor!Watched(c) = 0} = CurrentSet \ WatchedSet
        /\ {c \in Channels : current[c] # 0 /\ ~Reactor!InInit(c)} = CurrentSet \ InitSet
    BY ReactorPlaces DEF CurrentSet
  <2>2. inFlight = Cardinality(CurrentSet \ WatchedSet) /\ active = Cardinality(CurrentSet \ InitSet)
    BY DEF ReactorInv, ReactorCounts
  <2> QED BY <2>1, <2>2, ReactorCardinality
<1>7. Reactor!NoLostCompletion
  BY DEF ReactorInv, ReactorWoken, Reactor!NoLostCompletion
<1>8. Reactor!Quiesced
  BY <1>3 DEF ReactorInv, ReactorExit, Reactor!Quiesced, Finished, Reactor!Finished, TaskDone, Reactor!TaskDone, Phases, Reactor!Phases,
              Reactor!Workers, Reactor!NoCall, NoCall
<1> QED BY <1>4, <1>5, <1>6, <1>7, <1>8

-----------------------------------------------------------------------------
(* The streams of a channel: Aligned *)

\* A block of h[x] units for every x of P.
Blocks(P, h) == UNION {{x} \X (1 .. h[x]) : x \in P}

\* The blocks of a finite set are finitely many units.
LEMMA BlocksFinite ==
  ASSUME NEW P, IsFiniteSet(P), NEW Q, P \subseteq Q, NEW h \in [Q -> Nat]
  PROVE  IsFiniteSet(Blocks(P, h)) /\ Cardinality(Blocks(P, h)) \in Nat
<1> DEFINE S == {{x} \X (1 .. h[x]) : x \in P}
           f == [x \in P |-> {x} \X (1 .. h[x])]
<1>1. f \in Surjection(P, S)
  BY DEF Surjection
<1>2. IsFiniteSet(S)
  BY <1>1, FS_Surjection
<1>3. ASSUME NEW T \in S PROVE IsFiniteSet(T)
  <2>1. PICK x \in P : T = {x} \X (1 .. h[x])
    OBVIOUS
  <2>2. h[x] \in Int
    BY <2>1
  <2>3. IsFiniteSet({x})
    BY FS_Singleton
  <2>4. IsFiniteSet(1 .. h[x])
    BY <2>2, FS_Interval
  <2> QED BY <2>1, <2>3, <2>4, FS_Product
<1>4. IsFiniteSet(UNION S)
  BY <1>2, <1>3, FS_UNION
<1> QED BY <1>4, FS_CardinalityType DEF Blocks

\* One more block adds its units.
LEMMA BlocksAdd ==
  ASSUME NEW P, IsFiniteSet(P), NEW Q, P \subseteq Q, NEW h \in [Q -> Nat], NEW y \in Q \ P
  PROVE  Cardinality(Blocks(P \cup {y}, h)) = Cardinality(Blocks(P, h)) + h[y]
<1> DEFINE B == {y} \X (1 .. h[y])
<1>1. Blocks(P \cup {y}, h) = Blocks(P, h) \cup B
  BY DEF Blocks
<1>2. Blocks(P, h) \cap B = {}
  BY DEF Blocks
<1>3. IsFiniteSet(Blocks(P, h)) /\ Cardinality(Blocks(P, h)) \in Nat
  BY BlocksFinite
<1>4. h[y] \in Nat
  OBVIOUS
<1>5. IsFiniteSet({y}) /\ Cardinality({y}) = 1 /\ IsFiniteSet(1 .. h[y]) /\ Cardinality(1 .. h[y]) = h[y]
  <2>1. 1 \in Int /\ h[y] \in Int
    BY <1>4
  <2>2. IsFiniteSet(1 .. h[y]) /\ Cardinality(1 .. h[y]) = IF 1 > h[y] THEN 0 ELSE h[y] - 1 + 1
    BY <2>1, FS_Interval, Zenon
  <2>3. (IF 1 > h[y] THEN 0 ELSE h[y] - 1 + 1) = h[y]
    BY <1>4
  <2> QED BY <2>2, <2>3, FS_Singleton
<1>6. IsFiniteSet(B) /\ Cardinality(B) = h[y]
  <2>1. IsFiniteSet(B) /\ Cardinality(B) = Cardinality({y}) * Cardinality(1 .. h[y])
    BY <1>5, FS_Product
  <2> HIDE DEF B
  <2> QED BY <2>1, <1>4, <1>5
<1> HIDE DEF B
<1>7. Cardinality(Blocks(P, h) \cup B) = Cardinality(Blocks(P, h)) + Cardinality(B) - Cardinality({})
  BY <1>2, <1>3, <1>6, FS_Union
<1>8. Cardinality({}) = 0
  BY FS_EmptySet
<1>9. Cardinality(Blocks(P, h)) + Cardinality(B) - 0 = Cardinality(Blocks(P, h)) + h[y]
  BY <1>3, <1>4, <1>6
<1> QED BY <1>1, <1>7, <1>8, <1>9, Zenon

\* The phases of channel c, as <<task, phase>>, and their units on side s.
PlacesOf(c) == UNION {{k} \X DOMAIN Phases(c, k) : k \in DOMAIN plan[c]}
UnitsAt(c, s) == [x \in PlacesOf(c) |-> Phases(c, x[1])[x[2]][s]]

\* What UnitsBefore counts is a finite set of blocks.
LEMMA UnitsAsBlocks ==
  ASSUME plan \in Plans, NEW c \in Channels, NEW s \in Sides, NEW t, NEW p
  PROVE  /\ UnitsAt(c, s) \in [PlacesOf(c) -> Nat]
         /\ PhasesBefore(c, t, p) \subseteq PlacesOf(c) /\ IsFiniteSet(PhasesBefore(c, t, p))
         /\ UnitsBefore(c, t, p, s) = Cardinality(Blocks(PhasesBefore(c, t, p), UnitsAt(c, s)))
<1>1. plan[c] \in Seq(Seq(Phase))
  BY TaskEdgesAssumption
<1>2. DOMAIN plan[c] = 1 .. Len(plan[c]) /\ Len(plan[c]) \in Nat
  BY <1>1
<1>3. \A k \in DOMAIN plan[c] : Phases(c, k) \in Seq(Phase) /\ Len(Phases(c, k)) \in Nat /\ DOMAIN Phases(c, k) = 1 .. Len(Phases(c, k))
  BY <1>1 DEF Phases
<1>4. UnitsAt(c, s) \in [PlacesOf(c) -> Nat]
  <2>1. ASSUME NEW x \in PlacesOf(c) PROVE Phases(c, x[1])[x[2]][s] \in Nat
    <3>1. PICK k \in DOMAIN plan[c] : x \in {k} \X DOMAIN Phases(c, k)
      BY DEF PlacesOf
    <3>2. x[1] = k /\ x[2] \in DOMAIN Phases(c, k)
      BY <3>1
    <3>3. Phases(c, k)[x[2]] \in Phase
      BY <1>3, <3>2
    <3> QED BY <3>2, <3>3 DEF Phase, Sides
  <2> QED BY <2>1 DEF UnitsAt
<1>5. PhasesBefore(c, t, p) \subseteq PlacesOf(c)
  BY DEF PhasesBefore, PlacesOf
<1>6. IsFiniteSet(PlacesOf(c))
  <2> DEFINE S == {{k} \X DOMAIN Phases(c, k) : k \in DOMAIN plan[c]}
             f == [k \in DOMAIN plan[c] |-> {k} \X DOMAIN Phases(c, k)]
  <2>1. f \in Surjection(DOMAIN plan[c], S)
    BY DEF Surjection
  <2>2. IsFiniteSet(DOMAIN plan[c])
    <3>1. 1 \in Int /\ Len(plan[c]) \in Int
      BY <1>2
    <3>2. IsFiniteSet(1 .. Len(plan[c]))
      BY <3>1, FS_Interval
    <3> QED BY <1>2, <3>2, Zenon
  <2>3. IsFiniteSet(S)
    BY <2>1, <2>2, FS_Surjection
  <2>4. ASSUME NEW T \in S PROVE IsFiniteSet(T)
    <3>1. PICK k \in DOMAIN plan[c] : T = {k} \X DOMAIN Phases(c, k)
      OBVIOUS
    <3>2. IsFiniteSet({k}) /\ IsFiniteSet(DOMAIN Phases(c, k))
      <4>1. 1 \in Int /\ Len(Phases(c, k)) \in Int
        BY <1>3
      <4>2. IsFiniteSet(1 .. Len(Phases(c, k)))
        BY <4>1, FS_Interval
      <4>3. IsFiniteSet(DOMAIN Phases(c, k))
        BY <1>3, <4>2, Zenon
      <4> QED BY <4>3, FS_Singleton
    <3> QED BY <3>1, <3>2, FS_Product
  <2> QED BY <2>3, <2>4, FS_UNION DEF PlacesOf
<1>7. IsFiniteSet(PhasesBefore(c, t, p))
  BY <1>5, <1>6, FS_Subset
<1>8. {{x} \X (1 .. Phases(c, x[1])[x[2]][s]) : x \in PhasesBefore(c, t, p)}
        = {{x} \X (1 .. UnitsAt(c, s)[x]) : x \in PhasesBefore(c, t, p)}
  BY <1>5 DEF UnitsAt
<1>9. UnitsBefore(c, t, p, s) = Cardinality(Blocks(PhasesBefore(c, t, p), UnitsAt(c, s)))
  BY <1>8 DEF UnitsBefore, Blocks
<1> QED BY <1>4, <1>5, <1>7, <1>9

\* The units before a phase: none before the first, those of a phase more
\* before the next, and after its last phase a task gives way to the next.
LEMMA UnitsSteps ==
  ASSUME plan \in Plans, NEW c \in Channels, NEW s \in Sides
  PROVE  /\ UnitsBefore(c, 1, 1, s) = 0
         /\ \A t \in 1 .. Len(plan[c]) :
              /\ UnitsBefore(c, t + 1, 1, s) = UnitsBefore(c, t, Len(Phases(c, t)) + 1, s)
              /\ \A p \in 1 .. Len(Phases(c, t)) :
                   UnitsBefore(c, t, p + 1, s) = UnitsBefore(c, t, p, s) + Phases(c, t)[p][s]
         /\ \A t, p : UnitsBefore(c, t, p, s) \in Nat
<1>1. plan[c] \in Seq(Seq(Phase))
  BY TaskEdgesAssumption
<1>2. DOMAIN plan[c] = 1 .. Len(plan[c]) /\ Len(plan[c]) \in Nat
  BY <1>1
<1>3. \A k \in DOMAIN plan[c] : Phases(c, k) \in Seq(Phase) /\ Len(Phases(c, k)) \in Nat /\ DOMAIN Phases(c, k) = 1 .. Len(Phases(c, k))
  BY <1>1 DEF Phases
<1>4. \A t, p, x : x \in PhasesBefore(c, t, p) <=>
        \E k \in DOMAIN plan[c] : \E q \in DOMAIN Phases(c, k) : x = <<k, q>> /\ k \in 1 .. t /\ (k < t \/ q < p)
  BY DEF PhasesBefore
<1>5. UnitsBefore(c, 1, 1, s) = 0
  <2>1. PhasesBefore(c, 1, 1) = {}
    <3> SUFFICES ASSUME NEW k \in DOMAIN plan[c], NEW q \in DOMAIN Phases(c, k), k \in 1 .. 1, k < 1 \/ q < 1
                 PROVE  FALSE
      BY <1>4
    <3>1. q \in 1 .. Len(Phases(c, k)) /\ Len(Phases(c, k)) \in Nat
      BY <1>3
    <3> QED BY <3>1
  <2>2. Blocks({}, UnitsAt(c, s)) = {}
    BY DEF Blocks
  <2>3. UnitsBefore(c, 1, 1, s) = Cardinality(Blocks(PhasesBefore(c, 1, 1), UnitsAt(c, s)))
    BY UnitsAsBlocks
  <2> QED BY <2>1, <2>2, <2>3, FS_EmptySet, Zenon
<1>6. ASSUME NEW t \in 1 .. Len(plan[c])
      PROVE  UnitsBefore(c, t + 1, 1, s) = UnitsBefore(c, t, Len(Phases(c, t)) + 1, s)
  <2>1. t \in DOMAIN plan[c] /\ t \in Nat
    BY <1>2
  <2>2. PhasesBefore(c, t + 1, 1) = PhasesBefore(c, t, Len(Phases(c, t)) + 1)
    <3>1. ASSUME NEW k \in DOMAIN plan[c], NEW q \in DOMAIN Phases(c, k)
          PROVE  k \in 1 .. t + 1 /\ (k < t + 1 \/ q < 1) <=> k \in 1 .. t /\ (k < t \/ q < Len(Phases(c, t)) + 1)
      <4>1. q \in 1 .. Len(Phases(c, k)) /\ Len(Phases(c, k)) \in Nat /\ k \in Nat /\ k > 0 /\ Len(Phases(c, t)) \in Nat
        BY <1>2, <1>3, <2>1
      <4> QED BY <4>1, <2>1
    <3>2. \A x : x \in PhasesBefore(c, t + 1, 1) <=> x \in PhasesBefore(c, t, Len(Phases(c, t)) + 1)
      <4>1. \A x : x \in PhasesBefore(c, t + 1, 1) <=>
              \E k \in DOMAIN plan[c] : \E q \in DOMAIN Phases(c, k) : x = <<k, q>> /\ k \in 1 .. t + 1 /\ (k < t + 1 \/ q < 1)
        BY DEF PhasesBefore
      <4>2. \A x : x \in PhasesBefore(c, t, Len(Phases(c, t)) + 1) <=>
              \E k \in DOMAIN plan[c] : \E q \in DOMAIN Phases(c, k) :
                x = <<k, q>> /\ k \in 1 .. t /\ (k < t \/ q < Len(Phases(c, t)) + 1)
        BY DEF PhasesBefore
      <4> QED BY <3>1, <4>1, <4>2, Zenon
    <3> QED BY <3>2
  <2> QED BY <2>2, UnitsAsBlocks
<1>7. ASSUME NEW t \in 1 .. Len(plan[c]), NEW p \in 1 .. Len(Phases(c, t))
      PROVE  UnitsBefore(c, t, p + 1, s) = UnitsBefore(c, t, p, s) + Phases(c, t)[p][s]
  <2>1. t \in DOMAIN plan[c] /\ t \in Nat /\ p \in DOMAIN Phases(c, t) /\ p \in Nat
    BY <1>2, <1>3
  <2>2. PhasesBefore(c, t, p + 1) = PhasesBefore(c, t, p) \cup {<<t, p>>} /\ <<t, p>> \notin PhasesBefore(c, t, p)
    <3>1. ASSUME NEW k \in DOMAIN plan[c], NEW q \in DOMAIN Phases(c, k)
          PROVE  k \in 1 .. t /\ (k < t \/ q < p + 1) <=> (k \in 1 .. t /\ (k < t \/ q < p)) \/ (k = t /\ q = p)
      <4>1. q \in Nat /\ k \in Nat /\ k > 0
        BY <1>2, <1>3
      <4> QED BY <4>1, <2>1
    <3>2. ~(t < t) /\ ~(p < p)
      BY <2>1
    <3>3. <<t, p>> \notin PhasesBefore(c, t, p)
      BY <1>4, <3>2
    <3>4. \A x : x \in PhasesBefore(c, t, p + 1) <=> x \in PhasesBefore(c, t, p) \/ x = <<t, p>>
      BY <1>4, <2>1, <3>1
    <3> QED BY <3>3, <3>4
  <2>3. <<t, p>> \in PlacesOf(c) /\ UnitsAt(c, s)[<<t, p>>] = Phases(c, t)[p][s]
    BY <2>1 DEF PlacesOf, UnitsAt
  <2>4. /\ UnitsAt(c, s) \in [PlacesOf(c) -> Nat]
        /\ PhasesBefore(c, t, p) \subseteq PlacesOf(c) /\ IsFiniteSet(PhasesBefore(c, t, p))
    BY UnitsAsBlocks
  <2>5. Cardinality(Blocks(PhasesBefore(c, t, p) \cup {<<t, p>>}, UnitsAt(c, s)))
          = Cardinality(Blocks(PhasesBefore(c, t, p), UnitsAt(c, s))) + UnitsAt(c, s)[<<t, p>>]
    BY <2>2, <2>3, <2>4, BlocksAdd
  <2> QED BY <2>2, <2>3, <2>5, UnitsAsBlocks
<1>8. ASSUME NEW t, NEW p PROVE UnitsBefore(c, t, p, s) \in Nat
  <2>1. /\ UnitsAt(c, s) \in [PlacesOf(c) -> Nat]
        /\ PhasesBefore(c, t, p) \subseteq PlacesOf(c) /\ IsFiniteSet(PhasesBefore(c, t, p))
        /\ UnitsBefore(c, t, p, s) = Cardinality(Blocks(PhasesBefore(c, t, p), UnitsAt(c, s)))
    BY UnitsAsBlocks
  <2> QED BY <2>1, BlocksFinite
<1> QED BY <1>5, <1>6, <1>7, <1>8

\* Where the stream on side s of channel c must stand.
UpTo(c, s) ==
  UnitsBefore(c, task[c], phase[c], s) + PhaseUnits(c, task[c], phase[c])[s] - left[c][s]

\* Both streams stand there, and at nothing before the first task.
Standing(c) ==
  /\ sent[c] = (IF task[c] = 0 THEN 0 ELSE UpTo(c, "send"))
  /\ taken[c] = (IF task[c] = 0 THEN 0 ELSE UpTo(c, "recv"))
  /\ (task[c] > 0 => phase[c] \in 1 .. Len(Phases(c, task[c])) + 1)

AInv ==
  /\ DoneIdle
  /\ sent \in [Channels -> Nat]
  /\ (\A c \in Channels : Standing(c))

\* A channel whose streams, task and phase stay.
StaysPut(c) ==
  task'[c] = task[c] /\ phase'[c] = phase[c] /\ left'[c] = left[c] /\ sent'[c] = sent[c] /\ taken'[c] = taken[c]

\* The units before a phase are those of the plan, which never changes.
LEMMA UnitsStay ==
  ASSUME plan' = plan, NEW c, NEW t, NEW p, NEW s
  PROVE  /\ UnitsBefore(c, t, p, s)' = UnitsBefore(c, t, p, s)
         /\ PhaseUnits(c, t, p)' = PhaseUnits(c, t, p) /\ Phases(c, t)' = Phases(c, t)
BY DEF UnitsBefore, PhasesBefore, PhaseUnits, Phases

\* Such a channel stands where it stood.
LEMMA StandsStill ==
  ASSUME plan' = plan, NEW c \in Channels, StaysPut(c), Standing(c)
  PROVE  Standing(c)'
<1>1. PICK t : t = task[c]
  OBVIOUS
<1>2. PICK p : p = phase[c]
  OBVIOUS
<1>3. PICK l : l = left[c]
  OBVIOUS
<1>4. t = task'[c] /\ p = phase'[c] /\ l = left'[c] /\ sent'[c] = sent[c] /\ taken'[c] = taken[c]
  BY <1>1, <1>2, <1>3 DEF StaysPut
<1>5. \A s : UpTo(c, s)' = UpTo(c, s)
  <2> TAKE s
  <2>1. UnitsBefore(c, t, p, s)' = UnitsBefore(c, t, p, s) /\ PhaseUnits(c, t, p)' = PhaseUnits(c, t, p)
    BY UnitsStay
  <2>2. UpTo(c, s) = UnitsBefore(c, t, p, s) + PhaseUnits(c, t, p)[s] - l[s]
    BY <1>1, <1>2, <1>3 DEF UpTo
  <2>3. UpTo(c, s)' = UnitsBefore(c, t, p, s)' + PhaseUnits(c, t, p)'[s] - l[s]
    BY <1>4 DEF UpTo
  <2> QED BY <2>1, <2>2, <2>3
<1>6. Phases(c, t)' = Phases(c, t)
  BY UnitsStay
<1>7. (task[c] > 0 => phase[c] \in 1 .. Len(Phases(c, task[c])) + 1)' <=> (task[c] > 0 => phase[c] \in 1 .. Len(Phases(c, task[c])) + 1)
  BY <1>1, <1>2, <1>4, <1>6
<1> QED BY <1>1, <1>4, <1>5, <1>7, Zenon DEF Standing

\* The terms of UpTo are naturals.
LEMMA UpToTerms ==
  ASSUME plan \in Plans, NEW c \in Channels, NEW t \in 1 .. Len(plan[c]), NEW p \in Nat \ {0}, NEW s \in Sides
  PROVE  /\ UnitsBefore(c, t, p, s) \in Nat /\ PhaseUnits(c, t, p)[s] \in Nat
         /\ (p > Len(Phases(c, t)) => PhaseUnits(c, t, p)[s] = 0)
         /\ (p <= Len(Phases(c, t)) => PhaseUnits(c, t, p)[s] = Phases(c, t)[p][s])
         /\ Len(Phases(c, t)) \in Nat
<1>1. UnitsBefore(c, t, p, s) \in Nat
  BY UnitsSteps
<1>2. /\ PhaseUnits(c, t, p) \in [Sides -> Nat]
      /\ (p > Len(Phases(c, t)) => \A r \in Sides : PhaseUnits(c, t, p)[r] = 0)
      /\ Phases(c, t) \in Seq(Phase)
  BY PhaseUnitsType
<1>3. Len(Phases(c, t)) \in Nat
  BY <1>2
<1>4. p <= Len(Phases(c, t)) => PhaseUnits(c, t, p)[s] = Phases(c, t)[p][s]
  BY <1>3 DEF PhaseUnits
<1> QED BY <1>1, <1>2, <1>3, <1>4

\* The task of a channel that has begun is one of the plan.
LEMMA TaskOfPlan ==
  ASSUME EdgesOK, NEW c \in Channels, task[c] > 0
  PROVE  task[c] \in 1 .. Len(plan[c]) /\ Len(plan[c]) \in Nat
<1>1. plan[c] \in Seq(Seq(Phase))
  BY TaskEdgesAssumption DEF EdgesOK
<1> QED BY <1>1 DEF EdgesOK

\* TrySend and TryRecv: what leaves the phase enters the stream.
LEMMA PushStands ==
  ASSUME EdgesOK, AInv, NEW c \in Channels, task[c] > 0, TrySend(c) \/ TryRecv(c), UNCHANGED <<plan, task, phase, arrived>>
  PROVE  Standing(c)' /\ sent' \in [Channels -> Nat] /\ \A d \in Channels \ {c} : Standing(d)'
<1>1. PICK t \in 1 .. Len(plan[c]) : t = task[c]
  BY TaskOfPlan
<1>2. Standing(c) /\ sent \in [Channels -> Nat]
  BY DEF AInv
<1>3. PICK p \in Nat \ {0} : p = phase[c]
  <2>1. phase[c] \in Nat /\ phase[c] > 0
    BY <1>2 DEF EdgesOK, Standing
  <2> QED BY <2>1
<1>4. /\ sent[c] = UnitsBefore(c, t, p, "send") + PhaseUnits(c, t, p)["send"] - left[c]["send"]
      /\ taken[c] = UnitsBefore(c, t, p, "recv") + PhaseUnits(c, t, p)["recv"] - left[c]["recv"]
      /\ p \in 1 .. Len(Phases(c, t)) + 1
  BY <1>1, <1>2, <1>3 DEF Standing, UpTo
<1>5. /\ left[c] \in [Sides -> Nat] /\ left[c]["send"] \in Nat /\ left[c]["recv"] \in Nat
      /\ sent[c] \in Nat /\ taken[c] \in Nat
  BY <1>2 DEF EdgesOK, Sides
<1>6. /\ UnitsBefore(c, t, p, "send") \in Nat /\ PhaseUnits(c, t, p)["send"] \in Nat
      /\ UnitsBefore(c, t, p, "recv") \in Nat /\ PhaseUnits(c, t, p)["recv"] \in Nat
  BY UpToTerms DEF EdgesOK, Sides
<1>7. PICK n, m : /\ n \in Nat /\ m \in Nat /\ n <= left[c]["send"] /\ m <= left[c]["recv"]
                  /\ left' = [left EXCEPT ![c] = [s \in Sides |-> IF s = "send" THEN left[c]["send"] - n ELSE left[c]["recv"] - m]]
                  /\ sent' = [sent EXCEPT ![c] = sent[c] + n]
                  /\ taken' = [taken EXCEPT ![c] = taken[c] + m]
  <2>1. CASE TrySend(c)
    <3>1. PICK n : n = Moved(SndCap - snd[c], left[c]["send"])
      OBVIOUS
    <3>2. SndCap - snd[c] \in Nat
      BY TaskEdgesAssumption DEF EdgesOK
    <3>3. n \in Nat /\ n <= left[c]["send"]
      BY <1>5, <3>1, <3>2, MovedFacts
    <3>4. /\ left' = [left EXCEPT ![c]["send"] = @ - n] /\ sent' = [sent EXCEPT ![c] = @ + n] /\ taken' = taken
      BY <2>1, <3>1 DEF TrySend
    <3>5. [left[c] EXCEPT !["send"] = left[c]["send"] - n]
            = [s \in Sides |-> IF s = "send" THEN left[c]["send"] - n ELSE left[c]["recv"] - 0]
      BY <1>5 DEF Sides
    <3>6. left' = [left EXCEPT ![c] = [left[c] EXCEPT !["send"] = left[c]["send"] - n]]
      BY <3>4 DEF EdgesOK
    <3>7. taken' = [taken EXCEPT ![c] = taken[c] + 0]
      BY <1>5, <3>4 DEF EdgesOK
    <3>8. sent' = [sent EXCEPT ![c] = sent[c] + n]
      BY <1>2, <3>4
    <3>9. 0 \in Nat /\ 0 <= left[c]["recv"]
      BY <1>5
    <3> QED BY <3>3, <3>5, <3>6, <3>7, <3>8, <3>9
  <2>2. CASE TryRecv(c)
    <3>1. PICK m : m = Moved(arrived[c] - taken[c], left[c]["recv"])
      OBVIOUS
    <3>2. arrived[c] - taken[c] \in Nat
      BY TaskEdgesAssumption DEF EdgesOK
    <3>3. m \in Nat /\ m <= left[c]["recv"]
      BY <1>5, <3>1, <3>2, MovedFacts
    <3>4. /\ left' = [left EXCEPT ![c]["recv"] = @ - m] /\ taken' = [taken EXCEPT ![c] = @ + m] /\ sent' = sent
      BY <2>2, <3>1 DEF TryRecv
    <3>5. [left[c] EXCEPT !["recv"] = left[c]["recv"] - m]
            = [s \in Sides |-> IF s = "send" THEN left[c]["send"] - 0 ELSE left[c]["recv"] - m]
      BY <1>5 DEF Sides
    <3>6. left' = [left EXCEPT ![c] = [left[c] EXCEPT !["recv"] = left[c]["recv"] - m]]
      BY <3>4 DEF EdgesOK
    <3>7. sent' = [sent EXCEPT ![c] = sent[c] + 0]
      BY <1>2, <1>5, <3>4
    <3>8. taken' = [taken EXCEPT ![c] = taken[c] + m]
      BY <3>4 DEF EdgesOK
    <3>9. 0 \in Nat /\ 0 <= left[c]["send"]
      BY <1>5
    <3> QED BY <3>3, <3>5, <3>6, <3>7, <3>8, <3>9
  <2> QED BY <2>1, <2>2
<1>8. /\ left'[c]["send"] = left[c]["send"] - n /\ left'[c]["recv"] = left[c]["recv"] - m
      /\ sent'[c] = sent[c] + n /\ taken'[c] = taken[c] + m /\ sent' \in [Channels -> Nat]
      /\ (\A d \in Channels \ {c} : left'[d] = left[d] /\ sent'[d] = sent[d] /\ taken'[d] = taken[d])
  <2>1. sent[c] + n \in Nat
    BY <1>5, <1>7
  <2> QED BY <1>2, <1>7, <2>1 DEF EdgesOK, Sides
<1>9. Standing(c)'
  <2>1. /\ UnitsBefore(c, t, p, "send")' = UnitsBefore(c, t, p, "send") /\ PhaseUnits(c, t, p)' = PhaseUnits(c, t, p)
        /\ UnitsBefore(c, t, p, "recv")' = UnitsBefore(c, t, p, "recv") /\ Phases(c, t)' = Phases(c, t)
    BY UnitsStay
  <2>2. t = task'[c] /\ p = phase'[c] /\ t > 0
    BY <1>1, <1>3
  <2>3. UpTo(c, "send")' = UnitsBefore(c, t, p, "send") + PhaseUnits(c, t, p)["send"] - (left[c]["send"] - n)
    BY <1>8, <2>1, <2>2 DEF UpTo
  <2>4. UpTo(c, "recv")' = UnitsBefore(c, t, p, "recv") + PhaseUnits(c, t, p)["recv"] - (left[c]["recv"] - m)
    BY <1>8, <2>1, <2>2 DEF UpTo
  <2>5. sent'[c] = UpTo(c, "send")' /\ taken'[c] = UpTo(c, "recv")'
    <3>1. UpTo(c, "send")' = (UnitsBefore(c, t, p, "send") + PhaseUnits(c, t, p)["send"] - left[c]["send"]) + n
      <4>1. PICK b \in Nat : b = UnitsBefore(c, t, p, "send")
        BY <1>6
      <4>2. PICK u \in Nat : u = PhaseUnits(c, t, p)["send"]
        BY <1>6
      <4>3. PICK l \in Nat : l = left[c]["send"]
        BY <1>5
      <4>4. b + u - (l - n) = (b + u - l) + n
        BY <1>7
      <4> QED BY <2>3, <4>1, <4>2, <4>3, <4>4
    <3>2. UpTo(c, "recv")' = (UnitsBefore(c, t, p, "recv") + PhaseUnits(c, t, p)["recv"] - left[c]["recv"]) + m
      <4>1. PICK b \in Nat : b = UnitsBefore(c, t, p, "recv")
        BY <1>6
      <4>2. PICK u \in Nat : u = PhaseUnits(c, t, p)["recv"]
        BY <1>6
      <4>3. PICK l \in Nat : l = left[c]["recv"]
        BY <1>5
      <4>4. b + u - (l - m) = (b + u - l) + m
        BY <1>7
      <4> QED BY <2>4, <4>1, <4>2, <4>3, <4>4
    <3> QED BY <1>4, <1>8, <3>1, <3>2, Zenon
  <2>6. task'[c] # 0 /\ phase'[c] \in 1 .. Len(Phases(c, task[c])')+ 1
    BY <1>1, <1>4, <2>1, <2>2
  <2> QED BY <2>1, <2>2, <2>5, <2>6, <1>4 DEF Standing
<1>10. ASSUME NEW d \in Channels \ {c} PROVE Standing(d)'
  <2>1. StaysPut(d) /\ Standing(d)
    BY <1>8 DEF StaysPut, AInv
  <2> QED BY <2>1, StandsStill
<1> QED BY <1>8, <1>9, <1>10

\* A phase that is over gives way to the next with both streams at its start.
LEMMA NextPhaseStands ==
  ASSUME EdgesOK, AInv, NEW th \in Threads, NextPhase(th)
  PROVE  \A d \in Channels : Standing(d)'
<1>0. call[th].slot \in Channels /\ task[call[th].slot] > 0
  BY InCallType DEF NextPhase
<1>1. PICK c \in Channels : c = call[th].slot
  BY <1>0
<1>2. PICK t \in 1 .. Len(plan[c]) : t = task[c]
  BY <1>0, <1>1, TaskOfPlan
<1>3. Standing(c)
  BY DEF AInv
<1>4. PICK p \in Nat \ {0} : p = phase[c]
  <2>1. phase[c] \in Nat /\ phase[c] > 0
    BY <1>0, <1>1, <1>3 DEF EdgesOK, Standing
  <2> QED BY <2>1
<1>5. /\ ~TaskDone(c) /\ (\A s \in Sides : left[c][s] = 0)
      /\ phase' = [phase EXCEPT ![c] = p + 1] /\ left' = [left EXCEPT ![c] = PhaseUnits(c, t, p + 1)]
      /\ UNCHANGED <<plan, task, sent, taken>>
  BY <1>1, <1>2, <1>4 DEF NextPhase, PhaseOver
<1>6. /\ phase'[c] = p + 1 /\ left'[c] = PhaseUnits(c, t, p + 1)
      /\ (\A d \in Channels \ {c} : phase'[d] = phase[d] /\ left'[d] = left[d])
  BY <1>5 DEF EdgesOK
<1>7. p \in 1 .. Len(Phases(c, t))
  <2>1. p \in 1 .. Len(Phases(c, t)) + 1
    BY <1>0, <1>1, <1>2, <1>3, <1>4 DEF Standing
  <2>2. ~(p > Len(Phases(c, t)))
    BY <1>2, <1>4, <1>5 DEF TaskDone
  <2>3. Len(Phases(c, t)) \in Nat
    BY UpToTerms DEF EdgesOK, Sides
  <2> QED BY <2>1, <2>2, <2>3
<1>8. p + 1 \in Nat \ {0} /\ p + 1 \in 1 .. Len(Phases(c, t)) + 1
  <2>1. Len(Phases(c, t)) \in Nat
    BY UpToTerms DEF EdgesOK, Sides
  <2> QED BY <1>7, <2>1
<1>9. ASSUME NEW s \in Sides PROVE UpTo(c, s)' = UpTo(c, s)
  <2>1. /\ UnitsBefore(c, t, p, s) \in Nat /\ PhaseUnits(c, t, p)[s] = Phases(c, t)[p][s] /\ PhaseUnits(c, t, p)[s] \in Nat
    BY <1>7, UpToTerms DEF EdgesOK
  <2>2. UnitsBefore(c, t, p + 1, s) \in Nat /\ PhaseUnits(c, t, p + 1)[s] \in Nat
    BY <1>8, UpToTerms DEF EdgesOK
  <2>3. UnitsBefore(c, t, p + 1, s) = UnitsBefore(c, t, p, s) + Phases(c, t)[p][s]
    BY <1>7, UnitsSteps DEF EdgesOK
  <2>4. UpTo(c, s) = UnitsBefore(c, t, p, s) + PhaseUnits(c, t, p)[s] - 0
    BY <1>2, <1>4, <1>5 DEF UpTo
  <2>5. UnitsBefore(c, t, p + 1, s)' = UnitsBefore(c, t, p + 1, s) /\ PhaseUnits(c, t, p + 1)' = PhaseUnits(c, t, p + 1)
    BY <1>5, UnitsStay
  <2>6. t = task'[c]
    BY <1>2, <1>5
  <2>7. UpTo(c, s)' = UnitsBefore(c, t, p + 1, s)' + PhaseUnits(c, t, p + 1)'[s] - PhaseUnits(c, t, p + 1)[s]
    BY <1>6, <2>6 DEF UpTo
  <2> QED BY <2>1, <2>2, <2>3, <2>4, <2>5, <2>7
<1>10. Standing(c)'
  <2>1. sent'[c] = UpTo(c, "send")' /\ taken'[c] = UpTo(c, "recv")' /\ task'[c] # 0
    BY <1>0, <1>1, <1>3, <1>5, <1>9 DEF Standing, Sides
  <2>2. Phases(c, t)' = Phases(c, t)
    BY <1>5, UnitsStay
  <2>3. t = task'[c]
    BY <1>2, <1>5
  <2> QED BY <1>6, <1>8, <2>1, <2>2, <2>3 DEF Standing
<1>11. ASSUME NEW d \in Channels \ {c} PROVE Standing(d)'
  <2>1. StaysPut(d) /\ Standing(d)
    BY <1>5, <1>6 DEF StaysPut, AInv
  <2> QED BY <2>1, <1>5, StandsStill
<1> QED BY <1>10, <1>11

\* A step of the Topology moves the streams with the phase and its units.
LEMMA TopologyStands ==
  ASSUME EdgesOK, AInv, NEW th \in Threads, Topology(th)
  PROVE  AInv'
<1>1. Moves(th)
  BY TopologyMoves
<1>2. DoneIdle'
  BY <1>1 DEF Moves, AInv
<1>3. CASE UNCHANGED <<plan, task, phase, moveVars>>
  <2>1. sent' = sent /\ (\A c \in Channels : StaysPut(c))
    BY <1>3 DEF moveVars, StaysPut
  <2>2. \A c \in Channels : Standing(c)'
    BY <1>3, <2>1, StandsStill DEF AInv
  <2> QED BY <1>2, <2>1, <2>2 DEF AInv
<1>4. CASE PushBuffer(th)
  <2>1. InCall(th, "running") /\ UNCHANGED <<plan, task, phase, arrived>>
    BY <1>4 DEF PushBuffer
  <2>2. PICK c \in Channels : c = call[th].slot /\ task[c] > 0
    BY <2>1, InCallType
  <2>3. UNCHANGED moveVars \/ TrySend(c) \/ TryRecv(c)
    BY <1>4, <2>2 DEF PushBuffer
  <2>4. CASE UNCHANGED moveVars
    BY <1>3, <2>1, <2>4
  <2>5. CASE TrySend(c) \/ TryRecv(c)
    <3>1. Standing(c)' /\ sent' \in [Channels -> Nat] /\ \A d \in Channels \ {c} : Standing(d)'
      BY <2>1, <2>2, <2>5, PushStands
    <3> QED BY <1>2, <3>1 DEF AInv
  <2> QED BY <2>3, <2>4, <2>5
<1>5. CASE NextPhase(th)
  <2>1. \A d \in Channels : Standing(d)'
    BY <1>5, NextPhaseStands
  <2>2. sent' = sent
    BY <1>5 DEF NextPhase
  <2> QED BY <1>2, <2>1, <2>2 DEF AInv
<1>6. CASE PushFails(th) \/ NextStep(th) \/ CallReturns(th)
  BY <1>3, <1>6 DEF PushFails, NextStep, CallReturns
<1> QED BY <1>4, <1>5, <1>6 DEF Topology

\* CollectiveInit of the next task of a channel whose last one is over.
Begins(th, c) ==
  /\ task[c] < Len(plan[c]) /\ Over(c)
  /\ CallInit(th, c, task[c] + 1)
  /\ UNCHANGED <<plan, snd, sent, arrived, taken, nospace, reg, ready>>

\* The new task takes the streams over where the last one left them.
LEMMA BeginStands ==
  ASSUME EdgesOK, AInv, NEW th \in Threads, NEW c \in Channels, Begins(th, c)
  PROVE  AInv'
<1>1. Len(plan[c]) \in Nat /\ task[c] \in Nat
  <2>1. plan[c] \in Seq(Seq(Phase))
    BY TaskEdgesAssumption DEF EdgesOK
  <2> QED BY <2>1 DEF EdgesOK
<1>2. PICK t \in 1 .. Len(plan[c]) : t = task[c] + 1
  BY <1>1 DEF Begins
<1>3. /\ CallInit(th, c, t) /\ UNCHANGED <<plan, snd, arrived, taken, nospace, reg, ready>> /\ sent' = sent
  BY <1>2 DEF Begins
<1>4. /\ task' = [task EXCEPT ![c] = t] /\ (\A d \in Channels \ {c} : phase'[d] = phase[d] /\ left'[d] = left[d])
      /\ DoneIdle'
  BY <1>3, InitCall DEF AInv
<1>5. task'[c] = t /\ phase'[c] = 1 /\ left'[c] = PhaseUnits(c, t, 1) /\ (\A d \in Channels \ {c} : task'[d] = task[d])
  BY <1>3, <1>4 DEF CallInit, EdgesOK
<1>6. Standing(c)
  BY DEF AInv
<1>7. ASSUME NEW s \in Sides PROVE UpTo(c, s)' = UnitsBefore(c, t, 1, s)
  <2>1. UnitsBefore(c, t, 1, s) \in Nat /\ PhaseUnits(c, t, 1)[s] \in Nat
    <3>1. 1 \in Nat \ {0}
      OBVIOUS
    <3> QED BY <3>1, UpToTerms DEF EdgesOK
  <2>2. UnitsBefore(c, t, 1, s)' = UnitsBefore(c, t, 1, s) /\ PhaseUnits(c, t, 1)' = PhaseUnits(c, t, 1)
    BY <1>3, UnitsStay
  <2>3. UpTo(c, s)' = UnitsBefore(c, t, 1, s)' + PhaseUnits(c, t, 1)'[s] - PhaseUnits(c, t, 1)[s]
    BY <1>5 DEF UpTo
  <2> QED BY <2>1, <2>2, <2>3
<1>8. ASSUME NEW s \in Sides
      PROVE  (IF task[c] = 0 THEN 0 ELSE UpTo(c, s)) = UnitsBefore(c, t, 1, s)
  <2>1. CASE task[c] = 0
    <3>1. t = 1
      BY <1>2, <2>1
    <3> QED BY <2>1, <3>1, UnitsSteps DEF EdgesOK
  <2>2. CASE task[c] # 0
    <3>1. task[c] > 0
      BY <1>1, <2>2
    <3>2. PICK k \in 1 .. Len(plan[c]) : k = task[c]
      BY <3>1, TaskOfPlan
    <3>3. PICK p \in Nat \ {0} : p = phase[c]
      <4>1. phase[c] \in Nat /\ phase[c] > 0
        BY <1>6, <3>1 DEF EdgesOK, Standing
      <4> QED BY <4>1
    <3>4. /\ UnitsBefore(c, k, p, s) \in Nat /\ Len(Phases(c, k)) \in Nat
          /\ (p > Len(Phases(c, k)) => PhaseUnits(c, k, p)[s] = 0)
      BY UpToTerms DEF EdgesOK
    <3>5. p > Len(Phases(c, k)) /\ left[c][s] = 0
      BY <3>1, <3>2, <3>3 DEF Begins, Over, TaskDone, AInv, DoneIdle
    <3>6. p \in 1 .. Len(Phases(c, k)) + 1
      BY <1>6, <3>1, <3>2, <3>3 DEF Standing
    <3>7. p = Len(Phases(c, k)) + 1 /\ t = k + 1
      BY <1>2, <3>2, <3>4, <3>5, <3>6
    <3>8. UnitsBefore(c, t, 1, s) = UnitsBefore(c, k, p, s)
      BY <3>7, UnitsSteps DEF EdgesOK
    <3>9. UpTo(c, s) = UnitsBefore(c, k, p, s) + 0 - 0
      BY <3>2, <3>3, <3>4, <3>5 DEF UpTo
    <3> QED BY <2>2, <3>4, <3>8, <3>9
  <2> QED BY <2>1, <2>2
<1>9. Standing(c)'
  <2>1. "send" \in Sides /\ "recv" \in Sides
    BY DEF Sides
  <2>2. sent'[c] = UpTo(c, "send")' /\ taken'[c] = UpTo(c, "recv")'
    BY <1>3, <1>6, <1>7, <1>8, <2>1 DEF Standing
  <2>3. task'[c] # 0 /\ phase'[c] \in 1 .. Len(Phases(c, t)') + 1
    <3>1. Len(Phases(c, t)) \in Nat /\ Phases(c, t)' = Phases(c, t)
      <4>1. 1 \in Nat \ {0}
        OBVIOUS
      <4> QED BY <1>3, <2>1, <4>1, UpToTerms, UnitsStay DEF EdgesOK
    <3> QED BY <1>5, <3>1
  <2> QED BY <1>5, <2>2, <2>3 DEF Standing
<1>10. ASSUME NEW d \in Channels \ {c} PROVE Standing(d)'
  <2>1. StaysPut(d) /\ Standing(d)
    BY <1>3, <1>4, <1>5 DEF StaysPut, AInv
  <2> QED BY <2>1, <1>3, StandsStill
<1> QED BY <1>3, <1>4, <1>9, <1>10 DEF AInv

\* What a step may do to the streams.
StreamStep ==
  \/ UNCHANGED <<plan, task, phase, left, sent, taken>>
  \/ \E th \in Threads : Topology(th) \/ \E c \in Channels : Begins(th, c)

\* All of it keeps the streams with their tasks.
LEMMA StreamsStand ==
  ASSUME EdgesOK, AInv, StreamStep
  PROVE  AInv'
<1>1. CASE UNCHANGED <<plan, task, phase, left, sent, taken>>
  <2>1. DoneIdle'
    BY <1>1 DEF AInv, DoneIdle, TaskDone, Phases
  <2>2. \A c \in Channels : Standing(c)'
    <3>1. \A c \in Channels : StaysPut(c) /\ Standing(c)
      BY <1>1 DEF StaysPut, AInv
    <3> QED BY <1>1, <3>1, StandsStill
  <2> QED BY <1>1, <2>1, <2>2 DEF AInv
<1>2. CASE \E th \in Threads : Topology(th) \/ \E c \in Channels : Begins(th, c)
  BY <1>2, TopologyStands, BeginStands
<1> QED BY <1>1, <1>2 DEF StreamStep

\* EpollExecutor begins a task only from start, when the last one is over.
LEMMA EpollStreams ==
  ASSUME EpollInv, Epoll!Run
  PROVE  StreamStep
<1> DEFINE Quiet == UNCHANGED <<plan, task, phase, left, sent, taken>>
<1>1. CASE Epoll!Topology(Main)
  BY <1>1, ExecutorsAssumption, EpollTopology DEF StreamStep
<1>2. CASE Epoll!StartInit
  <2>1. /\ pc = "start" /\ task[slot] < Len(plan[slot]) /\ CallInit(Main, slot, task[slot] + 1)
        /\ UNCHANGED <<plan, snd, sent, arrived, taken, nospace, reg, ready>>
    BY <1>2 DEF Epoll!StartInit, Epoll!CallInit, CallInit, Epoll!PhaseUnits, PhaseUnits, Epoll!BeginPhase, BeginPhase,
                Epoll!Phases, Phases, Epoll!BothSides, BothSides, Epoll!Sides, Sides
  <2>2. slot \in Channels /\ Over(slot)
    BY <2>1 DEF EpollInv, RunOK, EpollProgress
  <2> QED BY <2>1, <2>2, ExecutorsAssumption DEF Begins, StreamStep
<1>3. CASE Epoll!StartNone \/ Epoll!Return
  <2>1. Quiet
    BY <1>3 DEF Epoll!StartNone, Epoll!Return, Epoll!edgeVars
  <2> QED BY <2>1 DEF StreamStep
<1>4. CASE Epoll!InitFails \/ Epoll!InitSkips \/ Epoll!StepFails \/ Epoll!StepWaits \/ Epoll!StepDone
  <2>1. Quiet
    BY <1>4 DEF Epoll!InitFails, Epoll!InitSkips, Epoll!StepFails, Epoll!StepWaits, Epoll!StepDone, Epoll!moveVars
  <2> QED BY <2>1 DEF StreamStep
<1>5. CASE Epoll!InitRegisters \/ Epoll!Wait
  <2>1. Quiet
    BY <1>5 DEF Epoll!InitRegisters, Epoll!Wait
  <2> QED BY <2>1 DEF StreamStep
<1>6. CASE Epoll!Handle
  <2>1. Quiet
    BY <1>6 DEF Epoll!Handle, Epoll!CallSteps
  <2> QED BY <2>1 DEF StreamStep
<1> QED BY <1>1, <1>2, <1>3, <1>4, <1>5, <1>6 DEF Epoll!Run

\* PollingExecutor begins a channel's first task in its first loop, and
\* another when the last one retires.
LEMMA PollingStreams ==
  ASSUME PollingInv, Polling!Run
  PROVE  StreamStep
<1> DEFINE Quiet == UNCHANGED <<plan, task, phase, left, sent, taken>>
<1>1. CASE Polling!Topology(Main)
  BY <1>1, ExecutorsAssumption, PollingTopology DEF StreamStep
<1>2. CASE Polling!BootStart
  <2>1. /\ pc = "boot" /\ plan[slot] # << >> /\ CallInit(Main, slot, 1)
        /\ UNCHANGED <<plan, snd, sent, arrived, taken, nospace, reg, ready>>
    BY <1>2 DEF Polling!BootStart, Polling!StartFrontTask, Polling!CallInit, CallInit, Polling!PhaseUnits, PhaseUnits,
                Polling!BeginPhase, BeginPhase, Polling!Phases, Phases, Polling!BothSides, BothSides, Polling!Sides, Sides
  <2>2. slot \in Channels /\ task[slot] = 0
    BY <2>1 DEF PollingInv, RunOK, PollingTypes, PollingProgress
  <2>3. plan[slot] \in Seq(Seq(Phase))
    BY <2>2, TaskEdgesAssumption DEF PollingInv, EdgesOK
  <2>4. 0 < Len(plan[slot]) /\ ~(0 > 0) /\ 0 + 1 = 1
    BY <2>1, <2>3
  <2>5. Begins(Main, slot)
    BY <2>1, <2>2, <2>4 DEF Begins, Over
  <2> QED BY <2>2, <2>5, ExecutorsAssumption DEF StreamStep
<1>3. CASE Polling!StepNext
  <2>1. /\ Polling!TaskDone(slot) /\ task[slot] < Len(plan[slot]) /\ CallInit(Main, slot, task[slot] + 1)
        /\ UNCHANGED <<plan, snd, sent, arrived, taken, nospace, reg, ready>>
    BY <1>3 DEF Polling!StepNext, Polling!Retires, Polling!StartFrontTask, Polling!CallInit, CallInit, Polling!PhaseUnits,
                PhaseUnits, Polling!BeginPhase, BeginPhase, Polling!Phases, Phases, Polling!BothSides, BothSides, Polling!Sides, Sides
  <2>2. slot \in Channels /\ Over(slot)
    BY <2>1 DEF PollingInv, RunOK, Over, TaskDone, Polling!TaskDone, Phases, Polling!Phases
  <2> QED BY <2>1, <2>2, ExecutorsAssumption DEF Begins, StreamStep
<1>4. CASE Polling!BootNone \/ Polling!TurnNone
  <2>1. Quiet
    BY <1>4 DEF Polling!BootNone, Polling!TurnNone, Polling!edgeVars
  <2> QED BY <2>1 DEF StreamStep
<1>5. CASE Polling!InitReturns \/ Polling!CallFails \/ Polling!StepWaits \/ Polling!StepLast
  <2>1. Quiet
    BY <1>5 DEF Polling!InitReturns, Polling!CallFails, Polling!StepWaits, Polling!StepLast, Polling!moveVars
  <2> QED BY <2>1 DEF StreamStep
<1>6. CASE Polling!Turn
  <2>1. Quiet
    BY <1>6 DEF Polling!Turn, Polling!CallSteps
  <2> QED BY <2>1 DEF StreamStep
<1> QED BY <1>1, <1>2, <1>3, <1>4, <1>5, <1>6 DEF Polling!Run

\* A worker of ReactorExecutor begins a task only from an init job, which is
\* queued when the last task is over.
LEMMA ReactorStreams ==
  ASSUME ReactorInv, Reactor!Reactor \/ \E w \in Threads : Reactor!WorkerLoop(w)
  PROVE  StreamStep
<1> DEFINE Quiet == UNCHANGED <<plan, task, phase, left, sent, taken>>
<1>1. CASE Reactor!Reactor
  <2>1. CASE Reactor!Boot \/ Reactor!TakeCompletions \/ Reactor!Join \/ Reactor!Done \/ Reactor!Processed \/ Reactor!Return
    <3>1. Quiet
      BY <2>1 DEF Reactor!Boot, Reactor!TakeCompletions, Reactor!DrainNotify, Reactor!Swap, Reactor!Join, Reactor!Done,
                  Reactor!Processed, Reactor!Return, Reactor!edgeVars
    <3> QED BY <3>1 DEF StreamStep
  <2>2. CASE Reactor!Failed
    <3>1. Quiet
      BY <2>2 DEF Reactor!Failed, Reactor!moveVars
    <3> QED BY <3>1 DEF StreamStep
  <2>3. CASE Reactor!Wait \/ Reactor!Waiting
    <3>1. Quiet
      BY <2>3 DEF Reactor!Wait, Reactor!Waiting
    <3> QED BY <3>1 DEF StreamStep
  <2> QED BY <1>1, <2>1, <2>2, <2>3 DEF Reactor!Reactor
<1>2. ASSUME NEW w \in Threads, Reactor!WorkerLoop(w) PROVE StreamStep
  <2>1. CASE Reactor!Topology(w)
    BY <2>1, ReactorTopology DEF StreamStep
  <2>2. CASE Reactor!Notify(w) \/ Reactor!Leave(w)
    <3>1. Quiet
      BY <2>2 DEF Reactor!Notify, Reactor!Leave, Reactor!edgeVars
    <3> QED BY <3>1 DEF StreamStep
  <2>3. CASE Reactor!PushCompletion(w)
    <3>1. Quiet
      BY <2>3 DEF Reactor!PushCompletion, Reactor!moveVars
    <3> QED BY <3>1 DEF StreamStep
  <2>4. CASE Reactor!TakeWork(w)
    <3>1. /\ ~stop /\ queue # << >>
          /\ \/ Head(queue).init /\ CallInit(w, Head(queue).slot, current[Head(queue).slot])
             \/ ~Head(queue).init /\ UNCHANGED <<task, phase, left>>
          /\ UNCHANGED <<plan, snd, sent, arrived, taken, nospace, reg, ready>>
      BY <2>4 DEF Reactor!TakeWork, Reactor!CallInit, CallInit, Reactor!CallSteps, Reactor!PhaseUnits, PhaseUnits,
                  Reactor!BeginPhase, BeginPhase, Reactor!Phases, Phases, Reactor!BothSides, BothSides, Reactor!Sides, Sides
    <3>2. CASE Head(queue).init
      <4>1. Live
        BY <3>1 DEF ReactorInv, ReactorGone, ReactorExit, Live
      <4>2. queue \in Seq(Reactor!Job) /\ NoTwice(queue)
        BY <4>1 DEF ReactorInv, ReactorTypes, ReactorOwned
      <4>3. Head(queue) \in Reactor!Job /\ Head(queue).slot \in Inits(queue) /\ Head(queue).slot \in Slots(queue)
        BY <3>1, <3>2, <4>2, QueueTail
      <4>4. PICK c \in Channels : c = Head(queue).slot
        BY <4>3, JobTypes
      <4>5. current[c] = task[c] + 1 /\ Over(c)
        BY <4>1, <4>3, <4>4 DEF ReactorInv, ReactorProgress
      <4>6. task[c] < Len(plan[c])
        <5>1. plan[c] \in Seq(Seq(Phase)) /\ task[c] \in Nat /\ current[c] <= Len(plan[c])
          BY TaskEdgesAssumption DEF ReactorInv, ReactorTypes, EdgesOK
        <5> QED BY <4>5, <5>1
      <4>7. Begins(w, c)
        BY <3>1, <3>2, <4>4, <4>5, <4>6 DEF Begins
      <4> QED BY <4>7 DEF StreamStep
    <3>3. CASE ~Head(queue).init
      BY <3>1, <3>3 DEF StreamStep
    <3> QED BY <3>2, <3>3
  <2> QED BY <1>2, <2>1, <2>2, <2>3, <2>4 DEF Reactor!WorkerLoop
<1> QED BY <1>1, <1>2

\* At first nothing has been sent or read.
LEMMA StreamsBegin ==
  ASSUME Init
  PROVE  AInv
<1>1. EdgesInit
  BY DEF Init, EpollInit, PollingInit, ReactorInit, Epoll!Init, Polling!Init, Reactor!Init, EdgesInit,
         Epoll!EdgesInit, Polling!EdgesInit, Reactor!EdgesInit, Epoll!Channels, Polling!Channels, Reactor!Channels, Channels,
         Epoll!Sides, Polling!Sides, Reactor!Sides, Sides, Epoll!NoCall, Polling!NoCall, Reactor!NoCall, NoCall
<1>2. DoneIdle
  BY <1>1, EdgesBegin
<1>3. \A c \in Channels : task[c] = 0 /\ sent[c] = 0 /\ taken[c] = 0 /\ ~(0 > 0)
  BY <1>1 DEF EdgesInit
<1>4. sent \in [Channels -> Nat]
  BY <1>1 DEF EdgesInit
<1> QED BY <1>2, <1>3, <1>4 DEF AInv, Standing

\* Every step keeps the streams with their tasks.
LEMMA StreamsStep ==
  ASSUME IInv, AInv, [Next]_vars
  PROVE  AInv'
<1>1. EdgesOK
  BY DEF IInv, EpollInv, PollingInv, ReactorInv
<1>2. StreamStep
  <2>1. CASE EpollRun
    BY <2>1, EpollStreams DEF EpollRun, IInv
  <2>2. CASE PollingRun
    BY <2>2, PollingStreams DEF PollingRun, IInv
  <2>3. CASE ReactorRun \/ \E w \in Threads : ReactorWorker(w)
    BY <2>3, ReactorStreams DEF ReactorRun, ReactorWorker, IInv
  <2>4. ASSUME NEW c \in Channels, Deliver(c) \/ Take(c) PROVE StreamStep
    BY <2>4 DEF Deliver, Take, Arrive, Drain, StreamStep
  <2>5. CASE UNCHANGED vars
    BY <2>5 DEF vars, edgeVars, StreamStep
  <2> QED BY <2>1, <2>2, <2>3, <2>4, <2>5 DEF Next
<1> QED BY <1>1, <1>2, StreamsStand

-----------------------------------------------------------------------------
(* Theorems *)

\* The inductive invariant of whichever executor is at work: where every
\* current task is, what the counters count, what has been announced.
THEOREM ExecutorsInvariant == Spec => []IInv
<1>1. Init => IInv
  BY ExecutorsBegin
<1>2. IInv /\ [Next]_vars => IInv'
  BY ExecutorsStep
<1> QED BY <1>1, <1>2, PTL DEF Spec

\* OneOwner: the counters that end the loops of Run agree with the tasks; in
\* ReactorExecutor no task is ever with two threads, and none is forgotten.
THEOREM TaskHasOneOwner == Spec => []OneOwner
<1>1. IInv => OneOwner
  BY EpollConclusions, PollingConclusions, ReactorConclusions DEF IInv, OneOwner, IsEpoll, IsPolling, IsReactor
<1> QED BY <1>1, ExecutorsInvariant, PTL

\* NoLostEvent: no edge that could move data is slept on by EpollExecutor,
\* no completion by the thread of ReactorExecutor.
THEOREM NoEventLost == Spec => []NoLostEvent
<1>1. IInv => NoLostEvent
  BY EpollConclusions, ReactorConclusions DEF IInv, NoLostEvent, IsEpoll, IsReactor
<1> QED BY <1>1, ExecutorsInvariant, PTL

\* CleanReturn: true means that every task is done; whatever Run returns, no
\* edge stays watched, no worker keeps a task and no job is left.
THEOREM RunLeavesNothing == Spec => []CleanReturn
<1>1. IInv => CleanReturn
  BY EpollConclusions, PollingConclusions, ReactorConclusions DEF IInv, CleanReturn, IsEpoll, IsPolling, IsReactor
<1> QED BY <1>1, ExecutorsInvariant, PTL

\* Aligned: at every moment the bytes a channel has sent and read are exactly
\* those of the tasks before its current one and of the part of that one's
\* phases that is done, whichever executor drives it, whatever was fetched,
\* queued or reported before a task gave way to the next.
THEOREM StreamsAligned == Spec => []Aligned
<1>1. Init => AInv
  BY StreamsBegin
<1>2. IInv /\ AInv /\ [Next]_vars => AInv'
  BY StreamsStep
<1>3. IInv /\ AInv => Aligned
  <2> SUFFICES ASSUME IInv, AInv, NEW c \in Channels, task[c] > 0
               PROVE  sent[c] = UpTo(c, "send") /\ taken[c] = UpTo(c, "recv")
    BY DEF Aligned, UpTo
  <2>1. task[c] # 0
    BY DEF IInv, EpollInv, PollingInv, ReactorInv, EdgesOK
  <2> QED BY <2>1 DEF AInv, Standing
<1> QED BY <1>1, <1>2, <1>3, ExecutorsInvariant, PTL DEF Spec
=============================================================================
