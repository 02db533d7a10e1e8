----------------------------- MODULE P2pExchange ------------------------------
(***************************************************************************)
(* Send and Recv between ranks: the lazy connection set-up that Plan does  *)
(* round by round (PlanP2pRound, PrepareRound, ConnectP2p, AcceptP2pOne),  *)
(* and the execution of the planned messages by the worker of channel 0    *)
(* (sends) and the worker of channel 1 (receives).                         *)
(*                                                                         *)
(* Nothing synchronises the ranks: one may set up round 1 of its second    *)
(* batch while another still executes its first.  A connection waits in    *)
(* the listener's backlog until the other rank accepts; whoever polls the  *)
(* listener accepts whichever connection comes first and files it under    *)
(* the rank its handshake names.                                           *)
(***************************************************************************)
EXTENDS Planner, FiniteSets

CONSTANTS
  N,          \* world_size
  Capacity,   \* elements a connection can hold
  Programs    \* the programs to consider: for every rank, its batches

Ranks == 0 .. N - 1

VARIABLES
  program,    \* program[r]: the batches of rank r, sequences of P2P tasks
  blocking,   \* whether ConnectP2p ends only once accepted (RDMA, SHM) or at once
  batch,      \* batch[r]: index of its batch, 0 before the first
  phase,      \* phase[r]: "idle", "plan", "run", or "failed" for good
  round,      \* round[r]: the round it plans
  cState,     \* cState[r]: its connect thread, "none" before PrepareRound
  aState,     \* aState[r]: its accept thread
  error,      \* error[r]: the flag the two threads share
  backlog,    \* backlog[r]: ranks whose connections r has not accepted
  sendConn,   \* sendConn[r]: peers with a transport in channel 0's send_p2p
  recvConn,   \* recvConn[r]: peers with a transport in channel 1's recv_p2p
  tasks,      \* tasks[r]: the batch as Flush sorted it
  queue,      \* queue[r][c]: plan.channels[c].tasks, c = 1 for channel 0
  pos,        \* pos[r][c]: tasks of queue[r][c] executed
  progress,   \* progress[r][c]: elements of the current one moved
  dropped,    \* dropped[r]: channels whose worker gave up
  wire,       \* wire[r][q]: elements in flight from r to q
  got         \* history: got[r]: the messages received, [task, data]

planVars == <<tasks, queue, round, cState, aState, error>>
connVars == <<backlog, sendConn, recvConn>>
runVars  == <<pos, progress, dropped, wire, got>>
vars == <<program, blocking, batch, phase, planVars, connVars, runVars>>

Init ==
  /\ program \in Programs /\ blocking \in BOOLEAN
  /\ batch = [r \in Ranks |-> 0] /\ phase = [r \in Ranks |-> "idle"]
  /\ tasks = [r \in Ranks |-> << >>] /\ queue = [r \in Ranks |-> << << >>, << >> >>]
  /\ round = [r \in Ranks |-> 0]
  /\ cState = [r \in Ranks |-> "none"] /\ aState = [r \in Ranks |-> "none"]
  /\ error = [r \in Ranks |-> FALSE]
  /\ backlog = [r \in Ranks |-> << >>]
  /\ sendConn = [r \in Ranks |-> {}] /\ recvConn = [r \in Ranks |-> {}]
  /\ pos = [r \in Ranks |-> <<0, 0>>] /\ progress = [r \in Ranks |-> <<0, 0>>]
  /\ dropped = [r \in Ranks |-> {}]
  /\ wire = [r \in Ranks |-> [q \in Ranks |-> << >>]]
  /\ got = [r \in Ranks |-> << >>]

-----------------------------------------------------------------------------
(* Planning.                                                               *)

BeginBatch(r) ==
  /\ phase[r] = "idle" /\ batch[r] < Len(program[r])
  /\ batch' = [batch EXCEPT ![r] = @ + 1]
  /\ phase' = [phase EXCEPT ![r] = "plan"]
  /\ tasks' = [tasks EXCEPT ![r] = SortTasks(program[r][batch[r] + 1], r, N)]
  /\ queue' = [queue EXCEPT ![r] = << << >>, << >> >>]
  /\ round' = [round EXCEPT ![r] = 1]
  /\ UNCHANGED <<program, blocking, cState, aState, error, connVars, runVars>>

\* The messages of one kind that belong to the round.
RoundTasks(r, func) ==
  SelectSeq(tasks[r], LAMBDA t : t.func = func /\ P2pRoundOf(t, r, N) = round[r])

\* The peers to reach for them: one at most, as the round fixes the distance.
RoundPeers(r, func) ==
  LET mine == RoundTasks(r, func) IN {mine[i].peer : i \in {k \in DOMAIN mine : mine[k].count # 0}}

ConnectPeer(r) == CHOOSE q \in RoundPeers(r, Send) : TRUE
AcceptPeer(r) == CHOOSE q \in RoundPeers(r, Recv) : TRUE

\* PrepareRound up to the start of its threads: only a peer without a
\* transport needs one.  (With one kind of peer only, the caller's thread
\* does the work; that is a thread with nobody beside it.)
PrepareRound(r) ==
  /\ phase[r] = "plan" /\ cState[r] = "none"
  /\ cState' = [cState EXCEPT ![r] = IF RoundPeers(r, Send) \subseteq sendConn[r] THEN "done" ELSE "todo"]
  /\ aState' = [aState EXCEPT ![r] = IF RoundPeers(r, Recv) \subseteq recvConn[r] THEN "done" ELSE "todo"]
  /\ UNCHANGED <<program, blocking, batch, phase, tasks, queue, round, error, connVars, runVars>>

\* ConnectP2p: the connection reaches the peer's backlog.  The connect thread
\* then waits for the peer's Accept, over RDMA in Connect and over shared
\* memory in Send, whose handshake is acknowledged; over TCP it does not.
ConnectP2p(r) ==
  /\ cState[r] = "todo" /\ ~error[r]
  /\ backlog' = [backlog EXCEPT ![ConnectPeer(r)] = Append(@, r)]
  /\ cState' = [cState EXCEPT ![r] = IF blocking THEN "wait" ELSE "done"]
  /\ sendConn' = IF blocking THEN sendConn ELSE [sendConn EXCEPT ![r] = @ \cup {ConnectPeer(r)}]
  /\ UNCHANGED <<program, blocking, batch, phase, tasks, queue, round, aState, error, recvConn, runVars>>

\* The peer has accepted and the handshake is sent.
Connected(r) ==
  /\ cState[r] = "wait" /\ r \in recvConn[ConnectPeer(r)]
  /\ cState' = [cState EXCEPT ![r] = "done"]
  /\ sendConn' = [sendConn EXCEPT ![r] = @ \cup {ConnectPeer(r)}]
  /\ UNCHANGED <<program, blocking, batch, phase, tasks, queue, round, aState, error, backlog, recvConn, runVars>>

\* AcceptP2pOne starts to poll the listeners.
AcceptBegin(r) ==
  /\ aState[r] = "todo" /\ ~error[r]
  /\ aState' = [aState EXCEPT ![r] = "poll"]
  /\ UNCHANGED <<program, blocking, batch, phase, tasks, queue, round, cState, error, connVars, runVars>>

\* Mutant: any connection will do.
SatisfiedByAny(r, conns) == conns # {}

\* When AcceptP2pOne, having filed a connection, stops polling.
Satisfied(r, conns) == AcceptPeer(r) \in conns

\* A turn of AcceptP2pOne's loop: file what the listener yields under its
\* source, until the wanted peer has its transport.
AcceptP2pOne(r) ==
  /\ aState[r] = "poll" /\ backlog[r] # << >>
  /\ recvConn' = [recvConn EXCEPT ![r] = @ \cup {Head(backlog[r])}]
  /\ backlog' = [backlog EXCEPT ![r] = Tail(@)]
  /\ aState' = [aState EXCEPT ![r] = IF Satisfied(r, recvConn'[r]) THEN "done" ELSE "poll"]
  /\ UNCHANGED <<program, blocking, batch, phase, tasks, queue, round, cState, error, sendConn, runVars>>

\* A signal interrupts poll: the thread polls again.
PollInterrupted(r) == aState[r] = "poll" /\ UNCHANGED vars

\* Connect or its handshake fails; Accept or its handshake fails.
ConnectFails(r) ==
  /\ cState[r] \in {"todo", "wait"} /\ ~error[r]
  /\ error' = [error EXCEPT ![r] = TRUE]
  /\ cState' = [cState EXCEPT ![r] = "done"]
  /\ UNCHANGED <<program, blocking, batch, phase, tasks, queue, round, aState, connVars, runVars>>

AcceptFails(r) ==
  /\ aState[r] = "poll" /\ backlog[r] # << >>
  /\ error' = [error EXCEPT ![r] = TRUE]
  /\ aState' = [aState EXCEPT ![r] = "done"]
  /\ backlog' = [backlog EXCEPT ![r] = Tail(@)]
  /\ UNCHANGED <<program, blocking, batch, phase, tasks, queue, round, cState, sendConn, recvConn, runVars>>

\* A thread that has not begun when the other one fails returns at once.  One
\* that already polls or waits goes on.
GiveUp(r) ==
  /\ error[r] /\ "todo" \in {cState[r], aState[r]}
  /\ cState' = [cState EXCEPT ![r] = IF @ = "todo" THEN "done" ELSE @]
  /\ aState' = [aState EXCEPT ![r] = IF @ = "todo" THEN "done" ELSE @]
  /\ UNCHANGED <<program, blocking, batch, phase, tasks, queue, round, error, connVars, runVars>>

\* Both threads are joined: PlanP2pRound appends the round's messages to the
\* plan and goes on to the next round or to Run, or Flush returns false.
EndRound(r) ==
  /\ cState[r] = "done" /\ aState[r] = "done"
  /\ cState' = [cState EXCEPT ![r] = "none"] /\ aState' = [aState EXCEPT ![r] = "none"]
  /\ phase' = [phase EXCEPT ![r] = IF error[r] THEN "failed" ELSE IF round[r] = N - 1 THEN "run" ELSE "plan"]
  /\ round' = [round EXCEPT ![r] = IF error[r] THEN @ ELSE @ + 1]
  /\ queue' = [queue EXCEPT ![r] = IF error[r] THEN @ ELSE <<@[1] \o RoundTasks(r, Send), @[2] \o RoundTasks(r, Recv)>>]
  /\ UNCHANGED <<program, blocking, batch, tasks, error, connVars, runVars>>

-----------------------------------------------------------------------------
(* Execution: TopologyP2p driven by a worker per channel.                  *)

SendChannel == 1
RecvChannel == 2
Working(r, c) == phase[r] = "run" /\ c \notin dropped[r] /\ pos[r][c] < Len(queue[r][c])
Entry(r, c) == queue[r][c][pos[r][c] + 1]

\* Mutant: not limited by the message.
ReadableAll(rest, held) == held

\* How much of a message TrySend and TryRecv move.
SendableNow(rest, room) == IF rest < room THEN rest ELSE room
ReadableNow(rest, held) == IF rest < held THEN rest ELSE held

Advance(r, c, moved) ==
  LET done == progress[r][c] + moved = Entry(r, c).count
  IN  /\ pos' = [pos EXCEPT ![r][c] = IF done THEN @ + 1 ELSE @]
      /\ progress' = [progress EXCEPT ![r][c] = IF done THEN 0 ELSE @ + moved]
      /\ UNCHANGED <<program, blocking, batch, phase, planVars, connVars, dropped>>

\* TrySend moves what the connection has room for; an empty message is done
\* without a transport.
SendSome(r) ==
  /\ Working(r, SendChannel)
  /\ LET e     == Entry(r, SendChannel)
         rest  == e.count - progress[r][SendChannel]
         room  == Capacity - Len(wire[r][e.peer])
         moved == SendableNow(rest, room)
     IN  /\ moved > 0 \/ e.count = 0
         /\ wire' = [wire EXCEPT ![r][e.peer] =
                       @ \o [i \in 1 .. moved |-> <<e.id, progress[r][SendChannel] + i>>]]
         /\ Advance(r, SendChannel, moved)
         /\ UNCHANGED got

\* TryRecv moves what the connection holds.
RecvSome(r) ==
  /\ Working(r, RecvChannel)
  /\ LET e     == Entry(r, RecvChannel)
         rest  == e.count - progress[r][RecvChannel]
         held  == Len(wire[e.peer][r])
         moved == ReadableNow(rest, held)
     IN  /\ moved > 0 \/ e.count = 0
         /\ wire' = [wire EXCEPT ![e.peer][r] = SubSeq(@, moved + 1, held)]
         /\ got' = [got EXCEPT ![r] = @ \o [i \in 1 .. moved |->
                      [task |-> e.id, at |-> progress[r][RecvChannel] + i, data |-> wire[e.peer][r][i]]]]
         /\ Advance(r, RecvChannel, moved)

\* TrySend or TryRecv fails: the worker drops the rest of its channel.
TaskFails(r, c) ==
  /\ Working(r, c) /\ Entry(r, c).count # 0
  /\ dropped' = [dropped EXCEPT ![r] = @ \cup {c}]
  /\ UNCHANGED <<program, blocking, batch, phase, planVars, connVars, pos, progress, wire, got>>

\* Run returns once both workers have reported.
EndRun(r) ==
  /\ phase[r] = "run" /\ \A c \in {SendChannel, RecvChannel} : ~Working(r, c)
  /\ phase' = [phase EXCEPT ![r] = IF dropped[r] = {} THEN "idle" ELSE "failed"]
  /\ pos' = [pos EXCEPT ![r] = <<0, 0>>] /\ progress' = [progress EXCEPT ![r] = <<0, 0>>]
  /\ UNCHANGED <<program, blocking, batch, planVars, connVars, dropped, wire, got>>

-----------------------------------------------------------------------------
Finished(r) == phase[r] = "idle" /\ batch[r] = Len(program[r])
AllDone == \A r \in Ranks : Finished(r)

\* A rank has failed, in planning or in execution.
SomeFailed == \E r \in Ranks : error[r] \/ dropped[r] # {}

\* The ranks have returned from their last call, or some wait for a rank that
\* failed.
Quiet == (AllDone \/ SomeFailed) /\ UNCHANGED vars

RankStep(r) ==
  \/ BeginBatch(r) \/ PrepareRound(r)
  \/ ConnectP2p(r) \/ Connected(r) \/ AcceptBegin(r) \/ AcceptP2pOne(r) \/ GiveUp(r) \/ EndRound(r)
  \/ SendSome(r) \/ RecvSome(r) \/ EndRun(r)

Failure(r) == ConnectFails(r) \/ AcceptFails(r) \/ \E c \in {SendChannel, RecvChannel} : TaskFails(r, c)

Next == (\E r \in Ranks : RankStep(r) \/ PollInterrupted(r) \/ Failure(r)) \/ Quiet

Spec == Init /\ [][Next]_vars

\* Every thread of every rank is scheduled.  (Steps of two threads of one
\* rank never disable each other, so fairness of their union suffices.)
Fairness == \A r \in Ranks : WF_vars(RankStep(r))

FairSpec == Spec /\ Fairness

-----------------------------------------------------------------------------
\* Every variable stays in its type.
TypeOK ==
  /\ phase \in [Ranks -> {"idle", "plan", "run", "failed"}]
  /\ \A r \in Ranks : batch[r] \in 0 .. Len(program[r]) /\ round[r] \in 0 .. N
  /\ cState \in [Ranks -> {"none", "todo", "wait", "done"}]
  /\ aState \in [Ranks -> {"none", "todo", "poll", "done"}]
  /\ \A r, q \in Ranks : Len(wire[r][q]) <= Capacity

\* A rank that executes a batch has a transport for every message of it that
\* is not empty: FillTransports never hands an executor a null transport,
\* whatever connections arrived in between.
Wired ==
  \A r \in Ranks : phase[r] = "run" =>
    /\ \A i \in DOMAIN queue[r][SendChannel] :
         LET e == queue[r][SendChannel][i] IN e.count # 0 => e.peer \in sendConn[r]
    /\ \A i \in DOMAIN queue[r][RecvChannel] :
         LET e == queue[r][RecvChannel][i] IN e.count # 0 => e.peer \in recvConn[r]

\* A connection in use is never replaced by a second one from the same peer,
\* and none is lost: what rank r sends into is what its peer holds or will
\* accept, exactly once, unless an accept failed.
OneConnection ==
  \A r, q \in Ranks :
    LET waiting == Cardinality({i \in DOMAIN backlog[q] : backlog[q][i] = r})
        held    == IF r \in recvConn[q] THEN 1 ELSE 0
    IN  /\ waiting + held <= 1
        /\ q \in sendConn[r] /\ ~error[q] => waiting + held = 1

\* The connections as a whole: whatever order the rounds of the ranks
\* interleave in, a pair has at most one per direction, and a batch runs only
\* with those it needs (PrepareRound, FillTransports).
WiredOnce == TypeOK /\ Wired /\ OneConnection

\* Every element lands at its place in the buffer of the Recv that belongs
\* to its Send (the two tasks have one id), however the two programs order
\* and group the messages and however far the ranks are apart.
Delivered ==
  \A r \in Ranks : \A i \in DOMAIN got[r] : got[r][i].data = <<got[r][i].task, got[r][i].at>>

\* Unless something fails every rank gets through all its batches: the
\* rounds make no circle of ranks wait for each other's connection.
Completes == <>(AllDone \/ SomeFailed)

\* docs/layers/planner.md, of the connections Plan prepares: a failure is
\* reported by Plan's return value.  So once a thread of PrepareRound has
\* failed, Plan returns false and the batch with it.
FailureReported == \A r \in Ranks : error[r] ~> phase[r] = "failed"
=============================================================================
