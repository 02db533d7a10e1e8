---------------------------- MODULE TreeAllReduce -----------------------------
(***************************************************************************)
(* TopologyTree: AllReduce over a double binary tree.  On each machine the *)
(* ranks form a star around the machine's leader; the leaders form a       *)
(* binary tree, mirrored on odd channels.  Chunks are summed on their way  *)
(* up to the root leader and copied on their way down.                     *)
(*                                                                         *)
(* As in module RingCollective, an executor drives CollectiveInit and      *)
(* CollectiveStep on every rank, a rank may run ahead into the next task,  *)
(* edges are bounded FIFOs of elements, and an element's value is the bag  *)
(* of inputs summed into it.                                               *)
(***************************************************************************)
EXTENDS Integers, Sequences, SequencesExt, Bags

CONSTANTS
  Capacity,   \* elements an edge can hold
  Cases       \* records [host, channel, tasks]: where each rank lives, the
              \* channel's id, and the tasks, records [count, chunk, op]

VARIABLES
  host,       \* host[r + 1]: the hostname of rank r
  channel,    \* the channel's id
  tasks,      \* its task list, the same on every rank
  shape,      \* shape[r]: rank r's place in the tree, see TreeShape
  cur,        \* cur[r]: index of the task rank r is in, 0 before the first
  st,         \* st[r]: CollOpState and buffers of rank r's current task
  edge,       \* edge[r][q]: elements in flight from r to q
  results     \* results[r]: recv_buf of each task rank r has finished

vars == <<host, channel, tasks, shape, cur, st, edge, results>>

Ranks == 0 .. Len(host) - 1

Input(r, i) == SetToBag({<<r, i>>})
Garbage == EmptyBag
Averaged(v) == v (+) SetToBag({<<-1, BagCardinality(v)>>})

-----------------------------------------------------------------------------
(* FillChannels: the shape of the tree.                                    *)

Ascending(S) == SetToSortSeq(S, <)

\* local_ranks of rank r's machine; its first rank is the leader.
LocalRanks(r) == Ascending({q \in Ranks : host[q + 1] = host[r + 1]})
LeaderOf(r) == LocalRanks(r)[1]
IsLeader(r) == LeaderOf(r) = r

\* Machines are numbered from 0 by first appearance, that is by leader.
MachineLeaders == Ascending({LeaderOf(r) : r \in Ranks})
MachineCount == Len(MachineLeaders)
MachineIndex(r) == CHOOSE m \in 0 .. MachineCount - 1 : MachineLeaders[m + 1] = LeaderOf(r)

\* The place of machine m in the binary tree of this channel, and back.
NodeOf(m) == IF channel % 2 # 0 THEN MachineCount - 1 - m ELSE m
LeaderAt(node) == MachineLeaders[NodeOf(node) + 1]

StarPeers(r) == IF IsLeader(r) THEN Tail(LocalRanks(r)) ELSE <<LeaderOf(r)>>

Children(r) ==
  LET node == NodeOf(MachineIndex(r))
      inTree == SelectSeq(<<2 * node + 1, 2 * node + 2>>, LAMBDA c : c < MachineCount)
  IN  IF IsLeader(r) THEN [i \in DOMAIN inTree |-> LeaderAt(inTree[i])] ELSE << >>

\* Mutant: the parent of a heap that starts at 1.
ParentFromOne(r) ==
  LET node == NodeOf(MachineIndex(r))
  IN  IF IsLeader(r) /\ node # 0 THEN <<LeaderAt(node \div 2)>> ELSE << >>

Parent(r) ==
  LET node == NodeOf(MachineIndex(r))
  IN  IF IsLeader(r) /\ node # 0 THEN <<LeaderAt((node - 1) \div 2)>> ELSE << >>

\* What FillChannels stores in rank r's Channel: is_leader, the peers in the
\* order FillPeers and FillTransports list them (role i of the leader's role
\* table belongs to peer i), and whether the last one is the parent.
TreeShape(r) ==
  [leader |-> IsLeader(r), peers |-> StarPeers(r) \o Children(r) \o Parent(r), hasParent |-> Parent(r) # << >>]

Leader(r) == shape[r].leader
Peers(r) == shape[r].peers
Edges(r) == 1 .. Len(Peers(r))

\* kRoleTreeUp, and IsInputRole (kRoleStar or kRoleTreeDown).
IsParentEdge(r, i) == shape[r].hasParent /\ i = Len(Peers(r))
IsInputEdge(r, i) == ~IsParentEdge(r, i)
IsRoot(r) == Leader(r) /\ ~shape[r].hasParent

-----------------------------------------------------------------------------
(* A rank's handlers, as functions of its state s.  s.out[i] and s.in[i]   *)
(* are the edges to and from its peer i while the handler runs.            *)

Min2(a, b) == IF a < b THEN a ELSE b

ChunkCount(t) == (t.count + t.chunk - 1) \div t.chunk
ChunkElems(t, c) == IF c * t.chunk >= t.count THEN 0 ELSE Min2(t.chunk, t.count - c * t.chunk)

\* Which edges a phase receives on and sends on.
RecvEligible(r, s, i) ==
  IF Leader(r) THEN (s.phase = "Up") = IsInputEdge(r, i) ELSE s.phase = "Down"
SendEligible(r, s, i) ==
  IF Leader(r) THEN (s.phase = "Up") = IsParentEdge(r, i) ELSE s.phase = "Up"

\* A leader receives an input chunk into the edge's scratch, everything
\* else goes to its place in recv_buf.
ToScratch(r, i) == Leader(r) /\ IsInputEdge(r, i)

\* One chunk's TryRecv on edge i, with the reduction of a complete one.
RecvChunk(r, t, s, i) ==
  LET c     == s.recvChunk[i]
      fresh == IF s.recvDone[i] THEN 0 ELSE s.recvProgress[i]
      moved == Min2(Len(s.in[i]), ChunkElems(t, c) - fresh)
      isNew(k) == k \in fresh .. fresh + moved - 1
      done  == fresh + moved = ChunkElems(t, c)
      tmp   == [k \in 0 .. t.chunk - 1 |-> IF isNew(k) THEN s.in[i][k - fresh + 1] ELSE s.tmp[i][k]]
      value(k) == IF ToScratch(r, i)
                  THEN IF done /\ k < ChunkElems(t, c) THEN s.buf[c * t.chunk + k] (+) tmp[k] ELSE s.buf[c * t.chunk + k]
                  ELSE IF isNew(k) THEN s.in[i][k - fresh + 1] ELSE s.buf[c * t.chunk + k]
  IN  [s EXCEPT !.in[i] = SubSeq(@, moved + 1, Len(@)),
                !.recvProgress[i] = fresh + moved,
                !.recvDone[i] = done,
                !.recvChunk[i] = IF done THEN @ + 1 ELSE @,
                !.tmp = [e \in DOMAIN @ |-> IF e = i /\ ToScratch(r, i) THEN tmp ELSE @[e]],
                !.buf = [j \in DOMAIN @ |-> IF j \div t.chunk = c THEN value(j % t.chunk) ELSE @[j]]]

RECURSIVE RecvChunks(_, _, _, _)
RecvChunks(r, t, s, i) ==
  IF s.recvChunk[i] >= ChunkCount(t) THEN s
  ELSE LET next == RecvChunk(r, t, s, i)
       IN  IF next.recvDone[i] THEN RecvChunks(r, t, next, i) ELSE next

PushRecvs(r, t, s) ==
  FoldLeft(LAMBDA acc, i : IF RecvEligible(r, acc, i) THEN RecvChunks(r, t, acc, i) ELSE acc,
           s, [i \in Edges(r) |-> i])

\* MinInputPrefix: the chunks every input has delivered.
MinInputPrefix(r, t, s) ==
  FoldLeft(LAMBDA best, i : IF IsInputEdge(r, i) THEN Min2(best, s.recvChunk[i]) ELSE best,
           ChunkCount(t), [i \in Edges(r) |-> i])

\* How many chunks may be sent: a leader passes on what it has complete.
Gate(r, t, s) ==
  IF ~Leader(r) THEN ChunkCount(t)
  ELSE IF s.phase = "Up" THEN MinInputPrefix(r, t, s)
  ELSE IF IsRoot(r) THEN ChunkCount(t) ELSE s.recvChunk[Len(Peers(r))]

\* One chunk's TrySend on edge i, from recv_buf or (not a leader) send_buf.
SendChunk(r, t, s, i) ==
  LET c     == s.sendChunk[i]
      fresh == IF s.sendDone[i] THEN 0 ELSE s.sendProgress[i]
      moved == Min2(Capacity - Len(s.out[i]), ChunkElems(t, c) - fresh)
      value(j) == IF Leader(r) THEN s.buf[j] ELSE Input(r, j)
      done  == fresh + moved = ChunkElems(t, c)
  IN  [s EXCEPT !.out[i] = @ \o [k \in 1 .. moved |-> value(c * t.chunk + fresh + k - 1)],
                !.sendProgress[i] = fresh + moved,
                !.sendDone[i] = done,
                !.sendChunk[i] = IF done THEN @ + 1 ELSE @]

RECURSIVE SendChunks(_, _, _, _)
SendChunks(r, t, s, i) ==
  IF s.sendChunk[i] >= Gate(r, t, s) THEN s
  ELSE LET next == SendChunk(r, t, s, i)
       IN  IF next.sendDone[i] THEN SendChunks(r, t, next, i) ELSE next

PushSends(r, t, s) ==
  FoldLeft(LAMBDA acc, i : IF SendEligible(r, acc, i) THEN SendChunks(r, t, acc, i) ELSE acc,
           s, [i \in Edges(r) |-> i])

\* UpComplete and DownComplete: the edges the phase uses are finished.
PhaseComplete(r, t, s) ==
  \A i \in Edges(r) :
    /\ RecvEligible(r, s, i) => s.recvChunk[i] >= ChunkCount(t)
    /\ SendEligible(r, s, i) => s.sendChunk[i] >= ChunkCount(t)

FreshCursors(r, s, phase) ==
  [s EXCEPT !.phase = phase,
            !.recvChunk = [i \in Edges(r) |-> 0], !.sendChunk = [i \in Edges(r) |-> 0],
            !.recvProgress = [i \in Edges(r) |-> 0], !.sendProgress = [i \in Edges(r) |-> 0],
            !.recvDone = [i \in Edges(r) |-> TRUE], !.sendDone = [i \in Edges(r) |-> TRUE]]

\* EnterDown: the root averages the whole sum.
EnterDown(r, t, s) ==
  LET down == FreshCursors(r, s, "Down")
  IN  IF IsRoot(r) /\ t.op = "AVG"
      THEN [down EXCEPT !.buf = [j \in DOMAIN @ |-> IF j < t.count THEN Averaged(@[j]) ELSE @[j]]]
      ELSE down

\* Mutant: enters the way down without a push.
AdvanceUnpushed(r, t, s) ==
  IF s.phase \notin {"Up", "Down"} \/ ~PhaseComplete(r, t, s) THEN s
  ELSE IF s.phase = "Down" THEN [s EXCEPT !.phase = "Done"] ELSE EnterDown(r, t, s)

RECURSIVE Advance(_, _, _)
Advance(r, t, s) ==
  IF s.phase \notin {"Up", "Down"} \/ ~PhaseComplete(r, t, s) THEN s
  ELSE IF s.phase = "Down" THEN [s EXCEPT !.phase = "Done"]
  ELSE Advance(r, t, PushSends(r, t, PushRecvs(r, t, EnterDown(r, t, s))))

PushAndAdvance(r, t, s) == Advance(r, t, PushSends(r, t, PushRecvs(r, t, s)))

\* TreeInit: a leader starts from its own input, others keep it in send_buf.
TreeInit(r, t, s) ==
  LET copied == [s EXCEPT !.buf = [j \in DOMAIN @ |-> IF j < t.count THEN Input(r, j) ELSE @[j]]]
  IN  IF t.count = 0 THEN [s EXCEPT !.phase = "Done"]
      ELSE IF Ranks = {0}
      THEN [copied EXCEPT !.phase = "Done",
                          !.buf = [j \in DOMAIN @ |-> IF t.op = "AVG" THEN Averaged(@[j]) ELSE @[j]]]
      ELSE PushAndAdvance(r, t, FreshCursors(r, IF Leader(r) THEN copied ELSE s, "Up"))

CollectiveStep(r, t, s) == IF s.phase = "Done" THEN s ELSE PushAndAdvance(r, t, s)

-----------------------------------------------------------------------------
(* The executor's view.                                                    *)

Idle == [phase |-> "Done"]

Init ==
  /\ \E c \in Cases : host = c.host /\ channel = c.channel /\ tasks = c.tasks
  /\ shape = [r \in Ranks |-> TreeShape(r)]
  /\ cur = [r \in Ranks |-> 0]
  /\ st = [r \in Ranks |-> Idle]
  /\ edge = [r \in Ranks |-> [q \in Ranks |-> << >>]]
  /\ results = [r \in Ranks |-> << >>]

FreshState(r, t) ==
  FreshCursors(r, [phase |-> "Unstarted", recvChunk |-> << >>, sendChunk |-> << >>,
                   recvProgress |-> << >>, sendProgress |-> << >>, recvDone |-> << >>, sendDone |-> << >>,
                   buf |-> [j \in 0 .. t.count - 1 |-> Garbage],
                   tmp |-> [i \in Edges(r) |-> [k \in 0 .. t.chunk - 1 |-> Garbage]]], "Unstarted")

WithEdges(r, s) ==
  s @@ [out |-> [i \in Edges(r) |-> edge[r][Peers(r)[i]]],
        in  |-> [i \in Edges(r) |-> edge[Peers(r)[i]][r]]]

PeerIndex(r, q) == CHOOSE i \in Edges(r) : Peers(r)[i] = q
IsPeer(r, q) == \E i \in Edges(r) : Peers(r)[i] = q

\* Write back the edges of rank r; keep the result of a task that is done.
Finish(r, s) ==
  /\ edge' = [a \in Ranks |-> [b \in Ranks |->
                CASE a = r /\ IsPeer(r, b) -> s.out[PeerIndex(r, b)]
                  [] b = r /\ IsPeer(r, a) -> s.in[PeerIndex(r, a)]
                  [] OTHER -> edge[a][b]]]
  /\ st' = [st EXCEPT ![r] = IF s.phase = "Done" THEN Idle
                             ELSE [f \in DOMAIN s \ {"out", "in"} |-> s[f]]]
  /\ results' = IF s.phase = "Done" THEN [results EXCEPT ![r] = Append(@, s.buf)] ELSE results
  /\ UNCHANGED <<host, channel, tasks, shape>>

Active(r) == st[r].phase \in {"Up", "Down"}

Start(r) ==
  /\ st[r].phase = "Done" /\ cur[r] < Len(tasks)
  /\ cur' = [cur EXCEPT ![r] = @ + 1]
  /\ LET t == tasks[cur[r] + 1]
     IN  Finish(r, TreeInit(r, t, WithEdges(r, FreshState(r, t))))

\* Some transport is ready; which one makes no difference to a tree.
Step(r) ==
  /\ Active(r)
  /\ Finish(r, CollectiveStep(r, tasks[cur[r]], WithEdges(r, st[r])))
  /\ UNCHANGED cur

Finished(r) == st[r].phase = "Done" /\ cur[r] = Len(tasks)
Failed(r) == st[r].phase = "Failed"

\* A transport fails in CollectiveInit or CollectiveStep; the executor drops
\* the channel's other tasks.
Fail(r) ==
  /\ ~Failed(r) /\ ~Finished(r)
  /\ st' = [st EXCEPT ![r].phase = "Failed"]
  /\ UNCHANGED <<host, channel, tasks, shape, cur, edge, results>>

AllDone == \A r \in Ranks : Finished(r)
SomeFailed == \E r \in Ranks : Failed(r)

\* The executors have returned.
Quiet == (\A r \in Ranks : Failed(r) \/ Finished(r)) /\ UNCHANGED vars

Next == (\E r \in Ranks : Start(r) \/ Step(r) \/ Fail(r)) \/ Quiet

Spec == Init /\ [][Next]_vars

\* A side of rank r that its done flags let the executor call, can move.
CanMove(r) ==
  \/ st[r].phase = "Done" /\ cur[r] < Len(tasks)
  \/ /\ Active(r)
     /\ \E i \in Edges(r) :
          \/ ~st[r].sendDone[i] /\ Len(edge[r][Peers(r)[i]]) < Capacity
          \/ ~st[r].recvDone[i] /\ edge[Peers(r)[i]][r] # << >>

Moved(r) == cur'[r] # cur[r] \/ st'[r] # st[r]

\* Weak fairness of every rank's executor, with ENABLED written out.  It
\* owes a call only for a side whose done flag is down: the polling
\* executors skip CollectiveStep(Writable) when every send_done is set, and
\* CollectiveStep(Readable) when every recv_done is.
MaxRanks == Max({Len(c.host) : c \in Cases})
Fairness ==
  \A r \in 0 .. MaxRanks - 1 :
    []<>(r \in Ranks => ~CanMove(r)) \/ []<><<r \in Ranks /\ Moved(r)>>_vars

FairSpec == Spec /\ Fairness

-----------------------------------------------------------------------------
\* Cursors stay inside the task, edges inside their capacity.
TypeOK ==
  /\ cur \in [Ranks -> 0 .. Len(tasks)]
  /\ \A r, q \in Ranks : Len(edge[r][q]) <= Capacity
  /\ \A r \in Ranks : Active(r) =>
       /\ \A i \in Edges(r) : st[r].recvChunk[i] \in 0 .. ChunkCount(tasks[cur[r]])

\* Every rank is left with the sum of all inputs, each once, averaged once
\* and only when complete, whatever the machines' sizes, the channel's
\* parity and the skew between ranks.
Correct ==
  \A r \in Ranks : \A k \in DOMAIN results[r] : \A j \in 0 .. tasks[k].count - 1 :
    LET sum == SetToBag({<<q, j>> : q \in Ranks})
    IN  results[r][k][j] = IF tasks[k].op = "AVG" THEN Averaged(sum) ELSE sum

\* A task in progress has a done flag down: when all were up the executor
\* would skip both sides and spin for ever (multi_thread_executor.cpp:115).
FlagPending ==
  \A r \in Ranks : Active(r) =>
    \E i \in Edges(r) : ~st[r].sendDone[i] \/ ~st[r].recvDone[i]

\* No element stays behind for the next plan.
Drained == AllDone => \A r, q \in Ranks : edge[r][q] = << >>

\* Unless a transport fails, all ranks finish every task.
Completes == <>(AllDone \/ SomeFailed)
=============================================================================
