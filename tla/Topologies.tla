------------------------------ MODULE Topologies ------------------------------
(***************************************************************************)
(* What every Topology promises the executor that drives it, over the two  *)
(* that have collectives: the tasks of a channel run on a ring             *)
(* (RingCollective) or on a tree (TreeAllReduce), as the planner decided.  *)
(* The two modules share the executor's view (current task, its state,     *)
(* edges, results); only one of them is at work in a behaviour.            *)
(***************************************************************************)
EXTENDS Integers, Sequences, FiniteSetsExt

CONSTANTS
  RingCases, TreeCases,         \* Cases of the two modules
  RingCapacity, TreeCapacity    \* elements an edge can hold

VARIABLES
  topology,                     \* PlanTask::topology (never changes)
  n, host, channel, shape,      \* the ring's size; the tree's placement
  tasks, cur, st, edge, results \* as in both modules

Ring == INSTANCE RingCollective WITH Cases <- RingCases, Capacity <- RingCapacity
Tree == INSTANCE TreeAllReduce WITH Cases <- TreeCases, Capacity <- TreeCapacity

vars == <<topology, n, host, channel, shape, tasks, cur, st, edge, results>>

RingInit == topology = "ring" /\ Ring!Init /\ host = << >> /\ channel = 0 /\ shape = << >>
TreeInit == topology = "tree" /\ Tree!Init /\ n = Len(host)

Init == RingInit \/ TreeInit

RingNext == topology = "ring" /\ Ring!Next /\ UNCHANGED <<topology, host, channel, shape>>
TreeNext == topology = "tree" /\ Tree!Next /\ UNCHANGED <<topology, n>>

Next == RingNext \/ TreeNext

CanMove(r) == r < n /\ IF topology = "ring" THEN Ring!CanMove(r) ELSE Tree!CanMove(r)
Moved(r) == r < n /\ (cur'[r] # cur[r] \/ st'[r] # st[r])

\* Weak fairness of every rank's executor, as in the two modules: a rank
\* that can move and whose done flags let the executor call it does so.
MaxRanks == Max({c.n : c \in RingCases} \cup {Len(c.host) : c \in TreeCases})
Fairness == \A r \in 0 .. MaxRanks - 1 : []<>(~CanMove(r)) \/ []<><<Moved(r)>>_vars

Spec == Init /\ [][Next]_vars /\ Fairness

-----------------------------------------------------------------------------
(* Properties *)

OnRing == topology = "ring"
OnTree == topology = "tree"

\* Every task a rank completes left exactly the promised elements in recv_buf,
\* each input summed once and averaged once and last, whatever the skew
\* between the ranks and whichever of them fails; and when all are done no
\* element is left on an edge to be taken for the next plan's data.
Correct ==
  /\ OnRing => Ring!TypeOK /\ Ring!Correct /\ Ring!Drained
  /\ OnTree => Tree!TypeOK /\ Tree!Correct /\ Tree!Drained

\* The elements a ring phase receives never land on elements it has still to
\* send, although AllGather sends from and receives into recv_buf and
\* ReduceScatter swaps its buffers.
NoAliasing == OnRing => Ring!NoAliasing

\* A task in progress always has a side its executor will call again: the
\* ring's Complete* loop never returns with both sides done, after which no
\* event would come, and the tree's flags are never all up, when the polling
\* loop would skip both sides (multi_thread_executor.cpp:115).
CallPending ==
  /\ OnRing => Ring!StepPending
  /\ OnTree => Tree!FlagPending

\* Unless a transport fails, all ranks finish every task of the channel.
Completes ==
  <>(IF OnRing THEN Ring!AllDone \/ Ring!SomeFailed ELSE Tree!AllDone \/ Tree!SomeFailed)
=============================================================================
