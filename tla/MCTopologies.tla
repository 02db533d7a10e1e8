----------------------------- MODULE MCTopologies -----------------------------
(* Small rings, small trees and short task lists.                           *)
EXTENDS Topologies

Task(func, op, root, count, chunk, stride) ==
  [func |-> func, op |-> op, root |-> root, count |-> count, chunk |-> chunk, stride |-> stride]

\* Every collective on 1 to 4 ranks.  AllReduce counts leave a partial
\* chunk, an empty chunk, and two units; the others have a slice of a larger
\* buffer (stride > count); an empty task is among them.
SingleTasks(m) ==
  {Task("AllReduce", op, 0, c, 2, c) : op \in {"SUM", "AVG"}, c \in {1, 2 * m - 1, 2 * m + 1}}
  \cup {Task("Broadcast", "SUM", root, 2, 1, 2) : root \in 0 .. m - 1}
  \cup {Task("Reduce", op, root, 2, 1, 2) : op \in {"SUM", "AVG"}, root \in 0 .. m - 1}
  \cup {Task("AllGather", "SUM", 0, 2, 1, 3)}
  \cup {Task("ReduceScatter", op, 0, 2, 1, 3) : op \in {"SUM", "AVG"}}
  \cup {Task("AllReduce", "SUM", 0, 0, 1, 1)}

SingleCases == UNION {{[n |-> m, tasks |-> <<t>>] : t \in SingleTasks(m)} : m \in 1 .. 4}

\* Two tasks back to back on three ranks: a rank may run ahead into the
\* second one.
PairTasks ==
  {Task("AllReduce", "AVG", 0, 3, 1, 3), Task("Broadcast", "SUM", 1, 2, 1, 2),
   Task("Reduce", "SUM", 2, 2, 1, 2), Task("AllGather", "SUM", 0, 1, 1, 2),
   Task("ReduceScatter", "AVG", 0, 1, 1, 1), Task("Broadcast", "SUM", 0, 0, 1, 1)}

PairCases == {[n |-> 3, tasks |-> <<t, u>>] : t, u \in PairTasks}

MCRingCases == SingleCases \cup PairCases

T(count, chunk, op) == [count |-> count, chunk |-> chunk, op |-> op]

\* One to four ranks: one machine, one rank per machine, uneven machines and
\* ranks of one machine that are not neighbours.
Hosts ==
  { <<1>>, <<1, 1, 1>>, <<1, 2>>, <<1, 2, 3>>, <<1, 1, 2>>, <<1, 2, 1>>, <<1, 2, 3, 4>>, <<1, 2, 2, 1>> }

\* A partial last chunk; two tasks in a row; an empty task between.
TaskLists == { <<T(3, 2, "AVG")>>, <<T(2, 1, "SUM"), T(0, 1, "SUM"), T(1, 1, "AVG")>> }

\* Five machines, the first tree with a leader two levels from its root,
\* run one task only.
MCTreeCases ==
  {[host |-> h, channel |-> c, tasks |-> ts] : h \in Hosts, c \in {0, 1}, ts \in TaskLists}
  \cup {[host |-> <<1, 2, 3, 4, 5>>, channel |-> c, tasks |-> <<T(3, 2, "AVG")>>] : c \in {0, 1}}
=============================================================================
