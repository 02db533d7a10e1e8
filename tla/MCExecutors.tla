----------------------------- MODULE MCExecutors ------------------------------
(* Plans on two channels for the three executors.                            *)
EXTENDS Executors

CONSTANTS w1, w2

Move(s, r) == [send |-> s, recv |-> r]

\* Two exchanges in a row as an all-reduce has them, an empty task and a send
\* after it; a broadcast's receive-then-send and one more exchange.
Long == << << <<Move(2, 2), Move(1, 1)>>, << >>, <<Move(1, 0)>> >>,
           << <<Move(0, 2), Move(2, 0)>>, <<Move(1, 1)>> >> >>

\* The same mixture with fewer units, for the executor with two workers.
Short == << << <<Move(2, 1)>>, << >>, <<Move(1, 0)>> >>, << <<Move(0, 1), Move(1, 0)>> >> >>

\* A channel that has nothing to do.
IdleLast == << << <<Move(1, 2)>> >>, << >> >>
IdleFirst == << << >>, << <<Move(1, 2)>>, <<Move(1, 1)>>, << >> >> >>

MCPlans == {Long, Short, IdleLast, IdleFirst}
MCCases ==
  {[executor |-> e, plan |-> p] : e \in {"epoll", "polling"}, p \in {Long, IdleLast, IdleFirst}}
  \cup {[executor |-> "reactor", plan |-> p] : p \in {Short, IdleFirst}}
MCThreads == {w1, w2}
=============================================================================
