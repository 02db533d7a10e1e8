------------------------------- MODULE Ordered ------------------------------
(***************************************************************************)
(* Sequences put in order.  The member that comes k-th is the one with     *)
(* k - 1 members before it: a definition without recursion, so that the    *)
(* facts about finite sets apply to it.                                    *)
(***************************************************************************)
EXTENDS Integers, Sequences, FiniteSets

\* The members of a set of numbers, the smallest first.
Ascending(S) ==
  [k \in 1 .. Cardinality(S) |-> CHOOSE i \in S : Cardinality({j \in S : j < i}) = k - 1]

\* The members of a set, those first that come before the others in the order
\* given as a set of pairs.
Sorted(S, before) ==
  [k \in 1 .. Cardinality(S) |-> CHOOSE x \in S : Cardinality({y \in S : <<y, x>> \in before}) = k - 1]
=============================================================================
