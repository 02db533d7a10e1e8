------------------------------- MODULE Totals -------------------------------
(***************************************************************************)
(* The sum of a sequence of naturals, as the size of a set with w[i]       *)
(* members <<i, 1>>, <<i, 2>>, ... for each index i.  Defined without      *)
(* recursion so that the facts about finite sets apply to it.              *)
(***************************************************************************)
EXTENDS Integers, Sequences, FiniteSets

Units(w) == UNION {{i} \X (1 .. w[i]) : i \in DOMAIN w}

Total(w) == Cardinality(Units(w))
=============================================================================
