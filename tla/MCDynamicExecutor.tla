-------------------------- MODULE MCDynamicExecutor ---------------------------
(* Small instances of DynamicExecutor.                                       *)
EXTENDS DynamicExecutor

Exchange == [func |-> "Exchange", root |-> 0]
Broadcast(root) == [func |-> "Broadcast", root |-> root]

\* A failure in the first plan or in the second.
MCFaulty == { << <<Exchange>>, <<Broadcast(1)>> >> }

\* Fewer slices than channels, an odd slice left for the last claim, an
\* empty plan, and a second plan that must start again at slice 0.
MCRuns ==
  { << <<Exchange, Broadcast(1), Broadcast(0)>>, <<Exchange>> >>,
    << <<Exchange>>, << >>, <<Broadcast(1)>> >> } \cup MCFaulty
=============================================================================
