----------------------------- MODULE MCShmRing ------------------------------
(* Instances of ShmRing for TLC. *)
EXTENDS ShmRing

\* Two batches of at most MaxEnd bytes in all, with the given pairs of modes.
MaxEnd == 7

TwoBatches(modePairs) ==
  { << [end |-> e, mode |-> m[1]], [end |-> MaxEnd, mode |-> m[2]] >> :
      e \in 1 .. MaxEnd - 1, m \in modePairs }

\* Executors whose modes settle: one kind throughout, or EventDriven first.
MCSettledPlans ==
  TwoBatches({ <<"EventDriven", "EventDriven">>, <<"EventDriven", "Polling">>,
               <<"Polling", "Polling">> })

\* A dynamic batch (Polling) followed by a static one on EpollExecutor.
MCSwitchingPlans == TwoBatches({ <<"Polling", "EventDriven">> })
=============================================================================
