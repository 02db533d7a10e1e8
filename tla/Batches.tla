------------------------------- MODULE Batches --------------------------------
(***************************************************************************)
(* What ranks that submit batches may rely on although none tells another  *)
(* what it is about to do: that their plans match (Communicator) and that  *)
(* each Recv gets its Send over connections made on the way (P2pExchange). *)
(* The two look at a batch at different moments, before and during Run;    *)
(* one of them is at work in a behaviour.                                  *)
(***************************************************************************)
EXTENDS Planner, FiniteSets

CONSTANTS
  WorldSize, ConfigChannels, DefaultChannels, DynamicEnabled,  \* of Communicator
  Capacity,       \* of P2pExchange
  CallPrograms,   \* Programs of Communicator
  BatchPrograms   \* Programs of P2pExchange

VARIABLES
  moment,      \* "plan" or "exchange" (never changes)
  program,     \* the ranks' calls or batches
  configured, next, depth, pending, accepted, runs, answers,               \* Communicator
  blocking, batch, phase, round, cState, aState, error, backlog, sendConn,
  recvConn, tasks, queue, pos, progress, dropped, wire, got                \* P2pExchange

Calls == INSTANCE Communicator WITH Programs <- CallPrograms
P2p == INSTANCE P2pExchange WITH N <- WorldSize, Programs <- BatchPrograms

ASSUME BatchesAssumption ==
  /\ WorldSize \in Nat \ {0, 1} /\ DefaultChannels \in Nat \ {0} /\ Capacity \in Nat \ {0}
  /\ ConfigChannels \subseteq Nat /\ DynamicEnabled \in BOOLEAN

callVars == <<configured, next, depth, pending, accepted, runs, answers>>
p2pVars == <<blocking, batch, phase, round, cState, aState, error, backlog, sendConn,
             recvConn, tasks, queue, pos, progress, dropped, wire, got>>
vars == <<moment, program, callVars, p2pVars>>

NoCalls ==
  /\ configured = 0 /\ next = << >> /\ depth = << >> /\ pending = << >>
  /\ accepted = << >> /\ runs = << >> /\ answers = << >>
NoExchange ==
  /\ blocking = FALSE /\ batch = << >> /\ phase = << >> /\ round = << >> /\ cState = << >> /\ aState = << >>
  /\ error = << >> /\ backlog = << >> /\ sendConn = << >> /\ recvConn = << >> /\ tasks = << >>
  /\ queue = << >> /\ pos = << >> /\ progress = << >> /\ dropped = << >> /\ wire = << >> /\ got = << >>

Init ==
  \/ moment = "plan" /\ Calls!Init /\ NoExchange
  \/ moment = "exchange" /\ P2p!Init /\ NoCalls

CallStep == moment = "plan" /\ Calls!Next /\ UNCHANGED <<moment, p2pVars>>
P2pStep == moment = "exchange" /\ P2p!Next /\ UNCHANGED <<moment, callVars>>

Next == CallStep \/ P2pStep

\* Every thread of every rank is scheduled (fairness of P2pExchange).
RankStep(r) == moment = "exchange" /\ P2p!RankStep(r) /\ UNCHANGED <<moment, callVars>>
Fairness == \A r \in 0 .. WorldSize - 1 : WF_vars(RankStep(r))

Spec == Init /\ [][Next]_vars /\ Fairness

-----------------------------------------------------------------------------
(* Properties *)

Planning == moment = "plan"
Exchanging == moment = "exchange"

\* The slices of a collective tile its buffer, and each but the last is a
\* whole number of units, at every boundary of EmitCollectiveSlices.
SlicesTile == Planning => Calls!SlicesTile

\* Ranks that group the same collectives agree on every slice and its place
\* if they run the batch on the same executor, whatever messages each adds;
\* and they do so if all or none of them add messages.  (Flush decides by the
\* rank's own batch: ExecutorsAgree fails.)
PlansAgree == Planning => Calls!PlansAgree

\* Each task accepted is in exactly one plan, in nested groups and after
\* refused submissions and failed flushes.
BatchesWhole == Planning => Calls!BatchesWhole

\* Whatever order the rounds of the ranks interleave in, a pair has at most
\* one connection per direction, and a batch runs only with those it needs.
WiredOnce == Exchanging => P2p!WiredOnce

\* Every element lands at its place in the buffer of the Recv that belongs
\* to its Send, however the ranks group the messages.
Delivered == Exchanging => P2p!Delivered

\* Unless something fails every rank gets through all its batches: the
\* rounds make no circle of ranks wait for each other's connection.
Completes == <>(Exchanging => P2p!AllDone \/ P2p!SomeFailed)

\* docs/layers/communicator.md of a batch: the ranks submit the same
\* collectives, messages concern only the two ends, and all tasks enter one
\* CollPlan.  So ranks that group the same collectives run them on the same
\* executor, or one would read as control messages what another sends as data.
ExecutorsAgree == Planning => Calls!ExecutorsAgree

\* The comment in Flush: "A balanced slice set (at most one slice per
\* channel) gains nothing from dynamic scheduling ... so fall back to the
\* static path."
BalancedIsStatic == Planning => Calls!BalancedIsStatic

\* docs/layers/planner.md, of the connections Plan prepares: a failure is
\* reported by Plan's return value.  So once a thread of PrepareRound has
\* failed, Plan returns false and the batch with it.
FailureReported == \A r \in 0 .. WorldSize - 1 : (Exchanging /\ error[r]) ~> (Exchanging => phase[r] = "failed")
=============================================================================
