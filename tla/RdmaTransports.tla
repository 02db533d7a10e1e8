---------------------------- MODULE RdmaTransports ----------------------------
(***************************************************************************)
(* The two data paths of the RDMA transports: the ring of slots that       *)
(* TransportRDMA uses for everything and TransportRDMAZc for small         *)
(* messages (RdmaRing), and the zero-copy path TransportRDMAZc adds        *)
(* (RdmaZc, which sees the ring as messages that arrive whole).  A         *)
(* behaviour looks at one of them in detail; the other stays as it was     *)
(* set up.                                                                 *)
(***************************************************************************)
EXTENDS RdmaRing

CONSTANTS
  Window, Threshold, ZcChunk,   \* as in RdmaZc
  ZcPlans, Failures             \* Plans and Failures of RdmaZc

VARIABLES
  path,        \* the path looked at (never changes)
  zcPlan, zcBatch, zcActive, posted, completed, mr, sq, rq, acks, zcCq, ringWire, arrivals, filled,
  aborted, torn

Zc == INSTANCE RdmaZc
        WITH Plans <- ZcPlans, plan <- zcPlan, batch <- zcBatch, cq <- zcCq

ASSUME ZcAssumption ==
  /\ Window \in Nat \ {0} /\ Threshold \in Nat \ {0}
  /\ ZcChunk \in [Zc!Ends -> Nat \ {0}]
  /\ Failures \in Nat
  /\ \A pl \in ZcPlans : pl \in Seq(Zc!Message) /\ \A b \in DOMAIN pl : pl[b].size > 0

zcVars == <<zcPlan, zcBatch, zcActive, posted, completed, mr, sq, rq, acks, zcCq, ringWire, arrivals, filled,
            aborted, torn>>
pathVars == <<path, vars, zcVars>>

RingInit == path = "ring" /\ Init /\ Zc!Init /\ zcPlan = (CHOOSE pl \in ZcPlans : TRUE)
ZcInit == path = "zc" /\ Init /\ Zc!Init /\ plan = (CHOOSE pl \in Plans : TRUE) /\ active = Producer

PathInit == RingInit \/ ZcInit

RingStep == path = "ring" /\ Next /\ UNCHANGED <<path, zcVars>>
ZcStep == path = "zc" /\ Zc!Next /\ UNCHANGED <<path, vars>>

PathNext == RingStep \/ ZcStep

\* Both processes are scheduled and call again until they are done; the card
\* executes what is posted.
PathFairness ==
  /\ \A e \in Ends :
       /\ WF_pathVars(path = "ring" /\ EndStep(e) /\ UNCHANGED <<path, zcVars>>)
       /\ WF_pathVars(path = "ring" /\ Execute(e) /\ UNCHANGED <<path, zcVars>>)
  /\ WF_pathVars(path = "zc" /\ Zc!SenderStep /\ UNCHANGED <<path, vars>>)
  /\ WF_pathVars(path = "zc" /\ Zc!ReceiverStep /\ UNCHANGED <<path, vars>>)
  /\ WF_pathVars(path = "zc" /\ Zc!ExecuteSend /\ UNCHANGED <<path, vars>>)
  /\ WF_pathVars(path = "zc" /\ Zc!AcknowledgeSend /\ UNCHANGED <<path, vars>>)
  /\ WF_pathVars(path = "zc" /\ Zc!ExecuteWrite /\ UNCHANGED <<path, vars>>)

PathSpec == PathInit /\ [][PathNext]_pathVars /\ PathFairness

-----------------------------------------------------------------------------
(* Properties; CreditConserved, SlotsReady, NoLostWakeup and                *)
(* ImplementsChannel of RdmaRing are checked too                            *)

\* Once TrySend or TryRecv has said done, the card has nothing more to do with
\* the caller's buffer: a request not yet executed is of the message its end
\* is at or of one whose call or plan failed, inside a region still registered
\* for that message, and fits the queue; when a transfer is released no request
\* and no late completion of it is left (transport_rdma_zc.cpp:178, :198,
\* :326).  Nothing is said of an end that had a chain posted in part (:261,
\* :281), whose requests and counters no longer agree.
BufferOwned == Zc!TypeOK /\ Zc!QuietRelease /\ Zc!RegionCovers /\ Zc!QueueFits

\* After a failed call or an aborted plan the card no longer holds the
\* caller's buffer, which docs/layers/communicator.md:58 lets the caller free
\* when GroupEnd returns.  It does hold it, until Close.
FailedLetGo ==
  \A e \in Zc!Ends : \A i \in DOMAIN Zc!Queue(e) : <<e, Zc!Queue(e)[i].msg>> \notin aborted

\* The receiver's buffer gets the chunks of the message it is for, each at
\* its own place and all of them before TryRecv says done, although the two
\* ends cut messages by a chunk size each works out alone; up to the first
\* message that fails at either end, and whatever fails after it.
ZcExact == Zc!Exact

\* Every message is eventually delivered, whichever path it takes, unless a
\* call or a plan fails.
PathCompletes == <>(IF path = "ring" THEN AllDone ELSE Zc!AllDone \/ aborted /= {})
=============================================================================
