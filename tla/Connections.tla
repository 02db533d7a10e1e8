----------------------------- MODULE Connections ------------------------------
(***************************************************************************)
(* What Connect and Accept of a Transport promise, over the two that need  *)
(* more than a socket: TransportShm passes a ring's descriptors            *)
(* (ShmRendezvous), TransportRDMA and TransportRDMAZc go through the       *)
(* connection manager (RdmaConnect).  Several connectors meet one          *)
(* listener of one kind in a behaviour.                                    *)
(***************************************************************************)
EXTENDS Integers, Sequences, FiniteSets

CONSTANTS
  Conns,       \* the connections wanted, one connector each
  Retries,     \* kConnectRetryCount
  ShmFaults,   \* Faults of ShmRendezvous
  RdmaFaultSets \* FaultSets of RdmaConnect

VARIABLES
  kind,        \* of the listener (never changes)
  pc,          \* of the connectors and, for RDMA, of the accepting calls
  listening,   \* the listener is open
  zc, faults, stopped, requests, events, connected, posted, port, peer, live, zcQp,  \* RdmaConnect
  p2p, attempt, dir, held, backlog, toPassive, toActive, activeOpen, passiveOpen,
  apc, cur, adopted, adir, served, torn                                              \* ShmRendezvous

Rdma == INSTANCE RdmaConnect WITH FaultSets <- RdmaFaultSets
Shm == INSTANCE ShmRendezvous WITH Connectors <- Conns, Faults <- ShmFaults

ASSUME ConnectionsAssumption ==
  /\ Conns # {} /\ IsFiniteSet(Conns) /\ Retries \in Nat \ {0}
  /\ ShmFaults \subseteq Shm!AllFaults /\ RdmaFaultSets \subseteq SUBSET Rdma!AllFaults

rdmaVars == <<zc, faults, stopped, requests, events, connected, posted, port, peer, live, zcQp>>
shmVars == <<p2p, attempt, dir, held, backlog, toPassive, toActive, activeOpen, passiveOpen,
             apc, cur, adopted, adir, served, torn>>
vars == <<kind, pc, listening, rdmaVars, shmVars>>

NoRdma ==
  /\ zc = FALSE /\ faults = {} /\ stopped = FALSE /\ requests = << >> /\ events = << >>
  /\ connected = << >> /\ posted = << >> /\ port = << >> /\ peer = << >> /\ live = {} /\ zcQp = {}
NoShm ==
  /\ p2p = FALSE /\ attempt = << >> /\ dir = << >> /\ held = << >> /\ backlog = << >>
  /\ toPassive = << >> /\ toActive = << >> /\ activeOpen = {} /\ passiveOpen = {}
  /\ apc = "none" /\ cur = << >> /\ adopted = {} /\ adir = << >> /\ served = {} /\ torn = {}

RdmaInit == kind = "rdma" /\ Rdma!Init /\ NoShm
ShmInit == kind = "shm" /\ Shm!Init /\ NoRdma

Init == RdmaInit \/ ShmInit

RdmaConnector(c) == kind = "rdma" /\ Rdma!ConnectSide(c) /\ UNCHANGED <<kind, shmVars>>
RdmaAcceptor == kind = "rdma" /\ Rdma!AcceptSide /\ UNCHANGED <<kind, shmVars>>
RdmaCaller == kind = "rdma" /\ Rdma!CallerSide /\ UNCHANGED <<kind, shmVars>>
ShmConnector(c) == kind = "shm" /\ Shm!ConnectSide(c) /\ UNCHANGED <<kind, rdmaVars>>
ShmAcceptor == kind = "shm" /\ Shm!AcceptSide /\ UNCHANGED <<kind, rdmaVars>>
ShmCaller == kind = "shm" /\ Shm!CallerSide /\ UNCHANGED <<kind, rdmaVars>>

Next ==
  \/ RdmaAcceptor \/ RdmaCaller \/ ShmAcceptor \/ ShmCaller
  \/ \E c \in Conns : RdmaConnector(c) \/ ShmConnector(c)

\* Each thread is scheduled, and the connection manager delivers its events;
\* nothing is assumed of the moment at which a caller that has failed comes
\* back or closes its listener.
Fairness ==
  /\ WF_vars(RdmaAcceptor) /\ WF_vars(ShmAcceptor)
  /\ \A c \in Conns : WF_vars(RdmaConnector(c)) /\ WF_vars(ShmConnector(c))

Spec == Init /\ [][Next]_vars /\ Fairness

-----------------------------------------------------------------------------
(* Properties *)

IsRdma == kind = "rdma"
IsShm == kind = "shm"

\* Whatever fails and whoever retries, an end that has got a transport may
\* use it.  RDMA: its peer's call has not failed, they hold each other's
\* memory (and both queue pairs), and the peer's receive pool was posted
\* before the first end could send.  SHM: both ends hold the ring of the
\* same attempt, one as producer and one as consumer.
SameOutcome ==
  /\ IsRdma => Rdma!TypeOK /\ Rdma!PoolReady /\ Rdma!SameOutcome
  /\ IsShm => Shm!TypeOK /\ Shm!SharedRing

\* No failure path of the shared-memory rendezvous leaves a descriptor open,
\* through all the attempts of a connector and all the calls of an acceptor,
\* but that of RecvResources on a message whose descriptors came in part.
NoLeak == IsShm => Shm!NoLeak

\* Nor does that one (it does: nobody closes what was installed).
NoLeakAtAll == IsShm => Shm!NoLeak /\ Shm!NothingOrphaned

\* Every Connect and Accept (and, for SHM, handshake) under way returns,
\* whatever fails in the rendezvous; for RDMA when what fails is at the
\* accepting end, where a rejection ends the wait.  Only a connection that
\* nobody has taken up when the accepting caller stops waits as long as the
\* listener stays open.
CallsReturn == <>[](IF IsRdma THEN Rdma!AllReturned ELSE Shm!AllReturned)
=============================================================================
