-------------------------------- MODULE Startup -------------------------------
(***************************************************************************)
(* Communicator::Init with more than one rank: every rank opens its data-  *)
(* plane listeners, the ranks exchange NodeInfo through rank 0             *)
(* (bootstrap.cpp), each decides on its own which transport the network    *)
(* edges use and which edges it has, and InitChannels builds them with a   *)
(* connect thread and an accept thread per rank (communicator.cpp).  The   *)
(* ranks are processes of their own: nothing but messages tells one where  *)
(* another stands.  The P2P listeners belong to module P2pExchange, the    *)
(* connection manager's part of an RDMA connection to RdmaConnect.         *)
(***************************************************************************)
EXTENDS Ordered

CONSTANTS
  N,            \* world_size
  Channels,     \* the channels modelled, of 0 .. n_channels - 1
  Setups,       \* the clusters to consider: host and RDMA device per rank,
                \* and SharedMemoryEnabled, alike on all ranks
  Retries,      \* kConnectRetryCount
  MaxFaults     \* bound: how many connection attempts fail in a behaviour

Ranks == 0..(N - 1)
Workers == Ranks \ {0}
Nets == {"tcp", "rdma", "shm"}

ASSUME StartupAssumption ==
  /\ N \in Nat \ {0, 1}
  /\ Channels \subseteq Nat /\ IsFiniteSet(Channels)
  /\ Retries \in Nat \ {0}
  /\ MaxFaults \in Nat
  /\ \A u \in Setups : DOMAIN u.host = Ranks /\ u.rdma \in [Ranks -> BOOLEAN] /\ u.shm \in BOOLEAN

VARIABLES
  setup,       \* this cluster (never changes)
  pc,          \* where Init is
  listening,   \* the data-plane listeners a rank holds open
  bootQueue,   \* workers in the backlog of the bootstrap listener
  socks,       \* worker_socks, in the order of accept()
  infos,       \* workers whose NodeInfo is in their socket to rank 0
  shared,      \* the list rank 0 has sent to a worker, or NoNodes
  nodes,       \* all_nodes_
  done,        \* rank 0: sockets it has received from, or sent to
  rdmaReady,   \* rdma_ready
  edges,       \* the edges InitChannels gets from the topologies
  todo,        \* connect_edges not yet connected
  attempt,     \* attempt of the first of them
  connecter,   \* connect_thread: off, idle, await, greet, ack, end
  owed,        \* connections accept_thread still expects
  accepter,    \* accept_thread: off, check, poll, greet, end
  incoming,    \* the connection it has accepted last
  conns,       \* connections that were made
  wires,       \* connectors with a transport, and which connection it is
  error,       \* error_occurred
  faults       \* failed attempts so far

bootVars == <<bootQueue, socks, infos, shared, done>>
viewVars == <<nodes, rdmaReady, edges>>
connectVars == <<todo, attempt, connecter>>
acceptVars == <<owed, accepter, incoming>>
vars == <<setup, pc, listening, bootVars, viewVars, connectVars, acceptVars,
          conns, wires, error, faults>>

NoNode == [rank |-> -1]
NoNodes == [r \in Ranks |-> NoNode]
NoConn == [from |-> -1]

\* The NodeInfo a rank announces; a port of 0 says it has no RDMA listener.
LocalNode(r) == [rank |-> r, host |-> setup.host[r], rdmaPort |-> IF setup.rdma[r] THEN 1 ELSE 0]

Init ==
  /\ setup \in Setups
  /\ pc = [r \in Ranks |-> "listen"]
  /\ listening = [r \in Ranks |-> {}]
  /\ bootQueue = << >> /\ socks = << >> /\ infos = {} /\ done = 0
  /\ shared = [w \in Workers |-> NoNodes]
  /\ nodes = [r \in Ranks |-> NoNodes]
  /\ rdmaReady = [r \in Ranks |-> FALSE]
  /\ edges = [r \in Ranks |-> {}]
  /\ todo = [r \in Ranks |-> << >>]
  /\ attempt = [r \in Ranks |-> 1]
  /\ connecter = [r \in Ranks |-> "off"]
  /\ owed = [r \in Ranks |-> 0]
  /\ accepter = [r \in Ranks |-> "off"]
  /\ incoming = [r \in Ranks |-> NoConn]
  /\ conns = {}
  /\ wires = [r \in Ranks |-> {}]
  /\ error = [r \in Ranks |-> FALSE]
  /\ faults = 0

-----------------------------------------------------------------------------
(* Listeners and bootstrap *)

\* The listeners are open before the rank says anything about itself.
OpenListeners(r) ==
  {"tcp"} \cup (IF setup.rdma[r] THEN {"rdma"} ELSE {}) \cup (IF setup.shm THEN {"shm"} ELSE {})

Listen(r) ==
  /\ pc[r] = "listen"
  /\ listening' = [listening EXCEPT ![r] = OpenListeners(r)]
  /\ pc' = [pc EXCEPT ![r] = IF r = 0 THEN "accept" ELSE "join"]
  /\ nodes' = IF r = 0 THEN [nodes EXCEPT ![0][0] = LocalNode(0)] ELSE nodes
  /\ UNCHANGED <<setup, bootVars, rdmaReady, edges, connectVars, acceptVars, conns, wires, error, faults>>

\* RunWorker: the bootstrap listener has been open since GetUniqueId.
JoinMaster(w) ==
  /\ pc[w] = "join"
  /\ bootQueue' = Append(bootQueue, w)
  /\ pc' = [pc EXCEPT ![w] = "announce"]
  /\ UNCHANGED <<setup, listening, socks, infos, shared, done, viewVars, connectVars, acceptVars, conns, wires, error, faults>>

SendNodeInfo(w) ==
  /\ pc[w] = "announce"
  /\ infos' = infos \cup {w}
  /\ pc' = [pc EXCEPT ![w] = "learn"]
  /\ UNCHANGED <<setup, listening, bootQueue, socks, shared, done, viewVars, connectVars, acceptVars, conns, wires, error, faults>>

\* RunMaster: AcceptConnections takes the workers in the order they came ...
AcceptWorker ==
  /\ pc[0] = "accept" /\ bootQueue # << >>
  /\ bootQueue' = Tail(bootQueue)
  /\ socks' = Append(socks, Head(bootQueue))
  /\ pc' = [pc EXCEPT ![0] = IF Len(socks') = N - 1 THEN "collect" ELSE "accept"]
  /\ UNCHANGED <<setup, listening, infos, shared, done, viewVars, connectVars, acceptVars, conns, wires, error, faults>>

\* Mutant: a node's place in the list is its place in the accept order.
PlaceByAccept(k) == k

\* ... and stores a NodeInfo under the rank it names.
Place(k) == LocalNode(socks[k]).rank

RecvNodeInfo ==
  /\ pc[0] = "collect" /\ socks[done + 1] \in infos
  /\ nodes' = [nodes EXCEPT ![0][Place(done + 1)] = LocalNode(socks[done + 1])]
  /\ done' = (done + 1) % (N - 1)
  /\ pc' = [pc EXCEPT ![0] = IF done' = 0 THEN "share" ELSE "collect"]
  /\ UNCHANGED <<setup, listening, bootQueue, socks, infos, shared, rdmaReady, edges, connectVars, acceptVars, conns, wires, error, faults>>

\* BroadcastAllNodes, one socket after the other.
BroadcastAllNodes ==
  /\ pc[0] = "share"
  /\ shared' = [shared EXCEPT ![socks[done + 1]] = nodes[0]]
  /\ done' = (done + 1) % (N - 1)
  /\ pc' = [pc EXCEPT ![0] = IF done' = 0 THEN "decide" ELSE "share"]
  /\ UNCHANGED <<setup, listening, bootQueue, socks, infos, viewVars, connectVars, acceptVars, conns, wires, error, faults>>

RecvAllNodes(w) ==
  /\ pc[w] = "learn" /\ shared[w] # NoNodes
  /\ nodes' = [nodes EXCEPT ![w] = shared[w]]
  /\ pc' = [pc EXCEPT ![w] = "decide"]
  /\ UNCHANGED <<setup, listening, bootVars, rdmaReady, edges, connectVars, acceptVars, conns, wires, error, faults>>

-----------------------------------------------------------------------------
(* What a rank derives from its list of nodes *)

\* Mutant: a rank that can do RDMA does not ask about the others.
RdmaReadyOwn(r) == setup.rdma[r]

RdmaReady(r) == setup.rdma[r] /\ \A p \in Ranks : nodes[r][p].rdmaPort # 0

SameHost(r, p) == nodes[r][p].host = nodes[r][r].host

\* local_ranks, and machine_leaders in the order machines first appear.
LocalRanks(r, p) == {q \in Ranks : nodes[r][q].host = nodes[r][p].host}
LeaderOf(r, p) == CHOOSE q \in LocalRanks(r, p) : \A o \in LocalRanks(r, p) : q <= o
MachineLeaders(r) == Ascending({LeaderOf(r, p) : p \in Ranks})
MachineIndex(r) == CHOOSE i \in DOMAIN MachineLeaders(r) : MachineLeaders(r)[i] = LeaderOf(r, r)

\* TopologyTree::FillChannels: leaders form a binary tree over the machines,
\* mirrored on odd channels (machine i plays the part of the i-th last).
Mirror(r, ch, i) == IF ch % 2 = 0 THEN i ELSE Len(MachineLeaders(r)) + 1 - i

TreeParent(r, ch) ==
  LET node == Mirror(r, ch, MachineIndex(r)) IN
  IF node = 1 THEN {} ELSE {MachineLeaders(r)[Mirror(r, ch, node \div 2)]}

TreeChildren(r, ch) ==
  LET node == Mirror(r, ch, MachineIndex(r)) IN
  {MachineLeaders(r)[Mirror(r, ch, i)] : i \in {2 * node, (2 * node) + 1} \cap DOMAIN MachineLeaders(r)}

StarPeers(r) == IF LeaderOf(r, r) = r THEN LocalRanks(r, r) \ {r} ELSE {LeaderOf(r, r)}

TreePeers(r, ch) ==
  StarPeers(r) \cup (IF LeaderOf(r, r) = r THEN TreeParent(r, ch) \cup TreeChildren(r, ch) ELSE {})

\* The directed edges of rank r, ring and tree together, without duplicates.
PeerEdges(r) ==
  UNION {{[ch |-> ch, peer |-> (r + 1) % N, send |-> TRUE],
          [ch |-> ch, peer |-> (r + N - 1) % N, send |-> FALSE]} \cup
         {[ch |-> ch, peer |-> p, send |-> s] : p \in TreePeers(r, ch), s \in BOOLEAN} : ch \in Channels}

\* std::sort by channel, peer and direction.
EdgeBefore(a, b) ==
  \/ a.ch < b.ch
  \/ a.ch = b.ch /\ a.peer < b.peer
  \/ a.ch = b.ch /\ a.peer = b.peer /\ ~a.send /\ b.send

ActiveEdges(r, es) == {e \in es : r < e.peer}
ConnectEdges(r, es) == Sorted(ActiveEdges(r, es), {b \in es \X es : EdgeBefore(b[1], b[2])})
AcceptEdges(r, es) == {e \in es : r > e.peer}

\* One network listener is kept, and the shared-memory one if there is one.
KeptListeners(r) == listening[r] \ {IF RdmaReady(r) THEN "tcp" ELSE "rdma"}

\* The rest of Init up to the two threads of InitChannels.
Decide(r) ==
  /\ pc[r] = "decide"
  /\ rdmaReady' = [rdmaReady EXCEPT ![r] = RdmaReady(r)]
  /\ listening' = [listening EXCEPT ![r] = KeptListeners(r)]
  /\ edges' = [edges EXCEPT ![r] = PeerEdges(r)]
  /\ todo' = [todo EXCEPT ![r] = ConnectEdges(r, edges'[r])]
  /\ owed' = [owed EXCEPT ![r] = Cardinality(AcceptEdges(r, edges'[r]))]
  /\ connecter' = [connecter EXCEPT ![r] = "idle"]
  /\ accepter' = [accepter EXCEPT ![r] = "check"]
  /\ pc' = [pc EXCEPT ![r] = "wire"]
  /\ UNCHANGED <<setup, bootVars, nodes, attempt, incoming, conns, wires, error, faults>>

-----------------------------------------------------------------------------
(* ConnectActiveEdges *)

Net(r, p) ==
  IF setup.shm /\ SameHost(r, p) THEN "shm" ELSE IF rdmaReady[r] THEN "rdma" ELSE "tcp"

ConnOf(r) ==
  LET e == Head(todo[r]) IN
  [from |-> r, to |-> e.peer, ch |-> e.ch, send |-> e.send, net |-> Net(r, e.peer)]

Trying(r) == connecter[r] = "idle" /\ todo[r] # << >>
Refused(r) == ConnOf(r).net \notin listening[ConnOf(r).to]

\* transport->Connect: TCP and shared memory need only the backlog, RDMA waits
\* for the acceptor.
Connect(r) ==
  /\ Trying(r)
  /\ ~Refused(r)
  /\ conns' = conns \cup {[conn |-> ConnOf(r), accepted |-> FALSE, greeted |-> FALSE]}
  /\ attempt' = [attempt EXCEPT ![r] = 1]
  /\ connecter' = [connecter EXCEPT ![r] = IF ConnOf(r).net = "rdma" THEN "await" ELSE "greet"]
  /\ UNCHANGED <<setup, pc, listening, bootVars, viewVars, todo, acceptVars, wires, error, faults>>

\* An attempt fails: Close and try again, up to kConnectRetryCount times.
ConnectFails(r) ==
  /\ Trying(r)
  /\ Refused(r) \/ faults < MaxFaults
  /\ faults' = IF Refused(r) THEN faults ELSE faults + 1
  /\ IF attempt[r] < Retries
     THEN attempt' = [attempt EXCEPT ![r] = @ + 1] /\ UNCHANGED <<connecter, error>>
     ELSE /\ error' = [error EXCEPT ![r] = TRUE]
          /\ connecter' = [connecter EXCEPT ![r] = "end"]
          /\ UNCHANGED attempt
  /\ UNCHANGED <<setup, pc, listening, bootVars, viewVars, todo, acceptVars, conns, wires>>

RdmaEstablished(r) ==
  /\ connecter[r] = "await"
  /\ [conn |-> ConnOf(r), accepted |-> TRUE, greeted |-> FALSE] \in conns
  /\ connecter' = [connecter EXCEPT ![r] = "greet"]
  /\ UNCHANGED <<setup, pc, listening, bootVars, viewVars, todo, attempt, acceptVars, conns, wires, error, faults>>

Wire(r, peer, ch, send, conn) ==
  wires' = [wires EXCEPT ![r] = {w \in @ : <<w.peer, w.ch, w.send>> # <<peer, ch, send>>}
                                \cup {[peer |-> peer, ch |-> ch, send |-> send, conn |-> conn]}]

\* The handshake is sent and the connector gets its transport: at once, or
\* over shared memory when the peer's Recv has answered.
Wired(r) ==
  /\ Wire(r, ConnOf(r).to, ConnOf(r).ch, ConnOf(r).send, ConnOf(r))
  /\ todo' = [todo EXCEPT ![r] = Tail(@)]
  /\ connecter' = [connecter EXCEPT ![r] = "idle"]

Greet(r) ==
  /\ connecter[r] = "greet"
  /\ conns' = {[c EXCEPT !.greeted = @ \/ c.conn = ConnOf(r)] : c \in conns}
  /\ IF ConnOf(r).net = "shm"
     THEN connecter' = [connecter EXCEPT ![r] = "ack"] /\ UNCHANGED <<todo, wires>>
     ELSE Wired(r)
  /\ UNCHANGED <<setup, pc, listening, bootVars, viewVars, attempt, acceptVars, error, faults>>

Acknowledged(r) ==
  /\ connecter[r] = "ack"
  /\ \E w \in wires[ConnOf(r).to] : w.conn = ConnOf(r)
  /\ Wired(r)
  /\ UNCHANGED <<setup, pc, listening, bootVars, viewVars, attempt, acceptVars, conns, error, faults>>

ConnectEnds(r) ==
  /\ connecter[r] = "idle"
  /\ todo[r] = << >>
  /\ connecter' = [connecter EXCEPT ![r] = "end"]
  /\ UNCHANGED <<setup, pc, listening, bootVars, viewVars, todo, attempt, acceptVars, conns, wires, error, faults>>

-----------------------------------------------------------------------------
(* AcceptPassiveEdges *)

\* error_occurred is looked at before each poll, and only then.
AcceptCheck(r) ==
  /\ accepter[r] = "check"
  /\ accepter' = [accepter EXCEPT ![r] = IF owed[r] = 0 \/ error[r] THEN "end" ELSE "poll"]
  /\ UNCHANGED <<setup, pc, listening, bootVars, viewVars, connectVars, owed, incoming, conns, wires, error, faults>>

\* poll(-1) over the listeners, then Accept.
Accept(r) ==
  /\ accepter[r] = "poll"
  /\ \E c \in conns :
       /\ c.conn.to = r /\ ~c.accepted
       /\ conns' = (conns \ {c}) \cup {[c EXCEPT !.accepted = TRUE]}
       /\ incoming' = [incoming EXCEPT ![r] = c.conn]
  /\ accepter' = [accepter EXCEPT ![r] = "greet"]
  /\ UNCHANGED <<setup, pc, listening, bootVars, viewVars, connectVars, owed, wires, error, faults>>

\* Mutant: both ends of an edge take the same direction.
LocalSideSame(send) == send

LocalSide(send) == ~send

\* The handshake names the connector this end belongs to; over shared memory
\* Recv answers it.
RecvHandshake(r) ==
  LET c == incoming[r] IN
  /\ accepter[r] = "greet"
  /\ [conn |-> c, accepted |-> TRUE, greeted |-> TRUE] \in conns
  /\ Wire(r, c.from, c.ch, LocalSide(c.send), c)
  /\ owed' = [owed EXCEPT ![r] = @ - 1]
  /\ accepter' = [accepter EXCEPT ![r] = "check"]
  /\ UNCHANGED <<setup, pc, listening, bootVars, viewVars, connectVars, incoming, conns, error, faults>>

\* Both threads are joined, then the listeners are closed.
JoinThreads(r) ==
  /\ pc[r] = "wire" /\ connecter[r] = "end" /\ accepter[r] = "end"
  /\ listening' = [listening EXCEPT ![r] = {}]
  /\ pc' = [pc EXCEPT ![r] = IF error[r] THEN "failed" ELSE "ok"]
  /\ UNCHANGED <<setup, bootVars, viewVars, connectVars, acceptVars, conns, wires, error, faults>>

-----------------------------------------------------------------------------

InitThread(r) ==
  \/ Listen(r) \/ Decide(r) \/ JoinThreads(r)
  \/ r = 0 /\ (AcceptWorker \/ RecvNodeInfo \/ BroadcastAllNodes)
  \/ r \in Workers /\ (JoinMaster(r) \/ SendNodeInfo(r) \/ RecvAllNodes(r))

ConnectThread(r) == Connect(r) \/ RdmaEstablished(r) \/ Greet(r) \/ Acknowledged(r) \/ ConnectEnds(r)
AcceptThread(r) == AcceptCheck(r) \/ Accept(r) \/ RecvHandshake(r)

Next == \E r \in Ranks : InitThread(r) \/ ConnectThread(r) \/ ConnectFails(r) \/ AcceptThread(r)

\* Every thread is scheduled.  A connection attempt need not fail.
Fairness ==
  \A r \in Ranks : WF_vars(InitThread(r)) /\ WF_vars(ConnectThread(r) \/ ConnectFails(r)) /\ WF_vars(AcceptThread(r))

Spec == Init /\ [][Next]_vars /\ Fairness

-----------------------------------------------------------------------------
(* Properties *)

Decided(r) == pc[r] \in {"wire", "ok", "failed"}

\* Every variable has its type; a rank that has decided keeps at most one
\* network listener.
TypeOK ==
  /\ pc \in [Ranks -> {"listen", "accept", "collect", "share", "join", "announce", "learn", "decide",
                       "wire", "ok", "failed"}]
  /\ \A r \in Ranks : listening[r] \subseteq Nets /\ (Decided(r) => ~{"tcp", "rdma"} \subseteq listening[r])
  /\ \A k \in DOMAIN bootQueue : bootQueue[k] \in Workers
  /\ \A k \in DOMAIN socks : socks[k] \in Workers
  /\ infos \subseteq Workers
  /\ done \in 0..(N - 1)
  /\ rdmaReady \in [Ranks -> BOOLEAN] /\ error \in [Ranks -> BOOLEAN]
  /\ attempt \in [Ranks -> 1..Retries]
  /\ connecter \in [Ranks -> {"off", "idle", "await", "greet", "ack", "end"}]
  /\ accepter \in [Ranks -> {"off", "check", "poll", "greet", "end"}]
  /\ \A r \in Ranks : owed[r] \in Nat
  /\ faults \in 0..MaxFaults

\* Whatever order the workers reach rank 0 in, every rank that has left the
\* bootstrap holds each rank's own NodeInfo at that rank's place.
SameView ==
  \A r \in Ranks : pc[r] = "decide" \/ Decided(r) => \A p \in Ranks : nodes[r][p] = LocalNode(p)

\* The ranks decide alone and must agree: on RDMA or TCP, and on the edges,
\* each of which the other end has with the opposite direction (the mirrored
\* tree included).
DecisionsAgree ==
  \A r, p \in Ranks : Decided(r) /\ Decided(p) =>
    /\ rdmaReady[r] = rdmaReady[p]
    /\ \A e \in edges[r] : e.peer = p => [ch |-> e.ch, peer |-> r, send |-> ~e.send] \in edges[p]

\* Every rank leaves the bootstrap with one view of all nodes and draws from
\* it, alone, the same conclusions (Communicator::Init after Bootstrap::Run).
CommonView == TypeOK /\ SameView /\ DecisionsAgree

\* A rank may start to connect while its peer is still in the bootstrap, and
\* go on when the peer has all it needs; the listener it asks for is open
\* whenever it asks (opened before the bootstrap, the unused one closed only
\* after it, the rest only after both threads are joined).
ListenerOpen ==
  \A r \in Ranks : pc[r] = "wire" /\ Trying(r) => ~Refused(r)

\* Where Init has succeeded at both ends of an edge, the two connectors hold
\* the two ends of one connection, whichever order the connections came in;
\* and a rank that has succeeded has every edge of its topologies.
WiredAlike ==
  \A r \in Ranks : pc[r] = "ok" =>
    \A e \in edges[r] : \E w \in wires[r] :
      /\ w.peer = e.peer /\ w.ch = e.ch /\ w.send = e.send
      /\ pc[e.peer] = "ok" =>
           [peer |-> r, ch |-> e.ch, send |-> ~e.send, conn |-> w.conn] \in wires[e.peer]

\* InitChannels as a whole: every connect meets an open listener and every
\* edge ends up with both ends of one connection.
EdgesMeet == ListenerOpen /\ WiredAlike

\* With fewer failed attempts than an edge may retry, Init succeeds on every
\* rank: no rank waits for one that waits for it.
Completes == <>(\A r \in Ranks : pc[r] = "ok")

\* docs/layers/communicator.md, of the retries of ConnectActiveEdges: when
\* they are used up, Init fails.  So the Init of a rank whose connect thread
\* has given up returns false.
ExhaustionFailsInit == \A r \in Ranks : error[r] ~> pc[r] = "failed"
=============================================================================
