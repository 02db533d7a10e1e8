----------------------------- MODULE StartupProofs -----------------------------
(***************************************************************************)
(* Proofs about Communicator::Init on any number of ranks, with any set of *)
(* channels and any clusters: what the ranks know and decide alone agrees  *)
(* (CommonView), and every edge ends with the two ends of one connection   *)
(* (EdgesMeet).                                                            *)
(*                                                                         *)
(* The invariant has two halves.  BootInv follows the list of nodes        *)
(* through rank 0: every worker comes once, the list is filled place by    *)
(* place and whole before it is shared.  WireInv ties the threads of       *)
(* InitChannels to their edges: the connections are those of the edges a   *)
(* connect thread has begun, the connectors with a transport those of the  *)
(* edges it has finished and of the handshakes received, and what an       *)
(* accept thread still expects is the number of its edges without one.     *)
(* That the ends fit is a fact about the edges alone (Mirrored): ring,     *)
(* star and the tree over the machines, mirrored on odd channels, are      *)
(* computed by every rank for itself.                                      *)
(***************************************************************************)
EXTENDS Startup, ProofLemmas

-----------------------------------------------------------------------------
(* The bootstrap *)

Whole == [p \in Ranks |-> LocalNode(p)]
Views == [Ranks -> {NoNode} \cup {LocalNode(p) : p \in Ranks}]
Gathered == pc[0] \in {"share", "decide", "wire", "ok", "failed"}
Informed(w) == pc[w] \in {"decide", "wire", "ok", "failed"}

BootTypes ==
  /\ setup \in Setups
  /\ pc \in [Ranks -> {"listen", "accept", "collect", "share", "join", "announce", "learn", "decide",
                       "wire", "ok", "failed"}]
  /\ \A w \in Workers : pc[w] \notin {"accept", "collect", "share"}
  /\ pc[0] \notin {"join", "announce", "learn"}
  /\ bootQueue \in Seq(Workers) /\ socks \in Seq(Workers) /\ infos \subseteq Workers
  /\ done \in 0 .. N - 2
  /\ shared \in [Workers -> {NoNodes, Whole}]
  /\ nodes \in [Ranks -> Views]

\* A worker reaches rank 0 once, and only with its listeners open; rank 0
\* stops accepting when it has them all.
BootOrder ==
  /\ \A i, j \in DOMAIN bootQueue : bootQueue[i] = bootQueue[j] => i = j
  /\ \A i, j \in DOMAIN socks : socks[i] = socks[j] => i = j
  /\ \A i \in DOMAIN bootQueue, j \in DOMAIN socks : bootQueue[i] # socks[j]
  /\ \A i \in DOMAIN bootQueue : pc[bootQueue[i]] \notin {"listen", "join"}
  /\ \A i \in DOMAIN socks : pc[socks[i]] \notin {"listen", "join"}
  /\ IF pc[0] \in {"listen", "accept"} THEN Len(socks) < N - 1 ELSE Len(socks) = N - 1

\* The list of rank 0 fills place by place and is whole before it is shared.
BootNodes ==
  /\ pc[0] \in {"listen", "accept"} => done = 0
  /\ pc[0] # "listen" => nodes[0][0] = LocalNode(0)
  /\ pc[0] = "collect" => \A k \in 1 .. done : nodes[0][socks[k]] = LocalNode(socks[k])
  /\ Gathered => nodes[0] = Whole
  /\ \A w \in Workers : shared[w] # NoNodes => Gathered
  /\ \A w \in Workers : Informed(w) => nodes[w] = Whole /\ Gathered

BootInv == BootTypes /\ BootOrder /\ BootNodes

-----------------------------------------------------------------------------
(* The decisions *)

\* What a rank has decided is what its list says; what it has not decided it
\* has not begun.
Decisions ==
  \A r \in Ranks :
    /\ Decided(r) => rdmaReady[r] = RdmaReady(r) /\ edges[r] = PeerEdges(r)
    /\ ~Decided(r) => edges[r] = {} /\ connecter[r] = "off" /\ accepter[r] = "off"

\* Which listeners are open, by where Init is.
Listeners ==
  \A r \in Ranks :
    listening[r] = IF pc[r] \in {"listen", "ok", "failed"} THEN {}
                   ELSE IF pc[r] = "wire" THEN OpenListeners(r) \ {IF RdmaReady(r) THEN "tcp" ELSE "rdma"}
                   ELSE OpenListeners(r)

-----------------------------------------------------------------------------
(* The connections *)

ConnFor(r, e) == [from |-> r, to |-> e.peer, ch |-> e.ch, send |-> e.send, net |-> Net(r, e.peer)]
Members(q) == {q[i] : i \in DOMAIN q}
Pending(r) == Members(todo[r])
InHand(r) == connecter[r] \in {"await", "greet", "ack"}

\* The active edges that have their transport, and those with a connection.
Linked(r) == ActiveEdges(r, edges[r]) \ Pending(r)
Started(r) == Linked(r) \cup (IF InHand(r) THEN {Head(todo[r])} ELSE {})

ThreadTypes ==
  /\ rdmaReady \in [Ranks -> BOOLEAN] /\ error \in [Ranks -> BOOLEAN]
  /\ edges \in [Ranks -> SUBSET [ch : Channels, peer : Ranks, send : BOOLEAN]]
  /\ attempt \in [Ranks -> 1 .. Retries]
  /\ connecter \in [Ranks -> {"off", "idle", "await", "greet", "ack", "end"}]
  /\ accepter \in [Ranks -> {"off", "check", "poll", "greet", "end"}]
  /\ owed \in [Ranks -> Nat]
  /\ faults \in 0 .. MaxFaults
  /\ DOMAIN todo = Ranks /\ DOMAIN wires = Ranks /\ DOMAIN incoming = Ranks /\ DOMAIN listening = Ranks

\* The connect thread goes through its edges, each once, in the order of todo.
TodoOK ==
  \A r \in Ranks :
    /\ todo[r] \in Seq(ActiveEdges(r, edges[r]))
    /\ \A i, j \in DOMAIN todo[r] : todo[r][i] = todo[r][j] => i = j
    /\ InHand(r) => todo[r] # << >>
    /\ connecter[r] = "end" => todo[r] = << >> \/ error[r]

ConnRecords ==
  [conn : [from : Ranks, to : Ranks, ch : Channels, send : BOOLEAN, net : Nets],
   accepted : BOOLEAN, greeted : BOOLEAN]

\* The connections are those of the edges begun, one each.
ConnsOK ==
  /\ conns \subseteq ConnRecords
  /\ \A c \in conns : \E e \in Started(c.conn.from) : c.conn = ConnFor(c.conn.from, e)
  /\ \A r \in Ranks : \A e \in Started(r) : \E c \in conns : c.conn = ConnFor(r, e)
  /\ \A c, d \in conns : c.conn = d.conn => c = d

Taken(p) == {c.conn : c \in {x \in conns : x.conn.to = p /\ x.accepted}}
Landed(p) == IF accepter[p] = "greet" THEN Taken(p) \ {incoming[p]} ELSE Taken(p)
Awaited(p) == {e \in AcceptEdges(p, edges[p]) :
                 \A c \in Landed(p) : <<c.from, c.ch, ~c.send>> # <<e.peer, e.ch, e.send>>}

ActiveEnd(p, e) == [peer |-> e.peer, ch |-> e.ch, send |-> e.send, conn |-> ConnFor(p, e)]
PassiveEnd(c) == [peer |-> c.from, ch |-> c.ch, send |-> ~c.send, conn |-> c]

\* What the acceptor has taken, and how many edges it still waits for.
AcceptOK ==
  \A p \in Ranks :
    /\ accepter[p] = "greet" => incoming[p] \in Taken(p)
    /\ accepter[p] = "off" => Taken(p) = {}
    /\ owed[p] = Cardinality(Awaited(p))
    /\ accepter[p] = "end" => owed[p] = 0 \/ error[p]

\* The connectors with a transport: the edges linked, the connections landed.
WiresOK ==
  \A p \in Ranks :
    wires[p] = {ActiveEnd(p, e) : e \in Linked(p)} \cup {PassiveEnd(c) : c \in Landed(p)}

\* Init returns when both threads have ended.
Endings ==
  \A r \in Ranks :
    /\ pc[r] \in {"ok", "failed"} => connecter[r] = "end" /\ accepter[r] = "end" /\ (error[r] <=> pc[r] = "failed")
    /\ pc[r] = "wire" => connecter[r] # "off" /\ accepter[r] # "off"

WireInv == ThreadTypes /\ Decisions /\ Listeners /\ TodoOK /\ ConnsOK /\ AcceptOK /\ WiresOK /\ Endings

IInv == BootInv /\ WireInv

\* With fewer faults than attempts no connect thread gives up.
NoneGivesUp == \A r \in Ranks : ~error[r] /\ attempt[r] <= faults + 1
-----------------------------------------------------------------------------
(* The edges the ranks derive *)

\* The ranks are the numbers below N, rank 0 one of them.
LEMMA RankFacts ==
  /\ N \in Nat /\ N >= 2 /\ Ranks = 0 .. N - 1 /\ 0 \in Ranks
  /\ Workers \subseteq Ranks /\ 0 \notin Workers /\ (\A r \in Ranks : r = 0 \/ r \in Workers)
  /\ IsFiniteSet(Ranks) /\ IsFiniteSet(Workers) /\ Cardinality(Workers) = N - 1
<1>1. N \in Nat /\ N >= 2
  BY StartupAssumption
<1>2. IsFiniteSet(0 .. N - 1) /\ Cardinality(0 .. N - 1) = N
  BY <1>1, FS_Interval
<1>3. IsFiniteSet((0 .. N - 1) \ {0}) /\ Cardinality((0 .. N - 1) \ {0}) = N - 1
  <2>1. PICK T : T = 0 .. N - 1
    OBVIOUS
  <2>2. 0 \in T /\ IsFiniteSet(T) /\ Cardinality(T) = N
    BY <1>1, <1>2, <2>1
  <2>3. IsFiniteSet(T \ {0}) /\ Cardinality(T \ {0}) = Cardinality(T) - 1
    BY <2>2, FS_RemoveElement
  <2> QED BY <2>1, <2>2, <2>3
<1> QED BY <1>1, <1>2, <1>3 DEF Ranks, Workers

\* The successor and the predecessor on the ring.
LEMMA RingFacts ==
  ASSUME NEW r \in Ranks
  PROVE  /\ (r + 1) % N \in Ranks /\ (r + 1) % N # r /\ (((r + 1) % N) + N - 1) % N = r
         /\ (r + N - 1) % N \in Ranks /\ (r + N - 1) % N # r /\ (((r + N - 1) % N) + 1) % N = r
<1>1. N \in Nat /\ N >= 2 /\ r \in Nat /\ r <= N - 1 /\ Ranks = 0 .. N - 1
  BY RankFacts
<1>2. \A a \in 0 .. N - 1 : a % N = a /\ (a + N) % N = a
  <2> TAKE a \in 0 .. N - 1
  <2>1. a % N = a
    BY <1>1
  <2>2. (a + N) % N = a
    <3> DEFINE q == (a + N) \div N
    <3>1. a + N = N * q + ((a + N) % N) /\ q \in Int /\ (a + N) % N \in 0 .. N - 1
      BY <1>1
    <3> HIDE DEF q
    <3>2. CASE q <= 0
      <4>1. N * q <= 0
        BY <1>1, <3>1, <3>2
      <4> QED BY <1>1, <3>1, <4>1
    <3>3. CASE q = 1
      BY <1>1, <3>1, <3>3
    <3>4. CASE q >= 2
      <4>1. N * q >= N + N
        BY <1>1, <3>1, <3>4
      <4> QED BY <1>1, <3>1, <4>1
    <3> QED BY <3>1, <3>2, <3>3, <3>4
  <2> QED BY <2>1, <2>2
<1>3. (r + 1) % N = IF r = N - 1 THEN 0 ELSE r + 1
  <2>1. CASE r = N - 1
    <3>1. 0 \in 0 .. N - 1 /\ r + 1 = 0 + N
      BY <1>1, <2>1
    <3> QED BY <1>2, <2>1, <3>1
  <2>2. CASE r # N - 1
    <3>1. r + 1 \in 0 .. N - 1
      BY <1>1, <2>2
    <3> QED BY <1>2, <2>2, <3>1
  <2> QED BY <2>1, <2>2
<1>4. (r + N - 1) % N = IF r = 0 THEN N - 1 ELSE r - 1
  <2>1. CASE r = 0
    <3>1. N - 1 \in 0 .. N - 1 /\ r + N - 1 = N - 1
      BY <1>1, <2>1
    <3> QED BY <1>2, <2>1, <3>1
  <2>2. CASE r # 0
    <3>1. r - 1 \in 0 .. N - 1 /\ r + N - 1 = (r - 1) + N
      BY <1>1, <2>2
    <3> QED BY <1>2, <2>2, <3>1
  <2> QED BY <2>1, <2>2
<1>5. PICK s \in 0 .. N - 1 : s = (r + 1) % N /\ s # r /\ (s + N - 1) % N = r
  <2>1. CASE r = N - 1
    <3>1. (0 + N - 1) % N = N - 1
      <4>1. N - 1 \in 0 .. N - 1 /\ 0 + N - 1 = N - 1
        BY <1>1
      <4> QED BY <1>2, <4>1
    <3> QED BY <1>1, <1>3, <2>1, <3>1
  <2>2. CASE r # N - 1
    <3>1. ((r + 1) + N - 1) % N = r
      <4>1. r \in 0 .. N - 1 /\ (r + 1) + N - 1 = r + N
        BY <1>1
      <4> QED BY <1>2, <4>1
    <3> QED BY <1>1, <1>3, <2>2, <3>1
  <2> QED BY <2>1, <2>2
<1>6. PICK t \in 0 .. N - 1 : t = (r + N - 1) % N /\ t # r /\ (t + 1) % N = r
  <2>1. CASE r = 0
    <3>1. ((N - 1) + 1) % N = 0
      <4>1. 0 \in 0 .. N - 1 /\ (N - 1) + 1 = 0 + N
        BY <1>1
      <4> QED BY <1>2, <4>1
    <3> QED BY <1>1, <1>4, <2>1, <3>1
  <2>2. CASE r # 0
    <3>1. ((r - 1) + 1) % N = r
      <4>1. r \in 0 .. N - 1 /\ (r - 1) + 1 = r
        BY <1>1
      <4> QED BY <1>2, <4>1
    <3> QED BY <1>1, <1>4, <2>2, <3>1
  <2> QED BY <2>1, <2>2
<1> QED BY <1>1, <1>5, <1>6

\* A set of numbers has a least one; CHOOSE finds it.
LEMMA LeastOf ==
  ASSUME NEW S, S \subseteq Ranks, S # {}
  PROVE  /\ (CHOOSE q \in S : \A o \in S : q <= o) \in S
         /\ \A o \in S : (CHOOSE q \in S : \A o2 \in S : q <= o2) <= o
<1>1. IsFiniteSet(S) /\ S \subseteq Int
  <2>1. S \in SUBSET Ranks /\ IsFiniteSet(Ranks) /\ Ranks \subseteq Int
    BY RankFacts
  <2> QED BY <2>1, FS_Subset
<1>2. PICK q : q = Ascending(S)
  OBVIOUS
<1>3. Lists(q, S) /\ \A i, j \in DOMAIN q : i < j => q[i] < q[j]
  BY <1>1, <1>2, AscendingLists
<1>4. q \in Seq(S) /\ \A x \in S : \E i \in DOMAIN q : q[i] = x
  BY <1>3 DEF Lists
<1>5. 1 \in DOMAIN q /\ \A i \in DOMAIN q : i = 1 \/ 1 < i
  <2>1. PICK i \in DOMAIN q : TRUE
    BY <1>4
  <2>2. DOMAIN q = 1 .. Len(q) /\ Len(q) \in Nat
    BY <1>4
  <2> QED BY <2>1, <2>2
<1>6. q[1] \in S /\ \A i \in DOMAIN q : q[i] \in S
  BY <1>4, <1>5
<1>7. \A o \in S : q[1] <= o
  <2> TAKE o \in S
  <2>1. PICK i \in DOMAIN q : q[i] = o
    BY <1>4
  <2>2. i = 1 \/ q[1] < q[i]
    BY <1>3, <1>5
  <2>3. q[1] \in Int /\ o \in Int
    BY <1>1, <1>6
  <2> QED BY <2>1, <2>2, <2>3
<1> QED BY <1>6, <1>7

-----------------------------------------------------------------------------
(* What the whole list says, whoever reads it *)

HostRanks(p) == {q \in Ranks : setup.host[q] = setup.host[p]}
HostLeader(p) == CHOOSE q \in HostRanks(p) : \A o \in HostRanks(p) : q <= o
LeaderList == Ascending({HostLeader(p) : p \in Ranks})

\* The leader of a machine is on it and leads every rank on it.
LEMMA LeaderFacts ==
  ASSUME NEW p \in Ranks
  PROVE  /\ HostLeader(p) \in Ranks /\ setup.host[HostLeader(p)] = setup.host[p]
         /\ HostLeader(HostLeader(p)) = HostLeader(p)
         /\ \A q \in Ranks : setup.host[q] = setup.host[p] => HostLeader(q) = HostLeader(p)
<1>1. HostRanks(p) \subseteq Ranks /\ HostRanks(p) # {}
  BY DEF HostRanks
<1>2. HostLeader(p) \in HostRanks(p)
  BY <1>1, LeastOf DEF HostLeader
<1>3. \A q \in Ranks : setup.host[q] = setup.host[p] => HostLeader(q) = HostLeader(p)
  <2> TAKE q \in Ranks
  <2> HAVE setup.host[q] = setup.host[p]
  <2>1. HostRanks(q) = HostRanks(p)
    BY DEF HostRanks
  <2> QED BY <2>1 DEF HostLeader
<1>4. HostLeader(p) \in Ranks /\ setup.host[HostLeader(p)] = setup.host[p]
  BY <1>2 DEF HostRanks
<1> QED BY <1>3, <1>4

\* The leaders in order: each once.
LEMMA LeaderListFacts ==
  \E n \in Nat :
    /\ DOMAIN LeaderList = 1 .. n /\ Len(LeaderList) = n
    /\ \A i \in 1 .. n : LeaderList[i] \in Ranks /\ HostLeader(LeaderList[i]) = LeaderList[i]
    /\ \A p \in Ranks : \E i \in 1 .. n : LeaderList[i] = HostLeader(p)
    /\ \A i, j \in 1 .. n : LeaderList[i] = LeaderList[j] => i = j
<1> DEFINE S == {HostLeader(p) : p \in Ranks}
<1>1. S \subseteq Int /\ IsFiniteSet(S) /\ S \subseteq Ranks
  <2>1. S \in SUBSET Ranks /\ IsFiniteSet(Ranks) /\ Ranks \subseteq Int
    BY RankFacts, LeaderFacts
  <2> QED BY <2>1, FS_Subset
<1>2. \A x \in S : HostLeader(x) = x
  BY LeaderFacts
<1>3. \A p \in Ranks : HostLeader(p) \in S
  OBVIOUS
<1> HIDE DEF S
<1>4. PICK q : q = LeaderList /\ Lists(q, S)
  BY <1>1, AscendingLists DEF LeaderList, S
<1>5. /\ q \in Seq(S) /\ (\A x \in S : \E i \in DOMAIN q : q[i] = x)
      /\ \A i, j \in DOMAIN q : q[i] = q[j] => i = j
  BY <1>4 DEF Lists
<1>6. PICK n \in Nat : n = Len(q) /\ DOMAIN q = 1 .. n
  BY <1>5
<1>7. \A i \in 1 .. n : q[i] \in S
  BY <1>5, <1>6
<1>8. /\ DOMAIN q = 1 .. n /\ Len(q) = n
      /\ \A i \in 1 .. n : q[i] \in Ranks /\ HostLeader(q[i]) = q[i]
  BY <1>1, <1>2, <1>6, <1>7
<1>9. \A p \in Ranks : \E i \in 1 .. n : q[i] = HostLeader(p)
  BY <1>3, <1>5, <1>6
<1>10. \A i, j \in 1 .. n : q[i] = q[j] => i = j
  BY <1>5, <1>6
<1> QED BY <1>4, <1>8, <1>9, <1>10

\* A rank that holds the whole list sees what the setup is.
LEMMA SeenFacts ==
  ASSUME setup \in Setups, NEW r \in Ranks, nodes[r] = Whole
  PROVE  /\ \A p \in Ranks : LocalRanks(r, p) = HostRanks(p) /\ LeaderOf(r, p) = HostLeader(p)
         /\ MachineLeaders(r) = LeaderList
         /\ \A p \in Ranks : SameHost(r, p) <=> setup.host[p] = setup.host[r]
         /\ RdmaReady(r) <=> \A p \in Ranks : setup.rdma[p]
<1>1. \A p \in Ranks : nodes[r][p].host = setup.host[p] /\ nodes[r][p].rdmaPort = IF setup.rdma[p] THEN 1 ELSE 0
  BY DEF Whole, LocalNode
<1>2. \A p \in Ranks : LocalRanks(r, p) = HostRanks(p) /\ LeaderOf(r, p) = HostLeader(p)
  <2> TAKE p \in Ranks
  <2>1. LocalRanks(r, p) = HostRanks(p)
    BY <1>1 DEF LocalRanks, HostRanks
  <2> QED BY <2>1 DEF LeaderOf, HostLeader
<1>3. {LeaderOf(r, p) : p \in Ranks} = {HostLeader(p) : p \in Ranks}
  BY <1>2
<1>4. MachineLeaders(r) = LeaderList
  BY <1>3 DEF MachineLeaders, LeaderList
<1>5. RdmaReady(r) <=> \A p \in Ranks : setup.rdma[p]
  <2>1. \A p \in Ranks : nodes[r][p].rdmaPort # 0 <=> setup.rdma[p]
    BY <1>1
  <2> QED BY <2>1 DEF RdmaReady
<1> QED BY <1>1, <1>2, <1>4, <1>5 DEF SameHost

\* Mirroring the tree twice gives it back.
LEMMA MirrorFacts ==
  ASSUME NEW r, NEW n \in Nat, Len(MachineLeaders(r)) = n, NEW ch \in Nat
  PROVE  \A i \in 1 .. n : Mirror(r, ch, i) \in 1 .. n /\ Mirror(r, ch, Mirror(r, ch, i)) = i
BY DEF Mirror

\* Over the tree of a channel r is next to p exactly if p is next to r.
LEMMA TreeMirrored ==
  ASSUME setup \in Setups, NEW r \in Ranks, nodes[r] = Whole, NEW p \in Ranks, nodes[p] = Whole,
         NEW ch \in Channels, p \in TreePeers(r, ch)
  PROVE  r \in TreePeers(p, ch) /\ p # r
<1>1. /\ LocalRanks(r, r) = HostRanks(r) /\ LeaderOf(r, r) = HostLeader(r)
      /\ LocalRanks(p, p) = HostRanks(p) /\ LeaderOf(p, p) = HostLeader(p)
      /\ MachineLeaders(r) = LeaderList /\ MachineLeaders(p) = LeaderList
  BY SeenFacts
<1>2. CASE p \in StarPeers(r)
  <2>1. CASE HostLeader(r) = r
    <3>1. p \in HostRanks(r) /\ p # r
      BY <1>1, <1>2, <2>1 DEF StarPeers
    <3>2. HostLeader(p) = r
      BY <2>1, <3>1, LeaderFacts DEF HostRanks
    <3> QED BY <1>1, <3>1, <3>2 DEF StarPeers, TreePeers
  <2>2. CASE HostLeader(r) # r
    <3>1. p = HostLeader(r)
      BY <1>1, <1>2, <2>2 DEF StarPeers
    <3>2. HostLeader(p) = p /\ r \in HostRanks(p) /\ p # r
      BY <2>2, <3>1, LeaderFacts DEF HostRanks
    <3> QED BY <1>1, <3>2 DEF StarPeers, TreePeers
  <2> QED BY <2>1, <2>2
<1>3. CASE p \notin StarPeers(r)
  <2>1. HostLeader(r) = r /\ (p \in TreeParent(r, ch) \/ p \in TreeChildren(r, ch))
    BY <1>1, <1>3 DEF TreePeers
  <2>2. PICK n \in Nat :
          /\ DOMAIN LeaderList = 1 .. n /\ Len(LeaderList) = n
          /\ \A i \in 1 .. n : LeaderList[i] \in Ranks /\ HostLeader(LeaderList[i]) = LeaderList[i]
          /\ \A q \in Ranks : \E i \in 1 .. n : LeaderList[i] = HostLeader(q)
          /\ \A i, j \in 1 .. n : LeaderList[i] = LeaderList[j] => i = j
    BY LeaderListFacts
  <2>3. PICK L : L = LeaderList
    OBVIOUS
  <2>4. PICK a : a = MachineIndex(r)
    OBVIOUS
  <2>5. a \in 1 .. n /\ L[a] = r
    BY <1>1, <2>1, <2>2, <2>3, <2>4 DEF MachineIndex
  <2> DEFINE m(i) == Mirror(r, ch, i)
  <2>6. ch \in Nat
    BY StartupAssumption
  <2>7. \A i \in 1 .. n : m(i) \in 1 .. n /\ m(m(i)) = i
    <3>1. Len(MachineLeaders(r)) = n
      BY <1>1, <2>2
    <3> QED BY <2>6, <3>1, MirrorFacts
  <2>8. \A i : Mirror(p, ch, i) = m(i)
    BY <1>1 DEF Mirror
  <2>9. PICK x \in 1 .. n : x = m(a) /\ m(x) = a
    BY <2>5, <2>7
  <2>10. TreeParent(r, ch) = IF x = 1 THEN {} ELSE {L[m(x \div 2)]}
    BY <1>1, <2>3, <2>4, <2>9 DEF TreeParent
  <2>11. TreeChildren(r, ch) = {L[m(i)] : i \in {2 * x, (2 * x) + 1} \cap (1 .. n)}
    BY <1>1, <2>2, <2>3, <2>4, <2>9 DEF TreeChildren
  <2>12. ASSUME NEW y \in 1 .. n, p = L[m(y)]
         PROVE  /\ HostLeader(p) = p
                /\ TreeParent(p, ch) = IF y = 1 THEN {} ELSE {L[m(y \div 2)]}
                /\ TreeChildren(p, ch) = {L[m(i)] : i \in {2 * y, (2 * y) + 1} \cap (1 .. n)}
    <3>1. m(y) \in 1 .. n /\ m(m(y)) = y
      BY <2>7
    <3>2. HostLeader(p) = p
      BY <2>2, <2>3, <2>12, <3>1
    <3>3. PICK b : b = MachineIndex(p)
      OBVIOUS
    <3>4. b \in 1 .. n /\ L[b] = p
      BY <1>1, <2>2, <2>3, <3>2, <3>3 DEF MachineIndex
    <3>5. b = m(y)
      BY <2>2, <2>3, <2>12, <3>1, <3>4
    <3>6. Mirror(p, ch, b) = y
      BY <2>8, <3>1, <3>5
    <3>7. TreeParent(p, ch) = IF y = 1 THEN {} ELSE {L[Mirror(p, ch, y \div 2)]}
      BY <1>1, <2>3, <3>3, <3>6 DEF TreeParent
    <3>8. TreeChildren(p, ch) = {L[Mirror(p, ch, i)] : i \in {2 * y, (2 * y) + 1} \cap (1 .. n)}
      BY <1>1, <2>2, <2>3, <3>3, <3>6 DEF TreeChildren
    <3> QED BY <2>8, <3>2, <3>7, <3>8
  <2> HIDE DEF m
  <2>13. CASE p \in TreeParent(r, ch)
    <3>1. x # 1 /\ p = L[m(x \div 2)]
      BY <2>10, <2>13
    <3>2. PICK y \in 1 .. n : y = x \div 2 /\ y # x /\ (x = 2 * y \/ x = (2 * y) + 1)
      BY <2>9, <3>1
    <3>3. r = L[m(x)] /\ x \in {2 * y, (2 * y) + 1} \cap (1 .. n)
      BY <2>5, <2>9, <3>2
    <3>4. HostLeader(p) = p /\ TreeChildren(p, ch) = {L[m(i)] : i \in {2 * y, (2 * y) + 1} \cap (1 .. n)}
      BY <2>12, <3>1, <3>2
    <3>6. r \in TreeChildren(p, ch)
      BY <3>3, <3>4
    <3>5. p # r
      BY <2>2, <2>3, <2>7, <3>1, <3>2, <3>3
    <3> QED BY <1>1, <3>4, <3>5, <3>6 DEF TreePeers
  <2>14. CASE p \in TreeChildren(r, ch)
    <3>1. PICK y \in {2 * x, (2 * x) + 1} \cap (1 .. n) : p = L[m(y)]
      BY <2>11, <2>14
    <3>2. y \in 1 .. n /\ y # 1 /\ y \div 2 = x /\ y # x
      BY <2>9, <3>1
    <3>3. r = L[m(x)]
      BY <2>5, <2>9
    <3>4. r \in TreeParent(p, ch) /\ HostLeader(p) = p
      BY <2>12, <3>1, <3>2, <3>3
    <3>5. p # r
      BY <2>2, <2>3, <2>7, <3>1, <3>2, <3>3
    <3> QED BY <1>1, <3>4, <3>5 DEF TreePeers
  <2> QED BY <2>1, <2>13, <2>14
<1> QED BY <1>2, <1>3

\* The peers over the tree are ranks.
LEMMA TreeInRange ==
  ASSUME setup \in Setups, NEW r \in Ranks, nodes[r] = Whole, NEW ch \in Channels
  PROVE  TreePeers(r, ch) \subseteq Ranks
<1>1. /\ LocalRanks(r, r) = HostRanks(r) /\ LeaderOf(r, r) = HostLeader(r) /\ MachineLeaders(r) = LeaderList
  BY SeenFacts
<1>2. PICK n \in Nat :
        /\ DOMAIN LeaderList = 1 .. n /\ Len(LeaderList) = n
        /\ \A i \in 1 .. n : LeaderList[i] \in Ranks
        /\ \A q \in Ranks : \E i \in 1 .. n : LeaderList[i] = HostLeader(q)
  BY LeaderListFacts
<1>3. PICK L : L = LeaderList
  OBVIOUS
<1>4. StarPeers(r) \subseteq Ranks
  BY <1>1, LeaderFacts DEF StarPeers, HostRanks
<1>5. CASE HostLeader(r) # r
  BY <1>1, <1>4, <1>5 DEF TreePeers
<1>6. CASE HostLeader(r) = r
  <2>1. PICK a : a = MachineIndex(r)
    OBVIOUS
  <2>2. a \in 1 .. n
    BY <1>1, <1>2, <1>3, <1>6, <2>1 DEF MachineIndex
  <2> DEFINE m(i) == Mirror(r, ch, i)
  <2>3. ch \in Nat
    BY StartupAssumption
  <2>4. \A i \in 1 .. n : m(i) \in 1 .. n
    BY <1>1, <1>2, <2>3, MirrorFacts
  <2>5. PICK x \in 1 .. n : x = m(a)
    BY <2>2, <2>4
  <2>6. TreeParent(r, ch) = IF x = 1 THEN {} ELSE {L[m(x \div 2)]}
    BY <1>1, <1>3, <2>1, <2>5 DEF TreeParent
  <2>7. TreeChildren(r, ch) = {L[m(i)] : i \in {2 * x, (2 * x) + 1} \cap (1 .. n)}
    BY <1>1, <1>2, <1>3, <2>1, <2>5 DEF TreeChildren
  <2> HIDE DEF m
  <2>8. x # 1 => x \div 2 \in 1 .. n
    BY <2>5
  <2>9. TreeParent(r, ch) \subseteq Ranks
    BY <1>2, <1>3, <2>4, <2>6, <2>8
  <2>10. TreeChildren(r, ch) \subseteq Ranks
    BY <1>2, <1>3, <2>4, <2>7
  <2> QED BY <1>4, <2>9, <2>10 DEF TreePeers
<1> QED BY <1>5, <1>6

\* An edge is one of the ring or one of the tree.
LEMMA EdgeKinds ==
  ASSUME NEW r, NEW e
  PROVE  e \in PeerEdges(r) <=>
           \E ch \in Channels :
             \/ e = [ch |-> ch, peer |-> (r + 1) % N, send |-> TRUE]
             \/ e = [ch |-> ch, peer |-> (r + N - 1) % N, send |-> FALSE]
             \/ \E q \in TreePeers(r, ch), s \in BOOLEAN : e = [ch |-> ch, peer |-> q, send |-> s]
BY DEF PeerEdges

\* The edges of two ranks fit: what the one derives to send over, the other
\* derives to receive over.
LEMMA Mirrored ==
  ASSUME setup \in Setups, NEW r \in Ranks, nodes[r] = Whole, NEW p \in Ranks, nodes[p] = Whole,
         NEW e \in PeerEdges(r), e.peer = p
  PROVE  [ch |-> e.ch, peer |-> r, send |-> ~e.send] \in PeerEdges(p)
<1>1. PICK ch \in Channels :
        \/ e = [ch |-> ch, peer |-> (r + 1) % N, send |-> TRUE]
        \/ e = [ch |-> ch, peer |-> (r + N - 1) % N, send |-> FALSE]
        \/ \E q \in TreePeers(r, ch), s \in BOOLEAN : e = [ch |-> ch, peer |-> q, send |-> s]
  BY EdgeKinds
<1>2. CASE e = [ch |-> ch, peer |-> (r + 1) % N, send |-> TRUE]
  <2>1. p = (r + 1) % N /\ (p + N - 1) % N = r
    BY <1>2, RingFacts
  <2>2. [ch |-> e.ch, peer |-> r, send |-> ~e.send] = [ch |-> ch, peer |-> (p + N - 1) % N, send |-> FALSE]
    BY <1>2, <2>1
  <2> QED BY <2>2, EdgeKinds
<1>3. CASE e = [ch |-> ch, peer |-> (r + N - 1) % N, send |-> FALSE]
  <2>1. p = (r + N - 1) % N /\ (p + 1) % N = r
    BY <1>3, RingFacts
  <2>2. [ch |-> e.ch, peer |-> r, send |-> ~e.send] = [ch |-> ch, peer |-> (p + 1) % N, send |-> TRUE]
    BY <1>3, <2>1
  <2> QED BY <2>2, EdgeKinds
<1>4. CASE \E q \in TreePeers(r, ch), s \in BOOLEAN : e = [ch |-> ch, peer |-> q, send |-> s]
  <2>1. PICK q \in TreePeers(r, ch), s \in BOOLEAN : e = [ch |-> ch, peer |-> q, send |-> s]
    BY <1>4
  <2>2. p = q /\ e.ch = ch /\ e.send = s
    BY <2>1
  <2>3. r \in TreePeers(p, ch)
    BY <2>2, TreeMirrored
  <2>4. PICK t \in BOOLEAN : t = ~s
    OBVIOUS
  <2>5. [ch |-> e.ch, peer |-> r, send |-> ~e.send] = [ch |-> ch, peer |-> r, send |-> t]
    BY <2>2, <2>4
  <2> QED BY <2>3, <2>4, <2>5, EdgeKinds
<1> QED BY <1>1, <1>2, <1>3, <1>4

\* An edge leads to another rank.
LEMMA EdgeTypes ==
  ASSUME setup \in Setups, NEW r \in Ranks, nodes[r] = Whole, NEW e \in PeerEdges(r)
  PROVE  e \in [ch : Channels, peer : Ranks \ {r}, send : BOOLEAN]
<1>1. PICK ch \in Channels :
        \/ e = [ch |-> ch, peer |-> (r + 1) % N, send |-> TRUE]
        \/ e = [ch |-> ch, peer |-> (r + N - 1) % N, send |-> FALSE]
        \/ \E q \in TreePeers(r, ch), s \in BOOLEAN : e = [ch |-> ch, peer |-> q, send |-> s]
  BY EdgeKinds
<1>2. PICK a \in Ranks \ {r}, b \in Ranks \ {r} : a = (r + 1) % N /\ b = (r + N - 1) % N
  BY RingFacts
<1>3. TreePeers(r, ch) \subseteq Ranks \ {r}
  <2>1. r \notin TreePeers(r, ch)
    BY TreeMirrored
  <2> QED BY <2>1, TreeInRange
<1>4. CASE \E q \in TreePeers(r, ch), s \in BOOLEAN : e = [ch |-> ch, peer |-> q, send |-> s]
  <2>1. PICK q \in Ranks \ {r}, s \in BOOLEAN : e = [ch |-> ch, peer |-> q, send |-> s]
    BY <1>3, <1>4
  <2> QED BY <2>1
<1>5. CASE e = [ch |-> ch, peer |-> a, send |-> TRUE]
  BY <1>5
<1>6. CASE e = [ch |-> ch, peer |-> b, send |-> FALSE]
  BY <1>6
<1> QED BY <1>1, <1>2, <1>4, <1>5, <1>6

-----------------------------------------------------------------------------
(* Steps of the bootstrap *)

\* What the list may hold depends on the setup alone, which never changes.
LEMMA SetupSteps ==
  ASSUME setup' = setup
  PROVE  /\ (\A p \in Ranks : LocalNode(p)' = LocalNode(p)) /\ Whole' = Whole /\ Views' = Views
         /\ (\A p \in Ranks : OpenListeners(p)' = OpenListeners(p))
<1>1. \A p \in Ranks : LocalNode(p)' = LocalNode(p)
  BY DEF LocalNode
<1>2. Whole' = Whole
  BY <1>1 DEF Whole
<1>3. {LocalNode(p)' : p \in Ranks} = {LocalNode(p) : p \in Ranks}
  BY <1>1
<1>4. Views' = Views
  BY <1>3 DEF Views
<1> QED BY <1>1, <1>2, <1>4 DEF OpenListeners

\* Once all the workers are in socks, every one of them is.
LEMMA AllCome ==
  ASSUME BootInv, Len(socks) = N - 1
  PROVE  /\ DOMAIN socks = 1 .. N - 1
         /\ \A w \in Workers : \E k \in 1 .. N - 1 : socks[k] = w
<1>1. /\ socks \in Seq(Workers) /\ (\A i, j \in DOMAIN socks : socks[i] = socks[j] => i = j)
      /\ N \in Nat /\ N >= 2 /\ IsFiniteSet(Workers) /\ Cardinality(Workers) = N - 1
  BY RankFacts DEF BootInv, BootTypes, BootOrder
<1>2. DOMAIN socks = 1 .. N - 1 /\ socks \in [1 .. N - 1 -> Workers]
  BY <1>1
<1>3. socks \in Injection(1 .. N - 1, Workers)
  BY <1>1, <1>2 DEF Injection, IsInjective
<1>4. IsFiniteSet(1 .. N - 1) /\ Cardinality(1 .. N - 1) = N - 1
  BY <1>1, FS_Interval
<1>5. socks \in Surjection(1 .. N - 1, Workers)
  BY <1>1, <1>3, <1>4, FS_Injection
<1> QED BY <1>2, <1>5 DEF Surjection

\* Who has the list has it from rank 0, which had it whole, and so from
\* ranks that have all opened their listeners.
LEMMA AllListening ==
  ASSUME BootInv, NEW r \in Ranks, pc[r] \in {"decide", "wire", "ok", "failed"}
  PROVE  Gathered /\ nodes[r] = Whole /\ \A p \in Ranks : pc[p] # "listen"
<1>1. Gathered /\ nodes[r] = Whole
  <2>1. CASE r = 0
    BY <2>1 DEF BootInv, BootNodes, Gathered
  <2>2. CASE r \in Workers
    BY <2>2 DEF BootInv, BootNodes, Informed
  <2> QED BY <2>1, <2>2, RankFacts
<1>2. Len(socks) = N - 1
  BY <1>1 DEF Gathered, BootInv, BootOrder
<1>3. ASSUME NEW p \in Ranks PROVE pc[p] # "listen"
  <2>1. CASE p = 0
    BY <1>1, <2>1 DEF Gathered
  <2>2. CASE p \in Workers
    <3>1. PICK k \in DOMAIN socks : socks[k] = p
      BY <1>2, <2>2, AllCome
    <3> QED BY <3>1 DEF BootInv, BootOrder
  <2> QED BY <2>1, <2>2, RankFacts
<1> QED BY <1>1, <1>3

\* Initially nobody has begun.
LEMMA BootInit ==
  ASSUME Init
  PROVE  BootInv
<1>1. N \in Nat /\ N >= 2 /\ 0 \in Ranks /\ 0 \notin Workers /\ Workers \subseteq Ranks
  BY RankFacts
<1>2. NoNodes \in Views
  BY DEF NoNodes, Views
<1>3. BootTypes
  BY <1>1, <1>2 DEF Init, BootTypes
<1>4. bootQueue = << >> /\ socks = << >> /\ done = 0 /\ shared = [w \in Workers |-> NoNodes]
      /\ \A r \in Ranks : pc[r] = "listen"
  BY DEF Init
<1>5. BootOrder
  BY <1>1, <1>4 DEF BootOrder
<1>6. BootNodes
  BY <1>1, <1>4 DEF BootNodes, Gathered, Informed
<1> QED BY <1>3, <1>5, <1>6 DEF BootInv

\* A step beyond the bootstrap leaves its half of the invariant alone.
LEMMA BootKept ==
  ASSUME BootInv, UNCHANGED <<setup, bootVars, nodes>>,
         pc' \in [Ranks -> {"listen", "accept", "collect", "share", "join", "announce", "learn", "decide",
                            "wire", "ok", "failed"}],
         \A r \in Ranks : \/ pc'[r] = pc[r]
                          \/ pc[r] \in {"decide", "wire"} /\ pc'[r] \in {"wire", "ok", "failed"}
  PROVE  BootInv'
<1>0. /\ setup' = setup /\ bootQueue' = bootQueue /\ socks' = socks /\ infos' = infos
      /\ shared' = shared /\ done' = done /\ nodes' = nodes
  BY DEF bootVars
<1>1. 0 \in Ranks /\ Workers \subseteq Ranks /\ 0 \notin Workers
  BY RankFacts
<1>2. Whole' = Whole /\ Views' = Views /\ LocalNode(0)' = LocalNode(0)
      /\ (\A p \in Ranks : LocalNode(p)' = LocalNode(p))
  BY <1>0, <1>1, SetupSteps
<1>3. BootTypes'
  BY <1>0, <1>1, <1>2 DEF BootInv, BootTypes
<1>4. BootOrder'
  <2>1. \A i \in DOMAIN bootQueue : bootQueue[i] \in Ranks
    BY <1>1 DEF BootInv, BootTypes
  <2>2. \A i \in DOMAIN socks : socks[i] \in Ranks
    BY <1>1 DEF BootInv, BootTypes
  <2> QED BY <1>0, <1>1, <2>1, <2>2 DEF BootInv, BootOrder
<1>5. BootNodes'
  <2>1. Gathered' <=> Gathered
    BY <1>1 DEF Gathered
  <2>2. \A w \in Workers : Informed(w)' <=> Informed(w)
    BY <1>1 DEF Informed
  <2>3. (pc'[0] \in {"listen", "accept", "collect"} => pc'[0] = pc[0]) /\ (pc[0] = "listen" => pc'[0] = "listen")
    BY <1>1
  <2>4. \A k \in 1 .. done : pc[0] = "collect" => nodes[0][socks[k]] = LocalNode(socks[k])
    BY DEF BootInv, BootNodes
  <2>5. pc'[0] = "collect" => \A k \in 1 .. done : nodes[0][socks[k]] = LocalNode(socks[k])'
    <3> SUFFICES ASSUME pc'[0] = "collect", NEW k \in 1 .. done
                 PROVE  nodes[0][socks[k]] = LocalNode(socks[k])'
      OBVIOUS
    <3>1. LocalNode(socks[k])' = LocalNode(socks[k])
      BY <1>0 DEF LocalNode
    <3> QED BY <2>3, <2>4, <3>1
  <2> QED BY <1>0, <1>2, <2>1, <2>2, <2>3, <2>5 DEF BootInv, BootNodes
<1> QED BY <1>3, <1>4, <1>5 DEF BootInv

\* Opening the listeners, rank 0 puts itself in its list.
LEMMA BootListen ==
  ASSUME BootInv, NEW r \in Ranks, Listen(r)
  PROVE  BootInv'
<1>0. /\ pc[r] = "listen" /\ setup' = setup /\ bootQueue' = bootQueue /\ socks' = socks /\ infos' = infos
      /\ shared' = shared /\ done' = done
      /\ pc' = [pc EXCEPT ![r] = IF r = 0 THEN "accept" ELSE "join"]
      /\ nodes' = IF r = 0 THEN [nodes EXCEPT ![0][0] = LocalNode(0)] ELSE nodes
  BY DEF Listen, bootVars
<1>1. 0 \in Ranks /\ Workers \subseteq Ranks /\ 0 \notin Workers /\ (r = 0 \/ r \in Workers)
  BY RankFacts
<1>2. /\ Whole' = Whole /\ Views' = Views /\ (\A p \in Ranks : LocalNode(p)' = LocalNode(p))
  BY <1>0, SetupSteps
<1>3. BootTypes /\ BootOrder /\ BootNodes
  BY DEF BootInv
<1>4. nodes' \in [Ranks -> Views] /\ (r = 0 => nodes'[0][0] = LocalNode(0))
      /\ (\A p \in Workers : nodes'[p] = nodes[p]) /\ (r # 0 => nodes' = nodes)
  <2>1. nodes \in [Ranks -> Views] /\ nodes[0] \in Views
    BY <1>1, <1>3 DEF BootTypes
  <2>2. LocalNode(0) \in {NoNode} \cup {LocalNode(p) : p \in Ranks}
    BY <1>1
  <2>3. [nodes[0] EXCEPT ![0] = LocalNode(0)] \in Views /\ [nodes[0] EXCEPT ![0] = LocalNode(0)][0] = LocalNode(0)
    BY <1>1, <2>1, <2>2 DEF Views
  <2>4. CASE r = 0
    <3>1. nodes' = [nodes EXCEPT ![0] = [nodes[0] EXCEPT ![0] = LocalNode(0)]]
      BY <1>0, <2>4
    <3> QED BY <1>1, <2>1, <2>3, <2>4, <3>1
  <2>5. CASE r # 0
    BY <1>0, <2>1, <2>5
  <2> QED BY <2>4, <2>5
<1>5. pc \in [Ranks -> {"listen", "accept", "collect", "share", "join", "announce", "learn", "decide",
                       "wire", "ok", "failed"}]
  BY <1>3 DEF BootTypes
<1>6. BootTypes'
  BY <1>0, <1>1, <1>2, <1>3, <1>4, <1>5 DEF BootTypes
<1>7. /\ (r = 0 => pc[0] = "listen" /\ pc'[0] = "accept") /\ (r # 0 => pc'[0] = pc[0])
      /\ (\A w \in Workers : pc'[w] = pc[w] \/ (pc[w] = "listen" /\ pc'[w] = "join"))
  BY <1>0, <1>1, <1>5
<1>8. BootOrder'
  <2>1. \A i \in DOMAIN bootQueue : bootQueue[i] \in Workers
    BY <1>3 DEF BootTypes
  <2>2. \A i \in DOMAIN socks : socks[i] \in Workers
    BY <1>3 DEF BootTypes
  <2> QED BY <1>0, <1>3, <1>7, <2>1, <2>2 DEF BootOrder
<1>9. BootNodes'
  <2>1. (Gathered' <=> Gathered) /\ (\A w \in Workers : Informed(w)' <=> Informed(w))
    BY <1>7 DEF Gathered, Informed
  <2>2. r = 0 => ~Gathered
    BY <1>0 DEF Gathered
  <2>3. LocalNode(0)' = LocalNode(0)
    BY <1>1, <1>2
  <2>4. pc'[0] = "collect" => \A k \in 1 .. done : nodes'[0][socks[k]] = LocalNode(socks[k])'
    <3> SUFFICES ASSUME pc'[0] = "collect", NEW k \in 1 .. done
                 PROVE  nodes'[0][socks[k]] = LocalNode(socks[k])'
      OBVIOUS
    <3>1. LocalNode(socks[k])' = LocalNode(socks[k])
      BY <1>0 DEF LocalNode
    <3> QED BY <1>3, <1>4, <1>7, <3>1 DEF BootNodes
  <2> QED BY <1>0, <1>2, <1>3, <1>4, <1>7, <2>1, <2>2, <2>3, <2>4 DEF BootNodes
<1> QED BY <1>6, <1>8, <1>9 DEF BootInv

\* A worker connects to rank 0.
LEMMA BootJoin ==
  ASSUME BootInv, NEW w \in Workers, JoinMaster(w)
  PROVE  BootInv'
<1>0. /\ pc[w] = "join" /\ setup' = setup /\ socks' = socks /\ infos' = infos
      /\ shared' = shared /\ done' = done /\ nodes' = nodes
      /\ bootQueue' = Append(bootQueue, w)
      /\ pc' = [pc EXCEPT ![w] = "announce"]
  BY DEF JoinMaster, viewVars
<1>1. 0 \in Ranks /\ Workers \subseteq Ranks /\ 0 \notin Workers /\ w # 0
  BY RankFacts
<1>2. /\ Whole' = Whole /\ Views' = Views /\ (\A p \in Ranks : LocalNode(p)' = LocalNode(p))
  BY <1>0, SetupSteps
<1>3. BootTypes /\ BootOrder /\ BootNodes
  BY DEF BootInv
<1>4. /\ pc \in [Ranks -> {"listen", "accept", "collect", "share", "join", "announce", "learn", "decide",
                       "wire", "ok", "failed"}]
      /\ bootQueue \in Seq(Workers) /\ socks \in Seq(Workers)
  BY <1>3 DEF BootTypes
<1>5. BootTypes'
  BY <1>0, <1>1, <1>2, <1>3, <1>4 DEF BootTypes
<1>6. pc'[0] = pc[0] /\ pc'[w] = "announce" /\ (\A p \in Workers : p # w => pc'[p] = pc[p])
  BY <1>0, <1>1, <1>4
<1>7. BootOrder'
  <2>1. PICK n \in Nat : n = Len(bootQueue) /\ DOMAIN bootQueue = 1 .. n
    BY <1>4
  <2>2. /\ DOMAIN bootQueue' = 1 .. n + 1 /\ bootQueue'[n + 1] = w
        /\ \A i \in 1 .. n : bootQueue'[i] = bootQueue[i] /\ bootQueue[i] \in Workers
    BY <1>0, <1>4, <2>1
  <2>3. \A i \in 1 .. n : bootQueue[i] # w
    BY <1>0, <1>3, <2>1 DEF BootOrder
  <2>4. \A i \in DOMAIN socks : socks[i] # w /\ socks[i] \in Workers
    BY <1>0, <1>3, <1>4 DEF BootOrder
  <2>5. \A i \in 1 .. n + 1 : i \in 1 .. n \/ i = n + 1
    BY <2>1
  <2>6. \A i, j \in DOMAIN bootQueue' : bootQueue'[i] = bootQueue'[j] => i = j
    BY <1>3, <2>1, <2>2, <2>3, <2>5 DEF BootOrder
  <2>7. \A i \in DOMAIN bootQueue', j \in DOMAIN socks' : bootQueue'[i] # socks'[j]
    BY <1>0, <1>3, <2>1, <2>2, <2>4, <2>5 DEF BootOrder
  <2>8. \A i \in DOMAIN bootQueue' : pc'[bootQueue'[i]] \notin {"listen", "join"}
    BY <1>3, <1>6, <2>1, <2>2, <2>5 DEF BootOrder
  <2>9. \A i \in DOMAIN socks' : pc'[socks'[i]] \notin {"listen", "join"}
    BY <1>0, <1>3, <1>6, <2>4 DEF BootOrder
  <2> QED BY <1>0, <1>3, <1>6, <2>6, <2>7, <2>8, <2>9 DEF BootOrder
<1>8. BootNodes'
  <2>1. (Gathered' <=> Gathered) /\ (\A p \in Workers : Informed(p)' <=> Informed(p))
    BY <1>0, <1>6 DEF Gathered, Informed
  <2>3. LocalNode(0)' = LocalNode(0)
    BY <1>1, <1>2
  <2>4. \A k \in 1 .. done : LocalNode(socks[k])' = LocalNode(socks[k])
    BY <1>0 DEF LocalNode
  <2> QED BY <1>0, <1>2, <1>3, <1>6, <2>1, <2>3, <2>4 DEF BootNodes
<1> QED BY <1>5, <1>7, <1>8 DEF BootInv

\* A worker sends its NodeInfo.
LEMMA BootAnnounce ==
  ASSUME BootInv, NEW w \in Workers, SendNodeInfo(w)
  PROVE  BootInv'
<1>0. /\ pc[w] = "announce" /\ setup' = setup /\ socks' = socks /\ infos' = infos \cup {w}
      /\ shared' = shared /\ done' = done /\ nodes' = nodes /\ bootQueue' = bootQueue
      /\ pc' = [pc EXCEPT ![w] = "learn"]
  BY DEF SendNodeInfo, viewVars
<1>1. 0 \in Ranks /\ Workers \subseteq Ranks /\ 0 \notin Workers /\ w # 0
  BY RankFacts
<1>2. /\ Whole' = Whole /\ Views' = Views /\ (\A p \in Ranks : LocalNode(p)' = LocalNode(p))
  BY <1>0, SetupSteps
<1>3. BootTypes /\ BootOrder /\ BootNodes
  BY DEF BootInv
<1>4. /\ pc \in [Ranks -> {"listen", "accept", "collect", "share", "join", "announce", "learn", "decide",
                       "wire", "ok", "failed"}]
      /\ bootQueue \in Seq(Workers) /\ socks \in Seq(Workers)
  BY <1>3 DEF BootTypes
<1>5. BootTypes'
  BY <1>0, <1>1, <1>2, <1>3, <1>4 DEF BootTypes
<1>6. pc'[0] = pc[0] /\ pc'[w] = "learn" /\ (\A p \in Workers : p # w => pc'[p] = pc[p])
  BY <1>0, <1>1, <1>4
<1>7. BootOrder'
  <2>1. \A i \in DOMAIN bootQueue : bootQueue[i] \in Workers
    BY <1>4
  <2>2. \A i \in DOMAIN socks : socks[i] \in Workers
    BY <1>4
  <2> QED BY <1>0, <1>3, <1>6, <2>1, <2>2 DEF BootOrder
<1>8. BootNodes'
  <2>1. (Gathered' <=> Gathered) /\ (\A p \in Workers : Informed(p)' <=> Informed(p))
    BY <1>0, <1>6 DEF Gathered, Informed
  <2>3. LocalNode(0)' = LocalNode(0)
    BY <1>1, <1>2
  <2>4. \A k \in 1 .. done : LocalNode(socks[k])' = LocalNode(socks[k])
    BY <1>0 DEF LocalNode
  <2> QED BY <1>0, <1>2, <1>3, <1>6, <2>1, <2>3, <2>4 DEF BootNodes
<1> QED BY <1>5, <1>7, <1>8 DEF BootInv

\* Rank 0 accepts the worker at the head of the backlog.
LEMMA BootAccept ==
  ASSUME BootInv, AcceptWorker
  PROVE  BootInv'
<1>0. /\ pc[0] = "accept" /\ bootQueue # << >> /\ setup' = setup /\ infos' = infos
      /\ shared' = shared /\ done' = done /\ nodes' = nodes
      /\ bootQueue' = Tail(bootQueue) /\ socks' = Append(socks, Head(bootQueue))
      /\ pc' = [pc EXCEPT ![0] = IF Len(socks') = N - 1 THEN "collect" ELSE "accept"]
  BY DEF AcceptWorker, viewVars
<1>1. 0 \in Ranks /\ Workers \subseteq Ranks /\ 0 \notin Workers /\ N \in Nat /\ N >= 2
  BY RankFacts
<1>2. /\ Whole' = Whole /\ Views' = Views /\ (\A p \in Ranks : LocalNode(p)' = LocalNode(p))
  BY <1>0, SetupSteps
<1>3. BootTypes /\ BootOrder /\ BootNodes
  BY DEF BootInv
<1>4. /\ pc \in [Ranks -> {"listen", "accept", "collect", "share", "join", "announce", "learn", "decide",
                       "wire", "ok", "failed"}]
      /\ bootQueue \in Seq(Workers) /\ socks \in Seq(Workers)
  BY <1>3 DEF BootTypes
<1>5. Head(bootQueue) \in Workers /\ bootQueue' \in Seq(Workers) /\ socks' \in Seq(Workers)
  BY <1>0, <1>4
<1>6. (pc'[0] = IF Len(socks') = N - 1 THEN "collect" ELSE "accept") /\ (\A p \in Workers : pc'[p] = pc[p])
  BY <1>0, <1>1, <1>4
<1>7. BootTypes'
  <2>1. pc' \in [Ranks -> {"listen", "accept", "collect", "share", "join", "announce", "learn", "decide",
                       "wire", "ok", "failed"}]
    BY <1>0, <1>1, <1>4
  <2> QED BY <1>0, <1>2, <1>3, <1>5, <1>6, <2>1 DEF BootTypes
<1>8. BootOrder'
  <2>1. PICK n \in Nat : n = Len(socks) /\ DOMAIN socks = 1 .. n
    BY <1>4
  <2>2. PICK m \in Nat : m = Len(bootQueue) /\ DOMAIN bootQueue = 1 .. m /\ m >= 1
    BY <1>0, <1>4
  <2>3. /\ DOMAIN socks' = 1 .. n + 1 /\ Len(socks') = n + 1 /\ socks'[n + 1] = bootQueue[1]
        /\ \A i \in 1 .. n : socks'[i] = socks[i] /\ socks[i] \in Workers
    BY <1>0, <1>4, <1>5, <2>1
  <2>4. DOMAIN bootQueue' = 1 .. m - 1
        /\ \A i \in 1 .. m - 1 : i + 1 \in 1 .. m /\ 1 \in 1 .. m /\ i + 1 # 1 /\ bootQueue'[i] = bootQueue[i + 1]
    BY <1>0, <1>4, <2>2
  <2>5. \A i \in 1 .. m : bootQueue[i] \in Workers
    BY <1>4, <2>2
  <2>6. \A i \in 1 .. n + 1 : i \in 1 .. n \/ i = n + 1
    BY <2>1
  <2>7. 1 \in 1 .. m
    BY <2>2
  <2>8. n < N - 1
    BY <1>0, <1>3, <2>1 DEF BootOrder
  <2>9. \A i, j \in DOMAIN bootQueue' : bootQueue'[i] = bootQueue'[j] => i = j
    <3> SUFFICES ASSUME NEW i \in 1 .. m - 1, NEW j \in 1 .. m - 1, bootQueue[i + 1] = bootQueue[j + 1]
                 PROVE  i = j
      BY <2>4
    <3>1. i + 1 = j + 1
      BY <1>3, <2>2, <2>4 DEF BootOrder
    <3> QED BY <3>1
  <2>10. \A i, j \in DOMAIN socks' : socks'[i] = socks'[j] => i = j
    BY <1>3, <2>1, <2>2, <2>3, <2>6, <2>7 DEF BootOrder
  <2>11. \A i \in DOMAIN bootQueue', j \in DOMAIN socks' : bootQueue'[i] # socks'[j]
    <3> SUFFICES ASSUME NEW i \in 1 .. m - 1, NEW j \in 1 .. n + 1
                 PROVE  bootQueue[i + 1] # socks'[j]
      BY <2>3, <2>4
    <3>1. CASE j = n + 1
      BY <1>3, <2>2, <2>3, <2>4, <3>1 DEF BootOrder
    <3>2. CASE j \in 1 .. n
      <4>1. \A a \in 1 .. m, b \in 1 .. n : bootQueue[a] # socks[b]
        BY <1>3, <2>1, <2>2 DEF BootOrder
      <4>2. i + 1 \in 1 .. m /\ socks'[j] = socks[j]
        BY <2>3, <2>4, <3>2
      <4> QED BY <3>2, <4>1, <4>2
    <3> QED BY <2>6, <3>1, <3>2
  <2>12. \A i \in DOMAIN bootQueue' : pc'[bootQueue'[i]] \notin {"listen", "join"}
    BY <1>3, <1>6, <2>2, <2>4, <2>5 DEF BootOrder
  <2>13. \A i \in DOMAIN socks' : pc'[socks'[i]] \notin {"listen", "join"}
    BY <1>3, <1>6, <2>1, <2>2, <2>3, <2>5, <2>6, <2>7 DEF BootOrder
  <2>14. IF pc'[0] \in {"listen", "accept"} THEN Len(socks') < N - 1 ELSE Len(socks') = N - 1
    BY <1>1, <1>6, <2>3, <2>8
  <2> QED BY <2>9, <2>10, <2>11, <2>12, <2>13, <2>14 DEF BootOrder
<1>9. BootNodes'
  <2>1. ~Gathered /\ ~Gathered' /\ (\A p \in Workers : Informed(p)' <=> Informed(p))
    BY <1>0, <1>6 DEF Gathered, Informed
  <2>2. done = 0 /\ nodes[0][0] = LocalNode(0)
    BY <1>0, <1>3 DEF BootNodes
  <2>3. LocalNode(0)' = LocalNode(0)
    BY <1>1, <1>2
  <2> QED BY <1>0, <1>2, <1>3, <2>1, <2>2, <2>3 DEF BootNodes
<1> QED BY <1>7, <1>8, <1>9 DEF BootInv

\* The workers after this one.
LEMMA NextDone ==
  ASSUME NEW d \in 0 .. N - 2
  PROVE  /\ (d + 1) % (N - 1) \in 0 .. N - 2
         /\ (d + 1) % (N - 1) = IF d + 1 = N - 1 THEN 0 ELSE d + 1
<1>1. N \in Nat /\ N >= 2
  BY RankFacts
<1>2. CASE d + 1 = N - 1
  BY <1>1, <1>2
<1>3. CASE d + 1 # N - 1
  BY <1>1, <1>3
<1> QED BY <1>1, <1>2, <1>3

\* Rank 0 stores a NodeInfo at the place it names.
LEMMA BootCollect ==
  ASSUME BootInv, RecvNodeInfo
  PROVE  BootInv'
<1>0. /\ pc[0] = "collect" /\ setup' = setup /\ infos' = infos /\ socks' = socks
      /\ shared' = shared /\ bootQueue' = bootQueue
      /\ nodes' = [nodes EXCEPT ![0][Place(done + 1)] = LocalNode(socks[done + 1])]
      /\ done' = (done + 1) % (N - 1)
      /\ pc' = [pc EXCEPT ![0] = IF done' = 0 THEN "share" ELSE "collect"]
  BY DEF RecvNodeInfo
<1>1. 0 \in Ranks /\ Workers \subseteq Ranks /\ 0 \notin Workers /\ N \in Nat /\ N >= 2
  BY RankFacts
<1>2. /\ Whole' = Whole /\ Views' = Views /\ (\A p \in Ranks : LocalNode(p)' = LocalNode(p))
  BY <1>0, SetupSteps
<1>3. BootTypes /\ BootOrder /\ BootNodes
  BY DEF BootInv
<1>4. /\ pc \in [Ranks -> {"listen", "accept", "collect", "share", "join", "announce", "learn", "decide",
                       "wire", "ok", "failed"}]
      /\ bootQueue \in Seq(Workers) /\ socks \in Seq(Workers) /\ done \in 0 .. N - 2
      /\ nodes \in [Ranks -> Views]
  BY <1>3 DEF BootTypes
<1>5. DOMAIN socks = 1 .. N - 1 /\ (\A w \in Workers : \E k \in 1 .. N - 1 : socks[k] = w) /\ Len(socks) = N - 1
  <2>1. Len(socks) = N - 1
    BY <1>0, <1>3 DEF BootOrder
  <2> QED BY <2>1, AllCome
<1>6. PICK w \in Workers : w = socks[done + 1]
  <2>1. done + 1 \in 1 .. N - 1
    BY <1>1, <1>4
  <2> QED BY <1>4, <1>5, <2>1
<1>7. Place(done + 1) = w
  BY <1>6 DEF Place, LocalNode
<1>8. /\ nodes'[0] = [nodes[0] EXCEPT ![w] = LocalNode(w)] /\ nodes' \in [Ranks -> Views]
      /\ (\A p \in Workers : nodes'[p] = nodes[p])
  <2>1. nodes' = [nodes EXCEPT ![0] = [nodes[0] EXCEPT ![w] = LocalNode(w)]]
    BY <1>0, <1>6, <1>7
  <2>2. nodes[0] \in Views /\ LocalNode(w) \in {NoNode} \cup {LocalNode(p) : p \in Ranks}
    BY <1>1, <1>4
  <2>3. [nodes[0] EXCEPT ![w] = LocalNode(w)] \in Views
    BY <2>2 DEF Views
  <2> QED BY <1>1, <1>4, <2>1, <2>3
<1>9. \A p \in Ranks : nodes'[0][p] = IF p = w THEN LocalNode(w) ELSE nodes[0][p]
  <2>1. nodes[0] \in Views
    BY <1>1, <1>4
  <2> QED BY <1>8, <2>1 DEF Views
<1>10. /\ done' \in 0 .. N - 2 /\ done' = IF done + 1 = N - 1 THEN 0 ELSE done + 1
       /\ (pc'[0] = IF done' = 0 THEN "share" ELSE "collect")
       /\ (\A p \in Workers : pc'[p] = pc[p])
  BY <1>0, <1>1, <1>4, NextDone
<1>11. BootTypes'
  <2>1. pc' \in [Ranks -> {"listen", "accept", "collect", "share", "join", "announce", "learn", "decide",
                       "wire", "ok", "failed"}]
    BY <1>0, <1>1, <1>4
  <2> QED BY <1>0, <1>2, <1>3, <1>8, <1>10, <2>1 DEF BootTypes
<1>12. BootOrder'
  <2>1. \A i \in DOMAIN bootQueue : bootQueue[i] \in Workers
    BY <1>4
  <2>2. \A i \in DOMAIN socks : socks[i] \in Workers
    BY <1>4
  <2> QED BY <1>0, <1>3, <1>10, <2>1, <2>2 DEF BootOrder
<1>13. nodes'[0][0] = LocalNode(0) /\ \A k \in 1 .. done + 1 : nodes'[0][socks[k]] = LocalNode(socks[k])
  <2>1. nodes[0][0] = LocalNode(0) /\ \A k \in 1 .. done : nodes[0][socks[k]] = LocalNode(socks[k])
    BY <1>0, <1>3 DEF BootNodes
  <2>2. nodes'[0][0] = LocalNode(0)
    BY <1>1, <1>6, <1>9, <2>1
  <2>3. ASSUME NEW k \in 1 .. done + 1 PROVE nodes'[0][socks[k]] = LocalNode(socks[k])
    <3>1. k \in 1 .. N - 1 /\ (k \in 1 .. done \/ k = done + 1)
      BY <1>1, <1>4
    <3>2. socks[k] \in Ranks
      BY <1>1, <1>4, <1>5, <3>1
    <3> QED BY <1>6, <1>9, <2>1, <3>1, <3>2
  <2> QED BY <2>2, <2>3
<1>14. done' = 0 => nodes'[0] = Whole
  <2> SUFFICES ASSUME done' = 0 PROVE nodes'[0] = Whole
    OBVIOUS
  <2>1. done + 1 = N - 1
    BY <1>4, <1>10
  <2>2. ASSUME NEW p \in Ranks PROVE nodes'[0][p] = LocalNode(p)
    <3>1. CASE p = 0
      BY <1>13, <3>1
    <3>2. CASE p \in Workers
      <4>1. PICK k \in 1 .. N - 1 : socks[k] = p
        BY <1>5, <3>2
      <4> QED BY <1>13, <2>1, <4>1
    <3> QED BY <3>1, <3>2, RankFacts
  <2>3. nodes'[0] \in Views
    BY <1>1, <1>8
  <2> QED BY <2>2, <2>3 DEF Views, Whole
<1>15. BootNodes'
  <2>1. ~Gathered /\ (Gathered' <=> done' = 0) /\ (\A p \in Workers : Informed(p)' <=> Informed(p))
    BY <1>0, <1>10 DEF Gathered, Informed
  <2>2. LocalNode(0)' = LocalNode(0)
    BY <1>1, <1>2
  <2>3. done' # 0 => done' = done + 1
    BY <1>10
  <2>4. \A k \in 1 .. done + 1 : LocalNode(socks[k])' = LocalNode(socks[k])
    BY <1>0 DEF LocalNode
  <2>5. (\A p \in Workers : shared[p] = NoNodes /\ ~Informed(p)) /\ NoNodes' = NoNodes
    BY <1>3, <2>1 DEF BootNodes, NoNodes
  <2>6. pc'[0] # "listen" /\ pc'[0] # "accept" /\ (pc'[0] = "collect" => done' # 0)
    BY <1>10
  <2> QED BY <1>0, <1>2, <1>13, <1>14, <2>1, <2>2, <2>3, <2>4, <2>5, <2>6 DEF BootNodes
<1> QED BY <1>11, <1>12, <1>15 DEF BootInv

\* Rank 0 sends the whole list to a worker.
LEMMA BootShare ==
  ASSUME BootInv, BroadcastAllNodes
  PROVE  BootInv'
<1>0. /\ pc[0] = "share" /\ setup' = setup /\ infos' = infos /\ socks' = socks
      /\ nodes' = nodes /\ bootQueue' = bootQueue
      /\ shared' = [shared EXCEPT ![socks[done + 1]] = nodes[0]]
      /\ done' = (done + 1) % (N - 1)
      /\ pc' = [pc EXCEPT ![0] = IF done' = 0 THEN "decide" ELSE "share"]
  BY DEF BroadcastAllNodes, viewVars
<1>1. 0 \in Ranks /\ Workers \subseteq Ranks /\ 0 \notin Workers /\ N \in Nat /\ N >= 2
  BY RankFacts
<1>2. /\ Whole' = Whole /\ Views' = Views /\ (\A p \in Ranks : LocalNode(p)' = LocalNode(p))
  BY <1>0, SetupSteps
<1>3. BootTypes /\ BootOrder /\ BootNodes
  BY DEF BootInv
<1>4. /\ pc \in [Ranks -> {"listen", "accept", "collect", "share", "join", "announce", "learn", "decide",
                       "wire", "ok", "failed"}]
      /\ bootQueue \in Seq(Workers) /\ socks \in Seq(Workers) /\ done \in 0 .. N - 2
      /\ shared \in [Workers -> {NoNodes, Whole}]
  BY <1>3 DEF BootTypes
<1>5. nodes[0] = Whole /\ Gathered
  BY <1>0, <1>3 DEF BootNodes, Gathered
<1>6. /\ done' \in 0 .. N - 2
      /\ pc'[0] \in {"decide", "share"}
      /\ (\A p \in Workers : pc'[p] = pc[p])
  BY <1>0, <1>1, <1>4, NextDone
<1>7. BootTypes'
  <2>1. pc' \in [Ranks -> {"listen", "accept", "collect", "share", "join", "announce", "learn", "decide",
                       "wire", "ok", "failed"}]
    BY <1>0, <1>1, <1>4
  <2>2. NoNodes' = NoNodes
    BY DEF NoNodes
  <2>3. shared' \in [Workers -> {NoNodes, Whole}]
    BY <1>0, <1>4, <1>5
  <2> QED BY <1>0, <1>2, <1>3, <1>6, <2>1, <2>2, <2>3 DEF BootTypes
<1>8. BootOrder'
  <2>1. \A i \in DOMAIN bootQueue : bootQueue[i] \in Workers
    BY <1>4
  <2>2. \A i \in DOMAIN socks : socks[i] \in Workers
    BY <1>4
  <2> QED BY <1>0, <1>3, <1>6, <2>1, <2>2 DEF BootOrder
<1>9. BootNodes'
  <2>1. Gathered' /\ (\A p \in Workers : Informed(p)' <=> Informed(p))
    BY <1>6 DEF Gathered, Informed
  <2>2. LocalNode(0)' = LocalNode(0) /\ nodes[0][0] = LocalNode(0)
    BY <1>0, <1>1, <1>2, <1>3 DEF BootNodes
  <2>3. pc'[0] # "collect" /\ pc'[0] \notin {"listen", "accept"}
    BY <1>6
  <2> QED BY <1>0, <1>2, <1>3, <1>5, <2>1, <2>2, <2>3 DEF BootNodes
<1> QED BY <1>7, <1>8, <1>9 DEF BootInv

\* A worker receives the list.
LEMMA BootLearn ==
  ASSUME BootInv, NEW w \in Workers, RecvAllNodes(w)
  PROVE  BootInv'
<1>0. /\ pc[w] = "learn" /\ shared[w] # NoNodes /\ setup' = setup /\ socks' = socks /\ infos' = infos
      /\ shared' = shared /\ done' = done /\ bootQueue' = bootQueue
      /\ nodes' = [nodes EXCEPT ![w] = shared[w]]
      /\ pc' = [pc EXCEPT ![w] = "decide"]
  BY DEF RecvAllNodes, bootVars
<1>1. 0 \in Ranks /\ Workers \subseteq Ranks /\ 0 \notin Workers /\ w # 0
  BY RankFacts
<1>2. /\ Whole' = Whole /\ Views' = Views /\ (\A p \in Ranks : LocalNode(p)' = LocalNode(p))
  BY <1>0, SetupSteps
<1>3. BootTypes /\ BootOrder /\ BootNodes
  BY DEF BootInv
<1>4. /\ pc \in [Ranks -> {"listen", "accept", "collect", "share", "join", "announce", "learn", "decide",
                       "wire", "ok", "failed"}]
      /\ bootQueue \in Seq(Workers) /\ socks \in Seq(Workers)
      /\ shared \in [Workers -> {NoNodes, Whole}] /\ nodes \in [Ranks -> Views]
  BY <1>3 DEF BootTypes
<1>5. shared[w] = Whole /\ Gathered
  BY <1>0, <1>3, <1>4 DEF BootNodes
<1>6. nodes' \in [Ranks -> Views] /\ nodes'[w] = Whole /\ (\A p \in Ranks : p # w => nodes'[p] = nodes[p])
  <2>1. Whole \in Views
    BY DEF Whole, Views
  <2> QED BY <1>0, <1>1, <1>4, <1>5, <2>1
<1>7. pc'[0] = pc[0] /\ pc'[w] = "decide" /\ (\A p \in Workers : p # w => pc'[p] = pc[p])
  BY <1>0, <1>1, <1>4
<1>8. BootTypes'
  <2>1. pc' \in [Ranks -> {"listen", "accept", "collect", "share", "join", "announce", "learn", "decide",
                       "wire", "ok", "failed"}]
    BY <1>0, <1>1, <1>4
  <2> QED BY <1>0, <1>1, <1>2, <1>3, <1>6, <1>7, <2>1 DEF BootTypes
<1>9. BootOrder'
  <2>1. \A i \in DOMAIN bootQueue : bootQueue[i] \in Workers
    BY <1>4
  <2>2. \A i \in DOMAIN socks : socks[i] \in Workers
    BY <1>4
  <2> QED BY <1>0, <1>3, <1>7, <2>1, <2>2 DEF BootOrder
<1>10. BootNodes'
  <2>1. Gathered' /\ (\A p \in Workers : Informed(p)' => p = w \/ Informed(p))
    BY <1>5, <1>7 DEF Gathered, Informed
  <2>2. LocalNode(0)' = LocalNode(0) /\ nodes'[0] = nodes[0]
    BY <1>1, <1>2, <1>6
  <2>3. pc'[0] # "collect"
    BY <1>5, <1>7 DEF Gathered
  <2> QED BY <1>0, <1>1, <1>2, <1>3, <1>5, <1>6, <1>7, <2>1, <2>2, <2>3 DEF BootNodes
<1> QED BY <1>8, <1>9, <1>10 DEF BootInv

-----------------------------------------------------------------------------
(* What the threads' half of the invariant is about *)

\* A sequence without repetition, its head taken.
LEMMA TailOnce ==
  ASSUME NEW S, NEW q \in Seq(S), q # << >>, \A i, j \in DOMAIN q : q[i] = q[j] => i = j
  PROVE  /\ Head(q) \in S /\ Head(q) \in Members(q) /\ Tail(q) \in Seq(S)
         /\ Members(Tail(q)) = Members(q) \ {Head(q)}
         /\ \A i, j \in DOMAIN Tail(q) : Tail(q)[i] = Tail(q)[j] => i = j
<1>1. PICK n \in Nat : n = Len(q) /\ DOMAIN q = 1 .. n /\ n >= 1
  OBVIOUS
<1>2. /\ Tail(q) \in Seq(S) /\ DOMAIN Tail(q) = 1 .. n - 1
      /\ \A i \in 1 .. n - 1 : Tail(q)[i] = q[i + 1]
  <2>1. Tail(q) \in Seq(S) /\ Len(Tail(q)) = n - 1
    BY <1>1
  <2>2. DOMAIN Tail(q) = 1 .. n - 1
    BY <2>1
  <2> QED BY <1>1, <2>1, <2>2
<1>3. Head(q) = q[1] /\ 1 \in 1 .. n
  BY <1>1
<1>4. \A i \in 1 .. n - 1 : i + 1 \in 1 .. n /\ i + 1 # 1
  BY <1>1
<1>5. \A i \in 1 .. n : i = 1 \/ (i - 1 \in 1 .. n - 1 /\ (i - 1) + 1 = i)
  BY <1>1
<1>6. {Tail(q)[i] : i \in 1 .. n - 1} = {q[i] : i \in 1 .. n} \ {q[1]}
  <2>1. ASSUME NEW x \in {Tail(q)[i] : i \in 1 .. n - 1} PROVE x \in {q[i] : i \in 1 .. n} \ {q[1]}
    <3>1. PICK i \in 1 .. n - 1 : x = q[i + 1]
      BY <1>2
    <3> QED BY <1>1, <1>3, <1>4, <3>1
  <2>2. ASSUME NEW x \in {q[i] : i \in 1 .. n} \ {q[1]} PROVE x \in {Tail(q)[i] : i \in 1 .. n - 1}
    <3>1. PICK i \in 1 .. n : x = q[i] /\ i # 1
      OBVIOUS
    <3>2. i - 1 \in 1 .. n - 1 /\ Tail(q)[i - 1] = q[(i - 1) + 1] /\ (i - 1) + 1 = i
      BY <1>2, <1>5, <3>1
    <3> QED BY <3>1, <3>2
  <2> QED BY <2>1, <2>2
<1>7. \A i, j \in 1 .. n - 1 : Tail(q)[i] = Tail(q)[j] => i = j
  <2> SUFFICES ASSUME NEW i \in 1 .. n - 1, NEW j \in 1 .. n - 1, Tail(q)[i] = Tail(q)[j] PROVE i = j
    OBVIOUS
  <2>1. i + 1 = j + 1
    BY <1>1, <1>2, <1>4
  <2> QED BY <2>1
<1>8. Head(q) \in S /\ Head(q) \in Members(q)
  BY <1>1, <1>3 DEF Members
<1>9. Members(Tail(q)) = Members(q) \ {Head(q)}
  BY <1>1, <1>2, <1>3, <1>6 DEF Members
<1> QED BY <1>2, <1>7, <1>8, <1>9

\* A rank with a thread that runs has decided, and holds the whole list.
LEMMA Runs ==
  ASSUME BootInv, WireInv, NEW r \in Ranks, connecter[r] # "off" \/ accepter[r] # "off" \/ Decided(r)
  PROVE  /\ Decided(r) /\ nodes[r] = Whole /\ rdmaReady[r] = RdmaReady(r) /\ edges[r] = PeerEdges(r)
         /\ \A p \in Ranks : pc[p] # "listen"
<1>1. Decided(r) /\ rdmaReady[r] = RdmaReady(r) /\ edges[r] = PeerEdges(r)
  BY DEF WireInv, Decisions
<1> QED BY <1>1, AllListening DEF Decided

\* What a rank that has not decided has begun: nothing.
LEMMA NotBegun ==
  ASSUME WireInv, NEW r \in Ranks, ~Decided(r)
  PROVE  Linked(r) = {} /\ Started(r) = {}
<1>1. edges[r] = {} /\ connecter[r] = "off"
  BY DEF WireInv, Decisions
<1>2. ActiveEdges(r, edges[r]) = {}
  BY <1>1 DEF ActiveEdges
<1> QED BY <1>1, <1>2 DEF Linked, Started, InHand

\* An edge begun is one of the rank's active edges.
LEMMA BegunEdges ==
  ASSUME WireInv, NEW r \in Ranks, NEW e \in Started(r)
  PROVE  /\ Decided(r) /\ e \in edges[r] /\ e \in [ch : Channels, peer : Ranks, send : BOOLEAN] /\ r < e.peer
         /\ e \in ActiveEdges(r, edges[r])
<1>1. Decided(r)
  BY NotBegun
<1>2. e \in ActiveEdges(r, edges[r])
  <2>1. CASE e \in Linked(r)
    BY <2>1 DEF Linked
  <2>2. CASE e \notin Linked(r)
    <3>1. InHand(r) /\ e = Head(todo[r])
      BY <2>2 DEF Started
    <3>2. todo[r] # << >> /\ todo[r] \in Seq(ActiveEdges(r, edges[r]))
      BY <3>1 DEF WireInv, TodoOK
    <3> QED BY <3>1, <3>2
  <2> QED BY <2>1, <2>2
<1>3. e \in edges[r] /\ r < e.peer
  BY <1>2 DEF ActiveEdges
<1>4. edges[r] \subseteq [ch : Channels, peer : Ranks, send : BOOLEAN]
  BY DEF WireInv, ThreadTypes
<1> QED BY <1>1, <1>2, <1>3, <1>4

\* A connection names its edge.
LEMMA ConnNames ==
  ASSUME NEW r,
         NEW e \in [ch : Channels, peer : Ranks, send : BOOLEAN],
         NEW f \in [ch : Channels, peer : Ranks, send : BOOLEAN]
  PROVE  /\ ConnFor(r, e).from = r /\ ConnFor(r, e).to = e.peer
         /\ ConnFor(r, e).ch = e.ch /\ ConnFor(r, e).send = e.send
         /\ e.ch = f.ch /\ e.peer = f.peer /\ e.send = f.send => e = f
BY DEF ConnFor

\* What a rank derives changes with its list alone.
LEMMA ViewSteps ==
  ASSUME setup' = setup, NEW r \in Ranks, nodes'[r] = nodes[r]
  PROVE  /\ RdmaReady(r)' = RdmaReady(r) /\ PeerEdges(r)' = PeerEdges(r)
         /\ \A p \in Ranks : SameHost(r, p)' = SameHost(r, p)
<1>1. \A p : LocalRanks(r, p)' = LocalRanks(r, p)
  BY DEF LocalRanks
<1>2. \A p : LeaderOf(r, p)' = LeaderOf(r, p)
  <2> TAKE p
  <2>1. LocalRanks(r, p)' = LocalRanks(r, p)
    BY <1>1
  <2> QED BY <2>1 DEF LeaderOf
<1>3. MachineLeaders(r)' = MachineLeaders(r)
  <2>1. {LeaderOf(r, p)' : p \in Ranks} = {LeaderOf(r, p) : p \in Ranks}
    BY <1>2
  <2> QED BY <2>1 DEF MachineLeaders
<1>4. LeaderOf(r, r)' = LeaderOf(r, r) /\ LocalRanks(r, r)' = LocalRanks(r, r)
  BY <1>1, <1>2
<1>5. MachineIndex(r)' = MachineIndex(r)
  BY <1>3, <1>4 DEF MachineIndex
<1>6. StarPeers(r)' = StarPeers(r)
  BY <1>4 DEF StarPeers
<1>7. \A ch, i : Mirror(r, ch, i)' = Mirror(r, ch, i)
  BY <1>3 DEF Mirror
<1>8. \A ch : TreeParent(r, ch)' = TreeParent(r, ch) /\ TreeChildren(r, ch)' = TreeChildren(r, ch)
  <2> TAKE ch
  <2>1. TreeParent(r, ch)' = TreeParent(r, ch)
    BY <1>3, <1>5 DEF TreeParent, Mirror
  <2>2. TreeChildren(r, ch)' = TreeChildren(r, ch)
    BY <1>3, <1>5 DEF TreeChildren, Mirror
  <2> QED BY <2>1, <2>2
<1>9. \A ch : TreePeers(r, ch)' = TreePeers(r, ch)
  BY <1>4, <1>6, <1>8 DEF TreePeers
<1>10. PeerEdges(r)' = PeerEdges(r)
  <2>1. \A e : e \in PeerEdges(r)' <=> e \in PeerEdges(r)
    <3> TAKE e
    <3>1. e \in PeerEdges(r)' <=>
           \E ch \in Channels :
             \/ e = [ch |-> ch, peer |-> (r + 1) % N, send |-> TRUE]
             \/ e = [ch |-> ch, peer |-> (r + N - 1) % N, send |-> FALSE]
             \/ \E q \in TreePeers(r, ch)', s \in BOOLEAN : e = [ch |-> ch, peer |-> q, send |-> s]
      BY DEF PeerEdges
    <3>2. \A ch \in Channels :
            (\E q \in TreePeers(r, ch)', s \in BOOLEAN : e = [ch |-> ch, peer |-> q, send |-> s])
        <=> (\E q \in TreePeers(r, ch), s \in BOOLEAN : e = [ch |-> ch, peer |-> q, send |-> s])
      <4> TAKE ch \in Channels
      <4>1. TreePeers(r, ch)' = TreePeers(r, ch)
        BY <1>9
      <4> QED BY <4>1
    <3> QED BY <3>1, <3>2, EdgeKinds
  <2> QED BY <2>1
<1>11. RdmaReady(r)' = RdmaReady(r)
  BY DEF RdmaReady
<1> QED BY <1>10, <1>11 DEF SameHost

\* So does the connection it makes of an edge.
LEMMA ConnSteps ==
  ASSUME setup' = setup, NEW r \in Ranks, nodes'[r] = nodes[r], rdmaReady'[r] = rdmaReady[r],
         NEW e \in [ch : Channels, peer : Ranks, send : BOOLEAN]
  PROVE  ConnFor(r, e)' = ConnFor(r, e) /\ ActiveEnd(r, e)' = ActiveEnd(r, e)
<1>1. PICK p \in Ranks : p = e.peer
  OBVIOUS
<1>2. SameHost(r, p)' = SameHost(r, p)
  BY <1>1, ViewSteps
<1>3. Net(r, p)' = Net(r, p)
  BY <1>2 DEF Net
<1>4. ConnFor(r, e)' = ConnFor(r, e)
  BY <1>1, <1>3 DEF ConnFor
<1> QED BY <1>4 DEF ActiveEnd

-----------------------------------------------------------------------------
(* Steps that leave the threads alone *)

\* Initially no thread has anything.
LEMMA WireInit ==
  ASSUME Init
  PROVE  WireInv
<1>0. /\ 0 \in Ranks /\ N \in Nat /\ N >= 2 /\ Retries \in Nat \ {0} /\ MaxFaults \in Nat
  BY RankFacts, StartupAssumption
<1>1. \A r \in Ranks : /\ pc[r] = "listen" /\ listening[r] = {} /\ edges[r] = {} /\ todo[r] = << >>
                       /\ connecter[r] = "off" /\ accepter[r] = "off" /\ owed[r] = 0 /\ wires[r] = {}
                       /\ error[r] = FALSE
  BY DEF Init
<1>2. conns = {}
  BY DEF Init
<1>3. ThreadTypes
  BY <1>0 DEF Init, ThreadTypes
<1>4. Decisions
  BY <1>1 DEF Decisions, Decided
<1>5. Listeners
  BY <1>1 DEF Listeners
<1>6. \A r \in Ranks : ActiveEdges(r, edges[r]) = {} /\ AcceptEdges(r, edges[r]) = {}
  BY <1>1 DEF ActiveEdges, AcceptEdges
<1>7. \A r \in Ranks : Linked(r) = {} /\ Started(r) = {} /\ Taken(r) = {} /\ Landed(r) = {} /\ Awaited(r) = {}
  BY <1>1, <1>2, <1>6 DEF Linked, Started, InHand, Taken, Landed, Awaited
<1>8. TodoOK
  <2>1. << >> \in Seq({}) /\ DOMAIN << >> = {}
    OBVIOUS
  <2>2. \A r \in Ranks : todo[r] \in Seq(ActiveEdges(r, edges[r])) /\ DOMAIN todo[r] = {}
    BY <1>1, <1>6, <2>1
  <2> QED BY <1>1, <2>2 DEF TodoOK, InHand
<1>9. ConnsOK
  BY <1>2, <1>7 DEF ConnsOK
<1>10. AcceptOK
  BY <1>1, <1>7, FS_EmptySet DEF AcceptOK
<1>11. WiresOK
  BY <1>1, <1>7 DEF WiresOK
<1>12. Endings
  BY <1>1 DEF Endings
<1> QED BY <1>3, <1>4, <1>5, <1>8, <1>9, <1>10, <1>11, <1>12 DEF WireInv

\* A step that leaves the threads and what the decided ranks know alone keeps
\* their half of the invariant.
LEMMA WireKept ==
  ASSUME BootInv, WireInv,
         UNCHANGED <<setup, rdmaReady, edges, connectVars, acceptVars, conns, wires, error, faults>>,
         \A r \in Ranks : (Decided(r)' <=> Decided(r)) /\ (Decided(r) => nodes'[r] = nodes[r]),
         Listeners', Endings', DOMAIN listening' = Ranks
  PROVE  WireInv'
<1>0. /\ setup' = setup /\ rdmaReady' = rdmaReady /\ edges' = edges /\ todo' = todo /\ attempt' = attempt
      /\ connecter' = connecter /\ owed' = owed /\ accepter' = accepter /\ incoming' = incoming
      /\ conns' = conns /\ wires' = wires /\ error' = error /\ faults' = faults
  BY DEF connectVars, acceptVars
<1>1. /\ ThreadTypes /\ Decisions /\ TodoOK /\ ConnsOK /\ AcceptOK /\ WiresOK /\ Endings
  BY DEF WireInv
<1>2. ThreadTypes'
  BY <1>0, <1>1 DEF ThreadTypes
<1>3. Decisions'
  <2>1. \A r \in Ranks : Decided(r) => RdmaReady(r)' = RdmaReady(r) /\ PeerEdges(r)' = PeerEdges(r)
    BY <1>0, ViewSteps
  <2> QED BY <1>0, <1>1, <2>1 DEF Decisions
<1>4. \A r : /\ Pending(r)' = Pending(r) /\ InHand(r)' = InHand(r)
             /\ ActiveEdges(r, edges[r])' = ActiveEdges(r, edges[r])
             /\ AcceptEdges(r, edges[r])' = AcceptEdges(r, edges[r])
  BY <1>0 DEF Pending, Members, InHand, ActiveEdges, AcceptEdges
<1>5. \A r : Linked(r)' = Linked(r) /\ Started(r)' = Started(r)
  BY <1>0, <1>4 DEF Linked, Started
<1>6. \A p : Taken(p)' = Taken(p)
  BY <1>0 DEF Taken
<1>7. \A p : Landed(p)' = Landed(p)
  BY <1>0, <1>6 DEF Landed
<1>8. \A p : Awaited(p)' = Awaited(p)
  BY <1>0, <1>4, <1>7 DEF Awaited
<1>9. \A r \in Ranks : \A e \in Started(r) : ConnFor(r, e)' = ConnFor(r, e) /\ ActiveEnd(r, e)' = ActiveEnd(r, e)
  <2> SUFFICES ASSUME NEW r \in Ranks, NEW e \in Started(r)
               PROVE  ConnFor(r, e)' = ConnFor(r, e) /\ ActiveEnd(r, e)' = ActiveEnd(r, e)
    OBVIOUS
  <2>1. Decided(r) /\ e \in [ch : Channels, peer : Ranks, send : BOOLEAN]
    BY BegunEdges
  <2> QED BY <1>0, <2>1, ConnSteps
<1>10. TodoOK'
  BY <1>0, <1>1, <1>4 DEF TodoOK
<1>11. ConnsOK'
  <2>1. \A c \in conns : c.conn.from \in Ranks
    BY <1>1 DEF ConnsOK, ConnRecords
  <2>2. ConnRecords' = ConnRecords
    BY DEF ConnRecords
  <2>3. \A c \in conns : \E e \in Started(c.conn.from)' : c.conn = ConnFor(c.conn.from, e)'
    BY <1>1, <1>5, <1>9, <2>1 DEF ConnsOK
  <2>4. \A r \in Ranks : \A e \in Started(r)' : \E c \in conns : c.conn = ConnFor(r, e)'
    BY <1>1, <1>5, <1>9 DEF ConnsOK
  <2> QED BY <1>0, <1>1, <2>2, <2>3, <2>4 DEF ConnsOK
<1>12. AcceptOK'
  BY <1>0, <1>1, <1>6, <1>8 DEF AcceptOK
<1>13. WiresOK'
  <2> SUFFICES ASSUME NEW p \in Ranks
               PROVE  wires'[p] = {ActiveEnd(p, e)' : e \in Linked(p)'} \cup {PassiveEnd(c)' : c \in Landed(p)'}
    BY DEF WiresOK
  <2>1. \A e \in Linked(p) : ActiveEnd(p, e)' = ActiveEnd(p, e)
    BY <1>9 DEF Started
  <2>2. {ActiveEnd(p, e)' : e \in Linked(p)'} = {ActiveEnd(p, e) : e \in Linked(p)}
    BY <1>5, <2>1
  <2>3. {PassiveEnd(c)' : c \in Landed(p)'} = {PassiveEnd(c) : c \in Landed(p)}
    BY <1>7 DEF PassiveEnd
  <2> QED BY <1>0, <1>1, <2>2, <2>3 DEF WiresOK
<1> QED BY <1>2, <1>3, <1>10, <1>11, <1>12, <1>13 DEF WireInv

\* The steps of the bootstrap keep the invariant.
LEMMA BootSteps ==
  ASSUME BootInv, WireInv, NEW r \in Ranks,
         \/ Listen(r)
         \/ r = 0 /\ (AcceptWorker \/ RecvNodeInfo \/ BroadcastAllNodes)
         \/ r \in Workers /\ (JoinMaster(r) \/ SendNodeInfo(r) \/ RecvAllNodes(r))
  PROVE  BootInv' /\ WireInv'
<1>1. BootInv'
  BY BootListen, BootAccept, BootCollect, BootShare, BootJoin, BootAnnounce, BootLearn
<1>2. UNCHANGED <<setup, rdmaReady, edges, connectVars, acceptVars, conns, wires, error, faults>>
  BY DEF Listen, AcceptWorker, RecvNodeInfo, BroadcastAllNodes, JoinMaster, SendNodeInfo, RecvAllNodes, viewVars
<1>3. /\ 0 \in Ranks /\ Workers \subseteq Ranks
      /\ pc \in [Ranks -> {"listen", "accept", "collect", "share", "join", "announce", "learn", "decide",
                           "wire", "ok", "failed"}]
      /\ nodes \in [Ranks -> Views]
  BY RankFacts DEF BootInv, BootTypes
<1>4. /\ \A p \in Ranks : p # r => pc'[p] = pc[p] /\ nodes'[p] = nodes[p]
      /\ ~Decided(r)
      /\ pc'[r] \in {"accept", "collect", "share", "join", "announce", "learn", "decide"}
      /\ setup' = setup
      /\ IF pc[r] = "listen" THEN listening' = [listening EXCEPT ![r] = OpenListeners(r)] ELSE listening' = listening
  <2>1. CASE Listen(r)
    BY <1>3, <2>1 DEF Listen, Decided
  <2>2. CASE r = 0 /\ AcceptWorker
    BY <1>3, <2>2 DEF AcceptWorker, Decided, viewVars
  <2>3. CASE r = 0 /\ RecvNodeInfo
    BY <1>3, <2>3 DEF RecvNodeInfo, Decided
  <2>4. CASE r = 0 /\ BroadcastAllNodes
    BY <1>3, <2>4 DEF BroadcastAllNodes, Decided, viewVars
  <2>5. CASE r \in Workers /\ JoinMaster(r)
    BY <1>3, <2>5 DEF JoinMaster, Decided, viewVars
  <2>6. CASE r \in Workers /\ SendNodeInfo(r)
    BY <1>3, <2>6 DEF SendNodeInfo, Decided, viewVars
  <2>7. CASE r \in Workers /\ RecvAllNodes(r)
    BY <1>3, <2>7 DEF RecvAllNodes, Decided
  <2> QED BY <2>1, <2>2, <2>3, <2>4, <2>5, <2>6, <2>7
<1>5. \A p \in Ranks : (Decided(p)' <=> Decided(p)) /\ (Decided(p) => nodes'[p] = nodes[p] /\ pc'[p] = pc[p])
  BY <1>4 DEF Decided
<1>6. DOMAIN listening = Ranks /\ Listeners
  BY DEF WireInv, ThreadTypes
<1>7. DOMAIN listening' = Ranks
  BY <1>4, <1>6
<1>8. Listeners'
  <2> SUFFICES ASSUME NEW p \in Ranks
               PROVE  listening'[p] = IF pc'[p] \in {"listen", "ok", "failed"} THEN {}
                        ELSE IF pc'[p] = "wire" THEN OpenListeners(p)' \ {IF RdmaReady(p)' THEN "tcp" ELSE "rdma"}
                        ELSE OpenListeners(p)'
    BY DEF Listeners
  <2>1. OpenListeners(p)' = OpenListeners(p)
    BY <1>4, SetupSteps
  <2>2. CASE p = r
    <3>1. listening'[r] = OpenListeners(r)
      BY <1>4, <1>6 DEF Listeners, Decided
    <3> QED BY <1>4, <2>1, <2>2, <3>1
  <2>3. CASE p # r
    <3>1. RdmaReady(p)' = RdmaReady(p)
      BY <1>4, <2>3, ViewSteps
    <3>2. listening'[p] = listening[p] /\ pc'[p] = pc[p]
      BY <1>4, <1>6, <2>3
    <3> QED BY <1>6, <2>1, <3>1, <3>2 DEF Listeners
  <2> QED BY <2>2, <2>3
<1>9. Endings'
  <2>1. Endings /\ connecter' = connecter /\ accepter' = accepter /\ error' = error
    BY <1>2 DEF WireInv, connectVars, acceptVars
  <2> QED BY <1>4, <2>1 DEF Endings
<1>10. WireInv'
  BY <1>2, <1>5, <1>7, <1>8, <1>9, WireKept
<1> QED BY <1>1, <1>10

-----------------------------------------------------------------------------
(* Deciding, and returning from Init *)

\* There are finitely many edges.
LEMMA EdgesFinite == IsFiniteSet([ch : Channels, peer : Ranks, send : BOOLEAN])
<1> DEFINE S == (Channels \X Ranks) \X BOOLEAN
           T == [ch : Channels, peer : Ranks, send : BOOLEAN]
           f == [x \in S |-> [ch |-> x[1][1], peer |-> x[1][2], send |-> x[2]]]
<1>1. IsFiniteSet(Channels) /\ IsFiniteSet(Ranks)
  BY StartupAssumption, RankFacts
<1>2. IsFiniteSet(BOOLEAN)
  <2>1. \A a, b : IsFiniteSet({a, b})
    <3> TAKE a, b
    <3>1. IsFiniteSet({})
      BY FS_EmptySet
    <3>2. IsFiniteSet({} \cup {a})
      BY <3>1, FS_AddElement
    <3>3. IsFiniteSet(({} \cup {a}) \cup {b})
      BY <3>2, FS_AddElement
    <3>4. ({} \cup {a}) \cup {b} = {a, b}
      OBVIOUS
    <3> QED BY <3>3, <3>4
  <2>2. IsFiniteSet({TRUE, FALSE})
    BY <2>1
  <2>3. BOOLEAN = {TRUE, FALSE}
    OBVIOUS
  <2> QED BY <2>2, <2>3
<1>3. IsFiniteSet(Channels \X Ranks)
  BY <1>1, FS_Product
<1>4. IsFiniteSet(S)
  BY <1>2, <1>3, FS_Product
<1>5. f \in Surjection(S, T)
  <2>1. f \in [S -> T]
    OBVIOUS
  <2>2. ASSUME NEW t \in T PROVE \E x \in S : f[x] = t
    <3>1. <<<<t.ch, t.peer>>, t.send>> \in S
      OBVIOUS
    <3>2. f[<<<<t.ch, t.peer>>, t.send>>] = [ch |-> t.ch, peer |-> t.peer, send |-> t.send]
      BY <3>1
    <3>3. t = [ch |-> t.ch, peer |-> t.peer, send |-> t.send]
      OBVIOUS
    <3> QED BY <3>1, <3>2, <3>3
  <2> QED BY <2>1, <2>2 DEF Surjection
<1> QED BY <1>4, <1>5, FS_Surjection

\* EdgeBefore orders the edges.
LEMMA EdgesOrdered ==
  ASSUME NEW es, es \subseteq [ch : Channels, peer : Ranks, send : BOOLEAN], NEW S, S \subseteq es
  PROVE  Orders({b \in es \X es : EdgeBefore(b[1], b[2])}, S)
<1> DEFINE R == {b \in es \X es : EdgeBefore(b[1], b[2])}
<1>1. \A x, y \in S : <<x, y>> \in R <=> EdgeBefore(x, y)
  OBVIOUS
<1>2. \A x \in S : x.ch \in Nat /\ x.peer \in Nat /\ x.send \in BOOLEAN
  <2> TAKE x \in S
  <2>1. x \in [ch : Channels, peer : Ranks, send : BOOLEAN]
    OBVIOUS
  <2>2. x.ch \in Channels /\ x.peer \in Ranks /\ x.send \in BOOLEAN
    BY <2>1
  <2>3. Channels \subseteq Nat /\ \A p \in Ranks : p \in Nat
    BY StartupAssumption, RankFacts
  <2> QED BY <2>2, <2>3
<1>3. \A x \in S : ~EdgeBefore(x, x)
  BY <1>2 DEF EdgeBefore
<1>4. \A x, y \in S : x = y \/ EdgeBefore(x, y) \/ EdgeBefore(y, x)
  <2> TAKE x, y \in S
  <2>1. x \in [ch : Channels, peer : Ranks, send : BOOLEAN] /\ y \in [ch : Channels, peer : Ranks, send : BOOLEAN]
    OBVIOUS
  <2>2. x.ch = y.ch /\ x.peer = y.peer /\ x.send = y.send => x = y
    BY <2>1
  <2> QED BY <1>2, <2>2 DEF EdgeBefore
<1>5. \A x, y, z \in S : EdgeBefore(x, y) /\ EdgeBefore(y, z) => EdgeBefore(x, z)
  <2> TAKE x, y, z \in S
  <2>1. /\ x.ch \in Nat /\ y.ch \in Nat /\ z.ch \in Nat /\ x.peer \in Nat /\ y.peer \in Nat /\ z.peer \in Nat
        /\ x.send \in BOOLEAN /\ y.send \in BOOLEAN /\ z.send \in BOOLEAN
    BY <1>2
  <2> QED BY <2>1 DEF EdgeBefore
<1> HIDE DEF R
<1> QED BY <1>1, <1>3, <1>4, <1>5 DEF Orders

\* The connect thread's list holds each active edge once.
LEMMA TodoFacts ==
  ASSUME NEW r, NEW es, es \subseteq [ch : Channels, peer : Ranks, send : BOOLEAN]
  PROVE  /\ ConnectEdges(r, es) \in Seq(ActiveEdges(r, es))
         /\ Members(ConnectEdges(r, es)) = ActiveEdges(r, es)
         /\ \A i, j \in DOMAIN ConnectEdges(r, es) : ConnectEdges(r, es)[i] = ConnectEdges(r, es)[j] => i = j
         /\ IsFiniteSet(AcceptEdges(r, es)) /\ Cardinality(AcceptEdges(r, es)) \in Nat
<1> DEFINE S == ActiveEdges(r, es)
           R == {b \in es \X es : EdgeBefore(b[1], b[2])}
<1>1. S \subseteq es /\ AcceptEdges(r, es) \subseteq es
  BY DEF ActiveEdges, AcceptEdges
<1>2. IsFiniteSet(S) /\ IsFiniteSet(AcceptEdges(r, es))
  BY <1>1, EdgesFinite, FS_Subset
<1>3. Orders(R, S)
  BY <1>1, EdgesOrdered
<1>4. PICK q : q = ConnectEdges(r, es) /\ q = Sorted(S, R)
  BY DEF ConnectEdges
<1> HIDE DEF S, R
<1>5. Lists(q, S)
  BY <1>2, <1>3, <1>4, SortedFacts
<1>6. q \in Seq(S) /\ (\A x \in S : \E i \in DOMAIN q : q[i] = x) /\ \A i, j \in DOMAIN q : q[i] = q[j] => i = j
  BY <1>5 DEF Lists
<1>7. Members(q) = S
  <2>1. \A i \in DOMAIN q : q[i] \in S
    BY <1>6
  <2> QED BY <1>6, <2>1 DEF Members
<1>8. Cardinality(AcceptEdges(r, es)) \in Nat
  BY <1>2, FS_CardinalityType
<1> QED BY <1>2, <1>4, <1>6, <1>7, <1>8 DEF S

\* Decide starts the threads with all edges to do.
LEMMA DecideSteps ==
  ASSUME BootInv, WireInv, NEW r \in Ranks, Decide(r)
  PROVE  BootInv' /\ WireInv'
<1>0. /\ pc[r] = "decide" /\ setup' = setup /\ nodes' = nodes /\ attempt' = attempt /\ incoming' = incoming
      /\ conns' = conns /\ wires' = wires /\ error' = error /\ faults' = faults
      /\ rdmaReady' = [rdmaReady EXCEPT ![r] = RdmaReady(r)]
      /\ listening' = [listening EXCEPT ![r] = KeptListeners(r)]
      /\ edges' = [edges EXCEPT ![r] = PeerEdges(r)]
      /\ todo' = [todo EXCEPT ![r] = ConnectEdges(r, edges'[r])]
      /\ owed' = [owed EXCEPT ![r] = Cardinality(AcceptEdges(r, edges'[r]))]
      /\ connecter' = [connecter EXCEPT ![r] = "idle"]
      /\ accepter' = [accepter EXCEPT ![r] = "check"]
      /\ pc' = [pc EXCEPT ![r] = "wire"]
      /\ UNCHANGED bootVars
  BY DEF Decide
<1>1. /\ ThreadTypes /\ Decisions /\ Listeners /\ TodoOK /\ ConnsOK /\ AcceptOK /\ WiresOK /\ Endings
      /\ pc \in [Ranks -> {"listen", "accept", "collect", "share", "join", "announce", "learn", "decide",
                           "wire", "ok", "failed"}]
      /\ setup \in Setups
  BY DEF WireInv, BootInv, BootTypes
<1>2. BootInv'
  BY <1>0, <1>1, BootKept
<1>3. nodes[r] = Whole /\ ~Decided(r)
  BY <1>0, AllListening DEF Decided
<1>4. PICK es \in SUBSET [ch : Channels, peer : Ranks, send : BOOLEAN] : es = PeerEdges(r)
  <2>1. \A e \in PeerEdges(r) : e \in [ch : Channels, peer : Ranks, send : BOOLEAN]
    BY <1>1, <1>3, EdgeTypes
  <2> QED BY <2>1
<1>5. DOMAIN todo = Ranks /\ DOMAIN listening = Ranks
      /\ edges \in [Ranks -> SUBSET [ch : Channels, peer : Ranks, send : BOOLEAN]]
      /\ rdmaReady \in [Ranks -> BOOLEAN] /\ owed \in [Ranks -> Nat]
      /\ connecter \in [Ranks -> {"off", "idle", "await", "greet", "ack", "end"}]
      /\ accepter \in [Ranks -> {"off", "check", "poll", "greet", "end"}]
  BY <1>1 DEF ThreadTypes
<1>6. PICK q : q = ConnectEdges(r, es)
  OBVIOUS
<1>7. /\ q \in Seq(ActiveEdges(r, es)) /\ Members(q) = ActiveEdges(r, es)
      /\ (\A i, j \in DOMAIN q : q[i] = q[j] => i = j)
      /\ Cardinality(AcceptEdges(r, es)) \in Nat
  BY <1>6, TodoFacts
<1>8. /\ edges'[r] = es /\ todo'[r] = q /\ owed'[r] = Cardinality(AcceptEdges(r, es))
      /\ connecter'[r] = "idle" /\ accepter'[r] = "check" /\ pc'[r] = "wire" /\ rdmaReady'[r] = RdmaReady(r)
      /\ listening'[r] = KeptListeners(r)
  BY <1>0, <1>1, <1>4, <1>5, <1>6
<1>9. \A p \in Ranks : p # r =>
        /\ edges'[p] = edges[p] /\ todo'[p] = todo[p] /\ owed'[p] = owed[p] /\ connecter'[p] = connecter[p]
        /\ accepter'[p] = accepter[p] /\ pc'[p] = pc[p] /\ rdmaReady'[p] = rdmaReady[p]
        /\ listening'[p] = listening[p]
  BY <1>0, <1>1, <1>5
<1>10. edges[r] = {} /\ connecter[r] = "off" /\ accepter[r] = "off" /\ Taken(r) = {} /\ Landed(r) = {}
       /\ Linked(r) = {} /\ Started(r) = {}
  <2>1. edges[r] = {} /\ connecter[r] = "off" /\ accepter[r] = "off" /\ Taken(r) = {}
    BY <1>1, <1>3 DEF Decisions, AcceptOK
  <2> QED BY <1>3, <2>1, NotBegun DEF Landed
<1>11. ThreadTypes'
  <2>1. RdmaReady(r) \in BOOLEAN
    <3>1. setup.rdma \in [Ranks -> BOOLEAN]
      BY <1>1, StartupAssumption
    <3> QED BY <3>1 DEF RdmaReady
  <2>2. edges' \in [Ranks -> SUBSET [ch : Channels, peer : Ranks, send : BOOLEAN]]
    BY <1>0, <1>4, <1>5
  <2>3. owed' \in [Ranks -> Nat]
    BY <1>0, <1>5, <1>7, <1>8
  <2> QED BY <1>0, <1>1, <1>5, <2>1, <2>2, <2>3 DEF ThreadTypes
<1>12. \A p \in Ranks : RdmaReady(p)' = RdmaReady(p) /\ PeerEdges(p)' = PeerEdges(p)
  BY <1>0, ViewSteps
<1>13. \A p \in Ranks : p # r => (Decided(p)' <=> Decided(p))
  BY <1>9 DEF Decided
<1>14. Decided(r)'
  BY <1>8 DEF Decided
<1>15. Decisions'
  BY <1>1, <1>4, <1>8, <1>9, <1>12, <1>13, <1>14 DEF Decisions
<1>16. Listeners'
  <2> SUFFICES ASSUME NEW p \in Ranks
               PROVE  listening'[p] = IF pc'[p] \in {"listen", "ok", "failed"} THEN {}
                        ELSE IF pc'[p] = "wire" THEN OpenListeners(p)' \ {IF RdmaReady(p)' THEN "tcp" ELSE "rdma"}
                        ELSE OpenListeners(p)'
    BY DEF Listeners
  <2>1. OpenListeners(p)' = OpenListeners(p) /\ RdmaReady(p)' = RdmaReady(p)
    BY <1>0, <1>12, SetupSteps
  <2>2. CASE p = r
    <3>1. listening[r] = OpenListeners(r)
      BY <1>0, <1>1 DEF Listeners
    <3> QED BY <1>8, <2>1, <2>2, <3>1 DEF KeptListeners
  <2>3. CASE p # r
    BY <1>1, <1>9, <2>1, <2>3 DEF Listeners
  <2> QED BY <2>2, <2>3
<1>17. \A p \in Ranks : p # r =>
         /\ Pending(p)' = Pending(p) /\ InHand(p)' = InHand(p)
         /\ ActiveEdges(p, edges[p])' = ActiveEdges(p, edges[p])
         /\ AcceptEdges(p, edges[p])' = AcceptEdges(p, edges[p])
         /\ Taken(p)' = Taken(p)
  BY <1>0, <1>9 DEF Pending, Members, InHand, ActiveEdges, AcceptEdges, Taken
<1>18. \A p \in Ranks : p # r =>
         /\ Linked(p)' = Linked(p) /\ Started(p)' = Started(p) /\ Landed(p)' = Landed(p)
         /\ Awaited(p)' = Awaited(p)
  <2> SUFFICES ASSUME NEW p \in Ranks, p # r
               PROVE  /\ Linked(p)' = Linked(p) /\ Started(p)' = Started(p) /\ Landed(p)' = Landed(p)
                      /\ Awaited(p)' = Awaited(p)
    OBVIOUS
  <2>1. Linked(p)' = Linked(p)
    BY <1>17 DEF Linked
  <2>2. Started(p)' = Started(p)
    BY <1>9, <1>17, <2>1 DEF Started
  <2>3. Landed(p)' = Landed(p)
    BY <1>0, <1>9, <1>17 DEF Landed
  <2>4. Awaited(p)' = Awaited(p)
    BY <1>17, <2>3 DEF Awaited
  <2> QED BY <2>1, <2>2, <2>3, <2>4
<1>19. Linked(r)' = {} /\ Started(r)' = {} /\ Landed(r)' = {} /\ Taken(r)' = {}
       /\ Awaited(r)' = AcceptEdges(r, es)
  <2>1. ActiveEdges(r, edges[r])' = ActiveEdges(r, es) /\ AcceptEdges(r, edges[r])' = AcceptEdges(r, es)
    BY <1>8 DEF ActiveEdges, AcceptEdges
  <2>2. Linked(r)' = {}
    BY <1>7, <1>8, <2>1 DEF Linked, Pending, Members
  <2>3. Started(r)' = {}
    BY <1>8, <2>2 DEF Started, InHand
  <2>4. Taken(r)' = {} /\ Landed(r)' = {}
    BY <1>0, <1>8, <1>10 DEF Taken, Landed
  <2>5. Awaited(r)' = AcceptEdges(r, es)
    BY <2>1, <2>4 DEF Awaited
  <2> QED BY <2>2, <2>3, <2>4, <2>5
<1>20. TodoOK'
  <2> SUFFICES ASSUME NEW p \in Ranks
               PROVE  /\ todo'[p] \in Seq(ActiveEdges(p, edges[p])')
                      /\ \A i, j \in DOMAIN todo'[p] : todo'[p][i] = todo'[p][j] => i = j
                      /\ InHand(p)' => todo'[p] # << >>
                      /\ connecter'[p] = "end" => todo'[p] = << >> \/ error'[p]
    BY DEF TodoOK
  <2>1. CASE p = r
    <3>1. ActiveEdges(r, edges[r])' = ActiveEdges(r, es)
      BY <1>8 DEF ActiveEdges
    <3> QED BY <1>7, <1>8, <2>1, <3>1 DEF InHand
  <2>2. CASE p # r
    BY <1>0, <1>1, <1>9, <1>17, <2>2 DEF TodoOK
  <2> QED BY <2>1, <2>2
<1>21. \A p \in Ranks : \A e \in Started(p) : p # r /\ ConnFor(p, e)' = ConnFor(p, e) /\ ActiveEnd(p, e)' = ActiveEnd(p, e)
  <2> SUFFICES ASSUME NEW p \in Ranks, NEW e \in Started(p)
               PROVE  p # r /\ ConnFor(p, e)' = ConnFor(p, e) /\ ActiveEnd(p, e)' = ActiveEnd(p, e)
    OBVIOUS
  <2>1. p # r
    BY <1>10
  <2>2. e \in [ch : Channels, peer : Ranks, send : BOOLEAN]
    BY BegunEdges
  <2> QED BY <1>0, <1>9, <2>1, <2>2, ConnSteps
<1>22. ConnsOK'
  <2>1. \A c \in conns : c.conn.from \in Ranks
    BY <1>1 DEF ConnsOK, ConnRecords
  <2>2. ConnRecords' = ConnRecords
    BY DEF ConnRecords
  <2>3. \A c \in conns : \E e \in Started(c.conn.from)' : c.conn = ConnFor(c.conn.from, e)'
    BY <1>1, <1>18, <1>21, <2>1 DEF ConnsOK
  <2>4. \A p \in Ranks : \A e \in Started(p)' : \E c \in conns : c.conn = ConnFor(p, e)'
    <3> SUFFICES ASSUME NEW p \in Ranks, NEW e \in Started(p)' PROVE \E c \in conns : c.conn = ConnFor(p, e)'
      OBVIOUS
    <3>1. p # r /\ e \in Started(p)
      BY <1>18, <1>19
    <3> QED BY <1>1, <1>21, <3>1 DEF ConnsOK
  <2> QED BY <1>0, <1>1, <2>2, <2>3, <2>4 DEF ConnsOK
<1>23. AcceptOK'
  <2> SUFFICES ASSUME NEW p \in Ranks
               PROVE  /\ accepter'[p] = "greet" => incoming'[p] \in Taken(p)'
                      /\ accepter'[p] = "off" => Taken(p)' = {}
                      /\ owed'[p] = Cardinality(Awaited(p)')
                      /\ accepter'[p] = "end" => owed'[p] = 0 \/ error'[p]
    BY DEF AcceptOK
  <2>1. CASE p = r
    BY <1>8, <1>19, <2>1
  <2>2. CASE p # r
    BY <1>0, <1>1, <1>9, <1>17, <1>18, <2>2 DEF AcceptOK
  <2> QED BY <2>1, <2>2
<1>24. WiresOK'
  <2> SUFFICES ASSUME NEW p \in Ranks
               PROVE  wires'[p] = {ActiveEnd(p, e)' : e \in Linked(p)'} \cup {PassiveEnd(c)' : c \in Landed(p)'}
    BY DEF WiresOK
  <2>1. CASE p = r
    <3>1. wires[r] = {}
      BY <1>1, <1>10 DEF WiresOK
    <3> QED BY <1>0, <1>19, <2>1, <3>1
  <2>2. CASE p # r
    <3>1. {ActiveEnd(p, e)' : e \in Linked(p)'} = {ActiveEnd(p, e) : e \in Linked(p)}
      BY <1>18, <1>21, <2>2 DEF Started
    <3>2. {PassiveEnd(c)' : c \in Landed(p)'} = {PassiveEnd(c) : c \in Landed(p)}
      BY <1>18, <2>2 DEF PassiveEnd
    <3> QED BY <1>0, <1>1, <3>1, <3>2 DEF WiresOK
  <2> QED BY <2>1, <2>2
<1>25. Endings'
  BY <1>0, <1>1, <1>8, <1>9 DEF Endings
<1> QED BY <1>2, <1>11, <1>15, <1>16, <1>20, <1>22, <1>23, <1>24, <1>25 DEF WireInv

\* Init returns once both threads have ended, and closes the listeners.
LEMMA JoinSteps ==
  ASSUME BootInv, WireInv, NEW r \in Ranks, JoinThreads(r)
  PROVE  BootInv' /\ WireInv'
<1>0. /\ pc[r] = "wire" /\ connecter[r] = "end" /\ accepter[r] = "end"
      /\ listening' = [listening EXCEPT ![r] = {}]
      /\ pc' = [pc EXCEPT ![r] = IF error[r] THEN "failed" ELSE "ok"]
      /\ UNCHANGED <<setup, bootVars, viewVars, connectVars, acceptVars, conns, wires, error, faults>>
  BY DEF JoinThreads
<1>1. /\ setup' = setup /\ nodes' = nodes /\ rdmaReady' = rdmaReady /\ edges' = edges
      /\ connecter' = connecter /\ accepter' = accepter /\ error' = error
  BY <1>0 DEF viewVars, connectVars, acceptVars
<1>2. /\ ThreadTypes /\ Listeners /\ Endings
      /\ pc \in [Ranks -> {"listen", "accept", "collect", "share", "join", "announce", "learn", "decide",
                           "wire", "ok", "failed"}]
  BY DEF WireInv, BootInv, BootTypes
<1>3. /\ \A p \in Ranks : p # r => pc'[p] = pc[p]
      /\ pc'[r] = IF error[r] THEN "failed" ELSE "ok"
      /\ pc' \in [Ranks -> {"listen", "accept", "collect", "share", "join", "announce", "learn", "decide",
                            "wire", "ok", "failed"}]
  BY <1>0, <1>2
<1>4. BootInv'
  BY <1>0, <1>1, <1>3, BootKept
<1>5. \A p \in Ranks : Decided(p)' <=> Decided(p)
  BY <1>0, <1>3 DEF Decided
<1>6. DOMAIN listening' = Ranks /\ listening'[r] = {} /\ \A p \in Ranks : p # r => listening'[p] = listening[p]
  BY <1>0, <1>2 DEF ThreadTypes
<1>7. Listeners'
  <2> SUFFICES ASSUME NEW p \in Ranks
               PROVE  listening'[p] = IF pc'[p] \in {"listen", "ok", "failed"} THEN {}
                        ELSE IF pc'[p] = "wire" THEN OpenListeners(p)' \ {IF RdmaReady(p)' THEN "tcp" ELSE "rdma"}
                        ELSE OpenListeners(p)'
    BY DEF Listeners
  <2>1. OpenListeners(p)' = OpenListeners(p) /\ RdmaReady(p)' = RdmaReady(p)
    BY <1>1, SetupSteps, ViewSteps
  <2>2. CASE p = r
    BY <1>3, <1>6, <2>2
  <2>3. CASE p # r
    BY <1>2, <1>3, <1>6, <2>1, <2>3 DEF Listeners
  <2> QED BY <2>2, <2>3
<1>8. Endings'
  BY <1>0, <1>1, <1>2, <1>3 DEF Endings
<1>9. WireInv'
  BY <1>0, <1>1, <1>5, <1>6, <1>7, <1>8, WireKept
<1> QED BY <1>4, <1>9

-----------------------------------------------------------------------------
(* Steps of the threads *)

\* A step of a thread changes neither the views nor the decisions.
LEMMA ThreadFrame ==
  ASSUME BootInv, WireInv, NEW r \in Ranks, connecter[r] # "off", accepter[r] # "off",
         UNCHANGED <<setup, pc, listening, bootVars, viewVars>>,
         \A p \in Ranks : p # r => connecter'[p] = connecter[p] /\ accepter'[p] = accepter[p]
  PROVE  /\ BootInv' /\ Decisions' /\ Listeners' /\ ConnRecords' = ConnRecords
         /\ \A p : ActiveEdges(p, edges[p])' = ActiveEdges(p, edges[p])
         /\ \A p : AcceptEdges(p, edges[p])' = AcceptEdges(p, edges[p])
         /\ \A p, e : ConnFor(p, e)' = ConnFor(p, e) /\ ActiveEnd(p, e)' = ActiveEnd(p, e)
<1>0. setup' = setup /\ pc' = pc /\ listening' = listening /\ nodes' = nodes /\ rdmaReady' = rdmaReady /\ edges' = edges
  BY DEF viewVars
<1>1. Decisions /\ Listeners /\ pc \in [Ranks -> {"listen", "accept", "collect", "share", "join", "announce", "learn",
                                                   "decide", "wire", "ok", "failed"}]
  BY DEF WireInv, BootInv, BootTypes
<1>2. BootInv'
  BY <1>0, <1>1, BootKept
<1>3. \A p \in Ranks : /\ RdmaReady(p)' = RdmaReady(p) /\ PeerEdges(p)' = PeerEdges(p)
                       /\ OpenListeners(p)' = OpenListeners(p)
  BY <1>0, ViewSteps, SetupSteps
<1>4. \A p \in Ranks : Decided(p)' <=> Decided(p)
  BY <1>0 DEF Decided
<1>5. Decided(r)
  BY Runs
<1>6. Decisions'
  BY <1>0, <1>1, <1>3, <1>4, <1>5 DEF Decisions
<1>7. Listeners'
  BY <1>0, <1>1, <1>3 DEF Listeners
<1>8. \A p : /\ ActiveEdges(p, edges[p])' = ActiveEdges(p, edges[p])
             /\ AcceptEdges(p, edges[p])' = AcceptEdges(p, edges[p])
  BY <1>0 DEF ActiveEdges, AcceptEdges
<1>9. \A p, e : ConnFor(p, e)' = ConnFor(p, e) /\ ActiveEnd(p, e)' = ActiveEnd(p, e)
  <2> TAKE p, e
  <2>1. Net(p, e.peer)' = Net(p, e.peer)
    BY <1>0 DEF Net, SameHost
  <2>2. ConnFor(p, e)' = ConnFor(p, e)
    BY <2>1 DEF ConnFor
  <2> QED BY <2>2 DEF ActiveEnd
<1>10. ConnRecords' = ConnRecords
  BY DEF ConnRecords
<1> QED BY <1>2, <1>6, <1>7, <1>8, <1>9, <1>10

\* What a connect thread has begun changes with its position alone.
LEMMA ConnectFrame ==
  ASSUME NEW p, edges' = edges, todo'[p] = todo[p], connecter'[p] = connecter[p]
  PROVE  /\ Pending(p)' = Pending(p) /\ InHand(p)' = InHand(p)
         /\ Linked(p)' = Linked(p) /\ Started(p)' = Started(p)
<1>1. Pending(p)' = Pending(p) /\ InHand(p)' = InHand(p)
  BY DEF Pending, Members, InHand
<1>2. Linked(p)' = Linked(p)
  BY <1>1 DEF Linked, ActiveEdges
<1> QED BY <1>1, <1>2 DEF Started

\* What an accept thread waits for changes with what it has taken.
LEMMA AcceptFrame ==
  ASSUME NEW p, edges' = edges, accepter'[p] = accepter[p], incoming'[p] = incoming[p], Taken(p)' = Taken(p)
  PROVE  Landed(p)' = Landed(p) /\ Awaited(p)' = Awaited(p)
<1>1. Landed(p)' = Landed(p)
  BY DEF Landed
<1> QED BY <1>1 DEF Awaited, AcceptEdges

\* A connection taken is one some lower rank has begun.
LEMMA TakenFacts ==
  ASSUME WireInv, NEW p \in Ranks, NEW c \in Taken(p)
  PROVE  /\ c.from \in Ranks /\ c.from < p /\ c.to = p /\ c.ch \in Channels /\ c.send \in BOOLEAN
         /\ \E e \in Started(c.from) : c = ConnFor(c.from, e) /\ e.peer = p /\ e.ch = c.ch /\ e.send = c.send
<1>1. PICK x \in conns : x.conn = c /\ x.conn.to = p
  BY DEF Taken
<1>2. x \in ConnRecords /\ \E e \in Started(c.from) : c = ConnFor(c.from, e)
  BY <1>1 DEF WireInv, ConnsOK
<1>3. c \in [from : Ranks, to : Ranks, ch : Channels, send : BOOLEAN, net : Nets]
  BY <1>1, <1>2 DEF ConnRecords
<1>4. c.from \in Ranks /\ c.ch \in Channels /\ c.send \in BOOLEAN /\ c.to = p
  BY <1>1, <1>3
<1>5. PICK e \in Started(c.from) : c = ConnFor(c.from, e)
  BY <1>2
<1>6. e \in [ch : Channels, peer : Ranks, send : BOOLEAN] /\ c.from < e.peer
  BY <1>4, <1>5, BegunEdges
<1>7. e.peer = p /\ e.ch = c.ch /\ e.send = c.send
  BY <1>4, <1>5, <1>6, ConnNames
<1> QED BY <1>4, <1>5, <1>6, <1>7

\* Two connections taken of the same edge are the same.
LEMMA TakenOnce ==
  ASSUME WireInv, NEW p \in Ranks, NEW c \in Taken(p), NEW d \in Taken(p),
         c.from = d.from, c.ch = d.ch, (~c.send) = (~d.send)
  PROVE  c = d
<1>1. PICK e \in Started(c.from) : c = ConnFor(c.from, e) /\ e.peer = p /\ e.ch = c.ch /\ e.send = c.send
  BY TakenFacts
<1>2. PICK f \in Started(d.from) : d = ConnFor(d.from, f) /\ f.peer = p /\ f.ch = d.ch /\ f.send = d.send
  BY TakenFacts
<1>3. c.from \in Ranks /\ c.send \in BOOLEAN /\ d.send \in BOOLEAN
  BY TakenFacts
<1>4. e \in [ch : Channels, peer : Ranks, send : BOOLEAN] /\ f \in [ch : Channels, peer : Ranks, send : BOOLEAN]
  BY <1>1, <1>2, <1>3, BegunEdges
<1>5. e.send = f.send
  BY <1>1, <1>2, <1>3
<1>6. e = f
  BY <1>1, <1>2, <1>4, <1>5
<1> QED BY <1>1, <1>2, <1>6

\* The connections may change their flags, one each: they stay those of the
\* edges begun.
LEMMA ConnsKept ==
  ASSUME ConnsOK, ConnRecords' = ConnRecords,
         \A p \in Ranks : Started(p)' = Started(p),
         \A p, e : ConnFor(p, e)' = ConnFor(p, e),
         conns' \subseteq ConnRecords,
         \A d \in conns' : \E c \in conns : c.conn = d.conn,
         \A c \in conns : \E d \in conns' : d.conn = c.conn,
         \A c, d \in conns' : c.conn = d.conn => c = d
  PROVE  ConnsOK'
<1>1. \A d \in conns' : \E e \in Started(d.conn.from)' : d.conn = ConnFor(d.conn.from, e)'
  <2> SUFFICES ASSUME NEW d \in conns' PROVE \E e \in Started(d.conn.from)' : d.conn = ConnFor(d.conn.from, e)'
    OBVIOUS
  <2>1. PICK c \in conns : c.conn = d.conn
    OBVIOUS
  <2>2. c.conn.from \in Ranks /\ \E e \in Started(c.conn.from) : c.conn = ConnFor(c.conn.from, e)
    BY DEF ConnsOK, ConnRecords
  <2> QED BY <2>1, <2>2
<1>2. \A p \in Ranks : \A e \in Started(p)' : \E d \in conns' : d.conn = ConnFor(p, e)'
  <2> SUFFICES ASSUME NEW p \in Ranks, NEW e \in Started(p)' PROVE \E d \in conns' : d.conn = ConnFor(p, e)'
    OBVIOUS
  <2>1. PICK c \in conns : c.conn = ConnFor(p, e)
    BY DEF ConnsOK
  <2>2. PICK d \in conns' : d.conn = c.conn
    OBVIOUS
  <2> QED BY <2>1, <2>2
<1> QED BY <1>1, <1>2 DEF ConnsOK

\* A step of the connect thread that gives no connector its transport.
LEMMA ConnectKeeps ==
  ASSUME BootInv, WireInv, NEW r \in Ranks, connecter[r] \notin {"off", "end"}, connecter'[r] # "off",
         UNCHANGED <<setup, pc, listening, bootVars, viewVars, todo, acceptVars, wires>>,
         \A p \in Ranks : Taken(p)' = Taken(p),
         \A p \in Ranks : p # r => connecter'[p] = connecter[p] /\ error'[p] = error[p],
         error[r] => error'[r],
         ThreadTypes', ConnsOK', InHand(r)' => InHand(r) \/ todo[r] # << >>,
         connecter'[r] = "end" => todo[r] = << >> \/ error'[r]
  PROVE  BootInv' /\ WireInv'
<1>0. /\ edges' = edges /\ todo' = todo /\ owed' = owed /\ accepter' = accepter /\ incoming' = incoming /\ wires' = wires
      /\ pc' = pc
  BY DEF viewVars, acceptVars
<1>1. TodoOK /\ AcceptOK /\ WiresOK /\ Endings
  BY DEF WireInv
<1>2. accepter[r] # "off"
  BY DEF WireInv, Decisions, Endings, Decided
<1>3. /\ BootInv' /\ Decisions' /\ Listeners'
      /\ \A p : ActiveEdges(p, edges[p])' = ActiveEdges(p, edges[p])
      /\ \A p, e : ActiveEnd(p, e)' = ActiveEnd(p, e)
  BY <1>0, <1>2, ThreadFrame
<1>4. \A p \in Ranks : Landed(p)' = Landed(p) /\ Awaited(p)' = Awaited(p)
  BY <1>0, AcceptFrame
<1>5. \A p \in Ranks : Linked(p)' = Linked(p)
  BY <1>0, <1>3 DEF Linked, Pending, Members
<1>6. TodoOK'
  <2> SUFFICES ASSUME NEW p \in Ranks
               PROVE  /\ todo'[p] \in Seq(ActiveEdges(p, edges[p])')
                      /\ \A i, j \in DOMAIN todo'[p] : todo'[p][i] = todo'[p][j] => i = j
                      /\ InHand(p)' => todo'[p] # << >>
                      /\ connecter'[p] = "end" => todo'[p] = << >> \/ error'[p]
    BY DEF TodoOK
  <2>1. InHand(p)' => todo[p] # << >>
    BY <1>1 DEF TodoOK, InHand
  <2>2. connecter'[p] = "end" => todo[p] = << >> \/ error'[p]
    BY <1>1 DEF TodoOK
  <2> QED BY <1>0, <1>1, <1>3, <2>1, <2>2 DEF TodoOK
<1>7. AcceptOK'
  BY <1>0, <1>1, <1>4 DEF AcceptOK
<1>8. WiresOK'
  <2> SUFFICES ASSUME NEW p \in Ranks
               PROVE  wires'[p] = {ActiveEnd(p, e)' : e \in Linked(p)'} \cup {PassiveEnd(c)' : c \in Landed(p)'}
    BY DEF WiresOK
  <2>1. {ActiveEnd(p, e)' : e \in Linked(p)'} = {ActiveEnd(p, e) : e \in Linked(p)}
    BY <1>3, <1>5
  <2>2. {PassiveEnd(c)' : c \in Landed(p)'} = {PassiveEnd(c) : c \in Landed(p)}
    BY <1>4 DEF PassiveEnd
  <2> QED BY <1>0, <1>1, <2>1, <2>2 DEF WiresOK
<1>9. Endings'
  BY <1>0, <1>1 DEF Endings
<1> QED BY <1>3, <1>6, <1>7, <1>8, <1>9 DEF WireInv

\* What a connect thread works on: the head of its edges, not linked yet.
LEMMA HeadFacts ==
  ASSUME WireInv, NEW r \in Ranks, todo[r] # << >>
  PROVE  /\ Head(todo[r]) \in ActiveEdges(r, edges[r]) /\ Head(todo[r]) \in edges[r]
         /\ Head(todo[r]) \in [ch : Channels, peer : Ranks, send : BOOLEAN]
         /\ r < Head(todo[r]).peer /\ Head(todo[r]) \notin Linked(r)
         /\ ConnOf(r) = ConnFor(r, Head(todo[r]))
<1>1. todo[r] \in Seq(ActiveEdges(r, edges[r])) /\ \A i, j \in DOMAIN todo[r] : todo[r][i] = todo[r][j] => i = j
  BY DEF WireInv, TodoOK
<1>2. Head(todo[r]) \in ActiveEdges(r, edges[r]) /\ Head(todo[r]) \in Pending(r)
  BY <1>1, TailOnce DEF Pending
<1>3. edges[r] \subseteq [ch : Channels, peer : Ranks, send : BOOLEAN]
  BY DEF WireInv, ThreadTypes
<1>4. Head(todo[r]) \in edges[r] /\ r < Head(todo[r]).peer
  BY <1>2 DEF ActiveEdges
<1>5. ConnOf(r) = ConnFor(r, Head(todo[r]))
  BY DEF ConnOf, ConnFor
<1> QED BY <1>2, <1>3, <1>4, <1>5 DEF Linked

\* A connection is made: of an edge that had none.
LEMMA ConnectSteps ==
  ASSUME BootInv, WireInv, NEW r \in Ranks, Connect(r)
  PROVE  BootInv' /\ WireInv'
<1> DEFINE h == Head(todo[r])
           c0 == [conn |-> ConnFor(r, h), accepted |-> FALSE, greeted |-> FALSE]
<1>0. /\ connecter[r] = "idle" /\ todo[r] # << >>
      /\ conns' = conns \cup {[conn |-> ConnOf(r), accepted |-> FALSE, greeted |-> FALSE]}
      /\ attempt' = [attempt EXCEPT ![r] = 1]
      /\ connecter' = [connecter EXCEPT ![r] = IF ConnOf(r).net = "rdma" THEN "await" ELSE "greet"]
      /\ UNCHANGED <<setup, pc, listening, bootVars, viewVars, todo, acceptVars, wires, error, faults>>
  BY DEF Connect, Trying
<1>1. /\ edges' = edges /\ owed' = owed /\ accepter' = accepter /\ incoming' = incoming /\ error' = error
      /\ rdmaReady' = rdmaReady /\ faults' = faults /\ todo' = todo /\ listening' = listening /\ wires' = wires
  BY <1>0 DEF viewVars, acceptVars
<1>2. /\ h \in [ch : Channels, peer : Ranks, send : BOOLEAN] /\ h \notin Linked(r)
      /\ ConnOf(r) = ConnFor(r, h)
  BY <1>0, HeadFacts
<1>3. ThreadTypes /\ ConnsOK /\ Retries \in Nat \ {0}
  BY StartupAssumption DEF WireInv
<1>4. /\ connecter'[r] \in {"await", "greet"}
      /\ connecter' \in [Ranks -> {"off", "idle", "await", "greet", "ack", "end"}]
      /\ \A p \in Ranks : p # r => connecter'[p] = connecter[p]
  BY <1>0, <1>3 DEF ThreadTypes
<1>5. ThreadTypes'
  <2>1. attempt' \in [Ranks -> 1 .. Retries]
    BY <1>0, <1>3 DEF ThreadTypes
  <2> QED BY <1>1, <1>3, <1>4, <2>1 DEF ThreadTypes
<1>6. accepter[r] # "off"
  BY <1>0 DEF WireInv, Decisions, Endings, Decided
<1>7. /\ \A p, e : ConnFor(p, e)' = ConnFor(p, e)
      /\ ConnRecords' = ConnRecords
      /\ \A p : ActiveEdges(p, edges[p])' = ActiveEdges(p, edges[p])
  BY <1>0, <1>1, <1>4, <1>6, ThreadFrame
<1>8. Started(r) = Linked(r) /\ Started(r)' = Linked(r) \cup {h}
  <2>1. Linked(r)' = Linked(r)
    BY <1>1, <1>7 DEF Linked, Pending, Members
  <2> QED BY <1>0, <1>1, <1>4, <2>1 DEF Started, InHand
<1>9. \A p \in Ranks : p # r => Started(p)' = Started(p)
  BY <1>1, <1>4, ConnectFrame
<1>10. c0 \in ConnRecords
  <2>1. Net(r, h.peer) \in Nets
    BY DEF Net, Nets
  <2> QED BY <1>2, <2>1 DEF ConnRecords, ConnFor
<1>11. \A c \in conns : c.conn # c0.conn
  <2> SUFFICES ASSUME NEW c \in conns, c.conn = ConnFor(r, h) PROVE FALSE
    OBVIOUS
  <2>1. c.conn.from = r
    BY <1>2, ConnNames
  <2>2. PICK e \in Started(r) : ConnFor(r, h) = ConnFor(r, e)
    BY <1>3, <2>1 DEF ConnsOK
  <2>3. e \in [ch : Channels, peer : Ranks, send : BOOLEAN]
    BY BegunEdges
  <2>4. e.peer = h.peer /\ e.ch = h.ch /\ e.send = h.send
    BY <1>2, <2>2, <2>3, ConnNames
  <2>5. e = h
    BY <1>2, <2>3, <2>4, ConnNames
  <2> QED BY <1>2, <1>8, <2>5
<1>12. conns' = conns \cup {c0}
  BY <1>0, <1>2
<1>13. c0.conn = ConnFor(r, h) /\ c0.conn.from = r /\ c0.accepted = FALSE
  BY <1>2, ConnNames
<1> HIDE DEF h, c0
<1>14. ConnsOK'
  <2>1. \A c \in conns' : \E e \in Started(c.conn.from)' : c.conn = ConnFor(c.conn.from, e)'
    <3> SUFFICES ASSUME NEW c \in conns' PROVE \E e \in Started(c.conn.from)' : c.conn = ConnFor(c.conn.from, e)'
      OBVIOUS
    <3>1. CASE c = c0
      BY <1>7, <1>8, <1>13, <3>1
    <3>2. CASE c \in conns
      <4>1. PICK e \in Started(c.conn.from) : c.conn = ConnFor(c.conn.from, e)
        BY <1>3, <3>2 DEF ConnsOK
      <4>2. c.conn.from \in Ranks
        BY <1>3, <3>2 DEF ConnsOK, ConnRecords
      <4>3. e \in Started(c.conn.from)'
        BY <1>8, <1>9, <4>1, <4>2
      <4> QED BY <1>7, <4>1, <4>3
    <3> QED BY <1>12, <3>1, <3>2
  <2>2. \A p \in Ranks : \A e \in Started(p)' : \E c \in conns' : c.conn = ConnFor(p, e)'
    <3> SUFFICES ASSUME NEW p \in Ranks, NEW e \in Started(p)' PROVE \E c \in conns' : c.conn = ConnFor(p, e)'
      OBVIOUS
    <3>1. CASE p = r /\ e = h
      BY <1>7, <1>12, <1>13, <3>1
    <3>2. CASE ~(p = r /\ e = h)
      <4>1. e \in Started(p)
        BY <1>8, <1>9, <3>2
      <4>2. PICK c \in conns : c.conn = ConnFor(p, e)
        BY <1>3, <4>1 DEF ConnsOK
      <4> QED BY <1>7, <1>12, <4>2
    <3> QED BY <3>1, <3>2
  <2>3. conns' \subseteq ConnRecords'
    BY <1>3, <1>7, <1>10, <1>12 DEF ConnsOK
  <2>4. \A c, d \in conns' : c.conn = d.conn => c = d
    BY <1>3, <1>11, <1>12 DEF ConnsOK
  <2> QED BY <2>1, <2>2, <2>3, <2>4 DEF ConnsOK
<1>15. \A p \in Ranks : Taken(p)' = Taken(p)
  BY <1>12, <1>13 DEF Taken
<1> QED BY <1>0, <1>1, <1>4, <1>5, <1>14, <1>15, ConnectKeeps

\* The other steps of the connect thread that make no connection.
LEMMA WaitSteps ==
  ASSUME BootInv, WireInv, NEW r \in Ranks, ConnectFails(r) \/ RdmaEstablished(r) \/ ConnectEnds(r)
  PROVE  BootInv' /\ WireInv'
<1>0. /\ UNCHANGED <<setup, pc, listening, bootVars, viewVars, todo, acceptVars, wires>>
      /\ conns' = conns /\ todo' = todo
  BY DEF ConnectFails, RdmaEstablished, ConnectEnds
<1>1. /\ edges' = edges /\ owed' = owed /\ accepter' = accepter /\ incoming' = incoming
      /\ rdmaReady' = rdmaReady /\ wires' = wires /\ listening' = listening
  BY <1>0 DEF viewVars, acceptVars
<1>2. ThreadTypes /\ ConnsOK /\ Retries \in Nat \ {0} /\ MaxFaults \in Nat
  BY StartupAssumption DEF WireInv
<1>3. /\ ThreadTypes'
      /\ connecter[r] \notin {"off", "end"} /\ connecter'[r] # "off"
      /\ \A p \in Ranks : p # r => connecter'[p] = connecter[p] /\ error'[p] = error[p]
      /\ error[r] => error'[r]
      /\ InHand(r)' <=> InHand(r)
      /\ connecter'[r] = "end" => todo[r] = << >> \/ error'[r]
  <2>1. CASE ConnectFails(r)
    <3>1. /\ connecter[r] = "idle" /\ todo[r] # << >> /\ (Refused(r) \/ faults < MaxFaults)
          /\ faults' = IF Refused(r) THEN faults ELSE faults + 1
      BY <2>1 DEF ConnectFails, Trying
    <3>2. faults' \in 0 .. MaxFaults
      BY <1>2, <3>1 DEF ThreadTypes
    <3>3. CASE attempt[r] < Retries
      <4>1. attempt' = [attempt EXCEPT ![r] = @ + 1] /\ connecter' = connecter /\ error' = error
        BY <2>1, <3>3 DEF ConnectFails
      <4>2. attempt' \in [Ranks -> 1 .. Retries]
        BY <1>2, <3>3, <4>1 DEF ThreadTypes
      <4> QED BY <1>0, <1>1, <1>2, <3>1, <3>2, <4>1, <4>2 DEF ThreadTypes, InHand
    <3>4. CASE ~(attempt[r] < Retries)
      <4>1. /\ error' = [error EXCEPT ![r] = TRUE] /\ connecter' = [connecter EXCEPT ![r] = "end"]
            /\ attempt' = attempt
        BY <2>1, <3>4 DEF ConnectFails
      <4>2. /\ error' \in [Ranks -> BOOLEAN] /\ error'[r] = TRUE /\ connecter'[r] = "end"
            /\ connecter' \in [Ranks -> {"off", "idle", "await", "greet", "ack", "end"}]
            /\ \A p \in Ranks : p # r => connecter'[p] = connecter[p] /\ error'[p] = error[p]
        BY <1>2, <4>1 DEF ThreadTypes
      <4>3. ThreadTypes'
        BY <1>0, <1>1, <1>2, <3>2, <4>1, <4>2 DEF ThreadTypes
      <4> QED BY <3>1, <4>2, <4>3 DEF InHand
    <3> QED BY <3>3, <3>4
  <2>2. CASE RdmaEstablished(r)
    <3>1. /\ connecter[r] = "await" /\ connecter' = [connecter EXCEPT ![r] = "greet"]
          /\ error' = error /\ attempt' = attempt /\ faults' = faults
      BY <2>2 DEF RdmaEstablished
    <3>2. /\ connecter'[r] = "greet" /\ \A p \in Ranks : p # r => connecter'[p] = connecter[p]
          /\ connecter' \in [Ranks -> {"off", "idle", "await", "greet", "ack", "end"}]
      BY <1>2, <3>1 DEF ThreadTypes
    <3>3. ThreadTypes'
      BY <1>0, <1>1, <1>2, <3>1, <3>2 DEF ThreadTypes
    <3> QED BY <3>1, <3>2, <3>3 DEF InHand
  <2>3. CASE ConnectEnds(r)
    <3>1. /\ connecter[r] = "idle" /\ todo[r] = << >> /\ connecter' = [connecter EXCEPT ![r] = "end"]
          /\ error' = error /\ attempt' = attempt /\ faults' = faults
      BY <2>3 DEF ConnectEnds
    <3>2. /\ connecter'[r] = "end" /\ \A p \in Ranks : p # r => connecter'[p] = connecter[p]
          /\ connecter' \in [Ranks -> {"off", "idle", "await", "greet", "ack", "end"}]
      BY <1>2, <3>1 DEF ThreadTypes
    <3>3. ThreadTypes'
      BY <1>0, <1>1, <1>2, <3>1, <3>2 DEF ThreadTypes
    <3> QED BY <3>1, <3>2, <3>3 DEF InHand
  <2> QED BY <2>1, <2>2, <2>3
<1>4. \A p \in Ranks : Started(p)' = Started(p)
  <2> SUFFICES ASSUME NEW p \in Ranks PROVE Started(p)' = Started(p)
    OBVIOUS
  <2>1. InHand(p)' <=> InHand(p)
    BY <1>3 DEF InHand
  <2>2. Linked(p)' = Linked(p)
    BY <1>0, <1>1 DEF Linked, Pending, Members, ActiveEdges
  <2> QED BY <1>0, <2>1, <2>2 DEF Started
<1>5. accepter[r] # "off"
  BY <1>3 DEF WireInv, Decisions, Endings, Decided
<1>6. /\ \A p, e : ConnFor(p, e)' = ConnFor(p, e)
      /\ ConnRecords' = ConnRecords
  BY <1>0, <1>1, <1>3, <1>5, ThreadFrame
<1>7. ConnsOK'
  BY <1>0, <1>2, <1>4, <1>6, ConnsKept DEF ConnsOK
<1>8. \A p \in Ranks : Taken(p)' = Taken(p)
  BY <1>0 DEF Taken
<1> QED BY <1>0, <1>1, <1>3, <1>7, <1>8, ConnectKeeps

\* A connector gets its transport: the edge in hand is linked, the next one
\* is up.
LEMMA WiredSteps ==
  ASSUME BootInv, WireInv, NEW r \in Ranks, connecter[r] \in {"greet", "ack"}, Wired(r),
         UNCHANGED <<setup, pc, listening, bootVars, viewVars, attempt, acceptVars, error, faults>>,
         \A p \in Ranks : Taken(p)' = Taken(p),
         conns' \subseteq ConnRecords,
         \A d \in conns' : \E c \in conns : c.conn = d.conn,
         \A c \in conns : \E d \in conns' : d.conn = c.conn,
         \A c, d \in conns' : c.conn = d.conn => c = d
  PROVE  BootInv' /\ WireInv'
<1> DEFINE h == Head(todo[r])
           L == Linked(r)
<1>0. /\ edges' = edges /\ attempt' = attempt /\ owed' = owed /\ accepter' = accepter /\ incoming' = incoming
      /\ error' = error /\ faults' = faults /\ rdmaReady' = rdmaReady /\ pc' = pc /\ listening' = listening
  BY DEF viewVars, acceptVars
<1>1. /\ ThreadTypes /\ TodoOK /\ ConnsOK /\ AcceptOK /\ WiresOK /\ Endings
      /\ InHand(r) /\ todo[r] # << >> /\ accepter[r] # "off"
  <2>1. InHand(r)
    BY DEF InHand
  <2> QED BY <2>1 DEF WireInv, TodoOK, Decisions, Endings, Decided
<1>2. /\ h \in ActiveEdges(r, edges[r]) /\ h \in [ch : Channels, peer : Ranks, send : BOOLEAN]
      /\ r < h.peer /\ h \notin L /\ ConnOf(r) = ConnFor(r, h)
  BY <1>1, HeadFacts
<1>3. PICK c0 : c0 = ConnFor(r, h)
  OBVIOUS
<1>4. c0.to = h.peer /\ c0.ch = h.ch /\ c0.send = h.send /\ ConnOf(r) = c0
  BY <1>2, <1>3, ConnNames
<1>5. /\ wires' = [wires EXCEPT ![r] = {w \in @ : <<w.peer, w.ch, w.send>> # <<c0.to, c0.ch, c0.send>>}
                                \cup {[peer |-> c0.to, ch |-> c0.ch, send |-> c0.send, conn |-> c0]}]
      /\ todo' = [todo EXCEPT ![r] = Tail(@)] /\ connecter' = [connecter EXCEPT ![r] = "idle"]
  BY <1>4 DEF Wired, Wire
<1>6. /\ todo'[r] = Tail(todo[r]) /\ connecter'[r] = "idle"
      /\ wires'[r] = {w \in wires[r] : <<w.peer, w.ch, w.send>> # <<h.peer, h.ch, h.send>>} \cup {ActiveEnd(r, h)}
      /\ \A p \in Ranks : p # r => todo'[p] = todo[p] /\ connecter'[p] = connecter[p] /\ wires'[p] = wires[p]
      /\ connecter' \in [Ranks -> {"off", "idle", "await", "greet", "ack", "end"}]
      /\ DOMAIN todo' = Ranks /\ DOMAIN wires' = Ranks
  BY <1>1, <1>3, <1>4, <1>5 DEF ThreadTypes, ActiveEnd
<1>7. /\ BootInv' /\ Decisions' /\ Listeners' /\ ConnRecords' = ConnRecords
      /\ \A p : ActiveEdges(p, edges[p])' = ActiveEdges(p, edges[p])
      /\ \A p, e : ConnFor(p, e)' = ConnFor(p, e) /\ ActiveEnd(p, e)' = ActiveEnd(p, e)
  BY <1>0, <1>1, <1>6, ThreadFrame
<1>8. PICK t : t = Tail(todo[r])
  OBVIOUS
<1>9. /\ todo'[r] = t /\ t \in Seq(ActiveEdges(r, edges[r]))
      /\ Members(t) = Pending(r) \ {h}
      /\ \A i, j \in DOMAIN t : t[i] = t[j] => i = j
  <2>1. todo[r] \in Seq(ActiveEdges(r, edges[r])) /\ \A i, j \in DOMAIN todo[r] : todo[r][i] = todo[r][j] => i = j
    BY <1>1 DEF TodoOK
  <2>2. PICK S : S = ActiveEdges(r, edges[r])
    OBVIOUS
  <2>3. PICK q : q = todo[r] /\ q \in Seq(S) /\ q # << >> /\ \A i, j \in DOMAIN q : q[i] = q[j] => i = j
    BY <1>1, <2>1, <2>2
  <2>4. /\ Tail(q) \in Seq(S) /\ Members(Tail(q)) = Members(q) \ {Head(q)}
        /\ \A i, j \in DOMAIN Tail(q) : Tail(q)[i] = Tail(q)[j] => i = j
    BY <2>3, TailOnce
  <2>5. Pending(r) = Members(q)
    BY <2>3 DEF Pending
  <2> QED BY <1>6, <1>8, <2>2, <2>3, <2>4, <2>5
<1>10. Linked(r)' = L \cup {h}
  <2>1. Pending(r)' = Pending(r) \ {h}
    <3>1. Pending(r)' = Members(t)
      BY <1>9 DEF Pending, Members
    <3> QED BY <1>9, <3>1
  <2> QED BY <1>2, <1>7, <2>1 DEF Linked
<1>11. Started(r)' = Started(r)
  <2>1. Started(r) = L \cup {h} /\ Started(r)' = Linked(r)'
    BY <1>1, <1>6 DEF Started, InHand
  <2> QED BY <1>10, <2>1
<1>12. \A p \in Ranks : p # r => Linked(p)' = Linked(p) /\ Started(p)' = Started(p)
  BY <1>0, <1>6, ConnectFrame
<1>13. \A p \in Ranks : Landed(p)' = Landed(p) /\ Awaited(p)' = Awaited(p)
  BY <1>0, AcceptFrame
<1>14. ConnsOK'
  BY <1>1, <1>7, <1>11, <1>12, ConnsKept
<1>15. ThreadTypes'
  BY <1>0, <1>1, <1>6 DEF ThreadTypes
<1>16. TodoOK'
  <2> SUFFICES ASSUME NEW p \in Ranks
               PROVE  /\ todo'[p] \in Seq(ActiveEdges(p, edges[p])')
                      /\ \A i, j \in DOMAIN todo'[p] : todo'[p][i] = todo'[p][j] => i = j
                      /\ InHand(p)' => todo'[p] # << >>
                      /\ connecter'[p] = "end" => todo'[p] = << >> \/ error'[p]
    BY DEF TodoOK
  <2>1. CASE p = r
    BY <1>6, <1>7, <1>9, <2>1 DEF InHand
  <2>2. CASE p # r
    BY <1>0, <1>1, <1>6, <1>7, <2>2 DEF TodoOK, InHand
  <2> QED BY <2>1, <2>2
<1>17. AcceptOK'
  BY <1>0, <1>1, <1>13 DEF AcceptOK
<1>18. {w \in wires[r] : <<w.peer, w.ch, w.send>> # <<h.peer, h.ch, h.send>>} = wires[r]
  <2> SUFFICES ASSUME NEW w \in wires[r] PROVE <<w.peer, w.ch, w.send>> # <<h.peer, h.ch, h.send>>
    OBVIOUS
  <2>1. CASE \E e \in L : w = ActiveEnd(r, e)
    <3>1. PICK e \in L : w = ActiveEnd(r, e)
      BY <2>1
    <3>2. e \in [ch : Channels, peer : Ranks, send : BOOLEAN]
      BY <3>1, BegunEdges DEF Started
    <3>3. w.peer = e.peer /\ w.ch = e.ch /\ w.send = e.send
      BY <3>1 DEF ActiveEnd
    <3>4. e # h
      BY <1>2, <3>1
    <3> QED BY <1>2, <3>2, <3>3, <3>4, ConnNames
  <2>2. CASE \E c \in Landed(r) : w = PassiveEnd(c)
    <3>1. PICK c \in Landed(r) : w = PassiveEnd(c)
      BY <2>2
    <3>2. w.peer = c.from /\ c \in Taken(r)
      BY <3>1 DEF PassiveEnd, Landed
    <3>3. c.from < r /\ c.from \in Ranks
      BY <3>2, TakenFacts
    <3>4. c.from \in Nat /\ r \in Nat /\ h.peer \in Nat
      BY <1>2, <3>3, RankFacts
    <3> QED BY <1>2, <3>2, <3>3, <3>4
  <2> QED BY <1>1, <2>1, <2>2 DEF WiresOK
<1>19. WiresOK'
  <2> SUFFICES ASSUME NEW p \in Ranks
               PROVE  wires'[p] = {ActiveEnd(p, e)' : e \in Linked(p)'} \cup {PassiveEnd(c)' : c \in Landed(p)'}
    BY DEF WiresOK
  <2>1. {PassiveEnd(c)' : c \in Landed(p)'} = {PassiveEnd(c) : c \in Landed(p)}
    BY <1>13 DEF PassiveEnd
  <2>2. wires[p] = {ActiveEnd(p, e) : e \in Linked(p)} \cup {PassiveEnd(c) : c \in Landed(p)}
    BY <1>1 DEF WiresOK
  <2>3. CASE p = r
    <3>1. wires'[r] = wires[r] \cup {ActiveEnd(r, h)}
      BY <1>6, <1>18
    <3>2. {ActiveEnd(r, e)' : e \in Linked(r)'} = {ActiveEnd(r, e) : e \in L} \cup {ActiveEnd(r, h)}
      <4>1. {ActiveEnd(r, e)' : e \in Linked(r)'} = {ActiveEnd(r, e) : e \in L \cup {h}}
        BY <1>7, <1>10
      <4> HIDE DEF h, L
      <4> QED BY <4>1
    <3> QED BY <2>1, <2>2, <2>3, <3>1, <3>2
  <2>4. CASE p # r
    <3>1. {ActiveEnd(p, e)' : e \in Linked(p)'} = {ActiveEnd(p, e) : e \in Linked(p)}
      BY <1>7, <1>12, <2>4
    <3> QED BY <1>6, <2>1, <2>2, <2>4, <3>1
  <2> QED BY <2>3, <2>4
<1>20. Endings'
  <2>1. connecter[r] # "end"
    OBVIOUS
  <2> QED BY <1>0, <1>1, <1>6, <2>1 DEF Endings
<1> QED BY <1>7, <1>14, <1>15, <1>16, <1>17, <1>19, <1>20 DEF WireInv

\* The handshake sets a flag: the connections stay what they are.
LEMMA FlagSteps ==
  ASSUME ConnsOK, NEW r \in Ranks, Greet(r)
  PROVE  /\ \A p \in Ranks : Taken(p)' = Taken(p)
         /\ conns' \subseteq ConnRecords
         /\ \A d \in conns' : \E c \in conns : c.conn = d.conn
         /\ \A c \in conns : \E d \in conns' : d.conn = c.conn
         /\ \A c, d \in conns' : c.conn = d.conn => c = d
<1>0. PICK k : k = ConnOf(r)
  OBVIOUS
<1> DEFINE g(c) == [c EXCEPT !.greeted = @ \/ c.conn = k]
<1>1. \A c \in conns : c \in ConnRecords /\ g(c) \in ConnRecords /\ g(c).conn = c.conn /\ g(c).accepted = c.accepted
  <2> TAKE c \in conns
  <2>1. c \in ConnRecords
    BY DEF ConnsOK
  <2>2. (c.greeted \/ c.conn = k) \in BOOLEAN
    OBVIOUS
  <2> QED BY <2>1, <2>2 DEF ConnRecords
<1>2. conns' = {g(c) : c \in conns}
  BY <1>0 DEF Greet
<1> HIDE DEF g
<1>3. \A d \in conns' : \E c \in conns : d = g(c)
  BY <1>2
<1>4. \A c \in conns : g(c) \in conns'
  BY <1>2
<1>5. ASSUME NEW p \in Ranks PROVE Taken(p)' = Taken(p)
  <2>1. ASSUME NEW x \in Taken(p)' PROVE x \in Taken(p)
    <3>1. PICK d \in conns' : x = d.conn /\ d.conn.to = p /\ d.accepted
      BY <2>1 DEF Taken
    <3>2. PICK c \in conns : d = g(c)
      BY <1>3
    <3> QED BY <1>1, <3>1, <3>2 DEF Taken
  <2>2. ASSUME NEW x \in Taken(p) PROVE x \in Taken(p)'
    <3>1. PICK c \in conns : x = c.conn /\ c.conn.to = p /\ c.accepted
      BY <2>2 DEF Taken
    <3>2. g(c) \in conns' /\ g(c).conn = x /\ g(c).conn.to = p /\ g(c).accepted
      BY <1>1, <1>4, <3>1
    <3> QED BY <3>2 DEF Taken
  <2> QED BY <2>1, <2>2
<1>6. \A c, d \in conns' : c.conn = d.conn => c = d
  <2> SUFFICES ASSUME NEW c \in conns', NEW d \in conns', c.conn = d.conn PROVE c = d
    OBVIOUS
  <2>1. PICK a \in conns, b \in conns : c = g(a) /\ d = g(b)
    BY <1>3
  <2>2. a.conn = b.conn
    BY <1>1, <2>1
  <2> QED BY <2>1, <2>2 DEF ConnsOK
<1>7. conns' \subseteq ConnRecords
  BY <1>1, <1>3
<1>8. \A d \in conns' : \E c \in conns : c.conn = d.conn
  BY <1>1, <1>3
<1>9. \A c \in conns : \E d \in conns' : d.conn = c.conn
  BY <1>1, <1>4
<1> QED BY <1>5, <1>6, <1>7, <1>8, <1>9

\* The handshake is sent.
LEMMA GreetSteps ==
  ASSUME BootInv, WireInv, NEW r \in Ranks, Greet(r)
  PROVE  BootInv' /\ WireInv'
<1>1. /\ connecter[r] = "greet"
      /\ UNCHANGED <<setup, pc, listening, bootVars, viewVars, attempt, acceptVars, error, faults>>
  BY DEF Greet
<1>2. ThreadTypes /\ ConnsOK
  BY DEF WireInv
<1>3. /\ \A p \in Ranks : Taken(p)' = Taken(p)
      /\ conns' \subseteq ConnRecords
      /\ \A d \in conns' : \E c \in conns : c.conn = d.conn
      /\ \A c \in conns : \E d \in conns' : d.conn = c.conn
      /\ \A c, d \in conns' : c.conn = d.conn => c = d
  BY <1>2, FlagSteps
<1>4. CASE ConnOf(r).net = "shm"
  <2>1. connecter' = [connecter EXCEPT ![r] = "ack"] /\ todo' = todo /\ wires' = wires
    BY <1>4 DEF Greet
  <2>2. /\ edges' = edges /\ owed' = owed /\ accepter' = accepter /\ incoming' = incoming /\ error' = error
        /\ rdmaReady' = rdmaReady /\ attempt' = attempt /\ faults' = faults /\ listening' = listening
    BY <1>1 DEF viewVars, acceptVars
  <2>3. /\ connecter'[r] = "ack" /\ \A p \in Ranks : p # r => connecter'[p] = connecter[p]
        /\ connecter' \in [Ranks -> {"off", "idle", "await", "greet", "ack", "end"}]
    BY <1>2, <2>1 DEF ThreadTypes
  <2>4. ThreadTypes'
    BY <1>2, <2>1, <2>2, <2>3 DEF ThreadTypes
  <2>5. accepter[r] # "off"
    BY <1>1 DEF WireInv, Decisions, Endings, Decided
  <2>6. ConnRecords' = ConnRecords /\ \A p, e : ConnFor(p, e)' = ConnFor(p, e)
    BY <1>1, <2>2, <2>3, <2>5, ThreadFrame
  <2>7. \A p \in Ranks : Started(p)' = Started(p)
    <3> SUFFICES ASSUME NEW p \in Ranks PROVE Started(p)' = Started(p)
      OBVIOUS
    <3>1. InHand(p)' <=> InHand(p)
      BY <1>1, <2>3 DEF InHand
    <3>2. Linked(p)' = Linked(p)
      BY <2>1, <2>2 DEF Linked, Pending, Members, ActiveEdges
    <3> QED BY <2>1, <3>1, <3>2 DEF Started
  <2>8. ConnsOK'
    BY <1>2, <1>3, <2>6, <2>7, ConnsKept
  <2>9. InHand(r)
    BY <1>1 DEF InHand
  <2> QED BY <1>1, <1>3, <2>1, <2>2, <2>3, <2>4, <2>8, <2>9, ConnectKeeps
<1>5. CASE ConnOf(r).net # "shm"
  <2>1. Wired(r)
    BY <1>5 DEF Greet
  <2> QED BY <1>1, <1>3, <2>1, WiredSteps
<1> QED BY <1>4, <1>5

\* The peer has answered the handshake over shared memory.
LEMMA AckSteps ==
  ASSUME BootInv, WireInv, NEW r \in Ranks, Acknowledged(r)
  PROVE  BootInv' /\ WireInv'
<1>1. /\ connecter[r] = "ack" /\ Wired(r) /\ conns' = conns
      /\ UNCHANGED <<setup, pc, listening, bootVars, viewVars, attempt, acceptVars, error, faults>>
  BY DEF Acknowledged
<1>2. conns \subseteq ConnRecords /\ \A c, d \in conns : c.conn = d.conn => c = d
  BY DEF WireInv, ConnsOK
<1>3. \A p \in Ranks : Taken(p)' = Taken(p)
  BY <1>1 DEF Taken
<1> QED BY <1>1, <1>2, <1>3, WiredSteps

\* A step of the accept thread: what it has taken and landed is what its
\* edges tell, the connect threads stand where they stood.
LEMMA AcceptKeeps ==
  ASSUME BootInv, WireInv, NEW r \in Ranks, accepter[r] # "off", accepter'[r] # "off", accepter[r] # "end",
         UNCHANGED <<setup, pc, listening, bootVars, viewVars, connectVars, error, faults>>,
         \A p \in Ranks : p # r => accepter'[p] = accepter[p],
         ThreadTypes', AcceptOK', WiresOK',
         conns' \subseteq ConnRecords,
         \A d \in conns' : \E c \in conns : c.conn = d.conn,
         \A c \in conns : \E d \in conns' : d.conn = c.conn,
         \A c, d \in conns' : c.conn = d.conn => c = d
  PROVE  BootInv' /\ WireInv'
<1>0. edges' = edges /\ todo' = todo /\ connecter' = connecter /\ error' = error /\ pc' = pc
  BY DEF viewVars, connectVars
<1>1. TodoOK /\ ConnsOK /\ Endings /\ connecter[r] # "off"
  BY DEF WireInv, Decisions, Endings, Decided
<1>2. /\ BootInv' /\ Decisions' /\ Listeners' /\ ConnRecords' = ConnRecords
      /\ \A p : ActiveEdges(p, edges[p])' = ActiveEdges(p, edges[p])
      /\ \A p, e : ConnFor(p, e)' = ConnFor(p, e)
  BY <1>0, <1>1, ThreadFrame
<1>3. \A p \in Ranks : Started(p)' = Started(p)
  BY <1>0, ConnectFrame
<1>4. ConnsOK'
  BY <1>1, <1>2, <1>3, ConnsKept
<1>5. TodoOK'
  BY <1>0, <1>1, <1>2 DEF TodoOK, InHand
<1>6. Endings'
  BY <1>0, <1>1 DEF Endings
<1> QED BY <1>2, <1>4, <1>5, <1>6 DEF WireInv

\* The connectors of a rank that links and lands nothing stay.
LEMMA WiresKept ==
  ASSUME WiresOK, NEW p \in Ranks, wires'[p] = wires[p], Landed(p)' = Landed(p),
         UNCHANGED <<setup, viewVars, connectVars>>
  PROVE  wires'[p] = {ActiveEnd(p, e)' : e \in Linked(p)'} \cup {PassiveEnd(c)' : c \in Landed(p)'}
<1>0. setup' = setup /\ nodes' = nodes /\ rdmaReady' = rdmaReady /\ edges' = edges /\ todo' = todo /\ connecter' = connecter
  BY DEF viewVars, connectVars
<1>1. Linked(p)' = Linked(p)
  BY <1>0, ConnectFrame
<1>2. \A e : ActiveEnd(p, e)' = ActiveEnd(p, e)
  <2> TAKE e
  <2>1. Net(p, e.peer)' = Net(p, e.peer)
    BY <1>0 DEF Net, SameHost
  <2> QED BY <2>1 DEF ActiveEnd, ConnFor
<1>3. {ActiveEnd(p, e)' : e \in Linked(p)'} = {ActiveEnd(p, e) : e \in Linked(p)}
  BY <1>1, <1>2
<1>4. {PassiveEnd(c)' : c \in Landed(p)'} = {PassiveEnd(c) : c \in Landed(p)}
  BY DEF PassiveEnd
<1> QED BY <1>3, <1>4 DEF WiresOK

\* The accept thread looks at the error before it polls.
LEMMA CheckSteps ==
  ASSUME BootInv, WireInv, NEW r \in Ranks, AcceptCheck(r)
  PROVE  BootInv' /\ WireInv'
<1>0. /\ accepter[r] = "check"
      /\ accepter' = [accepter EXCEPT ![r] = IF owed[r] = 0 \/ error[r] THEN "end" ELSE "poll"]
      /\ UNCHANGED <<setup, pc, listening, bootVars, viewVars, connectVars, owed, incoming, conns, wires, error, faults>>
  BY DEF AcceptCheck
<1>1. /\ edges' = edges /\ todo' = todo /\ connecter' = connecter /\ attempt' = attempt /\ rdmaReady' = rdmaReady
      /\ conns' = conns
  BY <1>0 DEF viewVars, connectVars
<1>2. ThreadTypes /\ ConnsOK /\ AcceptOK /\ WiresOK
  BY DEF WireInv
<1>3. /\ accepter'[r] = IF owed[r] = 0 \/ error[r] THEN "end" ELSE "poll"
      /\ \A p \in Ranks : p # r => accepter'[p] = accepter[p]
      /\ accepter' \in [Ranks -> {"off", "check", "poll", "greet", "end"}]
  BY <1>0, <1>2 DEF ThreadTypes
<1>4. ThreadTypes'
  BY <1>0, <1>1, <1>2, <1>3 DEF ThreadTypes
<1>5. \A p \in Ranks : Taken(p)' = Taken(p)
  BY <1>0 DEF Taken
<1>6. \A p \in Ranks : Landed(p)' = Landed(p)
  BY <1>0, <1>3, <1>5 DEF Landed
<1>7. \A p \in Ranks : Awaited(p)' = Awaited(p)
  BY <1>1, <1>6 DEF Awaited, AcceptEdges
<1>8. AcceptOK'
  BY <1>0, <1>2, <1>3, <1>5, <1>7 DEF AcceptOK
<1>9. WiresOK'
  <2> SUFFICES ASSUME NEW p \in Ranks
               PROVE  wires'[p] = {ActiveEnd(p, e)' : e \in Linked(p)'} \cup {PassiveEnd(c)' : c \in Landed(p)'}
    BY DEF WiresOK
  <2> QED BY <1>0, <1>2, <1>6, WiresKept
<1>10. conns' \subseteq ConnRecords /\ \A c, d \in conns' : c.conn = d.conn => c = d
  BY <1>1, <1>2 DEF ConnsOK
<1> QED BY <1>0, <1>1, <1>3, <1>4, <1>8, <1>9, <1>10, AcceptKeeps

\* A connection is taken: what has landed stays the same until its handshake.
LEMMA AcceptSteps ==
  ASSUME BootInv, WireInv, NEW r \in Ranks, Accept(r)
  PROVE  BootInv' /\ WireInv'
<1>0. /\ accepter[r] = "poll" /\ accepter' = [accepter EXCEPT ![r] = "greet"]
      /\ UNCHANGED <<setup, pc, listening, bootVars, viewVars, connectVars, owed, wires, error, faults>>
  BY DEF Accept
<1>1. PICK c \in conns :
        /\ c.conn.to = r /\ ~c.accepted
        /\ conns' = (conns \ {c}) \cup {[c EXCEPT !.accepted = TRUE]}
        /\ incoming' = [incoming EXCEPT ![r] = c.conn]
  BY DEF Accept
<1>2. ThreadTypes /\ ConnsOK /\ AcceptOK /\ WiresOK
  BY DEF WireInv
<1>3. PICK d : d = [c EXCEPT !.accepted = TRUE]
  OBVIOUS
<1>4. c \in ConnRecords /\ d \in ConnRecords /\ d.conn = c.conn /\ d.accepted = TRUE
  <2>1. c \in ConnRecords
    BY <1>2 DEF ConnsOK
  <2> QED BY <1>3, <2>1 DEF ConnRecords
<1>5. conns' = (conns \ {c}) \cup {d}
  BY <1>1, <1>3
<1>6. /\ edges' = edges /\ todo' = todo /\ connecter' = connecter /\ attempt' = attempt /\ rdmaReady' = rdmaReady
  BY <1>0 DEF viewVars, connectVars
<1>7. /\ accepter'[r] = "greet" /\ incoming'[r] = c.conn
      /\ \A p \in Ranks : p # r => accepter'[p] = accepter[p] /\ incoming'[p] = incoming[p]
      /\ accepter' \in [Ranks -> {"off", "check", "poll", "greet", "end"}]
      /\ DOMAIN incoming' = Ranks
  BY <1>0, <1>1, <1>2 DEF ThreadTypes
<1>8. ThreadTypes'
  BY <1>0, <1>2, <1>6, <1>7 DEF ThreadTypes
<1>9. \A p \in Ranks : p # r => Taken(p)' = Taken(p)
  <2> SUFFICES ASSUME NEW p \in Ranks, p # r PROVE Taken(p)' = Taken(p)
    OBVIOUS
  <2>1. {x \in conns' : x.conn.to = p /\ x.accepted} = {x \in conns : x.conn.to = p /\ x.accepted}
    BY <1>1, <1>4, <1>5
  <2> QED BY <2>1 DEF Taken
<1>10. Taken(r)' = Taken(r) \cup {c.conn} /\ c.conn \notin Taken(r)
  <2>1. {x \in conns' : x.conn.to = r /\ x.accepted} = {x \in conns : x.conn.to = r /\ x.accepted} \cup {d}
    BY <1>1, <1>4, <1>5
  <2>2. Taken(r)' = {x.conn : x \in {y \in conns : y.conn.to = r /\ y.accepted} \cup {d}}
    BY <2>1 DEF Taken
  <2>3. Taken(r)' = Taken(r) \cup {c.conn}
    <3>1. \A v : v \in Taken(r)' <=> v = d.conn \/ \E x \in conns : x.conn.to = r /\ x.accepted /\ v = x.conn
      BY <2>2
    <3>2. \A v : v \in Taken(r) <=> \E x \in conns : x.conn.to = r /\ x.accepted /\ v = x.conn
      BY DEF Taken
    <3> QED BY <1>4, <3>1, <3>2
  <2>4. c.conn \notin Taken(r)
    BY <1>1, <1>2 DEF Taken, ConnsOK
  <2> QED BY <2>3, <2>4
<1>11. \A p \in Ranks : Landed(p)' = Landed(p)
  BY <1>0, <1>7, <1>9, <1>10 DEF Landed
<1>12. \A p \in Ranks : Awaited(p)' = Awaited(p)
  BY <1>6, <1>11 DEF Awaited, AcceptEdges
<1>13. AcceptOK'
  <2> SUFFICES ASSUME NEW p \in Ranks
               PROVE  /\ accepter'[p] = "greet" => incoming'[p] \in Taken(p)'
                      /\ accepter'[p] = "off" => Taken(p)' = {}
                      /\ owed'[p] = Cardinality(Awaited(p)')
                      /\ accepter'[p] = "end" => owed'[p] = 0 \/ error'[p]
    BY DEF AcceptOK
  <2>1. CASE p = r
    BY <1>0, <1>2, <1>7, <1>10, <1>12, <2>1 DEF AcceptOK
  <2>2. CASE p # r
    BY <1>0, <1>2, <1>7, <1>9, <1>12, <2>2 DEF AcceptOK
  <2> QED BY <2>1, <2>2
<1>14. WiresOK'
  <2> SUFFICES ASSUME NEW p \in Ranks
               PROVE  wires'[p] = {ActiveEnd(p, e)' : e \in Linked(p)'} \cup {PassiveEnd(x)' : x \in Landed(p)'}
    BY DEF WiresOK
  <2> QED BY <1>0, <1>2, <1>11, WiresKept
<1>15. /\ conns' \subseteq ConnRecords
       /\ \A x \in conns' : \E y \in conns : y.conn = x.conn
       /\ \A y \in conns : \E x \in conns' : x.conn = y.conn
       /\ \A x, y \in conns' : x.conn = y.conn => x = y
  <2>1. conns \subseteq ConnRecords /\ \A x, y \in conns : x.conn = y.conn => x = y
    BY <1>2 DEF ConnsOK
  <2> QED BY <1>4, <1>5, <2>1
<1> QED BY <1>0, <1>7, <1>8, <1>13, <1>14, <1>15, AcceptKeeps

\* The handshake has come: the connector of the edge awaited gets the other
\* end.
LEMMA LandSteps ==
  ASSUME BootInv, WireInv, NEW r \in Ranks, RecvHandshake(r)
  PROVE  BootInv' /\ WireInv'
<1> DEFINE c == incoming[r]
           e == [ch |-> c.ch, peer |-> c.from, send |-> ~c.send]
<1>0. /\ accepter[r] = "greet"
      /\ wires' = [wires EXCEPT ![r] = {w \in @ : <<w.peer, w.ch, w.send>> # <<c.from, c.ch, ~c.send>>}
                             \cup {[peer |-> c.from, ch |-> c.ch, send |-> ~c.send, conn |-> c]}]
      /\ owed' = [owed EXCEPT ![r] = @ - 1]
      /\ accepter' = [accepter EXCEPT ![r] = "check"]
      /\ UNCHANGED <<setup, pc, listening, bootVars, viewVars, connectVars, incoming, conns, error, faults>>
  BY DEF RecvHandshake, Wire, LocalSide
<1>1. /\ edges' = edges /\ todo' = todo /\ connecter' = connecter /\ attempt' = attempt /\ rdmaReady' = rdmaReady
      /\ conns' = conns
  BY <1>0 DEF viewVars, connectVars
<1>2. ThreadTypes /\ ConnsOK /\ AcceptOK /\ WiresOK /\ setup \in Setups
  BY DEF WireInv, BootInv, BootTypes
<1>3. /\ c \in Taken(r) /\ c \notin Landed(r) /\ Landed(r) \cup {c} = Taken(r)
  BY <1>0, <1>2 DEF AcceptOK, Landed
<1>4. PICK a \in Started(c.from) : c = ConnFor(c.from, a) /\ a.peer = r /\ a.ch = c.ch /\ a.send = c.send
  BY <1>3, TakenFacts
<1>5. c.from \in Ranks /\ c.from < r /\ c.ch \in Channels /\ c.send \in BOOLEAN
  BY <1>3, TakenFacts
<1>6. e \in AcceptEdges(r, edges[r])
  <2>1. Decided(c.from) /\ a \in edges[c.from]
    BY <1>4, <1>5, BegunEdges
  <2>2. nodes[c.from] = Whole /\ edges[c.from] = PeerEdges(c.from)
    BY <1>5, <2>1, Runs
  <2>3. nodes[r] = Whole /\ edges[r] = PeerEdges(r)
    BY <1>0, Runs
  <2>4. [ch |-> a.ch, peer |-> c.from, send |-> ~a.send] \in PeerEdges(r)
    BY <1>2, <1>4, <1>5, <2>1, <2>2, <2>3, Mirrored
  <2> QED BY <1>4, <1>5, <2>3, <2>4 DEF AcceptEdges
<1>7. \A d \in Landed(r) : <<d.from, d.ch, ~d.send>> # <<c.from, c.ch, ~c.send>>
  <2> SUFFICES ASSUME NEW d \in Landed(r), d.from = c.from, d.ch = c.ch, (~d.send) = (~c.send) PROVE FALSE
    OBVIOUS
  <2>1. d \in Taken(r)
    BY <1>3
  <2> QED BY <1>3, <2>1, TakenOnce
<1>8. PICK k : k = c
  OBVIOUS
<1>9. PICK x : x = e
  OBVIOUS
<1> HIDE DEF c, e
<1>10. x.peer = k.from /\ x.ch = k.ch /\ x.send = ~k.send
  BY <1>8, <1>9 DEF c, e
<1>11. /\ accepter'[r] = "check" /\ owed'[r] = owed[r] - 1
       /\ wires'[r] = {w \in wires[r] : <<w.peer, w.ch, w.send>> # <<k.from, k.ch, ~k.send>>} \cup {PassiveEnd(k)}
       /\ \A p \in Ranks : p # r => accepter'[p] = accepter[p] /\ owed'[p] = owed[p] /\ wires'[p] = wires[p]
       /\ accepter' \in [Ranks -> {"off", "check", "poll", "greet", "end"}]
       /\ DOMAIN wires' = Ranks
  BY <1>0, <1>2, <1>8 DEF ThreadTypes, PassiveEnd
<1>12. \A p \in Ranks : Taken(p)' = Taken(p)
  BY <1>1 DEF Taken
<1>13. Landed(r)' = Landed(r) \cup {k} /\ \A p \in Ranks : p # r => Landed(p)' = Landed(p)
  BY <1>0, <1>3, <1>8, <1>11, <1>12 DEF Landed
<1>14. x \in Awaited(r) /\ Awaited(r)' = Awaited(r) \ {x}
  <2>1. AcceptEdges(r, edges[r])' = AcceptEdges(r, edges[r])
    BY <1>1 DEF AcceptEdges
  <2>2. x \in Awaited(r)
    BY <1>6, <1>7, <1>8, <1>9, <1>10 DEF Awaited
  <2>3. \A f \in AcceptEdges(r, edges[r]) : <<k.from, k.ch, ~k.send>> = <<f.peer, f.ch, f.send>> <=> f = x
    <3> TAKE f \in AcceptEdges(r, edges[r])
    <3>1. edges[r] \in SUBSET [ch : Channels, peer : Ranks, send : BOOLEAN] /\ x \in AcceptEdges(r, edges[r])
      BY <1>2, <1>6, <1>9 DEF ThreadTypes
    <3>2. /\ f \in [ch : Channels, peer : Ranks, send : BOOLEAN]
          /\ x \in [ch : Channels, peer : Ranks, send : BOOLEAN]
      BY <3>1 DEF AcceptEdges
    <3>3. f.peer = x.peer /\ f.ch = x.ch /\ f.send = x.send <=> f = x
      BY <3>2
    <3> QED BY <1>10, <3>3
  <2> QED BY <1>13, <2>1, <2>2, <2>3 DEF Awaited
<1>15. \A p \in Ranks : p # r => Awaited(p)' = Awaited(p)
  BY <1>1, <1>13 DEF Awaited, AcceptEdges
<1>16. owed'[r] = Cardinality(Awaited(r)') /\ owed'[r] \in Nat
  <2>1. Awaited(r) \subseteq [ch : Channels, peer : Ranks, send : BOOLEAN]
    BY <1>2 DEF Awaited, AcceptEdges, ThreadTypes
  <2>2. IsFiniteSet(Awaited(r))
    BY <2>1, EdgesFinite, FS_Subset
  <2>3. Cardinality(Awaited(r) \ {x}) = Cardinality(Awaited(r)) - 1 /\ IsFiniteSet(Awaited(r) \ {x})
    BY <1>14, <2>2, FS_RemoveElement
  <2>4. Cardinality(Awaited(r) \ {x}) \in Nat
    BY <2>3, FS_CardinalityType
  <2>5. owed[r] = Cardinality(Awaited(r))
    BY <1>2 DEF AcceptOK
  <2> QED BY <1>11, <1>14, <2>3, <2>4, <2>5
<1>17. ThreadTypes'
  <2>1. owed' \in [Ranks -> Nat]
    BY <1>0, <1>2, <1>16 DEF ThreadTypes
  <2> QED BY <1>0, <1>1, <1>2, <1>11, <2>1 DEF ThreadTypes
<1>18. AcceptOK'
  <2> SUFFICES ASSUME NEW p \in Ranks
               PROVE  /\ accepter'[p] = "greet" => incoming'[p] \in Taken(p)'
                      /\ accepter'[p] = "off" => Taken(p)' = {}
                      /\ owed'[p] = Cardinality(Awaited(p)')
                      /\ accepter'[p] = "end" => owed'[p] = 0 \/ error'[p]
    BY DEF AcceptOK
  <2>1. CASE p = r
    BY <1>11, <1>16, <2>1
  <2>2. CASE p # r
    BY <1>0, <1>2, <1>11, <1>12, <1>15, <2>2 DEF AcceptOK
  <2> QED BY <2>1, <2>2
<1>19. {w \in wires[r] : <<w.peer, w.ch, w.send>> # <<k.from, k.ch, ~k.send>>} = wires[r]
  <2> SUFFICES ASSUME NEW w \in wires[r] PROVE <<w.peer, w.ch, w.send>> # <<k.from, k.ch, ~k.send>>
    OBVIOUS
  <2>1. CASE \E f \in Linked(r) : w = ActiveEnd(r, f)
    <3>1. PICK f \in Linked(r) : w = ActiveEnd(r, f)
      BY <2>1
    <3>2. f.peer \in Ranks /\ r < f.peer
      BY <3>1, BegunEdges DEF Started
    <3>3. w.peer = f.peer
      BY <3>1 DEF ActiveEnd
    <3>4. k.from \in Nat /\ r \in Nat /\ f.peer \in Nat /\ k.from < r
      BY <1>5, <1>8, <3>2, RankFacts
    <3> QED BY <3>2, <3>3, <3>4
  <2>2. CASE \E d \in Landed(r) : w = PassiveEnd(d)
    BY <1>7, <1>8, <2>2 DEF PassiveEnd
  <2> QED BY <1>2, <2>1, <2>2 DEF WiresOK
<1>20. WiresOK'
  <2> SUFFICES ASSUME NEW p \in Ranks
               PROVE  wires'[p] = {ActiveEnd(p, f)' : f \in Linked(p)'} \cup {PassiveEnd(d)' : d \in Landed(p)'}
    BY DEF WiresOK
  <2>1. CASE p = r
    <3>1. wires[r] = {ActiveEnd(r, f) : f \in Linked(r)} \cup {PassiveEnd(d) : d \in Landed(r)}
      BY <1>2 DEF WiresOK
    <3>2. wires'[r] = wires[r] \cup {PassiveEnd(k)}
      BY <1>11, <1>19
    <3>3. connecter[r] # "off"
      BY <1>0 DEF WireInv, Decisions, Endings, Decided
    <3>4. Linked(r)' = Linked(r) /\ \A f : ActiveEnd(r, f)' = ActiveEnd(r, f)
      BY <1>0, <1>1, <1>11, <3>3, ConnectFrame, ThreadFrame
    <3>5. {ActiveEnd(r, f)' : f \in Linked(r)'} = {ActiveEnd(r, f) : f \in Linked(r)}
      BY <3>4
    <3>6. {PassiveEnd(d)' : d \in Landed(r)'} = {PassiveEnd(d) : d \in Landed(r)} \cup {PassiveEnd(k)}
      BY <1>13 DEF PassiveEnd
    <3> QED BY <2>1, <3>1, <3>2, <3>5, <3>6
  <2>2. CASE p # r
    BY <1>0, <1>2, <1>11, <1>13, <2>2, WiresKept
  <2> QED BY <2>1, <2>2
<1>21. conns' \subseteq ConnRecords /\ \A y, z \in conns' : y.conn = z.conn => y = z
  BY <1>1, <1>2 DEF ConnsOK
<1> QED BY <1>0, <1>1, <1>11, <1>17, <1>18, <1>20, <1>21, AcceptKeeps

-----------------------------------------------------------------------------
(* The invariant *)

\* A stuttering step keeps the invariant.
LEMMA StutterSteps ==
  ASSUME BootInv, WireInv, UNCHANGED vars
  PROVE  BootInv' /\ WireInv'
<1>1. /\ UNCHANGED <<setup, bootVars, nodes>> /\ pc' = pc /\ nodes' = nodes /\ listening' = listening
      /\ UNCHANGED <<setup, rdmaReady, edges, connectVars, acceptVars, conns, wires, error, faults>>
      /\ setup' = setup /\ connecter' = connecter /\ accepter' = accepter /\ error' = error
  BY DEF vars, viewVars, connectVars, acceptVars
<1>2. /\ Listeners /\ Endings /\ DOMAIN listening = Ranks
      /\ pc \in [Ranks -> {"listen", "accept", "collect", "share", "join", "announce", "learn", "decide",
                           "wire", "ok", "failed"}]
  BY DEF WireInv, ThreadTypes, BootInv, BootTypes
<1>3. BootInv'
  BY <1>1, <1>2, BootKept
<1>4. \A p \in Ranks : OpenListeners(p)' = OpenListeners(p) /\ RdmaReady(p)' = RdmaReady(p)
  BY <1>1, SetupSteps, ViewSteps
<1>5. Listeners'
  BY <1>1, <1>2, <1>4 DEF Listeners
<1>6. Endings'
  BY <1>1, <1>2 DEF Endings
<1>7. \A p \in Ranks : Decided(p)' <=> Decided(p)
  BY <1>1 DEF Decided
<1>8. WireInv'
  BY <1>1, <1>2, <1>5, <1>6, <1>7, WireKept
<1> QED BY <1>3, <1>8

\* Every step keeps the invariant.
LEMMA StartupSteps ==
  ASSUME IInv, [Next]_vars
  PROVE  IInv'
<1>1. BootInv /\ WireInv
  BY DEF IInv
<1>2. CASE UNCHANGED vars
  BY <1>1, <1>2, StutterSteps DEF IInv
<1>3. CASE Next
  <2>1. PICK r \in Ranks : InitThread(r) \/ ConnectThread(r) \/ ConnectFails(r) \/ AcceptThread(r)
    BY <1>3 DEF Next
  <2>2. CASE InitThread(r)
    <3>1. CASE Decide(r)
      BY <1>1, <3>1, DecideSteps DEF IInv
    <3>2. CASE JoinThreads(r)
      BY <1>1, <3>2, JoinSteps DEF IInv
    <3>3. CASE ~Decide(r) /\ ~JoinThreads(r)
      <4>1. \/ Listen(r)
            \/ r = 0 /\ (AcceptWorker \/ RecvNodeInfo \/ BroadcastAllNodes)
            \/ r \in Workers /\ (JoinMaster(r) \/ SendNodeInfo(r) \/ RecvAllNodes(r))
        BY <2>2, <3>3 DEF InitThread
      <4>2. BootInv' /\ WireInv'
        BY <1>1, <4>1, BootSteps
      <4> QED BY <4>2 DEF IInv
    <3> QED BY <3>1, <3>2, <3>3
  <2>3. CASE ConnectThread(r) \/ ConnectFails(r)
    <3>1. CASE Connect(r)
      BY <1>1, <3>1, ConnectSteps DEF IInv
    <3>2. CASE ConnectFails(r) \/ RdmaEstablished(r) \/ ConnectEnds(r)
      BY <1>1, <3>2, WaitSteps DEF IInv
    <3>3. CASE Greet(r)
      BY <1>1, <3>3, GreetSteps DEF IInv
    <3>4. CASE Acknowledged(r)
      BY <1>1, <3>4, AckSteps DEF IInv
    <3> QED BY <2>3, <3>1, <3>2, <3>3, <3>4 DEF ConnectThread
  <2>4. CASE AcceptThread(r)
    <3>1. CASE AcceptCheck(r)
      BY <1>1, <3>1, CheckSteps DEF IInv
    <3>2. CASE Accept(r)
      BY <1>1, <3>2, AcceptSteps DEF IInv
    <3>3. CASE RecvHandshake(r)
      BY <1>1, <3>3, LandSteps DEF IInv
    <3> QED BY <2>4, <3>1, <3>2, <3>3 DEF AcceptThread
  <2> QED BY <2>1, <2>2, <2>3, <2>4
<1> QED BY <1>2, <1>3

\* The bootstrap goes through rank 0 as BootInv says, and the threads of
\* InitChannels stand to their edges as WireInv says, in every behaviour of
\* Communicator::Init.
THEOREM StartupInvariant == Spec => []IInv
<1>1. Init => IInv
  BY BootInit, WireInit DEF IInv
<1>2. IInv /\ [Next]_vars => IInv'
  BY StartupSteps
<1> QED BY <1>1, <1>2, PTL DEF Spec

-----------------------------------------------------------------------------
(* What the invariant says *)

\* The types of the variables, and no two network listeners kept.
LEMMA TypesOfInv ==
  ASSUME IInv
  PROVE  TypeOK
<1>1. BootTypes /\ BootOrder /\ ThreadTypes /\ Listeners
  BY DEF IInv, BootInv, WireInv
<1>2. N \in Nat /\ N >= 2
  BY RankFacts
<1>3. \A k \in DOMAIN bootQueue : bootQueue[k] \in Workers
  BY <1>1 DEF BootTypes
<1>4. \A k \in DOMAIN socks : socks[k] \in Workers
  BY <1>1 DEF BootTypes
<1>5. done \in 0 .. (N - 1)
  BY <1>1, <1>2 DEF BootTypes
<1>6. \A r \in Ranks : listening[r] \subseteq Nets /\ (Decided(r) => ~{"tcp", "rdma"} \subseteq listening[r])
  <2> TAKE r \in Ranks
  <2>1. OpenListeners(r) \subseteq Nets
    BY DEF OpenListeners, Nets
  <2>2. listening[r] = IF pc[r] \in {"listen", "ok", "failed"} THEN {}
                       ELSE IF pc[r] = "wire" THEN OpenListeners(r) \ {IF RdmaReady(r) THEN "tcp" ELSE "rdma"}
                       ELSE OpenListeners(r)
    BY <1>1 DEF Listeners
  <2> QED BY <2>1, <2>2 DEF Decided
<1> QED BY <1>1, <1>3, <1>4, <1>5, <1>6 DEF TypeOK, BootTypes, ThreadTypes

\* Who has left the bootstrap has the whole list.
LEMMA ViewOfInv ==
  ASSUME IInv
  PROVE  SameView
<1>1. BootInv
  BY DEF IInv
<1>2. \A r \in Ranks : pc[r] = "decide" \/ Decided(r) => nodes[r] = Whole
  BY <1>1, AllListening DEF Decided
<1> QED BY <1>2 DEF SameView, Whole

\* Two lists that are whole lead to decisions that fit.
LEMMA DecisionsOfInv ==
  ASSUME IInv
  PROVE  DecisionsAgree
<1>1. BootInv /\ WireInv /\ setup \in Setups /\ rdmaReady \in [Ranks -> BOOLEAN]
  BY DEF IInv, BootInv, BootTypes, WireInv, ThreadTypes
<1> SUFFICES ASSUME NEW r \in Ranks, NEW p \in Ranks, Decided(r), Decided(p)
             PROVE  /\ rdmaReady[r] = rdmaReady[p]
                    /\ \A e \in edges[r] : e.peer = p => [ch |-> e.ch, peer |-> r, send |-> ~e.send] \in edges[p]
  BY DEF DecisionsAgree
<1>2. /\ nodes[r] = Whole /\ rdmaReady[r] = RdmaReady(r) /\ edges[r] = PeerEdges(r)
      /\ nodes[p] = Whole /\ rdmaReady[p] = RdmaReady(p) /\ edges[p] = PeerEdges(p)
  BY <1>1, Runs
<1>3. RdmaReady(r) <=> RdmaReady(p)
  BY <1>1, <1>2, SeenFacts
<1>4. rdmaReady[r] = rdmaReady[p]
  BY <1>1, <1>2, <1>3
<1>5. \A e \in edges[r] : e.peer = p => [ch |-> e.ch, peer |-> r, send |-> ~e.send] \in edges[p]
  BY <1>1, <1>2, Mirrored
<1> QED BY <1>4, <1>5

\* Every rank leaves the bootstrap with the same list of nodes, each rank's
\* NodeInfo at its own place, and draws from it, alone, decisions that fit:
\* RDMA or TCP alike, and edges the other ends have too, with the opposite
\* direction (Communicator::Init after Bootstrap::Run), on every cluster.
THEOREM ViewsAgree == Spec => []CommonView
<1>1. IInv => CommonView
  BY TypesOfInv, ViewOfInv, DecisionsOfInv DEF CommonView
<1> QED BY <1>1, StartupInvariant, PTL

\* The edge of p that meets the edge e of r; e leads to another rank.
LEMMA OtherEnd ==
  ASSUME IInv, NEW r \in Ranks, NEW e \in edges[r], Decided(r)
  PROVE  /\ e \in [ch : Channels, peer : Ranks \ {r}, send : BOOLEAN]
         /\ r < e.peer \/ e.peer < r
         /\ Decided(e.peer) => [ch |-> e.ch, peer |-> r, send |-> ~e.send] \in edges[e.peer]
<1>1. BootInv /\ WireInv /\ setup \in Setups
  BY DEF IInv, BootInv, BootTypes
<1>2. nodes[r] = Whole /\ edges[r] = PeerEdges(r)
  BY <1>1, Runs
<1>3. e \in [ch : Channels, peer : Ranks \ {r}, send : BOOLEAN]
  BY <1>1, <1>2, EdgeTypes
<1>4. e.peer \in Ranks /\ e.peer # r
  BY <1>3
<1>5. r < e.peer \/ e.peer < r
  BY <1>4, RankFacts
<1>6. Decided(e.peer) => [ch |-> e.ch, peer |-> r, send |-> ~e.send] \in edges[e.peer]
  BY <1>4, DecisionsOfInv DEF DecisionsAgree
<1> QED BY <1>3, <1>5, <1>6

\* A rank whose threads have ended without an error has linked all its
\* active edges, and a connection has landed on each of the others.
LEMMA EndedWell ==
  ASSUME IInv, NEW p \in Ranks, pc[p] = "ok"
  PROVE  /\ Decided(p) /\ Linked(p) = ActiveEdges(p, edges[p]) /\ Started(p) = Linked(p)
         /\ \A e \in AcceptEdges(p, edges[p]) :
              \E c \in Landed(p) : c.from = e.peer /\ c.ch = e.ch /\ (~c.send) = e.send
<1>1. /\ ThreadTypes /\ TodoOK /\ AcceptOK /\ Endings
  BY DEF IInv, WireInv
<1>2. connecter[p] = "end" /\ accepter[p] = "end" /\ ~error[p]
  BY <1>1 DEF Endings
<1>3. todo[p] = << >> /\ owed[p] = 0
  BY <1>1, <1>2 DEF TodoOK, AcceptOK
<1>4. Pending(p) = {}
  BY <1>3 DEF Pending, Members
<1>5. Linked(p) = ActiveEdges(p, edges[p]) /\ Started(p) = Linked(p)
  BY <1>2, <1>4 DEF Linked, Started, InHand
<1>6. Awaited(p) = {}
  <2>1. Awaited(p) \subseteq [ch : Channels, peer : Ranks, send : BOOLEAN]
    BY <1>1 DEF Awaited, AcceptEdges, ThreadTypes
  <2>2. IsFiniteSet(Awaited(p))
    BY <2>1, EdgesFinite, FS_Subset
  <2>3. Cardinality(Awaited(p)) = 0
    BY <1>1, <1>3 DEF AcceptOK
  <2> QED BY <2>2, <2>3, FS_EmptySet
<1>7. \A e \in AcceptEdges(p, edges[p]) :
        \E c \in Landed(p) : <<c.from, c.ch, ~c.send>> = <<e.peer, e.ch, e.send>>
  BY <1>6 DEF Awaited
<1> QED BY <1>5, <1>7 DEF Decided

\* A connection that has landed at p was begun by an edge of its sender.
LEMMA LandedFrom ==
  ASSUME IInv, NEW p \in Ranks, NEW c \in Landed(p)
  PROVE  /\ c.from \in Ranks /\ c.send \in BOOLEAN
         /\ \E f \in Started(c.from) :
              /\ c = ConnFor(c.from, f) /\ f.peer = p /\ f.ch = c.ch /\ f.send = c.send
              /\ f \in [ch : Channels, peer : Ranks, send : BOOLEAN]
<1>1. WireInv /\ c \in Taken(p)
  BY DEF IInv, Landed
<1>2. c.from \in Ranks /\ c.send \in BOOLEAN
  BY <1>1, TakenFacts
<1>3. PICK f \in Started(c.from) : c = ConnFor(c.from, f) /\ f.peer = p /\ f.ch = c.ch /\ f.send = c.send
  BY <1>1, TakenFacts
<1>4. f \in [ch : Channels, peer : Ranks, send : BOOLEAN]
  BY <1>1, <1>2, <1>3, BegunEdges
<1> QED BY <1>2, <1>3, <1>4

\* A rank that has succeeded has every edge, and where both have, the two
\* connectors of an edge hold the ends of one connection.
LEMMA AlikeOfInv ==
  ASSUME IInv
  PROVE  WiredAlike
<1> SUFFICES ASSUME NEW r \in Ranks, pc[r] = "ok", NEW e \in edges[r]
             PROVE  \E w \in wires[r] :
                      /\ w.peer = e.peer /\ w.ch = e.ch /\ w.send = e.send
                      /\ pc[e.peer] = "ok" =>
                           [peer |-> r, ch |-> e.ch, send |-> ~e.send, conn |-> w.conn] \in wires[e.peer]
  BY DEF WiredAlike
<1>1. WireInv /\ WiresOK
  BY DEF IInv, WireInv
<1>2. Decided(r)
  BY EndedWell
<1>3. /\ e \in [ch : Channels, peer : Ranks \ {r}, send : BOOLEAN]
      /\ r < e.peer \/ e.peer < r
      /\ Decided(e.peer) => [ch |-> e.ch, peer |-> r, send |-> ~e.send] \in edges[e.peer]
  BY <1>2, OtherEnd
<1>4. PICK p \in Ranks : p = e.peer
  BY <1>3
<1>5. e \in [ch : Channels, peer : Ranks, send : BOOLEAN] /\ e.send \in BOOLEAN
  BY <1>3
<1>6. CASE r < p
  <2>1. e \in Linked(r)
    BY <1>4, <1>6, EndedWell DEF ActiveEdges
  <2>2. ActiveEnd(r, e) \in wires[r]
    BY <1>1, <2>1 DEF WiresOK
  <2>3. ASSUME pc[p] = "ok"
        PROVE  [peer |-> r, ch |-> e.ch, send |-> ~e.send, conn |-> ConnFor(r, e)] \in wires[p]
    <3>1. Decided(p)
      BY <2>3, EndedWell
    <3>2. [ch |-> e.ch, peer |-> r, send |-> ~e.send] \in AcceptEdges(p, edges[p])
      BY <1>3, <1>4, <1>6, <3>1 DEF AcceptEdges
    <3>3. PICK c \in Landed(p) : c.from = r /\ c.ch = e.ch /\ (~c.send) = (~e.send)
      BY <2>3, <3>2, EndedWell
    <3>4. PICK f \in Started(r) : /\ c = ConnFor(r, f) /\ f.peer = p /\ f.ch = c.ch /\ f.send = c.send
                                  /\ f \in [ch : Channels, peer : Ranks, send : BOOLEAN] /\ c.send \in BOOLEAN
      BY <3>3, LandedFrom
    <3>5. f.send = e.send
      BY <1>5, <3>3, <3>4
    <3>6. f = e
      BY <1>4, <1>5, <3>3, <3>4, <3>5, ConnNames
    <3>7. PassiveEnd(c) \in wires[p]
      BY <1>1 DEF WiresOK
    <3>8. PassiveEnd(c) = [peer |-> r, ch |-> e.ch, send |-> ~e.send, conn |-> ConnFor(r, e)]
      BY <3>3, <3>4, <3>6 DEF PassiveEnd
    <3> QED BY <3>7, <3>8
  <2>4. /\ ActiveEnd(r, e).peer = e.peer /\ ActiveEnd(r, e).ch = e.ch /\ ActiveEnd(r, e).send = e.send
        /\ ActiveEnd(r, e).conn = ConnFor(r, e)
    BY DEF ActiveEnd
  <2> QED BY <1>4, <2>2, <2>3, <2>4
<1>7. CASE p < r
  <2>1. e \in AcceptEdges(r, edges[r])
    BY <1>4, <1>7 DEF AcceptEdges
  <2>2. PICK c \in Landed(r) : c.from = p /\ c.ch = e.ch /\ (~c.send) = e.send
    BY <1>4, <2>1, EndedWell
  <2>3. PassiveEnd(c) \in wires[r]
    BY <1>1 DEF WiresOK
  <2>4. ASSUME pc[p] = "ok"
        PROVE  [peer |-> r, ch |-> e.ch, send |-> ~e.send, conn |-> c] \in wires[p]
    <3>1. PICK f \in Started(p) : /\ c = ConnFor(p, f) /\ f.peer = r /\ f.ch = c.ch /\ f.send = c.send
                                  /\ f \in [ch : Channels, peer : Ranks, send : BOOLEAN] /\ c.send \in BOOLEAN
      BY <2>2, LandedFrom
    <3>2. f \in Linked(p)
      BY <2>4, <3>1, EndedWell
    <3>3. ActiveEnd(p, f) \in wires[p]
      BY <1>1, <3>2 DEF WiresOK
    <3>4. f.send = (~e.send)
      BY <1>5, <2>2, <3>1
    <3>5. ActiveEnd(p, f) = [peer |-> r, ch |-> e.ch, send |-> ~e.send, conn |-> c]
      BY <2>2, <3>1, <3>4 DEF ActiveEnd
    <3> QED BY <3>3, <3>5
  <2>5. /\ PassiveEnd(c).peer = e.peer /\ PassiveEnd(c).ch = e.ch /\ PassiveEnd(c).send = e.send
        /\ PassiveEnd(c).conn = c
    <3>1. PassiveEnd(c).peer = c.from /\ PassiveEnd(c).ch = c.ch /\ PassiveEnd(c).conn = c
      BY DEF PassiveEnd
    <3>2. PassiveEnd(c).send = (~c.send)
      BY DEF PassiveEnd
    <3> QED BY <1>4, <2>2, <3>1, <3>2
  <2> QED BY <1>4, <2>3, <2>4, <2>5
<1> QED BY <1>3, <1>4, <1>6, <1>7

\* Where InitChannels has succeeded at both ends of an edge, the connectors
\* hold the two ends of one connection, and a rank that has succeeded has
\* every edge: whatever fails, and however often it is tried again.
THEOREM EndsFit == Spec => []WiredAlike
<1> QED BY AlikeOfInv, StartupInvariant, PTL

-----------------------------------------------------------------------------
(* With fewer faults than attempts *)

\* While no connect thread has given up, the listener an edge asks for is
\* open: its peer cannot have ended, for it waits for this edge.
LEMMA OpenOfInv ==
  ASSUME IInv, \A p \in Ranks : ~error[p], NEW r \in Ranks, Trying(r)
  PROVE  ~Refused(r)
<1> DEFINE h == Head(todo[r])
<1>1. /\ BootInv /\ WireInv /\ Listeners /\ Endings /\ setup \in Setups
      /\ pc \in [Ranks -> {"listen", "accept", "collect", "share", "join", "announce", "learn", "decide",
                           "wire", "ok", "failed"}]
  BY DEF IInv, BootInv, BootTypes, WireInv
<1>2. connecter[r] = "idle" /\ todo[r] # << >>
  BY DEF Trying
<1>3. /\ Decided(r) /\ nodes[r] = Whole /\ rdmaReady[r] = RdmaReady(r)
      /\ \A p \in Ranks : pc[p] # "listen"
  BY <1>1, <1>2, Runs
<1>4. /\ h \in edges[r] /\ h \in [ch : Channels, peer : Ranks, send : BOOLEAN] /\ r < h.peer
      /\ h \notin Linked(r) /\ ConnOf(r) = ConnFor(r, h)
  BY <1>1, <1>2, HeadFacts
<1>5. PICK p \in Ranks : p = h.peer
  BY <1>4
<1>6. pc[p] # "failed"
  BY <1>1 DEF Endings
<1>7. pc[p] # "ok"
  <2> SUFFICES ASSUME pc[p] = "ok" PROVE FALSE
    OBVIOUS
  <2>1. Decided(p)
    BY EndedWell
  <2>2. [ch |-> h.ch, peer |-> r, send |-> ~h.send] \in AcceptEdges(p, edges[p])
    BY <1>3, <1>4, <1>5, <2>1, OtherEnd DEF AcceptEdges
  <2>3. PICK c \in Landed(p) : c.from = r /\ c.ch = h.ch /\ (~c.send) = (~h.send)
    BY <2>2, EndedWell
  <2>4. PICK f \in Started(r) : /\ f.peer = p /\ f.ch = c.ch /\ f.send = c.send
                                /\ f \in [ch : Channels, peer : Ranks, send : BOOLEAN] /\ c.send \in BOOLEAN
    BY <2>3, LandedFrom
  <2>5. h.send \in BOOLEAN
    BY <1>4
  <2>6. f = h
    <3>1. f.peer = h.peer /\ f.ch = h.ch /\ f.send = h.send
      BY <1>5, <2>3, <2>4, <2>5
    <3> QED BY <1>4, <2>4, <3>1, ConnNames
  <2>7. Started(r) = Linked(r)
    BY <1>2 DEF Started, InHand
  <2> QED BY <1>4, <2>4, <2>6, <2>7
<1>8. listening[p] = IF pc[p] = "wire" THEN OpenListeners(p) \ {IF RdmaReady(p) THEN "tcp" ELSE "rdma"}
                     ELSE OpenListeners(p)
  BY <1>1, <1>3, <1>6, <1>7 DEF Listeners
<1>9. pc[p] = "wire" => (RdmaReady(p) <=> RdmaReady(r))
  <2>1. pc[p] = "wire" => nodes[p] = Whole
    BY <1>1, AllListening
  <2> QED BY <1>1, <1>3, <2>1, SeenFacts
<1>10. RdmaReady(r) => setup.rdma[p]
  BY <1>1, <1>3, SeenFacts
<1>11. PICK n : n = Net(r, p)
  OBVIOUS
<1>12. n \in listening[p]
  <2>1. n = IF setup.shm /\ SameHost(r, p) THEN "shm" ELSE IF RdmaReady(r) THEN "rdma" ELSE "tcp"
    BY <1>3, <1>11 DEF Net
  <2> QED BY <1>8, <1>9, <1>10, <2>1 DEF OpenListeners
<1>13. ConnOf(r).net = n /\ ConnOf(r).to = p
  BY <1>4, <1>5, <1>11 DEF ConnFor
<1> QED BY <1>12, <1>13 DEF Refused

\* No connect thread uses up its attempts.
LEMMA NoneSteps ==
  ASSUME MaxFaults < Retries, IInv, NoneGivesUp, [Next]_vars
  PROVE  NoneGivesUp'
<1>1. /\ faults \in 0 .. MaxFaults /\ attempt \in [Ranks -> 1 .. Retries] /\ error \in [Ranks -> BOOLEAN]
      /\ Retries \in Nat /\ MaxFaults \in Nat
  BY StartupAssumption DEF IInv, WireInv, ThreadTypes
<1>2. \A p \in Ranks : ~error[p] /\ attempt[p] <= faults + 1
  BY DEF NoneGivesUp
<1>3. CASE UNCHANGED <<attempt, error, faults>>
  BY <1>2, <1>3 DEF NoneGivesUp
<1>4. CASE \E r \in Ranks : Connect(r)
  <2>1. PICK r \in Ranks : attempt' = [attempt EXCEPT ![r] = 1] /\ error' = error /\ faults' = faults
    BY <1>4 DEF Connect
  <2>2. \A p \in Ranks : attempt'[p] <= faults + 1
    BY <1>1, <1>2, <2>1
  <2> QED BY <1>2, <2>1, <2>2 DEF NoneGivesUp
<1>5. CASE \E r \in Ranks : ConnectFails(r)
  <2>1. PICK r \in Ranks : ConnectFails(r)
    BY <1>5
  <2>2. ~Refused(r)
    BY <1>2, <2>1, OpenOfInv DEF ConnectFails
  <2>3. faults < MaxFaults /\ faults' = faults + 1
    BY <2>1, <2>2 DEF ConnectFails
  <2>4. attempt[r] < Retries
    <3>1. attempt[r] \in 1 .. Retries /\ attempt[r] <= faults + 1
      BY <1>1, <1>2
    <3> QED BY <1>1, <2>3, <3>1
  <2>5. attempt' = [attempt EXCEPT ![r] = @ + 1] /\ error' = error
    BY <2>1, <2>4 DEF ConnectFails
  <2>6. \A p \in Ranks : attempt'[p] <= faults' + 1
    <3> TAKE p \in Ranks
    <3>1. attempt[p] \in Nat /\ attempt[p] <= faults + 1 /\ faults \in Nat
      BY <1>1, <1>2
    <3>2. attempt'[p] = IF p = r THEN attempt[p] + 1 ELSE attempt[p]
      BY <1>1, <2>5
    <3> QED BY <2>3, <3>1, <3>2
  <2> QED BY <1>2, <2>5, <2>6 DEF NoneGivesUp
<1>6. \/ UNCHANGED <<attempt, error, faults>>
      \/ \E r \in Ranks : Connect(r) \/ ConnectFails(r)
  <2>1. CASE UNCHANGED vars
    BY <2>1 DEF vars, connectVars
  <2>2. CASE Next
    <3>1. PICK r \in Ranks : InitThread(r) \/ ConnectThread(r) \/ ConnectFails(r) \/ AcceptThread(r)
      BY <2>2 DEF Next
    <3>2. CASE InitThread(r)
      BY <3>2 DEF InitThread, Listen, Decide, JoinThreads, AcceptWorker, RecvNodeInfo, BroadcastAllNodes,
                  JoinMaster, SendNodeInfo, RecvAllNodes, connectVars
    <3>3. CASE ConnectThread(r)
      BY <3>3 DEF ConnectThread, RdmaEstablished, Greet, Acknowledged, ConnectEnds
    <3>4. CASE AcceptThread(r)
      BY <3>4 DEF AcceptThread, AcceptCheck, Accept, RecvHandshake, connectVars
    <3> QED BY <3>1, <3>2, <3>3, <3>4
  <2> QED BY <2>1, <2>2
<1> QED BY <1>3, <1>4, <1>5, <1>6

\* As long as fewer attempts fail than an edge may make, every connect of
\* ConnectActiveEdges meets an open listener, though its peer decides alone
\* when to close which, and every edge ends with both ends of one
\* connection.
THEOREM EveryEdgeMeets ==
  ASSUME MaxFaults < Retries
  PROVE  Spec => []EdgesMeet
<1>1. Init => NoneGivesUp
  <2>1. Retries \in Nat /\ MaxFaults \in Nat
    BY StartupAssumption
  <2> QED BY <2>1 DEF Init, NoneGivesUp
<1>2. IInv /\ NoneGivesUp /\ [Next]_vars => NoneGivesUp'
  BY NoneSteps
<1>3. IInv /\ NoneGivesUp => EdgesMeet
  BY OpenOfInv, AlikeOfInv DEF EdgesMeet, ListenerOpen, NoneGivesUp
<1> QED BY <1>1, <1>2, <1>3, StartupInvariant, PTL DEF Spec
=============================================================================
