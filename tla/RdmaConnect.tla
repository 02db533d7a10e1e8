----------------------------- MODULE RdmaConnect ------------------------------
(***************************************************************************)
(* How RDMA connections are made: Connect at one end, Accept and Adopt at  *)
(* the other (transport_rdma.cpp), and the second connection the zero-copy *)
(* transport makes for its own queue pair (transport_rdma_zc.cpp).         *)
(* Several connectors meet one listener, whose thread accepts one at a     *)
(* time and stops at the first failure.  The listener stays open then:     *)
(* that of the channels until InitChannels has joined its threads, that of *)
(* P2P (zero copy) until Finalize, and a later AcceptP2pOne may go on.     *)
(* The connection manager (CM) answers every request with an event on a    *)
(* channel; AwaitEvent reads one channel until the event it wants, or one  *)
(* it holds to be fatal, arrives.  The channels are blocking, so a read    *)
(* waits for as long as no event comes, and AwaitEvent's timeout, which    *)
(* follows EAGAIN, is never reached.                                       *)
(***************************************************************************)
EXTENDS Integers, Sequences, FiniteSets

CONSTANTS
  Conns,      \* the connections wanted, one connector each
  FaultSets   \* the sets of AllFaults to consider

\* addr, route, unreachable: what the CM reports to a connector; setup,
\* zcqp: a resource the accepting end lacks; error: its process stops for
\* another reason; setupActive, zcqpActive: a resource the connector lacks.
AllFaults == {"addr", "route", "unreachable", "setup", "zcqp", "error", "setupActive", "zcqpActive"}
PassiveFaults == {"setup", "zcqp", "error"}

\* The two ends of a connection, and the CM channel of each of its layers.
Act(c) == <<c, "active">>
Pas(c) == <<c, "passive">>
Ends == Conns \X {"active", "passive"}
Other(e) == IF e = Act(e[1]) THEN Pas(e[1]) ELSE Act(e[1])
Layers == {"base", "zc"}

VARIABLES
  zc,          \* whether the ends are TransportRDMAZc (never changes)
  faults,      \* the faults that may happen (never changes)
  pc,          \* where Connect and Accept are; returned and failed are final
  listening,   \* the listener is open
  stopped,     \* its caller has returned false, or is not called again
  requests,    \* the listener's channel: connection requests not read yet
  events,      \* per end and layer, events not read yet
  connected,   \* the flag connected
  posted,      \* the receive pool is posted (and the queue pair made)
  port,        \* zc_port: the second listener an end has opened, or NoPort
  peer,        \* the Wire received, or NoWire
  live,        \* ends whose queue pair is connected: they may send
  zcQp         \* ends that have made the second queue pair

fixed == <<zc, faults>>
caller == <<listening, stopped>>
vars == <<fixed, caller, pc, requests, events, connected, posted, port, peer, live, zcQp>>

NoPort == << >>
NoWire == [from |-> << >>, port |-> NoPort]

\* The listener has been set up (Listen); Accept is called when a request is
\* there (the callers poll its channel).
Init ==
  /\ zc \in BOOLEAN
  /\ faults \in FaultSets
  /\ pc = [e \in Ends |-> IF e = Act(e[1]) THEN "start" ELSE "accept"]
  /\ listening = TRUE /\ stopped = FALSE
  /\ requests = << >>
  /\ events = [ch \in Ends \X Layers |-> << >>]
  /\ connected = [e \in Ends |-> FALSE]
  /\ posted = [e \in Ends |-> FALSE]
  /\ port = [e \in Ends |-> NoPort]
  /\ peer = [e \in Ends |-> NoWire]
  /\ live = {}
  /\ zcQp = {}

-----------------------------------------------------------------------------
(* Events *)

Event(name, wire) == [name |-> name, wire |-> wire]
Plain(name) == Event(name, NoWire)

\* What follows when all is well, and what follows the fault if it may happen.
Outcomes(fault, good, bad) == {good} \cup (IF fault \in faults THEN {bad} ELSE {})

Push(evs, e, layer, ev) == [evs EXCEPT ![<<e, layer>>] = Append(@, ev)]

\* Mutant: no event ends the wait.
FatalNone(name) == FALSE

\* The events AwaitEvent and AwaitZcEvent give up on.
Fatal(name) == name = "REJECTED"

\* AwaitEvent: the wanted event, a fatal one, or one to be skipped.
AwaitEvent(e, layer, name, next) ==
  LET ch == <<e, layer>> IN
  /\ events[ch] # << >>
  /\ events' = [events EXCEPT ![ch] = Tail(@)]
  /\ pc' = [pc EXCEPT ![e] = CASE Head(events[ch]).name = name -> next
                               [] Fatal(Head(events[ch]).name) -> "failed"
                               [] OTHER -> @]

\* Accept of connection c fails: the connection is dropped, and the CM rejects
\* the request of that layer, to which its connector awaits the answer.
LetGo(c, layer) == Push(events, Act(c), layer, Plain("REJECTED"))

-----------------------------------------------------------------------------
(* Both ends *)

\* SetupResources: queue pair and pool; for zero copy, at the end that is
\* connected already, the listener of the second connection as well.
SetupResources(e) ==
  /\ posted' = [posted EXCEPT ![e] = TRUE]
  /\ port' = [port EXCEPT ![e] = IF zc /\ connected[e] THEN e ELSE NoPort]

\* The private data an end sends: its memory, and its second port.
PrepareWire(e) == [from |-> e, port |-> port[e]]

-----------------------------------------------------------------------------
(* Connect *)

\* rdma_resolve_addr or rdma_resolve_route, for either connection.
Resolve(c, at, fault, good, bad, layer, next) ==
  /\ pc[Act(c)] = at
  /\ \E name \in Outcomes(fault, good, bad) : events' = Push(events, Act(c), layer, Plain(name))
  /\ pc' = [pc EXCEPT ![Act(c)] = next]
  /\ UNCHANGED <<fixed, caller, requests, connected, posted, port, peer, live, zcQp>>

Resolved(c, at, layer, name, next) ==
  /\ pc[Act(c)] = at /\ AwaitEvent(Act(c), layer, name, next)
  /\ UNCHANGED <<fixed, caller, requests, connected, posted, port, peer, live, zcQp>>

ResolveAddr(c) == Resolve(c, "start", "addr", "ADDR_RESOLVED", "ADDR_ERROR", "base", "addr")
AddrResolved(c) == Resolved(c, "addr", "base", "ADDR_RESOLVED", "addrKnown")
ResolveRoute(c) == Resolve(c, "addrKnown", "route", "ROUTE_RESOLVED", "ROUTE_ERROR", "base", "route")
RouteResolved(c) == Resolved(c, "route", "base", "ROUTE_RESOLVED", "setup")

SetupActive(c) ==
  /\ pc[Act(c)] = "setup"
  /\ SetupResources(Act(c))
  /\ \E next \in Outcomes("setupActive", "connect", "failed") : pc' = [pc EXCEPT ![Act(c)] = next]
  /\ UNCHANGED <<fixed, caller, requests, events, connected, peer, live, zcQp>>

\* rdma_connect: the request reaches the listener, is rejected when that is
\* gone, or the host is unreachable.
Connect(c) ==
  /\ pc[Act(c)] = "connect"
  /\ \E heard \in Outcomes("unreachable", IF ~listening THEN "REJECTED" ELSE "nothing", "UNREACHABLE") :
       IF heard = "nothing"
       THEN /\ requests' = Append(requests, [conn |-> c, wire |-> PrepareWire(Act(c))])
            /\ events' = events
       ELSE /\ events' = Push(events, Act(c), "base", Plain(heard))
            /\ requests' = requests
  /\ connected' = [connected EXCEPT ![Act(c)] = TRUE]
  /\ pc' = [pc EXCEPT ![Act(c)] = "established"]
  /\ UNCHANGED <<fixed, caller, posted, port, peer, live, zcQp>>

\* ESTABLISHED brings the acceptor's private data; the queue pair is live.
ConnectEstablished(c) ==
  /\ pc[Act(c)] = "established" /\ AwaitEvent(Act(c), "base", "ESTABLISHED", "finalize")
  /\ IF pc'[Act(c)] = "finalize"
     THEN /\ peer' = [peer EXCEPT ![Act(c)] = Head(events[<<Act(c), "base">>]).wire]
          /\ live' = live \cup {Act(c)}
     ELSE UNCHANGED <<peer, live>>
  /\ UNCHANGED <<fixed, caller, requests, connected, posted, port, zcQp>>

\* FinalizeConnection of the base does nothing; the zero-copy one needs the
\* acceptor's port and then resolves and connects as above.
FinalizeActive(c) ==
  /\ pc[Act(c)] = "finalize"
  /\ pc' = [pc EXCEPT ![Act(c)] = CASE ~zc -> "returned"
                                    [] zc /\ peer[Act(c)].port = NoPort -> "failed"
                                    [] OTHER -> "zcStart"]
  /\ UNCHANGED <<fixed, caller, requests, events, connected, posted, port, peer, live, zcQp>>

ZcResolveAddr(c) == Resolve(c, "zcStart", "addr", "ADDR_RESOLVED", "ADDR_ERROR", "zc", "zcAddr")
ZcAddrResolved(c) == Resolved(c, "zcAddr", "zc", "ADDR_RESOLVED", "zcAddrKnown")
ZcResolveRoute(c) == Resolve(c, "zcAddrKnown", "route", "ROUTE_RESOLVED", "ROUTE_ERROR", "zc", "zcRoute")
ZcRouteResolved(c) == Resolved(c, "zcRoute", "zc", "ROUTE_RESOLVED", "zcQueuePair")

ZcQueuePairActive(c) ==
  /\ pc[Act(c)] = "zcQueuePair"
  /\ \E next \in Outcomes("zcqpActive", "zcConnect", "failed") : pc' = [pc EXCEPT ![Act(c)] = next]
  /\ zcQp' = IF pc'[Act(c)] = "zcConnect" THEN zcQp \cup {Act(c)} ELSE zcQp
  /\ UNCHANGED <<fixed, caller, requests, events, connected, posted, port, peer, live>>

\* Mutant: Connect does not wait for the second connection.
ZcConnectNoWait(c) ==
  /\ pc[Act(c)] = "zcConnect"
  /\ events' = Push(events, peer[Act(c)].port, "zc", Plain("CONNECT_REQUEST"))
  /\ pc' = [pc EXCEPT ![Act(c)] = "returned"]
  /\ UNCHANGED <<fixed, caller, requests, connected, posted, port, peer, live, zcQp>>

\* rdma_connect to the advertised port.
ZcConnect(c) ==
  /\ pc[Act(c)] = "zcConnect"
  /\ events' = Push(events, peer[Act(c)].port, "zc", Plain("CONNECT_REQUEST"))
  /\ pc' = [pc EXCEPT ![Act(c)] = "zcEstablished"]
  /\ UNCHANGED <<fixed, caller, requests, connected, posted, port, peer, live, zcQp>>

ZcConnectEstablished(c) ==
  /\ pc[Act(c)] = "zcEstablished" /\ AwaitEvent(Act(c), "zc", "ESTABLISHED", "returned")
  /\ UNCHANGED <<fixed, caller, requests, connected, posted, port, peer, live, zcQp>>

ConnectSide(c) ==
  \/ ResolveAddr(c) \/ AddrResolved(c) \/ ResolveRoute(c) \/ RouteResolved(c) \/ SetupActive(c) \/ Connect(c)
  \/ ConnectEstablished(c) \/ FinalizeActive(c)
  \/ ZcResolveAddr(c) \/ ZcAddrResolved(c) \/ ZcResolveRoute(c) \/ ZcRouteResolved(c)
  \/ ZcQueuePairActive(c) \/ ZcConnect(c) \/ ZcConnectEstablished(c)

-----------------------------------------------------------------------------
(* Accept *)

\* No Accept is under way.
Idle == \A c \in Conns : pc[Pas(c)] \in {"accept", "returned", "failed"}

\* Accept reads a request, whose private data is the peer's; Adopt sets
\* connected before SetupResources looks at it.
TakeUp ==
  /\ Idle /\ requests # << >>
  /\ LET e == Pas(Head(requests).conn) IN
     /\ peer' = [peer EXCEPT ![e] = Head(requests).wire]
     /\ connected' = [connected EXCEPT ![e] = TRUE]
     /\ pc' = [pc EXCEPT ![e] = "setup"]
  /\ requests' = Tail(requests)
  /\ UNCHANGED <<fixed, listening, events, posted, port, live, zcQp>>

Accept == ~stopped /\ TakeUp /\ stopped' = FALSE

SetupPassive(c) ==
  /\ pc[Pas(c)] = "setup"
  /\ SetupResources(Pas(c))
  /\ pc' = [pc EXCEPT ![Pas(c)] = "reply"]
  /\ UNCHANGED <<fixed, caller, requests, events, connected, peer, live, zcQp>>

\* A resource is missing: Accept returns null and the destructor lets go.
SetupFails(c) ==
  /\ "setup" \in faults /\ pc[Pas(c)] = "setup"
  /\ events' = LetGo(c, "base")
  /\ pc' = [pc EXCEPT ![Pas(c)] = "failed"]
  /\ stopped' = TRUE
  /\ UNCHANGED <<fixed, listening, requests, connected, posted, port, peer, live, zcQp>>

\* rdma_accept: the CM completes the exchange, each end hears of it by itself.
AcceptReply(c) ==
  /\ pc[Pas(c)] = "reply"
  /\ events' = Push(Push(events, Act(c), "base", Event("ESTABLISHED", PrepareWire(Pas(c)))),
                    Pas(c), "base", Plain("ESTABLISHED"))
  /\ pc' = [pc EXCEPT ![Pas(c)] = "established"]
  /\ UNCHANGED <<fixed, caller, requests, connected, posted, port, peer, live, zcQp>>

\* Adopt has waited for ESTABLISHED; the base returns, zero copy goes on to
\* wait for the second request.
AcceptEstablished(c) ==
  /\ pc[Pas(c)] = "established"
  /\ AwaitEvent(Pas(c), "base", "ESTABLISHED", IF zc THEN "zcAccept" ELSE "returned")
  /\ live' = live \cup {Pas(c)}
  /\ UNCHANGED <<fixed, caller, requests, connected, posted, port, peer, zcQp>>

\* The first event is the request; the queue pair comes before the reply.
ZcAccept(c) ==
  LET ch == <<Pas(c), "zc">> IN
  /\ pc[Pas(c)] = "zcAccept" /\ events[ch] # << >>
  /\ zcQp' = zcQp \cup {Pas(c)}
  /\ events' = [Push(events, Act(c), "zc", Plain("ESTABLISHED")) EXCEPT
                  ![ch] = Append(Tail(@), Plain("ESTABLISHED"))]
  /\ pc' = [pc EXCEPT ![Pas(c)] = "zcEstablished"]
  /\ UNCHANGED <<fixed, caller, requests, connected, posted, port, peer, live>>

\* CreateZcQueuePair fails.
ZcAcceptFails(c) ==
  /\ "zcqp" \in faults
  /\ pc[Pas(c)] = "zcAccept" /\ events[<<Pas(c), "zc">>] # << >>
  /\ events' = LetGo(c, "zc")
  /\ pc' = [pc EXCEPT ![Pas(c)] = "failed"]
  /\ stopped' = TRUE
  /\ UNCHANGED <<fixed, listening, requests, connected, posted, port, peer, live, zcQp>>

ZcAcceptEstablished(c) ==
  /\ pc[Pas(c)] = "zcEstablished" /\ AwaitEvent(Pas(c), "zc", "ESTABLISHED", "returned")
  /\ UNCHANGED <<fixed, caller, requests, connected, posted, port, peer, live, zcQp>>

AcceptSide ==
  \/ Accept
  \/ \E c \in Conns :
       \/ SetupPassive(c) \/ SetupFails(c) \/ AcceptReply(c) \/ AcceptEstablished(c)
       \/ ZcAccept(c) \/ ZcAcceptFails(c) \/ ZcAcceptEstablished(c)

\* AcceptPassiveEdges sees error_occurred before its next poll; or nobody
\* calls AcceptP2pOne again.
GiveUp ==
  /\ "error" \in faults /\ Idle
  /\ stopped' = TRUE
  /\ UNCHANGED <<fixed, pc, listening, requests, events, connected, posted, port, peer, live, zcQp>>

\* A later AcceptP2pOne finds a request (before that its poll waits, and
\* nothing changes).
AcceptAgain == zc /\ stopped /\ TakeUp /\ stopped' = FALSE

\* InitChannels closes the listener once its connect thread has ended too, and
\* Finalize that of P2P: the CM rejects the requests nobody has read.
CloseListener ==
  /\ listening /\ Idle
  /\ stopped \/ \A c \in Conns : pc[Pas(c)] = "returned"
  /\ listening' = FALSE
  /\ LET unread == {<<Act(requests[i].conn), "base">> : i \in DOMAIN requests} IN
     events' = [ch \in Ends \X Layers |->
                  IF ch \in unread THEN Append(events[ch], Plain("REJECTED")) ELSE events[ch]]
  /\ requests' = << >>
  /\ UNCHANGED <<fixed, pc, stopped, connected, posted, port, peer, live, zcQp>>

CallerSide == GiveUp \/ AcceptAgain \/ CloseListener

Next == AcceptSide \/ CallerSide \/ \E c \in Conns : ConnectSide(c)

\* Each thread is scheduled, and the CM delivers its events; when the
\* accepting caller stops, comes back or closes the listener is not for the
\* calls to say.
Spec == Init /\ [][Next]_vars /\ WF_vars(AcceptSide) /\ \A c \in Conns : WF_vars(ConnectSide(c))

-----------------------------------------------------------------------------
(* Properties *)

Final(e) == pc[e] \in {"returned", "failed"}

\* Every variable has its type; only the accepting end opens a second
\* listener (SetupResources of the zero-copy transport).
TypeOK ==
  /\ \A c \in Conns :
       /\ pc[Act(c)] \in {"start", "addr", "addrKnown", "route", "setup", "connect", "established", "finalize",
                          "zcStart", "zcAddr", "zcAddrKnown", "zcRoute", "zcQueuePair", "zcConnect",
                          "zcEstablished", "returned", "failed"}
       /\ pc[Pas(c)] \in {"accept", "setup", "reply", "established", "zcAccept", "zcEstablished",
                          "returned", "failed"}
       /\ port[Pas(c)] \in {NoPort, Pas(c)} /\ port[Act(c)] = NoPort
  /\ connected \in [Ends -> BOOLEAN] /\ posted \in [Ends -> BOOLEAN]
  /\ Len(requests) <= Cardinality(Conns)
  /\ live \subseteq Ends /\ zcQp \subseteq Ends
  /\ listening \in BOOLEAN /\ stopped \in BOOLEAN

\* An end that may send finds the other's receive pool posted, although it
\* hears of the connection at a moment of its own: the acceptor posts before
\* rdma_accept, the connector before rdma_connect.
PoolReady == \A e \in live : posted[Other(e)]

\* Whatever fails, an end that has got a transport from Connect or Accept is
\* never left with a peer whose call failed: both hold each other's memory
\* and, for zero copy, both queue pairs.
SameOutcome ==
  \A e \in Ends : pc[e] = "returned" =>
    /\ pc[Other(e)] # "failed"
    /\ peer[e].from = Other(e)
    /\ zc => {e, Other(e)} \subseteq zcQp

\* c's request is unread behind an Accept that failed, or waits for one that
\* is not called: AwaitEvent waits until the listener is closed.
Abandoned(c) == listening /\ stopped /\ \E i \in DOMAIN requests : requests[i].conn = c

\* Every Connect is over or abandoned, and every Accept that took up a request
\* is over.
AllReturned ==
  faults \subseteq PassiveFaults =>
    \A c \in Conns : (Final(Act(c)) \/ Abandoned(c)) /\ (Final(Pas(c)) \/ pc[Pas(c)] = "accept")

\* When only the accepting end fails, every Connect and every Accept that is
\* under way returns, and stays so: AwaitEvent gives up on the rejection.
\* (Only a request nobody has read waits as long as the listener is open.)
CallsReturn == <>[]AllReturned

\* AwaitEvent says "Timed out waiting for the RDMA event": a Connect that
\* never gets the event it waits for gives up after kEstablishTimeoutMs.
ConnectReturns == \A c \in Conns : <>Final(Act(c))
=============================================================================
