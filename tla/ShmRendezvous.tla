---------------------------- MODULE ShmRendezvous -----------------------------
(***************************************************************************)
(* How two processes come to share a ring (transport_shm.cpp): Connect     *)
(* makes the memory file and the two event counters, connects to the       *)
(* listener's socket and passes the three descriptors over it; Accept      *)
(* receives and maps them.  The first Send and Recv, the caller's          *)
(* handshake, travel over the same control socket, Recv answers with one   *)
(* byte, and both ends close the socket.  A Connect that fails closes      *)
(* everything and is retried by its caller (ConnectActiveEdges) with a new *)
(* ring; the accepting caller (AcceptPassiveEdges) serves one connection   *)
(* at a time and returns at the first failure, keeping the transports it   *)
(* has filed.  The listener is closed later: by InitChannels once its      *)
(* connect thread has ended as well, or, when the callers are ConnectP2p   *)
(* and AcceptP2pOne, by Finalize; ConnectP2p does not retry, and a later   *)
(* AcceptP2pOne may go on where one has failed.                            *)
(*                                                                         *)
(* A ring is named by its connector and the attempt that made it, and so   *)
(* is the control connection of that attempt.                              *)
(***************************************************************************)
EXTENDS Integers, Sequences, FiniteSets

CONSTANTS
  Connectors,   \* the processes that connect, one edge each
  Retries,      \* kConnectRetryCount
  Faults        \* which of AllFaults may happen

\* A system call that fails: making the ring, connect, sendmsg, mmap, accept;
\* recvmsg that finds no room for all descriptors; and the accepting caller
\* that stops because its own process has failed elsewhere.
AllFaults == {"create", "connect", "transfer", "map", "accept", "truncate", "error"}

Directions == {"Send", "Receive"}
Rings == Connectors \X (1 .. Retries)

\* The descriptors of a ring (RingResources).
Fds == {"ring", "data_ready", "space_ready"}

\* Those CreateRing may have opened when it fails: the event counters are made
\* one after the other and then checked together.
PartlyCreated == {{}, {"ring"}, {"ring", "data_ready"}, {"ring", "space_ready"}}

\* Those recvmsg installs when the process is short of descriptors: as many of
\* the message's as fit, in order.
Truncated == {{}, {"ring"}, {"ring", "data_ready"}}

VARIABLES
  p2p,       \* the callers are ConnectP2p and AcceptP2pOne (never changes)
  pc,        \* where each connector is
  attempt,   \* the attempt it is at
  dir,       \* its direction_, set before Connect (never changes)
  held,      \* held[k]: the descriptors of its current ring k has open
  backlog,   \* control connections the listener has not accepted, in order
  listening, \* listen_fd is open and bound to listen_path
  toPassive, toActive,      \* per control connection, messages under way
  activeOpen, passiveOpen,  \* control connections whose end is open
  apc,       \* where the accepting thread is
  cur,       \* the control connection it serves, or NoRing
  adopted,   \* ring and descriptor, for those open in the accepting process
  adir,      \* the direction_ of an adopted ring there
  served,    \* rings whose transport the accepting caller has filed
  torn       \* history: rings whose descriptors came in part

activeVars == <<p2p, pc, attempt, dir, held>>
socketVars == <<backlog, listening, toPassive, toActive, activeOpen, passiveOpen>>
passiveVars == <<apc, cur, adopted, adir, served, torn>>
vars == <<activeVars, socketVars, passiveVars>>

NoRing == << >>
Ring(k) == <<k, attempt[k]>>

\* Listen has removed what an earlier process left at the path, and bound.
Init ==
  /\ p2p \in BOOLEAN
  /\ pc = [k \in Connectors |-> "create"]
  /\ attempt = [k \in Connectors |-> 1]
  /\ dir \in [Connectors -> IF p2p THEN {"Send"} ELSE Directions]
  /\ held = [k \in Connectors |-> {}]
  /\ backlog = << >> /\ listening = TRUE
  /\ toPassive = [r \in Rings |-> << >>] /\ toActive = [r \in Rings |-> << >>]
  /\ activeOpen = {} /\ passiveOpen = {}
  /\ apc = "wait" /\ cur = NoRing
  /\ adopted = {} /\ adir = [r \in Rings |-> "Bidirectional"] /\ served = {} /\ torn = {}

-----------------------------------------------------------------------------
(* Connect, and the Send that follows it *)

\* Mutant: the descriptors stay open.
CloseNothing(k) ==
  /\ held' = held
  /\ activeOpen' = activeOpen \ {Ring(k)}

\* Close: control socket, mapping and whatever descriptors there are.
Close(k) ==
  /\ held' = [held EXCEPT ![k] = {}]
  /\ activeOpen' = activeOpen \ {Ring(k)}

\* ConnectActiveEdges tries kConnectRetryCount times, ConnectP2p once.
MayRetry(k) == ~p2p /\ attempt[k] < Retries

ConnectFails(k) ==
  /\ Close(k)
  /\ IF MayRetry(k)
     THEN attempt' = [attempt EXCEPT ![k] = @ + 1] /\ pc' = [pc EXCEPT ![k] = "create"]
     ELSE attempt' = attempt /\ pc' = [pc EXCEPT ![k] = "failed"]
  /\ UNCHANGED <<p2p, dir, backlog, listening, toPassive, toActive, passiveOpen, passiveVars>>

CreateRing(k) ==
  /\ pc[k] = "create"
  /\ held' = [held EXCEPT ![k] = Fds]
  /\ pc' = [pc EXCEPT ![k] = "connect"]
  /\ UNCHANGED <<p2p, attempt, dir, socketVars, passiveVars>>

\* memfd_create, ftruncate, mmap or an eventfd fails.
CreateRingFails(k) ==
  /\ "create" \in Faults /\ pc[k] = "create"
  /\ \E opened \in PartlyCreated : held' = [held EXCEPT ![k] = opened]
  /\ pc' = [pc EXCEPT ![k] = "drop"]
  /\ UNCHANGED <<p2p, attempt, dir, socketVars, passiveVars>>

\* Connect then closes what CreateRing has left.
DropRing(k) == pc[k] = "drop" /\ ConnectFails(k)

\* connect() succeeds as soon as the connection is in the backlog.
ConnectSocket(k) ==
  /\ pc[k] = "connect" /\ listening
  /\ backlog' = Append(backlog, Ring(k))
  /\ activeOpen' = activeOpen \cup {Ring(k)} /\ passiveOpen' = passiveOpen \cup {Ring(k)}
  /\ pc' = [pc EXCEPT ![k] = "transfer"]
  /\ UNCHANGED <<p2p, attempt, dir, held, listening, toPassive, toActive, passiveVars>>

ConnectSocketFails(k) == pc[k] = "connect" /\ (~listening \/ "connect" \in Faults) /\ ConnectFails(k)

\* SendResources: the descriptors and the direction; then connected is set.
SendResources(k) ==
  /\ pc[k] = "transfer" /\ Ring(k) \in passiveOpen
  /\ toPassive' = [toPassive EXCEPT ![Ring(k)] = Append(@, [kind |-> "resources", dir |-> dir[k]])]
  /\ pc' = [pc EXCEPT ![k] = "send"]
  /\ UNCHANGED <<p2p, attempt, dir, held, backlog, listening, toActive, activeOpen, passiveOpen, passiveVars>>

SendResourcesFails(k) ==
  pc[k] = "transfer" /\ (Ring(k) \notin passiveOpen \/ "transfer" \in Faults) /\ ConnectFails(k)

\* Send: SendControl of the handshake.
SendHandshake(k) ==
  /\ pc[k] = "send" /\ Ring(k) \in passiveOpen
  /\ toPassive' = [toPassive EXCEPT ![Ring(k)] = Append(@, [kind |-> "handshake", dir |-> dir[k]])]
  /\ pc' = [pc EXCEPT ![k] = "ack"]
  /\ UNCHANGED <<p2p, attempt, dir, held, backlog, listening, toActive, activeOpen, passiveOpen, passiveVars>>

\* Send: RecvControl of the acknowledgement, CloseControl.
RecvAck(k) ==
  /\ pc[k] = "ack" /\ toActive[Ring(k)] # << >>
  /\ toActive' = [toActive EXCEPT ![Ring(k)] = Tail(@)]
  /\ activeOpen' = activeOpen \ {Ring(k)}
  /\ pc' = [pc EXCEPT ![k] = "returned"]
  /\ UNCHANGED <<p2p, attempt, dir, held, backlog, listening, toPassive, passiveOpen, passiveVars>>

\* The other end is gone: Send returns false, which nobody retries, and the
\* transport is destroyed.
SendFails(k) ==
  /\ pc[k] \in {"send", "ack"} /\ Ring(k) \notin passiveOpen /\ toActive[Ring(k)] = << >>
  /\ Close(k)
  /\ pc' = [pc EXCEPT ![k] = "failed"]
  /\ UNCHANGED <<p2p, attempt, dir, backlog, listening, toPassive, toActive, passiveOpen, passiveVars>>

ConnectSide(k) ==
  \/ CreateRing(k) \/ CreateRingFails(k) \/ DropRing(k) \/ ConnectSocket(k) \/ ConnectSocketFails(k)
  \/ SendResources(k) \/ SendResourcesFails(k) \/ SendHandshake(k) \/ RecvAck(k) \/ SendFails(k)

-----------------------------------------------------------------------------
(* Accept, and the Recv that follows it *)

\* accept4.
TakeUp ==
  /\ listening /\ backlog # << >>
  /\ cur' = Head(backlog) /\ backlog' = Tail(backlog)
  /\ apc' = "resources"
  /\ UNCHANGED <<activeVars, listening, toPassive, toActive, activeOpen, passiveOpen, adopted, adir, served, torn>>

\* Accept, when poll has reported the listener.
AcceptSocket == apc = "wait" /\ TakeUp

\* No descriptor for the connection, which stays in the backlog.
AcceptSocketFails ==
  /\ "accept" \in Faults /\ apc = "wait" /\ listening /\ backlog # << >>
  /\ apc' = "failed"
  /\ UNCHANGED <<activeVars, socketVars, cur, adopted, adir, served, torn>>

\* The other direction than the peer's.
Local(d) == IF d = "Send" THEN "Receive" ELSE "Send"

\* recvmsg has installed the descriptors and the message is valid.
RecvResources ==
  /\ apc = "resources" /\ toPassive[cur] # << >>
  /\ adopted' = adopted \cup ({cur} \X Fds)
  /\ adir' = [adir EXCEPT ![cur] = Local(Head(toPassive[cur]).dir)]
  /\ toPassive' = [toPassive EXCEPT ![cur] = Tail(@)]
  /\ apc' = "map"
  /\ UNCHANGED <<activeVars, backlog, listening, toActive, activeOpen, passiveOpen, cur, served, torn>>

\* Accept or Recv gives up on the connection: its control socket is closed and
\* the caller returns.
Refuse ==
  /\ passiveOpen' = passiveOpen \ {cur}
  /\ cur' = NoRing
  /\ apc' = "failed"

\* Fewer descriptors than three: the control message is skipped, the message
\* held invalid, and what was installed is in nobody's hands: RecvResources
\* closes only what it has copied from a control message of three.
RecvTruncated ==
  /\ "truncate" \in Faults /\ apc = "resources" /\ toPassive[cur] # << >>
  /\ \E installed \in Truncated : adopted' = adopted \cup ({cur} \X installed)
  /\ torn' = torn \cup {cur}
  /\ toPassive' = [toPassive EXCEPT ![cur] = Tail(@)]
  /\ Refuse
  /\ UNCHANGED <<activeVars, backlog, listening, toActive, activeOpen, adir, served>>

Adopt ==
  /\ apc = "map"
  /\ apc' = "recv"
  /\ UNCHANGED <<activeVars, socketVars, cur, adopted, adir, served, torn>>

\* Close of the transport made for the connection.
ReleaseCurrent ==
  /\ adopted' = adopted \ ({cur} \X Fds)
  /\ Refuse
  /\ UNCHANGED <<activeVars, backlog, listening, toPassive, toActive, activeOpen, adir, served, torn>>

\* mmap fails.
AdoptFails == "map" \in Faults /\ apc = "map" /\ ReleaseCurrent

\* Recv: RecvControl of the handshake.
RecvHandshake ==
  /\ apc = "recv" /\ toPassive[cur] # << >>
  /\ toPassive' = [toPassive EXCEPT ![cur] = Tail(@)]
  /\ apc' = "ack"
  /\ UNCHANGED <<activeVars, backlog, listening, toActive, activeOpen, passiveOpen, cur, adopted, adir, served, torn>>

\* RecvResources or RecvControl finds that the other end closed before its
\* message came.
PeerGone ==
  /\ apc \in {"resources", "recv"} /\ toPassive[cur] = << >> /\ cur \notin activeOpen
  /\ ReleaseCurrent

\* Recv: SendControl of the acknowledgement, CloseControl; the caller files
\* the transport and waits for the next connection, or is through.
Ack ==
  /\ apc = "ack"
  /\ toActive' = [toActive EXCEPT ![cur] = Append(@, [kind |-> "ack", dir |-> adir[cur]])]
  /\ passiveOpen' = passiveOpen \ {cur}
  /\ served' = served \cup {cur} /\ cur' = NoRing
  /\ apc' = IF Cardinality(served') = Cardinality(Connectors) THEN "done" ELSE "wait"
  /\ UNCHANGED <<activeVars, backlog, listening, toPassive, activeOpen, adopted, adir, torn>>

AcceptSide ==
  \/ AcceptSocket \/ AcceptSocketFails \/ RecvResources \/ RecvTruncated \/ Adopt \/ AdoptFails
  \/ RecvHandshake \/ PeerGone \/ Ack

\* AcceptPassiveEdges sees error_occurred before its next poll; or nobody
\* calls AcceptP2pOne again.
GiveUp ==
  /\ "error" \in Faults /\ apc = "wait"
  /\ apc' = "failed"
  /\ UNCHANGED <<activeVars, socketVars, cur, adopted, adir, served, torn>>

\* A later AcceptP2pOne finds a connection in the backlog (before that its
\* poll waits, and nothing changes).
AcceptAgain == p2p /\ apc = "failed" /\ TakeUp

\* InitChannels closes the listener once its connect thread has ended too, and
\* Finalize that of P2P: its path is removed and the connections nobody has
\* accepted are closed.
CloseListener ==
  /\ apc \in {"done", "failed"} /\ listening
  /\ listening' = FALSE
  /\ passiveOpen' = passiveOpen \ {backlog[i] : i \in DOMAIN backlog}
  /\ backlog' = << >>
  /\ UNCHANGED <<activeVars, toPassive, toActive, activeOpen, passiveVars>>

CallerSide == GiveUp \/ AcceptAgain \/ CloseListener

Next == AcceptSide \/ CallerSide \/ \E k \in Connectors : ConnectSide(k)

\* The threads are scheduled; when the accepting caller stops, comes back or
\* closes the listener is not for the calls to say.
Spec == Init /\ [][Next]_vars /\ WF_vars(AcceptSide) /\ \A k \in Connectors : WF_vars(ConnectSide(k))

-----------------------------------------------------------------------------
(* Properties *)

\* Every variable has its type; no attempt beyond kConnectRetryCount is made.
TypeOK ==
  /\ pc \in [Connectors -> {"create", "drop", "connect", "transfer", "send", "ack", "returned", "failed"}]
  /\ attempt \in [Connectors -> 1 .. Retries]
  /\ held \in [Connectors -> SUBSET Fds]
  /\ activeOpen \subseteq Rings /\ passiveOpen \subseteq Rings
  /\ apc \in {"wait", "resources", "map", "recv", "ack", "done", "failed"}
  /\ cur \in Rings \cup {NoRing}
  /\ served \subseteq Rings /\ torn \subseteq Rings /\ adopted \subseteq Rings \X Fds
  /\ \A e \in adopted : e[1] \in torn \/ adir[e[1]] \in Directions

\* Once Connect and Send have returned true, the accepting process has filed
\* the ring of that very attempt, not of one that was given up, whatever
\* failed there before or after; and the two ends are one producer and one
\* consumer with all three descriptors.
SharedRing ==
  /\ \A k \in Connectors : pc[k] = "returned" => Ring(k) \in served /\ held[k] = Fds
  /\ \A r \in served :
       /\ r = Ring(r[1]) /\ pc[r[1]] \in {"ack", "returned"} /\ adir[r] # dir[r[1]]
       /\ {r} \X Fds \subseteq adopted

\* The accepting process has no descriptor open but those of a transport it
\* has filed or of the connection it is serving.
NothingOrphaned == \A e \in adopted : e[1] \in served \cup {cur}

\* No failure path but one leaves a descriptor behind: a connector that
\* failed or is about to make a new ring holds none, however far CreateRing
\* got; the accepting process has open what it has filed, what it is serving,
\* and what came in part (RecvTruncated), which nobody closes; a control
\* socket is open only while a call is at it or it waits in the backlog.
NoLeak ==
  /\ \A k \in Connectors : held[k] # {} => pc[k] \notin {"create", "failed"}
  /\ \A r \in activeOpen : r = Ring(r[1]) /\ pc[r[1]] \in {"transfer", "send", "ack"}
  /\ \A r \in passiveOpen : r = cur \/ (\E i \in DOMAIN backlog : backlog[i] = r)
  /\ \A e \in adopted : e[1] \in served \cup torn \cup {cur}

\* k's Send waits for the acknowledgement of a connection nobody has accepted,
\* behind a call of the accepting process that failed; CloseListener ends it.
Abandoned(k) ==
  /\ pc[k] = "ack" /\ apc = "failed" /\ listening
  /\ \E i \in DOMAIN backlog : backlog[i] = Ring(k)

\* Nobody is in a call, or waits for anything but a new connection or for a
\* failed process to close its listener.
AllReturned ==
  /\ \A k \in Connectors : pc[k] \in {"returned", "failed"} \/ Abandoned(k)
  /\ apc \in {"wait", "done", "failed"}

\* Every Connect, Send, Accept and Recv that is under way returns, whatever
\* fails at the other end: a closed control socket ends the wait.  (Only a
\* connection nobody has accepted waits as long as its listener is open.)
CallsReturn == <>[]AllReturned
=============================================================================
