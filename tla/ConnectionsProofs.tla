-------------------------- MODULE ConnectionsProofs --------------------------
(***************************************************************************)
(* Connect and Accept keep their promises for every number of connections, *)
(* every kConnectRetryCount and every set of faults.  The two kinds of     *)
(* listener share no state, so the invariant is one for each.              *)
(*                                                                         *)
(* SHM: on an open control connection the messages sent are the messages   *)
(* taken and the ones under way (CountInv), so the accepting thread that   *)
(* has taken two serves the attempt its connector is waiting in, not one   *)
(* that was given up; what nobody has connected with is unheard of         *)
(* (FreshInv).  RDMA: where the acceptor of a connection is tells where    *)
(* its connector can be and which events are under way (Stage); a step     *)
(* changes one connection (OnlyAt) except when the listener goes and all   *)
(* that wait at it are rejected (CloseListenerStep).                       *)
(***************************************************************************)
EXTENDS Connections, FiniteSetTheorems, TLAPS

-----------------------------------------------------------------------------
(* The invariant of the shared-memory rendezvous *)

Note == [kind : {"resources", "handshake", "ack"}, dir : Shm!Directions]

\* The variables the type invariant of ShmRendezvous leaves open.
ShmTypes ==
  /\ p2p \in BOOLEAN /\ dir \in [Conns -> Shm!Directions]
  /\ toPassive \in [Shm!Rings -> Seq(Note)] /\ toActive \in [Shm!Rings -> Seq(Note)]
  /\ backlog \in Seq(Shm!Rings) /\ listening \in BOOLEAN
  /\ adir \in [Shm!Rings -> Shm!Directions \cup {"Bidirectional"}]

\* The attempt that makes ring r has not connected yet.
Fresh(r) ==
  \/ r[2] > attempt[r[1]]
  \/ r[2] = attempt[r[1]] /\ pc[r[1]] \in {"create", "drop", "connect"}

\* Nobody has heard of such a ring.
FreshInv ==
  \A r \in Shm!Rings : Fresh(r) => toPassive[r] = << >> /\ r \notin passiveOpen

\* From Connect on a connector has all descriptors of its ring open.
HeldInv ==
  \A k \in Conns : pc[k] \in {"connect", "transfer", "send", "ack", "returned"} => held[k] = Shm!Fds

\* The backlog holds open connections, each once, and not the one served.
QueueInv ==
  /\ \A i \in 1 .. Len(backlog) : backlog[i] \in passiveOpen /\ backlog[i] # cur
  /\ \A i, j \in 1 .. Len(backlog) : backlog[i] = backlog[j] => i = j

\* Which connection the accepting thread serves.
ServeInv ==
  /\ apc \in {"resources", "map", "recv", "ack"} => cur \in passiveOpen
  /\ apc \notin {"resources", "map", "recv", "ack"} => cur = Shm!NoRing
  /\ apc \in {"map", "recv", "ack"} =>
       adir[cur] = Shm!Local(dir[cur[1]]) /\ {cur} \X Shm!Fds \subseteq adopted

\* The messages sent on the connection of ring r, and the ones taken from it.
SentOn(r) ==
  IF r[2] # attempt[r[1]] THEN 0
  ELSE IF pc[r[1]] = "send" THEN 1 ELSE IF pc[r[1]] = "ack" THEN 2 ELSE 0
TakenFrom(r) ==
  IF r # cur THEN 0 ELSE IF apc \in {"map", "recv"} THEN 1 ELSE IF apc = "ack" THEN 2 ELSE 0

\* On an open connection nothing is lost.
CountInv ==
  \A r \in passiveOpen : \A q \in {toPassive[r]} : Len(q) + TakenFrom(r) = SentOn(r)

\* What is under way carries its connector's direction, and a ring that came
\* whole has the other one.
DirInv ==
  /\ \A r \in Shm!Rings : \A q \in {toPassive[r]} : \A i \in 1 .. Len(q) : q[i].dir = dir[r[1]]
  /\ \A e \in adopted : e[1] \in torn \/ adir[e[1]] = Shm!Local(dir[e[1][1]])

\* A ring that was filed came whole, and is of its connector's last attempt,
\* which waits for the acknowledgement or has it; the connection is closed.
ServedInv ==
  \A r \in served : /\ r \notin passiveOpen /\ r[2] = attempt[r[1]]
                    /\ pc[r[1]] \in {"ack", "returned"}
                    /\ pc[r[1]] = "ack" => toActive[r] # << >>
                    /\ {r} \X Shm!Fds \subseteq adopted /\ adir[r] = Shm!Local(dir[r[1]])

\* Only a ring that was filed is acknowledged.
AckInv ==
  /\ \A r \in Shm!Rings : toActive[r] # << >> => r \in served
  /\ \A k \in Conns : pc[k] = "returned" => Shm!Ring(k) \in served

\* The invariant of the rendezvous.
ShmInv ==
  /\ Shm!TypeOK /\ ShmTypes /\ Shm!NoLeak /\ FreshInv /\ QueueInv /\ ServeInv /\ CountInv /\ DirInv
  /\ ServedInv /\ AckInv /\ HeldInv

-----------------------------------------------------------------------------
(* Every step of the rendezvous keeps it *)

\* A Connect that fails closes everything and tries again with a new ring, or gives up.
LEMMA ConnectFailsStep ==
  ASSUME ShmInv, NEW k \in Conns, Shm!ConnectFails(k), pc[k] \in {"drop", "connect", "transfer"}
  PROVE  ShmInv'
<1> USE ConnectionsAssumption DEF ShmInv
<1>1. Shm!TypeOK'
  <2>1. attempt' \in [Conns -> 1 .. Retries]
    BY DEF Shm!ConnectFails, Shm!MayRetry, Shm!TypeOK
  <2>2. /\ held' \in [Conns -> SUBSET Shm!Fds] /\ activeOpen' \subseteq Shm!Rings
        /\ UNCHANGED <<passiveOpen, apc, cur, served, adopted, adir, torn>>
    BY DEF Shm!ConnectFails, Shm!Close, Shm!TypeOK, Shm!passiveVars
  <2>3. pc' \in [Conns -> {"create", "drop", "connect", "transfer", "send", "ack", "returned", "failed"}]
    BY DEF Shm!ConnectFails, Shm!TypeOK
  <2> QED BY <2>1, <2>2, <2>3 DEF Shm!TypeOK
<1>2. ShmTypes'
  BY DEF Shm!ConnectFails, Shm!passiveVars, ShmTypes
<1>3. Shm!NoLeak'
  BY DEF Shm!ConnectFails, Shm!Close, Shm!passiveVars, Shm!TypeOK, Shm!NoLeak, Shm!Ring, Shm!Rings
<1>4. FreshInv'
  <2>1. ASSUME NEW r \in Shm!Rings, Fresh(r)' PROVE Fresh(r)
    BY <2>1 DEF Shm!ConnectFails, Shm!MayRetry, Shm!TypeOK, Fresh, Shm!Rings, Shm!Ring
  <2> QED BY <2>1 DEF Shm!ConnectFails, Shm!Close, Shm!MayRetry, Shm!passiveVars, FreshInv
<1>5. QueueInv'
  BY DEF Shm!ConnectFails, Shm!passiveVars, QueueInv
<1>6. ServeInv'
  BY DEF Shm!ConnectFails, Shm!passiveVars, ServeInv
<1>7. CountInv'
  <2> SUFFICES ASSUME NEW r \in passiveOpen
               PROVE  SentOn(r)' = SentOn(r)
    BY DEF Shm!ConnectFails, Shm!Close, Shm!MayRetry, Shm!passiveVars, CountInv, TakenFrom
  <2>1. r \in Shm!Rings
    BY DEF Shm!TypeOK
  <2> QED BY <2>1, SMTT(30) DEF Shm!ConnectFails, Shm!Close, Shm!MayRetry, Shm!passiveVars, Shm!TypeOK, FreshInv, Fresh, SentOn, Shm!Rings
<1>8. DirInv'
  <2>1. UNCHANGED <<toPassive, dir, adopted, adir, torn>>
    BY DEF Shm!ConnectFails, Shm!passiveVars
  <2> QED BY <2>1 DEF DirInv, Shm!Local
<1>9. ServedInv'
  BY DEF Shm!ConnectFails, Shm!passiveVars, Shm!TypeOK, ServedInv, Shm!Rings
<1>10. AckInv'
  BY DEF Shm!ConnectFails, Shm!passiveVars, Shm!TypeOK, AckInv, Shm!Ring
<1>11. HeldInv'
  BY DEF Shm!ConnectFails, Shm!Close, Shm!activeVars, Shm!passiveVars, Shm!socketVars, Shm!TypeOK, HeldInv
<1> QED BY <1>1, <1>2, <1>3, <1>4, <1>5, <1>6, <1>7, <1>8, <1>9, <1>10, <1>11

\* Connect makes the memory file and the event counters.
LEMMA CreateRingStep ==
  ASSUME ShmInv, NEW k \in Conns, Shm!CreateRing(k)
  PROVE  ShmInv'
<1> USE ConnectionsAssumption DEF ShmInv
<1>1. Shm!TypeOK'
  BY DEF Shm!CreateRing, Shm!socketVars, Shm!passiveVars, Shm!TypeOK
<1>2. ShmTypes'
  BY DEF Shm!CreateRing, Shm!socketVars, Shm!passiveVars, ShmTypes
<1>3. Shm!NoLeak'
  BY DEF Shm!CreateRing, Shm!socketVars, Shm!passiveVars, Shm!TypeOK, Shm!NoLeak, Shm!Ring
<1>4. FreshInv'
  BY DEF Shm!CreateRing, Shm!socketVars, Shm!passiveVars, FreshInv, Fresh
<1>5. QueueInv'
  BY DEF Shm!CreateRing, Shm!socketVars, Shm!passiveVars, QueueInv
<1>6. ServeInv'
  BY DEF Shm!CreateRing, Shm!socketVars, Shm!passiveVars, ServeInv
<1>7. CountInv'
  <2>1. UNCHANGED <<attempt, toPassive, passiveOpen, cur, apc>>
    BY DEF Shm!CreateRing, Shm!socketVars, Shm!passiveVars
  <2>2. \A r \in Shm!Rings : SentOn(r)' = SentOn(r) /\ TakenFrom(r)' = TakenFrom(r)
    BY <2>1 DEF Shm!CreateRing, Shm!TypeOK, SentOn, TakenFrom, Shm!Rings
  <2> QED BY <2>1, <2>2 DEF CountInv, Shm!TypeOK
<1>8. DirInv'
  BY DEF Shm!CreateRing, Shm!socketVars, Shm!passiveVars, DirInv
<1>9. ServedInv'
  BY DEF Shm!CreateRing, Shm!socketVars, Shm!passiveVars, ServedInv
<1>10. AckInv'
  BY DEF Shm!CreateRing, Shm!socketVars, Shm!passiveVars, AckInv, Shm!Ring
<1>11. HeldInv'
  BY DEF Shm!CreateRing, Shm!activeVars, Shm!passiveVars, Shm!socketVars, Shm!TypeOK, HeldInv
<1> QED BY <1>1, <1>2, <1>3, <1>4, <1>5, <1>6, <1>7, <1>8, <1>9, <1>10, <1>11

\* The memory file or an event counter is missing.
LEMMA CreateRingFailsStep ==
  ASSUME ShmInv, NEW k \in Conns, Shm!CreateRingFails(k)
  PROVE  ShmInv'
<1> USE ConnectionsAssumption DEF ShmInv
<1>1. Shm!TypeOK'
  <2>1. \A opened \in Shm!PartlyCreated : opened \subseteq Shm!Fds
    BY DEF Shm!PartlyCreated, Shm!Fds
  <2> QED BY <2>1 DEF Shm!CreateRingFails, Shm!socketVars, Shm!passiveVars, Shm!TypeOK
<1>2. ShmTypes'
  BY DEF Shm!CreateRingFails, Shm!socketVars, Shm!passiveVars, ShmTypes
<1>3. Shm!NoLeak'
  BY DEF Shm!CreateRingFails, Shm!socketVars, Shm!passiveVars, Shm!TypeOK, Shm!NoLeak, Shm!Ring
<1>4. FreshInv'
  BY DEF Shm!CreateRingFails, Shm!socketVars, Shm!passiveVars, FreshInv, Fresh
<1>5. QueueInv'
  BY DEF Shm!CreateRingFails, Shm!socketVars, Shm!passiveVars, QueueInv
<1>6. ServeInv'
  BY DEF Shm!CreateRingFails, Shm!socketVars, Shm!passiveVars, ServeInv
<1>7. CountInv'
  <2>1. UNCHANGED <<attempt, toPassive, passiveOpen, cur, apc>>
    BY DEF Shm!CreateRingFails, Shm!socketVars, Shm!passiveVars
  <2>2. \A r \in Shm!Rings : SentOn(r)' = SentOn(r) /\ TakenFrom(r)' = TakenFrom(r)
    BY <2>1 DEF Shm!CreateRingFails, Shm!TypeOK, SentOn, TakenFrom, Shm!Rings
  <2> QED BY <2>1, <2>2 DEF CountInv, Shm!TypeOK
<1>8. DirInv'
  BY DEF Shm!CreateRingFails, Shm!socketVars, Shm!passiveVars, DirInv
<1>9. ServedInv'
  BY DEF Shm!CreateRingFails, Shm!socketVars, Shm!passiveVars, ServedInv
<1>10. AckInv'
  BY DEF Shm!CreateRingFails, Shm!socketVars, Shm!passiveVars, AckInv, Shm!Ring
<1>11. HeldInv'
  BY DEF Shm!CreateRingFails, Shm!activeVars, Shm!passiveVars, Shm!socketVars, Shm!TypeOK, HeldInv
<1> QED BY <1>1, <1>2, <1>3, <1>4, <1>5, <1>6, <1>7, <1>8, <1>9, <1>10, <1>11

\* connect(): the control connection is in the backlog.
LEMMA ConnectSocketStep ==
  ASSUME ShmInv, NEW k \in Conns, Shm!ConnectSocket(k)
  PROVE  ShmInv'
<1> USE ConnectionsAssumption DEF ShmInv
<1>1. Shm!TypeOK'
  BY DEF Shm!ConnectSocket, Shm!passiveVars, Shm!TypeOK, Shm!Ring, Shm!Rings
<1>2. ShmTypes'
  BY DEF Shm!ConnectSocket, Shm!passiveVars, Shm!TypeOK, ShmTypes, Shm!Ring, Shm!Rings
<1>3. Shm!NoLeak'
  <2>1. backlog' = Append(backlog, Shm!Ring(k)) /\ backlog \in Seq(Shm!Rings)
    BY DEF Shm!ConnectSocket, ShmTypes
  <2>2. /\ \A i \in DOMAIN backlog : i \in DOMAIN backlog' /\ backlog'[i] = backlog[i]
        /\ \E i \in DOMAIN backlog' : backlog'[i] = Shm!Ring(k)
    <3>1. /\ DOMAIN backlog = 1 .. Len(backlog) /\ Len(backlog) \in Nat
          /\ DOMAIN backlog' = 1 .. Len(backlog) + 1 /\ backlog'[Len(backlog) + 1] = Shm!Ring(k)
      BY <2>1
    <3>2. Len(backlog) + 1 \in DOMAIN backlog'
      BY <3>1
    <3> QED BY <2>1, <3>1, <3>2
  <2>3. \A r \in passiveOpen' : r = cur' \/ (\E i \in DOMAIN backlog' : backlog'[i] = r)
    BY <2>2 DEF Shm!ConnectSocket, Shm!passiveVars, Shm!NoLeak
  <2>4. /\ \A c \in Conns : held'[c] # {} => pc'[c] \notin {"create", "failed"}
        /\ \A r \in activeOpen' : r = Shm!Ring(r[1])' /\ pc'[r[1]] \in {"transfer", "send", "ack"}
        /\ \A e \in adopted' : e[1] \in served' \cup torn' \cup {cur'}
    BY DEF Shm!ConnectSocket, Shm!passiveVars, Shm!TypeOK, Shm!NoLeak, Shm!Ring
  <2> QED BY <2>3, <2>4 DEF Shm!NoLeak, Shm!Ring
<1>4. FreshInv'
  BY DEF Shm!ConnectSocket, Shm!passiveVars, Shm!TypeOK, FreshInv, Fresh, Shm!Ring
<1>5. QueueInv'
  <2>1. Shm!Ring(k) \in Shm!Rings /\ Shm!Ring(k) \notin passiveOpen
    BY DEF Shm!ConnectSocket, Shm!TypeOK, FreshInv, Fresh, Shm!Ring, Shm!Rings
  <2>2. Shm!Ring(k) # cur
    <3>1. cur \in passiveOpen \/ cur = << >>
      BY DEF ServeInv, Shm!NoRing
    <3>2. Shm!Ring(k) # << >>
      BY DEF Shm!Ring
    <3> QED BY <2>1, <3>1, <3>2
  <2>3. /\ Len(backlog') = Len(backlog) + 1
        /\ \A i \in 1 .. Len(backlog) : backlog'[i] = backlog[i]
        /\ backlog'[Len(backlog) + 1] = Shm!Ring(k)
    BY <2>1 DEF Shm!ConnectSocket, ShmTypes
  <2>4. Len(backlog) \in Nat
    BY DEF ShmTypes
  <2>5. \A i \in 1 .. Len(backlog') : i \in 1 .. Len(backlog) \/ i = Len(backlog) + 1
    BY <2>3, <2>4
  <2>6. passiveOpen' = passiveOpen \cup {Shm!Ring(k)} /\ cur' = cur
    BY DEF Shm!ConnectSocket, Shm!passiveVars
  <2>7. \A i \in 1 .. Len(backlog') : backlog'[i] \in passiveOpen' /\ backlog'[i] # cur'
    BY <2>2, <2>3, <2>5, <2>6 DEF QueueInv
  <2>8. \A i, j \in 1 .. Len(backlog') : backlog'[i] = backlog'[j] => i = j
    BY <2>1, <2>3, <2>5 DEF QueueInv
  <2> QED BY <2>7, <2>8 DEF QueueInv
<1>6. ServeInv'
  BY DEF Shm!ConnectSocket, Shm!passiveVars, ServeInv
<1>7. CountInv'
  <2>1. Shm!Ring(k) \in Shm!Rings /\ toPassive[Shm!Ring(k)] = << >> /\ Shm!Ring(k) \notin passiveOpen
    BY DEF Shm!ConnectSocket, Shm!TypeOK, FreshInv, Fresh, Shm!Ring, Shm!Rings
  <2>2. Shm!Ring(k) # cur
    <3>1. cur \in passiveOpen \/ cur = << >>
      BY DEF ServeInv, Shm!NoRing
    <3>2. Shm!Ring(k) # << >>
      BY DEF Shm!Ring
    <3> QED BY <2>1, <3>1, <3>2
  <2>3. \A r \in Shm!Rings : SentOn(r)' = SentOn(r) /\ TakenFrom(r)' = TakenFrom(r)
    BY DEF Shm!ConnectSocket, Shm!passiveVars, Shm!TypeOK, SentOn, TakenFrom, Shm!Rings
  <2>4. SentOn(Shm!Ring(k)) = 0 /\ TakenFrom(Shm!Ring(k)) = 0
    BY <2>2 DEF Shm!ConnectSocket, SentOn, TakenFrom, Shm!Ring
  <2> QED BY <2>1, <2>3, <2>4 DEF Shm!ConnectSocket, CountInv, Shm!TypeOK
<1>8. DirInv'
  BY DEF Shm!ConnectSocket, Shm!passiveVars, DirInv
<1>9. ServedInv'
  BY DEF Shm!ConnectSocket, Shm!passiveVars, ServedInv, Shm!Ring
<1>10. AckInv'
  BY DEF Shm!ConnectSocket, Shm!passiveVars, AckInv, Shm!Ring
<1>11. HeldInv'
  BY DEF Shm!ConnectSocket, Shm!activeVars, Shm!passiveVars, Shm!socketVars, Shm!TypeOK, HeldInv
<1> QED BY <1>1, <1>2, <1>3, <1>4, <1>5, <1>6, <1>7, <1>8, <1>9, <1>10, <1>11

\* Connect passes the descriptors and its direction.
LEMMA SendResourcesStep ==
  ASSUME ShmInv, NEW k \in Conns, Shm!SendResources(k)
  PROVE  ShmInv'
<1> USE ConnectionsAssumption DEF ShmInv
<1>1. Shm!TypeOK'
  BY DEF Shm!SendResources, Shm!passiveVars, Shm!TypeOK
<1>2. ShmTypes'
  BY DEF Shm!SendResources, Shm!passiveVars, Shm!TypeOK, ShmTypes, Shm!Directions, Note
<1>3. Shm!NoLeak'
  BY DEF Shm!SendResources, Shm!passiveVars, Shm!NoLeak, Shm!Ring
<1>4. FreshInv'
  BY DEF Shm!SendResources, Shm!passiveVars, FreshInv, Fresh
<1>5. QueueInv'
  BY DEF Shm!SendResources, Shm!passiveVars, QueueInv
<1>6. ServeInv'
  BY DEF Shm!SendResources, Shm!passiveVars, ServeInv
<1>7. CountInv'
  <2> DEFINE m == [kind |-> "resources", dir |-> dir[k]]
  <2> PICK r0 \in Shm!Rings : r0 = Shm!Ring(k)
    BY DEF Shm!TypeOK, Shm!Ring, Shm!Rings
  <2>1. r0 \in passiveOpen /\ r0[1] = k /\ r0[2] = attempt[k]
    BY DEF Shm!SendResources, Shm!Ring
  <2>2. SentOn(r0) = 0 /\ SentOn(r0)' = 1
    BY <2>1 DEF Shm!SendResources, SentOn, Shm!TypeOK
  <2>3. toPassive[r0] \in Seq(Note) /\ m \in Note
    BY <2>1 DEF ShmTypes, Note
  <2>4. toPassive'[r0] = Append(toPassive[r0], m)
    BY <2>1 DEF Shm!SendResources, ShmTypes
  <2>5. Len(toPassive'[r0]) = Len(toPassive[r0]) + 1 /\ Len(toPassive[r0]) \in Nat
    BY <2>3, <2>4
  <2>6. \A r \in Shm!Rings : TakenFrom(r)' = TakenFrom(r) /\ TakenFrom(r) \in Nat
    BY DEF Shm!SendResources, Shm!passiveVars, TakenFrom
  <2>7. ASSUME NEW r \in Shm!Rings, r # r0
        PROVE  toPassive'[r] = toPassive[r] /\ SentOn(r)' = SentOn(r)
    <3>1. toPassive'[r] = toPassive[r]
      BY <2>7 DEF Shm!SendResources, ShmTypes
    <3>2. r[1] # k \/ r[2] # attempt[k]
      BY <2>7 DEF Shm!Ring, Shm!Rings
    <3>3. SentOn(r)' = SentOn(r)
      BY <3>2 DEF Shm!SendResources, Shm!TypeOK, SentOn, Shm!Rings
    <3> QED BY <3>1, <3>3
  <2>8. Len(toPassive[r0]) + TakenFrom(r0) = 0
    BY <2>1, <2>2 DEF CountInv
  <2>9. Len(toPassive'[r0]) + TakenFrom(r0)' = 1
    BY <2>1, <2>5, <2>6, <2>8
  <2>10. passiveOpen' = passiveOpen
    BY DEF Shm!SendResources
  <2>11. \A r \in passiveOpen' : Len(toPassive'[r]) + TakenFrom(r)' = SentOn(r)'
    BY <2>2, <2>6, <2>7, <2>9, <2>10 DEF CountInv, Shm!TypeOK
  <2> QED BY <2>11 DEF CountInv
<1>8. DirInv'
  BY DEF Shm!SendResources, Shm!passiveVars, DirInv, Shm!Ring, Shm!Rings
<1>9. ServedInv'
  BY DEF Shm!SendResources, Shm!passiveVars, ServedInv
<1>10. AckInv'
  BY DEF Shm!SendResources, Shm!passiveVars, AckInv, Shm!Ring
<1>11. HeldInv'
  BY DEF Shm!SendResources, Shm!activeVars, Shm!passiveVars, Shm!socketVars, Shm!TypeOK, HeldInv
<1> QED BY <1>1, <1>2, <1>3, <1>4, <1>5, <1>6, <1>7, <1>8, <1>9, <1>10, <1>11

\* The first Send goes over the control connection.
LEMMA SendHandshakeStep ==
  ASSUME ShmInv, NEW k \in Conns, Shm!SendHandshake(k)
  PROVE  ShmInv'
<1> USE ConnectionsAssumption DEF ShmInv
<1>1. Shm!TypeOK'
  BY DEF Shm!SendHandshake, Shm!passiveVars, Shm!TypeOK
<1>2. ShmTypes'
  BY DEF Shm!SendHandshake, Shm!passiveVars, Shm!TypeOK, ShmTypes, Shm!Directions, Note
<1>3. Shm!NoLeak'
  BY DEF Shm!SendHandshake, Shm!passiveVars, Shm!NoLeak, Shm!Ring
<1>4. FreshInv'
  BY DEF Shm!SendHandshake, Shm!passiveVars, FreshInv, Fresh
<1>5. QueueInv'
  BY DEF Shm!SendHandshake, Shm!passiveVars, QueueInv
<1>6. ServeInv'
  BY DEF Shm!SendHandshake, Shm!passiveVars, ServeInv
<1>7. CountInv'
  <2> DEFINE m == [kind |-> "handshake", dir |-> dir[k]]
  <2> PICK r0 \in Shm!Rings : r0 = Shm!Ring(k)
    BY DEF Shm!TypeOK, Shm!Ring, Shm!Rings
  <2>1. r0 \in passiveOpen /\ r0[1] = k /\ r0[2] = attempt[k]
    BY DEF Shm!SendHandshake, Shm!Ring
  <2>2. SentOn(r0) = 1 /\ SentOn(r0)' = 2
    BY <2>1 DEF Shm!SendHandshake, SentOn, Shm!TypeOK
  <2>3. toPassive[r0] \in Seq(Note) /\ m \in Note
    BY <2>1 DEF ShmTypes, Note
  <2>4. toPassive'[r0] = Append(toPassive[r0], m)
    BY <2>1 DEF Shm!SendHandshake, ShmTypes
  <2>5. Len(toPassive'[r0]) = Len(toPassive[r0]) + 1 /\ Len(toPassive[r0]) \in Nat
    BY <2>3, <2>4
  <2>6. \A r \in Shm!Rings : TakenFrom(r)' = TakenFrom(r) /\ TakenFrom(r) \in Nat
    BY DEF Shm!SendHandshake, Shm!passiveVars, TakenFrom
  <2>7. ASSUME NEW r \in Shm!Rings, r # r0
        PROVE  toPassive'[r] = toPassive[r] /\ SentOn(r)' = SentOn(r)
    <3>1. toPassive'[r] = toPassive[r]
      BY <2>7 DEF Shm!SendHandshake, ShmTypes
    <3>2. r[1] # k \/ r[2] # attempt[k]
      BY <2>7 DEF Shm!Ring, Shm!Rings
    <3>3. SentOn(r)' = SentOn(r)
      BY <3>2 DEF Shm!SendHandshake, Shm!TypeOK, SentOn, Shm!Rings
    <3> QED BY <3>1, <3>3
  <2>8. Len(toPassive[r0]) + TakenFrom(r0) = 1
    BY <2>1, <2>2 DEF CountInv
  <2>9. Len(toPassive'[r0]) + TakenFrom(r0)' = 2
    BY <2>1, <2>5, <2>6, <2>8
  <2>10. passiveOpen' = passiveOpen
    BY DEF Shm!SendHandshake
  <2>11. \A r \in passiveOpen' : Len(toPassive'[r]) + TakenFrom(r)' = SentOn(r)'
    BY <2>2, <2>6, <2>7, <2>9, <2>10 DEF CountInv, Shm!TypeOK
  <2> QED BY <2>11 DEF CountInv
<1>8. DirInv'
  BY DEF Shm!SendHandshake, Shm!passiveVars, DirInv, Shm!Ring
<1>9. ServedInv'
  BY DEF Shm!SendHandshake, Shm!passiveVars, ServedInv
<1>10. AckInv'
  BY DEF Shm!SendHandshake, Shm!passiveVars, AckInv, Shm!Ring
<1>11. HeldInv'
  BY DEF Shm!SendHandshake, Shm!activeVars, Shm!passiveVars, Shm!socketVars, Shm!TypeOK, HeldInv
<1> QED BY <1>1, <1>2, <1>3, <1>4, <1>5, <1>6, <1>7, <1>8, <1>9, <1>10, <1>11

\* Send hears that the other end has its ring.
LEMMA RecvAckStep ==
  ASSUME ShmInv, NEW k \in Conns, Shm!RecvAck(k)
  PROVE  ShmInv'
<1> USE ConnectionsAssumption DEF ShmInv
<1>1. Shm!TypeOK'
  BY DEF Shm!RecvAck, Shm!passiveVars, Shm!TypeOK
<1>2. ShmTypes'
  BY DEF Shm!RecvAck, Shm!passiveVars, Shm!TypeOK, ShmTypes, Shm!Ring, Shm!Rings
<1>3. Shm!NoLeak'
  BY DEF Shm!RecvAck, Shm!passiveVars, Shm!NoLeak, Shm!Ring
<1>4. FreshInv'
  BY DEF Shm!RecvAck, Shm!passiveVars, FreshInv, Fresh
<1>5. QueueInv'
  BY DEF Shm!RecvAck, Shm!passiveVars, QueueInv
<1>6. ServeInv'
  BY DEF Shm!RecvAck, Shm!passiveVars, ServeInv
<1>7. CountInv'
  <2>1. Shm!Ring(k) \in Shm!Rings /\ Shm!Ring(k) \notin passiveOpen
    BY DEF Shm!RecvAck, Shm!TypeOK, Shm!Ring, Shm!Rings, AckInv, ServedInv, ServeInv
  <2>2. \A r \in passiveOpen : SentOn(r)' = SentOn(r) /\ TakenFrom(r)' = TakenFrom(r)
    BY <2>1 DEF Shm!RecvAck, Shm!passiveVars, Shm!TypeOK, SentOn, TakenFrom, Shm!Rings, Shm!Ring
  <2> QED BY <2>2 DEF Shm!RecvAck, CountInv
<1>8. DirInv'
  BY DEF Shm!RecvAck, Shm!passiveVars, DirInv
<1>9. ServedInv'
  BY DEF Shm!RecvAck, Shm!passiveVars, Shm!TypeOK, ServedInv, Shm!Ring
<1>10. AckInv'
  BY DEF Shm!RecvAck, Shm!passiveVars, Shm!TypeOK, ShmTypes, AckInv, Shm!Ring, Shm!Rings
<1>11. HeldInv'
  BY DEF Shm!RecvAck, Shm!activeVars, Shm!passiveVars, Shm!socketVars, Shm!TypeOK, HeldInv
<1> QED BY <1>1, <1>2, <1>3, <1>4, <1>5, <1>6, <1>7, <1>8, <1>9, <1>10, <1>11

\* Send finds the control connection closed.
LEMMA SendFailsStep ==
  ASSUME ShmInv, NEW k \in Conns, Shm!SendFails(k)
  PROVE  ShmInv'
<1> USE ConnectionsAssumption DEF ShmInv
<1>1. Shm!TypeOK'
  BY DEF Shm!SendFails, Shm!Close, Shm!passiveVars, Shm!TypeOK
<1>2. ShmTypes'
  BY DEF Shm!SendFails, Shm!passiveVars, ShmTypes
<1>3. Shm!NoLeak'
  BY DEF Shm!SendFails, Shm!Close, Shm!passiveVars, Shm!TypeOK, Shm!NoLeak, Shm!Ring, Shm!Rings
<1>4. FreshInv'
  BY DEF Shm!SendFails, Shm!passiveVars, FreshInv, Fresh
<1>5. QueueInv'
  BY DEF Shm!SendFails, Shm!passiveVars, QueueInv
<1>6. ServeInv'
  BY DEF Shm!SendFails, Shm!passiveVars, ServeInv
<1>7. CountInv'
  <2>1. \A r \in passiveOpen : SentOn(r)' = SentOn(r) /\ TakenFrom(r)' = TakenFrom(r)
    BY DEF Shm!SendFails, Shm!Close, Shm!passiveVars, Shm!TypeOK, SentOn, TakenFrom, Shm!Rings, Shm!Ring
  <2> QED BY <2>1 DEF Shm!SendFails, CountInv
<1>8. DirInv'
  BY DEF Shm!SendFails, Shm!passiveVars, DirInv
<1>9. ServedInv'
  <2>1. Shm!Ring(k) \notin served
    BY DEF Shm!SendFails, Shm!TypeOK, Shm!Ring, Shm!Rings, ServedInv
  <2>2. \A r \in served : r[1] # k
    BY <2>1 DEF Shm!TypeOK, Shm!Ring, Shm!Rings, ServedInv
  <2> QED BY <2>2 DEF Shm!SendFails, Shm!Close, Shm!passiveVars, Shm!TypeOK, ServedInv, Shm!Rings
<1>10. AckInv'
  BY DEF Shm!SendFails, Shm!passiveVars, AckInv, Shm!Ring
<1>11. HeldInv'
  BY DEF Shm!SendFails, Shm!Close, Shm!activeVars, Shm!passiveVars, Shm!socketVars, Shm!TypeOK, HeldInv
<1> QED BY <1>1, <1>2, <1>3, <1>4, <1>5, <1>6, <1>7, <1>8, <1>9, <1>10, <1>11

\* The accepting thread takes up the oldest connection.
LEMMA TakeUpStep ==
  ASSUME ShmInv, apc \in {"wait", "failed"}, Shm!TakeUp
  PROVE  ShmInv'
<1> USE ConnectionsAssumption DEF ShmInv
<1>1. Shm!TypeOK'
  <2>1. backlog \in Seq(Shm!Rings) /\ Len(backlog) \in Nat \ {0}
    BY DEF Shm!TakeUp, ShmTypes
  <2>2. cur' = backlog[1] /\ 1 \in 1 .. Len(backlog)
    BY <2>1 DEF Shm!TakeUp
  <2>3. cur' \in Shm!Rings
    BY <2>1, <2>2
  <2> QED BY <2>3 DEF Shm!TakeUp, Shm!activeVars, Shm!TypeOK
<1>2. ShmTypes'
  BY DEF Shm!TakeUp, Shm!activeVars, ShmTypes
<1>3. Shm!NoLeak'
  <2>1. /\ backlog \in Seq(Shm!Rings) /\ Len(backlog) \in Nat \ {0} /\ DOMAIN backlog = 1 .. Len(backlog)
        /\ cur' = backlog[1] /\ backlog' = Tail(backlog)
    BY DEF Shm!TakeUp, ShmTypes
  <2>2. DOMAIN backlog' = 1 .. Len(backlog) - 1 /\ \A i \in DOMAIN backlog' : backlog'[i] = backlog[i + 1]
    BY <2>1
  <2>3. \A i \in DOMAIN backlog : i = 1 \/ (i - 1 \in DOMAIN backlog' /\ (i - 1) + 1 = i)
    BY <2>1, <2>2
  <2>4. \A i \in DOMAIN backlog : backlog[i] = cur' \/ (\E j \in DOMAIN backlog' : backlog'[j] = backlog[i])
    BY <2>1, <2>2, <2>3
  <2>5. cur = Shm!NoRing /\ Shm!NoRing \notin Shm!Rings
    BY DEF ServeInv, Shm!NoRing, Shm!Rings
  <2>6. \A r \in passiveOpen' : r = cur' \/ (\E i \in DOMAIN backlog' : backlog'[i] = r)
    BY <2>4, <2>5 DEF Shm!TakeUp, Shm!NoLeak, Shm!TypeOK
  <2>7. \A e \in adopted' : e[1] \in served' \cup torn' \cup {cur'}
    BY <2>5 DEF Shm!TakeUp, Shm!NoLeak, Shm!TypeOK
  <2> QED BY <2>6, <2>7 DEF Shm!TakeUp, Shm!activeVars, Shm!NoLeak, Shm!Ring
<1>4. FreshInv'
  BY DEF Shm!TakeUp, Shm!activeVars, FreshInv, Fresh
<1>5. QueueInv'
  <2>1. backlog \in Seq(Shm!Rings) /\ Len(backlog) \in Nat \ {0}
    BY DEF Shm!TakeUp, ShmTypes
  <2>2. cur' = backlog[1] /\ 1 \in 1 .. Len(backlog)
    BY <2>1 DEF Shm!TakeUp
  <2>3. /\ Len(backlog') = Len(backlog) - 1
        /\ \A i \in 1 .. Len(backlog') : backlog'[i] = backlog[i + 1]
    BY <2>1 DEF Shm!TakeUp
  <2>4. \A i \in 1 .. Len(backlog') : i + 1 \in 1 .. Len(backlog) /\ i + 1 # 1
    BY <2>1, <2>3
  <2>5. passiveOpen' = passiveOpen
    BY DEF Shm!TakeUp
  <2>6. \A i \in 1 .. Len(backlog') : backlog'[i] \in passiveOpen' /\ backlog'[i] # cur'
    BY <2>2, <2>3, <2>4, <2>5 DEF QueueInv
  <2>7. \A i, j \in 1 .. Len(backlog') : backlog'[i] = backlog'[j] => i = j
    BY <2>1, <2>3, <2>4 DEF QueueInv
  <2> QED BY <2>6, <2>7 DEF QueueInv
<1>6. ServeInv'
  <2>1. backlog \in Seq(Shm!Rings) /\ Len(backlog) \in Nat \ {0}
    BY DEF Shm!TakeUp, ShmTypes
  <2>2. cur' = backlog[1] /\ 1 \in 1 .. Len(backlog)
    BY <2>1 DEF Shm!TakeUp
  <2> QED BY <2>2 DEF Shm!TakeUp, Shm!activeVars, ServeInv, QueueInv
<1>7. CountInv'
  BY DEF Shm!TakeUp, Shm!activeVars, CountInv, SentOn, TakenFrom
<1>8. DirInv'
  BY DEF Shm!TakeUp, Shm!activeVars, DirInv
<1>9. ServedInv'
  BY DEF Shm!TakeUp, Shm!activeVars, ServedInv
<1>10. AckInv'
  BY DEF Shm!TakeUp, Shm!activeVars, AckInv, Shm!Ring
<1>11. HeldInv'
  BY DEF Shm!TakeUp, Shm!activeVars, Shm!passiveVars, Shm!socketVars, Shm!TypeOK, HeldInv
<1> QED BY <1>1, <1>2, <1>3, <1>4, <1>5, <1>6, <1>7, <1>8, <1>9, <1>10, <1>11

\* Accept receives the descriptors.
LEMMA RecvResourcesStep ==
  ASSUME ShmInv, Shm!RecvResources
  PROVE  ShmInv'
<1> USE ConnectionsAssumption DEF ShmInv
<1>1. Shm!TypeOK'
  <2>1. cur \in Shm!Rings
    BY DEF Shm!RecvResources, ServeInv, Shm!TypeOK
  <2>2. adir' = [adir EXCEPT ![cur] = Shm!Local(Head(toPassive[cur]).dir)]
    BY DEF Shm!RecvResources
  <2>3. adopted' = adopted \cup ({cur} \X Shm!Fds) /\ adopted' \subseteq Shm!Rings \X Shm!Fds
    BY <2>1 DEF Shm!RecvResources, Shm!TypeOK
  <2>4. Shm!Local(Head(toPassive[cur]).dir) \in Shm!Directions
    BY DEF Shm!Local, Shm!Directions
  <2>5. adir'[cur] \in Shm!Directions /\ \A r \in Shm!Rings : r # cur => adir'[r] = adir[r]
    BY <2>1, <2>2, <2>4 DEF ShmTypes
  <2>6. \A e \in adopted' : e[1] \in torn \/ adir'[e[1]] \in Shm!Directions
    BY <2>3, <2>5 DEF Shm!TypeOK
  <2> QED BY <2>1, <2>3, <2>6 DEF Shm!RecvResources, Shm!activeVars, Shm!TypeOK
<1>2. ShmTypes'
  <2>1. cur \in Shm!Rings
    BY DEF Shm!RecvResources, ServeInv, Shm!TypeOK
  <2>2. toPassive[cur] \in Seq(Note) /\ toPassive[cur] # << >>
    BY <2>1 DEF Shm!RecvResources, ShmTypes
  <2>3. Tail(toPassive[cur]) \in Seq(Note)
    BY <2>2
  <2>4. toPassive' \in [Shm!Rings -> Seq(Note)]
    BY <2>1, <2>3 DEF Shm!RecvResources, ShmTypes
  <2>5. adir' \in [Shm!Rings -> Shm!Directions \cup {"Bidirectional"}]
    BY <2>1 DEF Shm!RecvResources, ShmTypes, Shm!Local, Shm!Directions
  <2> QED BY <2>4, <2>5 DEF Shm!RecvResources, Shm!activeVars, ShmTypes
<1>3. Shm!NoLeak'
  BY DEF Shm!RecvResources, Shm!activeVars, Shm!NoLeak, Shm!Ring
<1>4. FreshInv'
  BY DEF Shm!RecvResources, Shm!activeVars, FreshInv, Fresh
<1>5. QueueInv'
  BY DEF Shm!RecvResources, QueueInv
<1>6. ServeInv'
  <2>1. cur \in Shm!Rings /\ cur \in passiveOpen
    BY DEF Shm!RecvResources, ServeInv, Shm!TypeOK
  <2>2. toPassive[cur] \in Seq(Note) /\ toPassive[cur] # << >>
    BY <2>1 DEF Shm!RecvResources, ShmTypes
  <2>3. Head(toPassive[cur]) = toPassive[cur][1] /\ 1 \in 1 .. Len(toPassive[cur])
    BY <2>2
  <2>4. adir'[cur] = Shm!Local(dir[cur[1]])
    BY <2>1, <2>3 DEF Shm!RecvResources, ShmTypes, DirInv
  <2>5. apc' = "map" /\ UNCHANGED <<cur, passiveOpen, dir>> /\ {cur} \X Shm!Fds \subseteq adopted'
    BY DEF Shm!RecvResources, Shm!activeVars
  <2> QED BY <2>1, <2>4, <2>5 DEF ServeInv, Shm!Local
<1>7. CountInv'
  BY DEF Shm!RecvResources, Shm!activeVars, Shm!TypeOK, ShmTypes, CountInv, SentOn, TakenFrom
<1>8. DirInv'
  <2>1. cur \in Shm!Rings
    BY DEF Shm!RecvResources, ServeInv, Shm!TypeOK
  <2>2. toPassive[cur] \in Seq(Note) /\ toPassive[cur] # << >>
    BY <2>1 DEF Shm!RecvResources, ShmTypes
  <2>3. toPassive'[cur] = Tail(toPassive[cur]) /\ \A r \in Shm!Rings : r # cur => toPassive'[r] = toPassive[r]
    BY <2>1 DEF Shm!RecvResources, ShmTypes
  <2>4. /\ Len(toPassive[cur]) \in Nat \ {0} /\ Len(toPassive'[cur]) = Len(toPassive[cur]) - 1
        /\ \A i \in 1 .. Len(toPassive'[cur]) : toPassive'[cur][i] = toPassive[cur][i + 1]
    BY <2>2, <2>3
  <2>5. Head(toPassive[cur]) = toPassive[cur][1] /\ 1 \in 1 .. Len(toPassive[cur])
    BY <2>2, <2>4
  <2>6. Head(toPassive[cur]).dir = dir[cur[1]]
    BY <2>1, <2>5 DEF DirInv
  <2>7. \A i \in 1 .. Len(toPassive'[cur]) : i + 1 \in 1 .. Len(toPassive[cur])
    BY <2>4
  <2>8. dir' = dir
    BY DEF Shm!RecvResources, Shm!activeVars
  <2>9. \A i \in 1 .. Len(toPassive'[cur]) : toPassive'[cur][i].dir = dir[cur[1]]
    BY <2>1, <2>4, <2>7, SMTT(30) DEF DirInv
  <2>10. \A r \in Shm!Rings : \A i \in 1 .. Len(toPassive'[r]) : toPassive'[r][i].dir = dir'[r[1]]
    BY <2>3, <2>8, <2>9 DEF DirInv
  <2>11. adir'[cur] = Shm!Local(dir[cur[1]]) /\ \A r \in Shm!Rings : r # cur => adir'[r] = adir[r]
    BY <2>1, <2>6 DEF Shm!RecvResources, ShmTypes
  <2>12. adopted' = adopted \cup ({cur} \X Shm!Fds) /\ adopted' \subseteq Shm!Rings \X Shm!Fds /\ torn' = torn
    BY <2>1 DEF Shm!RecvResources, Shm!TypeOK
  <2>13. \A e \in adopted' : e[1] \in torn' \/ adir'[e[1]] = Shm!Local(dir'[e[1][1]])
    BY <2>8, <2>11, <2>12 DEF DirInv
  <2> QED BY <2>10, <2>13 DEF DirInv, Shm!Local
<1>9. ServedInv'
  <2>1. cur \in passiveOpen /\ \A r \in served : r # cur /\ r \in Shm!Rings
    BY DEF Shm!RecvResources, ServeInv, ServedInv, Shm!TypeOK
  <2>2. \A r \in served : adir'[r] = adir[r]
    BY <2>1 DEF Shm!RecvResources, ShmTypes
  <2> QED BY <2>2 DEF Shm!RecvResources, Shm!activeVars, ServedInv, Shm!Local
<1>10. AckInv'
  BY DEF Shm!RecvResources, Shm!activeVars, AckInv, Shm!Ring
<1>11. HeldInv'
  BY DEF Shm!RecvResources, Shm!activeVars, Shm!passiveVars, Shm!socketVars, Shm!TypeOK, HeldInv
<1> QED BY <1>1, <1>2, <1>3, <1>4, <1>5, <1>6, <1>7, <1>8, <1>9, <1>10, <1>11

\* The transport of the connection that is served is closed: Accept or Recv fails.
LEMMA ReleaseStep ==
  ASSUME ShmInv, apc \in {"resources", "map", "recv"}, Shm!ReleaseCurrent
  PROVE  ShmInv'
<1> USE ConnectionsAssumption DEF ShmInv, Shm!ReleaseCurrent, Shm!Refuse
<1>1. cur \in Shm!Rings /\ cur \in passiveOpen /\ cur \notin served
  BY DEF ServeInv, Shm!TypeOK, ServedInv
<1>2. Shm!TypeOK'
  BY DEF Shm!activeVars, Shm!TypeOK
<1>3. ShmTypes'
  BY DEF Shm!activeVars, ShmTypes
<1>4. Shm!NoLeak'
  <2>1. \A e \in adopted' : e \in adopted /\ e[1] # cur
    BY DEF Shm!TypeOK
  <2>2. \A i \in DOMAIN backlog : backlog[i] # cur
    BY DEF QueueInv, ShmTypes
  <2> QED BY <2>1, <2>2 DEF Shm!activeVars, Shm!NoLeak, Shm!Ring
<1>5. FreshInv'
  BY DEF Shm!activeVars, FreshInv, Fresh
<1>6. QueueInv'
  <2>1. \A i \in 1 .. Len(backlog) : backlog[i] # Shm!NoRing
    BY DEF QueueInv, Shm!TypeOK, Shm!NoRing, Shm!Rings
  <2> QED BY <2>1 DEF QueueInv
<1>7. ServeInv'
  BY DEF ServeInv
<1>8. CountInv'
  BY DEF Shm!activeVars, CountInv, SentOn, TakenFrom
<1>9. DirInv'
  BY DEF Shm!activeVars, DirInv, Shm!Local
<1>10. ServedInv'
  <2>1. ASSUME NEW r \in served PROVE {r} \X Shm!Fds \subseteq adopted'
    BY <1>1, <2>1 DEF ServedInv
  <2> QED BY <2>1 DEF Shm!activeVars, ServedInv, Shm!Local
<1>11. AckInv'
  BY DEF Shm!activeVars, AckInv, Shm!Ring
<1>12. HeldInv'
  BY DEF Shm!activeVars, HeldInv
<1> QED BY <1>2, <1>3, <1>4, <1>5, <1>6, <1>7, <1>8, <1>9, <1>10, <1>11, <1>12

\* The descriptors come in part: what was installed stays open.
LEMMA RecvTruncatedStep ==
  ASSUME ShmInv, Shm!RecvTruncated
  PROVE  ShmInv'
<1> USE ConnectionsAssumption DEF ShmInv, Shm!RecvTruncated, Shm!Refuse
<1>1. cur \in Shm!Rings /\ cur \in passiveOpen /\ cur \notin served
  BY DEF ServeInv, Shm!TypeOK, ServedInv
<1>2. PICK installed \in SUBSET Shm!Fds : adopted' = adopted \cup ({cur} \X installed)
  BY DEF Shm!Truncated, Shm!Fds
<1>3. /\ toPassive' \in [Shm!Rings -> Seq(Note)] /\ toPassive'[cur] = Tail(toPassive[cur])
      /\ \A r \in Shm!Rings : r # cur => toPassive'[r] = toPassive[r]
      /\ toPassive[cur] \in Seq(Note) /\ toPassive[cur] # << >>
  <2>1. toPassive[cur] \in Seq(Note) /\ toPassive[cur] # << >>
    BY <1>1 DEF ShmTypes
  <2>2. Tail(toPassive[cur]) \in Seq(Note)
    BY <2>1
  <2> QED BY <1>1, <2>1, <2>2 DEF ShmTypes
<1>4. Shm!TypeOK'
  BY <1>1, <1>2 DEF Shm!activeVars, Shm!TypeOK
<1>5. ShmTypes'
  BY <1>3 DEF Shm!activeVars, ShmTypes
<1>6. Shm!NoLeak'
  BY <1>2 DEF Shm!activeVars, Shm!NoLeak, Shm!Ring
<1>7. FreshInv'
  <2>1. \A r \in Shm!Rings : Fresh(r)' => Fresh(r) /\ r # cur
    BY <1>1 DEF Shm!activeVars, FreshInv, Fresh
  <2> QED BY <1>3, <2>1 DEF FreshInv
<1>8. QueueInv'
  <2>1. \A i \in 1 .. Len(backlog) : backlog[i] # Shm!NoRing
    BY DEF QueueInv, Shm!TypeOK, Shm!NoRing, Shm!Rings
  <2> QED BY <2>1 DEF QueueInv
<1>9. ServeInv'
  BY DEF ServeInv
<1>10. CountInv'
  <2>1. \A r \in passiveOpen' : r \in passiveOpen /\ r # cur /\ r \in Shm!Rings
    BY DEF Shm!TypeOK
  <2>2. \A r \in passiveOpen' : SentOn(r)' = SentOn(r) /\ TakenFrom(r)' = 0 /\ TakenFrom(r) = 0
    BY <2>1 DEF Shm!activeVars, SentOn, TakenFrom
  <2> QED BY <1>3, <2>1, <2>2 DEF CountInv
<1>11. DirInv'
  <2>1. ASSUME NEW r \in Shm!Rings, NEW i \in 1 .. Len(toPassive'[r])
        PROVE  toPassive'[r][i].dir = dir[r[1]]
    <3>1. CASE r # cur
      BY <1>3, <2>1, <3>1 DEF DirInv
    <3>2. CASE r = cur
      <4>1. i \in 1 .. Len(Tail(toPassive[cur]))
        BY <1>3, <2>1, <3>2
      <4>2. Tail(toPassive[cur])[i] = toPassive[cur][i + 1] /\ i + 1 \in 1 .. Len(toPassive[cur])
        BY <1>3, <4>1
      <4>3. toPassive[cur][i + 1].dir = dir[cur[1]]
        BY <1>1, <4>2 DEF DirInv
      <4> QED BY <1>3, <3>2, <4>2, <4>3
    <3> QED BY <3>1, <3>2
  <2> QED BY <1>2, <2>1 DEF Shm!activeVars, DirInv, Shm!Local
<1>12. ServedInv'
  BY <1>2 DEF Shm!activeVars, ServedInv, Shm!Local
<1>13. AckInv'
  BY DEF Shm!activeVars, AckInv, Shm!Ring
<1>14. HeldInv'
  BY DEF Shm!activeVars, HeldInv
<1> QED BY <1>4, <1>5, <1>6, <1>7, <1>8, <1>9, <1>10, <1>11, <1>12, <1>13, <1>14

\* The accepting thread goes on with its connection, or stops between two.
LEMMA ShmGoStep ==
  ASSUME ShmInv, <<apc, apc'>> \in {<<"map", "recv">>, <<"wait", "failed">>},
         UNCHANGED <<Shm!activeVars, Shm!socketVars, cur, adopted, adir, served, torn>>
  PROVE  ShmInv'
<1> USE DEF Shm!activeVars, Shm!socketVars, ShmInv
<1>1. Shm!TypeOK' /\ ShmTypes'
  BY DEF Shm!TypeOK, ShmTypes
<1>2. Shm!NoLeak' /\ FreshInv' /\ QueueInv' /\ HeldInv'
  BY DEF Shm!NoLeak, Shm!Ring, FreshInv, Fresh, QueueInv, HeldInv
<1>3. ServeInv'
  BY DEF ServeInv, Shm!Local
<1>4. CountInv'
  BY DEF CountInv, SentOn, TakenFrom, ServeInv, Shm!NoRing
<1>5. DirInv' /\ ServedInv' /\ AckInv'
  BY DEF DirInv, ServedInv, AckInv, Shm!Ring, Shm!Local
<1> QED BY <1>1, <1>2, <1>3, <1>4, <1>5

\* The first Recv comes over the control connection.
LEMMA RecvHandshakeStep ==
  ASSUME ShmInv, Shm!RecvHandshake
  PROVE  ShmInv'
<1> USE ConnectionsAssumption DEF ShmInv
<1>1. Shm!TypeOK'
  BY DEF Shm!RecvHandshake, Shm!activeVars, Shm!TypeOK
<1>2. ShmTypes'
  <2>1. cur \in Shm!Rings
    BY DEF Shm!RecvHandshake, ServeInv, Shm!TypeOK
  <2>2. toPassive[cur] \in Seq(Note) /\ toPassive[cur] # << >>
    BY <2>1 DEF Shm!RecvHandshake, ShmTypes
  <2>3. Tail(toPassive[cur]) \in Seq(Note)
    BY <2>2
  <2>4. toPassive' \in [Shm!Rings -> Seq(Note)]
    BY <2>1, <2>3 DEF Shm!RecvHandshake, ShmTypes
  <2> QED BY <2>4 DEF Shm!RecvHandshake, Shm!activeVars, ShmTypes
<1>3. Shm!NoLeak'
  BY DEF Shm!RecvHandshake, Shm!activeVars, Shm!NoLeak, Shm!Ring
<1>4. FreshInv'
  BY DEF Shm!RecvHandshake, Shm!activeVars, FreshInv, Fresh
<1>5. QueueInv'
  BY DEF Shm!RecvHandshake, QueueInv
<1>6. ServeInv'
  BY DEF Shm!RecvHandshake, Shm!activeVars, ServeInv, Shm!Local
<1>7. CountInv'
  <2> PICK r0 \in Shm!Rings : r0 = cur
    BY DEF Shm!RecvHandshake, ServeInv, Shm!TypeOK
  <2>2. toPassive[r0] \in Seq(Note) /\ toPassive[r0] # << >>
    BY DEF Shm!RecvHandshake, ShmTypes
  <2>3. toPassive'[r0] = Tail(toPassive[r0]) /\ \A r \in Shm!Rings : r # r0 => toPassive'[r] = toPassive[r]
    BY DEF Shm!RecvHandshake, ShmTypes
  <2>4. Len(toPassive[r0]) \in Nat \ {0} /\ Len(toPassive'[r0]) = Len(toPassive[r0]) - 1
    BY <2>2, <2>3
  <2>5. r0 \in passiveOpen /\ passiveOpen' = passiveOpen /\ cur' = r0
    BY DEF Shm!RecvHandshake, ServeInv
  <2>6. TakenFrom(r0) = 1 /\ TakenFrom(r0)' = 2
    BY <2>5 DEF Shm!RecvHandshake, TakenFrom
  <2>7. \A r \in Shm!Rings : SentOn(r)' = SentOn(r) /\ (r # r0 => TakenFrom(r)' = TakenFrom(r))
    BY <2>5 DEF Shm!RecvHandshake, Shm!activeVars, SentOn, TakenFrom
  <2>8. Len(toPassive[r0]) + 1 = SentOn(r0)
    BY <2>5, <2>6 DEF CountInv
  <2>9. Len(toPassive'[r0]) + TakenFrom(r0)' = SentOn(r0)'
    BY <2>4, <2>6, <2>7, <2>8
  <2>10. \A r \in passiveOpen' : Len(toPassive'[r]) + TakenFrom(r)' = SentOn(r)'
    BY <2>3, <2>5, <2>7, <2>9 DEF CountInv, Shm!TypeOK
  <2> QED BY <2>10 DEF CountInv
<1>8. DirInv'
  BY DEF Shm!RecvHandshake, Shm!activeVars, DirInv
<1>9. ServedInv'
  BY DEF Shm!RecvHandshake, Shm!activeVars, ServedInv
<1>10. AckInv'
  BY DEF Shm!RecvHandshake, Shm!activeVars, AckInv, Shm!Ring
<1>11. HeldInv'
  BY DEF Shm!RecvHandshake, Shm!activeVars, Shm!passiveVars, Shm!socketVars, Shm!TypeOK, HeldInv
<1> QED BY <1>1, <1>2, <1>3, <1>4, <1>5, <1>6, <1>7, <1>8, <1>9, <1>10, <1>11

\* Recv answers, closes the control connection, and the transport is filed.
LEMMA AckStep ==
  ASSUME ShmInv, Shm!Ack
  PROVE  ShmInv'
<1> USE ConnectionsAssumption DEF ShmInv
<1>1. Shm!TypeOK'
  <2>1. cur \in Shm!Rings /\ served' = served \cup {cur} /\ UNCHANGED <<adopted, torn, adir>>
    BY DEF Shm!Ack, ServeInv, Shm!TypeOK
  <2> QED BY <2>1 DEF Shm!Ack, Shm!activeVars, Shm!TypeOK
<1>2. ShmTypes'
  <2>1. cur \in Shm!Rings
    BY DEF Shm!Ack, ServeInv, Shm!TypeOK
  <2>2. adir[cur] \in Shm!Directions
    BY DEF Shm!Ack, ServeInv, Shm!Local, Shm!Directions
  <2>3. [kind |-> "ack", dir |-> adir[cur]] \in Note
    BY <2>2 DEF Note
  <2>4. Append(toActive[cur], [kind |-> "ack", dir |-> adir[cur]]) \in Seq(Note)
    BY <2>1, <2>3 DEF ShmTypes
  <2>5. toActive' \in [Shm!Rings -> Seq(Note)]
    BY <2>1, <2>4 DEF Shm!Ack, ShmTypes
  <2> QED BY <2>5 DEF Shm!Ack, Shm!activeVars, ShmTypes
<1>3. Shm!NoLeak'
  BY DEF Shm!Ack, Shm!activeVars, Shm!NoLeak, Shm!Ring
<1>4. FreshInv'
  BY DEF Shm!Ack, Shm!activeVars, FreshInv, Fresh
<1>5. QueueInv'
  <2>1. \A i \in 1 .. Len(backlog) : backlog[i] # Shm!NoRing
    BY DEF QueueInv, Shm!TypeOK, Shm!NoRing, Shm!Rings
  <2> QED BY <2>1 DEF Shm!Ack, QueueInv
<1>6. ServeInv'
  BY DEF Shm!Ack, ServeInv
<1>7. CountInv'
  BY DEF Shm!Ack, Shm!activeVars, CountInv, SentOn, TakenFrom
<1>8. DirInv'
  BY DEF Shm!Ack, Shm!activeVars, DirInv
<1>9. ServedInv'
  <2>1. cur \in Shm!Rings
    BY DEF Shm!Ack, ServeInv, Shm!TypeOK
  <2>2. cur \in passiveOpen /\ TakenFrom(cur) = 2
    BY DEF Shm!Ack, ServeInv, TakenFrom
  <2>3. Len(toPassive[cur]) \in Nat
    BY <2>1 DEF ShmTypes
  <2>4. Len(toPassive[cur]) + 2 = SentOn(cur)
    BY <2>2 DEF CountInv
  <2>5. cur[2] = attempt[cur[1]] /\ pc[cur[1]] = "ack"
    BY <2>3, <2>4 DEF SentOn
  <2>6. toActive'[cur] = Append(toActive[cur], [kind |-> "ack", dir |-> adir[cur]])
    BY <2>1 DEF Shm!Ack, ShmTypes
  <2>7. toActive[cur] \in Seq(Note)
    BY <2>1 DEF ShmTypes
  <2>8. toActive'[cur] # << >>
    BY <2>6, <2>7
  <2>9. \A r \in Shm!Rings : r # cur => toActive'[r] = toActive[r]
    BY <2>1 DEF Shm!Ack, ShmTypes
  <2>10. adir[cur] = Shm!Local(dir[cur[1]]) /\ {cur} \X Shm!Fds \subseteq adopted
    BY DEF Shm!Ack, ServeInv
  <2>11. ASSUME NEW r \in served', r # cur
         PROVE  /\ r \notin passiveOpen' /\ r[2] = attempt'[r[1]] /\ pc'[r[1]] \in {"ack", "returned"}
                /\ pc'[r[1]] = "ack" => toActive'[r] # << >>
                /\ {r} \X Shm!Fds \subseteq adopted' /\ adir'[r] = Shm!Local(dir[r[1]])
    BY <2>9, <2>11 DEF Shm!Ack, Shm!activeVars, ServedInv, Shm!TypeOK
  <2>12. UNCHANGED <<adir, adopted, dir, attempt, pc>> /\ cur \notin passiveOpen'
    BY DEF Shm!Ack, Shm!activeVars
  <2> QED BY <2>5, <2>8, <2>10, <2>11, <2>12 DEF ServedInv, Shm!Local
<1>10. AckInv'
  BY DEF Shm!Ack, Shm!activeVars, AckInv, Shm!Ring
<1>11. HeldInv'
  BY DEF Shm!Ack, Shm!activeVars, Shm!passiveVars, Shm!socketVars, Shm!TypeOK, HeldInv
<1> QED BY <1>1, <1>2, <1>3, <1>4, <1>5, <1>6, <1>7, <1>8, <1>9, <1>10, <1>11

\* The listener is closed.
LEMMA ShmCloseStep ==
  ASSUME ShmInv, Shm!CloseListener
  PROVE  ShmInv'
<1> USE ConnectionsAssumption DEF ShmInv
<1>1. /\ UNCHANGED <<p2p, pc, attempt, dir, held, toPassive, toActive, activeOpen, apc, cur, adopted, adir, served, torn>>
      /\ listening' = FALSE /\ backlog' = << >> /\ passiveOpen' \subseteq passiveOpen
      /\ \A i \in DOMAIN backlog : backlog[i] \notin passiveOpen'
      /\ apc \in {"done", "failed"}
  BY DEF Shm!CloseListener, Shm!activeVars, Shm!passiveVars
<1>2. Shm!TypeOK'
  BY <1>1 DEF Shm!TypeOK
<1>3. ShmTypes'
  <2>1. << >> \in Seq(Shm!Rings)
    OBVIOUS
  <2> QED BY <1>1, <2>1 DEF ShmTypes
<1>4. Shm!NoLeak'
  BY <1>1 DEF Shm!NoLeak, Shm!Ring
<1>5. FreshInv'
  BY <1>1 DEF FreshInv, Fresh
<1>6. QueueInv'
  BY <1>1 DEF QueueInv
<1>7. ServeInv'
  BY <1>1 DEF ServeInv
<1>8. CountInv'
  BY <1>1 DEF CountInv, SentOn, TakenFrom
<1>9. DirInv' /\ ServedInv' /\ AckInv' /\ HeldInv'
  BY <1>1 DEF DirInv, ServedInv, AckInv, HeldInv, Shm!Ring, Shm!Local
<1> QED BY <1>2, <1>3, <1>4, <1>5, <1>6, <1>7, <1>8, <1>9

-----------------------------------------------------------------------------
(* The invariant of the RDMA connections *)

Chans == Rdma!Ends \X Rdma!Layers
Wires == [from : Rdma!Ends \cup {<< >>}, port : Rdma!Ends \cup {Rdma!NoPort}]
Names == {"ADDR_RESOLVED", "ADDR_ERROR", "ROUTE_RESOLVED", "ROUTE_ERROR", "UNREACHABLE", "REJECTED",
          "ESTABLISHED", "CONNECT_REQUEST"}
Events == [name : Names, wire : Wires]
Request == [conn : Conns, wire : Wires]

\* Where Connect and Accept can be.
Places == {"start", "addr", "addrKnown", "route", "setup", "connect", "established", "finalize",
           "zcStart", "zcAddr", "zcAddrKnown", "zcRoute", "zcQueuePair", "zcConnect", "zcEstablished",
           "accept", "reply", "zcAccept", "returned", "failed"}

\* The types of the variables.
RdmaTypes ==
  /\ zc \in BOOLEAN /\ listening \in BOOLEAN /\ stopped \in BOOLEAN
  /\ pc \in [Rdma!Ends -> Places]
  /\ requests \in Seq(Request)
  /\ events \in [Chans -> Seq(Events)]
  /\ connected \in [Rdma!Ends -> BOOLEAN] /\ posted \in [Rdma!Ends -> BOOLEAN]
  /\ port \in [Rdma!Ends -> Rdma!Ends \cup {Rdma!NoPort}]
  /\ peer \in [Rdma!Ends -> Wires]
  /\ live \subseteq Rdma!Ends /\ zcQp \subseteq Rdma!Ends

\* The events of a connection: at either end, of either layer.
ActBase(c) == events[<<Rdma!Act(c), "base">>]
ActZc(c) == events[<<Rdma!Act(c), "zc">>]
PasBase(c) == events[<<Rdma!Pas(c), "base">>]
PasZc(c) == events[<<Rdma!Pas(c), "zc">>]

\* A request of connection c waits at the listener.
Requested(c) == \E i \in 1 .. Len(requests) : requests[i].conn = c

\* A connection asks once, and says whose memory it brings.
RequestInv ==
  /\ \A i, j \in 1 .. Len(requests) : requests[i].conn = requests[j].conn => i = j
  /\ \A i \in 1 .. Len(requests) : requests[i].wire.from = Rdma!Act(requests[i].conn)

\* No ESTABLISHED is among the events q; q holds one event at most.
NotHeard(q) == \A i \in 1 .. Len(q) : q[i].name # "ESTABLISHED"
AtMostOne(q) == q = << >> \/ q = <<Head(q)>>

\* Before rdma_connect; between the first ESTABLISHED and the second connect.
Early == {"start", "addr", "addrKnown", "route", "setup", "connect"}
Onward == {"finalize", "zcStart", "zcAddr", "zcAddrKnown", "zcRoute", "zcQueuePair", "zcConnect"}

\* The connector knows the acceptor's memory and port.
Knows(c) == peer[Rdma!Act(c)] = [from |-> Rdma!Pas(c), port |-> port[Rdma!Pas(c)]]

\* The acceptor has both pools ready, the connector's memory and, for zero
\* copy, its second listener.
Replied(c) ==
  /\ ~Requested(c)
  /\ peer[Rdma!Pas(c)].from = Rdma!Act(c)
  /\ posted[Rdma!Act(c)] /\ posted[Rdma!Pas(c)] /\ (zc => port[Rdma!Pas(c)] = Rdma!Pas(c))

\* Where both ends of a connection are, by where the acceptor is: it has not
\* taken up the connection,
AcceptStage(c) ==
  pc[Rdma!Pas(c)] = "accept" =>
    /\ pc[Rdma!Act(c)] \in Early \cup {"established", "failed"}
    /\ NotHeard(ActBase(c)) /\ ActZc(c) = << >> /\ PasBase(c) = << >> /\ PasZc(c) = << >>
    /\ pc[Rdma!Act(c)] \in {"connect", "established"} => posted[Rdma!Act(c)]
    /\ pc[Rdma!Act(c)] \in Early => ~connected[Rdma!Act(c)]
    /\ Requested(c) => pc[Rdma!Act(c)] = "established" /\ ActBase(c) = << >>
    /\ pc[Rdma!Act(c)] \in {"start", "addrKnown", "setup", "connect"} => ActBase(c) = << >>
    /\ pc[Rdma!Act(c)] \in {"addr", "route"} => AtMostOne(ActBase(c))

\* it has not replied,
SetupStage(c) ==
  pc[Rdma!Pas(c)] \in {"setup", "reply"} =>
    /\ pc[Rdma!Act(c)] = "established" /\ ~Requested(c)
    /\ ActBase(c) = << >> /\ ActZc(c) = << >> /\ PasBase(c) = << >> /\ PasZc(c) = << >>
    /\ peer[Rdma!Pas(c)].from = Rdma!Act(c) /\ connected[Rdma!Pas(c)] /\ posted[Rdma!Act(c)]
    /\ pc[Rdma!Pas(c)] = "reply" => posted[Rdma!Pas(c)] /\ (zc => port[Rdma!Pas(c)] = Rdma!Pas(c))

\* it has replied,
ReplyStage(c) ==
  pc[Rdma!Pas(c)] \in {"established", "zcAccept"} \/ (pc[Rdma!Pas(c)] = "returned" /\ ~zc) =>
    /\ Replied(c)
    /\ pc[Rdma!Pas(c)] = "established" => PasBase(c) = <<Rdma!Plain("ESTABLISHED")>>
    /\ pc[Rdma!Pas(c)] = "zcAccept" => zc
    /\ \/ /\ pc[Rdma!Act(c)] = "established"
          /\ ActBase(c) = <<Rdma!Event("ESTABLISHED", [from |-> Rdma!Pas(c), port |-> port[Rdma!Pas(c)]])>>
          /\ PasZc(c) = << >> /\ ActZc(c) = << >>
       \/ /\ pc[Rdma!Act(c)] \in Onward /\ Knows(c) /\ PasZc(c) = << >>
          /\ pc[Rdma!Act(c)] # "finalize" => zc
          /\ pc[Rdma!Act(c)] \in {"zcAddr", "zcRoute"} => AtMostOne(ActZc(c))
          /\ pc[Rdma!Act(c)] \notin {"zcAddr", "zcRoute"} => ActZc(c) = << >>
          /\ pc[Rdma!Act(c)] = "zcConnect" => Rdma!Act(c) \in zcQp
       \/ /\ pc[Rdma!Act(c)] = "failed" /\ zc /\ PasZc(c) = << >>
       \/ /\ pc[Rdma!Act(c)] = "zcEstablished" /\ zc /\ Knows(c) /\ Rdma!Act(c) \in zcQp
          /\ PasZc(c) = <<Rdma!Plain("CONNECT_REQUEST")>> /\ ActZc(c) = << >>
       \/ /\ pc[Rdma!Act(c)] = "returned" /\ ~zc /\ Knows(c)

\* it has accepted the second connection,
ZcStage(c) ==
  pc[Rdma!Pas(c)] = "zcEstablished" \/ (pc[Rdma!Pas(c)] = "returned" /\ zc) =>
    /\ Replied(c) /\ zc /\ Knows(c) /\ Rdma!Act(c) \in zcQp /\ Rdma!Pas(c) \in zcQp
    /\ pc[Rdma!Pas(c)] = "zcEstablished" => PasZc(c) = <<Rdma!Plain("ESTABLISHED")>>
    /\ \/ pc[Rdma!Act(c)] = "zcEstablished" /\ ActZc(c) = <<Rdma!Plain("ESTABLISHED")>>
       \/ pc[Rdma!Act(c)] = "returned"

\* or it has failed.
FailedStage(c) ==
  pc[Rdma!Pas(c)] = "failed" =>
    /\ ~Requested(c)
    /\ \/ pc[Rdma!Act(c)] = "established" /\ NotHeard(ActBase(c))
       \/ pc[Rdma!Act(c)] = "zcEstablished" /\ NotHeard(ActZc(c))
       \/ pc[Rdma!Act(c)] = "failed"

\* The two calls are somewhere in the code, and only the acceptor opens a
\* second listener.
PlaceInv(c) ==
  /\ pc[Rdma!Act(c)] \in Early \cup Onward \cup {"established", "zcEstablished", "returned", "failed"}
  /\ pc[Rdma!Pas(c)] \in {"accept", "setup", "reply", "established", "zcAccept", "zcEstablished",
                          "returned", "failed"}
  /\ port[Rdma!Pas(c)] \in {Rdma!NoPort, Rdma!Pas(c)} /\ port[Rdma!Act(c)] = Rdma!NoPort

\* The stage of connection c.
Stage(c) ==
  PlaceInv(c) /\ AcceptStage(c) /\ SetupStage(c) /\ ReplyStage(c) /\ ZcStage(c) /\ FailedStage(c)

\* The invariant of the RDMA connections.
RdmaInv == RdmaTypes /\ RequestInv /\ Rdma!PoolReady /\ \A c \in Conns : Stage(c)

-----------------------------------------------------------------------------
(* Every step of the connections keeps it *)

\* What an action of RdmaConnect leaves alone is read variable by variable.
USE DEF Rdma!fixed, Rdma!caller

\* All that the stage of connection c depends on stays as it is.
Same(c) ==
  /\ zc' = zc /\ pc'[Rdma!Act(c)] = pc[Rdma!Act(c)] /\ pc'[Rdma!Pas(c)] = pc[Rdma!Pas(c)]
  /\ ActBase(c)' = ActBase(c) /\ ActZc(c)' = ActZc(c) /\ PasBase(c)' = PasBase(c) /\ PasZc(c)' = PasZc(c)
  /\ Requested(c)' <=> Requested(c)
  /\ peer'[Rdma!Act(c)] = peer[Rdma!Act(c)] /\ peer'[Rdma!Pas(c)] = peer[Rdma!Pas(c)]
  /\ posted'[Rdma!Act(c)] = posted[Rdma!Act(c)] /\ posted'[Rdma!Pas(c)] = posted[Rdma!Pas(c)]
  /\ port'[Rdma!Act(c)] = port[Rdma!Act(c)] /\ port'[Rdma!Pas(c)] = port[Rdma!Pas(c)]
  /\ connected'[Rdma!Act(c)] = connected[Rdma!Act(c)] /\ connected'[Rdma!Pas(c)] = connected[Rdma!Pas(c)]
  /\ Rdma!Act(c) \in zcQp' <=> Rdma!Act(c) \in zcQp
  /\ Rdma!Pas(c) \in zcQp' <=> Rdma!Pas(c) \in zcQp

\* A connection of which nothing changes keeps its stage.
LEMMA StageFrame ==
  ASSUME NEW c \in Conns, Stage(c), Same(c)
  PROVE  Stage(c)'
<1> USE DEF Same, Replied, Knows
<1>1. PlaceInv(c)'
  BY DEF Stage, PlaceInv
<1>2. AcceptStage(c)'
  BY DEF Stage, AcceptStage
<1>3. SetupStage(c)'
  BY DEF Stage, SetupStage
<1>4. ReplyStage(c)'
  BY DEF Stage, ReplyStage
<1>5. ZcStage(c)'
  BY DEF Stage, ZcStage
<1>6. FailedStage(c)'
  BY DEF Stage, FailedStage
<1> QED BY <1>1, <1>2, <1>3, <1>4, <1>5, <1>6 DEF Stage

\* The ends of connections are distinct.
LEMMA EndFacts ==
  ASSUME NEW c \in Conns
  PROVE  /\ Rdma!Act(c) \in Rdma!Ends /\ Rdma!Pas(c) \in Rdma!Ends /\ Rdma!Act(c) # Rdma!Pas(c)
         /\ \A l \in {"base", "zc"} : <<Rdma!Act(c), l>> \in Chans /\ <<Rdma!Pas(c), l>> \in Chans
         /\ \A d \in Conns : d # c => /\ Rdma!Act(d) # Rdma!Act(c) /\ Rdma!Act(d) # Rdma!Pas(c)
                                      /\ Rdma!Pas(d) # Rdma!Act(c) /\ Rdma!Pas(d) # Rdma!Pas(c)
  BY DEF Rdma!Act, Rdma!Pas, Rdma!Ends, Rdma!Layers, Chans

\* NotHeard of an empty queue, of a tail, and of a queue that got another event.
LEMMA HeardFacts ==
  ASSUME NEW q \in Seq(Events)
  PROVE  /\ NotHeard(<< >>)
         /\ NotHeard(q) => NotHeard(Tail(q)) \/ q = << >>
         /\ NotHeard(q) /\ q # << >> => Head(q).name # "ESTABLISHED"
         /\ \A x \in Events : NotHeard(q) /\ x.name # "ESTABLISHED" => NotHeard(Append(q, x))
<1>1. NotHeard(<< >>)
  BY DEF NotHeard
<1>2. ASSUME NotHeard(q), q # << >> PROVE NotHeard(Tail(q)) /\ Head(q).name # "ESTABLISHED"
  <2>1. Len(q) \in Nat \ {0} /\ Len(Tail(q)) = Len(q) - 1 /\ Head(q) = q[1]
    BY <1>2
  <2>2. \A i \in 1 .. Len(Tail(q)) : Tail(q)[i] = q[i + 1] /\ i + 1 \in 1 .. Len(q)
    BY <1>2, <2>1
  <2> QED BY <1>2, <2>1, <2>2 DEF NotHeard
<1>3. ASSUME NEW x \in Events, NotHeard(q), x.name # "ESTABLISHED" PROVE NotHeard(Append(q, x))
  <2>1. /\ Len(Append(q, x)) = Len(q) + 1 /\ Len(q) \in Nat
        /\ \A i \in 1 .. Len(q) : Append(q, x)[i] = q[i]
        /\ Append(q, x)[Len(q) + 1] = x
    OBVIOUS
  <2>2. \A i \in 1 .. Len(Append(q, x)) : i \in 1 .. Len(q) \/ i = Len(q) + 1
    BY <2>1
  <2> QED BY <1>3, <2>1, <2>2 DEF NotHeard
<1> QED BY <1>1, <1>2, <1>3

\* Queues of one event.
LEMMA OneFacts ==
  /\ \A x : /\ Append(<< >>, x) = <<x>> /\ Tail(<<x>>) = << >> /\ Head(<<x>>) = x /\ <<x>> # << >>
            /\ AtMostOne(<<x>>)
  /\ AtMostOne(<< >>)
  /\ \A q \in Seq(Events) : AtMostOne(q) /\ q # << >> => Tail(q) = << >>
<1>1. \A x : Append(<< >>, x) = <<x>> /\ Tail(<<x>>) = << >> /\ Head(<<x>>) = x /\ <<x>> # << >>
  OBVIOUS
<1> QED BY <1>1 DEF AtMostOne

\* Push changes the queue of one channel.
LEMMA PushFacts ==
  ASSUME NEW evs \in [Chans -> Seq(Events)], NEW e \in Rdma!Ends, NEW l \in {"base", "zc"}, NEW ev \in Events
  PROVE  /\ Rdma!Push(evs, e, l, ev) \in [Chans -> Seq(Events)]
         /\ Rdma!Push(evs, e, l, ev)[<<e, l>>] = Append(evs[<<e, l>>], ev)
         /\ \A ch \in Chans : ch # <<e, l>> => Rdma!Push(evs, e, l, ev)[ch] = evs[ch]
<1>1. <<e, l>> \in Chans
  BY DEF Chans, Rdma!Layers
<1>2. Append(evs[<<e, l>>], ev) \in Seq(Events)
  BY <1>1
<1> QED BY <1>1, <1>2 DEF Rdma!Push

\* Events without private data.
LEMMA PlainFacts ==
  /\ \A name \in Names : Rdma!Plain(name) \in Events /\ Rdma!Plain(name).name = name
  /\ Rdma!NoWire \in Wires
BY DEF Rdma!Plain, Rdma!Event, Rdma!NoWire, Rdma!NoPort, Events, Wires

\* AwaitEvent takes the first event of one channel and moves one end, on, to
\* failed, or not at all.
LEMMA AwaitFacts ==
  ASSUME RdmaTypes, NEW e \in Rdma!Ends, NEW l \in {"base", "zc"}, NEW name \in Names \ {"REJECTED"},
         NEW next \in Places, Rdma!AwaitEvent(e, l, name, next)
  PROVE  /\ events' \in [Chans -> Seq(Events)] /\ pc' \in [Rdma!Ends -> Places]
         /\ events[<<e, l>>] # << >> /\ events[<<e, l>>] \in Seq(Events)
         /\ events'[<<e, l>>] = Tail(events[<<e, l>>])
         /\ \A ch \in Chans : ch # <<e, l>> => events'[ch] = events[ch]
         /\ \A f \in Rdma!Ends : f # e => pc'[f] = pc[f]
         /\ Head(events[<<e, l>>]).name = name => pc'[e] = next
         /\ Head(events[<<e, l>>]).name # name => pc'[e] \in {pc[e], "failed"}
<1>1. <<e, l>> \in Chans
  BY DEF Chans, Rdma!Layers
<1>2. events[<<e, l>>] \in Seq(Events) /\ events[<<e, l>>] # << >>
  BY <1>1 DEF RdmaTypes, Rdma!AwaitEvent
<1>3. Tail(events[<<e, l>>]) \in Seq(Events)
  BY <1>2
<1>4. events' = [events EXCEPT ![<<e, l>>] = Tail(events[<<e, l>>])]
  BY DEF Rdma!AwaitEvent
<1>5. PICK val : /\ pc' = [pc EXCEPT ![e] = val]
                 /\ Head(events[<<e, l>>]).name = name => val = next
                 /\ Head(events[<<e, l>>]).name # name => val \in {pc[e], "failed"}
  <2> DEFINE h == Head(events[<<e, l>>]).name
             v == CASE h = name -> next [] Rdma!Fatal(h) -> "failed" [] OTHER -> pc[e]
  <2>1. pc' = [pc EXCEPT ![e] = v]
    BY DEF Rdma!AwaitEvent
  <2>2. (h = name => v = next) /\ (h # name => v \in {pc[e], "failed"})
    BY DEF Rdma!Fatal
  <2> HIDE DEF v
  <2> QED BY <2>1, <2>2
<1>6. val \in Places
  <2>1. pc[e] \in Places
    BY DEF RdmaTypes
  <2>2. val = next \/ val = pc[e] \/ val = "failed"
    BY <1>5
  <2> QED BY <2>1, <2>2 DEF Places
<1>7. events' \in [Chans -> Seq(Events)]
  BY <1>1, <1>3, <1>4 DEF RdmaTypes
<1>8. pc' \in [Rdma!Ends -> Places] /\ pc'[e] = val /\ \A f \in Rdma!Ends : f # e => pc'[f] = pc[f]
  BY <1>5, <1>6 DEF RdmaTypes
<1>9. events'[<<e, l>>] = Tail(events[<<e, l>>]) /\ \A ch \in Chans : ch # <<e, l>> => events'[ch] = events[ch]
  BY <1>1, <1>4 DEF RdmaTypes
<1> QED BY <1>2, <1>5, <1>7, <1>8, <1>9

\* The step is one of connection c: nothing of another one changes.
OnlyAt(c) ==
  /\ zc' = zc
  /\ \A f \in Rdma!Ends : f # Rdma!Act(c) /\ f # Rdma!Pas(c) =>
       /\ pc'[f] = pc[f] /\ peer'[f] = peer[f] /\ posted'[f] = posted[f] /\ port'[f] = port[f]
       /\ connected'[f] = connected[f] /\ (f \in zcQp' <=> f \in zcQp)
  /\ \A f \in Rdma!Ends : f # Rdma!Act(c) /\ f # Rdma!Pas(c) =>
       /\ events'[<<f, "base">>] = events[<<f, "base">>] /\ events'[<<f, "zc">>] = events[<<f, "zc">>]
  /\ \A d \in Conns : d # c => (Requested(d)' <=> Requested(d))

\* A step of one connection leaves the stages of the others.
LEMMA OtherStages ==
  ASSUME NEW c \in Conns, \A d \in Conns : Stage(d), OnlyAt(c), Stage(c)'
  PROVE  \A d \in Conns : Stage(d)'
<1> SUFFICES ASSUME NEW d \in Conns, d # c PROVE Stage(d)'
  OBVIOUS
<1>1. /\ Rdma!Act(d) \in Rdma!Ends /\ Rdma!Act(d) # Rdma!Act(c) /\ Rdma!Act(d) # Rdma!Pas(c)
      /\ Rdma!Pas(d) \in Rdma!Ends /\ Rdma!Pas(d) # Rdma!Act(c) /\ Rdma!Pas(d) # Rdma!Pas(c)
  BY EndFacts
<1>2. Same(d)
  BY <1>1 DEF OnlyAt, Same, ActBase, ActZc, PasBase, PasZc
<1> QED BY <1>2, StageFrame

\* Where the acceptor is when the connector has not asked yet.
LEMMA EarlyAt ==
  ASSUME NEW c \in Conns, Stage(c), pc[Rdma!Act(c)] \in Early
  PROVE  pc[Rdma!Pas(c)] = "accept"
<1>1. pc[Rdma!Act(c)] \notin Onward \cup {"established", "zcEstablished", "returned", "failed"}
  BY DEF Early, Onward
<1> QED BY <1>1 DEF Stage, PlaceInv, SetupStage, ReplyStage, ZcStage, FailedStage

\* The same past the first ESTABLISHED.
LEMMA OnwardAt ==
  ASSUME NEW c \in Conns, Stage(c), pc[Rdma!Act(c)] \in Onward
  PROVE  pc[Rdma!Pas(c)] \in {"established", "zcAccept"} \/ (pc[Rdma!Pas(c)] = "returned" /\ ~zc)
<1>1. pc[Rdma!Act(c)] \notin Early \cup {"established", "zcEstablished", "returned", "failed"}
  BY DEF Early, Onward
<1> QED BY <1>1 DEF Stage, PlaceInv, AcceptStage, SetupStage, ZcStage, FailedStage

\* A connector asks the connection manager, which answers on the base or zc channel.
LEMMA ResolveFacts ==
  ASSUME RdmaTypes, NEW c \in Conns, NEW at, NEW fault, NEW good \in Names, NEW bad \in Names,
         NEW l \in {"base", "zc"}, NEW next \in Places,
         Rdma!Resolve(c, at, fault, good, bad, l, next)
  PROVE  /\ RdmaTypes' /\ OnlyAt(c) /\ UNCHANGED <<zc, listening, stopped, requests, connected, posted, port, peer, live, zcQp>>
         /\ pc[Rdma!Act(c)] = at /\ pc'[Rdma!Act(c)] = next /\ pc'[Rdma!Pas(c)] = pc[Rdma!Pas(c)]
         /\ PasBase(c)' = PasBase(c) /\ PasZc(c)' = PasZc(c)
         /\ l = "base" => ActZc(c)' = ActZc(c)
         /\ l = "zc" => ActBase(c)' = ActBase(c)
         /\ \E name \in {good, bad} :
              /\ l = "base" => ActBase(c)' = Append(ActBase(c), Rdma!Plain(name))
              /\ l = "zc" => ActZc(c)' = Append(ActZc(c), Rdma!Plain(name))
<1>1. PICK name \in {good, bad} : events' = Rdma!Push(events, Rdma!Act(c), l, Rdma!Plain(name))
  BY DEF Rdma!Resolve, Rdma!Outcomes
<1>2. Rdma!Plain(name) \in Events
  BY PlainFacts
<1>3. /\ Rdma!Act(c) \in Rdma!Ends /\ Rdma!Pas(c) \in Rdma!Ends /\ Rdma!Act(c) # Rdma!Pas(c)
      /\ \A k \in {"base", "zc"} : <<Rdma!Act(c), k>> \in Chans /\ <<Rdma!Pas(c), k>> \in Chans
  BY EndFacts
<1>4. /\ events' \in [Chans -> Seq(Events)]
      /\ events'[<<Rdma!Act(c), l>>] = Append(events[<<Rdma!Act(c), l>>], Rdma!Plain(name))
      /\ \A ch \in Chans : ch # <<Rdma!Act(c), l>> => events'[ch] = events[ch]
  <2>1. events \in [Chans -> Seq(Events)]
    BY DEF RdmaTypes
  <2> DEFINE a == Rdma!Act(c)
             ev == Rdma!Plain(name)
  <2>2. a \in Rdma!Ends /\ ev \in Events
    BY <1>2, <1>3
  <2> HIDE DEF a, ev
  <2>3. /\ Rdma!Push(events, a, l, ev) \in [Chans -> Seq(Events)]
        /\ Rdma!Push(events, a, l, ev)[<<a, l>>] = Append(events[<<a, l>>], ev)
        /\ \A ch \in Chans : ch # <<a, l>> => Rdma!Push(events, a, l, ev)[ch] = events[ch]
    BY <2>1, <2>2, PushFacts
  <2> QED BY <1>1, <2>3 DEF a, ev
<1>5. pc' = [pc EXCEPT ![Rdma!Act(c)] = next] /\ pc[Rdma!Act(c)] = at
      /\ UNCHANGED <<zc, listening, stopped, requests, connected, posted, port, peer, live, zcQp>>
  BY DEF Rdma!Resolve
<1>6. /\ pc' \in [Rdma!Ends -> Places] /\ pc'[Rdma!Act(c)] = next
      /\ \A f \in Rdma!Ends : f # Rdma!Act(c) => pc'[f] = pc[f]
  BY <1>3, <1>5 DEF RdmaTypes
<1>7. RdmaTypes'
  BY <1>4, <1>5, <1>6 DEF RdmaTypes
<1>8. \A f \in Rdma!Ends, k \in {"base", "zc"} : f # Rdma!Act(c) => events'[<<f, k>>] = events[<<f, k>>]
  BY <1>4 DEF Chans, Rdma!Layers
<1>9. OnlyAt(c)
  BY <1>5, <1>6, <1>8 DEF OnlyAt, Requested
<1>10. PasBase(c)' = PasBase(c) /\ PasZc(c)' = PasZc(c)
  BY <1>3, <1>8 DEF PasBase, PasZc
<1>11. /\ l = "base" => ActZc(c)' = ActZc(c) /\ ActBase(c)' = Append(ActBase(c), Rdma!Plain(name))
       /\ l = "zc" => ActBase(c)' = ActBase(c) /\ ActZc(c)' = Append(ActZc(c), Rdma!Plain(name))
  BY <1>3, <1>4 DEF ActBase, ActZc
<1> QED BY <1>3, <1>5, <1>6, <1>7, <1>9, <1>10, <1>11

\* Connect and Accept wait for an event on one of their channels.
LEMMA AwaitAt ==
  ASSUME RdmaTypes, NEW c \in Conns, NEW e \in {Rdma!Act(c), Rdma!Pas(c)}, NEW l \in {"base", "zc"},
         NEW name \in Names \ {"REJECTED"}, NEW next \in Places, Rdma!AwaitEvent(e, l, name, next),
         UNCHANGED <<zc, listening, stopped, requests, connected, posted, port, zcQp>>,
         \A f \in Rdma!Ends : f # e => peer'[f] = peer[f]
  PROVE  OnlyAt(c)
<1>1. /\ Rdma!Act(c) \in Rdma!Ends /\ Rdma!Pas(c) \in Rdma!Ends /\ Rdma!Act(c) # Rdma!Pas(c)
  BY EndFacts
<1>2. /\ \A ch \in Chans : ch # <<e, l>> => events'[ch] = events[ch]
      /\ \A f \in Rdma!Ends : f # e => pc'[f] = pc[f]
  <2>1. e \in Rdma!Ends
    BY <1>1
  <2> QED BY <2>1, AwaitFacts, ZenonT(60)
<1>3. \A f \in Rdma!Ends, k \in {"base", "zc"} : f # e => events'[<<f, k>>] = events[<<f, k>>]
  BY <1>2 DEF Chans, Rdma!Layers
<1> QED BY <1>2, <1>3 DEF OnlyAt, Requested

\* The pools stay posted, so an end that is live finds its peer's.
LEMMA LiveFrame ==
  ASSUME Rdma!PoolReady, live' = live, \A e \in Rdma!Ends : posted[e] => posted'[e], live \subseteq Rdma!Ends
  PROVE  Rdma!PoolReady'
<1>1. \A e \in Rdma!Ends : Rdma!Other(e) \in Rdma!Ends
  BY DEF Rdma!Ends, Rdma!Other, Rdma!Act, Rdma!Pas
<1>2. \A e \in live : posted[Rdma!Other(e)]
  BY DEF Rdma!PoolReady
<1>3. \A e \in live : posted'[Rdma!Other(e)]
  BY <1>1, <1>2
<1> QED BY <1>3 DEF Rdma!PoolReady, Rdma!Other, Rdma!Act, Rdma!Pas

\* Resolving address and route of the first connection.
LEMMA ResolveStep ==
  ASSUME RdmaInv, NEW c \in Conns, NEW at, NEW next, NEW fault, NEW good, NEW bad,
         <<at, next>> \in {<<"start", "addr">>, <<"addrKnown", "route">>},
         {good, bad} \subseteq {"ADDR_RESOLVED", "ADDR_ERROR", "ROUTE_RESOLVED", "ROUTE_ERROR"},
         Rdma!Resolve(c, at, fault, good, bad, "base", next)
  PROVE  RdmaInv'
<1>1. next \in Places /\ good \in Names /\ bad \in Names
  BY DEF Places, Names
<1>2. /\ RdmaTypes' /\ OnlyAt(c) /\ UNCHANGED <<zc, listening, stopped, requests, connected, posted, port, peer, live, zcQp>>
      /\ pc[Rdma!Act(c)] = at /\ pc'[Rdma!Act(c)] = next /\ pc'[Rdma!Pas(c)] = pc[Rdma!Pas(c)]
      /\ PasBase(c)' = PasBase(c) /\ PasZc(c)' = PasZc(c) /\ ActZc(c)' = ActZc(c)
      /\ \E name \in {good, bad} : ActBase(c)' = Append(ActBase(c), Rdma!Plain(name))
  <2>1. RdmaTypes /\ "base" \in {"base", "zc"}
    BY DEF RdmaInv
  <2>2. \E name \in {good, bad} : /\ "base" = "base" => ActBase(c)' = Append(ActBase(c), Rdma!Plain(name))
                                  /\ "base" = "zc" => ActZc(c)' = Append(ActZc(c), Rdma!Plain(name))
    BY <1>1, <2>1, ResolveFacts, ZenonT(60)
  <2>3. /\ RdmaTypes' /\ OnlyAt(c) /\ UNCHANGED <<zc, listening, stopped, requests, connected, posted, port, peer, live, zcQp>>
        /\ pc[Rdma!Act(c)] = at /\ pc'[Rdma!Act(c)] = next /\ pc'[Rdma!Pas(c)] = pc[Rdma!Pas(c)]
        /\ PasBase(c)' = PasBase(c) /\ PasZc(c)' = PasZc(c)
        /\ "base" = "base" => ActZc(c)' = ActZc(c)
    BY <1>1, <2>1, ResolveFacts, ZenonT(60)
  <2> QED BY <2>2, <2>3
<1>3. PICK x \in Events : x.name # "ESTABLISHED" /\ ActBase(c)' = Append(ActBase(c), x)
  BY <1>1, <1>2, PlainFacts
<1>4. Stage(c) /\ pc[Rdma!Pas(c)] = "accept"
  BY <1>2, EarlyAt DEF RdmaInv, Early
<1>5. ActBase(c) = << >>
  BY <1>2, <1>4 DEF Stage, AcceptStage
<1>6. ActBase(c)' = <<x>> /\ NotHeard(<<x>>) /\ AtMostOne(<<x>>)
  <2>1. << >> \in Seq(Events)
    OBVIOUS
  <2>2. NotHeard(Append(<< >>, x))
    BY <1>3, <2>1, HeardFacts
  <2> QED BY <1>3, <1>5, <2>2, OneFacts
<1>7. Stage(c)'
  <2>1. PlaceInv(c)' /\ next \in {"addr", "route"} /\ at \in {"start", "addrKnown"}
    BY <1>2, <1>4 DEF Stage, PlaceInv, Early
  <2>2. AcceptStage(c)'
    BY <1>2, <1>4, <1>6, <2>1 DEF Stage, AcceptStage, Requested, Early
  <2> QED BY <1>2, <1>4, <2>1, <2>2 DEF Stage, SetupStage, ReplyStage, ZcStage, FailedStage
<1>8. RequestInv' /\ Rdma!PoolReady'
  BY <1>2, LiveFrame DEF RdmaInv, RequestInv, RdmaTypes
<1> QED BY <1>2, <1>7, <1>8, OtherStages DEF RdmaInv

\* Address or route of the first connection is there, or the wait goes on.
LEMMA ResolvedStep ==
  ASSUME RdmaInv, NEW c \in Conns, NEW at, NEW next, NEW name \in {"ADDR_RESOLVED", "ROUTE_RESOLVED"},
         <<at, next>> \in {<<"addr", "addrKnown">>, <<"route", "setup">>},
         Rdma!Resolved(c, at, "base", name, next)
  PROVE  RdmaInv'
<1>1. next \in Places /\ name \in Names \ {"REJECTED"} /\ RdmaTypes
  BY DEF Places, Names, RdmaInv
<1>2. /\ Rdma!AwaitEvent(Rdma!Act(c), "base", name, next) /\ pc[Rdma!Act(c)] = at
      /\ UNCHANGED <<zc, listening, stopped, requests, connected, posted, port, peer, live, zcQp>>
  BY DEF Rdma!Resolved
<1>3. /\ Rdma!Act(c) \in Rdma!Ends /\ Rdma!Pas(c) \in Rdma!Ends /\ Rdma!Act(c) # Rdma!Pas(c)
      /\ \A k \in {"base", "zc"} : <<Rdma!Act(c), k>> \in Chans /\ <<Rdma!Pas(c), k>> \in Chans
  BY EndFacts
<1>4. /\ events' \in [Chans -> Seq(Events)] /\ pc' \in [Rdma!Ends -> Places]
      /\ ActBase(c) # << >> /\ ActBase(c) \in Seq(Events) /\ ActBase(c)' = Tail(ActBase(c))
      /\ \A ch \in Chans : ch # <<Rdma!Act(c), "base">> => events'[ch] = events[ch]
      /\ pc'[Rdma!Pas(c)] = pc[Rdma!Pas(c)] /\ pc'[Rdma!Act(c)] \in {at, next, "failed"}
  BY <1>1, <1>2, <1>3, AwaitFacts DEF ActBase
<1>5. PasBase(c)' = PasBase(c) /\ PasZc(c)' = PasZc(c) /\ ActZc(c)' = ActZc(c)
  BY <1>3, <1>4 DEF PasBase, PasZc, ActZc
<1>6. OnlyAt(c)
  BY <1>1, <1>2, AwaitAt
<1>7. Stage(c) /\ pc[Rdma!Pas(c)] = "accept"
  BY <1>2, EarlyAt DEF RdmaInv, Early
<1>8. AtMostOne(ActBase(c))
  BY <1>2, <1>7 DEF Stage, AcceptStage
<1>9. ActBase(c)' = << >> /\ NotHeard(<< >>) /\ AtMostOne(<< >>)
  BY <1>4, <1>8, OneFacts, HeardFacts
<1>10. Stage(c)'
  <2>1. PlaceInv(c)' /\ next \in {"addrKnown", "setup"} /\ at \in {"addr", "route"}
    BY <1>2, <1>4, <1>7 DEF Stage, PlaceInv, Early
  <2>2. AcceptStage(c)'
    BY <1>2, <1>4, <1>5, <1>7, <1>9, <2>1 DEF Stage, AcceptStage, Requested, Early
  <2> QED BY <1>4, <1>7, <2>1, <2>2 DEF Stage, SetupStage, ReplyStage, ZcStage, FailedStage
<1>11. RequestInv' /\ Rdma!PoolReady' /\ RdmaTypes'
  BY <1>2, <1>4, LiveFrame DEF RdmaInv, RequestInv, RdmaTypes
<1> QED BY <1>6, <1>10, <1>11, OtherStages DEF RdmaInv

\* The same for the second connection.
LEMMA ZcResolveStep ==
  ASSUME RdmaInv, NEW c \in Conns, NEW at, NEW next, NEW fault, NEW good, NEW bad,
         <<at, next>> \in {<<"zcStart", "zcAddr">>, <<"zcAddrKnown", "zcRoute">>},
         {good, bad} \subseteq {"ADDR_RESOLVED", "ADDR_ERROR", "ROUTE_RESOLVED", "ROUTE_ERROR"},
         Rdma!Resolve(c, at, fault, good, bad, "zc", next)
  PROVE  RdmaInv'
<1>1. next \in Places /\ good \in Names /\ bad \in Names
  BY DEF Places, Names
<1>2. /\ RdmaTypes' /\ OnlyAt(c) /\ UNCHANGED <<zc, listening, stopped, requests, connected, posted, port, peer, live, zcQp>>
      /\ pc[Rdma!Act(c)] = at /\ pc'[Rdma!Act(c)] = next /\ pc'[Rdma!Pas(c)] = pc[Rdma!Pas(c)]
      /\ PasBase(c)' = PasBase(c) /\ PasZc(c)' = PasZc(c) /\ ActBase(c)' = ActBase(c)
      /\ \E name \in {good, bad} : ActZc(c)' = Append(ActZc(c), Rdma!Plain(name))
  <2>1. RdmaTypes /\ "zc" \in {"base", "zc"} /\ "zc" # "base"
    BY DEF RdmaInv
  <2>2. \E name \in {good, bad} : /\ "zc" = "base" => ActBase(c)' = Append(ActBase(c), Rdma!Plain(name))
                                  /\ "zc" = "zc" => ActZc(c)' = Append(ActZc(c), Rdma!Plain(name))
    BY <1>1, <2>1, ResolveFacts, ZenonT(60)
  <2>3. /\ RdmaTypes' /\ OnlyAt(c) /\ UNCHANGED <<zc, listening, stopped, requests, connected, posted, port, peer, live, zcQp>>
        /\ pc[Rdma!Act(c)] = at /\ pc'[Rdma!Act(c)] = next /\ pc'[Rdma!Pas(c)] = pc[Rdma!Pas(c)]
        /\ PasBase(c)' = PasBase(c) /\ PasZc(c)' = PasZc(c)
        /\ "zc" = "zc" => ActBase(c)' = ActBase(c)
    BY <1>1, <2>1, ResolveFacts, ZenonT(60)
  <2> QED BY <2>2, <2>3
<1>3. PICK x \in Events : ActZc(c)' = Append(ActZc(c), x)
  BY <1>1, <1>2, PlainFacts
<1>4. /\ Stage(c) /\ at \in Onward /\ at \in {"zcStart", "zcAddrKnown"} /\ next \in {"zcAddr", "zcRoute"}
      /\ pc[Rdma!Pas(c)] \in {"established", "zcAccept"} \/ (pc[Rdma!Pas(c)] = "returned" /\ ~zc)
  BY <1>2, OnwardAt DEF RdmaInv, Onward
<1>5. ActZc(c) = << >> /\ Knows(c) /\ PasZc(c) = << >> /\ zc /\ Replied(c)
  BY <1>2, <1>4 DEF Stage, ReplyStage
<1>6. ActZc(c)' = <<x>> /\ AtMostOne(<<x>>)
  BY <1>3, <1>5, OneFacts
<1>7. Stage(c)'
  <2>1. PlaceInv(c)'
    BY <1>2, <1>4 DEF Stage, PlaceInv, Onward
  <2>2. Replied(c)' /\ Knows(c)'
    BY <1>2, <1>5 DEF Replied, Knows, Requested
  <2>3. ReplyStage(c)'
    BY <1>2, <1>4, <1>5, <1>6, <2>2 DEF Stage, ReplyStage, Onward
  <2> QED BY <1>2, <1>4, <2>1, <2>3 DEF Stage, AcceptStage, SetupStage, ZcStage, FailedStage
<1>8. RequestInv' /\ Rdma!PoolReady'
  BY <1>2, LiveFrame DEF RdmaInv, RequestInv, RdmaTypes
<1> QED BY <1>2, <1>7, <1>8, OtherStages DEF RdmaInv

\* The same for the second connection.
LEMMA ZcResolvedStep ==
  ASSUME RdmaInv, NEW c \in Conns, NEW at, NEW next, NEW name \in {"ADDR_RESOLVED", "ROUTE_RESOLVED"},
         <<at, next>> \in {<<"zcAddr", "zcAddrKnown">>, <<"zcRoute", "zcQueuePair">>},
         Rdma!Resolved(c, at, "zc", name, next)
  PROVE  RdmaInv'
<1>1. next \in Places /\ name \in Names \ {"REJECTED"} /\ RdmaTypes
  BY DEF Places, Names, RdmaInv
<1>2. /\ Rdma!AwaitEvent(Rdma!Act(c), "zc", name, next) /\ pc[Rdma!Act(c)] = at
      /\ UNCHANGED <<zc, listening, stopped, requests, connected, posted, port, peer, live, zcQp>>
  BY DEF Rdma!Resolved
<1>3. /\ Rdma!Act(c) \in Rdma!Ends /\ Rdma!Pas(c) \in Rdma!Ends /\ Rdma!Act(c) # Rdma!Pas(c)
      /\ \A k \in {"base", "zc"} : <<Rdma!Act(c), k>> \in Chans /\ <<Rdma!Pas(c), k>> \in Chans
  BY EndFacts
<1>4. /\ events' \in [Chans -> Seq(Events)] /\ pc' \in [Rdma!Ends -> Places]
      /\ ActZc(c) # << >> /\ ActZc(c) \in Seq(Events) /\ ActZc(c)' = Tail(ActZc(c))
      /\ \A ch \in Chans : ch # <<Rdma!Act(c), "zc">> => events'[ch] = events[ch]
      /\ pc'[Rdma!Pas(c)] = pc[Rdma!Pas(c)] /\ pc'[Rdma!Act(c)] \in {at, next, "failed"}
  BY <1>1, <1>2, <1>3, AwaitFacts DEF ActZc
<1>5. PasBase(c)' = PasBase(c) /\ PasZc(c)' = PasZc(c) /\ ActBase(c)' = ActBase(c)
  BY <1>3, <1>4 DEF PasBase, PasZc, ActBase
<1>6. OnlyAt(c)
  BY <1>1, <1>2, AwaitAt
<1>7. /\ Stage(c) /\ at \in Onward /\ at \in {"zcAddr", "zcRoute"} /\ next \in {"zcAddrKnown", "zcQueuePair"}
      /\ pc[Rdma!Pas(c)] \in {"established", "zcAccept"} \/ (pc[Rdma!Pas(c)] = "returned" /\ ~zc)
  BY <1>2, OnwardAt DEF RdmaInv, Onward
<1>8. AtMostOne(ActZc(c)) /\ Knows(c) /\ PasZc(c) = << >> /\ zc /\ Replied(c)
  BY <1>2, <1>7 DEF Stage, ReplyStage
<1>9. ActZc(c)' = << >> /\ AtMostOne(<< >>)
  BY <1>4, <1>8, OneFacts
<1>10. Stage(c)'
  <2>1. PlaceInv(c)'
    BY <1>2, <1>4, <1>7 DEF Stage, PlaceInv, Onward
  <2>2. Replied(c)' /\ Knows(c)'
    BY <1>2, <1>8 DEF Replied, Knows, Requested
  <2>3. ReplyStage(c)'
    BY <1>2, <1>4, <1>5, <1>7, <1>8, <1>9, <2>2 DEF Stage, ReplyStage, Onward
  <2> QED BY <1>4, <1>2, <1>7, <2>1, <2>3 DEF Stage, AcceptStage, SetupStage, ZcStage, FailedStage
<1>11. RequestInv' /\ Rdma!PoolReady' /\ RdmaTypes'
  BY <1>2, <1>4, LiveFrame DEF RdmaInv, RequestInv, RdmaTypes
<1> QED BY <1>6, <1>10, <1>11, OtherStages DEF RdmaInv

\* Connect sets up its end, or cannot.
LEMMA SetupActiveStep ==
  ASSUME RdmaInv, NEW c \in Conns, Rdma!SetupActive(c)
  PROVE  RdmaInv'
<1> DEFINE a == Rdma!Act(c)
           p == Rdma!Pas(c)
<1>1. a \in Rdma!Ends /\ p \in Rdma!Ends /\ a # p
  BY EndFacts
<1>2. Stage(c) /\ pc[a] = "setup" /\ pc[p] = "accept"
  BY EarlyAt DEF RdmaInv, Early, Rdma!SetupActive
<1>3. ~connected[a]
  BY <1>2 DEF Stage, AcceptStage, Early
<1>4. PICK next \in {"connect", "failed"} : pc' = [pc EXCEPT ![a] = next]
  BY DEF Rdma!SetupActive, Rdma!Outcomes
<1>5. /\ posted' = [posted EXCEPT ![a] = TRUE] /\ port' = [port EXCEPT ![a] = Rdma!NoPort]
      /\ UNCHANGED <<zc, listening, stopped, requests, events, connected, peer, live, zcQp>>
  BY <1>3 DEF Rdma!SetupActive, Rdma!SetupResources
<1>6. pc'[a] = next /\ pc' \in [Rdma!Ends -> Places] /\ \A f \in Rdma!Ends : f # a => pc'[f] = pc[f]
  BY <1>1, <1>4 DEF RdmaInv, RdmaTypes, Places
<1>7. posted'[a] /\ posted' \in [Rdma!Ends -> BOOLEAN] /\ \A f \in Rdma!Ends : f # a => posted'[f] = posted[f]
  BY <1>1, <1>5 DEF RdmaInv, RdmaTypes
<1>8. /\ port'[a] = Rdma!NoPort /\ \A f \in Rdma!Ends : f # a => port'[f] = port[f]
      /\ port' \in [Rdma!Ends -> Rdma!Ends \cup {Rdma!NoPort}]
  BY <1>1, <1>5 DEF RdmaInv, RdmaTypes
<1>9. RdmaTypes'
  BY <1>5, <1>6, <1>7, <1>8 DEF RdmaInv, RdmaTypes
<1>10. RequestInv'
  BY <1>5 DEF RdmaInv, RequestInv
<1>11. Rdma!PoolReady'
  BY <1>1, <1>5, <1>7, LiveFrame DEF RdmaInv, RdmaTypes
<1>12. OnlyAt(c)
  BY <1>5, <1>6, <1>7, <1>8 DEF OnlyAt, Requested
<1>13. Stage(c)'
  <2>1. /\ ActBase(c)' = ActBase(c) /\ ActZc(c)' = ActZc(c) /\ PasBase(c)' = PasBase(c) /\ PasZc(c)' = PasZc(c)
        /\ Requested(c)' <=> Requested(c)
    BY <1>5 DEF ActBase, ActZc, PasBase, PasZc, Requested
  <2>2. PlaceInv(c)'
    BY <1>1, <1>2, <1>6, <1>8 DEF Stage, PlaceInv, Early
  <2>3. AcceptStage(c)'
    BY <1>2, <1>1, <1>3, <1>5, <1>6, <1>7, <2>1 DEF Stage, AcceptStage, Early
  <2> QED BY <1>1, <1>2, <1>6, <2>2, <2>3 DEF Stage, SetupStage, ReplyStage, ZcStage, FailedStage
<1> QED BY <1>9, <1>10, <1>11, <1>12, <1>13, OtherStages DEF RdmaInv

\* rdma_connect: the request reaches the listener, or an error comes back.
LEMMA ConnectStep ==
  ASSUME RdmaInv, NEW c \in Conns, Rdma!Connect(c)
  PROVE  RdmaInv'
<1> DEFINE a == Rdma!Act(c)
           p == Rdma!Pas(c)
           rq == [conn |-> c, wire |-> Rdma!PrepareWire(a)]
<1>1. /\ a \in Rdma!Ends /\ p \in Rdma!Ends /\ a # p
      /\ \A k \in {"base", "zc"} : <<a, k>> \in Chans /\ <<p, k>> \in Chans
  BY EndFacts
<1>2. Stage(c) /\ pc[a] = "connect" /\ pc[p] = "accept"
  BY EarlyAt DEF RdmaInv, Early, Rdma!Connect
<1>3. /\ ~Requested(c) /\ NotHeard(ActBase(c)) /\ ActBase(c) = << >> /\ posted[a]
      /\ ActZc(c) = << >> /\ PasBase(c) = << >> /\ PasZc(c) = << >>
  BY <1>2 DEF Stage, AcceptStage
<1>4. /\ pc' = [pc EXCEPT ![a] = "established"] /\ connected' = [connected EXCEPT ![a] = TRUE]
      /\ UNCHANGED <<zc, listening, stopped, posted, port, peer, live, zcQp>>
  BY DEF Rdma!Connect
<1>5. \/ requests' = Append(requests, rq) /\ events' = events
      \/ \E heard \in {"REJECTED", "UNREACHABLE"} :
           events' = Rdma!Push(events, a, "base", Rdma!Plain(heard)) /\ requests' = requests
  BY DEF Rdma!Connect, Rdma!Outcomes
<1>6. pc'[a] = "established" /\ pc' \in [Rdma!Ends -> Places] /\ \A f \in Rdma!Ends : f # a => pc'[f] = pc[f]
  BY <1>1, <1>4 DEF RdmaInv, RdmaTypes, Places
<1>7. connected' \in [Rdma!Ends -> BOOLEAN] /\ \A f \in Rdma!Ends : f # a => connected'[f] = connected[f]
  BY <1>1, <1>4 DEF RdmaInv, RdmaTypes
<1>8. Rdma!PoolReady'
  BY <1>4, LiveFrame DEF RdmaInv, RdmaTypes
<1>9. PlaceInv(c)'
  BY <1>1, <1>2, <1>4, <1>6 DEF Stage, PlaceInv, Early
<1>10. SetupStage(c)' /\ ReplyStage(c)' /\ ZcStage(c)' /\ FailedStage(c)'
  BY <1>1, <1>2, <1>6 DEF SetupStage, ReplyStage, ZcStage, FailedStage
<1>11. "established" \notin Early
  BY DEF Early
<1>12. CASE requests' = Append(requests, rq) /\ events' = events
  <2>1. requests \in Seq(Request) /\ Len(requests) \in Nat
    BY DEF RdmaInv, RdmaTypes
  <2>2. rq \in Request /\ rq.wire.from = a /\ rq.conn = c
    <3>1. Rdma!PrepareWire(a) \in Wires /\ Rdma!PrepareWire(a).from = a
      BY <1>1 DEF Rdma!PrepareWire, Wires, RdmaInv, RdmaTypes
    <3> QED BY <3>1 DEF Request
  <2> HIDE DEF rq
  <2>3. /\ requests' \in Seq(Request) /\ Len(requests') = Len(requests) + 1
        /\ \A i \in 1 .. Len(requests) : requests'[i] = requests[i]
        /\ requests'[Len(requests) + 1] = rq
    BY <1>12, <2>1, <2>2
  <2>4. \A i \in 1 .. Len(requests') : i \in 1 .. Len(requests) \/ i = Len(requests) + 1
    BY <2>1, <2>3
  <2>5. \A i \in 1 .. Len(requests) : i \in 1 .. Len(requests')
    BY <2>1, <2>3
  <2>6. RequestInv'
    <3>1. \A i \in 1 .. Len(requests) : requests[i].conn # c
      BY <1>3 DEF Requested
    <3>2. \A i, j \in 1 .. Len(requests') : requests'[i].conn = requests'[j].conn => i = j
      BY <2>2, <2>3, <2>4, <3>1 DEF RdmaInv, RequestInv
    <3>3. \A i \in 1 .. Len(requests') : requests'[i].wire.from = Rdma!Act(requests'[i].conn)
      BY <2>2, <2>3, <2>4 DEF RdmaInv, RequestInv
    <3> QED BY <3>2, <3>3 DEF RequestInv, Rdma!Act
  <2>7. \A d \in Conns : d # c => (Requested(d)' <=> Requested(d))
    BY <2>2, <2>3, <2>4, <2>5 DEF Requested
  <2>8. OnlyAt(c)
    BY <1>4, <1>6, <1>7, <1>12, <2>7 DEF OnlyAt
  <2>9. RdmaTypes'
    BY <1>4, <1>6, <1>7, <1>12, <2>3 DEF RdmaInv, RdmaTypes
  <2>10. ActBase(c)' = ActBase(c) /\ ActZc(c)' = ActZc(c) /\ PasBase(c)' = PasBase(c) /\ PasZc(c)' = PasZc(c)
    BY <1>12 DEF ActBase, ActZc, PasBase, PasZc
  <2>11. AcceptStage(c)'
    BY <1>3, <1>4, <1>6, <1>11, <2>10 DEF AcceptStage
  <2> QED BY <1>8, <1>9, <1>10, <2>6, <2>8, <2>9, <2>11, OtherStages DEF RdmaInv, Stage
<1>13. CASE \E heard \in {"REJECTED", "UNREACHABLE"} :
              events' = Rdma!Push(events, a, "base", Rdma!Plain(heard)) /\ requests' = requests
  <2>1. PICK heard \in {"REJECTED", "UNREACHABLE"} :
               events' = Rdma!Push(events, a, "base", Rdma!Plain(heard)) /\ requests' = requests
    BY <1>13
  <2>2. Rdma!Plain(heard) \in Events /\ Rdma!Plain(heard).name # "ESTABLISHED"
    BY PlainFacts DEF Names
  <2>3. /\ events' \in [Chans -> Seq(Events)]
        /\ events'[<<a, "base">>] = Append(events[<<a, "base">>], Rdma!Plain(heard))
        /\ \A ch \in Chans : ch # <<a, "base">> => events'[ch] = events[ch]
    <3>1. events \in [Chans -> Seq(Events)]
      BY DEF RdmaInv, RdmaTypes
    <3> DEFINE ev == Rdma!Plain(heard)
    <3> HIDE DEF a, ev
    <3>2. /\ Rdma!Push(events, a, "base", ev) \in [Chans -> Seq(Events)]
          /\ Rdma!Push(events, a, "base", ev)[<<a, "base">>] = Append(events[<<a, "base">>], ev)
          /\ \A ch \in Chans : ch # <<a, "base">> => Rdma!Push(events, a, "base", ev)[ch] = events[ch]
      BY <1>1, <2>2, <3>1, PushFacts DEF ev
    <3> QED BY <2>1, <3>2 DEF ev
  <2>4. \A f \in Rdma!Ends, k \in {"base", "zc"} : f # a => events'[<<f, k>>] = events[<<f, k>>]
    BY <2>3 DEF Chans, Rdma!Layers
  <2>5. OnlyAt(c)
    BY <1>4, <1>6, <1>7, <2>1, <2>4 DEF OnlyAt, Requested
  <2>6. RdmaTypes' /\ RequestInv' /\ ~Requested(c)'
    BY <1>3, <1>4, <1>6, <1>7, <2>1, <2>3 DEF RdmaInv, RdmaTypes, RequestInv, Requested
  <2>7. ActZc(c)' = ActZc(c) /\ PasBase(c)' = PasBase(c) /\ PasZc(c)' = PasZc(c)
    BY <1>1, <2>3 DEF ActZc, PasBase, PasZc
  <2>8. NotHeard(ActBase(c)')
    <3>1. ActBase(c) \in Seq(Events)
      BY <1>1 DEF ActBase, RdmaInv, RdmaTypes
    <3>2. ActBase(c)' = Append(ActBase(c), Rdma!Plain(heard))
      BY <2>3 DEF ActBase
    <3> QED BY <1>3, <2>2, <3>1, <3>2, HeardFacts
  <2>9. AcceptStage(c)'
    BY <1>3, <1>4, <1>6, <1>11, <2>6, <2>7, <2>8 DEF AcceptStage
  <2> QED BY <1>8, <1>9, <1>10, <2>5, <2>6, <2>9, OtherStages DEF RdmaInv, Stage
<1> QED BY <1>5, <1>12, <1>13

\* The other end, and what it posted, for an end that becomes live.
LEMMA LiveGrows ==
  ASSUME RdmaTypes, Rdma!PoolReady, NEW c \in Conns, NEW e \in {Rdma!Act(c), Rdma!Pas(c)},
         live' = live \cup {e}, posted' = posted, posted[Rdma!Act(c)], posted[Rdma!Pas(c)]
  PROVE  Rdma!PoolReady'
<1>1. Rdma!Other(e) \in {Rdma!Act(c), Rdma!Pas(c)}
  BY DEF Rdma!Other, Rdma!Act, Rdma!Pas
<1>2. posted[Rdma!Other(e)]
  BY <1>1
<1>3. \A f \in live' : posted'[Rdma!Other(f)]
  BY <1>2 DEF Rdma!PoolReady
<1> QED BY <1>3 DEF Rdma!PoolReady, Rdma!Other, Rdma!Act, Rdma!Pas

\* ESTABLISHED, with the acceptor's private data, a rejection, or an event to skip.
LEMMA ConnectEstablishedStep ==
  ASSUME RdmaInv, NEW c \in Conns, Rdma!ConnectEstablished(c)
  PROVE  RdmaInv'
<1> DEFINE a == Rdma!Act(c)
           p == Rdma!Pas(c)
<1>1. /\ a \in Rdma!Ends /\ p \in Rdma!Ends /\ a # p
      /\ \A k \in {"base", "zc"} : <<a, k>> \in Chans /\ <<p, k>> \in Chans
  BY EndFacts
<1>2. /\ Rdma!AwaitEvent(a, "base", "ESTABLISHED", "finalize") /\ pc[a] = "established" /\ Stage(c) /\ RdmaTypes
      /\ UNCHANGED <<zc, listening, stopped, requests, connected, posted, port, zcQp>>
  BY DEF Rdma!ConnectEstablished, RdmaInv
<1>3. \/ pc'[a] = "finalize" /\ peer' = [peer EXCEPT ![a] = Head(ActBase(c)).wire] /\ live' = live \cup {a}
      \/ pc'[a] # "finalize" /\ peer' = peer /\ live' = live
  BY DEF Rdma!ConnectEstablished, ActBase
<1>4. /\ events' \in [Chans -> Seq(Events)] /\ pc' \in [Rdma!Ends -> Places]
      /\ ActBase(c) # << >> /\ ActBase(c) \in Seq(Events) /\ ActBase(c)' = Tail(ActBase(c))
      /\ \A ch \in Chans : ch # <<a, "base">> => events'[ch] = events[ch]
      /\ pc'[p] = pc[p]
      /\ Head(ActBase(c)).name = "ESTABLISHED" => pc'[a] = "finalize"
      /\ Head(ActBase(c)).name # "ESTABLISHED" => pc'[a] \in {"established", "failed"}
  <2>1. "ESTABLISHED" \in Names \ {"REJECTED"} /\ "finalize" \in Places
    BY DEF Names, Places
  <2> QED BY <1>1, <1>2, <2>1, AwaitFacts DEF ActBase
<1>5. PasBase(c)' = PasBase(c) /\ PasZc(c)' = PasZc(c) /\ ActZc(c)' = ActZc(c)
  BY <1>1, <1>4 DEF PasBase, PasZc, ActZc
<1>6. Head(ActBase(c)) \in Events
  BY <1>4
<1>7. peer' \in [Rdma!Ends -> Wires] /\ live' \subseteq Rdma!Ends
      /\ \A f \in Rdma!Ends : f # a => peer'[f] = peer[f]
  BY <1>1, <1>2, <1>3, <1>6 DEF RdmaTypes, Events
<1>8. OnlyAt(c)
  <2>1. "ESTABLISHED" \in Names \ {"REJECTED"} /\ "finalize" \in Places
    BY DEF Names, Places
  <2> QED BY <1>2, <1>7, <2>1, AwaitAt
<1>9. RdmaTypes' /\ RequestInv'
  BY <1>2, <1>4, <1>7 DEF RdmaInv, RdmaTypes, RequestInv
<1>10. Requested(c)' <=> Requested(c)
  BY <1>2 DEF Requested
<1>11. PlaceInv(c)'
  BY <1>1, <1>2, <1>4 DEF Stage, PlaceInv, Early, Onward
<1>12. "established" \notin Early \cup Onward /\ "failed" \notin Early \cup Onward /\ "finalize" \in Onward
  BY DEF Early, Onward
<1>13. ASSUME NotHeard(ActBase(c))
       PROVE  pc'[a] \in {"established", "failed"} /\ NotHeard(ActBase(c)') /\ peer' = peer /\ Rdma!PoolReady'
  <2>1. pc'[a] \in {"established", "failed"} /\ NotHeard(ActBase(c)')
    BY <1>4, <1>13, HeardFacts
  <2>2. peer' = peer /\ live' = live
    BY <1>3, <2>1
  <2> QED BY <1>2, <2>1, <2>2, LiveFrame DEF RdmaInv, RdmaTypes
<1>14. CASE pc[p] = "accept"
  <2>1. NotHeard(ActBase(c)) /\ ~Requested(c) /\ posted[a]
    BY <1>2, <1>4, <1>14 DEF Stage, AcceptStage
  <2>2. AcceptStage(c)'
    BY <1>2, <1>4, <1>5, <1>10, <1>12, <1>13, <1>14, <2>1 DEF Stage, AcceptStage
  <2>3. Stage(c)'
    BY <1>4, <1>11, <1>14, <2>2 DEF Stage, SetupStage, ReplyStage, ZcStage, FailedStage
  <2> QED BY <1>8, <1>9, <1>13, <2>1, <2>3, OtherStages DEF RdmaInv
<1>15. CASE pc[p] = "failed"
  <2>1. NotHeard(ActBase(c)) /\ ~Requested(c)
    BY <1>2, <1>15 DEF Stage, FailedStage
  <2>2. FailedStage(c)'
    BY <1>10, <1>13, <2>1 DEF FailedStage
  <2>3. Stage(c)'
    BY <1>4, <1>11, <1>15, <2>2 DEF Stage, AcceptStage, SetupStage, ReplyStage, ZcStage
  <2> QED BY <1>8, <1>9, <1>13, <2>1, <2>3, OtherStages DEF RdmaInv
<1>16. CASE pc[p] \in {"established", "zcAccept"} \/ (pc[p] = "returned" /\ ~zc)
  <2>1. /\ Replied(c) /\ PasZc(c) = << >> /\ ActZc(c) = << >>
        /\ ActBase(c) = <<Rdma!Event("ESTABLISHED", [from |-> p, port |-> port[p]])>>
    BY <1>2, <1>12, <1>16 DEF Stage, ReplyStage
  <2>2. Head(ActBase(c)) = Rdma!Event("ESTABLISHED", [from |-> p, port |-> port[p]])
    BY <2>1, OneFacts
  <2>3. Head(ActBase(c)).name = "ESTABLISHED" /\ Head(ActBase(c)).wire = [from |-> p, port |-> port[p]]
    BY <2>2 DEF Rdma!Event
  <2>4. pc'[a] = "finalize" /\ peer'[a] = [from |-> p, port |-> port[p]] /\ live' = live \cup {a}
    BY <1>1, <1>2, <1>3, <1>4, <2>3 DEF RdmaTypes
  <2>5. Replied(c)' /\ Knows(c)'
    BY <1>1, <1>2, <1>7, <1>10, <2>1, <2>4 DEF Replied, Knows
  <2>6. ReplyStage(c)'
    BY <1>2, <1>4, <1>5, <1>12, <1>16, <2>1, <2>4, <2>5 DEF Stage, ReplyStage
  <2>7. Stage(c)'
    BY <1>2, <1>4, <1>11, <1>16, <2>6 DEF Stage, AcceptStage, SetupStage, ZcStage, FailedStage
  <2>8. Rdma!PoolReady'
    BY <1>2, <2>1, <2>4, LiveGrows DEF RdmaInv, Replied
  <2> QED BY <1>8, <1>9, <2>7, <2>8, OtherStages DEF RdmaInv
<1>17. pc[p] = "accept" \/ pc[p] = "failed" \/ pc[p] \in {"established", "zcAccept"} \/ (pc[p] = "returned" /\ ~zc)
  BY <1>2, <1>4 DEF Stage, PlaceInv, SetupStage, ZcStage
<1> QED BY <1>14, <1>15, <1>16, <1>17

\* The base transport is done; zero copy goes on to the second connection.
LEMMA FinalizeActiveStep ==
  ASSUME RdmaInv, NEW c \in Conns, Rdma!FinalizeActive(c)
  PROVE  RdmaInv'
<1> DEFINE a == Rdma!Act(c)
           p == Rdma!Pas(c)
<1>1. a \in Rdma!Ends /\ p \in Rdma!Ends /\ a # p
  BY EndFacts
<1>2. /\ Stage(c) /\ pc[a] = "finalize" /\ RdmaTypes
      /\ pc[p] \in {"established", "zcAccept"} \/ (pc[p] = "returned" /\ ~zc)
  BY OnwardAt DEF RdmaInv, Onward, Rdma!FinalizeActive
<1>3. UNCHANGED <<zc, listening, stopped, requests, events, connected, posted, port, peer, live, zcQp>>
  BY DEF Rdma!FinalizeActive
<1>4. PICK next \in {"returned", "failed", "zcStart"} :
         pc' = [pc EXCEPT ![a] = next] /\ (next = "returned" => ~zc) /\ (next # "returned" => zc)
  <2> DEFINE next == CASE ~zc -> "returned" [] zc /\ peer[a].port = Rdma!NoPort -> "failed" [] OTHER -> "zcStart"
  <2>1. pc' = [pc EXCEPT ![a] = next]
    BY DEF Rdma!FinalizeActive
  <2>2. next \in {"returned", "failed", "zcStart"} /\ (next = "returned" => ~zc) /\ (next # "returned" => zc)
    OBVIOUS
  <2> HIDE DEF next
  <2> QED BY <2>1, <2>2
<1>5. pc'[a] = next /\ pc' \in [Rdma!Ends -> Places] /\ \A f \in Rdma!Ends : f # a => pc'[f] = pc[f]
  BY <1>1, <1>2, <1>4 DEF RdmaTypes, Places
<1>6. RdmaTypes' /\ RequestInv' /\ Rdma!PoolReady'
  BY <1>3, <1>5, LiveFrame DEF RdmaInv, RdmaTypes, RequestInv
<1>7. OnlyAt(c)
  BY <1>3, <1>5 DEF OnlyAt, Requested
<1>8. /\ ActBase(c)' = ActBase(c) /\ ActZc(c)' = ActZc(c) /\ PasBase(c)' = PasBase(c) /\ PasZc(c)' = PasZc(c)
      /\ Requested(c)' <=> Requested(c)
  BY <1>3 DEF ActBase, ActZc, PasBase, PasZc, Requested
<1>9. Replied(c) /\ Knows(c) /\ PasZc(c) = << >> /\ ActZc(c) = << >>
  BY <1>2 DEF Stage, ReplyStage
<1>10. Replied(c)' /\ Knows(c)'
  BY <1>3, <1>8, <1>9 DEF Replied, Knows
<1>11. PlaceInv(c)'
  BY <1>1, <1>2, <1>3, <1>5 DEF Stage, PlaceInv, Onward
<1>12. ReplyStage(c)'
  BY <1>1, <1>2, <1>3, <1>4, <1>5, <1>8, <1>9, <1>10 DEF Stage, ReplyStage, Onward
<1>13. Stage(c)'
  BY <1>1, <1>2, <1>3, <1>5, <1>11, <1>12 DEF Stage, AcceptStage, SetupStage, ZcStage, FailedStage
<1> QED BY <1>6, <1>7, <1>13, OtherStages DEF RdmaInv

\* The second queue pair, or none.
LEMMA ZcQueuePairActiveStep ==
  ASSUME RdmaInv, NEW c \in Conns, Rdma!ZcQueuePairActive(c)
  PROVE  RdmaInv'
<1> DEFINE a == Rdma!Act(c)
           p == Rdma!Pas(c)
<1>1. a \in Rdma!Ends /\ p \in Rdma!Ends /\ a # p
  BY EndFacts
<1>2. /\ Stage(c) /\ pc[a] = "zcQueuePair" /\ RdmaTypes
      /\ pc[p] \in {"established", "zcAccept"} \/ (pc[p] = "returned" /\ ~zc)
  BY OnwardAt DEF RdmaInv, Onward, Rdma!ZcQueuePairActive
<1>3. UNCHANGED <<zc, listening, stopped, requests, events, connected, posted, port, peer, live>>
  BY DEF Rdma!ZcQueuePairActive
<1>4. PICK next \in {"zcConnect", "failed"} : pc' = [pc EXCEPT ![a] = next]
  BY DEF Rdma!ZcQueuePairActive, Rdma!Outcomes
<1>5. pc'[a] = next /\ pc' \in [Rdma!Ends -> Places] /\ \A f \in Rdma!Ends : f # a => pc'[f] = pc[f]
  BY <1>1, <1>2, <1>4 DEF RdmaTypes, Places
<1>6. /\ next = "zcConnect" => zcQp' = zcQp \cup {a}
      /\ next = "failed" => zcQp' = zcQp
  BY <1>5 DEF Rdma!ZcQueuePairActive
<1>7. RdmaTypes' /\ RequestInv' /\ Rdma!PoolReady'
  BY <1>1, <1>3, <1>5, <1>6, LiveFrame DEF RdmaInv, RdmaTypes, RequestInv
<1>8. OnlyAt(c)
  BY <1>3, <1>5, <1>6 DEF OnlyAt, Requested
<1>9. /\ ActBase(c)' = ActBase(c) /\ ActZc(c)' = ActZc(c) /\ PasBase(c)' = PasBase(c) /\ PasZc(c)' = PasZc(c)
      /\ Requested(c)' <=> Requested(c)
  BY <1>3 DEF ActBase, ActZc, PasBase, PasZc, Requested
<1>10. Replied(c) /\ Knows(c) /\ PasZc(c) = << >> /\ ActZc(c) = << >> /\ zc
  BY <1>2 DEF Stage, ReplyStage
<1>11. Replied(c)' /\ Knows(c)'
  BY <1>3, <1>9, <1>10 DEF Replied, Knows
<1>12. PlaceInv(c)'
  BY <1>1, <1>2, <1>3, <1>5 DEF Stage, PlaceInv, Onward
<1>13. ReplyStage(c)'
  BY <1>1, <1>2, <1>3, <1>5, <1>6, <1>9, <1>10, <1>11 DEF Stage, ReplyStage, Onward
<1>14. Stage(c)'
  BY <1>1, <1>2, <1>3, <1>5, <1>12, <1>13 DEF Stage, AcceptStage, SetupStage, ZcStage, FailedStage
<1> QED BY <1>7, <1>8, <1>14, OtherStages DEF RdmaInv

\* rdma_connect to the port the acceptor advertised.
LEMMA ZcConnectStep ==
  ASSUME RdmaInv, NEW c \in Conns, Rdma!ZcConnect(c)
  PROVE  RdmaInv'
<1> DEFINE a == Rdma!Act(c)
           p == Rdma!Pas(c)
           ev == Rdma!Plain("CONNECT_REQUEST")
<1>1. /\ a \in Rdma!Ends /\ p \in Rdma!Ends /\ a # p
      /\ \A k \in {"base", "zc"} : <<a, k>> \in Chans /\ <<p, k>> \in Chans
  BY EndFacts
<1>2. /\ Stage(c) /\ pc[a] = "zcConnect" /\ RdmaTypes
      /\ pc[p] \in {"established", "zcAccept"} \/ (pc[p] = "returned" /\ ~zc)
  BY OnwardAt DEF RdmaInv, Onward, Rdma!ZcConnect
<1>3. UNCHANGED <<zc, listening, stopped, requests, connected, posted, port, peer, live, zcQp>>
  BY DEF Rdma!ZcConnect
<1>4. pc'[a] = "zcEstablished" /\ pc' \in [Rdma!Ends -> Places] /\ \A f \in Rdma!Ends : f # a => pc'[f] = pc[f]
  BY <1>1, <1>2 DEF RdmaTypes, Places, Rdma!ZcConnect
<1>5. Replied(c) /\ Knows(c) /\ PasZc(c) = << >> /\ ActZc(c) = << >> /\ zc /\ a \in zcQp
  BY <1>2 DEF Stage, ReplyStage
<1>6. peer[a].port = p
  BY <1>5 DEF Knows, Replied
<1>7. /\ events' \in [Chans -> Seq(Events)]
      /\ events'[<<p, "zc">>] = Append(events[<<p, "zc">>], ev)
      /\ \A ch \in Chans : ch # <<p, "zc">> => events'[ch] = events[ch]
  <2>1. events \in [Chans -> Seq(Events)] /\ ev \in Events
    BY <1>2, PlainFacts DEF RdmaTypes, Names
  <2>2. events' = Rdma!Push(events, p, "zc", ev)
    BY <1>6 DEF Rdma!ZcConnect
  <2> HIDE DEF p, ev
  <2>3. /\ Rdma!Push(events, p, "zc", ev) \in [Chans -> Seq(Events)]
        /\ Rdma!Push(events, p, "zc", ev)[<<p, "zc">>] = Append(events[<<p, "zc">>], ev)
        /\ \A ch \in Chans : ch # <<p, "zc">> => Rdma!Push(events, p, "zc", ev)[ch] = events[ch]
    BY <1>1, <2>1, PushFacts
  <2> QED BY <2>2, <2>3
<1>8. \A f \in Rdma!Ends, k \in {"base", "zc"} : f # p => events'[<<f, k>>] = events[<<f, k>>]
  BY <1>7 DEF Chans, Rdma!Layers
<1>9. RdmaTypes' /\ RequestInv' /\ Rdma!PoolReady'
  BY <1>3, <1>4, <1>7, LiveFrame DEF RdmaInv, RdmaTypes, RequestInv
<1>10. OnlyAt(c)
  BY <1>3, <1>4, <1>8 DEF OnlyAt, Requested
<1>11. /\ ActBase(c)' = ActBase(c) /\ ActZc(c)' = << >> /\ PasBase(c)' = PasBase(c)
       /\ PasZc(c)' = <<ev>> /\ (Requested(c)' <=> Requested(c))
  <2>1. ActBase(c)' = ActBase(c) /\ ActZc(c)' = ActZc(c) /\ PasBase(c)' = PasBase(c)
    BY <1>1, <1>7, <1>8 DEF ActBase, ActZc, PasBase
  <2>2. PasZc(c)' = Append(PasZc(c), ev)
    BY <1>7 DEF PasZc
  <2> QED BY <1>3, <1>5, <2>1, <2>2, OneFacts DEF Requested
<1>12. Replied(c)' /\ Knows(c)'
  BY <1>3, <1>5, <1>11 DEF Replied, Knows
<1>13. PlaceInv(c)'
  BY <1>1, <1>2, <1>3, <1>4 DEF Stage, PlaceInv
<1>14. ReplyStage(c)'
  BY <1>1, <1>2, <1>3, <1>4, <1>5, <1>11, <1>12 DEF Stage, ReplyStage
<1>15. Stage(c)'
  BY <1>1, <1>2, <1>3, <1>4, <1>13, <1>14 DEF Stage, AcceptStage, SetupStage, ZcStage, FailedStage
<1> QED BY <1>9, <1>10, <1>15, OtherStages DEF RdmaInv

\* ESTABLISHED of the second connection, a rejection, or an event to skip.
LEMMA ZcConnectEstablishedStep ==
  ASSUME RdmaInv, NEW c \in Conns, Rdma!ZcConnectEstablished(c)
  PROVE  RdmaInv'
<1> DEFINE a == Rdma!Act(c)
           p == Rdma!Pas(c)
<1>1. /\ a \in Rdma!Ends /\ p \in Rdma!Ends /\ a # p
      /\ \A k \in {"base", "zc"} : <<a, k>> \in Chans /\ <<p, k>> \in Chans
  BY EndFacts
<1>2. /\ Rdma!AwaitEvent(a, "zc", "ESTABLISHED", "returned") /\ pc[a] = "zcEstablished" /\ Stage(c) /\ RdmaTypes
      /\ UNCHANGED <<zc, listening, stopped, requests, connected, posted, port, peer, live, zcQp>>
  BY DEF Rdma!ZcConnectEstablished, RdmaInv
<1>3. "ESTABLISHED" \in Names \ {"REJECTED"} /\ "returned" \in Places
  BY DEF Names, Places
<1>4. /\ events' \in [Chans -> Seq(Events)] /\ pc' \in [Rdma!Ends -> Places]
      /\ ActZc(c) # << >> /\ ActZc(c) \in Seq(Events) /\ ActZc(c)' = Tail(ActZc(c))
      /\ \A ch \in Chans : ch # <<a, "zc">> => events'[ch] = events[ch]
      /\ pc'[p] = pc[p]
      /\ Head(ActZc(c)).name = "ESTABLISHED" => pc'[a] = "returned"
      /\ Head(ActZc(c)).name # "ESTABLISHED" => pc'[a] \in {"zcEstablished", "failed"}
  BY <1>1, <1>2, <1>3, AwaitFacts DEF ActZc
<1>5. PasBase(c)' = PasBase(c) /\ PasZc(c)' = PasZc(c) /\ ActBase(c)' = ActBase(c)
  BY <1>1, <1>4 DEF PasBase, PasZc, ActBase
<1>6. OnlyAt(c)
  BY <1>2, <1>3, AwaitAt
<1>7. RdmaTypes' /\ RequestInv' /\ Rdma!PoolReady'
  BY <1>2, <1>4, LiveFrame DEF RdmaInv, RdmaTypes, RequestInv
<1>8. Requested(c)' <=> Requested(c)
  BY <1>2 DEF Requested
<1>9. PlaceInv(c)'
  BY <1>1, <1>2, <1>4 DEF Stage, PlaceInv
<1>10. CASE pc[p] = "failed"
  <2>1. NotHeard(ActZc(c)) /\ ~Requested(c)
    BY <1>2, <1>10 DEF Stage, FailedStage
  <2>2. pc'[a] \in {"zcEstablished", "failed"} /\ NotHeard(ActZc(c)')
    BY <1>4, <2>1, HeardFacts
  <2>3. FailedStage(c)'
    BY <1>8, <2>1, <2>2 DEF FailedStage
  <2>4. Stage(c)'
    BY <1>4, <1>9, <1>10, <2>3 DEF Stage, AcceptStage, SetupStage, ReplyStage, ZcStage
  <2> QED BY <1>6, <1>7, <2>4, OtherStages DEF RdmaInv
<1>11. CASE pc[p] = "zcEstablished" \/ (pc[p] = "returned" /\ zc)
  <2>1. /\ Replied(c) /\ zc /\ Knows(c) /\ a \in zcQp /\ p \in zcQp
        /\ ActZc(c) = <<Rdma!Plain("ESTABLISHED")>>
    BY <1>2, <1>11 DEF Stage, ZcStage
  <2>2. Head(ActZc(c)).name = "ESTABLISHED"
    BY <2>1, OneFacts, PlainFacts DEF Names
  <2>3. Replied(c)' /\ Knows(c)'
    BY <1>2, <1>8, <2>1 DEF Replied, Knows
  <2>4. ZcStage(c)'
    BY <1>2, <1>4, <1>5, <1>11, <2>1, <2>2, <2>3 DEF Stage, ZcStage
  <2>5. Stage(c)'
    BY <1>2, <1>4, <1>9, <1>11, <2>4 DEF Stage, AcceptStage, SetupStage, ReplyStage, FailedStage
  <2> QED BY <1>6, <1>7, <2>5, OtherStages DEF RdmaInv
<1>12. pc[p] = "failed" \/ pc[p] = "zcEstablished" \/ (pc[p] = "returned" /\ zc)
  BY <1>2, <1>4 DEF Stage, PlaceInv, AcceptStage, SetupStage, ReplyStage, Early, Onward
<1> QED BY <1>10, <1>11, <1>12

\* Accept takes the request that waited longest.
LEMMA RdmaTakeUpStep ==
  ASSUME RdmaInv, Rdma!TakeUp, stopped' = FALSE
  PROVE  RdmaInv'
<1>1. /\ requests \in Seq(Request) /\ Len(requests) \in Nat \ {0} /\ 1 \in 1 .. Len(requests)
      /\ Head(requests) = requests[1] /\ requests[1] \in Request
  BY DEF RdmaInv, RdmaTypes, Rdma!TakeUp
<1>2. PICK c \in Conns : c = requests[1].conn
  BY <1>1 DEF Request
<1> DEFINE a == Rdma!Act(c)
           p == Rdma!Pas(c)
<1>3. a \in Rdma!Ends /\ p \in Rdma!Ends /\ a # p
  BY EndFacts
<1>4. Requested(c) /\ Stage(c) /\ RdmaTypes
  BY <1>1, <1>2 DEF Requested, RdmaInv
<1>5. pc[p] = "accept"
  BY <1>4 DEF Stage, PlaceInv, SetupStage, ReplyStage, ZcStage, FailedStage, Replied
<1>6. /\ peer' = [peer EXCEPT ![p] = requests[1].wire] /\ connected' = [connected EXCEPT ![p] = TRUE]
      /\ pc' = [pc EXCEPT ![p] = "setup"] /\ requests' = Tail(requests)
      /\ UNCHANGED <<zc, listening, events, posted, port, live, zcQp>>
  BY <1>1, <1>2 DEF Rdma!TakeUp
<1>7. pc'[p] = "setup" /\ pc' \in [Rdma!Ends -> Places] /\ \A f \in Rdma!Ends : f # p => pc'[f] = pc[f]
  BY <1>3, <1>4, <1>6 DEF RdmaTypes, Places
<1>8. requests[1].wire \in Wires /\ requests[1].wire.from = a
  BY <1>1, <1>2 DEF Request, RdmaInv, RequestInv
<1>9. /\ peer'[p].from = a /\ peer' \in [Rdma!Ends -> Wires] /\ \A f \in Rdma!Ends : f # p => peer'[f] = peer[f]
  BY <1>3, <1>4, <1>6, <1>8 DEF RdmaTypes
<1>10. /\ connected'[p] /\ connected' \in [Rdma!Ends -> BOOLEAN]
       /\ \A f \in Rdma!Ends : f # p => connected'[f] = connected[f]
  BY <1>3, <1>4, <1>6 DEF RdmaTypes
<1>11. /\ requests' \in Seq(Request) /\ Len(requests') = Len(requests) - 1
       /\ \A i \in 1 .. Len(requests') : requests'[i] = requests[i + 1]
  BY <1>1, <1>6
<1>12. \A i \in 1 .. Len(requests') : i + 1 \in 1 .. Len(requests) /\ i + 1 # 1
  BY <1>1, <1>11
<1>13. \A i \in 1 .. Len(requests) : i # 1 => i - 1 \in 1 .. Len(requests') /\ (i - 1) + 1 = i
  BY <1>1, <1>11
<1>14. RdmaTypes'
  BY <1>4, <1>6, <1>7, <1>9, <1>10, <1>11 DEF RdmaTypes
<1>15. RequestInv'
  <2>1. \A i, j \in 1 .. Len(requests') : requests'[i].conn = requests'[j].conn => i = j
    <3> SUFFICES ASSUME NEW i \in 1 .. Len(requests'), NEW j \in 1 .. Len(requests'),
                        requests'[i].conn = requests'[j].conn
                 PROVE  i = j
      OBVIOUS
    <3>1. i + 1 = j + 1
      BY <1>11, <1>12 DEF RdmaInv, RequestInv
    <3> QED BY <1>1, <1>11, <3>1
  <2>2. \A i \in 1 .. Len(requests') : requests'[i].wire.from = Rdma!Act(requests'[i].conn)
    BY <1>11, <1>12 DEF RdmaInv, RequestInv
  <2> QED BY <2>1, <2>2 DEF RequestInv, Rdma!Act
<1>16. ~Requested(c)'
  BY <1>1, <1>2, <1>11, <1>12 DEF Requested, RdmaInv, RequestInv
<1>17. \A d \in Conns : d # c => (Requested(d)' <=> Requested(d))
  <2>1. ASSUME NEW d \in Conns, d # c, Requested(d) PROVE Requested(d)'
    <3>1. PICK i \in 1 .. Len(requests) : requests[i].conn = d
      BY <2>1 DEF Requested
    <3>2. i # 1
      BY <1>2, <2>1, <3>1
    <3>3. i - 1 \in 1 .. Len(requests') /\ requests'[i - 1] = requests[i]
      BY <1>11, <1>13, <3>2
    <3> QED BY <3>1, <3>3 DEF Requested
  <2>2. ASSUME NEW d \in Conns, d # c, Requested(d)' PROVE Requested(d)
    BY <1>11, <1>12, <2>2 DEF Requested
  <2> QED BY <2>1, <2>2
<1>18. OnlyAt(c)
  BY <1>6, <1>7, <1>9, <1>10, <1>17 DEF OnlyAt
<1>19. Rdma!PoolReady'
  BY <1>6, <1>4, LiveFrame DEF RdmaInv, RdmaTypes
<1>20. Stage(c)'
  <2>1. /\ ActBase(c)' = << >> /\ ActZc(c)' = << >> /\ PasBase(c)' = << >> /\ PasZc(c)' = << >>
        /\ pc'[a] = "established" /\ posted'[a]
    <3>1. /\ ActBase(c) = << >> /\ ActZc(c) = << >> /\ PasBase(c) = << >> /\ PasZc(c) = << >>
          /\ pc[a] = "established" /\ posted[a]
      BY <1>4, <1>5 DEF Stage, AcceptStage
    <3> QED BY <1>3, <1>6, <1>7, <3>1 DEF ActBase, ActZc, PasBase, PasZc
  <2>2. PlaceInv(c)'
    BY <1>4, <1>6, <1>7, <2>1 DEF Stage, PlaceInv
  <2>3. SetupStage(c)'
    BY <1>7, <1>9, <1>10, <1>16, <2>1 DEF SetupStage
  <2> QED BY <1>7, <2>2, <2>3 DEF Stage, AcceptStage, ReplyStage, ZcStage, FailedStage
<1> QED BY <1>14, <1>15, <1>18, <1>19, <1>20, OtherStages DEF RdmaInv

\* Accept sets up its end and, for zero copy, the second listener.
LEMMA SetupPassiveStep ==
  ASSUME RdmaInv, NEW c \in Conns, Rdma!SetupPassive(c)
  PROVE  RdmaInv'
<1> DEFINE a == Rdma!Act(c)
           p == Rdma!Pas(c)
<1>1. a \in Rdma!Ends /\ p \in Rdma!Ends /\ a # p
  BY EndFacts
<1>2. Stage(c) /\ pc[p] = "setup" /\ RdmaTypes
  BY DEF RdmaInv, Rdma!SetupPassive
<1>3. /\ pc[a] = "established" /\ ~Requested(c) /\ connected[p] /\ posted[a] /\ peer[p].from = a
      /\ ActBase(c) = << >> /\ ActZc(c) = << >> /\ PasBase(c) = << >> /\ PasZc(c) = << >>
  BY <1>2 DEF Stage, SetupStage
<1>4. UNCHANGED <<zc, listening, stopped, requests, events, connected, peer, live, zcQp>>
  BY DEF Rdma!SetupPassive
<1>5. pc'[p] = "reply" /\ pc' \in [Rdma!Ends -> Places] /\ \A f \in Rdma!Ends : f # p => pc'[f] = pc[f]
  BY <1>1, <1>2 DEF RdmaTypes, Places, Rdma!SetupPassive
<1>6. posted'[p] /\ posted' \in [Rdma!Ends -> BOOLEAN] /\ \A f \in Rdma!Ends : f # p => posted'[f] = posted[f]
  BY <1>1, <1>2 DEF RdmaTypes, Rdma!SetupPassive, Rdma!SetupResources
<1>7. PICK v \in {p, Rdma!NoPort} : port' = [port EXCEPT ![p] = v] /\ (zc => v = p)
  BY <1>3 DEF Rdma!SetupPassive, Rdma!SetupResources
<1>8. /\ port'[p] = v /\ port' \in [Rdma!Ends -> Rdma!Ends \cup {Rdma!NoPort}]
      /\ \A f \in Rdma!Ends : f # p => port'[f] = port[f]
  BY <1>1, <1>2, <1>7 DEF RdmaTypes
<1>9. RdmaTypes' /\ RequestInv'
  BY <1>2, <1>4, <1>5, <1>6, <1>8 DEF RdmaInv, RdmaTypes, RequestInv
<1>10. Rdma!PoolReady'
  BY <1>1, <1>2, <1>4, <1>6, LiveFrame DEF RdmaInv, RdmaTypes
<1>11. OnlyAt(c)
  BY <1>4, <1>5, <1>6, <1>8 DEF OnlyAt, Requested
<1>12. /\ ActBase(c)' = << >> /\ ActZc(c)' = << >> /\ PasBase(c)' = << >> /\ PasZc(c)' = << >> /\ ~Requested(c)'
  BY <1>3, <1>4 DEF ActBase, ActZc, PasBase, PasZc, Requested
<1>13. PlaceInv(c)'
  BY <1>1, <1>2, <1>5, <1>7, <1>8 DEF Stage, PlaceInv
<1>14. SetupStage(c)'
  BY <1>1, <1>3, <1>4, <1>5, <1>6, <1>7, <1>8, <1>12 DEF SetupStage
<1>15. Stage(c)'
  BY <1>5, <1>13, <1>14 DEF Stage, AcceptStage, ReplyStage, ZcStage, FailedStage
<1> QED BY <1>9, <1>10, <1>11, <1>15, OtherStages DEF RdmaInv

\* rdma_accept: both ends will hear of it.
LEMMA AcceptReplyStep ==
  ASSUME RdmaInv, NEW c \in Conns, Rdma!AcceptReply(c)
  PROVE  RdmaInv'
<1> DEFINE a == Rdma!Act(c)
           p == Rdma!Pas(c)
           w == [from |-> p, port |-> port[p]]
           ea == Rdma!Event("ESTABLISHED", w)
           ep == Rdma!Plain("ESTABLISHED")
           evs == Rdma!Push(events, a, "base", ea)
<1>1. /\ a \in Rdma!Ends /\ p \in Rdma!Ends /\ a # p
      /\ \A k \in {"base", "zc"} : <<a, k>> \in Chans /\ <<p, k>> \in Chans
  BY EndFacts
<1>2. Stage(c) /\ pc[p] = "reply" /\ RdmaTypes
  BY DEF RdmaInv, Rdma!AcceptReply
<1>3. /\ pc[a] = "established" /\ ~Requested(c) /\ connected[p] /\ posted[a] /\ posted[p] /\ peer[p].from = a
      /\ ActBase(c) = << >> /\ ActZc(c) = << >> /\ PasBase(c) = << >> /\ PasZc(c) = << >>
      /\ zc => port[p] = p
  BY <1>2 DEF Stage, SetupStage
<1>4. UNCHANGED <<zc, listening, stopped, requests, connected, posted, port, peer, live, zcQp>>
  BY DEF Rdma!AcceptReply
<1>5. pc'[p] = "established" /\ pc' \in [Rdma!Ends -> Places] /\ \A f \in Rdma!Ends : f # p => pc'[f] = pc[f]
  BY <1>1, <1>2 DEF RdmaTypes, Places, Rdma!AcceptReply
<1>6. events \in [Chans -> Seq(Events)] /\ ea \in Events /\ ep \in Events
  <2>1. w \in Wires
    BY <1>1, <1>2 DEF RdmaTypes, Wires
  <2>2. ea \in Events
    BY <2>1 DEF Rdma!Event, Events, Names
  <2> QED BY <1>2, <2>2, PlainFacts DEF RdmaTypes, Names
<1>7. events' = Rdma!Push(evs, p, "base", ep)
  BY DEF Rdma!AcceptReply, Rdma!PrepareWire
<1>8. /\ events' \in [Chans -> Seq(Events)]
      /\ events'[<<a, "base">>] = Append(events[<<a, "base">>], ea)
      /\ events'[<<p, "base">>] = Append(events[<<p, "base">>], ep)
      /\ \A ch \in Chans : ch # <<a, "base">> /\ ch # <<p, "base">> => events'[ch] = events[ch]
  <2> HIDE DEF a, p, ea, ep
  <2>1. /\ evs \in [Chans -> Seq(Events)] /\ evs[<<a, "base">>] = Append(events[<<a, "base">>], ea)
        /\ \A ch \in Chans : ch # <<a, "base">> => evs[ch] = events[ch]
    BY <1>1, <1>6, PushFacts, ZenonT(60)
  <2> HIDE DEF evs
  <2>2. /\ events' \in [Chans -> Seq(Events)] /\ events'[<<p, "base">>] = Append(evs[<<p, "base">>], ep)
        /\ \A ch \in Chans : ch # <<p, "base">> => events'[ch] = evs[ch]
    <3>1. /\ Rdma!Push(evs, p, "base", ep) \in [Chans -> Seq(Events)]
          /\ Rdma!Push(evs, p, "base", ep)[<<p, "base">>] = Append(evs[<<p, "base">>], ep)
          /\ \A ch \in Chans : ch # <<p, "base">> => Rdma!Push(evs, p, "base", ep)[ch] = evs[ch]
      BY <1>1, <1>6, <2>1, PushFacts, ZenonT(60)
    <3> QED BY <1>7, <3>1
  <2>3. <<a, "base">> # <<p, "base">>
    BY <1>1
  <2> QED BY <1>1, <2>1, <2>2, <2>3
<1>9. \A f \in Rdma!Ends, k \in {"base", "zc"} : f # a /\ f # p => events'[<<f, k>>] = events[<<f, k>>]
  BY <1>8 DEF Chans, Rdma!Layers
<1>10. RdmaTypes' /\ RequestInv' /\ Rdma!PoolReady'
  BY <1>2, <1>4, <1>5, <1>8, LiveFrame DEF RdmaInv, RdmaTypes, RequestInv
<1>11. OnlyAt(c)
  BY <1>4, <1>5, <1>9 DEF OnlyAt, Requested
<1>12. ActBase(c)' = <<ea>> /\ PasBase(c)' = <<ep>> /\ ActZc(c)' = << >> /\ PasZc(c)' = << >> /\ ~Requested(c)'
  <2>1. ActBase(c)' = Append(<< >>, ea) /\ PasBase(c)' = Append(<< >>, ep)
    BY <1>3, <1>8 DEF ActBase, PasBase
  <2>2. ActZc(c)' = << >> /\ PasZc(c)' = << >>
    BY <1>1, <1>3, <1>8 DEF ActZc, PasZc
  <2> QED BY <1>3, <1>4, <2>1, <2>2, OneFacts DEF Requested
<1>13. PlaceInv(c)'
  BY <1>1, <1>2, <1>4, <1>5 DEF Stage, PlaceInv
<1>14. Replied(c)'
  BY <1>3, <1>4, <1>12 DEF Replied
<1>15. ReplyStage(c)'
  BY <1>1, <1>3, <1>4, <1>5, <1>12, <1>14 DEF ReplyStage
<1>16. Stage(c)'
  BY <1>5, <1>13, <1>15 DEF Stage, AcceptStage, SetupStage, ZcStage, FailedStage
<1> QED BY <1>10, <1>11, <1>16, OtherStages DEF RdmaInv

\* Adopt hears that the connection stands.
LEMMA AcceptEstablishedStep ==
  ASSUME RdmaInv, NEW c \in Conns, Rdma!AcceptEstablished(c)
  PROVE  RdmaInv'
<1> DEFINE a == Rdma!Act(c)
           p == Rdma!Pas(c)
<1>1. /\ a \in Rdma!Ends /\ p \in Rdma!Ends /\ a # p
      /\ \A k \in {"base", "zc"} : <<a, k>> \in Chans /\ <<p, k>> \in Chans
  BY EndFacts
<1>2. /\ pc[p] = "established" /\ Stage(c) /\ RdmaTypes /\ live' = live \cup {p}
      /\ UNCHANGED <<zc, listening, stopped, requests, connected, posted, port, peer, zcQp>>
  BY DEF Rdma!AcceptEstablished, RdmaInv
<1>3. PICK next \in {"zcAccept", "returned"} :
        (next = "zcAccept" <=> zc) /\ Rdma!AwaitEvent(p, "base", "ESTABLISHED", next)
  BY <1>2 DEF Rdma!AcceptEstablished, RdmaTypes
<1>4. "ESTABLISHED" \in Names \ {"REJECTED"} /\ next \in Places
  BY DEF Names, Places
<1>5. /\ events' \in [Chans -> Seq(Events)] /\ pc' \in [Rdma!Ends -> Places]
      /\ PasBase(c)' = Tail(PasBase(c))
      /\ \A ch \in Chans : ch # <<p, "base">> => events'[ch] = events[ch]
      /\ pc'[a] = pc[a]
      /\ Head(PasBase(c)).name = "ESTABLISHED" => pc'[p] = next
  BY <1>1, <1>2, <1>3, <1>4, AwaitFacts DEF PasBase
<1>6. /\ Replied(c) /\ PasBase(c) = <<Rdma!Plain("ESTABLISHED")>>
  BY <1>2 DEF Stage, ReplyStage
<1>7. pc'[p] = next
  BY <1>5, <1>6, OneFacts, PlainFacts DEF Names
<1>8. ActBase(c)' = ActBase(c) /\ ActZc(c)' = ActZc(c) /\ PasZc(c)' = PasZc(c)
  BY <1>1, <1>5 DEF ActBase, ActZc, PasZc
<1>9. OnlyAt(c)
  BY <1>2, <1>3, <1>4, AwaitAt
<1>10. RdmaTypes' /\ RequestInv'
  BY <1>1, <1>2, <1>5 DEF RdmaInv, RdmaTypes, RequestInv
<1>11. Rdma!PoolReady'
  BY <1>2, <1>6, LiveGrows DEF RdmaInv, Replied
<1>12. Requested(c)' <=> Requested(c)
  BY <1>2 DEF Requested
<1>13. Replied(c)' /\ (Knows(c)' <=> Knows(c))
  BY <1>2, <1>6, <1>12 DEF Replied, Knows
<1>14. PlaceInv(c)'
  BY <1>1, <1>2, <1>5, <1>7 DEF Stage, PlaceInv
<1>15. ReplyStage(c)'
  BY <1>2, <1>3, <1>5, <1>7, <1>8, <1>13 DEF Stage, ReplyStage
<1>16. Stage(c)'
  BY <1>2, <1>3, <1>7, <1>14, <1>15 DEF Stage, AcceptStage, SetupStage, ZcStage, FailedStage
<1> QED BY <1>9, <1>10, <1>11, <1>16, OtherStages DEF RdmaInv

\* The second request: queue pair and reply.
LEMMA ZcAcceptStep ==
  ASSUME RdmaInv, NEW c \in Conns, Rdma!ZcAccept(c)
  PROVE  RdmaInv'
<1> DEFINE a == Rdma!Act(c)
           p == Rdma!Pas(c)
           ev == Rdma!Plain("ESTABLISHED")
           evs == Rdma!Push(events, a, "zc", ev)
<1>1. /\ a \in Rdma!Ends /\ p \in Rdma!Ends /\ a # p
      /\ \A k \in {"base", "zc"} : <<a, k>> \in Chans /\ <<p, k>> \in Chans
  BY EndFacts
<1>2. Stage(c) /\ pc[p] = "zcAccept" /\ PasZc(c) # << >> /\ RdmaTypes
  BY DEF RdmaInv, Rdma!ZcAccept, PasZc
<1>3. /\ Replied(c) /\ Knows(c) /\ zc /\ pc[a] = "zcEstablished" /\ a \in zcQp
      /\ PasZc(c) = <<Rdma!Plain("CONNECT_REQUEST")>> /\ ActZc(c) = << >>
  BY <1>2 DEF Stage, ReplyStage
<1>4. UNCHANGED <<zc, listening, stopped, requests, connected, posted, port, peer, live>> /\ zcQp' = zcQp \cup {p}
  BY DEF Rdma!ZcAccept
<1>5. pc'[p] = "zcEstablished" /\ pc' \in [Rdma!Ends -> Places] /\ \A f \in Rdma!Ends : f # p => pc'[f] = pc[f]
  BY <1>1, <1>2 DEF RdmaTypes, Places, Rdma!ZcAccept
<1>6. events \in [Chans -> Seq(Events)] /\ ev \in Events
  BY <1>2, PlainFacts DEF RdmaTypes, Names
<1>7. events' = [evs EXCEPT ![<<p, "zc">>] = Append(Tail(evs[<<p, "zc">>]), ev)]
  BY DEF Rdma!ZcAccept
<1>8. /\ events' \in [Chans -> Seq(Events)]
      /\ events'[<<a, "zc">>] = Append(ActZc(c), ev)
      /\ events'[<<p, "zc">>] = Append(Tail(PasZc(c)), ev)
      /\ \A ch \in Chans : ch # <<a, "zc">> /\ ch # <<p, "zc">> => events'[ch] = events[ch]
  <2>1. ActZc(c) = events[<<a, "zc">>] /\ PasZc(c) = events[<<p, "zc">>]
    BY DEF ActZc, PasZc
  <2>2. PasZc(c) \in Seq(Events)
    BY <1>1, <1>6, <2>1
  <2>3. Append(Tail(PasZc(c)), ev) \in Seq(Events)
    BY <1>2, <1>6, <2>2
  <2> HIDE DEF a, p, ev
  <2>4. /\ evs \in [Chans -> Seq(Events)] /\ evs[<<a, "zc">>] = Append(events[<<a, "zc">>], ev)
        /\ \A ch \in Chans : ch # <<a, "zc">> => evs[ch] = events[ch]
    BY <1>1, <1>6, PushFacts, ZenonT(60)
  <2> HIDE DEF evs
  <2>5. <<a, "zc">> # <<p, "zc">> /\ <<p, "zc">> \in Chans /\ <<a, "zc">> \in Chans
    BY <1>1
  <2>6. events' = [evs EXCEPT ![<<p, "zc">>] = Append(Tail(PasZc(c)), ev)]
    BY <1>7, <2>1, <2>4, <2>5
  <2> QED BY <2>1, <2>3, <2>4, <2>5, <2>6
<1>9. \A f \in Rdma!Ends, k \in {"base", "zc"} : f # a /\ f # p => events'[<<f, k>>] = events[<<f, k>>]
  BY <1>8 DEF Chans, Rdma!Layers
<1>10. RdmaTypes' /\ RequestInv' /\ Rdma!PoolReady'
  BY <1>1, <1>2, <1>4, <1>5, <1>8, LiveFrame DEF RdmaInv, RdmaTypes, RequestInv
<1>11. OnlyAt(c)
  BY <1>4, <1>5, <1>9 DEF OnlyAt, Requested
<1>12. ActZc(c)' = <<ev>> /\ PasZc(c)' = <<ev>>
  <2>1. ActZc(c)' = Append(<< >>, ev)
    BY <1>3, <1>8 DEF ActZc
  <2>2. PasZc(c)' = Append(<< >>, ev)
    BY <1>3, <1>8, OneFacts DEF PasZc
  <2> QED BY <2>1, <2>2, OneFacts
<1>13. Replied(c)' /\ Knows(c)'
  BY <1>3, <1>4 DEF Replied, Knows, Requested
<1>14. PlaceInv(c)'
  BY <1>1, <1>2, <1>4, <1>5 DEF Stage, PlaceInv
<1>15. ZcStage(c)'
  BY <1>1, <1>3, <1>4, <1>5, <1>12, <1>13 DEF ZcStage
<1>16. Stage(c)'
  BY <1>5, <1>14, <1>15 DEF Stage, AcceptStage, SetupStage, ReplyStage, FailedStage
<1> QED BY <1>10, <1>11, <1>16, OtherStages DEF RdmaInv

\* The acceptor hears that the second connection stands.
LEMMA ZcAcceptEstablishedStep ==
  ASSUME RdmaInv, NEW c \in Conns, Rdma!ZcAcceptEstablished(c)
  PROVE  RdmaInv'
<1> DEFINE a == Rdma!Act(c)
           p == Rdma!Pas(c)
<1>1. /\ a \in Rdma!Ends /\ p \in Rdma!Ends /\ a # p
      /\ \A k \in {"base", "zc"} : <<a, k>> \in Chans /\ <<p, k>> \in Chans
  BY EndFacts
<1>2. /\ pc[p] = "zcEstablished" /\ Stage(c) /\ RdmaTypes /\ Rdma!AwaitEvent(p, "zc", "ESTABLISHED", "returned")
      /\ UNCHANGED <<zc, listening, stopped, requests, connected, posted, port, peer, live, zcQp>>
  BY DEF Rdma!ZcAcceptEstablished, RdmaInv
<1>3. "ESTABLISHED" \in Names \ {"REJECTED"} /\ "returned" \in Places
  BY DEF Names, Places
<1>4. /\ events' \in [Chans -> Seq(Events)] /\ pc' \in [Rdma!Ends -> Places]
      /\ \A ch \in Chans : ch # <<p, "zc">> => events'[ch] = events[ch]
      /\ pc'[a] = pc[a]
      /\ Head(PasZc(c)).name = "ESTABLISHED" => pc'[p] = "returned"
  BY <1>1, <1>2, <1>3, AwaitFacts DEF PasZc
<1>5. /\ Replied(c) /\ zc /\ Knows(c) /\ a \in zcQp /\ p \in zcQp /\ PasZc(c) = <<Rdma!Plain("ESTABLISHED")>>
  BY <1>2 DEF Stage, ZcStage
<1>6. pc'[p] = "returned"
  BY <1>4, <1>5, OneFacts, PlainFacts DEF Names
<1>7. ActZc(c)' = ActZc(c)
  BY <1>1, <1>4 DEF ActZc
<1>8. OnlyAt(c)
  BY <1>2, <1>3, AwaitAt
<1>9. RdmaTypes' /\ RequestInv' /\ Rdma!PoolReady'
  BY <1>2, <1>4, LiveFrame DEF RdmaInv, RdmaTypes, RequestInv
<1>10. Replied(c)' /\ Knows(c)'
  BY <1>2, <1>5 DEF Replied, Knows, Requested
<1>11. PlaceInv(c)'
  BY <1>1, <1>2, <1>4, <1>6 DEF Stage, PlaceInv
<1>12. ZcStage(c)'
  BY <1>2, <1>4, <1>5, <1>6, <1>7, <1>10 DEF Stage, ZcStage
<1>13. Stage(c)'
  BY <1>2, <1>5, <1>6, <1>11, <1>12 DEF Stage, AcceptStage, SetupStage, ReplyStage, FailedStage
<1> QED BY <1>8, <1>9, <1>13, OtherStages DEF RdmaInv

\* Accept of c fails: its connector is rejected on the channel it waits at.
LEMMA LetGoStep ==
  ASSUME RdmaInv, NEW c \in Conns, NEW l \in {"base", "zc"}, events' = Rdma!LetGo(c, l), ~Requested(c),
         pc' = [pc EXCEPT ![Rdma!Pas(c)] = "failed"], stopped' = TRUE,
         UNCHANGED <<zc, listening, requests, connected, posted, port, peer, live, zcQp>>,
         \/ pc[Rdma!Act(c)] = "established" /\ NotHeard(ActBase(c))
         \/ pc[Rdma!Act(c)] = "zcEstablished" /\ NotHeard(ActZc(c))
  PROVE  RdmaInv'
<1> DEFINE a == Rdma!Act(c)
           p == Rdma!Pas(c)
           ev == Rdma!Plain("REJECTED")
<1>1. /\ a \in Rdma!Ends /\ p \in Rdma!Ends /\ a # p
      /\ \A k \in {"base", "zc"} : <<a, k>> \in Chans /\ <<p, k>> \in Chans
  BY EndFacts
<1>2. RdmaTypes /\ ev \in Events /\ ev.name # "ESTABLISHED"
  BY PlainFacts DEF RdmaInv, Names
<1>3. pc'[p] = "failed" /\ pc' \in [Rdma!Ends -> Places] /\ \A f \in Rdma!Ends : f # p => pc'[f] = pc[f]
  BY <1>1, <1>2 DEF RdmaTypes, Places
<1>4. /\ events' \in [Chans -> Seq(Events)]
      /\ events'[<<a, l>>] = Append(events[<<a, l>>], ev)
      /\ \A ch \in Chans : ch # <<a, l>> => events'[ch] = events[ch]
  <2>1. events \in [Chans -> Seq(Events)]
    BY <1>2 DEF RdmaTypes
  <2>2. events' = Rdma!Push(events, a, l, ev)
    BY DEF Rdma!LetGo
  <2>4. a \in Rdma!Ends /\ ev \in Events
    BY <1>1, <1>2
  <2> HIDE DEF a, ev
  <2>3. /\ Rdma!Push(events, a, l, ev) \in [Chans -> Seq(Events)]
        /\ Rdma!Push(events, a, l, ev)[<<a, l>>] = Append(events[<<a, l>>], ev)
        /\ \A ch \in Chans : ch # <<a, l>> => Rdma!Push(events, a, l, ev)[ch] = events[ch]
    BY <2>1, <2>4, PushFacts
  <2> QED BY <2>2, <2>3
<1>5. \A f \in Rdma!Ends, k \in {"base", "zc"} : f # a => events'[<<f, k>>] = events[<<f, k>>]
  BY <1>4 DEF Chans, Rdma!Layers
<1>6. OnlyAt(c)
  BY <1>3, <1>5 DEF OnlyAt, Requested
<1>7. RdmaTypes' /\ RequestInv' /\ ~Requested(c)'
  BY <1>2, <1>3, <1>4 DEF RdmaInv, RdmaTypes, RequestInv, Requested
<1>8. Rdma!PoolReady'
  BY <1>2, LiveFrame DEF RdmaInv, RdmaTypes
<1>9. Stage(c)'
  <2>1. /\ ActBase(c) \in Seq(Events) /\ ActBase(c)' \in {ActBase(c), Append(ActBase(c), ev)}
        /\ ActZc(c) \in Seq(Events) /\ ActZc(c)' \in {ActZc(c), Append(ActZc(c), ev)}
    BY <1>1, <1>2, <1>4 DEF ActBase, ActZc, RdmaTypes
  <2>2. NotHeard(ActBase(c)) => NotHeard(ActBase(c)')
    BY <1>2, <2>1, HeardFacts
  <2>3. NotHeard(ActZc(c)) => NotHeard(ActZc(c)')
    BY <1>2, <2>1, HeardFacts
  <2>4. FailedStage(c)'
    BY <1>1, <1>3, <1>7, <2>2, <2>3 DEF FailedStage
  <2>5. PlaceInv(c)'
    BY <1>1, <1>3 DEF RdmaInv, Stage, PlaceInv
  <2> QED BY <1>3, <2>4, <2>5 DEF Stage, AcceptStage, SetupStage, ReplyStage, ZcStage
<1> QED BY <1>6, <1>7, <1>8, <1>9, OtherStages DEF RdmaInv

\* The listener is closed: every connection whose request is unread is rejected.
LEMMA CloseListenerStep ==
  ASSUME RdmaInv, Rdma!CloseListener
  PROVE  RdmaInv'
<1> DEFINE ev == Rdma!Plain("REJECTED")
<1>1. RdmaTypes /\ ev \in Events /\ ev.name # "ESTABLISHED"
  BY PlainFacts DEF RdmaInv, Names
<1>2. /\ requests' = << >> /\ listening' = FALSE
      /\ UNCHANGED <<zc, pc, stopped, connected, posted, port, peer, live, zcQp>>
  BY DEF Rdma!CloseListener
<1>3. /\ events' \in [Chans -> Seq(Events)]
      /\ \A ch \in Chans : events'[ch] \in {events[ch], Append(events[ch], ev)}
      /\ \A e \in Rdma!Ends : events'[<<e, "base">>] # events[<<e, "base">>] =>
           \E d \in Conns : e = Rdma!Act(d) /\ Requested(d)
      /\ \A e \in Rdma!Ends : events'[<<e, "zc">>] = events[<<e, "zc">>]
  <2> DEFINE unread == {<<Rdma!Act(requests[i].conn), "base">> : i \in DOMAIN requests}
  <2>1. events' = [ch \in Chans |-> IF ch \in unread THEN Append(events[ch], ev) ELSE events[ch]]
    BY DEF Rdma!CloseListener, Chans
  <2>2. \A ch \in Chans : Append(events[ch], ev) \in Seq(Events) /\ events[ch] \in Seq(Events)
    BY <1>1 DEF RdmaTypes
  <2>3. DOMAIN requests = 1 .. Len(requests) /\ \A i \in 1 .. Len(requests) : requests[i].conn \in Conns
    <3>1. requests \in Seq(Request)
      BY <1>1 DEF RdmaTypes
    <3>2. DOMAIN requests = 1 .. Len(requests) /\ \A i \in 1 .. Len(requests) : requests[i] \in Request
      BY <3>1
    <3> QED BY <3>2 DEF Request
  <2>4. ASSUME NEW e \in Rdma!Ends, <<e, "base">> \in unread
        PROVE  \E d \in Conns : e = Rdma!Act(d) /\ Requested(d)
    <3>1. PICK i \in DOMAIN requests : <<e, "base">> = <<Rdma!Act(requests[i].conn), "base">>
      BY <2>4
    <3> QED BY <2>3, <3>1 DEF Requested
  <2>5. \A e \in Rdma!Ends : <<e, "zc">> \notin unread
    OBVIOUS
  <2>6. \A e \in Rdma!Ends : <<e, "base">> \in Chans /\ <<e, "zc">> \in Chans
    BY DEF Chans, Rdma!Layers
  <2> HIDE DEF unread, ev
  <2>7. events' \in [Chans -> Seq(Events)] /\ \A ch \in Chans : events'[ch] \in {events[ch], Append(events[ch], ev)}
    BY <2>1, <2>2
  <2>8. \A ch \in Chans : events'[ch] # events[ch] => ch \in unread
    BY <2>1
  <2> QED BY <2>4, <2>5, <2>6, <2>7, <2>8
<1>4. \A d \in Conns : ~Requested(d)'
  BY <1>2 DEF Requested
<1>5. RdmaTypes'
  <2>1. << >> \in Seq(Request)
    OBVIOUS
  <2> QED BY <1>1, <1>2, <1>3, <2>1 DEF RdmaTypes
<1>6. RequestInv' /\ Rdma!PoolReady'
  BY <1>1, <1>2, LiveFrame DEF RdmaInv, RdmaTypes, RequestInv
<1>7. ASSUME NEW d \in Conns PROVE Stage(d)'
  <2>1. Stage(d)
    BY DEF RdmaInv
  <2>2. /\ Rdma!Act(d) \in Rdma!Ends /\ Rdma!Pas(d) \in Rdma!Ends /\ Rdma!Act(d) # Rdma!Pas(d)
        /\ <<Rdma!Act(d), "base">> \in Chans
    BY EndFacts
  <2>3. pc'[Rdma!Act(d)] = pc[Rdma!Act(d)] /\ pc'[Rdma!Pas(d)] = pc[Rdma!Pas(d)]
    BY <1>2
  <2>4. ActZc(d)' = ActZc(d) /\ PasZc(d)' = PasZc(d)
    BY <1>3, <2>2 DEF ActZc, PasZc
  <2>5. PasBase(d)' = PasBase(d)
    <3>1. \A k \in Conns : Rdma!Pas(d) # Rdma!Act(k)
      BY DEF Rdma!Act, Rdma!Pas
    <3> QED BY <1>3, <2>2, <3>1 DEF PasBase
  <2>6. ActBase(d)' # ActBase(d) => Requested(d)
    <3>1. \A k \in Conns : Rdma!Act(d) = Rdma!Act(k) => d = k
      BY EndFacts
    <3> QED BY <1>3, <2>2, <3>1 DEF ActBase
  <2>7. CASE Requested(d)
    <3>1. pc[Rdma!Pas(d)] = "accept"
      BY <2>1, <2>7 DEF Stage, PlaceInv, SetupStage, ReplyStage, ZcStage, FailedStage, Replied
    <3>2. /\ NotHeard(ActBase(d)) /\ pc[Rdma!Act(d)] = "established" /\ posted[Rdma!Act(d)]
          /\ ActZc(d) = << >> /\ PasBase(d) = << >> /\ PasZc(d) = << >>
      BY <2>1, <2>7, <3>1 DEF Stage, AcceptStage
    <3>3. ActBase(d) \in Seq(Events) /\ ActBase(d)' \in {ActBase(d), Append(ActBase(d), ev)}
      BY <1>1, <1>3, <2>2 DEF ActBase, RdmaTypes
    <3>4. NotHeard(ActBase(d)')
      BY <1>1, <3>2, <3>3, HeardFacts
    <3>5. AcceptStage(d)'
      BY <1>2, <1>4, <2>3, <2>4, <2>5, <3>2, <3>4 DEF AcceptStage, Early
    <3>6. PlaceInv(d)'
      BY <1>2, <2>1, <2>3 DEF Stage, PlaceInv
    <3> QED BY <2>3, <3>1, <3>5, <3>6 DEF Stage, SetupStage, ReplyStage, ZcStage, FailedStage
  <2>8. CASE ~Requested(d)
    <3>1. Same(d)
      BY <1>2, <1>4, <2>3, <2>4, <2>5, <2>6, <2>8 DEF Same
    <3> QED BY <2>1, <3>1, StageFrame
  <2> QED BY <2>7, <2>8
<1> QED BY <1>5, <1>6, <1>7 DEF RdmaInv

\* The accepting caller stops.
LEMMA GiveUpStep ==
  ASSUME RdmaInv, stopped' = TRUE,
         UNCHANGED <<zc, pc, listening, requests, events, connected, posted, port, peer, live, zcQp>>
  PROVE  RdmaInv'
<1>1. RdmaTypes' /\ RequestInv'
  BY DEF RdmaInv, RdmaTypes, RequestInv
<1>2. Rdma!PoolReady'
  BY LiveFrame DEF RdmaInv, RdmaTypes
<1>3. \A c \in Conns : Same(c)
  BY DEF Same, ActBase, ActZc, PasBase, PasZc, Requested
<1> QED BY <1>1, <1>2, <1>3, StageFrame DEF RdmaInv

\* SetupResources fails at the accepting end.
LEMMA SetupFailsStep ==
  ASSUME RdmaInv, NEW c \in Conns, Rdma!SetupFails(c)
  PROVE  RdmaInv'
<1>1. pc[Rdma!Act(c)] = "established" /\ ActBase(c) = << >> /\ ~Requested(c)
  BY DEF RdmaInv, Stage, SetupStage, Rdma!SetupFails
<1>2. NotHeard(ActBase(c))
  BY <1>1 DEF NotHeard
<1> QED BY <1>1, <1>2, LetGoStep DEF Rdma!SetupFails

\* CreateZcQueuePair fails at the accepting end.
LEMMA ZcAcceptFailsStep ==
  ASSUME RdmaInv, NEW c \in Conns, Rdma!ZcAcceptFails(c)
  PROVE  RdmaInv'
<1>1. Stage(c) /\ pc[Rdma!Pas(c)] = "zcAccept" /\ PasZc(c) # << >>
  BY DEF RdmaInv, PasZc, Rdma!ZcAcceptFails
<1>2. pc[Rdma!Act(c)] = "zcEstablished" /\ ActZc(c) = << >> /\ ~Requested(c)
  BY <1>1 DEF Stage, ReplyStage, Replied
<1>3. NotHeard(ActZc(c))
  BY <1>2 DEF NotHeard
<1> QED BY <1>2, <1>3, LetGoStep DEF Rdma!ZcAcceptFails

\* Every step of a connector.
LEMMA RdmaConnectSide ==
  ASSUME RdmaInv, NEW c \in Conns, Rdma!ConnectSide(c)
  PROVE  RdmaInv'
<1>1. CASE Rdma!ResolveAddr(c) \/ Rdma!ResolveRoute(c)
  BY <1>1, ResolveStep DEF Rdma!ResolveAddr, Rdma!ResolveRoute
<1>2. CASE Rdma!AddrResolved(c) \/ Rdma!RouteResolved(c)
  BY <1>2, ResolvedStep DEF Rdma!AddrResolved, Rdma!RouteResolved
<1>3. CASE Rdma!ZcResolveAddr(c) \/ Rdma!ZcResolveRoute(c)
  BY <1>3, ZcResolveStep DEF Rdma!ZcResolveAddr, Rdma!ZcResolveRoute
<1>4. CASE Rdma!ZcAddrResolved(c) \/ Rdma!ZcRouteResolved(c)
  BY <1>4, ZcResolvedStep DEF Rdma!ZcAddrResolved, Rdma!ZcRouteResolved
<1> QED BY <1>1, <1>2, <1>3, <1>4, SetupActiveStep, ConnectStep, ConnectEstablishedStep, FinalizeActiveStep,
           ZcQueuePairActiveStep, ZcConnectStep, ZcConnectEstablishedStep DEF Rdma!ConnectSide

\* Every step of the accepting thread.
LEMMA RdmaAcceptSide ==
  ASSUME RdmaInv, Rdma!AcceptSide
  PROVE  RdmaInv'
<1>1. CASE Rdma!Accept
  BY <1>1, RdmaTakeUpStep DEF Rdma!Accept
<1> QED BY <1>1, SetupPassiveStep, SetupFailsStep, AcceptReplyStep, AcceptEstablishedStep, ZcAcceptStep,
           ZcAcceptFailsStep, ZcAcceptEstablishedStep DEF Rdma!AcceptSide

\* Every step of its caller.
LEMMA RdmaCallerSide ==
  ASSUME RdmaInv, Rdma!CallerSide
  PROVE  RdmaInv'
<1>1. CASE Rdma!GiveUp
  BY <1>1, GiveUpStep DEF Rdma!GiveUp
<1>2. CASE Rdma!AcceptAgain
  BY <1>2, RdmaTakeUpStep DEF Rdma!AcceptAgain
<1> QED BY <1>1, <1>2, CloseListenerStep DEF Rdma!CallerSide

\* The first state.
LEMMA RdmaStart ==
  ASSUME Rdma!Init
  PROVE  RdmaInv
<1>1. \A c \in Conns : Rdma!Act(c) \in Rdma!Ends /\ Rdma!Pas(c) \in Rdma!Ends
  BY EndFacts
<1>2. \A c \in Conns : pc[Rdma!Act(c)] = "start" /\ pc[Rdma!Pas(c)] = "accept"
  BY <1>1 DEF Rdma!Init, Rdma!Act, Rdma!Pas
<1>3. RdmaTypes
  <2>1. pc \in [Rdma!Ends -> Places]
    BY DEF Rdma!Init, Places
  <2>2. << >> \in Seq(Events) /\ << >> \in Seq(Request)
    OBVIOUS
  <2>3. events \in [Chans -> Seq(Events)] /\ requests \in Seq(Request)
    BY <2>2 DEF Rdma!Init, Chans
  <2>4. peer \in [Rdma!Ends -> Wires]
    BY PlainFacts DEF Rdma!Init
  <2> QED BY <2>1, <2>3, <2>4 DEF Rdma!Init, RdmaTypes
<1>4. RequestInv /\ Rdma!PoolReady
  BY DEF Rdma!Init, RequestInv, Rdma!PoolReady
<1>5. ASSUME NEW c \in Conns PROVE Stage(c)
  <2>1. /\ ActBase(c) = << >> /\ ActZc(c) = << >> /\ PasBase(c) = << >> /\ PasZc(c) = << >> /\ ~Requested(c)
    BY EndFacts DEF Rdma!Init, ActBase, ActZc, PasBase, PasZc, Requested, Chans
  <2>2. NotHeard(<< >>)
    BY DEF NotHeard
  <2>3. AcceptStage(c)
    BY <1>1, <1>2, <2>1, <2>2 DEF Rdma!Init, AcceptStage, Early
  <2>4. PlaceInv(c)
    BY <1>1, <1>2 DEF Rdma!Init, PlaceInv, Early
  <2> QED BY <1>2, <2>3, <2>4 DEF Stage, SetupStage, ReplyStage, ZcStage, FailedStage
<1> QED BY <1>3, <1>4, <1>5 DEF RdmaInv

-----------------------------------------------------------------------------
(* The theorems *)

\* The inductive invariant, for either kind of listener.
IInv == (IsShm => ShmInv) /\ (IsRdma => RdmaInv)

\* No more requests wait than there are connections.
LEMMA FewRequests ==
  ASSUME RdmaTypes, RequestInv
  PROVE  Len(requests) <= Cardinality(Conns)
<1> DEFINE f == [i \in 1 .. Len(requests) |-> requests[i].conn]
<1>1. Len(requests) \in Nat /\ \A i \in 1 .. Len(requests) : requests[i].conn \in Conns
  <2>1. requests \in Seq(Request)
    BY DEF RdmaTypes
  <2>2. Len(requests) \in Nat /\ \A i \in 1 .. Len(requests) : requests[i] \in Request
    BY <2>1
  <2> QED BY <2>2 DEF Request
<1>2. f \in [1 .. Len(requests) -> Conns]
  BY <1>1
<1>3. \A i, j \in 1 .. Len(requests) : f[i] = f[j] => i = j
  BY DEF RequestInv
<1>4. f \in Injection(1 .. Len(requests), Conns)
  BY <1>2, <1>3 DEF Injection, IsInjective
<1>5. Cardinality(1 .. Len(requests)) <= Cardinality(Conns)
  BY <1>4, FS_Injection, ConnectionsAssumption
<1>6. Cardinality(1 .. Len(requests)) = Len(requests)
  <2>1. Cardinality(1 .. Len(requests)) = IF 1 > Len(requests) THEN 0 ELSE Len(requests) - 1 + 1
    BY <1>1, FS_Interval
  <2> QED BY ONLY <1>1, <2>1
<1> QED BY <1>5, <1>6

\* What the invariant says of RDMA connections.
LEMMA RdmaPromise == RdmaInv => Rdma!TypeOK /\ Rdma!PoolReady /\ Rdma!SameOutcome
<1> SUFFICES ASSUME RdmaInv PROVE Rdma!TypeOK /\ Rdma!PoolReady /\ Rdma!SameOutcome
  OBVIOUS
<1>1. Rdma!TypeOK
  <2>1. Len(requests) <= Cardinality(Conns)
    BY FewRequests DEF RdmaInv
  <2>2. \A c \in Conns : PlaceInv(c)
    BY DEF RdmaInv, Stage
  <2>3. /\ connected \in [Rdma!Ends -> BOOLEAN] /\ posted \in [Rdma!Ends -> BOOLEAN]
        /\ live \subseteq Rdma!Ends /\ zcQp \subseteq Rdma!Ends
        /\ listening \in BOOLEAN /\ stopped \in BOOLEAN
    BY DEF RdmaInv, RdmaTypes
  <2>4. ASSUME NEW c \in Conns
        PROVE  /\ pc[Rdma!Act(c)] \in {"start", "addr", "addrKnown", "route", "setup", "connect", "established",
                                       "finalize", "zcStart", "zcAddr", "zcAddrKnown", "zcRoute", "zcQueuePair",
                                       "zcConnect", "zcEstablished", "returned", "failed"}
               /\ pc[Rdma!Pas(c)] \in {"accept", "setup", "reply", "established", "zcAccept", "zcEstablished",
                                       "returned", "failed"}
               /\ port[Rdma!Pas(c)] \in {Rdma!NoPort, Rdma!Pas(c)} /\ port[Rdma!Act(c)] = Rdma!NoPort
    BY <2>2 DEF PlaceInv, Early, Onward
  <2>5. Rdma!Cardinality(Conns) = Cardinality(Conns)
    BY Zenon DEF Rdma!Cardinality, Cardinality
  <2> QED BY <2>1, <2>3, <2>4, <2>5 DEF Rdma!TypeOK
<1>2. ASSUME NEW c \in Conns, pc[Rdma!Act(c)] = "returned" \/ pc[Rdma!Pas(c)] = "returned"
      PROVE  /\ pc[Rdma!Act(c)] # "failed" /\ pc[Rdma!Pas(c)] # "failed"
             /\ pc[Rdma!Act(c)] = "returned" => peer[Rdma!Act(c)].from = Rdma!Pas(c)
             /\ pc[Rdma!Pas(c)] = "returned" => peer[Rdma!Pas(c)].from = Rdma!Act(c)
             /\ zc => Rdma!Act(c) \in zcQp /\ Rdma!Pas(c) \in zcQp
  <2>1. Stage(c) /\ zc \in BOOLEAN
    BY DEF RdmaInv, RdmaTypes
  <2>2. "returned" \notin Early \cup Onward
    BY DEF Early, Onward
  <2>3. CASE pc[Rdma!Pas(c)] \in {"established", "zcAccept"} \/ (pc[Rdma!Pas(c)] = "returned" /\ ~zc)
    BY <1>2, <2>1, <2>2, <2>3 DEF Stage, ReplyStage, Replied, Knows
  <2>4. CASE pc[Rdma!Pas(c)] = "zcEstablished" \/ (pc[Rdma!Pas(c)] = "returned" /\ zc)
    BY <1>2, <2>1, <2>2, <2>4 DEF Stage, ZcStage, Replied, Knows
  <2> QED BY <1>2, <2>1, <2>2, <2>3, <2>4 DEF Stage, PlaceInv, AcceptStage, SetupStage, FailedStage
<1>3. ASSUME NEW e \in Rdma!Ends
      PROVE  \E c \in Conns : {e, Rdma!Other(e)} = {Rdma!Act(c), Rdma!Pas(c)}
                              /\ e \in {Rdma!Act(c), Rdma!Pas(c)} /\ e # Rdma!Other(e)
  BY DEF Rdma!Ends, Rdma!Other, Rdma!Act, Rdma!Pas
<1>4. Rdma!SameOutcome
  <2> SUFFICES ASSUME NEW e \in Rdma!Ends, pc[e] = "returned"
               PROVE  /\ pc[Rdma!Other(e)] # "failed" /\ peer[e].from = Rdma!Other(e)
                      /\ zc => {e, Rdma!Other(e)} \subseteq zcQp
    BY DEF Rdma!SameOutcome
  <2>1. PICK c \in Conns : \/ e = Rdma!Act(c) /\ Rdma!Other(e) = Rdma!Pas(c)
                           \/ e = Rdma!Pas(c) /\ Rdma!Other(e) = Rdma!Act(c)
    BY <1>3
  <2> QED BY <1>2, <2>1
<1> QED BY <1>1, <1>4 DEF RdmaInv

\* What the invariant says of a shared-memory rendezvous.
LEMMA ShmPromise == ShmInv => Shm!TypeOK /\ Shm!SharedRing /\ Shm!NoLeak
<1> SUFFICES ASSUME ShmInv PROVE Shm!SharedRing
  BY DEF ShmInv
<1>1. \A k \in Conns : pc[k] = "returned" => Shm!Ring(k) \in served /\ held[k] = Shm!Fds
  BY DEF ShmInv, AckInv, HeldInv
<1>2. ASSUME NEW r \in served
      PROVE  /\ r = Shm!Ring(r[1]) /\ pc[r[1]] \in {"ack", "returned"} /\ adir[r] # dir[r[1]]
             /\ {r} \X Shm!Fds \subseteq adopted
  <2>1. r \in Shm!Rings
    BY DEF ShmInv, Shm!TypeOK
  <2>2. /\ r[2] = attempt[r[1]] /\ pc[r[1]] \in {"ack", "returned"}
        /\ adir[r] = Shm!Local(dir[r[1]]) /\ {r} \X Shm!Fds \subseteq adopted
    BY DEF ShmInv, ServedInv
  <2>3. r = Shm!Ring(r[1])
    BY <2>1, <2>2 DEF Shm!Rings, Shm!Ring
  <2>4. dir[r[1]] \in Shm!Directions
    BY <2>1 DEF ShmInv, ShmTypes, Shm!Rings
  <2> QED BY <2>2, <2>3, <2>4 DEF Shm!Local, Shm!Directions
<1> QED BY <1>1, <1>2 DEF Shm!SharedRing

\* The first state of a rendezvous.
LEMMA ShmStart ==
  ASSUME Shm!Init
  PROVE  ShmInv
<1>1. << >> \in Seq(Note) /\ << >> \in Seq(Shm!Rings)
  OBVIOUS
<1>2. ShmTypes
  BY <1>1 DEF Shm!Init, ShmTypes, Shm!Directions
<1>3. Shm!TypeOK
  BY ConnectionsAssumption DEF Shm!Init, Shm!TypeOK
<1>4. FreshInv /\ AckInv /\ DirInv
  BY DEF Shm!Init, FreshInv, AckInv, DirInv
<1>5. Shm!NoLeak /\ QueueInv /\ ServeInv /\ CountInv /\ ServedInv /\ HeldInv
  BY DEF Shm!Init, Shm!NoLeak, QueueInv, ServeInv, CountInv, ServedInv, HeldInv
<1> QED BY <1>2, <1>3, <1>4, <1>5 DEF ShmInv

\* Every step of a rendezvous.
LEMMA ShmConnectSide ==
  ASSUME ShmInv, NEW k \in Conns, Shm!ConnectSide(k)
  PROVE  ShmInv'
<1>1. CASE Shm!DropRing(k) \/ Shm!ConnectSocketFails(k) \/ Shm!SendResourcesFails(k)
  BY <1>1, ConnectFailsStep DEF Shm!DropRing, Shm!ConnectSocketFails, Shm!SendResourcesFails
<1> QED BY <1>1, CreateRingStep, CreateRingFailsStep, ConnectSocketStep, SendResourcesStep, SendHandshakeStep, RecvAckStep, SendFailsStep
        DEF Shm!ConnectSide

\* Every step of the accepting thread.
LEMMA ShmAcceptSide ==
  ASSUME ShmInv, Shm!AcceptSide
  PROVE  ShmInv'
<1>1. CASE Shm!AcceptSocket
  BY <1>1, TakeUpStep DEF Shm!AcceptSocket
<1>2. CASE Shm!AcceptSocketFails \/ Shm!Adopt
  BY <1>2, ShmGoStep DEF Shm!AcceptSocketFails, Shm!Adopt
<1>3. CASE Shm!AdoptFails \/ Shm!PeerGone
  BY <1>3, ReleaseStep DEF Shm!AdoptFails, Shm!PeerGone
<1> QED BY <1>1, <1>2, <1>3, RecvResourcesStep, RecvTruncatedStep, RecvHandshakeStep, AckStep DEF Shm!AcceptSide

\* Every step of its caller.
LEMMA ShmCallerSide ==
  ASSUME ShmInv, Shm!CallerSide
  PROVE  ShmInv'
<1>1. CASE Shm!GiveUp
  BY <1>1, ShmGoStep DEF Shm!GiveUp
<1>2. CASE Shm!AcceptAgain
  BY <1>2, TakeUpStep DEF Shm!AcceptAgain
<1> QED BY <1>1, <1>2, ShmCloseStep DEF Shm!CallerSide

\* A step that changes nothing.
LEMMA ShmStutter ==
  ASSUME ShmInv, UNCHANGED <<pc, listening, shmVars>>
  PROVE  ShmInv'
<1> USE DEF shmVars
<1>1. Shm!TypeOK' /\ ShmTypes' /\ Shm!NoLeak'
  BY DEF ShmInv, Shm!TypeOK, ShmTypes, Shm!NoLeak, Shm!Ring
<1>2. FreshInv' /\ QueueInv' /\ ServeInv'
  BY DEF ShmInv, FreshInv, Fresh, QueueInv, ServeInv
<1>3. CountInv'
  BY DEF ShmInv, CountInv, SentOn, TakenFrom
<1>4. DirInv' /\ ServedInv' /\ AckInv' /\ HeldInv'
  BY DEF ShmInv, DirInv, ServedInv, AckInv, HeldInv, Shm!Ring, Shm!Local
<1> QED BY <1>1, <1>2, <1>3, <1>4 DEF ShmInv

\* The same for RDMA connections.
LEMMA RdmaStutter ==
  ASSUME RdmaInv, UNCHANGED <<pc, listening, rdmaVars>>
  PROVE  RdmaInv'
<1> USE DEF rdmaVars
<1>1. RdmaTypes' /\ RequestInv'
  BY DEF RdmaInv, RdmaTypes, RequestInv
<1>2. Rdma!PoolReady'
  BY LiveFrame DEF RdmaInv, RdmaTypes
<1>3. \A c \in Conns : Same(c)
  BY DEF Same, ActBase, ActZc, PasBase, PasZc, Requested
<1> QED BY <1>1, <1>2, <1>3, StageFrame DEF RdmaInv

\* Both invariants hold for ever, whichever kind the listener is.
THEOREM ConnectionsInvariant == Spec => []IInv
<1>1. Init => IInv
  BY ShmStart, RdmaStart DEF Init, RdmaInit, ShmInit, IInv, IsShm, IsRdma
<1>2. ASSUME IInv, [Next]_vars PROVE IInv'
  <2>1. kind' = kind
    BY <1>2 DEF Next, vars, RdmaConnector, RdmaAcceptor, RdmaCaller, ShmConnector, ShmAcceptor, ShmCaller
  <2>2. ASSUME kind = "shm" PROVE ShmInv'
    <3>1. ShmInv
      BY <1>2, <2>2 DEF IInv, IsShm
    <3>2. CASE ShmAcceptor
      BY <3>1, <3>2, ShmAcceptSide DEF ShmAcceptor
    <3>3. CASE \E c \in Conns : ShmConnector(c)
      BY <3>1, <3>3, ShmConnectSide DEF ShmConnector
    <3>4. CASE ShmCaller
      BY <3>1, <3>4, ShmCallerSide DEF ShmCaller
    <3>5. CASE UNCHANGED vars
      BY <3>1, <3>5, ShmStutter DEF vars
    <3> QED BY <1>2, <2>2, <3>2, <3>3, <3>4, <3>5 DEF Next, RdmaAcceptor, RdmaCaller, RdmaConnector
  <2>3. ASSUME kind = "rdma" PROVE RdmaInv'
    <3>1. RdmaInv
      BY <1>2, <2>3 DEF IInv, IsRdma
    <3>2. CASE RdmaAcceptor
      BY <3>1, <3>2, RdmaAcceptSide DEF RdmaAcceptor
    <3>3. CASE \E c \in Conns : RdmaConnector(c)
      BY <3>1, <3>3, RdmaConnectSide DEF RdmaConnector
    <3>4. CASE RdmaCaller
      BY <3>1, <3>4, RdmaCallerSide DEF RdmaCaller
    <3>5. CASE UNCHANGED vars
      BY <3>1, <3>5, RdmaStutter DEF vars
    <3> QED BY <1>2, <2>3, <3>2, <3>3, <3>4, <3>5 DEF Next, ShmAcceptor, ShmCaller, ShmConnector
  <2> QED BY <2>1, <2>2, <2>3 DEF IInv, IsShm, IsRdma
<1> QED BY <1>1, <1>2, PTL DEF Spec

\* Whatever fails and whoever retries, an end that has got a transport may
\* use it: its peer's call has not failed, they hold each other's memory or
\* the ring of the same attempt, and receives are posted before a send.
THEOREM EndsAgree == Spec => []SameOutcome
<1>1. IInv => SameOutcome
  BY RdmaPromise, ShmPromise DEF IInv, SameOutcome
<1> QED BY <1>1, ConnectionsInvariant, PTL

\* Whatever fails, however often a connector retries and an acceptor is called
\* again, the shared-memory rendezvous leaves no descriptor open but those of a
\* message that came in part, which RecvResources skips.
THEOREM OnlyTornRingsLeak == Spec => []NoLeak
<1>1. IInv => NoLeak
  BY ShmPromise DEF IInv, NoLeak
<1> QED BY <1>1, ConnectionsInvariant, PTL
=============================================================================
