------------------------ MODULE DynamicExecutorProofs ------------------------
(***************************************************************************)
(* Proofs about DynamicExecutor, for every number of ranks and channels,   *)
(* every batch size, edge capacity and list of plans: the ranks agree on   *)
(* the tasks of a channel, no slice is lost or executed twice, and no item *)
(* on an edge is taken for another.                                        *)
(***************************************************************************)
EXTENDS DynamicExecutor, ProofLemmas

-----------------------------------------------------------------------------
(* The inductive invariant.  Everything is stated over the list claims[c]    *)
(* of a channel's tasks; d stands for it, P for the plans, n for how many of *)
(* the tasks a rank has executed, f for the last plan it has finished.       *)

Message == [type : {"None", "Batch", "End"}, start : Nat, count : Nat]
Entry == [tag : {"control", "slice"}, run : Nat, index : Nat, msg : Message, nth : Nat]

\* The range of every variable.
Types ==
  /\ plans \in Runs /\ run \in [Ranks -> 0 .. Len(plans)] /\ nextSlice \in Nat
  /\ pc \in [Ranks -> [Channels -> {"idle", "claim", "control", "slice", "failed"}]]
  /\ msg \in [Ranks -> [Channels -> Message]] /\ pos \in [Ranks -> [Channels -> Nat]]
  /\ sent \in [Ranks -> [Channels -> BOOLEAN]] /\ rcvd \in [Ranks -> [Channels -> BOOLEAN]]
  /\ edge \in [Ranks -> [Channels -> Seq(Entry)]] /\ log \in [Ranks -> [Channels -> Seq(Entry)]]
  /\ claims \in [Channels -> Seq(Entry)]
  /\ \A r \in Ranks, c \in Channels : Len(edge[r][c]) <= Capacity

IsEnd(e) == e.tag = "control" /\ e.msg.type = "End"
EndOf(e, k) == IsEnd(e) /\ e.run = k
SliceAt(e, k, i) == e.tag = "slice" /\ e.run = k /\ e.index = i

\* Plan k has slices, so its Run wakes the workers.
Wakes(P, k) == k \in 1 .. Len(P) /\ P[k] # << >>

\* An entry is a control Broadcast whose message names slices of its plan, or
\* such a slice.
Proper(P, e, j) ==
  /\ Wakes(P, e.run)
  /\ \/ /\ e = ControlTask(e.run, e.msg, j)
        /\ \/ e.msg.type = "End" /\ e.msg.count = 0
           \/ e.msg.type = "Batch" /\ e.msg.count > 0 /\ e.msg.start + e.msg.count <= Len(P[e.run])
     \/ e = SliceTask(e.run, e.index, j) /\ e.index < Len(P[e.run])

\* The plans follow one another, each closed by its END.
InPlanOrder(P, d) ==
  /\ \A i, j \in DOMAIN d : i < j => d[i].run <= d[j].run /\ (IsEnd(d[i]) => d[i].run < d[j].run)
  /\ \A j \in DOMAIN d : \A k \in 1 .. d[j].run - 1 : Wakes(P, k) => \E i \in 1 .. j - 1 : EndOf(d[i], k)

\* A control Broadcast is followed by the slices it names, and these by the
\* next control Broadcast.
InBatches(d) ==
  /\ d # << >> => d[1].tag = "control"
  /\ \A j \in DOMAIN d : d[j].tag = "control" =>
       /\ j + d[j].msg.count <= Len(d)
       /\ \A x \in 1 .. d[j].msg.count : d[j + x] = SliceTask(d[j].run, d[j].msg.start + x - 1, j + x)
       /\ j + d[j].msg.count < Len(d) => d[j + d[j].msg.count + 1].tag = "control"

List(P, d) == (\A j \in DOMAIN d : Proper(P, d[j], j)) /\ InPlanOrder(P, d) /\ InBatches(d)

\* Of the list a rank has executed the tasks of the plans up to f and, beyond
\* them, none that closes a plan.
Between(P, d, n, f) ==
  /\ \A j \in 1 .. n : IsEnd(d[j]) => d[j].run <= f
  /\ \A j \in n + 1 .. Len(d) : d[j].run > f
  /\ \A k \in 1 .. f : Wakes(P, k) => \E j \in 1 .. n : EndOf(d[j], k)

\* Where a worker is in ProcessChannel, at p in plan k with message m and q
\* slices of it executed, agrees with the list; s and g: it has sent, received.
At(d, n, k, p, m, q, s, g) ==
  /\ p \in {"idle", "claim", "control"} /\ n < Len(d) => d[n + 1].tag = "control"
  /\ p = "slice" => m.type = "Batch" /\ q < m.count /\ q < n /\ d[n - q] = ControlTask(k, m, n - q)
  /\ p = "control" /\ g => n < Len(d) /\ m = d[n + 1].msg
  /\ s \/ g => n < Len(d) /\ p \notin {"idle", "claim"}

\* Rank 0 claims when it has executed all it claimed before.
Leads(d, n, p, m, q) ==
  /\ p \in {"idle", "claim"} => n = Len(d)
  /\ p = "control" => n < Len(d) /\ Len(d) = n + 1 + m.count /\ m = d[n + 1].msg
  /\ p = "slice" => Len(d) = n - q + m.count

\* What a rank has executed is the beginning of the list.
Begins(l, d) == Len(l) <= Len(d) /\ \A j \in 1 .. Len(l) : l[j] = d[j]

FinishedPlan(r, c) == IF pc[r][c] = "idle" THEN run[r] ELSE run[r] - 1

Placed(r, c) ==
  /\ Begins(log[r][c], claims[c])
  /\ pc[r][c] # "idle" => Wakes(plans, run[r])
  /\ Between(plans, claims[c], Len(log[r][c]), FinishedPlan(r, c))
  /\ At(claims[c], Len(log[r][c]), run[r], pc[r][c], msg[r][c], pos[r][c], sent[r][c], rcvd[r][c])
  /\ IF r = 0 THEN Leads(claims[c], Len(log[r][c]), pc[r][c], msg[r][c], pos[r][c]) ELSE pc[r][c] # "claim"

\* The task behind an entry, and whether rank r passes something on in it.
TaskOf(P, e) == IF e.tag = "control" THEN [func |-> "Broadcast", root |-> 0] ELSE P[e.run][e.index + 1]
Crosses(P, r, e) == Sends(r, TaskOf(P, e))

\* The edge e of rank r holds, in order, what r has sent for the tasks up to b
\* and its neighbour, which is done with those up to a, has yet to receive.
Carries(P, d, e, r, a, b) ==
  /\ a <= Len(d) /\ b <= Len(d)
  /\ \A i \in DOMAIN e : e[i].nth \in a + 1 .. b /\ e[i] = d[e[i].nth] /\ Crosses(P, r, e[i])
  /\ \A i, j \in DOMAIN e : i < j => e[i].nth < e[j].nth
  /\ \A j \in a + 1 .. b : Crosses(P, r, d[j]) => \E i \in DOMAIN e : e[i].nth = j
  /\ \A j \in 1 .. a : Crosses(P, r, d[j]) => j <= b

\* The last task a worker has sent for, or received in: its n tasks, and the
\* current one if that side of it is done.
UpTo(n, done) == IF done THEN n + 1 ELSE n
SentUpTo(r, c) == UpTo(Len(log[r][c]), sent[r][c])
RcvdUpTo(r, c) == UpTo(Len(log[r][c]), rcvd[r][c])

Carried(r, c) ==
  Carries(plans, claims[c], edge[r][c], r, RcvdUpTo(GetNextRank(r), c), SentUpTo(r, c))

\* Among the lists D of all channels no slice is twice, and those of the plans
\* before k, and of plan k up to m, are all there.
Taken(D, k, i) == \E c \in Channels : \E j \in DOMAIN D[c] : SliceAt(D[c][j], k, i)
Shared(P, D, k, m) ==
  /\ \A c1, c2 \in Channels : \A j1 \in DOMAIN D[c1], j2 \in DOMAIN D[c2] :
       D[c1][j1].tag = "slice" /\ SliceAt(D[c2][j2], D[c1][j1].run, D[c1][j1].index) => c1 = c2 /\ j1 = j2
  /\ \A c \in Channels : \A j \in DOMAIN D[c] :
       /\ D[c][j].run <= k
       /\ D[c][j].tag = "slice" /\ D[c][j].run = k => D[c][j].index < m
       /\ EndOf(D[c][j], k) => m = Len(P[k])
  /\ Wakes(P, k) => m <= Len(P[k]) /\ \A i \in 0 .. m - 1 : Taken(D, k, i)
  /\ \A h \in 1 .. k - 1 : \A i \in 0 .. Len(P[h]) - 1 : Taken(D, h, i)

IInv ==
  /\ Types
  /\ \A c \in Channels : List(plans, claims[c])
  /\ \A r \in Ranks, c \in Channels : Placed(r, c)
  /\ \A r \in Ranks, c \in Channels : Carried(r, c)
  /\ Shared(plans, claims, run[0], nextSlice)

-----------------------------------------------------------------------------
(* The ring of ranks.                                                        *)

\* A number below N is its own remainder, also after a turn around the ring.
LEMMA AroundOnce ==
  ASSUME NEW n \in Nat \ {0}, NEW a \in 0 .. n - 1
  PROVE  a % n = a /\ (a + n) % n = a
<1>1. ASSUME NEW b \in Nat, NEW k \in {0, 1}, b = a + k * n PROVE b % n = a
  <2> DEFINE q == b \div n
  <2>1. b = n * q + (b % n) /\ b % n \in 0 .. n - 1 /\ q \in Int
    OBVIOUS
  <2>2. a - (b % n) = n * (q - k)
    BY <1>1, <2>1
  <2>3. a - (b % n) > 0 - n /\ a - (b % n) < n
    BY <2>1
  <2>4. CASE q - k >= 1
    BY <2>1, <2>2, <2>3, <2>4
  <2>5. CASE q - k <= 0 - 1
    BY <2>1, <2>2, <2>3, <2>5
  <2>6. CASE q - k = 0
    BY <2>1, <2>2, <2>6
  <2> QED BY <2>1, <2>4, <2>5, <2>6
<1> QED BY <1>1

\* Next and previous rank are inverse, and differ from the rank itself as soon
\* as there are two.
LEMMA RingFacts ==
  ASSUME NEW r \in Ranks
  PROVE  /\ GetNextRank(r) \in Ranks /\ GetPrevRank(r) \in Ranks
         /\ GetNextRank(GetPrevRank(r)) = r /\ GetPrevRank(GetNextRank(r)) = r
         /\ (N > 1 => GetNextRank(r) # r) /\ 0 \in Ranks /\ r \in Nat
<1>1. N \in Nat \ {0} /\ Ranks = 0 .. N - 1 /\ r \in 0 .. N - 1
  BY DynamicAssumption DEF Ranks
<1>2. GetNextRank(r) = IF r + 1 < N THEN r + 1 ELSE 0
  <2>1. CASE r + 1 < N
    BY <1>1, <2>1, AroundOnce DEF GetNextRank
  <2>2. CASE r + 1 = N
    <3>1. (0 + N) % N = 0
      BY <1>1, AroundOnce
    <3> QED BY <1>1, <2>2, <3>1 DEF GetNextRank
  <2> QED BY <1>1, <2>1, <2>2
<1>3. \A q \in 0 .. N - 1 : GetPrevRank(q) = IF q > 0 THEN q - 1 ELSE N - 1
  <2> TAKE q \in 0 .. N - 1
  <2>1. CASE q > 0
    <3>1. ((q - 1) + N) % N = q - 1
      BY <1>1, <2>1, AroundOnce
    <3> QED BY <1>1, <2>1, <3>1 DEF GetPrevRank
  <2>2. CASE q = 0
    <3>1. (N - 1) % N = N - 1
      BY <1>1, AroundOnce
    <3> QED BY <1>1, <2>2, <3>1 DEF GetPrevRank
  <2> QED BY <1>1, <2>1, <2>2
<1>4. \A q \in 0 .. N - 1 : GetNextRank(q) = IF q + 1 < N THEN q + 1 ELSE 0
  <2> TAKE q \in 0 .. N - 1
  <2>1. CASE q + 1 < N
    BY <1>1, <2>1, AroundOnce DEF GetNextRank
  <2>2. CASE q + 1 = N
    <3>1. (0 + N) % N = 0
      BY <1>1, AroundOnce
    <3> QED BY <1>1, <2>2, <3>1 DEF GetNextRank
  <2> QED BY <1>1, <2>1, <2>2
<1> QED BY <1>1, <1>3, <1>4

\* A rank receives in a task exactly when the rank before it sends.
LEMMA BothSides ==
  ASSUME NEW r \in Ranks, NEW t
  PROVE  Recvs(r, t) <=> Sends(GetPrevRank(r), t)
BY RingFacts DEF Recvs, Sends

\* A rank other than 0 receives the control Broadcast; rank 0 does not.
LEMMA ControlSides ==
  ASSUME NEW r \in Ranks
  PROVE  LET t == [func |-> "Broadcast", root |-> 0]
         IN  (r # 0 => Recvs(r, t)) /\ (r = 0 => ~Recvs(r, t))
<1>1. N \in Nat \ {0} /\ r \in 0 .. N - 1
  BY DynamicAssumption DEF Ranks
<1> QED BY <1>1 DEF Recvs

-----------------------------------------------------------------------------
(* Facts about the list of a channel.                                        *)

\* The next entry belongs to the plan the rank is in.
LEMMA NextOfPlan ==
  ASSUME NEW P, NEW d \in Seq(Entry), NEW n \in Nat, NEW k \in Nat \ {0},
         List(P, d), Between(P, d, n, k - 1), Wakes(P, k), n < Len(d)
  PROVE  d[n + 1].run = k
<1>1. d[n + 1].run \in Nat /\ n + 1 \in DOMAIN d /\ n + 1 \in n + 1 .. Len(d)
  <2>1. n + 1 \in DOMAIN d /\ n + 1 \in n + 1 .. Len(d)
    OBVIOUS
  <2>2. d[n + 1] \in Entry
    BY <2>1
  <2> QED BY <2>1, <2>2 DEF Entry
<1>2. d[n + 1].run >= k
  BY <1>1 DEF Between
<1>3. ASSUME d[n + 1].run > k PROVE FALSE
  <2>1. PICK i \in 1 .. (n + 1) - 1 : EndOf(d[i], k)
    BY <1>1, <1>3 DEF List, InPlanOrder
  <2>2. i \in 1 .. n /\ IsEnd(d[i]) /\ d[i].run = k
    BY <2>1 DEF EndOf
  <2> QED BY <2>2 DEF Between
<1> QED BY <1>1, <1>2, <1>3

\* What comes next for a worker: a control Broadcast or the next slice of the
\* message it is in.
LEMMA NextEntry ==
  ASSUME NEW P, NEW d \in Seq(Entry), NEW n \in 0 .. Len(d), NEW k \in Nat \ {0}, NEW m \in Message, NEW q \in Nat,
         NEW p, NEW s \in BOOLEAN, NEW g \in BOOLEAN,
         List(P, d), Between(P, d, n, k - 1), Wakes(P, k), At(d, n, k, p, m, q, s, g)
  PROVE  /\ p = "control" /\ n < Len(d) => d[n + 1] = ControlTask(k, d[n + 1].msg, n + 1)
         /\ p = "slice" => /\ n < Len(d) /\ d[n + 1] = SliceTask(k, m.start + q, n + 1)
                           /\ m.start + q < Len(P[k]) /\ n - q \in DOMAIN d /\ d[n - q].msg = m /\ d[n - q].run = k
                           /\ n - q + m.count <= Len(d)
                           /\ (n - q + m.count < Len(d) => d[n - q + m.count + 1].tag = "control")
<1>1. ASSUME p = "control", n < Len(d) PROVE d[n + 1] = ControlTask(k, d[n + 1].msg, n + 1)
  <2>1. d[n + 1].tag = "control" /\ d[n + 1].run = k /\ n + 1 \in DOMAIN d
    BY <1>1, NextOfPlan DEF At
  <2>2. Proper(P, d[n + 1], n + 1)
    BY <2>1 DEF List
  <2> QED BY <2>1, <2>2 DEF Proper, ControlTask, SliceTask
<1>2. ASSUME p = "slice"
      PROVE  /\ n < Len(d) /\ d[n + 1] = SliceTask(k, m.start + q, n + 1)
             /\ m.start + q < Len(P[k]) /\ n - q \in DOMAIN d /\ d[n - q].msg = m /\ d[n - q].run = k
             /\ n - q + m.count <= Len(d)
             /\ (n - q + m.count < Len(d) => d[n - q + m.count + 1].tag = "control")
  <2>1. m.type = "Batch" /\ q < m.count /\ q < n /\ d[n - q] = ControlTask(k, m, n - q) /\ m.count \in Nat /\ m.start \in Nat
    BY <1>2 DEF At, Message
  <2>2. PICK j \in Nat : j = n - q /\ j >= 1
    BY <2>1
  <2>3. d[j].tag = "control" /\ d[j].msg = m /\ d[j].run = k
    BY <2>1, <2>2 DEF ControlTask
  <2>4. j \in DOMAIN d
    BY <2>2
  <2>5. /\ j + m.count <= Len(d)
        /\ \A x \in 1 .. m.count : d[j + x] = SliceTask(k, m.start + x - 1, j + x)
        /\ j + m.count < Len(d) => d[j + m.count + 1].tag = "control"
    BY <2>3, <2>4 DEF List, InBatches
  <2>6. d[n + 1] = SliceTask(k, m.start + q, n + 1)
    <3>0. PICK x \in 1 .. m.count : x = q + 1
      BY <2>1
    <3>1. d[j + (q + 1)] = SliceTask(k, m.start + (q + 1) - 1, j + (q + 1))
      BY <2>5, <3>0
    <3>2. j + (q + 1) = n + 1 /\ m.start + (q + 1) - 1 = m.start + q
      BY <2>1, <2>2
    <3> QED BY <3>1, <3>2
  <2>7. m.start + m.count <= Len(P[k])
    <3>1. Proper(P, d[j], j)
      BY <2>4 DEF List
    <3> QED BY <3>1, <2>1, <2>3 DEF Proper, SliceTask
  <2>8. P[k] = P[k] /\ m.start + q < Len(P[k])
    BY <2>1, <2>7
  <2>9. n < Len(d)
    BY <2>1, <2>2, <2>5
  <2> QED BY <2>2, <2>3, <2>4, <2>5, <2>6, <2>8, <2>9
<1> QED BY <1>1, <1>2

\* A plan without slices puts nothing on the list.
LEMMA SkipsPlan ==
  ASSUME NEW P, NEW d \in Seq(Entry), NEW n \in 0 .. Len(d), NEW f \in Nat,
         List(P, d), Between(P, d, n, f), ~Wakes(P, f + 1)
  PROVE  Between(P, d, n, f + 1)
<1>1. \A j \in 1 .. n : IsEnd(d[j]) => d[j].run <= f + 1
  <2> TAKE j \in 1 .. n
  <2>1. d[j] \in Entry
    OBVIOUS
  <2>2. d[j].run \in Nat
    BY <2>1 DEF Entry
  <2> QED BY <2>2 DEF Between
<1>2. \A j \in n + 1 .. Len(d) : d[j].run > f + 1
  <2> TAKE j \in n + 1 .. Len(d)
  <2>1. d[j] \in Entry /\ j \in DOMAIN d
    OBVIOUS
  <2>2. d[j].run \in Nat /\ d[j].run > f
    BY <2>1 DEF Entry, Between
  <2>3. Wakes(P, d[j].run)
    BY <2>1 DEF List, Proper
  <2> QED BY <2>2, <2>3
<1>3. \A k \in 1 .. f + 1 : Wakes(P, k) => \E j \in 1 .. n : EndOf(d[j], k)
  <2>1. \A k \in 1 .. f + 1 : k \in 1 .. f \/ k = f + 1
    OBVIOUS
  <2> QED BY <2>1 DEF Between
<1> QED BY <1>1, <1>2, <1>3 DEF Between

\* A task more executed: the plan goes on unless it was the END.
LEMMA StepsOn ==
  ASSUME NEW P, NEW d \in Seq(Entry), NEW n \in 0 .. Len(d), NEW f \in Nat,
         List(P, d), Between(P, d, n, f), n < Len(d)
  PROVE  /\ ~IsEnd(d[n + 1]) => Between(P, d, n + 1, f)
         /\ EndOf(d[n + 1], f + 1) => Between(P, d, n + 1, f + 1)
<1>0. n + 1 \in DOMAIN d /\ \A j \in DOMAIN d : d[j].run \in Nat
  <2>1. \A j \in DOMAIN d : d[j] \in Entry
    OBVIOUS
  <2> QED BY <2>1 DEF Entry
<1>1. \A j \in 1 .. n + 1 : j \in 1 .. n \/ j = n + 1
  OBVIOUS
<1>2. \A j \in (n + 1) + 1 .. Len(d) : j \in n + 1 .. Len(d) /\ j \in DOMAIN d /\ n + 1 < j
  OBVIOUS
<1>3. ASSUME ~IsEnd(d[n + 1]) PROVE Between(P, d, n + 1, f)
  <2>1. \A j \in 1 .. n : j \in 1 .. n + 1
    OBVIOUS
  <2> QED BY <1>1, <1>2, <1>3, <2>1 DEF Between
<1>4. ASSUME EndOf(d[n + 1], f + 1) PROVE Between(P, d, n + 1, f + 1)
  <2>1. \A j \in 1 .. n + 1 : IsEnd(d[j]) => d[j].run <= f + 1
    <3> TAKE j \in 1 .. n + 1
    <3>1. CASE j = n + 1
      BY <1>4, <3>1 DEF EndOf
    <3>2. CASE j \in 1 .. n
      <4>1. j \in DOMAIN d
        BY <3>2
      <4>2. d[j].run \in Nat
        BY <4>1, <1>0
      <4> QED BY <3>2, <4>2 DEF Between
    <3> QED BY <1>1, <3>1, <3>2
  <2>2. \A j \in (n + 1) + 1 .. Len(d) : d[j].run > f + 1
    <3> TAKE j \in (n + 1) + 1 .. Len(d)
    <3>1. d[n + 1].run < d[j].run
      BY <1>0, <1>2, <1>4 DEF EndOf, List, InPlanOrder
    <3> QED BY <3>1, <1>4 DEF EndOf
  <2>3. \A k \in 1 .. f + 1 : Wakes(P, k) => \E j \in 1 .. n + 1 : EndOf(d[j], k)
    <3>1. \A k \in 1 .. f + 1 : k \in 1 .. f \/ k = f + 1
      OBVIOUS
    <3>2. \A j \in 1 .. n : j \in 1 .. n + 1
      OBVIOUS
    <3> QED BY <3>1, <3>2, <1>4 DEF Between
  <2> QED BY <2>1, <2>2, <2>3 DEF Between
<1> QED BY <1>3, <1>4

\* An executed task continues the beginning of the list.
LEMMA BeginsOn ==
  ASSUME NEW d \in Seq(Entry), NEW l \in Seq(Entry), Begins(l, d), Len(l) < Len(d)
  PROVE  LET h == Append(l, d[Len(l) + 1]) IN h \in Seq(Entry) /\ Len(h) = Len(l) + 1 /\ Begins(h, d)
<1>1. PICK n \in Nat, x \in Entry : n = Len(l) /\ x = d[n + 1] /\ n < Len(d)
  <2>1. Len(l) + 1 \in DOMAIN d
    OBVIOUS
  <2> QED BY <2>1
<1>a. x \in Entry
  BY <1>1
<1>b. Append(l, x) \in Seq(Entry)
  BY <1>a, AppendProperties
<1>2. PICK h \in Seq(Entry) : h = Append(l, x)
  BY <1>b
<1>3. Len(h) = n + 1 /\ (\A j \in 1 .. n : h[j] = l[j]) /\ h[n + 1] = x
  BY <1>1, <1>2
<1>4. \A j \in 1 .. n + 1 : j \in 1 .. n \/ j = n + 1
  OBVIOUS
<1>5. Begins(h, d)
  BY <1>1, <1>3, <1>4 DEF Begins
<1> QED BY <1>1, <1>2, <1>3, <1>5

-----------------------------------------------------------------------------
(* Facts about an edge.                                                      *)

\* The sender puts its next task on the edge.
LEMMA CarriesPut ==
  ASSUME NEW P, NEW d \in Seq(Entry), NEW e \in Seq(Entry), NEW r, NEW a \in Nat, NEW b \in Nat,
         Carries(P, d, e, r, a, b), b < Len(d), d[b + 1].nth = b + 1, Crosses(P, r, d[b + 1])
  PROVE  Append(e, d[b + 1]) \in Seq(Entry) /\ Carries(P, d, Append(e, d[b + 1]), r, a, b + 1)
<1>1. PICK x \in Entry : x = d[b + 1]
  <2>1. b + 1 \in DOMAIN d
    OBVIOUS
  <2> QED BY <2>1
<1>a. x \in Entry
  BY <1>1
<1>b. Append(e, x) \in Seq(Entry) /\ Len(e) \in Nat /\ DOMAIN e = 1 .. Len(e)
  BY <1>a, AppendProperties
<1>2. PICK h \in Seq(Entry), m \in Nat : h = Append(e, x) /\ m = Len(e) /\ DOMAIN e = 1 .. m
  BY <1>b
<1>3. DOMAIN h = 1 .. m + 1 /\ (\A i \in 1 .. m : h[i] = e[i]) /\ h[m + 1] = x
  BY <1>2
<1>4. \A i \in 1 .. m + 1 : i \in 1 .. m \/ i = m + 1
  OBVIOUS
<1>5. a <= b
  <2>1. SUFFICES ASSUME b + 1 <= a PROVE FALSE
    OBVIOUS
  <2>2. b + 1 \in 1 .. a
    BY <2>1
  <2> QED BY <2>2 DEF Carries
<1>6. \A i \in DOMAIN h : h[i].nth \in a + 1 .. b + 1 /\ h[i] = d[h[i].nth] /\ Crosses(P, r, h[i])
  <2> TAKE i \in DOMAIN h
  <2>1. CASE i \in 1 .. m
    <3>1. e[i].nth \in a + 1 .. b /\ e[i] = d[e[i].nth] /\ Crosses(P, r, e[i])
      BY <1>2, <2>1 DEF Carries
    <3>2. \A y \in a + 1 .. b : y \in a + 1 .. b + 1
      OBVIOUS
    <3> QED BY <3>1, <3>2, <2>1, <1>3
  <2>2. CASE i = m + 1
    <3>1. b + 1 \in a + 1 .. b + 1
      BY <1>5
    <3> QED BY <2>2, <3>1, <1>1, <1>3
  <2> QED BY <2>1, <2>2, <1>3, <1>4
<1>7. \A i, j \in DOMAIN h : i < j => h[i].nth < h[j].nth
  <2> TAKE i \in DOMAIN h, j \in DOMAIN h
  <2> HAVE i < j
  <2>1. i \in 1 .. m /\ h[i] = e[i] /\ e[i].nth \in a + 1 .. b
    BY <1>2, <1>3, <1>4 DEF Carries
  <2>2. CASE j \in 1 .. m
    BY <2>1, <2>2, <1>2, <1>3 DEF Carries
  <2>3. CASE j = m + 1
    BY <2>1, <2>3, <1>1, <1>3
  <2> QED BY <2>2, <2>3, <1>3, <1>4
<1>8. \A j \in a + 1 .. b + 1 : Crosses(P, r, d[j]) => \E i \in DOMAIN h : h[i].nth = j
  <2> TAKE j \in a + 1 .. b + 1
  <2> HAVE Crosses(P, r, d[j])
  <2>1. CASE j = b + 1
    <3>1. m + 1 \in DOMAIN h
      BY <1>3
    <3> QED BY <2>1, <3>1, <1>1, <1>3
  <2>2. CASE j \in a + 1 .. b
    <3>1. PICK i \in DOMAIN e : e[i].nth = j
      BY <2>2 DEF Carries
    <3>2. i \in DOMAIN h /\ h[i] = e[i]
      BY <3>1, <1>2, <1>3
    <3> QED BY <3>1, <3>2
  <2> QED BY <2>1, <2>2
<1>9. \A j \in 1 .. a : Crosses(P, r, d[j]) => j <= b + 1
  BY DEF Carries
<1>10. a <= Len(d) /\ b + 1 <= Len(d)
  BY DEF Carries
<1> HIDE DEF Crosses
<1>11. Carries(P, d, h, r, a, b + 1)
  BY <1>6, <1>7, <1>8, <1>9, <1>10 DEF Carries
<1> QED BY <1>1, <1>2, <1>11

\* The sender is done with a task it sends nothing for.
LEMMA CarriesSkip ==
  ASSUME NEW P, NEW d \in Seq(Entry), NEW e \in Seq(Entry), NEW r, NEW a \in Nat, NEW b \in Nat,
         Carries(P, d, e, r, a, b), b < Len(d), ~Crosses(P, r, d[b + 1])
  PROVE  Carries(P, d, e, r, a, b + 1)
<1>1. \A i \in DOMAIN e : e[i].nth \in a + 1 .. b + 1
  BY DEF Carries
<1>2. \A j \in a + 1 .. b + 1 : j \in a + 1 .. b \/ j = b + 1
  OBVIOUS
<1>3. \A j \in 1 .. a : Crosses(P, r, d[j]) => j <= b + 1
  BY DEF Carries
<1>4. b + 1 <= Len(d)
  OBVIOUS
<1> QED BY <1>1, <1>2, <1>3, <1>4 DEF Carries

\* The receiver is done with a task it receives nothing for.
LEMMA CarriesPass ==
  ASSUME NEW P, NEW d \in Seq(Entry), NEW e \in Seq(Entry), NEW r, NEW a \in Nat, NEW b \in Nat,
         Carries(P, d, e, r, a, b), a < Len(d), ~Crosses(P, r, d[a + 1])
  PROVE  Carries(P, d, e, r, a + 1, b)
<1>1. \A i \in DOMAIN e : e[i].nth \in (a + 1) + 1 .. b
  <2> TAKE i \in DOMAIN e
  <2>1. e[i].nth \in a + 1 .. b /\ e[i] = d[e[i].nth] /\ Crosses(P, r, e[i])
    BY DEF Carries
  <2>2. e[i].nth # a + 1
    BY <2>1
  <2> QED BY <2>1, <2>2
<1>2. \A j \in 1 .. a + 1 : Crosses(P, r, d[j]) => j <= b
  <2>1. \A j \in 1 .. a + 1 : j \in 1 .. a \/ j = a + 1
    OBVIOUS
  <2> QED BY <2>1 DEF Carries
<1>3. \A j \in (a + 1) + 1 .. b : j \in a + 1 .. b
  OBVIOUS
<1>4. a + 1 <= Len(d)
  OBVIOUS
<1> QED BY <1>1, <1>2, <1>3, <1>4 DEF Carries

\* The head of an edge is the next task the receiver takes something in for;
\* the rest is as it should be once it has been received.
LEMMA CarriesTake ==
  ASSUME NEW P, NEW d \in Seq(Entry), NEW e \in Seq(Entry), NEW r, NEW a \in Nat, NEW b \in Nat,
         Carries(P, d, e, r, a, b), e # << >>, a < Len(d) => Crosses(P, r, d[a + 1])
  PROVE  /\ a < Len(d) /\ Head(e) = d[a + 1]
         /\ Tail(e) \in Seq(Entry) /\ Carries(P, d, Tail(e), r, a + 1, b)
<1>1. PICK m \in Nat : m = Len(e) /\ DOMAIN e = 1 .. m /\ m > 0 /\ 1 \in DOMAIN e
  OBVIOUS
<1>2. e[1].nth \in a + 1 .. b /\ e[1] = d[e[1].nth] /\ a <= Len(d) /\ b <= Len(d)
  BY <1>1 DEF Carries
<1>3. a < Len(d) /\ a + 1 \in a + 1 .. b /\ a + 1 <= b
  BY <1>2
<1>4. PICK i \in DOMAIN e : e[i].nth = a + 1
  BY <1>3 DEF Carries
<1>5. e[1].nth = a + 1
  <2>1. CASE i = 1
    BY <2>1, <1>4
  <2>2. CASE i > 1
    <3>1. e[1].nth < e[i].nth
      BY <2>2, <1>1 DEF Carries
    <3> QED BY <3>1, <1>2, <1>4
  <2> QED BY <2>1, <2>2, <1>1
<1>6. Head(e) = d[a + 1]
  <2>1. Head(e) = e[1]
    BY <1>1
  <2> QED BY <2>1, <1>2, <1>5
<1>7. PICK h \in Seq(Entry) : h = Tail(e) /\ DOMAIN h = 1 .. m - 1 /\ \A j \in 1 .. m - 1 : h[j] = e[j + 1]
  <2>1. PICK h : h = Tail(e)
    OBVIOUS
  <2>2. h \in Seq(Entry) /\ Len(h) = m - 1
    BY <2>1, <1>1
  <2>3. DOMAIN h = 1 .. m - 1
    BY <2>2, <1>1
  <2>4. \A j \in 1 .. m - 1 : h[j] = e[j + 1]
    BY <2>1, <1>1
  <2> QED BY <2>1, <2>2, <2>3, <2>4
<1>8. \A j \in 1 .. m - 1 : j + 1 \in DOMAIN e /\ j + 1 > 1
  BY <1>1
<1>9. \A j \in DOMAIN h : h[j].nth \in (a + 1) + 1 .. b /\ h[j] = d[h[j].nth] /\ Crosses(P, r, h[j])
  <2> TAKE j \in DOMAIN h
  <2>1. h[j] = e[j + 1] /\ j + 1 \in DOMAIN e /\ j + 1 > 1
    BY <1>7, <1>8
  <2>2. e[1].nth < e[j + 1].nth /\ e[j + 1].nth \in a + 1 .. b /\ e[j + 1] = d[e[j + 1].nth] /\ Crosses(P, r, e[j + 1])
    BY <2>1, <1>1 DEF Carries
  <2>3. e[j + 1].nth \in (a + 1) + 1 .. b
    BY <2>2, <1>5, SMTT(30)
  <2> QED BY <2>1, <2>2, <2>3
<1>10. \A x, y \in DOMAIN h : x < y => h[x].nth < h[y].nth
  <2> TAKE x \in DOMAIN h, y \in DOMAIN h
  <2> HAVE x < y
  <2>1. h[x] = e[x + 1] /\ h[y] = e[y + 1] /\ x + 1 \in DOMAIN e /\ y + 1 \in DOMAIN e /\ x + 1 < y + 1
    BY <1>7, <1>8
  <2> QED BY <2>1 DEF Carries
<1>11. \A j \in (a + 1) + 1 .. b : Crosses(P, r, d[j]) => \E x \in DOMAIN h : h[x].nth = j
  <2> TAKE j \in (a + 1) + 1 .. b
  <2> HAVE Crosses(P, r, d[j])
  <2>1. j \in a + 1 .. b /\ j # a + 1
    OBVIOUS
  <2>2. PICK x \in DOMAIN e : e[x].nth = j
    BY <2>1 DEF Carries
  <2>3. x \in Nat /\ x # 1 /\ x \in 1 .. m
    BY <2>1, <2>2, <1>1, <1>5
  <2>4. x - 1 \in 1 .. m - 1 /\ (x - 1) + 1 = x
    BY <2>3, <1>1
  <2> QED BY <2>2, <2>4, <1>7
<1>12. \A j \in 1 .. a + 1 : Crosses(P, r, d[j]) => j <= b
  <2>1. \A j \in 1 .. a + 1 : j \in 1 .. a \/ j = a + 1
    OBVIOUS
  <2> QED BY <2>1, <1>3 DEF Carries
<1>13. a + 1 <= Len(d)
  BY <1>3
<1>14. Carries(P, d, h, r, a + 1, b)
  BY <1>2, <1>9, <1>10, <1>11, <1>12, <1>13 DEF Carries
<1> QED BY <1>3, <1>6, <1>7, <1>14

-----------------------------------------------------------------------------
(* A claim: the list grows.                                                  *)

\* List h is list d and, behind it, what message m of plan k announces.
Extends(h, d, k, m) ==
  /\ Len(h) = Len(d) + 1 + m.count
  /\ \A j \in 1 .. Len(d) : h[j] = d[j]
  /\ h[Len(d) + 1] = ControlTask(k, m, Len(d) + 1)
  /\ \A x \in 1 .. m.count : h[Len(d) + 1 + x] = SliceTask(k, m.start + x - 1, Len(d) + 1 + x)

\* The message of a claim: END, or slices of plan k from s on.
Announces(P, k, m, s) ==
  /\ Wakes(P, k) /\ m \in Message /\ s <= Len(P[k])
  /\ \/ m.type = "End" /\ m.count = 0 /\ s = Len(P[k])
     \/ m.type = "Batch" /\ m.count > 0 /\ m.start = s /\ s + m.count <= Len(P[k])

\* A plan is a sequence of slices.
LEMMA PlanFacts ==
  ASSUME NEW P \in Runs
  PROVE  Len(P) \in Nat /\ \A k \in 1 .. Len(P) : Len(P[k]) \in Nat
<1>1. P \in Seq(Seq([func : {"Exchange", "Broadcast"}, root : Ranks]))
  BY DynamicAssumption
<1> QED BY <1>1

\* Entries of the list are well formed.
LEMMA EntryTypes ==
  ASSUME NEW k \in Nat, NEW m \in Message, NEW i \in Nat, NEW n \in Nat
  PROVE  ControlTask(k, m, n) \in Entry /\ SliceTask(k, i, n) \in Entry
BY DEF ControlTask, SliceTask, Entry, NoMsg, Message

\* A claim appends the tasks its message announces.
LEMMA ClaimExtends ==
  ASSUME NEW d \in Seq(Entry), NEW k \in Nat, NEW m \in Message
  PROVE  LET h == d \o Tasks(k, m, Len(d)) IN h \in Seq(Entry) /\ Extends(h, d, k, m)
<1>0. PICK n \in Nat : n = Len(d)
  OBVIOUS
<1>t. PICK t : t = Tasks(k, m, n)
  OBVIOUS
<1>1. n = Len(d) /\ t = Tasks(k, m, n)
  BY <1>0, <1>t
<1>2. m.count \in Nat /\ m.start \in Nat
  BY DEF Message
<1>3. \A j \in 1 .. m.count + 1 : t[j] = (IF j = 1 THEN ControlTask(k, m, n + 1) ELSE SliceTask(k, m.start + j - 2, n + j))
  BY <1>1 DEF Tasks
<1>4. t \in Seq(Entry) /\ Len(t) = m.count + 1
  <2>1. ASSUME NEW j \in 1 .. m.count + 1 PROVE t[j] \in Entry
    <3>1. CASE j = 1
      <4>1. ControlTask(k, m, n + 1) \in Entry
        BY EntryTypes
      <4> QED BY <3>1, <4>1, <1>3
    <3>2. CASE j # 1
      <4>1. m.start + j - 2 \in Nat /\ n + j \in Nat
        BY <3>2, <1>2
      <4>2. SliceTask(k, m.start + j - 2, n + j) \in Entry
        BY <4>1, EntryTypes
      <4> QED BY <3>2, <4>2, <1>3
    <3> QED BY <3>1, <3>2
  <2>2. t \in [1 .. m.count + 1 -> Entry]
    <3>1. DOMAIN t = 1 .. m.count + 1 /\ t = [j \in 1 .. m.count + 1 |-> t[j]]
      BY <1>1 DEF Tasks
    <3> QED BY <3>1, <2>1
  <2>3. m.count + 1 \in Nat
    BY <1>2
  <2> QED BY <2>2, <2>3
<1>5. PICK h : h = d \o t
  OBVIOUS
<1>6. /\ h \in Seq(Entry) /\ Len(h) = n + (m.count + 1)
      /\ \A j \in 1 .. n + (m.count + 1) : h[j] = IF j <= n THEN d[j] ELSE t[j - n]
  <2>1. /\ d \o t \in Seq(Entry) /\ Len(d \o t) = Len(d) + Len(t)
        /\ \A j \in 1 .. Len(d) + Len(t) : (d \o t)[j] = IF j <= Len(d) THEN d[j] ELSE t[j - Len(d)]
    BY <1>4, ConcatProperties
  <2> QED BY <2>1, <1>1, <1>4, <1>5
<1>7. \A j \in 1 .. n : h[j] = d[j]
  <2> TAKE j \in 1 .. n
  <2>1. j \in 1 .. n + (m.count + 1) /\ j <= n
    BY <1>2
  <2> QED BY <2>1, <1>6
<1>8. h[n + 1] = ControlTask(k, m, n + 1)
  <2>1. n + 1 \in 1 .. n + (m.count + 1) /\ (n + 1) - n = 1 /\ 1 \in 1 .. m.count + 1
    BY <1>2
  <2>2. h[n + 1] = t[1]
    BY <2>1, <1>6
  <2> QED BY <2>1, <2>2, <1>3
<1>9. ASSUME NEW x \in 1 .. m.count PROVE h[n + 1 + x] = SliceTask(k, m.start + x - 1, n + 1 + x)
  <2>1. n + 1 + x \in 1 .. n + (m.count + 1) /\ (n + 1 + x) - n = x + 1 /\ x + 1 \in 1 .. m.count + 1 /\ x + 1 # 1
    BY <1>2
  <2>2. h[n + 1 + x] = t[x + 1]
    BY <2>1, <1>6
  <2>3. m.start + (x + 1) - 2 = m.start + x - 1 /\ n + (x + 1) = n + 1 + x
    BY <1>2
  <2> QED BY <2>1, <2>2, <2>3, <1>3
<1>10. Len(h) = n + 1 + m.count
  BY <1>2, <1>6
<1> QED BY <1>1, <1>5, <1>6, <1>7, <1>8, <1>9, <1>10 DEF Extends

\* The longer list: its entries are the old ones or belong to plan k.
LEMMA LongerFacts ==
  ASSUME NEW P \in Runs, NEW d \in Seq(Entry), NEW h \in Seq(Entry), NEW k \in Nat, NEW m, NEW s \in Nat,
         Extends(h, d, k, m), Announces(P, k, m, s), \A j \in DOMAIN d : Proper(P, d[j], j)
  PROVE  /\ \A j \in DOMAIN h : (j \in DOMAIN d /\ h[j] = d[j]) \/ (j > Len(d) /\ h[j].run = k)
         /\ \A j \in DOMAIN h : Proper(P, h[j], j)
         /\ \A j \in DOMAIN h : j > Len(d) => (h[j].tag = "control" <=> j = Len(d) + 1)
         /\ \A j \in DOMAIN h : IsEnd(h[j]) /\ j > Len(d) => s = Len(P[k]) /\ j = Len(h)
         /\ \A j \in DOMAIN d : j \in DOMAIN h /\ h[j] = d[j]
         /\ Len(d) < Len(h) /\ h[Len(d) + 1].tag = "control"
<1>1. PICK n \in Nat : n = Len(d) /\ DOMAIN d = 1 .. n
  OBVIOUS
<1>2. m.count \in Nat /\ m.start \in Nat /\ Len(h) = n + 1 + m.count /\ DOMAIN h = 1 .. n + 1 + m.count
  BY <1>1 DEF Extends, Announces, Message
<1>3. \A j \in 1 .. n + 1 + m.count : j \in 1 .. n \/ j = n + 1 \/ \E x \in 1 .. m.count : j = n + 1 + x
  <2> TAKE j \in 1 .. n + 1 + m.count
  <2>1. CASE j > n + 1
    <3>1. j - (n + 1) \in 1 .. m.count /\ j = n + 1 + (j - (n + 1))
      BY <2>1, <1>2
    <3> QED BY <3>1
  <2> QED BY <2>1, <1>2
<1>4. \A j \in 1 .. n : h[j] = d[j]
  BY <1>1 DEF Extends
<1>5. h[n + 1] = ControlTask(k, m, n + 1)
  BY <1>1 DEF Extends
<1>6. \A x \in 1 .. m.count : h[n + 1 + x] = SliceTask(k, m.start + x - 1, n + 1 + x)
  BY <1>1 DEF Extends
<1>7. h[n + 1].run = k /\ h[n + 1].tag = "control" /\ h[n + 1].msg = m
  BY <1>5 DEF ControlTask
<1>8. \A x \in 1 .. m.count : h[n + 1 + x].run = k /\ h[n + 1 + x].tag = "slice" /\ h[n + 1 + x].index = m.start + x - 1
  <2> TAKE x \in 1 .. m.count
  <2>1. h[n + 1 + x] = SliceTask(k, m.start + x - 1, n + 1 + x)
    BY <1>6
  <2> QED BY <2>1 DEF SliceTask
<1>9. Proper(P, h[n + 1], n + 1)
  <2>1. h[n + 1] = ControlTask(h[n + 1].run, h[n + 1].msg, n + 1)
    BY <1>5, <1>7
  <2>2. Wakes(P, h[n + 1].run)
    BY <1>7 DEF Announces
  <2>3. \/ m.type = "End" /\ m.count = 0
        \/ m.type = "Batch" /\ m.count > 0 /\ m.start + m.count <= Len(P[k])
    BY DEF Announces
  <2> QED BY <2>1, <2>2, <2>3, <1>7 DEF Proper
<1>10. ASSUME NEW x \in 1 .. m.count PROVE Proper(P, h[n + 1 + x], n + 1 + x)
  <2>1. h[n + 1 + x] = SliceTask(h[n + 1 + x].run, h[n + 1 + x].index, n + 1 + x)
    BY <1>6, <1>8
  <2>2. m.count > 0 /\ m.start + m.count <= Len(P[k])
    BY <1>2 DEF Announces
  <2>3. m.start + x - 1 < Len(P[k])
    <3>1. PICK L \in Nat : L = Len(P[k])
      BY PlanFacts DEF Announces, Wakes
    <3> QED BY <3>1, <2>2, <1>2
  <2> QED BY <2>1, <2>3, <1>8 DEF Proper, Announces
<1>11. \A j \in DOMAIN h : (j \in DOMAIN d /\ h[j] = d[j]) \/ (j > Len(d) /\ h[j].run = k)
  <2> TAKE j \in DOMAIN h
  <2>1. CASE j \in 1 .. n
    BY <2>1, <1>1, <1>4
  <2>2. CASE j = n + 1
    BY <2>2, <1>1, <1>7
  <2>3. CASE \E x \in 1 .. m.count : j = n + 1 + x
    <3>1. PICK x \in 1 .. m.count : j = n + 1 + x
      BY <2>3
    <3>2. j > n
      BY <3>1, <1>2
    <3> QED BY <3>1, <3>2, <1>1, <1>8
  <2> QED BY <2>1, <2>2, <2>3, <1>2, <1>3
<1>12. \A j \in DOMAIN h : Proper(P, h[j], j)
  BY <1>1, <1>2, <1>3, <1>4, <1>9, <1>10
<1>13. \A j \in DOMAIN h : j > Len(d) => (h[j].tag = "control" <=> j = Len(d) + 1)
  <2> TAKE j \in DOMAIN h
  <2> HAVE j > Len(d)
  <2>1. CASE j = n + 1
    BY <2>1, <1>1, <1>7
  <2>2. CASE \E x \in 1 .. m.count : j = n + 1 + x
    <3>1. PICK x \in 1 .. m.count : j = n + 1 + x
      BY <2>2
    <3>2. h[j].tag = "slice" /\ j # n + 1
      BY <3>1, <1>2, <1>8
    <3> QED BY <3>2, <1>1
  <2> QED BY <2>1, <2>2, <1>1, <1>2, <1>3
<1>14. \A j \in DOMAIN h : IsEnd(h[j]) /\ j > Len(d) => s = Len(P[k]) /\ j = Len(h)
  <2> TAKE j \in DOMAIN h
  <2> HAVE IsEnd(h[j]) /\ j > Len(d)
  <2>1. j = n + 1 /\ m.type = "End"
    BY <1>1, <1>7, <1>13 DEF IsEnd
  <2>2. s = Len(P[k]) /\ m.count = 0
    BY <2>1 DEF Announces
  <2> QED BY <2>1, <2>2, <1>2
<1>15. \A j \in DOMAIN d : j \in DOMAIN h /\ h[j] = d[j]
  BY <1>1, <1>2, <1>4
<1>16. Len(d) < Len(h) /\ h[Len(d) + 1].tag = "control"
  BY <1>1, <1>2, <1>7
<1> QED BY <1>11, <1>12, <1>13, <1>14, <1>15, <1>16

\* The longer list is still a list.
LEMMA ListGrows ==
  ASSUME NEW P \in Runs, NEW d \in Seq(Entry), NEW h \in Seq(Entry), NEW k \in Nat \ {0}, NEW m, NEW s \in Nat,
         Extends(h, d, k, m), Announces(P, k, m, s),
         List(P, d), Between(P, d, Len(d), k - 1), \A j \in DOMAIN d : d[j].run <= k
  PROVE  List(P, h)
<1>0. /\ \A j \in DOMAIN h : (j \in DOMAIN d /\ h[j] = d[j]) \/ (j > Len(d) /\ h[j].run = k)
      /\ \A j \in DOMAIN h : Proper(P, h[j], j)
      /\ \A j \in DOMAIN h : j > Len(d) => (h[j].tag = "control" <=> j = Len(d) + 1)
      /\ \A j \in DOMAIN h : IsEnd(h[j]) /\ j > Len(d) => s = Len(P[k]) /\ j = Len(h)
      /\ \A j \in DOMAIN d : j \in DOMAIN h /\ h[j] = d[j]
      /\ Len(d) < Len(h) /\ h[Len(d) + 1].tag = "control"
  <2>1. \A j \in DOMAIN d : Proper(P, d[j], j)
    BY DEF List
  <2> QED BY <2>1, LongerFacts
<1>1. PICK n \in Nat : n = Len(d) /\ DOMAIN d = 1 .. n
  OBVIOUS
<1>2. m.count \in Nat /\ m.start \in Nat /\ Len(h) = n + 1 + m.count /\ DOMAIN h = 1 .. n + 1 + m.count
  BY <1>1 DEF Extends, Announces, Message
<1>3. \A j \in DOMAIN d : d[j].run \in Nat /\ (IsEnd(d[j]) => d[j].run < k)
  <2> TAKE j \in DOMAIN d
  <2>1. d[j] \in Entry
    OBVIOUS
  <2>2. d[j].run \in Nat
    BY <2>1 DEF Entry
  <2>3. IsEnd(d[j]) => d[j].run <= k - 1
    BY <1>1 DEF Between
  <2> QED BY <2>2, <2>3
<1>4. \A i, j \in DOMAIN h : i < j => h[i].run <= h[j].run /\ (IsEnd(h[i]) => h[i].run < h[j].run)
  <2> TAKE i \in DOMAIN h, j \in DOMAIN h
  <2> HAVE i < j
  <2>1. CASE j \in DOMAIN d
    <3>1. i \in DOMAIN d /\ h[i] = d[i] /\ h[j] = d[j]
      BY <2>1, <1>0, <1>1, <1>2
    <3> QED BY <2>1, <3>1 DEF List, InPlanOrder
  <2>2. CASE j > Len(d) /\ h[j].run = k
    <3>1. CASE i \in DOMAIN d /\ h[i] = d[i]
      BY <2>2, <3>1, <1>3
    <3>2. CASE i > Len(d) /\ h[i].run = k
      <4>1. ~IsEnd(h[i])
        BY <3>2, <1>0, <1>1, <1>2
      <4> QED BY <2>2, <3>2, <4>1
    <3> QED BY <3>1, <3>2, <1>0
  <2> QED BY <2>1, <2>2, <1>0
<1>5. \A j \in DOMAIN h : \A x \in 1 .. h[j].run - 1 : Wakes(P, x) => \E i \in 1 .. j - 1 : EndOf(h[i], x)
  <2> TAKE j \in DOMAIN h
  <2> TAKE x \in 1 .. h[j].run - 1
  <2> HAVE Wakes(P, x)
  <2>1. CASE j \in DOMAIN d /\ h[j] = d[j]
    <3>1. PICK i \in 1 .. j - 1 : EndOf(d[i], x)
      BY <2>1 DEF List, InPlanOrder
    <3>2. i \in DOMAIN d /\ h[i] = d[i]
      BY <2>1, <1>0, <1>1
    <3> QED BY <3>1, <3>2
  <2>2. CASE j > Len(d) /\ h[j].run = k
    <3>1. PICK i \in 1 .. n : EndOf(d[i], x)
      BY <2>2, <1>1 DEF Between
    <3>2. i \in 1 .. j - 1
      BY <2>2, <1>1, <1>2
    <3>3. i \in DOMAIN d /\ h[i] = d[i]
      BY <1>0, <1>1
    <3> QED BY <3>1, <3>2, <3>3
  <2> QED BY <2>1, <2>2, <1>0
<1>6. h # << >> => h[1].tag = "control"
  <2>1. CASE n = 0
    BY <2>1, <1>0, <1>1
  <2>2. CASE n # 0
    <3>1. 1 \in DOMAIN d /\ d # << >>
      BY <2>2, <1>1
    <3>2. h[1] = d[1] /\ d[1].tag = "control"
      BY <3>1, <1>0 DEF List, InBatches
    <3> QED BY <3>2
  <2> QED BY <2>1, <2>2
<1>7. ASSUME NEW j \in DOMAIN h, h[j].tag = "control"
      PROVE  /\ j + h[j].msg.count <= Len(h)
             /\ \A x \in 1 .. h[j].msg.count : h[j + x] = SliceTask(h[j].run, h[j].msg.start + x - 1, j + x)
             /\ j + h[j].msg.count < Len(h) => h[j + h[j].msg.count + 1].tag = "control"
  <2>1. CASE j \in DOMAIN d
    <3>1. h[j] = d[j] /\ d[j].tag = "control" /\ d[j] \in Entry
      BY <2>1, <1>0, <1>7
    <3>2. PICK c \in Nat : c = d[j].msg.count
      BY <3>1 DEF Entry, Message
    <3>3. /\ j + c <= n
          /\ \A x \in 1 .. c : d[j + x] = SliceTask(d[j].run, d[j].msg.start + x - 1, j + x)
          /\ j + c < n => d[j + c + 1].tag = "control"
      BY <2>1, <3>1, <3>2, <1>1 DEF List, InBatches
    <3>4. \A x \in 1 .. c : j + x \in DOMAIN d /\ h[j + x] = d[j + x]
      BY <2>1, <3>2, <3>3, <1>0, <1>1, SMTT(30)
    <3>5. j + c < n => j + c + 1 \in DOMAIN d
      BY <2>1, <1>1
    <3>6. h[j + c + 1].tag = "control"
      <4>1. CASE j + c < n
        BY <4>1, <3>3, <3>5, <1>0
      <4>2. CASE j + c = n
        BY <4>2, <1>0, <1>1
      <4>3. PICK y \in Nat : y = j + c /\ y <= n
        BY <2>1, <3>3, <1>1
      <4> QED BY <4>1, <4>2, <4>3
    <3>7. j + c <= Len(h)
      BY <3>3, <2>1, <1>1, <1>2, <3>2, SMTT(30)
    <3> QED BY <3>1, <3>2, <3>3, <3>4, <3>6, <3>7
  <2>2. CASE j \notin DOMAIN d
    <3>1. j = n + 1 /\ h[j] = ControlTask(k, m, n + 1)
      BY <2>2, <1>0, <1>1, <1>2, <1>7 DEF Extends
    <3>2. h[j].run = k /\ h[j].msg = m
      BY <3>1 DEF ControlTask
    <3>3. \A x \in 1 .. m.count : h[j + x] = SliceTask(k, m.start + x - 1, j + x)
      BY <3>1, <1>1 DEF Extends
    <3> QED BY <3>1, <3>2, <3>3, <1>2, SMTT(30)
  <2> QED BY <2>1, <2>2
<1> QED BY <1>0, <1>4, <1>5, <1>6, <1>7 DEF List, InPlanOrder, InBatches

\* For a rank somewhere along the list nothing changes.
LEMMA PlaceGrows ==
  ASSUME NEW P \in Runs, NEW d \in Seq(Entry), NEW h \in Seq(Entry), NEW k \in Nat \ {0}, NEW m, NEW s \in Nat,
         Extends(h, d, k, m), Announces(P, k, m, s),
         List(P, d), Between(P, d, Len(d), k - 1),
         NEW n \in 0 .. Len(d), NEW f \in Nat, Between(P, d, n, f)
  PROVE  Between(P, h, n, f)
<1>0. /\ \A j \in DOMAIN h : (j \in DOMAIN d /\ h[j] = d[j]) \/ (j > Len(d) /\ h[j].run = k)
      /\ \A j \in DOMAIN d : j \in DOMAIN h /\ h[j] = d[j]
      /\ Len(d) < Len(h)
  <2>1. \A j \in DOMAIN d : Proper(P, d[j], j)
    BY DEF List
  <2> QED BY <2>1, LongerFacts
<1>1. k > f
  <2>1. SUFFICES ASSUME k <= f PROVE FALSE
    OBVIOUS
  <2>2. PICK j \in 1 .. n : EndOf(d[j], k)
    <3>1. k \in 1 .. f /\ Wakes(P, k)
      BY <2>1 DEF Announces
    <3> QED BY <3>1 DEF Between
  <2>3. j \in 1 .. Len(d) /\ IsEnd(d[j]) /\ d[j].run = k
    BY <2>2 DEF EndOf
  <2>4. d[j].run <= k - 1
    BY <2>3 DEF Between
  <2> QED BY <2>3, <2>4
<1>2. \A j \in 1 .. n : j \in DOMAIN d /\ h[j] = d[j]
  <2>1. \A j \in 1 .. n : j \in DOMAIN d
    OBVIOUS
  <2> QED BY <2>1, <1>0
<1>3. \A j \in n + 1 .. Len(h) : h[j].run > f
  <2> TAKE j \in n + 1 .. Len(h)
  <2>1. j \in DOMAIN h
    OBVIOUS
  <2>2. CASE j \in DOMAIN d /\ h[j] = d[j]
    <3>1. j \in n + 1 .. Len(d)
      BY <2>2
    <3> QED BY <2>2, <3>1 DEF Between
  <2>3. CASE h[j].run = k
    BY <2>3, <1>1
  <2> QED BY <2>1, <2>2, <2>3, <1>0
<1>4. \A j \in 1 .. n : IsEnd(h[j]) => h[j].run <= f
  BY <1>2 DEF Between
<1>5. \A x \in 1 .. f : Wakes(P, x) => \E j \in 1 .. n : EndOf(h[j], x)
  BY <1>2 DEF Between
<1> QED BY <1>3, <1>4, <1>5 DEF Between

\* Nor for the edge.
LEMMA EdgeGrows ==
  ASSUME NEW P, NEW d \in Seq(Entry), NEW h \in Seq(Entry), NEW e \in Seq(Entry), NEW r, NEW a \in Nat, NEW b \in Nat,
         Carries(P, d, e, r, a, b), \A j \in DOMAIN d : h[j] = d[j], Len(d) <= Len(h)
  PROVE  Carries(P, h, e, r, a, b)
<1>1. a <= Len(d) /\ b <= Len(d) /\ a <= Len(h) /\ b <= Len(h)
  BY DEF Carries
<1>2. \A j \in a + 1 .. b : j \in DOMAIN d
  BY <1>1
<1>3. \A j \in 1 .. a : j \in DOMAIN d
  BY <1>1
<1>4. \A i \in DOMAIN e : e[i].nth \in a + 1 .. b /\ e[i] = h[e[i].nth] /\ Crosses(P, r, e[i])
  BY <1>2 DEF Carries
<1>5. \A j \in a + 1 .. b : Crosses(P, r, h[j]) => \E i \in DOMAIN e : e[i].nth = j
  BY <1>2 DEF Carries
<1>6. \A j \in 1 .. a : Crosses(P, r, h[j]) => j <= b
  BY <1>3 DEF Carries
<1> QED BY <1>1, <1>4, <1>5, <1>6 DEF Carries

\* What was on a list stays on it.
LEMMA TakenStays ==
  ASSUME NEW D, NEW G, NEW k, NEW i, Taken(D, k, i),
         \A c \in Channels : \A j \in DOMAIN D[c] : j \in DOMAIN G[c] /\ G[c][j] = D[c][j]
  PROVE  Taken(G, k, i)
<1>1. PICK c \in Channels : \E j \in DOMAIN D[c] : SliceAt(D[c][j], k, i)
  BY DEF Taken
<1>2. PICK j \in DOMAIN D[c] : SliceAt(D[c][j], k, i)
  BY <1>1
<1>3. j \in DOMAIN G[c] /\ G[c][j] = D[c][j]
  OBVIOUS
<1> QED BY <1>2, <1>3 DEF Taken

\* The claimed slices were free, and are the next ones.
LEMMA SharedGrows ==
  ASSUME NEW P \in Runs, NEW D \in [Channels -> Seq(Entry)], NEW c \in Channels, NEW h \in Seq(Entry),
         NEW k \in Nat \ {0}, NEW m, NEW s \in Nat,
         Extends(h, D[c], k, m), Announces(P, k, m, s), \A j \in DOMAIN D[c] : Proper(P, D[c][j], j),
         Shared(P, D, k, s)
  PROVE  Shared(P, [D EXCEPT ![c] = h], k, s + m.count)
<1>1. PICK d \in Seq(Entry), n \in Nat : d = D[c] /\ n = Len(d) /\ DOMAIN d = 1 .. n
  OBVIOUS
<1>2. PICK G : G = [D EXCEPT ![c] = h]
  OBVIOUS
<1>3. G[c] = h /\ \A x \in Channels : x # c => G[x] = D[x]
  BY <1>2
<1>4. /\ m.count \in Nat /\ m.start \in Nat /\ Len(h) = n + 1 + m.count /\ DOMAIN h = 1 .. n + 1 + m.count
      /\ Len(P[k]) \in Nat /\ s <= Len(P[k])
  BY <1>1, PlanFacts DEF Extends, Announces, Message, Wakes
<1>5. /\ \A j \in DOMAIN h : (j \in DOMAIN d /\ h[j] = d[j]) \/ (j > n /\ h[j].run = k)
      /\ \A j \in DOMAIN h : j > n => (h[j].tag = "control" <=> j = n + 1)
      /\ \A j \in DOMAIN h : IsEnd(h[j]) /\ j > n => s = Len(P[k])
      /\ \A j \in DOMAIN d : j \in DOMAIN h /\ h[j] = d[j]
  <2>1. Extends(h, d, k, m) /\ \A j \in DOMAIN d : Proper(P, d[j], j)
    BY <1>1
  <2>2. /\ \A j \in DOMAIN h : (j \in DOMAIN d /\ h[j] = d[j]) \/ (j > Len(d) /\ h[j].run = k)
        /\ \A j \in DOMAIN h : j > Len(d) => (h[j].tag = "control" <=> j = Len(d) + 1)
        /\ \A j \in DOMAIN h : IsEnd(h[j]) /\ j > Len(d) => s = Len(P[k]) /\ j = Len(h)
        /\ \A j \in DOMAIN d : j \in DOMAIN h /\ h[j] = d[j]
    BY <2>1, LongerFacts
  <2> QED BY <2>2, <1>1
<1>b. Extends(h, d, k, m)
  BY <1>1
<1>6. ASSUME NEW j \in DOMAIN h, j > n, h[j].tag = "slice" PROVE h[j].index = s + (j - n - 2) /\ j - n - 1 \in 1 .. m.count
  <2>1. j \in 1 .. n + 1 + m.count /\ j # n + 1
    BY <1>4, <1>5, <1>6
  <2>a. j - n - 1 \in 1 .. m.count /\ j = n + 1 + (j - n - 1)
    <3>1. \A a, b, v \in Nat : v \in 1 .. a + 1 + b /\ v # a + 1 /\ v > a => v - a - 1 \in 1 .. b /\ v = a + 1 + (v - a - 1)
      OBVIOUS
    <3>2. j \in Nat /\ m.count \in Nat /\ n \in Nat
      BY <2>1, <1>1, <1>4
    <3> QED BY <3>1, <3>2, <2>1, <1>6
  <2>2. PICK x \in 1 .. m.count : x = j - n - 1 /\ j = n + 1 + x
    BY <2>a
  <2>3. h[j] = SliceTask(k, m.start + x - 1, j)
    <3>1. h[n + 1 + x] = SliceTask(k, m.start + x - 1, n + 1 + x)
      BY <1>1, <1>b DEF Extends
    <3> QED BY <3>1, <2>2
  <2>4. m.start = s
    BY <2>2, <1>4, SMTT(30) DEF Announces
  <2>5. h[j].index = m.start + x - 1
    BY <2>3 DEF SliceTask
  <2>6. n \in Nat /\ x \in Nat /\ x = j - n - 1 /\ j \in Nat
    BY <1>1, <2>1, <2>2, <1>4, SMTT(30)
  <2>7. s + (j - n - 2) = s + x - 1
    BY <2>6
  <2> QED BY <2>2, <2>4, <2>5, <2>7
<1>7. ASSUME NEW x \in Channels, NEW j \in DOMAIN G[x]
      PROVE  \/ j \in DOMAIN D[x] /\ G[x][j] = D[x][j]
             \/ x = c /\ j \in DOMAIN h /\ G[x][j] = h[j] /\ j > n /\ h[j].run = k
  BY <1>1, <1>3, <1>5
<1>8. ASSUME NEW x \in Channels, NEW j \in DOMAIN D[x], D[x][j].tag = "slice", D[x][j].run = k
      PROVE  D[x][j].index < s
  BY <1>8 DEF Shared
<1>a. \A x \in Channels : \A j \in DOMAIN D[x] : D[x][j].index \in Nat /\ D[x][j].run \in Nat
  <2> TAKE x \in Channels
  <2> TAKE j \in DOMAIN D[x]
  <2>1. D[x] \in Seq(Entry)
    OBVIOUS
  <2>2. D[x][j] \in Entry
    BY <2>1
  <2> QED BY <2>2 DEF Entry
<1>9. ASSUME NEW x \in Channels, NEW y \in Channels, NEW i \in DOMAIN G[x], NEW j \in DOMAIN G[y],
             G[x][i].tag = "slice", SliceAt(G[y][j], G[x][i].run, G[x][i].index)
      PROVE  x = y /\ i = j
  <2>0. G[y][j].tag = "slice" /\ G[y][j].run = G[x][i].run /\ G[y][j].index = G[x][i].index
    BY <1>9 DEF SliceAt
  <2>1. CASE i \in DOMAIN D[x] /\ G[x][i] = D[x][i] /\ j \in DOMAIN D[y] /\ G[y][j] = D[y][j]
    BY <2>1, <1>9 DEF Shared
  <2>2. CASE /\ i \in DOMAIN D[x] /\ G[x][i] = D[x][i]
             /\ y = c /\ j \in DOMAIN h /\ G[y][j] = h[j] /\ j > n /\ h[j].run = k
    <3>1. D[x][i].index < s
      BY <2>0, <2>2, <1>8, <1>9
    <3>2. h[j].index = s + (j - n - 2) /\ j - n - 1 \in 1 .. m.count
      BY <2>0, <2>2, <1>6
    <3>3. FALSE
      BY <3>1, <3>2, <2>0, <2>2, <1>4, SMTT(30)
    <3> QED BY <3>3
  <2>3. CASE /\ j \in DOMAIN D[y] /\ G[y][j] = D[y][j]
             /\ x = c /\ i \in DOMAIN h /\ G[x][i] = h[i] /\ i > n /\ h[i].run = k
    <3>1. D[y][j].index < s
      BY <2>0, <2>3, <1>8
    <3>2. h[i].index = s + (i - n - 2) /\ i - n - 1 \in 1 .. m.count
      BY <2>3, <1>6, <1>9
    <3>3. FALSE
      BY <3>1, <3>2, <2>0, <2>3, <1>4, SMTT(30)
    <3> QED BY <3>3
  <2>4. CASE /\ x = c /\ i \in DOMAIN h /\ G[x][i] = h[i] /\ i > n
             /\ y = c /\ j \in DOMAIN h /\ G[y][j] = h[j] /\ j > n
    <3>1. h[i].index = s + (i - n - 2) /\ h[j].index = s + (j - n - 2)
      BY <2>0, <2>4, <1>6, <1>9
    <3>2. i \in Nat /\ j \in Nat
      BY <2>4, <1>4
    <3> QED BY <3>1, <3>2, <2>0, <2>4, SMTT(30)
  <2> QED BY <2>1, <2>2, <2>3, <2>4, <1>7
<1>10. ASSUME NEW x \in Channels, NEW j \in DOMAIN G[x]
       PROVE  /\ G[x][j].run <= k
              /\ G[x][j].tag = "slice" /\ G[x][j].run = k => G[x][j].index < s + m.count
              /\ EndOf(G[x][j], k) => s + m.count = Len(P[k])
  <2>1. CASE j \in DOMAIN D[x] /\ G[x][j] = D[x][j]
    <3>1. G[x][j].run <= k
      BY <2>1 DEF Shared
    <3>2. ASSUME G[x][j].tag = "slice", G[x][j].run = k PROVE G[x][j].index < s + m.count
      <4>1. D[x][j].index < s
        BY <2>1, <3>2, <1>8
      <4>2. D[x][j].index \in Nat
        BY <2>1, <1>a
      <4> QED BY <4>1, <4>2, <2>1, <1>4
    <3>3. ASSUME EndOf(G[x][j], k) PROVE s + m.count = Len(P[k])
      <4>1. s = Len(P[k])
        BY <2>1, <3>3 DEF Shared
      <4> QED BY <4>1, <1>4 DEF Announces
    <3> QED BY <3>1, <3>2, <3>3
  <2>2. CASE x = c /\ j \in DOMAIN h /\ G[x][j] = h[j] /\ j > n /\ h[j].run = k
    <3>1. h[j].run <= k
      BY <2>2
    <3>2. ASSUME h[j].tag = "slice" PROVE h[j].index < s + m.count
      <4>1. h[j].index = s + (j - n - 2) /\ j - n - 1 \in 1 .. m.count /\ j \in Nat
        BY <2>2, <3>2, <1>4, <1>6
      <4> QED BY <4>1, <1>4
    <3>3. ASSUME EndOf(h[j], k) PROVE s + m.count = Len(P[k])
      <4>1. s = Len(P[k])
        BY <2>2, <3>3, <1>5 DEF EndOf
      <4> QED BY <4>1, <1>4 DEF Announces
    <3> QED BY <2>2, <3>1, <3>2, <3>3
  <2> QED BY <2>1, <2>2, <1>7
<1>11. \A x \in Channels : \A j \in DOMAIN D[x] : j \in DOMAIN G[x] /\ G[x][j] = D[x][j]
  BY <1>1, <1>3, <1>5
<1>12. s + m.count <= Len(P[k])
  BY <1>4 DEF Announces
<1>13. ASSUME NEW i \in 0 .. (s + m.count) - 1 PROVE Taken(G, k, i)
  <2>1. CASE i < s
    <3>1. i \in 0 .. s - 1
      BY <2>1, <1>4
    <3>2. Taken(D, k, i)
      BY <3>1 DEF Shared, Announces
    <3> QED BY <3>2, <1>11, TakenStays
  <2>2. CASE i >= s
    <3>1. PICK x \in 1 .. m.count : x = i - s + 1 /\ i = s + x - 1
      BY <2>2, <1>4
    <3>2. h[n + 1 + x] = SliceTask(k, m.start + x - 1, n + 1 + x)
      BY <1>1, <1>b DEF Extends
    <3>5. m.start = s
      BY <1>4 DEF Announces
    <3>3. n + 1 + x \in DOMAIN h
      BY <1>4
    <3>6. m.start + x - 1 = i
      BY <3>1, <3>5
    <3>7. h[n + 1 + x] = SliceTask(k, i, n + 1 + x)
      BY <3>2, <3>6
    <3>4. SliceAt(h[n + 1 + x], k, i)
      BY <3>7 DEF SliceTask, SliceAt
    <3> QED BY <3>3, <3>4, <1>3 DEF Taken
  <2> QED BY <2>1, <2>2, <1>4
<1>14. \A x \in 1 .. k - 1 : \A i \in 0 .. Len(P[x]) - 1 : Taken(G, x, i)
  <2> TAKE x \in 1 .. k - 1
  <2> TAKE i \in 0 .. Len(P[x]) - 1
  <2>1. Taken(D, x, i)
    BY DEF Shared
  <2> QED BY <2>1, <1>11, TakenStays
<1>15. Shared(P, G, k, s + m.count)
  BY <1>9, <1>10, <1>12, <1>13, <1>14 DEF Shared
<1> QED BY <1>2, <1>15

\* Either end moves past a task nothing crosses the edge in.
LEMMA CarriesOn ==
  ASSUME NEW P, NEW d \in Seq(Entry), NEW e \in Seq(Entry), NEW r,
         NEW a \in Nat, NEW b \in Nat, NEW a1 \in Nat, NEW b1 \in Nat,
         Carries(P, d, e, r, a, b),
         a1 = a \/ (a1 = a + 1 /\ a < Len(d) /\ ~Crosses(P, r, d[a + 1])),
         b1 = b \/ (b1 = b + 1 /\ b < Len(d) /\ ~Crosses(P, r, d[b + 1]))
  PROVE  Carries(P, d, e, r, a1, b1)
<1>1. Carries(P, d, e, r, a, b1)
  BY CarriesSkip
<1> QED BY <1>1, CarriesPass

-----------------------------------------------------------------------------
(* What the invariant says of one rank and channel.                          *)

\* How far a side is.
LEMMA UpToFacts ==
  ASSUME NEW n \in Nat, NEW b \in BOOLEAN
  PROVE  UpTo(n, b) \in Nat /\ (b => UpTo(n, b) = n + 1) /\ (~b => UpTo(n, b) = n)
<1>1. CASE b
  BY <1>1 DEF UpTo
<1>2. CASE ~b
  BY <1>2 DEF UpTo
<1> QED BY <1>1, <1>2

\* The invariant, taken apart at one rank and channel.
LEMMA PlaceFacts ==
  ASSUME IInv, NEW r \in Ranks, NEW c \in Channels
  PROVE  /\ plans \in Runs /\ Len(plans) \in Nat
         /\ claims[c] \in Seq(Entry) /\ log[r][c] \in Seq(Entry) /\ edge[r][c] \in Seq(Entry)
         /\ Len(claims[c]) \in Nat /\ Len(log[r][c]) \in 0 .. Len(claims[c])
         /\ run[r] \in Nat /\ run[r] <= Len(plans) /\ msg[r][c] \in Message /\ pos[r][c] \in Nat
         /\ sent[r][c] \in BOOLEAN /\ rcvd[r][c] \in BOOLEAN
         /\ SentUpTo(r, c) \in Nat /\ RcvdUpTo(r, c) \in Nat
         /\ List(plans, claims[c]) /\ Begins(log[r][c], claims[c])
         /\ FinishedPlan(r, c) \in Nat /\ Between(plans, claims[c], Len(log[r][c]), FinishedPlan(r, c))
         /\ (pc[r][c] # "idle" => /\ Wakes(plans, run[r]) /\ run[r] \in Nat \ {0}
                                  /\ Between(plans, claims[c], Len(log[r][c]), run[r] - 1))
         /\ At(claims[c], Len(log[r][c]), run[r], pc[r][c], msg[r][c], pos[r][c], sent[r][c], rcvd[r][c])
         /\ (r = 0 => Leads(claims[c], Len(log[r][c]), pc[r][c], msg[r][c], pos[r][c]))
         /\ (r # 0 => pc[r][c] # "claim")
<1>1. Types /\ List(plans, claims[c]) /\ Placed(r, c)
  BY DEF IInv
<1>2. /\ plans \in Runs /\ Len(plans) \in Nat
      /\ claims[c] \in Seq(Entry) /\ log[r][c] \in Seq(Entry) /\ edge[r][c] \in Seq(Entry)
      /\ msg[r][c] \in Message /\ pos[r][c] \in Nat
      /\ sent[r][c] \in BOOLEAN /\ rcvd[r][c] \in BOOLEAN
  BY <1>1, PlanFacts DEF Types
<1>3. run[r] \in Nat /\ run[r] <= Len(plans)
  <2>1. run[r] \in 0 .. Len(plans)
    BY <1>1 DEF Types
  <2> QED BY <2>1, <1>2
<1>4. Len(claims[c]) \in Nat /\ Len(log[r][c]) \in 0 .. Len(claims[c])
  <2>1. Len(claims[c]) \in Nat /\ Len(log[r][c]) \in Nat
    BY <1>2
  <2> QED BY <2>1, <1>1 DEF Placed, Begins
<1>5. SentUpTo(r, c) \in Nat /\ RcvdUpTo(r, c) \in Nat
  <2>1. Len(log[r][c]) \in Nat
    BY <1>2
  <2> QED BY <1>2, <2>1, UpToFacts DEF SentUpTo, RcvdUpTo
<1>6. pc[r][c] # "idle" => /\ Wakes(plans, run[r]) /\ run[r] \in Nat \ {0} /\ FinishedPlan(r, c) = run[r] - 1
                           /\ Between(plans, claims[c], Len(log[r][c]), run[r] - 1)
  <2> HAVE pc[r][c] # "idle"
  <2>1. Wakes(plans, run[r]) /\ FinishedPlan(r, c) = run[r] - 1
    BY <1>1 DEF Placed, FinishedPlan
  <2>2. run[r] \in Nat \ {0}
    BY <2>1, <1>3 DEF Wakes
  <2>3. Between(plans, claims[c], Len(log[r][c]), run[r] - 1)
    BY <2>1, <1>1 DEF Placed
  <2> QED BY <2>1, <2>2, <2>3
<1>7. FinishedPlan(r, c) \in Nat
  BY <1>3, <1>6 DEF FinishedPlan
<1> QED BY <1>1, <1>2, <1>3, <1>4, <1>5, <1>6, <1>7 DEF Placed

\* The task a worker is in is the next entry of the list.
LEMMA TaskIs ==
  ASSUME IInv, NEW r \in Ranks, NEW c \in Channels, InTask(r, c)
  PROVE  LET d == claims[c]
             n == Len(log[r][c])
         IN  /\ pc[r][c] = "slice" => n < Len(d)
             /\ n < Len(d) => /\ n + 1 \in DOMAIN d /\ d[n + 1] \in Entry /\ d[n + 1].nth = n + 1
                              /\ d[n + 1].tag = pc[r][c] /\ d[n + 1].run = run[r]
                              /\ TaskOf(plans, d[n + 1]) = Task(r, c)
                              /\ (pc[r][c] = "control" => d[n + 1] = ControlTask(run[r], d[n + 1].msg, n + 1))
                              /\ (pc[r][c] = "slice" => d[n + 1] = Item(r, c) /\ d[n + 1].index = Index(r, c))
                              /\ (pc[r][c] = "control" /\ msg[r][c] = d[n + 1].msg => d[n + 1] = Item(r, c))
<1> DEFINE d == claims[c]
           n == Len(log[r][c])
           k == run[r]
           m == msg[r][c]
           q == pos[r][c]
           p == pc[r][c]
<1>1. p = "control" \/ p = "slice"
  BY DEF InTask
<1>2. /\ d \in Seq(Entry) /\ n \in 0 .. Len(d) /\ Len(d) \in Nat /\ k \in Nat \ {0} /\ m \in Message /\ q \in Nat
      /\ sent[r][c] \in BOOLEAN /\ rcvd[r][c] \in BOOLEAN
      /\ List(plans, d) /\ Between(plans, d, n, k - 1) /\ Wakes(plans, k)
      /\ At(d, n, k, p, m, q, sent[r][c], rcvd[r][c])
  BY <1>1, PlaceFacts
<1>3. Item(r, c) = IF p = "control" THEN ControlTask(k, m, n + 1) ELSE SliceTask(k, m.start + q, n + 1)
  BY DEF Item, Index
<1>4. Task(r, c) = IF p = "control" THEN [func |-> "Broadcast", root |-> 0] ELSE plans[k][m.start + q + 1]
  BY DEF Task, Slices, Index
<1> HIDE DEF d, n, k, m, q, p
<1>5. /\ p = "control" /\ n < Len(d) => d[n + 1] = ControlTask(k, d[n + 1].msg, n + 1)
      /\ p = "slice" => n < Len(d) /\ d[n + 1] = SliceTask(k, m.start + q, n + 1)
  BY <1>2, NextEntry
<1>6. ASSUME n < Len(d)
      PROVE  /\ n + 1 \in DOMAIN d /\ d[n + 1] \in Entry /\ d[n + 1].nth = n + 1
             /\ d[n + 1].tag = p /\ d[n + 1].run = k
             /\ TaskOf(plans, d[n + 1]) = Task(r, c)
             /\ (p = "control" => d[n + 1] = ControlTask(k, d[n + 1].msg, n + 1))
             /\ (p = "slice" => d[n + 1] = Item(r, c) /\ d[n + 1].index = m.start + q)
             /\ (p = "control" /\ m = d[n + 1].msg => d[n + 1] = Item(r, c))
  <2>1. n + 1 \in DOMAIN d /\ d[n + 1] \in Entry
    BY <1>2, <1>6
  <2>2. CASE p = "control"
    <3>1. d[n + 1] = ControlTask(k, d[n + 1].msg, n + 1)
      BY <2>2, <1>5, <1>6
    <3>2. d[n + 1].nth = n + 1 /\ d[n + 1].tag = "control" /\ d[n + 1].run = k
      BY <3>1 DEF ControlTask
    <3> QED BY <2>1, <2>2, <3>1, <3>2, <1>3, <1>4 DEF TaskOf
  <2>3. CASE p = "slice"
    <3>1. d[n + 1] = SliceTask(k, m.start + q, n + 1)
      BY <2>3, <1>5
    <3>2. d[n + 1].nth = n + 1 /\ d[n + 1].tag = "slice" /\ d[n + 1].run = k /\ d[n + 1].index = m.start + q
      BY <3>1 DEF SliceTask
    <3> QED BY <2>1, <2>3, <3>1, <3>2, <1>3, <1>4 DEF TaskOf
  <2> QED BY <2>2, <2>3, <1>1
<1> QED BY <1>5, <1>6 DEF d, n, k, m, q, p, Index

\* A worker that has received what its task brings it knows the task.
LEMMA TaskKnown ==
  ASSUME IInv, NEW r \in Ranks, NEW c \in Channels, InTask(r, c), Recvs(r, Task(r, c)) => rcvd[r][c]
  PROVE  /\ Len(log[r][c]) < Len(claims[c])
         /\ claims[c][Len(log[r][c]) + 1] = Item(r, c)
<1>1. CASE pc[r][c] = "slice"
  BY <1>1, TaskIs
<1>2. CASE pc[r][c] = "control"
  <2>0. Task(r, c) = [func |-> "Broadcast", root |-> 0]
    BY <1>2 DEF Task
  <2>1. Len(log[r][c]) < Len(claims[c]) /\ msg[r][c] = claims[c][Len(log[r][c]) + 1].msg
    <3>1. CASE r = 0
      BY <1>2, <3>1, PlaceFacts DEF Leads
    <3>2. CASE r # 0
      <4>1. rcvd[r][c]
        BY <2>0, <3>2, ControlSides
      <4> QED BY <1>2, <4>1, PlaceFacts DEF At
    <3> QED BY <3>1, <3>2
  <2> QED BY <1>2, <2>1, TaskIs
<1> QED BY <1>1, <1>2 DEF InTask

-----------------------------------------------------------------------------
(* Steps of one worker.                                                      *)

\* What a step of another worker leaves alone.
Still(q, x) ==
  /\ pc'[q][x] = pc[q][x] /\ msg'[q][x] = msg[q][x] /\ pos'[q][x] = pos[q][x]
  /\ sent'[q][x] = sent[q][x] /\ rcvd'[q][x] = rcvd[q][x] /\ log'[q][x] = log[q][x]

\* A step of one worker disturbs its own place and the two edges it uses.
LEMMA WorkerStepKeeps ==
  ASSUME IInv, NEW r \in Ranks, NEW c \in Channels,
         plans' = plans, run' = run, nextSlice' = nextSlice, claims' = claims,
         \A q \in Ranks, x \in Channels : q # r \/ x # c => Still(q, x),
         \A q \in Ranks, x \in Channels : x # c \/ q \notin {r, GetPrevRank(r)} => edge'[q][x] = edge[q][x],
         Types', Placed(r, c)', Carried(r, c)', Carried(GetPrevRank(r), c)'
  PROVE  IInv'
<1>1. \A q \in Ranks, x \in Channels : Placed(q, x)'
  <2> TAKE q \in Ranks, x \in Channels
  <2>1. CASE q = r /\ x = c
    BY <2>1
  <2>2. CASE q # r \/ x # c
    <3>1. Still(q, x) /\ Placed(q, x)
      BY <2>2 DEF IInv
    <3> QED BY <3>1 DEF Still, Placed, FinishedPlan
  <2> QED BY <2>1, <2>2
<1>2. \A q \in Ranks, x \in Channels : Carried(q, x)'
  <2> TAKE q \in Ranks, x \in Channels
  <2>1. CASE x = c /\ q \in {r, GetPrevRank(r)}
    BY <2>1
  <2>2. CASE x # c \/ q \notin {r, GetPrevRank(r)}
    <3>1. GetNextRank(q) \in Ranks /\ GetPrevRank(GetNextRank(q)) = q
      BY RingFacts
    <3>2. Still(q, x) /\ Still(GetNextRank(q), x) /\ edge'[q][x] = edge[q][x]
      BY <2>2, <3>1
    <3>3. SentUpTo(q, x)' = SentUpTo(q, x) /\ RcvdUpTo(GetNextRank(q), x)' = RcvdUpTo(GetNextRank(q), x)
      BY <3>2 DEF Still, SentUpTo, RcvdUpTo
    <3>4. Carried(q, x)
      BY DEF IInv
    <3> QED BY <3>2, <3>3, <3>4 DEF Carried
  <2> QED BY <2>1, <2>2
<1>3. \A x \in Channels : List(plans, claims[x])'
  BY DEF IInv
<1>4. Shared(plans, claims, run[0], nextSlice)'
  BY DEF IInv
<1> QED BY <1>1, <1>2, <1>3, <1>4 DEF IInv

\* What a worker puts on the edge is the entry of the task it is in.
LEMMA TaskSendKeeps ==
  ASSUME IInv, NEW r \in Ranks, NEW c \in Channels, TaskSend(r, c)
  PROVE  IInv'
<1> DEFINE d == claims[c]
           n == Len(log[r][c])
           e == edge[r][c]
           a == RcvdUpTo(GetNextRank(r), c)
<1>0. /\ InTask(r, c) /\ Sends(r, Task(r, c)) /\ ~sent[r][c]
      /\ (Task(r, c).func = "Broadcast" /\ Recvs(r, Task(r, c)) => rcvd[r][c])
      /\ Len(edge[r][c]) < Capacity
      /\ edge' = [edge EXCEPT ![r][c] = Append(edge[r][c], Item(r, c))]
      /\ sent' = [sent EXCEPT ![r][c] = TRUE]
      /\ plans' = plans /\ run' = run /\ nextSlice' = nextSlice /\ pc' = pc /\ msg' = msg /\ pos' = pos
      /\ rcvd' = rcvd /\ claims' = claims /\ log' = log
  BY DEF TaskSend
<1>1. Types /\ Placed(r, c) /\ Carried(r, c) /\ Carried(GetPrevRank(r), c) /\ GetNextRank(r) \in Ranks /\ GetPrevRank(r) \in Ranks
  BY RingFacts DEF IInv
<1>2. n < Len(d) /\ d[n + 1] = Item(r, c)
  <2>1. CASE pc[r][c] = "slice"
    BY <1>0, <2>1, TaskIs
  <2>2. CASE pc[r][c] = "control"
    <3>1. Task(r, c) = [func |-> "Broadcast", root |-> 0]
      BY <2>2 DEF Task
    <3>2. Recvs(r, Task(r, c)) => rcvd[r][c]
      BY <1>0, <3>1
    <3> QED BY <1>0, <3>2, TaskKnown
  <2> QED BY <1>0, <2>1, <2>2 DEF InTask
<1>3. /\ n + 1 \in DOMAIN d /\ d[n + 1] \in Entry /\ d[n + 1].nth = n + 1 /\ Crosses(plans, r, d[n + 1])
  <2>1. TaskOf(plans, d[n + 1]) = Task(r, c) /\ n + 1 \in DOMAIN d /\ d[n + 1] \in Entry /\ d[n + 1].nth = n + 1
    BY <1>0, <1>2, TaskIs
  <2> QED BY <2>1, <1>0 DEF Crosses
<1>4. d \in Seq(Entry) /\ e \in Seq(Entry) /\ n \in Nat /\ a \in Nat /\ Len(d) \in Nat
  BY <1>1, PlaceFacts
<1>5. SentUpTo(r, c) = n /\ SentUpTo(r, c)' = n + 1 /\ \A q \in Ranks : RcvdUpTo(q, c)' = RcvdUpTo(q, c)
  <2>1. sent'[r][c] = TRUE /\ sent[r][c] = FALSE
    BY <1>0, <1>1 DEF Types
  <2>2. SentUpTo(r, c) = UpTo(n, FALSE) /\ SentUpTo(r, c)' = UpTo(n, TRUE)
    BY <1>0, <2>1 DEF SentUpTo
  <2>3. UpTo(n, FALSE) = n /\ UpTo(n, TRUE) = n + 1
    BY DEF UpTo
  <2>4. \A q \in Ranks : RcvdUpTo(q, c)' = RcvdUpTo(q, c)
    BY <1>0 DEF RcvdUpTo
  <2> QED BY <2>2, <2>3, <2>4
<1>6. Append(e, d[n + 1]) \in Seq(Entry) /\ Carries(plans, d, Append(e, d[n + 1]), r, a, n + 1)
  <2>1. Carries(plans, d, e, r, a, n)
    BY <1>1, <1>5 DEF Carried
  <2> HIDE DEF d, n, e, a
  <2> QED BY <2>1, <1>2, <1>3, <1>4, CarriesPut
<1>7. edge'[r][c] = Append(e, d[n + 1]) /\ edge' \in [Ranks -> [Channels -> Seq(Entry)]]
      /\ \A q \in Ranks, x \in Channels : q # r \/ x # c => edge'[q][x] = edge[q][x]
  BY <1>0, <1>1, <1>2, <1>6 DEF Types
<1>8. Carried(r, c)'
  <2>1. RcvdUpTo(GetNextRank(r), c)' = a
    BY <1>1, <1>5
  <2> QED BY <2>1, <1>0, <1>5, <1>6, <1>7 DEF Carried
<1>9. Placed(r, c)'
  <2>1. At(d, n, run[r], pc[r][c], msg[r][c], pos[r][c], TRUE, rcvd[r][c])
    <3>1. At(d, n, run[r], pc[r][c], msg[r][c], pos[r][c], sent[r][c], rcvd[r][c])
      BY <1>1 DEF Placed
    <3>2. pc[r][c] \notin {"idle", "claim"}
      BY <1>0 DEF InTask
    <3> QED BY <3>1, <3>2, <1>2 DEF At
  <2>2. sent'[r][c] = TRUE
    BY <1>0, <1>1 DEF Types
  <2> QED BY <2>1, <2>2, <1>0, <1>1 DEF Placed, FinishedPlan
<1>10. \A q \in Ranks, x \in Channels : q # r \/ x # c => Still(q, x)
  BY <1>0, <1>1 DEF Still, Types
<1>11. Types'
  <2>1. Len(edge'[r][c]) <= Capacity
    <3>1. PICK y \in Seq(Entry), z \in Entry : y = e /\ z = d[n + 1]
      BY <1>3, <1>4
    <3>2. Len(Append(y, z)) = Len(y) + 1 /\ Len(y) \in Nat
      OBVIOUS
    <3> QED BY <3>1, <3>2, <1>0, <1>7, DynamicAssumption
  <2>2. \A q \in Ranks, x \in Channels : Len(edge'[q][x]) <= Capacity
    BY <2>1, <1>1, <1>7 DEF Types
  <2>3. sent' \in [Ranks -> [Channels -> BOOLEAN]]
    BY <1>0, <1>1 DEF Types
  <2> QED BY <2>2, <2>3, <1>0, <1>1, <1>7 DEF Types
<1>12. Carried(GetPrevRank(r), c)'
  <2>1. CASE GetPrevRank(r) = r
    BY <2>1, <1>8
  <2>2. CASE GetPrevRank(r) # r
    <3>1. edge'[GetPrevRank(r)][c] = edge[GetPrevRank(r)][c] /\ GetNextRank(GetPrevRank(r)) \in Ranks
      BY <2>2, <1>1, <1>7, RingFacts
    <3>2. SentUpTo(GetPrevRank(r), c)' = SentUpTo(GetPrevRank(r), c)
      BY <2>2, <1>0, <1>1 DEF SentUpTo, Types
    <3> QED BY <3>1, <3>2, <1>0, <1>1, <1>5 DEF Carried
  <2> QED BY <2>1, <2>2
<1> QED BY <1>0, <1>7, <1>8, <1>9, <1>10, <1>11, <1>12, WorkerStepKeeps

\* The head of the edge is what the task expects; a control message is the one
\* rank 0 decided on.
LEMMA TaskRecvKeeps ==
  ASSUME IInv, NEW r \in Ranks, NEW c \in Channels, TaskRecv(r, c)
  PROVE  IInv'
<1> DEFINE v == GetPrevRank(r)
           d == claims[c]
           n == Len(log[r][c])
           e == edge[v][c]
           b == SentUpTo(v, c)
<1>0. /\ InTask(r, c) /\ Recvs(r, Task(r, c)) /\ ~rcvd[r][c] /\ e # << >>
      /\ edge' = [edge EXCEPT ![v][c] = Tail(e)]
      /\ msg' = IF pc[r][c] = "control" THEN [msg EXCEPT ![r][c] = Head(e).msg] ELSE msg
      /\ rcvd' = [rcvd EXCEPT ![r][c] = TRUE]
      /\ plans' = plans /\ run' = run /\ nextSlice' = nextSlice /\ pc' = pc /\ pos' = pos
      /\ sent' = sent /\ claims' = claims /\ log' = log
  BY DEF TaskRecv
<1>1. /\ Types /\ Placed(r, c) /\ Carried(r, c) /\ Carried(v, c)
      /\ v \in Ranks /\ GetNextRank(v) = r /\ GetNextRank(r) \in Ranks /\ v # r
  <2>1. v \in Ranks /\ GetNextRank(v) = r /\ GetNextRank(r) \in Ranks
    BY RingFacts
  <2>2. N > 1
    BY <1>0 DEF Recvs
  <2>3. v # r
    BY <2>1, <2>2, RingFacts
  <2> QED BY <2>1, <2>3 DEF IInv
<1>2. d \in Seq(Entry) /\ e \in Seq(Entry) /\ n \in Nat /\ b \in Nat /\ Len(d) \in Nat
  BY <1>1, PlaceFacts
<1>3. RcvdUpTo(r, c) = n /\ RcvdUpTo(r, c)' = n + 1 /\ \A q \in Ranks : SentUpTo(q, c)' = SentUpTo(q, c)
  <2>1. rcvd'[r][c] = TRUE /\ rcvd[r][c] = FALSE
    BY <1>0, <1>1 DEF Types
  <2>2. RcvdUpTo(r, c) = UpTo(n, FALSE) /\ RcvdUpTo(r, c)' = UpTo(n, TRUE)
    BY <1>0, <2>1 DEF RcvdUpTo
  <2>3. UpTo(n, FALSE) = n /\ UpTo(n, TRUE) = n + 1
    BY DEF UpTo
  <2>4. \A q \in Ranks : SentUpTo(q, c)' = SentUpTo(q, c)
    BY <1>0 DEF SentUpTo
  <2> QED BY <2>2, <2>3, <2>4
<1>4. n < Len(d) => Crosses(plans, v, d[n + 1])
  <2> HAVE n < Len(d)
  <2>1. TaskOf(plans, d[n + 1]) = Task(r, c)
    BY <1>0, TaskIs
  <2>2. Sends(v, Task(r, c))
    BY <1>0, BothSides
  <2> QED BY <2>1, <2>2 DEF Crosses
<1>5. /\ n < Len(d) /\ Head(e) = d[n + 1]
      /\ Tail(e) \in Seq(Entry) /\ Carries(plans, d, Tail(e), v, n + 1, b)
  <2>1. Carries(plans, d, e, v, n, b)
    BY <1>1, <1>3 DEF Carried
  <2>2. e # << >>
    BY <1>0
  <2> HIDE DEF d, n, e, b, v
  <2> QED BY <2>1, <2>2, <1>2, <1>4, CarriesTake
<1>6. n + 1 \in DOMAIN d /\ d[n + 1] \in Entry /\ d[n + 1].msg \in Message
  <2>1. n + 1 \in DOMAIN d /\ d[n + 1] \in Entry
    BY <1>2, <1>5
  <2> QED BY <2>1 DEF Entry
<1>7. /\ edge'[v][c] = Tail(e) /\ edge' \in [Ranks -> [Channels -> Seq(Entry)]]
      /\ \A q \in Ranks, x \in Channels : q # v \/ x # c => edge'[q][x] = edge[q][x]
  BY <1>0, <1>1, <1>5 DEF Types
<1>8. Carried(v, c)'
  <2>1. RcvdUpTo(GetNextRank(v), c)' = n + 1 /\ SentUpTo(v, c)' = b
    BY <1>1, <1>3
  <2> QED BY <2>1, <1>0, <1>5, <1>7 DEF Carried
<1>9. /\ rcvd' \in [Ranks -> [Channels -> BOOLEAN]] /\ rcvd'[r][c] = TRUE
      /\ \A q \in Ranks, x \in Channels : q # r \/ x # c => rcvd'[q][x] = rcvd[q][x]
  BY <1>0, <1>1 DEF Types
<1>10. /\ msg' \in [Ranks -> [Channels -> Message]]
       /\ msg'[r][c] = (IF pc[r][c] = "control" THEN d[n + 1].msg ELSE msg[r][c])
       /\ \A q \in Ranks, x \in Channels : q # r \/ x # c => msg'[q][x] = msg[q][x]
  <2>1. CASE pc[r][c] = "control"
    <3>1. msg' = [msg EXCEPT ![r][c] = d[n + 1].msg]
      BY <2>1, <1>0, <1>5
    <3> QED BY <2>1, <3>1, <1>1, <1>6 DEF Types
  <2>2. CASE pc[r][c] # "control"
    BY <2>2, <1>0, <1>1 DEF Types
  <2> QED BY <2>1, <2>2
<1>11. Placed(r, c)'
  <2>1. At(d, n, run[r], pc[r][c], msg[r][c], pos[r][c], sent[r][c], rcvd[r][c])
    BY <1>1 DEF Placed
  <2>2. pc[r][c] \notin {"idle", "claim"}
    BY <1>0 DEF InTask
  <2>3. At(d, n, run[r], pc[r][c], msg'[r][c], pos[r][c], sent[r][c], TRUE)
    BY <2>1, <2>2, <1>5, <1>10 DEF At
  <2>4. r = 0 => msg'[r][c] = msg[r][c]
    <3>1. r = 0 /\ pc[r][c] = "control" => ~Recvs(r, Task(r, c))
      BY ControlSides DEF Task
    <3> QED BY <3>1, <1>0, <1>10
  <2> QED BY <2>3, <2>4, <1>0, <1>1, <1>9 DEF Placed, FinishedPlan
<1>12. \A q \in Ranks, x \in Channels : q # r \/ x # c => Still(q, x)
  BY <1>0, <1>9, <1>10 DEF Still
<1>13. Types'
  <2>1. Len(edge'[v][c]) <= Capacity
    <3>1. PICK y \in Seq(Entry) : y = e /\ y # << >>
      BY <1>0, <1>2
    <3>2. Len(Tail(y)) = Len(y) - 1 /\ Len(y) \in Nat
      BY <3>1
    <3>3. Len(e) <= Capacity
      BY <1>1 DEF Types
    <3> QED BY <3>1, <3>2, <3>3, <1>7, DynamicAssumption
  <2>2. \A q \in Ranks, x \in Channels : Len(edge'[q][x]) <= Capacity
    BY <2>1, <1>1, <1>7 DEF Types
  <2> QED BY <2>2, <1>0, <1>1, <1>7, <1>9, <1>10 DEF Types
<1>14. Carried(r, c)'
  <2>1. edge'[r][c] = edge[r][c]
    BY <1>1, <1>7
  <2>2. RcvdUpTo(GetNextRank(r), c)' = RcvdUpTo(GetNextRank(r), c)
    <3>1. GetNextRank(r) # r
      <4>1. N > 1
        BY <1>0 DEF Recvs
      <4> QED BY <4>1, RingFacts
    <3> QED BY <3>1, <1>0, <1>1, <1>9 DEF RcvdUpTo
  <2> QED BY <2>1, <2>2, <1>0, <1>1, <1>3 DEF Carried
<1> QED BY <1>0, <1>7, <1>8, <1>11, <1>12, <1>13, <1>14, WorkerStepKeeps

\* A task is over: the worker is one entry further on the list.
LEMMA TaskOverKeeps ==
  ASSUME IInv, NEW r \in Ranks, NEW c \in Channels, TaskDone(r, c),
         plans' = plans, run' = run, nextSlice' = nextSlice, msg' = msg, edge' = edge, claims' = claims,
         log' = [log EXCEPT ![r][c] = Append(log[r][c], Item(r, c))],
         NEW p \in {"idle", "claim", "control", "slice"}, pc' = [pc EXCEPT ![r][c] = p],
         NEW i \in Nat, pos' = [pos EXCEPT ![r][c] = i],
         sent' = [sent EXCEPT ![r][c] = FALSE], rcvd' = [rcvd EXCEPT ![r][c] = FALSE],
         p # "idle" => ~IsEnd(Item(r, c)),
         p = "idle" => EndOf(Item(r, c), run[r]),
         At(claims[c], Len(log[r][c]) + 1, run[r], p, msg[r][c], i, FALSE, FALSE),
         IF r = 0 THEN Leads(claims[c], Len(log[r][c]) + 1, p, msg[r][c], i) ELSE p # "claim"
  PROVE  IInv'
<1> DEFINE d == claims[c]
           n == Len(log[r][c])
           k == run[r]
<1>0. InTask(r, c) /\ (Sends(r, Task(r, c)) => sent[r][c]) /\ (Recvs(r, Task(r, c)) => rcvd[r][c])
      /\ pc[r][c] # "idle" /\ pc[r][c] # "claim"
  BY DEF TaskDone, InTask
<1>1. /\ Types /\ plans \in Runs /\ d \in Seq(Entry) /\ log[r][c] \in Seq(Entry) /\ n \in Nat /\ Len(d) \in Nat
      /\ n \in 0 .. Len(d) /\ n < Len(d) /\ d[n + 1] = Item(r, c) /\ d[n + 1] \in Entry
      /\ List(plans, d) /\ Begins(log[r][c], d) /\ Wakes(plans, k) /\ k \in Nat \ {0} /\ Between(plans, d, n, k - 1)
      /\ TaskOf(plans, d[n + 1]) = Task(r, c)
  <2>1. n < Len(d) /\ d[n + 1] = Item(r, c)
    BY <1>0, TaskKnown
  <2>2. TaskOf(plans, d[n + 1]) = Task(r, c) /\ d[n + 1] \in Entry
    BY <1>0, <2>1, TaskIs
  <2>3. Types
    BY DEF IInv
  <2>4. d \in Seq(Entry) /\ Len(d) \in Nat /\ n \in 0 .. Len(d) /\ log[r][c] \in Seq(Entry) /\ plans \in Runs
    BY PlaceFacts
  <2>5. List(plans, d) /\ Begins(log[r][c], d)
    BY PlaceFacts
  <2>6. Wakes(plans, k) /\ k \in Nat \ {0} /\ Between(plans, d, n, k - 1)
    BY <1>0, PlaceFacts
  <2> QED BY <2>1, <2>2, <2>3, <2>4, <2>5, <2>6
<1>2. /\ log'[r][c] = Append(log[r][c], d[n + 1]) /\ log'[r][c] \in Seq(Entry) /\ Len(log'[r][c]) = n + 1 /\ Begins(log'[r][c], d)
      /\ log' \in [Ranks -> [Channels -> Seq(Entry)]]
      /\ \A q \in Ranks, x \in Channels : q # r \/ x # c => log'[q][x] = log[q][x]
  <2>1. LET h == Append(log[r][c], d[n + 1]) IN h \in Seq(Entry) /\ Len(h) = n + 1 /\ Begins(h, d)
    BY <1>1, BeginsOn
  <2>2. log' = [log EXCEPT ![r][c] = Append(log[r][c], d[n + 1])]
    BY <1>1
  <2> QED BY <2>1, <2>2, <1>1 DEF Types
<1>3. /\ pc'[r][c] = p /\ pos'[r][c] = i /\ sent'[r][c] = FALSE /\ rcvd'[r][c] = FALSE
      /\ \A q \in Ranks, x \in Channels : q # r \/ x # c => Still(q, x)
      /\ Types'
  <2>1. /\ pc'[r][c] = p /\ pc' \in [Ranks -> [Channels -> {"idle", "claim", "control", "slice", "failed"}]]
        /\ \A q \in Ranks, x \in Channels : q # r \/ x # c => pc'[q][x] = pc[q][x]
    BY <1>1 DEF Types
  <2>2. /\ pos'[r][c] = i /\ pos' \in [Ranks -> [Channels -> Nat]]
        /\ \A q \in Ranks, x \in Channels : q # r \/ x # c => pos'[q][x] = pos[q][x]
    BY <1>1 DEF Types
  <2>3. /\ sent'[r][c] = FALSE /\ sent' \in [Ranks -> [Channels -> BOOLEAN]]
        /\ \A q \in Ranks, x \in Channels : q # r \/ x # c => sent'[q][x] = sent[q][x]
    BY <1>1 DEF Types
  <2>4. /\ rcvd'[r][c] = FALSE /\ rcvd' \in [Ranks -> [Channels -> BOOLEAN]]
        /\ \A q \in Ranks, x \in Channels : q # r \/ x # c => rcvd'[q][x] = rcvd[q][x]
    BY <1>1 DEF Types
  <2>5. Types'
    BY <1>1, <1>2, <2>1, <2>2, <2>3, <2>4 DEF Types
  <2>6. \A q \in Ranks, x \in Channels : q # r \/ x # c => Still(q, x)
    <3> TAKE q \in Ranks, x \in Channels
    <3> HAVE q # r \/ x # c
    <3>1. log'[q][x] = log[q][x] /\ pc'[q][x] = pc[q][x] /\ pos'[q][x] = pos[q][x]
      BY <1>2, <2>1, <2>2
    <3>2. sent'[q][x] = sent[q][x] /\ rcvd'[q][x] = rcvd[q][x]
      BY <2>3, <2>4
    <3> QED BY <3>1, <3>2 DEF Still
  <2> QED BY <2>1, <2>2, <2>3, <2>4, <2>5, <2>6
<1>4. \A q \in Ranks : /\ SentUpTo(q, c)' \in Nat /\ RcvdUpTo(q, c)' \in Nat
                       /\ SentUpTo(q, c) \in Nat /\ RcvdUpTo(q, c) \in Nat
                       /\ (q # r => SentUpTo(q, c)' = SentUpTo(q, c) /\ RcvdUpTo(q, c)' = RcvdUpTo(q, c))
  <2> TAKE q \in Ranks
  <2>1. SentUpTo(q, c) \in Nat /\ RcvdUpTo(q, c) \in Nat /\ Len(log[q][c]) \in Nat
    BY PlaceFacts
  <2>2. CASE q # r
    BY <2>1, <2>2, <1>3 DEF Still, SentUpTo, RcvdUpTo
  <2>3. CASE q = r
    <3>1. SentUpTo(q, c)' = UpTo(n + 1, FALSE) /\ RcvdUpTo(q, c)' = UpTo(n + 1, FALSE)
      BY <2>3, <1>2, <1>3 DEF SentUpTo, RcvdUpTo
    <3>2. UpTo(n + 1, FALSE) = n + 1
      BY DEF UpTo
    <3>3. n + 1 \in Nat
      BY <1>1
    <3>4. SentUpTo(q, c)' \in Nat /\ RcvdUpTo(q, c)' \in Nat
      BY <3>1, <3>2, <3>3
    <3> QED BY <2>1, <2>3, <3>4
  <2> QED BY <2>2, <2>3
<1>5. SentUpTo(r, c)' = SentUpTo(r, c) \/ (SentUpTo(r, c)' = n + 1 /\ SentUpTo(r, c) = n /\ ~Sends(r, Task(r, c)))
  <2>1. SentUpTo(r, c)' = UpTo(n + 1, FALSE)
    BY <1>2, <1>3 DEF SentUpTo
  <2>2. SentUpTo(r, c) = UpTo(n, sent[r][c]) /\ sent[r][c] \in BOOLEAN
    BY <1>1 DEF SentUpTo, Types
  <2>3. UpTo(n + 1, FALSE) = n + 1
    BY DEF UpTo
  <2> QED BY <2>1, <2>2, <2>3, <1>0, <1>1, UpToFacts
<1>6. RcvdUpTo(r, c)' = RcvdUpTo(r, c) \/ (RcvdUpTo(r, c)' = n + 1 /\ RcvdUpTo(r, c) = n /\ ~Recvs(r, Task(r, c)))
  <2>1. RcvdUpTo(r, c)' = UpTo(n + 1, FALSE)
    BY <1>2, <1>3 DEF RcvdUpTo
  <2>2. RcvdUpTo(r, c) = UpTo(n, rcvd[r][c]) /\ rcvd[r][c] \in BOOLEAN
    BY <1>1 DEF RcvdUpTo, Types
  <2>3. UpTo(n + 1, FALSE) = n + 1
    BY DEF UpTo
  <2> QED BY <2>1, <2>2, <2>3, <1>0, <1>1, UpToFacts
<1>7. \A q \in Ranks : Carried(q, c)'
  <2> TAKE q \in Ranks
  <2>1. PICK a \in Nat, b \in Nat, a1 \in Nat, b1 \in Nat :
          /\ a = RcvdUpTo(GetNextRank(q), c) /\ a1 = RcvdUpTo(GetNextRank(q), c)'
          /\ b = SentUpTo(q, c) /\ b1 = SentUpTo(q, c)'
    BY <1>4, RingFacts
  <2>2. b1 = b \/ (b1 = b + 1 /\ b < Len(d) /\ ~Crosses(plans, q, d[b + 1]))
    <3>1. CASE q # r
      BY <2>1, <3>1, <1>4
    <3>2. CASE q = r
      <4>1. b1 = b \/ (b1 = n + 1 /\ b = n /\ ~Sends(r, Task(r, c)))
        BY <2>1, <3>2, <1>5
      <4> QED BY <3>2, <4>1, <1>1 DEF Crosses
    <3> QED BY <3>1, <3>2
  <2>3. a1 = a \/ (a1 = a + 1 /\ a < Len(d) /\ ~Crosses(plans, q, d[a + 1]))
    <3>0. GetNextRank(q) \in Ranks /\ GetPrevRank(GetNextRank(q)) = q
      BY RingFacts
    <3>1. CASE GetNextRank(q) # r
      BY <2>1, <3>0, <3>1, <1>4
    <3>2. CASE GetNextRank(q) = r
      <4>1. a1 = a \/ (a1 = n + 1 /\ a = n /\ ~Recvs(r, Task(r, c)))
        BY <2>1, <3>2, <1>6
      <4>2. Recvs(r, Task(r, c)) <=> Sends(q, Task(r, c))
        BY <3>0, <3>2, BothSides
      <4> QED BY <4>1, <4>2, <1>1 DEF Crosses
    <3> QED BY <3>1, <3>2
  <2>4. edge[q][c] \in Seq(Entry) /\ Carries(plans, d, edge[q][c], q, a, b)
    BY <2>1, PlaceFacts DEF IInv, Carried
  <2>5. Carries(plans, d, edge[q][c], q, a1, b1)
    BY <2>2, <2>3, <2>4, <1>1, CarriesOn
  <2> QED BY <2>1, <2>5 DEF Carried
<1>8. Placed(r, c)'
  <2>1. Between(plans, d, n + 1, IF p = "idle" THEN k ELSE k - 1)
    <3>1. CASE p = "idle"
      <4>1. k - 1 \in Nat /\ (k - 1) + 1 = k /\ EndOf(d[n + 1], k)
        BY <3>1, <1>1
      <4> HIDE DEF d, n, k
      <4>2. Between(plans, d, n + 1, (k - 1) + 1)
        BY <4>1, <1>1, StepsOn
      <4> QED BY <3>1, <4>1, <4>2
    <3>2. CASE p # "idle"
      <4>1. k - 1 \in Nat /\ ~IsEnd(d[n + 1])
        BY <3>2, <1>1
      <4> HIDE DEF d, n, k
      <4>2. Between(plans, d, n + 1, k - 1)
        BY <4>1, <1>1, StepsOn
      <4> QED BY <3>2, <4>2
    <3> QED BY <3>1, <3>2
  <2>2. At(d, n + 1, k, p, msg[r][c], i, FALSE, FALSE)
    OBVIOUS
  <2>3. IF r = 0 THEN Leads(d, n + 1, p, msg[r][c], i) ELSE p # "claim"
    OBVIOUS
  <2>4. FinishedPlan(r, c)' = IF p = "idle" THEN k ELSE k - 1
    BY <1>3 DEF FinishedPlan
  <2> QED BY <2>1, <2>2, <2>3, <2>4, <1>1, <1>2, <1>3 DEF Placed
<1>9. GetPrevRank(r) \in Ranks
  BY RingFacts
<1> QED BY <1>3, <1>7, <1>8, <1>9, WorkerStepKeeps

\* After a control Broadcast: the slices of its message, or, at END, the Run is
\* over for this channel.
LEMMA AfterControlKeeps ==
  ASSUME IInv, NEW r \in Ranks, NEW c \in Channels, AfterControl(r, c)
  PROVE  IInv'
<1> DEFINE d == claims[c]
           n == Len(log[r][c])
           k == run[r]
           m == msg[r][c]
           p == IF m.type = "End" THEN "idle" ELSE "slice"
<1>0. /\ pc[r][c] = "control" /\ TaskDone(r, c)
      /\ pc' = [pc EXCEPT ![r][c] = p] /\ pos' = [pos EXCEPT ![r][c] = 0]
      /\ sent' = [sent EXCEPT ![r][c] = FALSE] /\ rcvd' = [rcvd EXCEPT ![r][c] = FALSE]
      /\ log' = [log EXCEPT ![r][c] = Append(log[r][c], Item(r, c))]
      /\ plans' = plans /\ run' = run /\ nextSlice' = nextSlice /\ msg' = msg /\ edge' = edge /\ claims' = claims
  BY DEF AfterControl
<1>1. /\ n < Len(d) /\ d[n + 1] = ControlTask(k, m, n + 1) /\ n \in Nat /\ Len(d) \in Nat /\ n + 1 \in DOMAIN d
      /\ List(plans, d) /\ m \in Message
      /\ (r = 0 => Leads(d, n, "control", m, pos[r][c]))
  <2>1. n < Len(d) /\ d[n + 1] = Item(r, c)
    BY <1>0, TaskKnown DEF TaskDone
  <2>2. Item(r, c) = ControlTask(k, m, n + 1)
    BY <1>0 DEF Item
  <2>3. n \in Nat /\ Len(d) \in Nat /\ d \in Seq(Entry) /\ List(plans, d) /\ m \in Message /\ (r = 0 => Leads(d, n, "control", m, pos[r][c]))
    BY <1>0, PlaceFacts
  <2>4. n + 1 \in DOMAIN d
    BY <2>1, <2>3
  <2> QED BY <2>1, <2>2, <2>3, <2>4
<1>2. Item(r, c) = ControlTask(k, m, n + 1)
  BY <1>0 DEF Item
<1>3. ControlTask(k, m, n + 1).tag = "control" /\ ControlTask(k, m, n + 1).msg = m /\ ControlTask(k, m, n + 1).run = k
  BY DEF ControlTask
<1>4. m.count \in Nat /\ (m.type = "End" => m.count = 0) /\ (m.type # "End" => m.type = "Batch" /\ m.count > 0)
  <2>1. Proper(plans, d[n + 1], n + 1)
    BY <1>1 DEF List
  <2>2. d[n + 1].tag = "control" /\ d[n + 1].msg = m
    BY <1>1, <1>3
  <2> QED BY <2>1, <2>2, <1>1 DEF Proper, SliceTask, Message
<1>5. n + 1 + m.count < Len(d) => d[n + 1 + m.count + 1].tag = "control"
  BY <1>1, <1>3 DEF List, InBatches
<1>6. p \in {"idle", "claim", "control", "slice"} /\ (p # "idle" => ~IsEnd(Item(r, c))) /\ (p = "idle" => EndOf(Item(r, c), run[r]))
  BY <1>2, <1>3 DEF IsEnd, EndOf
<1>7. At(d, n + 1, k, p, m, 0, FALSE, FALSE)
  <2>1. p = "idle" /\ n + 1 < Len(d) => d[(n + 1) + 1].tag = "control"
    <3>1. n + 1 + 0 = n + 1 /\ n + 1 + 0 + 1 = (n + 1) + 1
      BY <1>1
    <3> QED BY <3>1, <1>4, <1>5
  <2>2. p = "slice" => m.type = "Batch" /\ 0 < m.count /\ 0 < n + 1 /\ d[(n + 1) - 0] = ControlTask(k, m, (n + 1) - 0)
    <3>1. (n + 1) - 0 = n + 1 /\ 0 < n + 1
      BY <1>1
    <3> QED BY <3>1, <1>1, <1>4
  <2>3. p = "idle" \/ p = "slice"
    OBVIOUS
  <2> HIDE DEF d, n, k, m, p
  <2> QED BY <2>1, <2>2, <2>3 DEF At
<1>8. IF r = 0 THEN Leads(d, n + 1, p, m, 0) ELSE p # "claim"
  <2>1. p = "idle" \/ p = "slice"
    OBVIOUS
  <2>2. ASSUME r = 0 PROVE Leads(d, n + 1, p, m, 0)
    <3>1. Len(d) = n + 1 + m.count
      BY <2>2, <1>1 DEF Leads
    <3>2. p = "idle" => n + 1 = Len(d)
      BY <3>1, <1>1, <1>4
    <3>3. p = "slice" => Len(d) = (n + 1) - 0 + m.count
      BY <3>1, <1>1, <1>4
    <3> HIDE DEF d, n, k, m, p
    <3> QED BY <2>1, <3>2, <3>3 DEF Leads
  <2> QED BY <2>1, <2>2
<1>9. 0 \in Nat /\ TaskDone(r, c)
  BY <1>0
<1> HIDE DEF p
<1> QED BY <1>0, <1>6, <1>7, <1>8, <1>9, TaskOverKeeps

\* After a slice: the next one of the message, or the next message.
LEMMA AfterSliceKeeps ==
  ASSUME IInv, NEW r \in Ranks, NEW c \in Channels, AfterSlice(r, c)
  PROVE  IInv'
<1> DEFINE d == claims[c]
           n == Len(log[r][c])
           k == run[r]
           m == msg[r][c]
           q == pos[r][c]
           p == IF q + 1 < m.count THEN "slice" ELSE LoopStart(r)
<1>0. /\ pc[r][c] = "slice" /\ TaskDone(r, c)
      /\ pc' = [pc EXCEPT ![r][c] = p] /\ pos' = [pos EXCEPT ![r][c] = q + 1]
      /\ sent' = [sent EXCEPT ![r][c] = FALSE] /\ rcvd' = [rcvd EXCEPT ![r][c] = FALSE]
      /\ log' = [log EXCEPT ![r][c] = Append(log[r][c], Item(r, c))]
      /\ plans' = plans /\ run' = run /\ nextSlice' = nextSlice /\ msg' = msg /\ edge' = edge /\ claims' = claims
  BY DEF AfterSlice
<1>1. /\ d \in Seq(Entry) /\ n \in 0 .. Len(d) /\ Len(d) \in Nat /\ k \in Nat \ {0} /\ m \in Message /\ q \in Nat
      /\ sent[r][c] \in BOOLEAN /\ rcvd[r][c] \in BOOLEAN
      /\ List(plans, d) /\ Between(plans, d, n, k - 1) /\ Wakes(plans, k)
      /\ At(d, n, k, "slice", m, q, sent[r][c], rcvd[r][c])
      /\ (r = 0 => Leads(d, n, "slice", m, q))
  BY <1>0, PlaceFacts
<1>2. /\ n - q + m.count <= Len(d)
      /\ (n - q + m.count < Len(d) => d[n - q + m.count + 1].tag = "control")
      /\ m.type = "Batch" /\ q < m.count /\ q < n /\ d[n - q] = ControlTask(k, m, n - q)
  <2> HIDE DEF d, n, k, m, q
  <2>1. /\ n - q + m.count <= Len(d)
        /\ (n - q + m.count < Len(d) => d[n - q + m.count + 1].tag = "control")
    BY <1>1, NextEntry
  <2> QED BY <2>1, <1>1 DEF At
<1>3. ~IsEnd(Item(r, c))
  <2>1. Item(r, c).tag = "slice"
    BY <1>0 DEF Item, SliceTask
  <2> QED BY <2>1 DEF IsEnd
<1>4. m.count \in Nat /\ n \in Nat
  BY <1>1 DEF Message
<1>5. (p = "slice" /\ q + 1 < m.count) \/ (p \in {"claim", "control"} /\ q + 1 = m.count)
  <2>1. CASE q + 1 < m.count
    <3>1. p = "slice"
      BY <2>1, Zenon
    <3> QED BY <2>1, <3>1
  <2>2. CASE ~(q + 1 < m.count)
    <3>1. q + 1 = m.count
      BY <2>2, <1>1, <1>2, <1>4
    <3> QED BY <2>2, <3>1 DEF LoopStart
  <2> QED BY <2>1, <2>2
<1>6. p \in {"idle", "claim", "control", "slice"} /\ p # "idle" /\ (r = 0 => p # "control") /\ (r # 0 => p # "claim")
  BY <1>5 DEF LoopStart
<1> HIDE DEF p, d, n, k, m, q
<1>7. At(d, n + 1, k, p, m, q + 1, FALSE, FALSE)
  <2>1. p \in {"claim", "control"} /\ n + 1 < Len(d) => d[(n + 1) + 1].tag = "control"
    <3>1. q + 1 = m.count => n - q + m.count = n + 1
      BY <1>1, <1>4
    <3> QED BY <3>1, <1>2, <1>5
  <2>2. p = "slice" => m.type = "Batch" /\ q + 1 < m.count /\ q + 1 < n + 1 /\ d[(n + 1) - (q + 1)] = ControlTask(k, m, (n + 1) - (q + 1))
    <3>1. (n + 1) - (q + 1) = n - q /\ q + 1 < n + 1
      BY <1>1, <1>2, <1>4
    <3> QED BY <3>1, <1>2, <1>5
  <2> QED BY <2>1, <2>2, <1>6 DEF At
<1>8. IF r = 0 THEN Leads(d, n + 1, p, m, q + 1) ELSE p # "claim"
  <2>1. ASSUME r = 0 PROVE Leads(d, n + 1, p, m, q + 1)
    <3>1. Len(d) = n - q + m.count
      BY <2>1, <1>1 DEF Leads
    <3>2. p = "claim" => n + 1 = Len(d)
      BY <3>1, <1>1, <1>4, <1>5
    <3>3. p = "slice" => Len(d) = (n + 1) - (q + 1) + m.count
      BY <3>1, <1>1, <1>4
    <3> QED BY <2>1, <3>2, <3>3, <1>6 DEF Leads
  <2> QED BY <2>1, <1>6
<1>9. q + 1 \in Nat
  BY <1>1
<1>a. TaskDone(r, c) /\ pc' = [pc EXCEPT ![r][c] = p] /\ pos' = [pos EXCEPT ![r][c] = q + 1]
  BY <1>0
<1>b. At(claims[c], Len(log[r][c]) + 1, run[r], p, msg[r][c], q + 1, FALSE, FALSE)
  BY <1>7 DEF d, n, k, m
<1>c. IF r = 0 THEN Leads(claims[c], Len(log[r][c]) + 1, p, msg[r][c], q + 1) ELSE p # "claim"
  BY <1>8 DEF d, n, m
<1> QED BY <1>0, <1>3, <1>6, <1>9, <1>a, <1>b, <1>c, TaskOverKeeps, ZenonT(60)

\* A worker that gives up stays where it is.
LEMMA FailKeeps ==
  ASSUME IInv, NEW r \in Ranks, NEW c \in Channels, Fail(r, c)
  PROVE  IInv'
<1>0. /\ pc[r][c] # "idle" /\ pc[r][c] # "claim" /\ pc' = [pc EXCEPT ![r][c] = "failed"]
      /\ plans' = plans /\ run' = run /\ nextSlice' = nextSlice /\ msg' = msg /\ pos' = pos /\ sent' = sent /\ rcvd' = rcvd
      /\ edge' = edge /\ claims' = claims /\ log' = log
  BY DEF Fail, InTask
<1>1. Types /\ Placed(r, c) /\ \A q \in Ranks : Carried(q, c)
  BY DEF IInv
<1>2. /\ pc'[r][c] = "failed" /\ pc' \in [Ranks -> [Channels -> {"idle", "claim", "control", "slice", "failed"}]]
      /\ \A q \in Ranks, x \in Channels : q # r \/ x # c => pc'[q][x] = pc[q][x]
  BY <1>0, <1>1 DEF Types
<1>3. Placed(r, c)'
  <2>1. At(claims[c], Len(log[r][c]), run[r], "failed", msg[r][c], pos[r][c], sent[r][c], rcvd[r][c])
    BY <1>1 DEF Placed, At
  <2>2. Leads(claims[c], Len(log[r][c]), "failed", msg[r][c], pos[r][c])
    BY DEF Leads
  <2>3. FinishedPlan(r, c)' = FinishedPlan(r, c)
    BY <1>0, <1>2 DEF FinishedPlan
  <2> QED BY <2>1, <2>2, <2>3, <1>0, <1>1, <1>2 DEF Placed
<1>4. \A q \in Ranks : Carried(q, c)'
  BY <1>0, <1>1 DEF Carried, SentUpTo, RcvdUpTo
<1>5. Types'
  BY <1>0, <1>1, <1>2 DEF Types
<1>6. \A q \in Ranks, x \in Channels : q # r \/ x # c => Still(q, x)
  BY <1>0, <1>2 DEF Still
<1>7. GetPrevRank(r) \in Ranks
  BY RingFacts
<1> QED BY <1>0, <1>3, <1>4, <1>5, <1>6, <1>7, WorkerStepKeeps

-----------------------------------------------------------------------------
(* A Run begins.                                                             *)

\* When rank 0 goes on to the next plan all slices of the last have been taken.
LEMMA SharedMovesOn ==
  ASSUME NEW P \in Runs, NEW D \in [Channels -> Seq(Entry)], NEW k \in 0 .. Len(P), NEW m \in Nat, NEW m1 \in Nat,
         Shared(P, D, k, m),
         Wakes(P, k) => \E c \in Channels : \E j \in DOMAIN D[c] : EndOf(D[c][j], k),
         m1 = 0 \/ ~Wakes(P, k + 1)
  PROVE  Shared(P, D, k + 1, m1)
<1>1. \A c \in Channels : \A j \in DOMAIN D[c] : D[c][j].run \in Nat /\ D[c][j].run <= k
  <2> TAKE c \in Channels
  <2> TAKE j \in DOMAIN D[c]
  <2>1. D[c] \in Seq(Entry)
    OBVIOUS
  <2>2. D[c][j] \in Entry
    BY <2>1
  <2> QED BY <2>2 DEF Entry, Shared
<1>2. ASSUME NEW c \in Channels, NEW j \in DOMAIN D[c]
      PROVE  /\ D[c][j].run <= k + 1
             /\ D[c][j].tag = "slice" /\ D[c][j].run = k + 1 => D[c][j].index < m1
             /\ EndOf(D[c][j], k + 1) => m1 = Len(P[k + 1])
  BY <1>1 DEF EndOf
<1>3. Wakes(P, k + 1) => m1 <= Len(P[k + 1]) /\ \A i \in 0 .. m1 - 1 : Taken(D, k + 1, i)
  <2> HAVE Wakes(P, k + 1)
  <2>1. m1 = 0 /\ Len(P[k + 1]) \in Nat
    BY PlanFacts DEF Wakes
  <2> QED BY <2>1
<1>4. ASSUME NEW h \in 1 .. (k + 1) - 1, NEW i \in 0 .. Len(P[h]) - 1 PROVE Taken(D, h, i)
  <2>1. CASE h < k
    <3>1. h \in 1 .. k - 1
      BY <2>1
    <3> QED BY <3>1 DEF Shared
  <2>2. CASE h = k /\ Wakes(P, k)
    <3>1. m = Len(P[k])
      BY <2>2 DEF Shared
    <3>2. \A x \in 0 .. m - 1 : Taken(D, k, x)
      BY <2>2 DEF Shared
    <3> QED BY <2>2, <3>1, <3>2
  <2>3. CASE h = k /\ ~Wakes(P, k)
    <3>1. k \in 1 .. k
      BY <2>3
    <3>2. P[k] = << >>
      BY <2>3, <3>1 DEF Wakes
    <3>3. Len(P[h]) = 0
      BY <2>3, <3>2
    <3> QED BY <3>3
  <2> QED BY <2>1, <2>2, <2>3
<1>5. \A c1, c2 \in Channels : \A j1 \in DOMAIN D[c1], j2 \in DOMAIN D[c2] :
        D[c1][j1].tag = "slice" /\ SliceAt(D[c2][j2], D[c1][j1].run, D[c1][j1].index) => c1 = c2 /\ j1 = j2
  BY DEF Shared
<1> QED BY <1>2, <1>3, <1>4, <1>5 DEF Shared

\* Run on a rank whose workers are all idle: the plan is taken up with nothing
\* of it executed, or, if it is empty, is over at once.
LEMMA RunKeeps ==
  ASSUME IInv, NEW r \in Ranks, Run(r)
  PROVE  IInv'
<1> DEFINE k == run[r]
           p == IF r = 0 THEN "claim" ELSE "control"
<1>0. /\ WorkersIdle(r) /\ k < Len(plans) /\ run' = [run EXCEPT ![r] = run[r] + 1]
      /\ plans' = plans /\ msg' = msg /\ pos' = pos /\ sent' = sent /\ rcvd' = rcvd
      /\ edge' = edge /\ claims' = claims /\ log' = log
      /\ (plans[k + 1] = << >> => pc' = pc /\ nextSlice' = nextSlice)
      /\ (plans[k + 1] # << >> => /\ pc' = [pc EXCEPT ![r] = [c \in Channels |-> p]]
                                  /\ nextSlice' = IF r = 0 THEN 0 ELSE nextSlice)
  BY DEF Run, ResetSlice
<1>1. Types /\ (\A q \in Ranks, c \in Channels : Placed(q, c)) /\ Shared(plans, claims, run[0], nextSlice)
  BY DEF IInv
<1>2. /\ plans \in Runs /\ Len(plans) \in Nat /\ k \in 0 .. Len(plans) /\ k \in Nat /\ k + 1 \in 1 .. Len(plans)
      /\ (plans[k + 1] = << >> <=> ~Wakes(plans, k + 1))
  <2>1. plans \in Runs /\ Len(plans) \in Nat /\ k \in 0 .. Len(plans)
    BY <1>1, PlanFacts DEF Types
  <2>2. k \in Nat /\ k + 1 \in 1 .. Len(plans)
    BY <2>1, <1>0
  <2> QED BY <2>1, <2>2 DEF Wakes
<1>3. /\ run' \in [Ranks -> 0 .. Len(plans)] /\ run'[r] = k + 1 /\ \A q \in Ranks : q # r => run'[q] = run[q]
  BY <1>0, <1>1, <1>2 DEF Types
<1>4. /\ pc' \in [Ranks -> [Channels -> {"idle", "claim", "control", "slice", "failed"}]]
      /\ \A q \in Ranks, c \in Channels : q # r => pc'[q][c] = pc[q][c]
      /\ \A c \in Channels : pc[r][c] = "idle"
      /\ ~Wakes(plans, k + 1) => \A c \in Channels : pc'[r][c] = "idle"
      /\ Wakes(plans, k + 1) => \A c \in Channels : pc'[r][c] = p
  <2>1. \A c \in Channels : pc[r][c] = "idle"
    BY <1>0 DEF WorkersIdle
  <2>2. pc \in [Ranks -> [Channels -> {"idle", "claim", "control", "slice", "failed"}]]
    BY <1>1 DEF Types
  <2>3. CASE plans[k + 1] = << >>
    BY <2>1, <2>2, <2>3, <1>0, <1>2
  <2>4. CASE plans[k + 1] # << >>
    BY <2>1, <2>2, <2>4, <1>0, <1>2
  <2> QED BY <2>3, <2>4
<1>5. Types'
  <2>1. nextSlice' \in Nat
    BY <1>0, <1>1 DEF Types
  <2> QED BY <2>1, <1>0, <1>1, <1>3, <1>4 DEF Types
<1>6. ASSUME NEW q \in Ranks, NEW c \in Channels PROVE Placed(q, c)'
  <2>1. CASE q # r
    BY <2>1, <1>0, <1>1, <1>3, <1>4 DEF Placed, FinishedPlan
  <2>2. CASE q = r
    <3> DEFINE d == claims[c]
               n == Len(log[r][c])
    <3>1. /\ d \in Seq(Entry) /\ n \in 0 .. Len(d) /\ List(plans, d) /\ Begins(log[r][c], d)
          /\ Between(plans, d, n, k)
          /\ At(d, n, k, "idle", msg[r][c], pos[r][c], sent[r][c], rcvd[r][c])
          /\ (r = 0 => Leads(d, n, "idle", msg[r][c], pos[r][c]))
      <4>1. pc[r][c] = "idle" /\ FinishedPlan(r, c) = k
        BY <1>4 DEF FinishedPlan
      <4>2. /\ d \in Seq(Entry) /\ n \in 0 .. Len(d) /\ List(plans, d) /\ Begins(log[r][c], d)
            /\ Between(plans, d, n, FinishedPlan(r, c))
            /\ At(d, n, k, pc[r][c], msg[r][c], pos[r][c], sent[r][c], rcvd[r][c])
            /\ (r = 0 => Leads(d, n, pc[r][c], msg[r][c], pos[r][c]))
        BY PlaceFacts
      <4> QED BY <4>1, <4>2
    <3>2. CASE Wakes(plans, k + 1)
      <4>1. pc'[r][c] = p /\ p # "idle" /\ (r # 0 => p = "control") /\ (r = 0 => p = "claim")
        BY <3>2, <1>4
      <4>2. At(d, n, k + 1, p, msg[r][c], pos[r][c], sent[r][c], rcvd[r][c])
        BY <3>1, <4>1 DEF At
      <4>3. r = 0 => Leads(d, n, p, msg[r][c], pos[r][c])
        BY <3>1, <4>1 DEF Leads
      <4>4. FinishedPlan(r, c)' = k
        BY <4>1, <1>2, <1>3 DEF FinishedPlan
      <4> QED BY <2>2, <3>1, <3>2, <4>1, <4>2, <4>3, <4>4, <1>0, <1>3 DEF Placed
    <3>3. CASE ~Wakes(plans, k + 1)
      <4>1. pc'[r][c] = "idle"
        BY <3>3, <1>4
      <4>2. Between(plans, d, n, k + 1)
        <5> HIDE DEF d, n, k
        <5> QED BY <3>1, <3>3, <1>2, SkipsPlan
      <4>3. At(d, n, k + 1, "idle", msg[r][c], pos[r][c], sent[r][c], rcvd[r][c])
        BY <3>1 DEF At
      <4>4. FinishedPlan(r, c)' = k + 1
        BY <4>1, <1>3 DEF FinishedPlan
      <4> QED BY <2>2, <3>1, <4>1, <4>2, <4>3, <4>4, <1>0, <1>3 DEF Placed
    <3> QED BY <3>2, <3>3
  <2> QED BY <2>1, <2>2
<1>7. \A q \in Ranks, c \in Channels : Carried(q, c)'
  BY <1>0 DEF IInv, Carried, SentUpTo, RcvdUpTo
<1>8. \A c \in Channels : List(plans, claims[c])'
  BY <1>0 DEF IInv
<1>9. Shared(plans, claims, run[0], nextSlice)'
  <2>1. CASE r # 0
    <3>1. run'[0] = run[0]
      BY <2>1, <1>3, RingFacts
    <3>2. nextSlice' = nextSlice
      BY <2>1, <1>0
    <3> QED BY <3>1, <3>2, <1>0, <1>1
  <2>2. CASE r = 0
    <3>1. Wakes(plans, k) => \E c \in Channels : \E j \in DOMAIN claims[c] : EndOf(claims[c][j], k)
      <4> HAVE Wakes(plans, k)
      <4>1. PICK c \in Channels : TRUE
        BY DynamicAssumption
      <4>2. /\ claims[c] \in Seq(Entry) /\ Len(log[r][c]) \in 0 .. Len(claims[c])
            /\ Between(plans, claims[c], Len(log[r][c]), k)
        BY <1>4, PlaceFacts DEF FinishedPlan
      <4>3. k \in 1 .. k
        BY <1>2 DEF Wakes
      <4>4. PICK j \in 1 .. Len(log[r][c]) : EndOf(claims[c][j], k)
        BY <4>2, <4>3 DEF Between
      <4>5. j \in DOMAIN claims[c]
        BY <4>2, <4>4
      <4> QED BY <4>4, <4>5
    <3>2. nextSlice' = 0 \/ ~Wakes(plans, k + 1)
      BY <2>2, <1>0, <1>2
    <3>3. claims \in [Channels -> Seq(Entry)] /\ nextSlice \in Nat /\ nextSlice' \in Nat
      BY <1>1, <1>5 DEF Types
    <3>4. Shared(plans, claims, k, nextSlice)
      BY <1>1, <2>2
    <3>5. Shared(plans, claims, k + 1, nextSlice')
      <4> HIDE DEF k
      <4> QED BY <3>1, <3>2, <3>3, <3>4, <1>2, SharedMovesOn
    <3>6. run'[0] = k + 1
      BY <2>2, <1>3
    <3> QED BY <3>5, <3>6, <1>0
  <2> QED BY <2>1, <2>2
<1> QED BY <1>5, <1>6, <1>7, <1>8, <1>9 DEF IInv

-----------------------------------------------------------------------------
(* Rank 0 claims slices: the list of the channel grows.                      *)

\* A worker's place is not disturbed by a longer list.
LEMMA AtGrows ==
  ASSUME NEW d \in Seq(Entry), NEW h \in Seq(Entry), NEW l \in Seq(Entry), Begins(l, d),
         \A j \in DOMAIN d : j \in DOMAIN h /\ h[j] = d[j], Len(d) < Len(h), h[Len(d) + 1].tag = "control",
         NEW k, NEW p, NEW m, NEW q \in Nat, NEW s, NEW g, At(d, Len(l), k, p, m, q, s, g)
  PROVE  Begins(l, h) /\ At(h, Len(l), k, p, m, q, s, g)
<1> DEFINE n == Len(l)
<1>1. n \in Nat /\ Len(d) \in Nat /\ Len(h) \in Nat /\ n <= Len(d) /\ n < Len(h)
  BY DEF Begins
<1>2. \A j \in 1 .. Len(d) : h[j] = d[j]
  OBVIOUS
<1>3. Begins(l, h)
  BY <1>1, <1>2 DEF Begins
<1> HIDE DEF n
<1>4. At(d, n, k, p, m, q, s, g)
  BY DEF n
<1>5. p \in {"idle", "claim", "control"} => h[n + 1].tag = "control"
  <2>1. CASE n < Len(d)
    <3>1. n + 1 \in 1 .. Len(d)
      BY <2>1, <1>1
    <3> QED BY <3>1, <2>1, <1>2, <1>4 DEF At
  <2>2. CASE n = Len(d)
    BY <2>2
  <2> QED BY <2>1, <2>2, <1>1
<1>6. p = "slice" => m.type = "Batch" /\ q < m.count /\ q < n /\ h[n - q] = ControlTask(k, m, n - q)
  <2>1. q < n => n - q \in 1 .. Len(d)
    BY <1>1
  <2> QED BY <2>1, <1>2, <1>4 DEF At
<1>7. n < Len(d) => h[n + 1] = d[n + 1]
  <2>1. n < Len(d) => n + 1 \in 1 .. Len(d)
    BY <1>1
  <2> QED BY <2>1, <1>2
<1>8. At(h, n, k, p, m, q, s, g)
  BY <1>1, <1>4, <1>5, <1>6, <1>7 DEF At
<1> QED BY <1>3, <1>8 DEF n

\* What a claim announces: the next slices of the plan, or its END when none is
\* left.
LEMMA ClaimAnnounces ==
  ASSUME plans \in Runs, run[0] \in Nat, nextSlice \in Nat, Wakes(plans, run[0]), nextSlice <= Len(plans[run[0]])
  PROVE  /\ Announces(plans, run[0], ClaimMessage, nextSlice)
         /\ ClaimMessage \in Message /\ nextSlice + ClaimCount = nextSlice + ClaimMessage.count
<1> DEFINE n == Len(plans[run[0]])
<1>1. n \in Nat
  BY PlanFacts DEF Wakes
<1>2. BatchSize \in Nat \ {0}
  BY DynamicAssumption
<1>3. ClaimCount = IF n - nextSlice <= BatchSize THEN n - nextSlice ELSE BatchSize
  <2> HIDE DEF n
  <2>1. Min({n - nextSlice, BatchSize}) = IF n - nextSlice <= BatchSize THEN n - nextSlice ELSE BatchSize
    BY <1>1, <1>2, MinOfTwo
  <2> QED BY <2>1 DEF n, ClaimCount
<1>4. ClaimCount \in Nat /\ nextSlice + ClaimCount <= n /\ (ClaimCount = 0 => nextSlice = n)
  <2> HIDE DEF n
  <2> QED BY <1>1, <1>2, <1>3 DEF n
<1>5. CASE ClaimCount = 0
  <2>1. ClaimMessage = [type |-> "End", start |-> 0, count |-> 0]
    BY <1>5 DEF ClaimMessage
  <2> QED BY <2>1, <1>4, <1>5 DEF Announces, Message
<1>6. CASE ClaimCount # 0
  <2>1. ClaimMessage = [type |-> "Batch", start |-> nextSlice, count |-> ClaimCount]
    BY <1>6 DEF ClaimMessage
  <2>2. ClaimCount > 0
    BY <1>4, <1>6
  <2> QED BY <2>1, <2>2, <1>4 DEF Announces, Message
<1> QED BY <1>5, <1>6

\* A claim lengthens the list of the channel by a message and its slices, at the
\* point every rank that has come so far is waiting at.
LEMMA ClaimKeeps ==
  ASSUME IInv, NEW c \in Channels, Claim(c)
  PROVE  IInv'
<1> DEFINE k == run[0]
           d == claims[c]
           m == ClaimMessage
           s == nextSlice
           h == d \o Tasks(k, m, Len(d))
<1>0. /\ pc[0][c] = "claim" /\ nextSlice' = s + ClaimCount /\ msg' = [msg EXCEPT ![0][c] = m]
      /\ pc' = [pc EXCEPT ![0][c] = "control"] /\ claims' = [claims EXCEPT ![c] = h]
      /\ plans' = plans /\ run' = run /\ pos' = pos /\ sent' = sent /\ rcvd' = rcvd /\ edge' = edge /\ log' = log
  BY DEF Claim
<1>1. Types /\ (\A q \in Ranks, x \in Channels : Placed(q, x) /\ Carried(q, x)) /\ Shared(plans, claims, k, s)
      /\ 0 \in Ranks /\ \A x \in Channels : List(plans, claims[x])
  <2>1. 0 \in Ranks
    BY DynamicAssumption DEF Ranks
  <2> QED BY <2>1 DEF IInv
<1>2. /\ plans \in Runs /\ d \in Seq(Entry) /\ Len(d) \in Nat /\ k \in Nat \ {0} /\ Wakes(plans, k) /\ List(plans, d)
      /\ Len(log[0][c]) = Len(d) /\ Between(plans, d, Len(d), k - 1) /\ s \in Nat
      /\ At(d, Len(d), k, "claim", msg[0][c], pos[0][c], sent[0][c], rcvd[0][c])
      /\ Begins(log[0][c], d)
  <2>1. s \in Nat
    BY <1>1 DEF Types
  <2>2. /\ plans \in Runs /\ d \in Seq(Entry) /\ Len(d) \in Nat /\ List(plans, d) /\ Begins(log[0][c], d)
        /\ (pc[0][c] # "idle" => Wakes(plans, k) /\ k \in Nat \ {0} /\ Between(plans, d, Len(log[0][c]), k - 1))
        /\ At(d, Len(log[0][c]), k, pc[0][c], msg[0][c], pos[0][c], sent[0][c], rcvd[0][c])
        /\ Leads(d, Len(log[0][c]), pc[0][c], msg[0][c], pos[0][c])
    BY <1>1, PlaceFacts
  <2>3. Len(log[0][c]) = Len(d)
    BY <2>2, <1>0 DEF Leads
  <2> QED BY <2>1, <2>2, <2>3, <1>0
<1>3. Announces(plans, k, m, s) /\ m \in Message /\ nextSlice' = s + m.count
  <2>1. s <= Len(plans[k])
    BY <1>1, <1>2 DEF Shared
  <2> QED BY <2>1, <1>0, <1>2, ClaimAnnounces
<1>4. h \in Seq(Entry) /\ Extends(h, d, k, m)
  <2>1. k \in Nat
    BY <1>2
  <2> HIDE DEF d, k, m
  <2> QED BY <2>1, <1>2, <1>3, ClaimExtends
<1>5. \A j \in DOMAIN d : Proper(plans, d[j], j) /\ d[j].run <= k
  BY <1>1, <1>2 DEF List, Shared
<1>6. claims' \in [Channels -> Seq(Entry)] /\ claims'[c] = h /\ \A x \in Channels : x # c => claims'[x] = claims[x]
  BY <1>0, <1>1, <1>4 DEF Types
<1>7. /\ msg' \in [Ranks -> [Channels -> Message]] /\ msg'[0][c] = m
      /\ pc' \in [Ranks -> [Channels -> {"idle", "claim", "control", "slice", "failed"}]] /\ pc'[0][c] = "control"
      /\ \A q \in Ranks, x \in Channels : q # 0 \/ x # c => msg'[q][x] = msg[q][x] /\ pc'[q][x] = pc[q][x]
  BY <1>0, <1>1, <1>3 DEF Types
<1>8. /\ \A j \in DOMAIN d : j \in DOMAIN h /\ h[j] = d[j]
      /\ Len(d) < Len(h) /\ h[Len(d) + 1].tag = "control"
  <2> HIDE DEF d, h, k, m, s
  <2>1. k \in Nat /\ \A j \in DOMAIN d : Proper(plans, d[j], j)
    BY <1>2, <1>5
  <2> QED BY <2>1, <1>2, <1>3, <1>4, LongerFacts
<1>9. List(plans, h)
  <2> HIDE DEF d, h, k, m, s
  <2>1. \A j \in DOMAIN d : d[j].run <= k
    BY <1>5
  <2> QED BY <2>1, <1>2, <1>3, <1>4, ListGrows
<1>10. Shared(plans, claims', k, s + m.count)
  <2>1. claims \in [Channels -> Seq(Entry)]
    BY <1>1 DEF Types
  <2>2. \A j \in DOMAIN claims[c] : Proper(plans, claims[c][j], j)
    BY <1>5
  <2>3. Extends(h, claims[c], k, m) /\ h \in Seq(Entry)
    BY <1>4
  <2>4. Shared(plans, [claims EXCEPT ![c] = h], k, s + m.count)
    <3> HIDE DEF d, h, k, m, s
    <3>1. Shared(plans, claims, k, s)
      BY <1>1
    <3> QED BY <2>1, <2>2, <2>3, <3>1, <1>2, <1>3, SharedGrows
  <2> QED BY <2>4, <1>0
<1>11. ASSUME NEW n \in 0 .. Len(d), NEW f \in Nat, Between(plans, d, n, f) PROVE Between(plans, h, n, f)
  <2> HIDE DEF d, h, k, m, s
  <2> QED BY <1>11, <1>2, <1>3, <1>4, PlaceGrows
<1>12. ASSUME NEW q \in Ranks PROVE Placed(q, c)'
  <2> DEFINE l == log[q][c]
  <2>1. /\ l \in Seq(Entry) /\ Begins(l, d) /\ Len(l) \in 0 .. Len(d) /\ FinishedPlan(q, c) \in Nat
        /\ Between(plans, d, Len(l), FinishedPlan(q, c))
        /\ At(d, Len(l), run[q], pc[q][c], msg[q][c], pos[q][c], sent[q][c], rcvd[q][c])
        /\ pos[q][c] \in Nat /\ (pc[q][c] # "idle" => Wakes(plans, run[q])) /\ (q # 0 => pc[q][c] # "claim")
    BY PlaceFacts
  <2>2. Begins(l, h) /\ At(h, Len(l), run[q], pc[q][c], msg[q][c], pos[q][c], sent[q][c], rcvd[q][c])
    <3> HIDE DEF d, h, l
    <3> QED BY <2>1, <1>2, <1>4, <1>8, AtGrows
  <2>3. Between(plans, h, Len(l), FinishedPlan(q, c))
    BY <2>1, <1>11
  <2>4. FinishedPlan(q, c)' = FinishedPlan(q, c)
    BY <1>0, <1>7 DEF FinishedPlan
  <2>5. CASE q # 0
    BY <2>1, <2>2, <2>3, <2>4, <2>5, <1>0, <1>6, <1>7 DEF Placed
  <2>6. CASE q = 0
    <3>1. At(h, Len(l), k, "control", m, pos[0][c], sent[0][c], rcvd[0][c])
      <4>1. At(h, Len(l), k, "claim", msg[0][c], pos[0][c], sent[0][c], rcvd[0][c])
        BY <2>2, <2>6, <1>0
      <4> HIDE DEF h, k, m, l
      <4> QED BY <4>1 DEF At
    <3>2. Leads(h, Len(l), "control", m, pos[0][c])
      <4>1. Len(h) = Len(d) + 1 + m.count /\ h[Len(d) + 1] = ControlTask(k, m, Len(d) + 1)
        BY <1>4 DEF Extends
      <4>2. Len(l) = Len(d)
        BY <2>6, <1>2
      <4>3. h[Len(d) + 1].msg = m
        BY <4>1 DEF ControlTask
      <4> HIDE DEF d, h, k, m, l
      <4> QED BY <4>1, <4>2, <4>3, <1>8 DEF Leads
    <3> QED BY <2>1, <2>2, <2>3, <2>4, <2>6, <3>1, <3>2, <1>0, <1>2, <1>6, <1>7 DEF Placed
  <2> QED BY <2>5, <2>6
<1>13. ASSUME NEW q \in Ranks PROVE Carried(q, c)'
  <2>1. Carries(plans, d, edge[q][c], q, RcvdUpTo(GetNextRank(q), c), SentUpTo(q, c))
    BY <1>1 DEF Carried
  <2>2. edge[q][c] \in Seq(Entry) /\ SentUpTo(q, c) \in Nat /\ RcvdUpTo(GetNextRank(q), c) \in Nat
    BY PlaceFacts, RingFacts
  <2>3. Carries(plans, h, edge[q][c], q, RcvdUpTo(GetNextRank(q), c), SentUpTo(q, c))
    <3> HIDE DEF h, d
    <3>0. Len(h) \in Nat
      BY <1>4
    <3>1. Len(d) <= Len(h)
      BY <3>0, <1>2, <1>8
    <3> QED BY <2>1, <2>2, <3>1, <1>2, <1>4, <1>8, EdgeGrows
  <2>4. SentUpTo(q, c)' = SentUpTo(q, c) /\ RcvdUpTo(GetNextRank(q), c)' = RcvdUpTo(GetNextRank(q), c)
    BY <1>0 DEF SentUpTo, RcvdUpTo
  <2> QED BY <2>3, <2>4, <1>0, <1>6 DEF Carried
<1>14. ASSUME NEW q \in Ranks, NEW x \in Channels PROVE Placed(q, x)' /\ Carried(q, x)'
  <2>1. CASE x = c
    BY <2>1, <1>12, <1>13
  <2>2. CASE x # c
    <3>1. claims'[x] = claims[x] /\ pc'[q][x] = pc[q][x] /\ msg'[q][x] = msg[q][x] /\ Placed(q, x) /\ Carried(q, x)
      BY <2>2, <1>1, <1>6, <1>7
    <3>2. Placed(q, x)'
      BY <3>1, <1>0 DEF Placed, FinishedPlan
    <3>3. Carried(q, x)'
      BY <3>1, <1>0 DEF Carried, SentUpTo, RcvdUpTo
    <3> QED BY <3>2, <3>3
  <2> QED BY <2>1, <2>2
<1>15. \A x \in Channels : List(plans, claims[x])'
  BY <1>0, <1>1, <1>6, <1>9
<1>16. Shared(plans, claims, run[0], nextSlice)'
  BY <1>0, <1>3, <1>10
<1>17. Types'
  <2>1. nextSlice' \in Nat
    BY <1>2, <1>3 DEF Message
  <2> QED BY <2>1, <1>0, <1>1, <1>6, <1>7 DEF Types
<1> QED BY <1>14, <1>15, <1>16, <1>17 DEF IInv

-----------------------------------------------------------------------------
(* The invariant holds.                                                      *)

\* Before the first Run nothing is claimed, executed or sent.
LEMMA InitKeeps == Init => IInv
<1> SUFFICES ASSUME Init PROVE IInv
  OBVIOUS
<1>1. /\ plans \in Runs /\ Len(plans) \in Nat /\ (\A r \in Ranks : run[r] = 0) /\ nextSlice = 0
      /\ \A c \in Channels : claims[c] = << >>
      /\ \A r \in Ranks, c \in Channels :
           /\ pc[r][c] = "idle" /\ msg[r][c] = NoMsg /\ pos[r][c] = 0 /\ sent[r][c] = FALSE /\ rcvd[r][c] = FALSE
           /\ edge[r][c] = << >> /\ log[r][c] = << >>
  BY PlanFacts DEF Init, Each
<1>2. Types
  <2>1. NoMsg \in Message /\ << >> \in Seq(Entry) /\ Len(<< >>) = 0 /\ 0 <= Capacity
    BY DynamicAssumption DEF NoMsg, Message
  <2>2. run \in [Ranks -> 0 .. Len(plans)]
    BY <1>1 DEF Init
  <2>3. \A r \in Ranks, c \in Channels : Len(edge[r][c]) <= Capacity
    BY <1>1, <2>1
  <2> QED BY <2>1, <2>2, <2>3 DEF Types, Init, Each
<1>3. \A c \in Channels : List(plans, claims[c])
  BY <1>1 DEF List, InPlanOrder, InBatches
<1>4. ASSUME NEW r \in Ranks, NEW c \in Channels PROVE Placed(r, c)
  <2>1. Begins(<< >>, << >>) /\ Between(plans, << >>, 0, 0)
    BY DEF Begins, Between
  <2>2. At(<< >>, 0, 0, "idle", NoMsg, 0, FALSE, FALSE) /\ Leads(<< >>, 0, "idle", NoMsg, 0)
    BY DEF At, Leads
  <2>3. Len(<< >>) = 0
    OBVIOUS
  <2>4. Begins(log[r][c], claims[c]) /\ Len(log[r][c]) = 0 /\ FinishedPlan(r, c) = 0
    BY <1>1, <2>1, <2>3 DEF FinishedPlan
  <2>5. Between(plans, claims[c], Len(log[r][c]), FinishedPlan(r, c))
    BY <1>1, <2>1, <2>4
  <2>6. /\ At(claims[c], Len(log[r][c]), run[r], pc[r][c], msg[r][c], pos[r][c], sent[r][c], rcvd[r][c])
        /\ Leads(claims[c], Len(log[r][c]), pc[r][c], msg[r][c], pos[r][c])
    BY <1>1, <2>2, <2>4
  <2> QED BY <2>4, <2>5, <2>6, <1>1 DEF Placed
<1>5. ASSUME NEW r \in Ranks, NEW c \in Channels PROVE Carried(r, c)
  <2>1. Carries(plans, << >>, << >>, r, 0, 0)
    BY DEF Carries
  <2>2. GetNextRank(r) \in Ranks
    BY RingFacts
  <2>3. UpTo(0, FALSE) = 0 /\ Len(<< >>) = 0
    BY DEF UpTo
  <2>4. RcvdUpTo(GetNextRank(r), c) = 0 /\ SentUpTo(r, c) = 0
    BY <1>1, <2>2, <2>3 DEF RcvdUpTo, SentUpTo
  <2> QED BY <2>1, <2>4, <1>1 DEF Carried
<1>6. Shared(plans, claims, run[0], nextSlice)
  <2>1. run[0] = 0
    BY <1>1, DynamicAssumption DEF Ranks
  <2>2. ~Wakes(plans, 0)
    BY <1>1 DEF Wakes
  <2>3. \A c \in Channels : DOMAIN claims[c] = {}
    BY <1>1
  <2> QED BY <1>1, <2>1, <2>2, <2>3 DEF Shared
<1> QED BY <1>2, <1>3, <1>4, <1>5, <1>6 DEF IInv

\* A step that changes nothing.
LEMMA StutterKeeps == IInv /\ UNCHANGED vars => IInv'
<1> SUFFICES ASSUME IInv, UNCHANGED vars PROVE IInv'
  OBVIOUS
<1>1. /\ plans' = plans /\ run' = run /\ nextSlice' = nextSlice /\ pc' = pc /\ msg' = msg /\ pos' = pos
      /\ sent' = sent /\ rcvd' = rcvd /\ edge' = edge /\ claims' = claims /\ log' = log
  BY DEF vars
<1>2. Types'
  BY <1>1 DEF IInv, Types
<1>3. \A c \in Channels : List(plans, claims[c])'
  BY <1>1 DEF IInv
<1>4. \A r \in Ranks, c \in Channels : Placed(r, c)'
  BY <1>1 DEF IInv, Placed, FinishedPlan
<1>5. \A r \in Ranks, c \in Channels : Carried(r, c)'
  BY <1>1 DEF IInv, Carried, SentUpTo, RcvdUpTo
<1>6. Shared(plans, claims, run[0], nextSlice)'
  BY <1>1 DEF IInv
<1> QED BY <1>2, <1>3, <1>4, <1>5, <1>6 DEF IInv

\* Every step preserves the invariant.
LEMMA NextKeeps == IInv /\ [Next]_vars => IInv'
<1> SUFFICES ASSUME IInv, [Next]_vars PROVE IInv'
  OBVIOUS
<1>1. ASSUME NEW r \in Ranks, Run(r) PROVE IInv'
  BY <1>1, RunKeeps
<1>2. ASSUME NEW c \in Channels, Claim(c) PROVE IInv'
  BY <1>2, ClaimKeeps
<1>3. ASSUME NEW r \in Ranks, NEW c \in Channels, WorkerStep(r, c) PROVE IInv'
  <2>1. CASE TaskSend(r, c)
    BY <2>1, TaskSendKeeps
  <2>2. CASE TaskRecv(r, c)
    BY <2>2, TaskRecvKeeps
  <2>3. CASE AfterControl(r, c)
    BY <2>3, AfterControlKeeps
  <2>4. CASE AfterSlice(r, c)
    BY <2>4, AfterSliceKeeps
  <2> QED BY <1>3, <2>1, <2>2, <2>3, <2>4 DEF WorkerStep
<1>4. ASSUME NEW r \in Ranks, NEW c \in Channels, Fail(r, c) PROVE IInv'
  BY <1>4, FailKeeps
<1>5. CASE Finished
  BY <1>5, StutterKeeps DEF Finished
<1>6. CASE UNCHANGED vars
  BY <1>6, StutterKeeps
<1> QED BY <1>1, <1>2, <1>3, <1>4, <1>5, <1>6 DEF Next

\* What each channel is told to do, what each rank has done of it and what is
\* on the edges fit together in every reachable state.
THEOREM DynamicInvariant == Spec => []IInv
<1>1. Init => IInv
  BY InitKeeps
<1>2. IInv /\ [Next]_vars => IInv'
  BY NextKeeps
<1> QED BY <1>1, <1>2, PTL DEF Spec

-----------------------------------------------------------------------------
(* What it means for the system.                                             *)

\* The range of the variables.
LEMMA TypeHolds == IInv => TypeOK
<1> SUFFICES ASSUME IInv PROVE TypeOK
  OBVIOUS
<1>1. Types
  BY DEF IInv
<1>2. \A r \in Ranks, c \in Channels : msg[r][c].type \in {"None", "Batch", "End"}
  BY <1>1 DEF Types, Message
<1> QED BY <1>1, <1>2 DEF Types, TypeOK

\* What a rank has executed on a channel is the beginning of one and the same
\* list.
LEMMA ExecutedFacts ==
  ASSUME IInv, NEW r \in Ranks, NEW c \in Channels
  PROVE  /\ DOMAIN log[r][c] = 1 .. Len(log[r][c]) /\ Len(log[r][c]) \in Nat
         /\ \A j \in DOMAIN log[r][c] : j \in DOMAIN claims[c] /\ log[r][c][j] = claims[c][j]
<1>1. /\ claims[c] \in Seq(Entry) /\ log[r][c] \in Seq(Entry) /\ Len(claims[c]) \in Nat
      /\ Len(log[r][c]) \in 0 .. Len(claims[c]) /\ Begins(log[r][c], claims[c])
  BY PlaceFacts
<1> QED BY <1>1 DEF Begins

\* Two ranks that have executed an n-th task have executed the same one.
LEMMA AgreementHolds == IInv => Agreement
<1> SUFFICES ASSUME IInv PROVE Agreement
  OBVIOUS
<1> QED BY ExecutedFacts DEF Agreement

\* The lists hold no slice twice, so neither does what a rank has executed.
LEMMA AtMostOnce ==
  ASSUME IInv, NEW r \in Ranks, NEW k, NEW i
  PROVE  Cardinality(Executions(r, k, i)) <= 1
<1> DEFINE S == Executions(r, k, i)
<1>1. ASSUME NEW u \in S
      PROVE  \E c \in Channels : \E j \in DOMAIN claims[c] : u = <<c, j>> /\ SliceAt(claims[c][j], k, i)
  <2>0. PICK c \in Channels :
          u \in {<<c, x>> : x \in {y \in DOMAIN log[r][c] :
                                  log[r][c][y].tag = "slice" /\ log[r][c][y].run = k /\ log[r][c][y].index = i}}
    BY <1>1 DEF Executions, Places
  <2>1. PICK j \in DOMAIN log[r][c] :
          u = <<c, j>> /\ log[r][c][j].tag = "slice" /\ log[r][c][j].run = k /\ log[r][c][j].index = i
    BY <2>0
  <2>2. j \in DOMAIN claims[c] /\ log[r][c][j] = claims[c][j]
    BY ExecutedFacts
  <2> QED BY <2>1, <2>2 DEF SliceAt
<1>2. ASSUME NEW u \in S, NEW v \in S PROVE u = v
  <2>1. PICK c1 \in Channels : \E x \in DOMAIN claims[c1] : u = <<c1, x>> /\ SliceAt(claims[c1][x], k, i)
    BY <1>1
  <2>1a. PICK j1 \in DOMAIN claims[c1] : u = <<c1, j1>> /\ SliceAt(claims[c1][j1], k, i)
    BY <2>1
  <2>2. PICK c2 \in Channels : \E x \in DOMAIN claims[c2] : v = <<c2, x>> /\ SliceAt(claims[c2][x], k, i)
    BY <1>1
  <2>2a. PICK j2 \in DOMAIN claims[c2] : v = <<c2, j2>> /\ SliceAt(claims[c2][j2], k, i)
    BY <2>2
  <2>3. claims[c1][j1].tag = "slice" /\ claims[c1][j1].run = k /\ claims[c1][j1].index = i
    BY <2>1a DEF SliceAt
  <2>4. c1 = c2 /\ j1 = j2
    BY <2>2a, <2>3 DEF IInv, Shared
  <2> QED BY <2>1a, <2>2a, <2>4
<1> HIDE DEF S
<1>3. CASE S = {}
  <2>1. Cardinality(S) = 0
    BY <1>3, FS_EmptySet
  <2> QED BY <2>1 DEF S
<1>4. CASE S # {}
  <2>1. PICK u : u \in S
    BY <1>4
  <2>2. S = {u}
    BY <2>1, <1>2
  <2>3. Cardinality(S) = 1
    BY <2>2, FS_Singleton
  <2> QED BY <2>3 DEF S
<1> QED BY <1>3, <1>4

\* A rank that is through with plan k has executed all its slices: it has had
\* the END of the plan on every channel.
LEMMA AtLeastOnce ==
  ASSUME IInv, NEW r \in Ranks, NEW k \in 1 .. run[r], NEW i \in 0 .. Len(plans[k]) - 1,
         k < run[r] \/ WorkersIdle(r)
  PROVE  Executions(r, k, i) # {}
<1>0. Types /\ Shared(plans, claims, run[0], nextSlice) /\ 0 \in Ranks
  BY RingFacts DEF IInv
<1>1. run[r] \in Nat /\ run[r] <= Len(plans) /\ Len(plans) \in Nat /\ plans \in Runs /\ run[0] \in Nat /\ nextSlice \in Nat
  <2>1. run[r] \in 0 .. Len(plans) /\ run[0] \in 0 .. Len(plans) /\ plans \in Runs /\ nextSlice \in Nat
    BY <1>0 DEF Types
  <2>2. Len(plans) \in Nat
    BY <2>1, PlanFacts
  <2> QED BY <2>1, <2>2
<1>2. Wakes(plans, k) /\ k \in Nat /\ Len(plans[k]) \in Nat
  <2>1. k \in 1 .. Len(plans)
    BY <1>1
  <2>2. Len(plans[k]) \in Nat /\ Len(plans[k]) > 0
    BY <2>1, <1>1, PlanFacts
  <2>3. plans[k] # << >>
    BY <2>2
  <2> QED BY <2>1, <2>2, <2>3 DEF Wakes
<1>3. \A c \in Channels : FinishedPlan(r, c) \in Nat /\ k <= FinishedPlan(r, c)
  <2> TAKE c \in Channels
  <2>1. FinishedPlan(r, c) \in Nat
    BY PlaceFacts
  <2>2. CASE pc[r][c] = "idle"
    BY <2>1, <2>2, <1>1 DEF FinishedPlan
  <2>3. CASE pc[r][c] # "idle"
    <3>1. k < run[r]
      BY <2>3 DEF WorkersIdle
    <3> QED BY <2>1, <2>3, <3>1, <1>1 DEF FinishedPlan
  <2> QED BY <2>2, <2>3
<1>4. PICK b \in Channels : TRUE
  BY DynamicAssumption
<1>5. PICK e \in DOMAIN claims[b] : EndOf(claims[b][e], k)
  <2>1. k \in 1 .. FinishedPlan(r, b)
    BY <1>3
  <2>2. /\ claims[b] \in Seq(Entry) /\ Len(log[r][b]) \in 0 .. Len(claims[b])
        /\ Between(plans, claims[b], Len(log[r][b]), FinishedPlan(r, b))
    BY PlaceFacts
  <2>3. PICK j \in 1 .. Len(log[r][b]) : EndOf(claims[b][j], k)
    BY <2>1, <2>2, <1>2 DEF Between
  <2>4. j \in DOMAIN claims[b]
    BY <2>2
  <2> QED BY <2>3, <2>4
<1>6. Taken(claims, k, i)
  <2>1. claims[b][e].run <= run[0] /\ claims[b][e].run = k
    BY <1>0, <1>5 DEF Shared, EndOf
  <2>2. CASE k = run[0]
    <3>1. nextSlice = Len(plans[k])
      BY <2>2, <1>0, <1>5 DEF Shared
    <3>2. i \in 0 .. nextSlice - 1
      BY <3>1
    <3> QED BY <2>2, <3>2, <1>0, <1>2 DEF Shared
  <2>3. CASE k < run[0]
    <3>1. k \in 1 .. run[0] - 1
      BY <2>3, <1>1
    <3> QED BY <3>1, <1>0 DEF Shared
  <2> QED BY <2>1, <2>2, <2>3, <1>1, <1>2
<1>6a. PICK c \in Channels : \E x \in DOMAIN claims[c] : SliceAt(claims[c][x], k, i)
  BY <1>6 DEF Taken
<1>7. PICK j \in DOMAIN claims[c] : SliceAt(claims[c][j], k, i)
  BY <1>6a
<1>8. j \in DOMAIN log[r][c]
  <2>1. /\ claims[c] \in Seq(Entry) /\ Len(claims[c]) \in Nat /\ log[r][c] \in Seq(Entry)
        /\ Len(log[r][c]) \in 0 .. Len(claims[c])
        /\ Between(plans, claims[c], Len(log[r][c]), FinishedPlan(r, c))
    BY PlaceFacts
  <2>2. ASSUME j > Len(log[r][c]) PROVE FALSE
    <3>1. j \in Len(log[r][c]) + 1 .. Len(claims[c])
      BY <2>1, <2>2, <1>7
    <3>2. claims[c][j].run > FinishedPlan(r, c) /\ claims[c][j].run = k
      BY <3>1, <2>1, <1>7 DEF Between, SliceAt
    <3> QED BY <3>2, <1>2, <1>3
  <2>3. j \in 1 .. Len(claims[c])
    BY <2>1
  <2> QED BY <2>1, <2>2, <2>3
<1>9. log[r][c][j] = claims[c][j]
  BY <1>8, ExecutedFacts
<1>10. <<c, j>> \in Executions(r, k, i)
  BY <1>7, <1>8, <1>9 DEF Executions, Places, SliceAt
<1> QED BY <1>10

\* The two together.
LEMMA ExactlyOnceHolds == IInv => ExactlyOnce
<1> SUFFICES ASSUME IInv PROVE ExactlyOnce
  OBVIOUS
<1> QED BY AtMostOnce, AtLeastOnce DEF ExactlyOnce

\* No rank executes a slice twice, none that has returned has left one out, and
\* on every channel all execute the same tasks in the same order.
THEOREM SlicesExecutedOnce == Spec => []SlicesOnce
<1>1. IInv => SlicesOnce
  BY TypeHolds, AgreementHolds, ExactlyOnceHolds DEF SlicesOnce
<1> QED BY <1>1, DynamicInvariant, PTL

\* A worker that is about to receive, and something is there.
Receiving(r, c) ==
  InTask(r, c) /\ Recvs(r, Task(r, c)) /\ ~rcvd[r][c] /\ edge[GetPrevRank(r)][c] # << >>

\* The first item on an edge is the one of the receiver's next task.
LEMMA FirstIsNext ==
  ASSUME IInv, NEW r \in Ranks, NEW c \in Channels, Receiving(r, c)
  PROVE  /\ Len(log[r][c]) < Len(claims[c])
         /\ Head(edge[GetPrevRank(r)][c]) = claims[c][Len(log[r][c]) + 1]
<1> DEFINE v == GetPrevRank(r)
           d == claims[c]
           n == Len(log[r][c])
           e == edge[v][c]
           b == SentUpTo(v, c)
<1>1. v \in Ranks /\ GetNextRank(v) = r
  BY RingFacts
<1>2. d \in Seq(Entry) /\ e \in Seq(Entry) /\ n \in Nat /\ b \in Nat /\ Len(d) \in Nat
  BY <1>1, PlaceFacts
<1>3. Carries(plans, d, e, v, n, b)
  <2>1. RcvdUpTo(r, c) = n
    BY DEF Receiving, RcvdUpTo, UpTo
  <2> QED BY <1>1, <2>1 DEF IInv, Carried
<1>4. n < Len(d) => Crosses(plans, v, d[n + 1])
  <2> HAVE n < Len(d)
  <2>1. TaskOf(plans, d[n + 1]) = Task(r, c)
    BY TaskIs DEF Receiving
  <2>2. Sends(v, Task(r, c))
    BY BothSides DEF Receiving
  <2> QED BY <2>1, <2>2 DEF Crosses
<1>5. e # << >>
  BY DEF Receiving
<1>6. /\ n < Len(d) /\ Head(e) = d[n + 1]
      /\ Tail(e) \in Seq(Entry) /\ Carries(plans, d, Tail(e), v, n + 1, b)
  <2> HIDE DEF d, n, e, b, v
  <2> QED BY <1>2, <1>3, <1>4, <1>5, CarriesTake
<1> QED BY <1>6

\* So what the worker is about to read is what it takes it for.
LEMMA FramedHolds == IInv => Framed
<1> SUFFICES ASSUME IInv, NEW r \in Ranks, NEW c \in Channels, Receiving(r, c)
             PROVE  LET item == Head(edge[GetPrevRank(r)][c])
                    IN  /\ item.tag = pc[r][c] /\ item.run = run[r]
                        /\ item.tag = "slice" => item.index = Index(r, c)
  BY DEF Framed, Receiving
<1>1. /\ Len(log[r][c]) < Len(claims[c])
      /\ Head(edge[GetPrevRank(r)][c]) = claims[c][Len(log[r][c]) + 1]
  BY FirstIsNext
<1> QED BY <1>1, TaskIs DEF Receiving

\* Ranks that have returned have executed all there is, so nothing is under way.
LEMMA DrainedHolds == IInv => Drained
<1> SUFFICES ASSUME IInv, \A r \in Ranks : Returned(r), NEW r \in Ranks, NEW c \in Channels
             PROVE  edge[r][c] = << >>
  BY DEF Drained
<1>1. ASSUME NEW q \in Ranks
      PROVE  Len(log[q][c]) = Len(claims[c]) /\ sent[q][c] = FALSE /\ rcvd[q][c] = FALSE
  <2>1. pc[q][c] = "idle" /\ run[q] = Len(plans)
    BY DEF Returned, WorkersIdle
  <2>2. FinishedPlan(q, c) = Len(plans)
    BY <2>1 DEF FinishedPlan
  <2>3. /\ claims[c] \in Seq(Entry) /\ Len(claims[c]) \in Nat /\ Len(log[q][c]) \in 0 .. Len(claims[c])
        /\ Between(plans, claims[c], Len(log[q][c]), Len(plans)) /\ Len(plans) \in Nat
        /\ At(claims[c], Len(log[q][c]), run[q], "idle", msg[q][c], pos[q][c], sent[q][c], rcvd[q][c])
        /\ sent[q][c] \in BOOLEAN /\ rcvd[q][c] \in BOOLEAN
    <3>1. /\ claims[c] \in Seq(Entry) /\ Len(claims[c]) \in Nat /\ Len(log[q][c]) \in 0 .. Len(claims[c])
          /\ Between(plans, claims[c], Len(log[q][c]), FinishedPlan(q, c)) /\ Len(plans) \in Nat
          /\ At(claims[c], Len(log[q][c]), run[q], pc[q][c], msg[q][c], pos[q][c], sent[q][c], rcvd[q][c])
          /\ sent[q][c] \in BOOLEAN /\ rcvd[q][c] \in BOOLEAN
      BY PlaceFacts
    <3> QED BY <2>1, <2>2, <3>1
  <2>4. ASSUME Len(log[q][c]) < Len(claims[c]) PROVE FALSE
    <3>1. Len(claims[c]) \in Len(log[q][c]) + 1 .. Len(claims[c]) /\ Len(claims[c]) \in DOMAIN claims[c]
      BY <2>3, <2>4
    <3>2. claims[c][Len(claims[c])] \in Entry
      BY <2>3, <3>1
    <3>3. claims[c][Len(claims[c])].run \in Nat
      BY <3>2 DEF Entry
    <3>4. claims[c][Len(claims[c])].run > Len(plans)
      BY <2>3, <3>1 DEF Between
    <3>5. claims[c][Len(claims[c])].run <= run[0]
      BY <3>1 DEF IInv, Shared
    <3>6. run[0] = Len(plans)
      BY RingFacts DEF Returned
    <3> QED BY <2>3, <3>3, <3>4, <3>5, <3>6
  <2>5. sent[q][c] = FALSE /\ rcvd[q][c] = FALSE
    BY <2>3 DEF At
  <2> QED BY <2>3, <2>4, <2>5
<1> DEFINE d == claims[c]
           e == edge[r][c]
<1>2. d \in Seq(Entry) /\ Len(d) \in Nat /\ e \in Seq(Entry) /\ GetNextRank(r) \in Ranks
  BY PlaceFacts, RingFacts
<1>3. SentUpTo(r, c) = Len(d) /\ RcvdUpTo(GetNextRank(r), c) = Len(d)
  BY <1>1, <1>2 DEF SentUpTo, RcvdUpTo, UpTo
<1>4. Carries(plans, d, e, r, Len(d), Len(d))
  BY <1>3 DEF IInv, Carried
<1>5. Len(d) + 1 .. Len(d) = {}
  BY <1>2
<1>6. DOMAIN e = {}
  BY <1>4, <1>5 DEF Carries
<1> HIDE DEF d, e
<1>7. e = << >>
  BY <1>2, <1>6
<1> QED BY <1>7 DEF e

\* An item on an edge is always read as what it is, in its run, and the edges
\* are empty when all ranks have returned.
THEOREM FramingKept == Spec => []EdgesFramed
<1>1. IInv => EdgesFramed
  BY FramedHolds, DrainedHolds DEF EdgesFramed
<1> QED BY <1>1, DynamicInvariant, PTL
=============================================================================
