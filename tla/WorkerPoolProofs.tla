--------------------------- MODULE WorkerPoolProofs ---------------------------
(***************************************************************************)
(* Proofs about WorkerPool for every set of scripts and every number of    *)
(* channels.                                                               *)
(*                                                                         *)
(* BatchOnce, PlanAlive and ResultFaithful say nothing of why they hold;   *)
(* the inductive invariant does.  PoolInv ties a worker's position to the  *)
(* caller's (a thread exists exactly below workers_.size(), and has left   *)
(* only during the join).  IdInv is the argument of the batch ids: between *)
(* two batches every worker has finished the last one, so publishing makes *)
(* every worker owe exactly one report.  WorkInv relates what a worker has *)
(* in its locals to the tasks executed, and ResultInv what the reports     *)
(* made of batch_success_.                                                 *)
(***************************************************************************)
EXTENDS WorkerPool, TLAPS, FiniteSetTheorems, SequenceTheorems

\* The caller is in the wait of Run.
Waiting == cPc \in {"asleep", "check"}

\* Worker i has not yet reported the batch that is published.
Owes(i) == wDone[i] # batchId

Entries == [channel : WorkerIds, task : Nat, ok : BOOLEAN]

\* The types of the two histories.
HistoryType ==
  /\ ran \in [DOMAIN script -> Seq(Entries)]
  /\ returned \in Seq([call : 1 .. Len(script), ok : BOOLEAN])

\* Which threads exist, and where they may be.
PoolInv ==
  /\ cPc # "idle" => call >= 1
  /\ stop = (cPc = "join")
  /\ \A i \in WorkerIds : wPc[i] = "none" <=> i > workers
  /\ \A i \in WorkerIds : wPc[i] = "exited" => cPc = "join"
  /\ cPc \in {"publish", "asleep", "check"} => Channels(call) \in 1 .. workers
  /\ cPc = "return" => Channels(call) <= workers

\* Batch ids: a worker that runs runs the published batch and has not
\* reported it; nobody owes a report while no Run waits.
IdInv ==
  /\ Waiting => plan = call /\ active = workers
  /\ ~Waiting => \A i \in 1 .. workers : ~Owes(i)
  /\ \A i \in WorkerIds :
       wPc[i] = "run" => Waiting /\ wPlan[i] = call /\ wBatch[i] = batchId /\ Owes(i)

\* The call has executed nothing of channel i.
NoTrace(i) == \A e \in DOMAIN ran[call] : ran[call][e].channel # i

\* What the call has executed of channel i is what worker i's locals say.
RunTrace(i) ==
  /\ i > Channels(call) => wSuccess[i]
  /\ i <= Channels(call) => wTask[i] <= script[call].tasks[i]
  /\ wSuccess[i] => \A t \in 1 .. wTask[i] : Executed(call, i, t, TRUE)
  /\ ~wSuccess[i] => \E t \in 1 .. script[call].tasks[i] : Executed(call, i, t, FALSE)
  /\ \A e \in DOMAIN ran[call] : ran[call][e].channel = i =>
       ran[call][e].task <= wTask[i] /\ (wSuccess[i] => ran[call][e].ok)

\* The workers' locals against the history.
WorkInv ==
  /\ \A k \in DOMAIN script : k > call \/ (k = call /\ cPc \in {"ensure", "publish"}) => ran[k] = << >>
  /\ Waiting => \A i \in 1 .. workers :
       /\ Owes(i) /\ wPc[i] # "run" => NoTrace(i)
       /\ wPc[i] = "run" => RunTrace(i)

\* The call has executed every task of channel i, each with success.
ChannelDone(i) == \A t \in 1 .. script[call].tasks[i] : Executed(call, i, t, TRUE)

\* Some task of the call's plan failed.
ChannelFailed ==
  \E i \in 1 .. Channels(call) : \E t \in 1 .. script[call].tasks[i] : Executed(call, i, t, FALSE)

\* batch_success_ against the channels that have been reported.
ResultInv ==
  Waiting \/ (cPc = "return" /\ Channels(call) # 0) =>
    /\ success => \A i \in 1 .. Channels(call) : ~Owes(i) => ChannelDone(i)
    /\ ~success => ChannelFailed

\* No wake-up is lost: a sleeping worker has nothing to do, and a sleeping
\* caller still lacks a report.
WakeInv ==
  /\ \A i \in WorkerIds : wPc[i] = "asleep" => ~WorkReady(i)
  /\ cPc = "asleep" => completed # active

\* What Run may return for call k: ResultFaithful, one call at a time.
Faithful(k, ok) ==
  IF ok
  THEN \A c \in 1 .. Channels(k) : \A t \in 1 .. script[k].tasks[c] : Executed(k, c, t, TRUE)
  ELSE \E c \in 1 .. Channels(k) : \E t \in 1 .. script[k].tasks[c] : Executed(k, c, t, FALSE)

AllFaithful ==
  \A e \in DOMAIN returned : \A k, ok : returned[e].call = k /\ returned[e].ok = ok => Faithful(k, ok)

IInv ==
  /\ TypeOK /\ HistoryType
  /\ PoolInv /\ IdInv /\ ReportsCounted /\ WakeInv
  /\ WorkInv /\ OncePerTask
  /\ ResultInv /\ AllFaithful

-----------------------------------------------------------------------------
(* Facts about scripts and the histories.                                  *)

\* A script's calls: their channels fit the pool and their task counts are
\* numbers.
LEMMA ScriptFacts ==
  ASSUME TypeOK
  PROVE  /\ script \in Seq(Call) /\ Len(script) \in Nat /\ DOMAIN script = 1 .. Len(script)
         /\ MaxChannels \in Nat
         /\ \A k \in 1 .. Len(script) :
              /\ Channels(k) \in 0 .. MaxChannels
              /\ \A i \in 1 .. Channels(k) : script[k].tasks[i] \in Nat
<1>1. script \in Scripts
  BY DEF TypeOK
<1>2. /\ script \in Seq(Call) /\ MaxChannels \in Nat
      /\ \A k \in DOMAIN script : Len(script[k].tasks) <= MaxChannels
  BY <1>1, PoolAssumption
<1>3. DOMAIN script = 1 .. Len(script) /\ Len(script) \in Nat
  BY <1>2
<1>4. ASSUME NEW k \in 1 .. Len(script)
      PROVE  /\ Channels(k) \in 0 .. MaxChannels
             /\ \A i \in 1 .. Channels(k) : script[k].tasks[i] \in Nat
  <2>1. script[k] \in Call
    BY <1>2, <1>3
  <2>2. script[k].tasks \in Seq(Nat)
    BY <2>1 DEF Call
  <2> QED BY <2>2, <1>2, <1>3 DEF Channels
<1> QED BY <1>2, <1>3, <1>4

\* AllFaithful is ResultFaithful without the set of pairs.
LEMMA ResultFaithfulIs ==
  ResultFaithful <=> AllFaithful
<1> SUFFICES ASSUME NEW e \in DOMAIN returned
             PROVE  LET k == returned[e].call
                        all == UNION {{<<c, t>> : t \in 1 .. script[k].tasks[c]} : c \in 1 .. Channels(k)}
                    IN  (IF returned[e].ok
                         THEN \A p \in all : Executed(k, p[1], p[2], TRUE)
                         ELSE \E p \in all : Executed(k, p[1], p[2], FALSE))
                        <=> Faithful(k, returned[e].ok)
  BY DEF ResultFaithful, AllFaithful
<1> DEFINE k == returned[e].call
           all == UNION {{<<c, t>> : t \in 1 .. script[k].tasks[c]} : c \in 1 .. Channels(k)}
<1>1. ASSUME NEW p \in all
      PROVE  \E c \in 1 .. Channels(k) : \E t \in 1 .. script[k].tasks[c] : p[1] = c /\ p[2] = t
  OBVIOUS
<1>2. ASSUME NEW c \in 1 .. Channels(k), NEW t \in 1 .. script[k].tasks[c]
      PROVE  \E p \in all : p[1] = c /\ p[2] = t
  <2>1. <<c, t>> \in all
    OBVIOUS
  <2> QED BY <2>1
<1>3. (\A p \in all : Executed(k, p[1], p[2], TRUE))
      <=> \A c \in 1 .. Channels(k) : \A t \in 1 .. script[k].tasks[c] : Executed(k, c, t, TRUE)
  <2>1. ASSUME \A p \in all : Executed(k, p[1], p[2], TRUE),
               NEW c \in 1 .. Channels(k), NEW t \in 1 .. script[k].tasks[c]
        PROVE  Executed(k, c, t, TRUE)
    <3>1. PICK p \in all : p[1] = c /\ p[2] = t
      BY <1>2
    <3>2. Executed(k, p[1], p[2], TRUE)
      BY <2>1
    <3> QED BY ONLY <3>1, <3>2 DEF Executed
  <2>2. ASSUME \A c \in 1 .. Channels(k) : \A t \in 1 .. script[k].tasks[c] : Executed(k, c, t, TRUE),
               NEW p \in all
        PROVE  Executed(k, p[1], p[2], TRUE)
    <3>1. PICK c \in 1 .. Channels(k) : \E t \in 1 .. script[k].tasks[c] : p[1] = c /\ p[2] = t
      BY <1>1
    <3>2. PICK t \in 1 .. script[k].tasks[c] : p[1] = c /\ p[2] = t
      BY <3>1
    <3>3. Executed(k, c, t, TRUE)
      BY <2>2
    <3> QED BY ONLY <3>2, <3>3 DEF Executed
  <2> QED BY <2>1, <2>2
<1>4. (\E p \in all : Executed(k, p[1], p[2], FALSE))
      <=> \E c \in 1 .. Channels(k) : \E t \in 1 .. script[k].tasks[c] : Executed(k, c, t, FALSE)
  <2>1. ASSUME NEW p \in all, Executed(k, p[1], p[2], FALSE)
        PROVE  \E c \in 1 .. Channels(k) : \E t \in 1 .. script[k].tasks[c] : Executed(k, c, t, FALSE)
    <3>1. PICK c \in 1 .. Channels(k) : \E t \in 1 .. script[k].tasks[c] : p[1] = c /\ p[2] = t
      BY <1>1
    <3>2. PICK t \in 1 .. script[k].tasks[c] : p[1] = c /\ p[2] = t
      BY <3>1
    <3>3. Executed(k, c, t, FALSE)
      BY ONLY <2>1, <3>2 DEF Executed
    <3> QED BY <3>3
  <2>2. ASSUME NEW c \in 1 .. Channels(k), NEW t \in 1 .. script[k].tasks[c], Executed(k, c, t, FALSE)
        PROVE  \E p \in all : Executed(k, p[1], p[2], FALSE)
    <3>1. PICK p \in all : p[1] = c /\ p[2] = t
      BY <1>2
    <3>2. Executed(k, p[1], p[2], FALSE)
      BY ONLY <2>2, <3>1 DEF Executed
    <3> QED BY <3>2
  <2> QED BY <2>1, <2>2
<1> QED BY <1>3, <1>4 DEF Faithful

\* A step that leaves script, the call and the histories alone leaves alone
\* what they say of it.
LEMMA TraceStable ==
  ASSUME script' = script, ran' = ran, call' = call
  PROVE  /\ \A i : NoTrace(i)' <=> NoTrace(i)
         /\ \A i : wTask'[i] = wTask[i] /\ wSuccess'[i] = wSuccess[i] => (RunTrace(i)' <=> RunTrace(i))
         /\ \A i : ChannelDone(i)' <=> ChannelDone(i)
         /\ ChannelFailed' <=> ChannelFailed
         /\ \A k, ok : Faithful(k, ok)' <=> Faithful(k, ok)
         /\ \A k : Channels(k)' = Channels(k)
<1>1. \A i : NoTrace(i)' <=> NoTrace(i)
  BY DEF NoTrace
<1>2. \A k : Channels(k)' = Channels(k)
  BY DEF Channels
<1>3. \A i : wTask'[i] = wTask[i] /\ wSuccess'[i] = wSuccess[i] => (RunTrace(i)' <=> RunTrace(i))
  BY DEF RunTrace, Executed, Channels
<1>4. \A i : ChannelDone(i)' <=> ChannelDone(i)
  BY DEF ChannelDone, Executed
<1>5. ChannelFailed' <=> ChannelFailed
  BY DEF ChannelFailed, Executed, Channels
<1>6. \A k, ok : Faithful(k, ok)' <=> Faithful(k, ok)
  BY DEF Faithful, Executed, Channels
<1> QED BY <1>1, <1>2, <1>3, <1>4, <1>5, <1>6

\* What the histories say does not change with a step that leaves them alone.
LEMMA HistoryStable ==
  ASSUME HistoryType, OncePerTask, AllFaithful, script' = script, ran' = ran, returned' = returned
  PROVE  HistoryType' /\ OncePerTask' /\ AllFaithful'
<1>1. HistoryType'
  BY DEF HistoryType
<1>2. OncePerTask'
  BY DEF OncePerTask
<1>3. \A k, ok : Faithful(k, ok)' <=> Faithful(k, ok)
  BY DEF Faithful, Executed, Channels
<1>4. AllFaithful'
  BY <1>3 DEF AllFaithful
<1> QED BY <1>1, <1>2, <1>4

\* Before the first call there are no workers and nothing has run.
LEMMA InitInv == Init => IInv
<1> SUFFICES ASSUME Init PROVE IInv
  OBVIOUS
<1> USE DEF Init
<1>1. script \in Seq(Call) /\ Len(script) \in Nat /\ DOMAIN script = 1 .. Len(script) /\ MaxChannels \in Nat
  BY PoolAssumption
<1>2. TypeOK
  <2>1. call \in 0 .. Len(script) /\ plan \in 0 .. Len(script) /\ workers \in 0 .. MaxChannels
    BY <1>1
  <2>2. active \in 0 .. MaxChannels /\ completed \in 0 .. active /\ batchId \in Nat
    BY <1>1
  <2>3. /\ wDone \in [WorkerIds -> Nat] /\ wBatch \in [WorkerIds -> Nat] /\ wTask \in [WorkerIds -> Nat]
        /\ wPlan \in [WorkerIds -> 0 .. Len(script)]
    BY <1>1
  <2> QED BY <2>1, <2>2, <2>3 DEF TypeOK
<1>3. HistoryType
  <2>1. << >> \in Seq(Entries) /\ << >> \in Seq([call : 1 .. Len(script), ok : BOOLEAN])
    OBVIOUS
  <2> QED BY <2>1 DEF HistoryType
<1>4. PoolInv /\ IdInv /\ WakeInv
  <2>1. \A i \in WorkerIds : i > workers
    BY <1>1 DEF WorkerIds
  <2>2. 1 .. workers = {}
    OBVIOUS
  <2> QED BY <2>1, <2>2 DEF PoolInv, IdInv, WakeInv, Waiting
<1>5. ReportsCounted /\ ResultInv
  BY DEF ReportsCounted, ResultInv, Waiting
<1>6. WorkInv
  BY DEF WorkInv, Waiting
<1>7. OncePerTask
  BY DEF OncePerTask
<1>8. AllFaithful
  BY DEF AllFaithful
<1> QED BY <1>2, <1>3, <1>4, <1>5, <1>6, <1>7, <1>8 DEF IInv

-----------------------------------------------------------------------------
(* The caller's steps.                                                     *)

\* Run or Shutdown is entered.
LEMMA BeginCallInv == IInv /\ BeginCall => IInv'
<1> SUFFICES ASSUME IInv, BeginCall PROVE IInv'
  OBVIOUS
<1> USE DEF BeginCall, sharedVars, workerVars
<1>0. /\ TypeOK /\ PoolInv /\ IdInv /\ WakeInv /\ WorkInv /\ HistoryType /\ OncePerTask /\ AllFaithful
      /\ Len(script) \in Nat /\ DOMAIN script = 1 .. Len(script)
  BY ScriptFacts DEF IInv
<1>1. TypeOK'
  BY <1>0 DEF TypeOK
<1>2. HistoryType' /\ OncePerTask' /\ AllFaithful'
  BY <1>0, HistoryStable
<1>3. PoolInv'
  BY <1>0 DEF PoolInv, TypeOK
<1>4. IdInv'
  BY <1>0 DEF IdInv, Waiting, Owes
<1>5. ReportsCounted' /\ ResultInv'
  BY DEF ReportsCounted, ResultInv, Waiting
<1>6. WakeInv'
  BY <1>0 DEF WakeInv, WorkReady
<1>7. WorkInv'
  BY <1>0 DEF WorkInv, Waiting, TypeOK
<1> QED BY <1>1, <1>2, <1>3, <1>4, <1>5, <1>6, <1>7 DEF IInv

\* EnsureWorkers adds threads that have missed no batch.
LEMMA EnsureWorkersInv == IInv /\ EnsureWorkers => IInv'
<1> SUFFICES ASSUME IInv, EnsureWorkers PROVE IInv'
  OBVIOUS
<1> USE DEF EnsureWorkers, sharedVars, FirstBatchOfWorker
<1>0. /\ TypeOK /\ PoolInv /\ IdInv /\ WakeInv /\ WorkInv /\ HistoryType /\ OncePerTask /\ AllFaithful
      /\ Len(script) \in Nat /\ DOMAIN script = 1 .. Len(script)
  BY ScriptFacts DEF IInv
<1>1. call \in 1 .. Len(script) /\ Channels(call) \in 0 .. MaxChannels /\ MaxChannels \in Nat
  BY <1>0, ScriptFacts DEF PoolInv, TypeOK
<1>2. workers \in Nat /\ workers' \in 0 .. MaxChannels /\ workers <= workers' /\ Channels(call) <= workers'
  BY <1>0, <1>1 DEF TypeOK
<1>3. TypeOK'
  BY <1>0, <1>2 DEF TypeOK
<1>4. HistoryType' /\ OncePerTask' /\ AllFaithful'
  BY <1>0, HistoryStable
<1>5. PoolInv'
  <2>1. Channels(call)' = Channels(call)
    BY DEF Channels
  <2>2. ASSUME NEW i \in WorkerIds
        PROVE  /\ wPc'[i] = "none" <=> i > workers'
               /\ wPc'[i] # "exited"
    BY <1>0, <1>2 DEF PoolInv, WorkerIds
  <2> QED BY <1>0, <1>1, <1>2, <2>1, <2>2 DEF PoolInv
<1>6. IdInv'
  <2>1. ASSUME NEW i \in 1 .. workers' PROVE ~Owes(i)'
    <3>1. i \in WorkerIds /\ i \in 1 .. MaxChannels
      BY <1>1, <1>2 DEF WorkerIds
    <3>2. i \in workers + 1 .. workers' \/ i \in 1 .. workers
      BY <1>1, <1>2
    <3>3. wDone'[i] = batchId
      BY <1>0, <3>1, <3>2 DEF IdInv, Owes, Waiting
    <3> QED BY <3>3 DEF Owes
  <2>2. ASSUME NEW i \in WorkerIds PROVE wPc'[i] # "run"
    BY <1>0 DEF IdInv, Waiting
  <2> QED BY <2>1, <2>2 DEF IdInv, Waiting
<1>7. ReportsCounted'
  BY DEF ReportsCounted
<1>8. ResultInv'
  BY DEF ResultInv, Waiting, Channels
<1>9. WakeInv'
  <2>1. ASSUME NEW i \in WorkerIds, wPc'[i] = "asleep" PROVE ~WorkReady(i)'
    BY <1>0, <1>2, <2>1 DEF WakeInv, WorkReady
  <2> QED BY <2>1 DEF WakeInv
<1>10. WorkInv'
  BY <1>0 DEF WorkInv, Waiting
<1> QED BY <1>3, <1>4, <1>5, <1>6, <1>7, <1>8, <1>9, <1>10 DEF IInv

\* After the publication nobody has reported.
LEMMA PublishInv == IInv /\ Publish => IInv'
<1> SUFFICES ASSUME IInv, Publish PROVE IInv'
  OBVIOUS
<1> USE DEF Publish
<1>0. /\ TypeOK /\ PoolInv /\ IdInv /\ WakeInv /\ WorkInv /\ HistoryType /\ OncePerTask /\ AllFaithful
      /\ Len(script) \in Nat /\ DOMAIN script = 1 .. Len(script)
  BY ScriptFacts DEF IInv
<1>1. /\ call \in 1 .. Len(script) /\ Channels(call) \in 1 .. workers /\ MaxChannels \in Nat
      /\ workers \in 1 .. MaxChannels /\ batchId \in Nat
  BY <1>0, ScriptFacts DEF PoolInv, TypeOK
<1>2. Channels(call)' = Channels(call)
  BY DEF Channels
<1>3. \A i \in 1 .. workers : i \in WorkerIds /\ wDone[i] = batchId
  BY <1>0, <1>1 DEF IdInv, Owes, Waiting, WorkerIds
<1>4. \A i \in 1 .. workers : Owes(i)'
  BY <1>1, <1>3 DEF Owes
<1>5. \A i \in WorkerIds : wPc'[i] # "run" /\ wPc'[i] # "asleep" /\ wPc'[i] # "exited"
                           /\ (wPc'[i] = "none" <=> wPc[i] = "none")
  BY <1>0 DEF WokenWorkers, IdInv, Waiting, PoolInv
<1>6. TypeOK'
  <2>1. completed' \in 0 .. active' /\ active' \in 0 .. MaxChannels /\ plan' \in 0 .. Len(script)
    BY <1>1
  <2>2. wPc' \in [WorkerIds -> {"none", "check", "asleep", "run", "exited"}]
    BY <1>0 DEF TypeOK, WokenWorkers
  <2> QED BY <1>0, <1>1, <2>1, <2>2 DEF TypeOK
<1>7. HistoryType' /\ OncePerTask' /\ AllFaithful'
  BY <1>0, HistoryStable
<1>8. PoolInv'
  BY <1>0, <1>1, <1>2, <1>5 DEF PoolInv
<1>9. IdInv'
  BY <1>5 DEF IdInv, Waiting
<1>10. ReportsCounted'
  <2>1. {i \in 1 .. workers' : wDone'[i] # batchId'} = 1 .. workers
    BY <1>4 DEF Owes
  <2>2. Cardinality(1 .. workers) = workers
    BY <1>1, FS_Interval
  <2>3. completed' = active' - workers /\ workers \in Int
    BY <1>1
  <2> QED BY ONLY <2>1, <2>2, <2>3 DEF ReportsCounted
<1>11. WakeInv'
  BY <1>1, <1>5 DEF WakeInv
<1>12. WorkInv'
  <2>1. ran[call] = << >>
    BY <1>0, <1>1 DEF WorkInv
  <2>2. DOMAIN ran[call] = {}
    BY <2>1
  <2>3. \A k \in DOMAIN script : k > call => ran[k] = << >>
    BY <1>0 DEF WorkInv
  <2> QED BY <1>3, <1>5, <2>2, <2>3 DEF WorkInv, NoTrace
<1>13. ResultInv'
  BY <1>1, <1>2, <1>4 DEF ResultInv
<1> QED BY <1>6, <1>7, <1>8, <1>9, <1>10, <1>11, <1>12, <1>13 DEF IInv

\* The caller leaves the wait only when nobody owes a report.
LEMMA CallerCheckInv == IInv /\ CallerCheck => IInv'
<1> SUFFICES ASSUME IInv, CallerCheck PROVE IInv'
  OBVIOUS
<1> USE DEF CallerCheck, sharedVars, workerVars
<1>0. /\ TypeOK /\ PoolInv /\ IdInv /\ WakeInv /\ WorkInv /\ HistoryType /\ OncePerTask /\ AllFaithful
      /\ ReportsCounted /\ ResultInv
  BY DEF IInv
<1> DEFINE Late == {i \in 1 .. workers : wDone[i] # batchId}
<1>1. IsFiniteSet(Late) /\ Cardinality(Late) \in Nat /\ workers \in Nat
  <2>1. workers \in Nat
    BY <1>0, ScriptFacts DEF TypeOK
  <2>2. IsFiniteSet(1 .. workers)
    BY <2>1, FS_Interval
  <2>3. IsFiniteSet(Late)
    BY <2>2, FS_Subset
  <2> QED BY <2>1, <2>3, FS_CardinalityType
<1>2. completed = active => Late = {}
  <2>1. completed = active - Cardinality(Late)
    BY <1>0 DEF ReportsCounted
  <2>2. active \in Int
    BY <1>0, ScriptFacts DEF TypeOK
  <2>3. completed = active => Cardinality(Late) = 0
    BY <1>1, <2>1, <2>2
  <2> QED BY <1>1, <2>3, FS_EmptySet
<1>3. cPc' # "asleep" => \A i \in 1 .. workers : ~Owes(i)
  BY <1>2 DEF Owes
<1>4. cPc' # "asleep" => \A i \in WorkerIds : wPc[i] # "run"
  <2> SUFFICES ASSUME cPc' # "asleep", NEW i \in WorkerIds, wPc[i] = "run" PROVE FALSE
    OBVIOUS
  <2>1. Owes(i)
    BY <1>0 DEF IdInv
  <2>2. i \in 1 .. workers
    BY <1>0, <1>1 DEF PoolInv, WorkerIds
  <2> QED BY <1>3, <2>1, <2>2
<1>5. TypeOK'
  BY <1>0 DEF TypeOK
<1>6. HistoryType' /\ OncePerTask' /\ AllFaithful'
  BY <1>0, HistoryStable
<1>7. PoolInv'
  BY <1>0 DEF PoolInv, Channels
<1>8. IdInv'
  BY <1>0, <1>3, <1>4 DEF IdInv, Waiting, Owes
<1>9. ReportsCounted'
  BY <1>0 DEF ReportsCounted
<1>10. WakeInv'
  BY <1>0 DEF WakeInv, WorkReady
<1>11. WorkInv'
  BY <1>0, TraceStable DEF WorkInv, Waiting, Owes
<1>12. ResultInv'
  BY <1>0, TraceStable DEF ResultInv, Waiting, Owes
<1> QED BY <1>5, <1>6, <1>7, <1>8, <1>9, <1>10, <1>11, <1>12 DEF IInv

\* What Run returns is faithful: every channel of the plan was reported.
LEMMA ReturnInv == IInv /\ Return => IInv'
<1> SUFFICES ASSUME IInv, Return PROVE IInv'
  OBVIOUS
<1> USE DEF Return, sharedVars, workerVars
<1>0. /\ TypeOK /\ PoolInv /\ IdInv /\ WakeInv /\ WorkInv /\ HistoryType /\ OncePerTask /\ AllFaithful
      /\ ResultInv
  BY DEF IInv
<1>1. call \in 1 .. Len(script) /\ Channels(call) \in Nat /\ workers \in Nat
  BY <1>0, ScriptFacts DEF PoolInv, TypeOK
<1> DEFINE ok == Channels(call) = 0 \/ success
           entry == [call |-> call, ok |-> ok]
<1>2. Faithful(call, ok)
  <2>1. CASE Channels(call) = 0
    BY <2>1 DEF Faithful
  <2>2. CASE Channels(call) # 0 /\ ~success
    BY <1>0, <2>2 DEF Faithful, ResultInv, ChannelFailed
  <2>3. CASE Channels(call) # 0 /\ success
    <3>1. \A i \in 1 .. Channels(call) : ~Owes(i) => ChannelDone(i)
      BY <1>0, <2>3 DEF ResultInv
    <3>2. ASSUME NEW i \in 1 .. Channels(call) PROVE ChannelDone(i)
      <4>1. i \in 1 .. workers => ~Owes(i)
        BY <1>0 DEF IdInv, Waiting
      <4>2. Channels(call) <= workers
        BY <1>0, <2>3 DEF PoolInv
      <4> QED BY <1>1, <3>1, <4>1, <4>2
    <3> QED BY <2>3, <3>2 DEF Faithful, ChannelDone
  <2> QED BY <2>1, <2>2, <2>3
<1>3. TypeOK'
  BY <1>0 DEF TypeOK
<1>4. returned \in Seq([call : 1 .. Len(script), ok : BOOLEAN]) /\ entry \in [call : 1 .. Len(script), ok : BOOLEAN]
  BY <1>0, <1>1 DEF HistoryType
<1>5. HistoryType'
  BY <1>0, <1>4 DEF HistoryType
<1>6. OncePerTask'
  BY <1>0 DEF OncePerTask
<1>7. AllFaithful'
  <2>1. returned' = Append(returned, entry)
    OBVIOUS
  <2>2. ASSUME NEW e \in DOMAIN returned', NEW k, NEW b, returned'[e].call = k /\ returned'[e].ok = b
        PROVE  Faithful(k, b)
    <3>1. CASE e \in DOMAIN returned
      <4>1. returned'[e] = returned[e]
        BY <1>4, <2>1, <3>1
      <4> QED BY <1>0, <2>2, <3>1, <4>1 DEF AllFaithful
    <3>2. CASE e \notin DOMAIN returned
      <4>1. returned'[e] = entry
        BY <1>4, <2>1, <3>2
      <4>2. k = call /\ b = ok
        BY <2>2, <4>1
      <4> QED BY <1>2, <4>2
    <3> QED BY <3>1, <3>2
  <2> QED BY <2>2, TraceStable DEF AllFaithful
<1>8. PoolInv'
  BY <1>0 DEF PoolInv
<1>9. IdInv'
  BY <1>0 DEF IdInv, Waiting, Owes
<1>10. ReportsCounted' /\ ResultInv'
  BY DEF ReportsCounted, ResultInv, Waiting
<1>11. WakeInv'
  BY <1>0 DEF WakeInv, WorkReady
<1>12. WorkInv'
  BY <1>0 DEF WorkInv, Waiting
<1> QED BY <1>3, <1>5, <1>6, <1>7, <1>8, <1>9, <1>10, <1>11, <1>12 DEF IInv

\* StopWorkers raises stop_ between two batches, when nobody owes a report.
LEMMA StopWorkersInv == IInv /\ StopWorkers => IInv'
<1> SUFFICES ASSUME IInv, StopWorkers PROVE IInv'
  OBVIOUS
<1> USE DEF StopWorkers
<1>0. /\ TypeOK /\ PoolInv /\ IdInv /\ WakeInv /\ WorkInv /\ HistoryType /\ OncePerTask /\ AllFaithful
  BY DEF IInv
<1>1. \A i \in WorkerIds : wPc'[i] # "run" /\ wPc'[i] # "asleep"
                           /\ (wPc'[i] = "none" <=> wPc[i] = "none")
  BY <1>0 DEF WokenWorkers, IdInv, Waiting
<1>2. TypeOK'
  BY <1>0 DEF TypeOK, WokenWorkers
<1>3. HistoryType' /\ OncePerTask' /\ AllFaithful'
  BY <1>0, HistoryStable
<1>4. PoolInv'
  BY <1>0, <1>1 DEF PoolInv
<1>5. IdInv'
  BY <1>0, <1>1 DEF IdInv, Waiting, Owes
<1>6. ReportsCounted' /\ ResultInv'
  BY DEF ReportsCounted, ResultInv, Waiting
<1>7. WakeInv'
  BY <1>1 DEF WakeInv
<1>8. WorkInv'
  BY <1>0 DEF WorkInv, Waiting
<1> QED BY <1>2, <1>3, <1>4, <1>5, <1>6, <1>7, <1>8 DEF IInv

\* The pool is emptied once every thread has left its loop.
LEMMA JoinInv == IInv /\ Join => IInv'
<1> SUFFICES ASSUME IInv, Join PROVE IInv'
  OBVIOUS
<1> USE DEF Join
<1>0. /\ TypeOK /\ PoolInv /\ IdInv /\ WakeInv /\ WorkInv /\ HistoryType /\ OncePerTask /\ AllFaithful
      /\ MaxChannels \in Nat
  BY ScriptFacts DEF IInv
<1>1. \A i \in WorkerIds : wPc'[i] = "none" /\ i > workers'
  BY <1>0 DEF WorkerIds
<1>2. TypeOK'
  <2>0. MaxChannels \in Nat /\ workers' = 0
    BY <1>0
  <2>1. workers' \in 0 .. MaxChannels
    BY ONLY <2>0
  <2>2. wPc' \in [WorkerIds -> {"none", "check", "asleep", "run", "exited"}]
    OBVIOUS
  <2> QED BY <1>0, <2>1, <2>2 DEF TypeOK
<1>3. HistoryType' /\ OncePerTask' /\ AllFaithful'
  BY <1>0, HistoryStable
<1>4. PoolInv'
  BY <1>0, <1>1 DEF PoolInv
<1>5. IdInv'
  <2>1. 1 .. workers' = {}
    OBVIOUS
  <2> QED BY <1>1, <2>1 DEF IdInv, Waiting
<1>6. ReportsCounted' /\ ResultInv'
  BY DEF ReportsCounted, ResultInv, Waiting
<1>7. WakeInv'
  BY <1>1 DEF WakeInv
<1>8. WorkInv'
  BY <1>0 DEF WorkInv, Waiting
<1> QED BY <1>2, <1>3, <1>4, <1>5, <1>6, <1>7, <1>8 DEF IInv

-----------------------------------------------------------------------------
(* The workers' steps.                                                     *)

\* A thread that exists has an index below workers_.size(), and the reverse.
LEMMA WorkerExists ==
  ASSUME TypeOK, PoolInv, NEW i \in WorkerIds
  PROVE  /\ i \in Int /\ workers \in Nat
         /\ i \in 1 .. workers <=> wPc[i] # "none"
         /\ 1 .. workers \subseteq WorkerIds
<1>1. workers \in 0 .. MaxChannels /\ MaxChannels \in Nat
  BY ScriptFacts DEF TypeOK
<1>2. wPc[i] = "none" <=> i > workers
  BY DEF PoolInv
<1> QED BY <1>1, <1>2 DEF WorkerIds

\* Entering the batch: nothing of the channel has been executed yet.
LEMMA WorkerCheckInv == \A i \in WorkerIds : IInv /\ WorkerCheck(i) => IInv'
<1> SUFFICES ASSUME IInv, NEW i \in WorkerIds, WorkerCheck(i) PROVE IInv'
  OBVIOUS
<1> USE DEF callerVars, sharedVars
<1>0. /\ TypeOK /\ PoolInv /\ IdInv /\ WakeInv /\ WorkInv /\ HistoryType /\ OncePerTask /\ AllFaithful
      /\ ReportsCounted /\ ResultInv
  BY DEF IInv
<1>1. /\ UNCHANGED <<script, call, cPc, workers, returned, batchId, plan, active, completed, success, stop, wDone, ran>>
      /\ wPc[i] = "check"
  BY DEF WorkerCheck
<1>2. i \in Int /\ workers \in Nat /\ i \in 1 .. workers /\ 1 .. workers \subseteq WorkerIds
  BY <1>0, <1>1, WorkerExists
<1>3. /\ wPc \in [WorkerIds -> {"none", "check", "asleep", "run", "exited"}]
      /\ wPlan \in [WorkerIds -> 0 .. Len(script)] /\ wBatch \in [WorkerIds -> Nat]
      /\ wTask \in [WorkerIds -> Nat] /\ wSuccess \in [WorkerIds -> BOOLEAN]
      /\ plan \in 0 .. Len(script) /\ batchId \in Nat
  BY <1>0 DEF TypeOK
<1>4. \A j \in WorkerIds : j # i => /\ wPc'[j] = wPc[j] /\ wPlan'[j] = wPlan[j] /\ wBatch'[j] = wBatch[j]
                                    /\ wTask'[j] = wTask[j] /\ wSuccess'[j] = wSuccess[j]
  BY <1>3 DEF WorkerCheck
<1>5. \/ wPc'[i] = "asleep" /\ ~WorkReady(i)
      \/ wPc'[i] = "exited" /\ stop
      \/ /\ wPc'[i] = "run" /\ ~stop /\ batchId # wDone[i]
         /\ wPlan'[i] = plan /\ wBatch'[i] = batchId /\ wTask'[i] = 0 /\ wSuccess'[i] = TRUE
  BY <1>3 DEF WorkerCheck, WorkReady
<1>6. TypeOK'
  <2>1. /\ \E x \in {"asleep", "exited", "run"} : wPc' = [wPc EXCEPT ![i] = x]
        /\ wPlan' = wPlan \/ wPlan' = [wPlan EXCEPT ![i] = plan]
        /\ wBatch' = wBatch \/ wBatch' = [wBatch EXCEPT ![i] = batchId]
        /\ wTask' = wTask \/ wTask' = [wTask EXCEPT ![i] = 0]
        /\ wSuccess' = wSuccess \/ wSuccess' = [wSuccess EXCEPT ![i] = TRUE]
    BY DEF WorkerCheck
  <2>2. wPc' \in [WorkerIds -> {"none", "check", "asleep", "run", "exited"}]
    BY <1>3, <2>1
  <2>3. wPlan' \in [WorkerIds -> 0 .. Len(script)]
    BY <1>3, <2>1
  <2>4. wBatch' \in [WorkerIds -> Nat]
    BY <1>3, <2>1
  <2>5. wTask' \in [WorkerIds -> Nat]
    BY <1>3, <2>1
  <2>6. wSuccess' \in [WorkerIds -> BOOLEAN]
    BY <1>3, <2>1
  <2> QED BY <1>0, <1>1, <2>2, <2>3, <2>4, <2>5, <2>6 DEF TypeOK
<1>7. HistoryType' /\ OncePerTask' /\ AllFaithful'
  BY <1>0, <1>1, HistoryStable
<1>8. PoolInv'
  BY <1>0, <1>1, <1>4, <1>5 DEF PoolInv, Channels
<1>9. wPc'[i] = "run" => Waiting /\ Owes(i) /\ plan = call
  BY <1>0, <1>2, <1>5 DEF IdInv, Owes
<1>10. IdInv'
  BY <1>0, <1>1, <1>4, <1>5, <1>9 DEF IdInv, Waiting, Owes
<1>11. ReportsCounted'
  BY <1>0, <1>1 DEF ReportsCounted
<1>12. WakeInv'
  BY <1>0, <1>1, <1>4, <1>5 DEF WakeInv, WorkReady
<1>13. WorkInv'
  <2>1. ASSUME Waiting, wPc'[i] = "run" PROVE RunTrace(i)'
    <3>1. NoTrace(i)
      BY <1>0, <1>1, <1>2, <1>9, <2>1 DEF WorkInv
    <3>2. call \in 1 .. Len(script)
      BY <1>0, <2>1, ScriptFacts DEF PoolInv, TypeOK, Waiting
    <3>3. i <= Channels(call) => script[call].tasks[i] \in Nat
      BY <1>0, <1>2, <3>2, ScriptFacts
    <3>4. wTask'[i] = 0 /\ wSuccess'[i] = TRUE
      BY <1>5, <2>1
    <3>5. /\ i <= Channels(call)' => wTask'[i] <= script'[call'].tasks[i]
          /\ 1 .. wTask'[i] = {}
      BY <1>1, <3>3, <3>4 DEF Channels
    <3>6. \A e \in DOMAIN ran'[call'] : ran'[call'][e].channel # i
      BY <1>1, <3>1 DEF NoTrace
    <3> QED BY ONLY <3>4, <3>5, <3>6 DEF RunTrace
  <2>2. ASSUME NEW j \in 1 .. workers, Waiting
        PROVE  /\ Owes(j) /\ wPc'[j] # "run" => NoTrace(j)
               /\ wPc'[j] = "run" => RunTrace(j)'
    <3>1. CASE j = i
      <4>1. Owes(i) => NoTrace(i)
        BY <1>0, <1>1, <1>2, <2>2 DEF WorkInv
      <4> QED BY <2>1, <2>2, <3>1, <4>1
    <3>2. CASE j # i
      <4>1. j \in WorkerIds
        BY <1>2
      <4>2. RunTrace(j)' <=> RunTrace(j)
        BY <1>1, <1>4, <3>2, <4>1, TraceStable
      <4> QED BY <1>0, <1>4, <2>2, <3>2, <4>1, <4>2 DEF WorkInv
    <3> QED BY <3>1, <3>2
  <2>3. \A k \in DOMAIN script' : k > call' \/ (k = call' /\ cPc' \in {"ensure", "publish"}) => ran'[k] = << >>
    BY <1>0, <1>1 DEF WorkInv
  <2>4. \A j : (NoTrace(j)' <=> NoTrace(j)) /\ (Owes(j)' <=> Owes(j))
    BY <1>1, TraceStable DEF Owes
  <2>5. Waiting' <=> Waiting
    BY <1>1 DEF Waiting
  <2> QED BY <1>1, <2>2, <2>3, <2>4, <2>5 DEF WorkInv
<1>14. ResultInv'
  BY <1>0, <1>1, TraceStable DEF ResultInv, Waiting, Owes
<1> QED BY <1>6, <1>7, <1>8, <1>10, <1>11, <1>12, <1>13, <1>14 DEF IInv

\* One more task of the channel: it follows everything executed of it, all of
\* which succeeded.
LEMMA ExecuteTaskInv == \A i \in WorkerIds, ok \in BOOLEAN : IInv /\ ExecuteTask(i, ok) => IInv'
<1> SUFFICES ASSUME IInv, NEW i \in WorkerIds, NEW ok \in BOOLEAN, ExecuteTask(i, ok) PROVE IInv'
  OBVIOUS
<1> USE DEF callerVars, sharedVars
<1>0. /\ TypeOK /\ PoolInv /\ IdInv /\ WakeInv /\ WorkInv /\ HistoryType /\ OncePerTask /\ AllFaithful
      /\ ReportsCounted /\ ResultInv
  BY DEF IInv
<1>1. /\ script' = script /\ call' = call /\ cPc' = cPc /\ workers' = workers /\ returned' = returned
      /\ batchId' = batchId /\ plan' = plan /\ active' = active /\ completed' = completed
      /\ success' = success /\ stop' = stop
      /\ wPc' = wPc /\ wDone' = wDone /\ wPlan' = wPlan /\ wBatch' = wBatch
  BY DEF ExecuteTask
<1>2. wPc[i] = "run" /\ Waiting /\ wPlan[i] = call
  BY <1>0 DEF ExecuteTask, IdInv
<1>3. i \in Int /\ workers \in Nat /\ i \in 1 .. workers /\ 1 .. workers \subseteq WorkerIds
  BY <1>0, <1>2, WorkerExists
<1>4. call \in 1 .. Len(script) /\ DOMAIN script = 1 .. Len(script)
  BY <1>0, <1>2, ScriptFacts DEF PoolInv, TypeOK, Waiting
<1>5. i <= Channels(call) /\ wSuccess[i] /\ wTask[i] < script[call].tasks[i]
  BY <1>2 DEF ExecuteTask, TasksLeft
<1>6. /\ wTask \in [WorkerIds -> Nat] /\ wSuccess \in [WorkerIds -> BOOLEAN]
      /\ script[call].tasks[i] \in Nat /\ Channels(call) \in Nat
  BY <1>0, <1>3, <1>4, <1>5, ScriptFacts, SMTT(30) DEF TypeOK
<1>7. /\ wTask' = [wTask EXCEPT ![i] = wTask[i] + 1] /\ wTask'[i] = wTask[i] + 1
      /\ wSuccess' = [wSuccess EXCEPT ![i] = ok] /\ wSuccess'[i] = ok
      /\ \A j \in WorkerIds : j # i => wTask'[j] = wTask[j] /\ wSuccess'[j] = wSuccess[j]
  BY <1>6 DEF ExecuteTask
<1> DEFINE x == [channel |-> i, task |-> wTask[i] + 1, ok |-> ok]
           n == Len(ran[call]) + 1
<1>8. x \in Entries /\ ran \in [DOMAIN script -> Seq(Entries)] /\ ran[call] \in Seq(Entries)
  <2>1. wTask[i] + 1 \in Nat
    BY <1>6
  <2> QED BY <1>0, <1>4, <2>1 DEF Entries, HistoryType
<1>9. ran' = [ran EXCEPT ![call] = Append(ran[call], x)]
  BY <1>2 DEF ExecuteTask
<1>10. /\ \A k \in DOMAIN script : k # call => ran'[k] = ran[k]
       /\ ran'[call] = Append(ran[call], x)
  BY <1>4, <1>8, <1>9
<1>11. /\ n \in Nat /\ n >= 1 /\ DOMAIN ran[call] = 1 .. n - 1 /\ DOMAIN ran'[call] = 1 .. n
       /\ \A e \in 1 .. n - 1 : ran'[call][e] = ran[call][e]
       /\ ran'[call][n] = x
  BY <1>8, <1>10
<1> DEFINE After(k, c, t, b) == \E e \in DOMAIN ran'[k] : ran'[k][e] = [channel |-> c, task |-> t, ok |-> b]
<1> HIDE DEF n
<1>12. \A k \in DOMAIN script : \A c, t, b : Executed(k, c, t, b) => After(k, c, t, b)
  <2> SUFFICES ASSUME NEW k \in DOMAIN script, NEW c, NEW t, NEW b, Executed(k, c, t, b)
               PROVE  After(k, c, t, b)
    OBVIOUS
  <2>1. CASE k = call
    BY <1>11, <2>1 DEF Executed
  <2>2. CASE k # call
    BY <1>10, <2>2 DEF Executed
  <2> QED BY <2>1, <2>2
<1>13. After(call, i, wTask[i] + 1, ok)
  <2>1. n \in DOMAIN ran'[call]
    BY <1>11
  <2> QED BY <1>11, <2>1
<1> HIDE DEF After
<1>14. TypeOK'
  <2>1. wTask' \in [WorkerIds -> Nat] /\ wSuccess' \in [WorkerIds -> BOOLEAN]
    BY <1>6, <1>7
  <2> QED BY <1>0, <1>1, <2>1 DEF TypeOK
<1>15. HistoryType'
  <2>1. Append(ran[call], x) \in Seq(Entries)
    BY <1>8
  <2>2. ran' \in [DOMAIN script -> Seq(Entries)]
    BY <1>4, <1>8, <1>9, <2>1
  <2> QED BY <1>0, <1>1, <2>2 DEF HistoryType
<1>16. RunTrace(i)
  BY <1>0, <1>2, <1>3 DEF WorkInv
<1>17. OncePerTask'
  <2> SUFFICES ASSUME NEW k \in DOMAIN ran', NEW d \in DOMAIN ran'[k], NEW e \in DOMAIN ran'[k],
                      d < e, ran'[k][d].channel = ran'[k][e].channel
               PROVE  ran'[k][d].task < ran'[k][e].task /\ ran'[k][d].ok
    BY DEF OncePerTask
  <2>0. DOMAIN ran' = DOMAIN script /\ DOMAIN ran = DOMAIN script
    BY <1>8, <1>9
  <2>1. CASE k # call
    BY <1>0, <1>10, <2>0, <2>1 DEF OncePerTask
  <2>2. CASE k = call /\ e # n
    <3>1. d \in 1 .. n - 1 /\ e \in 1 .. n - 1
      BY <1>11, <2>2
    <3> QED BY <1>0, <1>11, <2>0, <2>2, <3>1 DEF OncePerTask
  <2>3. CASE k = call /\ e = n
    <3>1. d \in 1 .. n - 1
      BY <1>11, <2>3
    <3>2. ran'[k][e] = x /\ ran'[k][d] = ran[call][d] /\ d \in DOMAIN ran[call]
      BY <1>11, <2>3, <3>1
    <3>3. ran[call][d].channel = i
      BY <3>2
    <3>4. ran[call][d].task <= wTask[i] /\ ran[call][d].ok
      BY <1>5, <1>16, <3>2, <3>3 DEF RunTrace
    <3>5. ran[call][d] \in Entries
      BY <1>8, <3>2
    <3>6. ran[call][d].task \in Int /\ wTask[i] \in Int
      BY <1>6, <3>5 DEF Entries
    <3> QED BY <3>2, <3>4, <3>6
  <2> QED BY <2>1, <2>2, <2>3
<1>18. AllFaithful'
  <2> SUFFICES ASSUME NEW e \in DOMAIN returned, NEW k, NEW b,
                      returned[e].call = k /\ returned[e].ok = b
               PROVE  Faithful(k, b)'
    BY <1>1 DEF AllFaithful
  <2>1. Faithful(k, b)
    BY <1>0 DEF AllFaithful
  <2>2. k \in DOMAIN script
    <3>1. returned \in Seq([call : 1 .. Len(script), ok : BOOLEAN]) /\ e \in DOMAIN returned
      BY <1>0 DEF HistoryType
    <3>2. e \in 1 .. Len(returned)
      BY ONLY <3>1
    <3>3. returned[e] \in [call : 1 .. Len(script), ok : BOOLEAN]
      BY ONLY <3>1, <3>2, ElementOfSeq
    <3> QED BY <1>4, <3>3
  <2>3. \A c, t, a : Executed(k, c, t, a) => Executed(k, c, t, a)'
    BY <1>12, <2>2 DEF After, Executed
  <2> QED BY <1>1, <2>1, <2>3 DEF Faithful, Channels
<1>19. PoolInv'
  BY <1>0, <1>1 DEF PoolInv, Channels
<1>20. IdInv'
  BY <1>0, <1>1 DEF IdInv, Waiting, Owes
<1>21. ReportsCounted'
  BY <1>0, <1>1 DEF ReportsCounted
<1>22. WakeInv'
  BY <1>0, <1>1 DEF WakeInv, WorkReady
<1>23. WorkInv'
  <2>1. \A k \in DOMAIN script' : k > call' \/ (k = call' /\ cPc' \in {"ensure", "publish"}) => ran'[k] = << >>
    BY <1>0, <1>1, <1>2, <1>4, <1>10 DEF WorkInv, Waiting
  <2>2. ASSUME NEW j \in 1 .. workers, j # i
        PROVE  /\ Owes(j) /\ wPc[j] # "run" => NoTrace(j)'
               /\ wPc[j] = "run" => RunTrace(j)'
    <3>0. j \in WorkerIds /\ wTask'[j] = wTask[j] /\ wSuccess'[j] = wSuccess[j]
      BY <1>3, <1>7, <2>2
    <3>1. \A e \in DOMAIN ran'[call] : ran'[call][e].channel = j => e \in DOMAIN ran[call] /\ ran'[call][e] = ran[call][e]
      BY <1>11, <2>2
    <3>2. Owes(j) /\ wPc[j] # "run" => NoTrace(j)'
      BY <1>0, <1>1, <1>2, <3>1 DEF WorkInv, NoTrace
    <3>3. ASSUME wPc[j] = "run" PROVE RunTrace(j)'
      <4>1. RunTrace(j)
        BY <1>0, <1>2, <3>3 DEF WorkInv
      <4>2. \A e \in DOMAIN ran'[call] : ran'[call][e].channel = j =>
               ran'[call][e].task <= wTask[j] /\ (wSuccess[j] => ran'[call][e].ok)
        BY <3>1, <4>1 DEF RunTrace
      <4>3. wSuccess[j] => \A t \in 1 .. wTask[j] : After(call, j, t, TRUE)
        BY <1>4, <1>12, <4>1 DEF RunTrace
      <4>4. ~wSuccess[j] => \E t \in 1 .. script[call].tasks[j] : After(call, j, t, FALSE)
        BY <1>4, <1>12, <4>1 DEF RunTrace
      <4> QED BY <1>1, <3>0, <4>1, <4>2, <4>3, <4>4 DEF RunTrace, Executed, After, Channels
    <3> QED BY <3>2, <3>3
  <2>3. RunTrace(i)'
    <3>1. wSuccess'[i] => \A t \in 1 .. wTask'[i] : After(call, i, t, TRUE)
      <4> SUFFICES ASSUME ok = TRUE, NEW t \in 1 .. wTask[i] + 1 PROVE After(call, i, t, TRUE)
        BY <1>7
      <4>1. CASE t \in 1 .. wTask[i]
        BY <1>4, <1>5, <1>12, <1>16, <4>1 DEF RunTrace
      <4>2. CASE t = wTask[i] + 1
        BY <1>13, <4>2
      <4>3. t \in 1 .. wTask[i] \/ t = wTask[i] + 1
        BY <1>6
      <4> QED BY <4>1, <4>2, <4>3
    <3>2. ~wSuccess'[i] => \E t \in 1 .. script[call].tasks[i] : After(call, i, t, FALSE)
      <4> SUFFICES ASSUME ok = FALSE PROVE After(call, i, wTask[i] + 1, FALSE)
        <5>1. wTask[i] + 1 \in 1 .. script[call].tasks[i]
          BY <1>5, <1>6
        <5> QED BY <1>7, <5>1
      <4> QED BY <1>13
    <3>3. \A e \in DOMAIN ran'[call] : ran'[call][e].channel = i =>
             ran'[call][e].task <= wTask'[i] /\ (wSuccess'[i] => ran'[call][e].ok)
      <4> SUFFICES ASSUME NEW e \in DOMAIN ran'[call], ran'[call][e].channel = i
                   PROVE  ran'[call][e].task <= wTask[i] + 1 /\ (ok => ran'[call][e].ok)
        BY <1>7
      <4>1. CASE e = n
        BY <1>6, <1>11, <4>1
      <4>2. CASE e # n
        <5>1. e \in DOMAIN ran[call] /\ ran'[call][e] = ran[call][e]
          BY <1>11, <4>2
        <5>2. ran[call][e].task <= wTask[i] /\ ran[call][e].ok
          BY <1>5, <1>16, <5>1 DEF RunTrace
        <5>3. ran[call][e] \in Entries
          BY <1>8, <5>1
        <5>4. ran[call][e].task \in Nat
          BY <5>3 DEF Entries
        <5> QED BY <1>6, <5>1, <5>2, <5>4
      <4> QED BY <4>1, <4>2
    <3>4. wTask'[i] <= script[call].tasks[i]
      BY <1>5, <1>6, <1>7
    <3> QED BY <1>1, <1>3, <1>5, <1>6, <3>1, <3>2, <3>3, <3>4 DEF RunTrace, Executed, After, Channels
  <2> QED BY <1>1, <1>2, <2>1, <2>2, <2>3 DEF WorkInv, Waiting, Owes
<1>24. ResultInv'
  <2>1. success => \A j \in 1 .. Channels(call) : ~Owes(j) => ChannelDone(j)
    BY <1>0, <1>2 DEF ResultInv
  <2>2. ~success => ChannelFailed
    BY <1>0, <1>2 DEF ResultInv
  <2>3. \A j : ChannelDone(j) => ChannelDone(j)'
    BY <1>1, <1>4, <1>12 DEF ChannelDone, Executed, After
  <2>4. ChannelFailed => ChannelFailed'
    <3> SUFFICES ASSUME NEW j \in 1 .. Channels(call), NEW t \in 1 .. script[call].tasks[j],
                        Executed(call, j, t, FALSE)
                 PROVE  ChannelFailed'
      BY DEF ChannelFailed
    <3>1. After(call, j, t, FALSE)
      BY <1>4, <1>12
    <3> QED BY <1>1, <3>1 DEF ChannelFailed, Channels, Executed, After
  <2> QED BY <1>1, <2>1, <2>2, <2>3, <2>4 DEF ResultInv, Owes, Channels
<1> QED BY <1>14, <1>15, <1>17, <1>18, <1>19, <1>20, <1>21, <1>22, <1>23, <1>24 DEF IInv

\* The report settles what the worker owed, and adds its outcome to the result.
LEMMA ReportInv == \A i \in WorkerIds : IInv /\ Report(i) => IInv'
<1> SUFFICES ASSUME IInv, NEW i \in WorkerIds, Report(i) PROVE IInv'
  OBVIOUS
<1>0. /\ TypeOK /\ PoolInv /\ IdInv /\ WakeInv /\ WorkInv /\ HistoryType /\ OncePerTask /\ AllFaithful
      /\ ReportsCounted /\ ResultInv
  BY DEF IInv
<1>1. /\ script' = script /\ call' = call /\ workers' = workers /\ returned' = returned
      /\ batchId' = batchId /\ plan' = plan /\ active' = active /\ stop' = stop
      /\ wPlan' = wPlan /\ wBatch' = wBatch /\ wTask' = wTask /\ wSuccess' = wSuccess /\ ran' = ran
      /\ completed' = completed + 1
  BY DEF Report
<1>2. wPc[i] = "run" /\ Waiting /\ wPlan[i] = call /\ Owes(i) /\ wBatch[i] = batchId
  BY <1>0 DEF Report, IdInv
<1>3. i \in Int /\ workers \in Nat /\ i \in 1 .. workers /\ 1 .. workers \subseteq WorkerIds
  BY <1>0, <1>2, WorkerExists
<1>4. /\ wPc \in [WorkerIds -> {"none", "check", "asleep", "run", "exited"}] /\ wDone \in [WorkerIds -> Nat]
      /\ batchId \in Nat /\ active \in Nat /\ completed \in Nat /\ completed <= active
      /\ success \in BOOLEAN /\ wSuccess \in [WorkerIds -> BOOLEAN]
  BY <1>0, ScriptFacts DEF TypeOK
<1>5. /\ wDone' = [wDone EXCEPT ![i] = batchId] /\ wDone'[i] = batchId
      /\ wPc' = [wPc EXCEPT ![i] = "check"] /\ wPc'[i] = "check"
      /\ \A j \in WorkerIds : j # i => wDone'[j] = wDone[j] /\ wPc'[j] = wPc[j]
  BY <1>2, <1>4 DEF Report
<1>6. Waiting' /\ (cPc' = "asleep" => completed' # active)
  BY <1>2 DEF Report, Waiting
<1> DEFINE Late == {j \in 1 .. workers : wDone[j] # batchId}
<1>7. IsFiniteSet(Late) /\ Cardinality(Late) \in Nat
  <2>1. IsFiniteSet(1 .. workers)
    BY <1>3, FS_Interval
  <2>2. IsFiniteSet(Late)
    BY <2>1, FS_Subset
  <2> QED BY <2>2, FS_CardinalityType
<1>8. Cardinality(Late \ {i}) = Cardinality(Late) - 1 /\ Cardinality(Late \ {i}) \in Nat
  <2>1. i \in Late
    BY <1>2, <1>3 DEF Owes
  <2>2. IsFiniteSet(Late \ {i}) /\ Cardinality(Late \ {i}) = Cardinality(Late) - 1
    BY <1>7, <2>1, FS_RemoveElement
  <2> QED BY <2>2, FS_CardinalityType
<1>9. completed = active - Cardinality(Late)
  BY <1>0, <1>2 DEF ReportsCounted, Waiting
<1>10. {j \in 1 .. workers' : wDone'[j] # batchId'} = Late \ {i}
  <2>1. \A j \in 1 .. workers : wDone'[j] # batchId <=> (wDone[j] # batchId /\ j # i)
    BY <1>3, <1>5
  <2> QED BY <1>1, <2>1
<1>11. ReportsCounted'
  <2>1. completed' = active' - Cardinality(Late \ {i})
    BY <1>1, <1>4, <1>7, <1>8, <1>9
  <2> QED BY ONLY <1>10, <2>1 DEF ReportsCounted
<1>12. TypeOK'
  <2>1. completed' \in 0 .. active'
    BY <1>1, <1>4, <1>7, <1>8, <1>9
  <2>2. success' \in BOOLEAN
    BY <1>4 DEF Report
  <2>3. wPc' \in [WorkerIds -> {"none", "check", "asleep", "run", "exited"}] /\ wDone' \in [WorkerIds -> Nat]
    BY <1>4, <1>5
  <2>4. cPc' \in {"idle", "ensure", "publish", "asleep", "check", "return", "stop", "join"}
    BY <1>6 DEF Waiting
  <2> QED BY <1>0, <1>1, <2>1, <2>2, <2>3, <2>4 DEF TypeOK
<1>13. HistoryType' /\ OncePerTask' /\ AllFaithful'
  BY <1>0, <1>1, HistoryStable
<1>14. PoolInv'
  <2>1. cPc \notin {"idle", "join", "return"} /\ cPc' \notin {"idle", "join", "return"}
    BY <1>2, <1>6 DEF Waiting
  <2>2. Channels(call)' \in 1 .. workers'
    BY <1>0, <1>1, <1>2 DEF PoolInv, Waiting, Channels
  <2>3. \A j \in WorkerIds : (wPc'[j] = "none" <=> j > workers) /\ wPc'[j] # "exited"
    BY <1>0, <1>2, <1>5, <2>1 DEF PoolInv
  <2>4. call >= 1 /\ stop = FALSE
    BY <1>0, <2>1 DEF PoolInv
  <2> QED BY <1>1, <2>1, <2>2, <2>3, <2>4 DEF PoolInv
<1>15. IdInv'
  <2>1. \A j \in WorkerIds : wPc'[j] = "run" => j # i /\ wPc[j] = "run" /\ wDone'[j] = wDone[j]
    BY <1>5
  <2> QED BY <1>0, <1>1, <1>2, <1>6, <2>1 DEF IdInv, Owes
<1>16. WakeInv'
  <2>1. \A j \in WorkerIds : wPc'[j] = "asleep" => j # i /\ wPc[j] = "asleep" /\ wDone'[j] = wDone[j]
    BY <1>5
  <2> QED BY <1>0, <1>1, <1>6, <2>1 DEF WakeInv, WorkReady
<1>17. \A j : (NoTrace(j)' <=> NoTrace(j)) /\ (RunTrace(j)' <=> RunTrace(j)) /\ (ChannelDone(j)' <=> ChannelDone(j))
  BY <1>1, TraceStable
<1>18. WorkInv'
  <2>1. \A k \in DOMAIN script' : k > call' \/ (k = call' /\ cPc' \in {"ensure", "publish"}) => ran'[k] = << >>
    BY <1>0, <1>1, <1>6 DEF WorkInv, Waiting
  <2>2. ASSUME NEW j \in 1 .. workers
        PROVE  /\ wDone'[j] # batchId /\ wPc'[j] # "run" => NoTrace(j)
               /\ wPc'[j] = "run" => RunTrace(j)
    BY <1>0, <1>2, <1>3, <1>5 DEF WorkInv, Owes
  <2> QED BY <1>1, <1>17, <2>1, <2>2 DEF WorkInv, Owes
<1>19. ResultInv'
  <2>0. call \in 1 .. Len(script)
    BY <1>0, <1>2, ScriptFacts DEF PoolInv, TypeOK, Waiting
  <2>1. Channels(call) \in 1 .. workers /\ \A j \in 1 .. Channels(call) : script[call].tasks[j] \in Nat
    BY <1>0, <1>2, <2>0, ScriptFacts DEF PoolInv, Waiting
  <2>2. RunTrace(i)
    BY <1>0, <1>2, <1>3 DEF WorkInv
  <2>3. success' = (success /\ wSuccess[i]) /\ ~TasksLeft(i)
    BY DEF Report
  <2>4. wTask[i] \in Nat /\ Channels(call)' = Channels(call) /\ (ChannelFailed' <=> ChannelFailed)
    BY <1>0, <1>1, TraceStable DEF TypeOK
  <2>5. ASSUME success', NEW j \in 1 .. Channels(call), ~Owes(j)' PROVE ChannelDone(j)
    <3>1. CASE j # i
      <4>1. j \in WorkerIds /\ ~Owes(j)
        BY <1>1, <1>3, <1>5, <2>1, <2>5, <3>1 DEF Owes
      <4> QED BY <1>0, <1>2, <2>3, <2>5, <4>1 DEF ResultInv
    <3>2. CASE j = i
      <4>0. wSuccess[i]
        BY ONLY <2>3, <2>5
      <4>1. wSuccess[i] /\ i <= Channels(call)
        BY <2>1, <3>2, <4>0
      <4>2. wTask[i] = script[call].tasks[i]
        BY <1>2, <1>3, <2>1, <2>2, <2>3, <2>4, <4>1 DEF TasksLeft, RunTrace
      <4> QED BY <2>2, <3>2, <4>1, <4>2 DEF RunTrace, ChannelDone
    <3> QED BY <3>1, <3>2
  <2>6. ASSUME ~success' PROVE ChannelFailed
    <3>1. CASE ~success
      BY <1>0, <1>2, <3>1 DEF ResultInv
    <3>2. CASE ~wSuccess[i]
      <4>1. i \in 1 .. Channels(call)
        BY <1>3, <2>1, <2>2, <3>2 DEF RunTrace
      <4>2. \E t \in 1 .. script[call].tasks[i] : Executed(call, i, t, FALSE)
        BY <2>2, <3>2 DEF RunTrace
      <4> QED BY <4>1, <4>2 DEF ChannelFailed
    <3> QED BY <2>3, <2>6, <3>1, <3>2
  <2> QED BY <1>17, <2>4, <2>5, <2>6 DEF ResultInv
<1> QED BY <1>11, <1>12, <1>13, <1>14, <1>15, <1>16, <1>18, <1>19 DEF IInv

\* A wait that returns for no reason looks at its predicate again.
LEMMA SpuriousWakeInv == IInv /\ SpuriousWake => IInv'
<1> SUFFICES ASSUME IInv, SpuriousWake PROVE IInv'
  OBVIOUS
<1>0. /\ TypeOK /\ PoolInv /\ IdInv /\ WakeInv /\ WorkInv /\ HistoryType /\ OncePerTask /\ AllFaithful
      /\ ReportsCounted /\ ResultInv
  BY DEF IInv
<1>1. /\ script' = script /\ call' = call /\ workers' = workers /\ returned' = returned
      /\ batchId' = batchId /\ plan' = plan /\ active' = active /\ completed' = completed
      /\ success' = success /\ stop' = stop /\ wDone' = wDone
      /\ wPlan' = wPlan /\ wBatch' = wBatch /\ wTask' = wTask /\ wSuccess' = wSuccess /\ ran' = ran
  BY DEF SpuriousWake, callerVars, sharedVars, workerVars
<1>2. /\ cPc' = cPc \/ (cPc = "asleep" /\ cPc' = "check")
      /\ wPc' = wPc \/ \E i \in WorkerIds : wPc[i] = "asleep" /\ wPc' = [wPc EXCEPT ![i] = "check"]
  BY DEF SpuriousWake, callerVars, workerVars
<1>3. /\ wPc' \in [WorkerIds -> {"none", "check", "asleep", "run", "exited"}]
      /\ \A j \in WorkerIds : wPc'[j] = wPc[j] \/ (wPc[j] = "asleep" /\ wPc'[j] = "check")
  BY <1>0, <1>2 DEF TypeOK
<1>4. TypeOK'
  BY <1>0, <1>1, <1>2, <1>3 DEF TypeOK
<1>5. HistoryType' /\ OncePerTask' /\ AllFaithful'
  BY <1>0, <1>1, HistoryStable
<1>6. PoolInv'
  BY <1>0, <1>1, <1>2, <1>3 DEF PoolInv, Channels
<1>7. IdInv'
  BY <1>0, <1>1, <1>2, <1>3 DEF IdInv, Waiting, Owes
<1>8. ReportsCounted'
  BY <1>0, <1>1, <1>2 DEF ReportsCounted
<1>9. WakeInv'
  BY <1>0, <1>1, <1>2, <1>3 DEF WakeInv, WorkReady
<1>10. WorkInv'
  <2>1. \A j : (NoTrace(j)' <=> NoTrace(j)) /\ (RunTrace(j)' <=> RunTrace(j)) /\ (Owes(j)' <=> Owes(j))
    BY <1>1, TraceStable DEF Owes
  <2>2. Waiting' <=> Waiting
    BY <1>2 DEF Waiting
  <2>3. \A j \in 1 .. workers : wPc'[j] = "run" <=> wPc[j] = "run"
    <3>1. 1 .. workers \subseteq WorkerIds
      BY <1>0, ScriptFacts DEF TypeOK, WorkerIds
    <3> QED BY <1>3, <3>1
  <2>4. \A k \in DOMAIN script' : k > call' \/ (k = call' /\ cPc' \in {"ensure", "publish"}) => ran'[k] = << >>
    BY <1>0, <1>1, <1>2 DEF WorkInv
  <2> QED BY <1>0, <1>1, <2>1, <2>2, <2>3, <2>4 DEF WorkInv
<1>11. ResultInv'
  BY <1>0, <1>1, <1>2, TraceStable DEF ResultInv, Waiting, Owes
<1> QED BY <1>4, <1>5, <1>6, <1>7, <1>8, <1>9, <1>10, <1>11 DEF IInv

\* A step that changes nothing.
LEMMA StutterInv == IInv /\ UNCHANGED vars => IInv'
<1> SUFFICES ASSUME IInv, UNCHANGED vars PROVE IInv'
  OBVIOUS
<1>1. /\ script' = script /\ call' = call /\ cPc' = cPc /\ workers' = workers /\ returned' = returned
      /\ batchId' = batchId /\ plan' = plan /\ active' = active /\ completed' = completed
      /\ success' = success /\ stop' = stop /\ wPc' = wPc /\ wDone' = wDone
      /\ wPlan' = wPlan /\ wBatch' = wBatch /\ wTask' = wTask /\ wSuccess' = wSuccess /\ ran' = ran
  BY DEF vars, callerVars, sharedVars, workerVars
<1>2. TypeOK'
  BY <1>1 DEF IInv, TypeOK
<1>3. HistoryType' /\ OncePerTask' /\ AllFaithful'
  BY <1>1, HistoryStable DEF IInv
<1>4. PoolInv' /\ IdInv' /\ WakeInv' /\ ReportsCounted'
  BY <1>1 DEF IInv, PoolInv, IdInv, WakeInv, ReportsCounted, Waiting, Owes, WorkReady, Channels
<1>5. WorkInv'
  BY <1>1, TraceStable DEF IInv, WorkInv, Waiting, Owes
<1>6. ResultInv'
  BY <1>1, TraceStable DEF IInv, ResultInv, Waiting, Owes
<1> QED BY <1>2, <1>3, <1>4, <1>5, <1>6 DEF IInv

-----------------------------------------------------------------------------
(* The theorems.                                                           *)

\* The invariant holds in every state the executor can be in.
THEOREM PoolInvariant == Spec => []IInv
<1>1. IInv /\ [Next]_vars => IInv'
  <2> SUFFICES ASSUME IInv, [Next]_vars PROVE IInv'
    OBVIOUS
  <2>1. CASE CallerStep
    BY <2>1, BeginCallInv, EnsureWorkersInv, PublishInv, CallerCheckInv, ReturnInv, StopWorkersInv, JoinInv
       DEF CallerStep
  <2>2. ASSUME NEW i \in WorkerIds, WorkerStep(i) PROVE IInv'
    BY <2>2, WorkerCheckInv, ExecuteTaskInv, ReportInv DEF WorkerStep
  <2>3. CASE SpuriousWake
    BY <2>3, SpuriousWakeInv
  <2>4. CASE Finished \/ UNCHANGED vars
    BY <2>4, StutterInv DEF Finished
  <2> QED BY <2>1, <2>2, <2>3, <2>4 DEF Next
<1> QED BY InitInv, <1>1, PTL DEF Spec

\* No worker reads a plan that has died with the Flush that made it: while a
\* worker is inside ProcessChannel the Run that published the plan waits.
THEOREM PlanNeverDangles == Spec => []PlanAlive
<1>1. IInv => PlanAlive
  BY DEF IInv, IdInv, PlanAlive, Waiting
<1> QED BY <1>1, PoolInvariant, PTL

\* completed_channels_ counts each worker's report of the batch once, and a
\* channel's tasks are executed once and in order, whatever the calls, the
\* growth of the pool and the wake-ups.
THEOREM EachBatchOnce == Spec => []BatchOnce
<1>1. IInv => BatchOnce
  BY DEF IInv, BatchOnce
<1> QED BY <1>1, PoolInvariant, PTL

\* Run returns true only if every task of its plan succeeded, and false only
\* if one failed.
THEOREM RunTellsTheTruth == Spec => []ResultFaithful
<1>1. IInv => ResultFaithful
  BY ResultFaithfulIs DEF IInv
<1> QED BY <1>1, PoolInvariant, PTL

\* Neither condition variable loses a wake-up: a worker asleep on work_ready_
\* has nothing to do, and a caller asleep on work_done_ lacks a report.
THEOREM NobodySleepsOverWork == Spec => []WakeInv
<1>1. IInv => WakeInv
  BY DEF IInv
<1> QED BY <1>1, PoolInvariant, PTL
=============================================================================
