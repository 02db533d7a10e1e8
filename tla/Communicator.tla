----------------------------- MODULE Communicator -----------------------------
(***************************************************************************)
(* The public interface of Communicator (communicator.cpp): collectives    *)
(* and Send/Recv submit a task, GroupStart and GroupEnd collect tasks into *)
(* one batch, Flush sorts the batch, plans it and gives the plan to one of *)
(* the two executors.                                                      *)
(*                                                                         *)
(* Every rank runs its own program of calls.  What executor->Run does with *)
(* a plan is the subject of modules WorkerPool and DynamicExecutor; here   *)
(* it returns true or false, as may the P2P connection set-up of Plan.     *)
(***************************************************************************)
EXTENDS Planner, FiniteSets

CONSTANTS
  WorldSize,         \* config.world_size
  ConfigChannels,    \* the values of config.n_channels to consider
  DefaultChannels,   \* kDefaultChannelCount
  DynamicEnabled,    \* whether Init creates the dynamic executor
  Programs           \* the programs to consider: for every rank, its calls

VARIABLES
  program,      \* program[r]: the calls of rank r
  configured,   \* config.n_channels, the same on every rank
  next,         \* next[r]: index of the next call
  depth,        \* group_depth
  pending,      \* pending_tasks
  accepted,     \* history: accepted[r]: tasks accepted since the last Flush
  runs,         \* history: runs[r]: the plans handed to an executor
  answers       \* history: answers[r]: what the calls returned

vars == <<program, configured, next, depth, pending, accepted, runs, answers>>

Ranks == 0 .. WorldSize - 1

\* channels.size(), as Init sets it: GetNChannels.
GetNChannels == IF configured > 0 THEN configured ELSE DefaultChannels

Init ==
  /\ program \in Programs
  /\ configured \in ConfigChannels
  /\ next = [r \in Ranks |-> 1]
  /\ depth = [r \in Ranks |-> 0]
  /\ pending = [r \in Ranks |-> << >>]
  /\ accepted = [r \in Ranks |-> << >>]
  /\ runs = [r \in Ranks |-> << >>]
  /\ answers = [r \in Ranks |-> << >>]

CallOf(r) == program[r][next[r]]

Answer(r, ok) ==
  /\ next' = [next EXCEPT ![r] = @ + 1]
  /\ answers' = [answers EXCEPT ![r] = Append(@, ok)]
  /\ UNCHANGED <<program, configured>>

-----------------------------------------------------------------------------
(* Flush.                                                                  *)

\* The slice count above which a batch is scheduled dynamically.
BalancedSlices == configured

WantDynamic(tasks) == DynamicEnabled /\ IsCollectiveBatch(tasks)

\* The plan Flush runs, with its executor.
PlanOf(r, tasks) ==
  LET sorted == SortTasks(tasks, r, WorldSize)
      slices == DynamicSlices(sorted, WorldSize, GetNChannels)
  IN  IF WantDynamic(sorted) /\ Len(slices) > BalancedSlices
      THEN [executor |-> "dynamic", slices |-> slices, channels |-> << >>]
      ELSE [executor |-> "static", slices |-> << >>,
            channels |-> StaticChannels(sorted, r, WorldSize, GetNChannels)]

\* Flush gets as far as Run, unless a P2P connection fails.  A P2P task needs
\* channels 0 and 1: without the second, channels.at() throws out of Flush.
Plannable(r, tasks) ==
  /\ Sortable(tasks, r, WorldSize) /\ CanPlan(tasks, r, WorldSize)
  /\ IsCollectiveBatch(tasks) \/ GetNChannels > 1

NeedsConnection(tasks) == \E i \in DOMAIN tasks : IsP2p(tasks[i]) /\ tasks[i].count # 0

\* Flush of the batch tasks: pending_tasks is emptied whatever happens.
\* SortTasks and Plan may refuse the batch, a P2P connection may fail, and
\* Run may fail: ok is what Flush returns.
Flush(r, tasks, seen) ==
  /\ pending' = [pending EXCEPT ![r] = << >>]
  /\ accepted' = [accepted EXCEPT ![r] = << >>]
  /\ \/ /\ ~Plannable(r, tasks)
        /\ Answer(r, FALSE) /\ UNCHANGED runs
     \/ /\ Plannable(r, tasks)
        /\ NeedsConnection(tasks)
        /\ Answer(r, FALSE) /\ UNCHANGED runs
     \/ /\ Plannable(r, tasks)
        /\ runs' = [runs EXCEPT ![r] = Append(@, [at |-> next[r], plan |-> PlanOf(r, tasks), asked |-> seen])]
        /\ \E ok \in BOOLEAN : Answer(r, ok)

-----------------------------------------------------------------------------
(* The calls.                                                              *)

GroupStart(r) ==
  /\ CallOf(r).op = "GroupStart"
  /\ depth' = [depth EXCEPT ![r] = @ + 1]
  /\ Answer(r, TRUE)
  /\ UNCHANGED <<pending, accepted, runs>>

\* Without a GroupStart it is refused; an inner one only counts; the
\* outermost one flushes.
GroupEnd(r) ==
  /\ CallOf(r).op = "GroupEnd"
  /\ \/ /\ depth[r] = 0
        /\ Answer(r, FALSE)
        /\ UNCHANGED <<depth, pending, accepted, runs>>
     \/ /\ depth[r] > 1
        /\ depth' = [depth EXCEPT ![r] = @ - 1]
        /\ Answer(r, TRUE)
        /\ UNCHANGED <<pending, accepted, runs>>
     \/ /\ depth[r] = 1
        /\ depth' = [depth EXCEPT ![r] = 0]
        /\ Flush(r, pending[r], accepted[r])

\* A collective is validated when it is submitted, a Send or Recv only when
\* the batch is sorted.
Submit(r) ==
  /\ CallOf(r).op = "Submit"
  /\ LET t == CallOf(r).task
     IN  \/ /\ ~IsP2p(t) /\ ~ValidateCollectiveTask(t, r, WorldSize)
            /\ Answer(r, FALSE)
            /\ UNCHANGED <<pending, accepted, runs>>
         \/ /\ IsP2p(t) \/ ValidateCollectiveTask(t, r, WorldSize)
            /\ IF depth[r] = 0
               THEN Flush(r, Append(pending[r], t), Append(accepted[r], t))
               ELSE /\ pending' = [pending EXCEPT ![r] = Append(@, t)]
                    /\ accepted' = [accepted EXCEPT ![r] = Append(@, t)]
                    /\ Answer(r, TRUE)
                    /\ UNCHANGED runs
  /\ UNCHANGED depth

\* Finalize: both executors stop and the queue is dropped.
Finalize(r) ==
  /\ CallOf(r).op = "Finalize"
  /\ depth' = [depth EXCEPT ![r] = 0]
  /\ pending' = [pending EXCEPT ![r] = << >>]
  /\ accepted' = [accepted EXCEPT ![r] = << >>]
  /\ Answer(r, TRUE)
  /\ UNCHANGED runs

Finished == (\A r \in Ranks : next[r] > Len(program[r])) /\ UNCHANGED vars

Next ==
  \/ \E r \in Ranks :
       /\ next[r] <= Len(program[r])
       /\ GroupStart(r) \/ GroupEnd(r) \/ Submit(r) \/ Finalize(r)
  \/ Finished

Spec == Init /\ [][Next]_vars

-----------------------------------------------------------------------------
\* Every variable stays in its type.
TypeOK ==
  /\ \A r \in Ranks : next[r] \in 1 .. Len(program[r]) + 1 /\ depth[r] \in Nat
  /\ configured \in ConfigChannels

IdsOf(s) == {s[i].id : i \in DOMAIN s}

\* The slices of a plan, wherever they are.
AllSlices(p) == {p.slices[i] : i \in DOMAIN p.slices} \cup UNION {{p.channels[c][i] : i \in DOMAIN p.channels[c]} : c \in DOMAIN p.channels}

\* A batch is planned whole and once: every plan handed to an executor holds
\* exactly the tasks accepted since the last Flush, no entry twice.
WholeBatch ==
  \A r \in Ranks : \A k \in DOMAIN runs[r] :
    LET p == runs[r][k].plan
        n == Cardinality(AllSlices(p))
        total == Len(p.slices) + FoldLeft(LAMBDA sum, ch : sum + Len(ch), 0, p.channels)
    IN  /\ {s.task : s \in AllSlices(p)} = IdsOf(runs[r][k].asked)
        /\ total = n

\* The queue as a whole: group_depth never goes below zero, and what GroupEnd
\* or Submit flushes is the batch.
BatchesWhole == TypeOK /\ WholeBatch

\* The slices of a collective tile its buffer: they follow one another
\* without gap or overlap and end at count, and every slice but the last is
\* a whole number of units (a ring AllReduce relies on it).
SlicesTile ==
  \A r \in Ranks : \A k \in DOMAIN runs[r] : \A i \in DOMAIN runs[r][k].asked :
    LET t == runs[r][k].asked[i]
        mine == {s \in AllSlices(runs[r][k].plan) : s.task = t.id}
        covered(s) == s.offset .. s.offset + s.elems - 1
    IN  ~IsP2p(t) =>
          /\ UNION {covered(s) : s \in mine} = 0 .. t.count - 1
          /\ \A s, u \in mine : s # u => covered(s) \cap covered(u) = {}
          /\ \A s \in mine : s.offset + s.elems < t.count => (s.elems * TypeSize(t.dtype)) % UnitBytes(t, WorldSize) = 0
          /\ \A s \in mine : (s.offset * TypeSize(t.dtype)) % UnitBytes(t, WorldSize) = 0

\* A slice without the fields its collective does not read.  Its task's id is
\* history: the tasks of two ranks that belong together have one id.
Matters(e) ==
  [task |-> e.task, func |-> e.func, topology |-> e.topology, offset |-> e.offset, elems |-> e.elems, stride |-> e.stride,
   chunk |-> e.chunk, dtype |-> e.dtype, op |-> EffectiveOp(e), root |-> EffectiveRoot(e)]

\* What a rank's plan asks of another rank: the collectives' slices, in
\* order, per channel of a static plan or in one list for a dynamic one.
Collectives(p) ==
  LET asked(s) == LET mine == SelectSeq(s, IsCollectiveTask) IN [i \in DOMAIN mine |-> Matters(mine[i])]
  IN  [executor |-> p.executor, slices |-> asked(p.slices),
       channels |-> [c \in DOMAIN p.channels |-> asked(p.channels[c])]]

\* Two runs of the same collectives.
SameCollectives(a, b) ==
  LET ids(run) == IdsOf(SelectSeq(run.asked, IsCollectiveTask)) IN ids(a) = ids(b) /\ ids(a) # {}

\* All pairs of runs, of any two ranks, that have to meet.
Meeting(Related(_, _)) ==
  \A r, q \in Ranks : \A j \in DOMAIN runs[r], k \in DOMAIN runs[q] :
    SameCollectives(runs[r][j], runs[q][k]) => Related(runs[r][j], runs[q][k])

\* Ranks that group the same collectives, in whatever order, agree on every
\* channel's slices and on their order, so that the tasks that belong together
\* meet, provided they use the same executor, whatever messages each rank adds
\* to its batch; and they use the same executor if all of them add messages or
\* none does.  (Ranks must submit two tasks with the same key in the same
\* order: the sort is stable and nothing else tells them apart.)
PlansAgree ==
  Meeting(LAMBDA a, b :
    /\ a.plan.executor = b.plan.executor => Collectives(a.plan) = Collectives(b.plan)
    /\ IsCollectiveBatch(a.asked) = IsCollectiveBatch(b.asked) => a.plan.executor = b.plan.executor)

\* Ranks that group the same collectives run them on the same executor,
\* whatever messages each adds.
ExecutorsAgree == Meeting(LAMBDA a, b : a.plan.executor = b.plan.executor)

\* "A balanced slice set (at most one slice per channel) gains nothing from
\* dynamic scheduling ... so fall back to the static path."
BalancedIsStatic ==
  \A r \in Ranks : \A k \in DOMAIN runs[r] :
    runs[r][k].plan.executor = "dynamic" => Len(runs[r][k].plan.slices) > GetNChannels
=============================================================================
