------------------------------- MODULE Planner --------------------------------
(***************************************************************************)
(* The pure part of Planner (planner.cpp): how a batch of tasks is         *)
(* validated, sorted, cut into slices and put on channels.  Every rank     *)
(* computes this alone; the ranks agree only because the computation gives *)
(* them the same answer.  An enumerator is its number in types.h, because  *)
(* SortTasks compares them.  A buffer is present (TRUE) or a null pointer. *)
(***************************************************************************)
EXTENDS Integers, Sequences, SequencesExt

CONSTANTS
  ChunkBytes,            \* kChunkBytes
  TreeThresholdChunks    \* kTreeThresholdChunks

ASSUME PlannerAssumption == ChunkBytes \in {8 * k : k \in 1 .. 4096} /\ TreeThresholdChunks \in Nat

AllReduce == 0
Broadcast == 1
Reduce == 2
AllGather == 3
ReduceScatter == 4
Send == 5
Recv == 6

IsP2p(t) == t.func \in {Send, Recv}
IsReduction(t) == t.func \in {AllReduce, Reduce, ReduceScatter}
HasRoot(t) == t.func \in {Broadcast, Reduce}

\* GetDataTypeSize: FLOAT32, FLOAT64, INT32, INT64; 0 for any other number.
TypeSize(dtype) == CASE dtype \in {0, 2} -> 4 [] dtype \in {1, 3} -> 8 [] OTHER -> 0

TotalBytes(t) == t.count * TypeSize(t.dtype)

\* ValidateCollectiveTask, without its checks for a size_t overflow.
ValidateCollectiveTask(t, rank, n) ==
  /\ TypeSize(t.dtype) # 0
  /\ IsReduction(t) => t.op \in 0 .. 3
  /\ HasRoot(t) => t.root \in 0 .. n - 1
  /\ t.count # 0 =>
       /\ t.func # Broadcast => t.sendBuf
       /\ t.func # Reduce \/ rank = t.root => t.recvBuf

PeerInRange(t, rank, n) == t.peer \in (0 .. n - 1) \ {rank}

\* ValidateP2p, without the size limit of the zero-copy RDMA transport.
ValidateP2p(t, rank, n) ==
  /\ PeerInRange(t, rank, n)
  /\ t.count # 0 => TypeSize(t.dtype) # 0 /\ (IF t.func = Send THEN t.sendBuf ELSE t.recvBuf)

-----------------------------------------------------------------------------
(* SortTasks.                                                              *)

\* Mutant: a receiver counts the distance in the sender's direction.
P2pRoundOneWay(t, rank, n) == n - ((t.peer - rank + n) % n)

\* The round in which both ends of a message handle it.
P2pRoundOf(t, rank, n) ==
  n - (IF t.func = Send THEN (t.peer - rank + n) % n ELSE (rank - t.peer + n) % n)

EffectiveOp(t) == IF IsReduction(t) THEN t.op ELSE 0
EffectiveRoot(t) == IF HasRoot(t) THEN t.root ELSE 0

\* Mutant: the root of a collective that has none takes part in the sort.
CollectiveKeyRaw(t) == <<t.func, TotalBytes(t), t.dtype, EffectiveOp(t), t.root>>

CollectiveKey(t) == <<t.func, TotalBytes(t), t.dtype, EffectiveOp(t), EffectiveRoot(t)>>
P2pKey(t, rank, n) == <<P2pRoundOf(t, rank, n), t.func>>

LexLess(a, b) == \E k \in DOMAIN a : a[k] < b[k] /\ \A j \in 1 .. k - 1 : a[j] = b[j]

\* std::stable_sort by Key.
StableSort(s, Key(_)) ==
  LET before(i, j) == LexLess(Key(s[i]), Key(s[j])) \/ (Key(s[i]) = Key(s[j]) /\ i < j)
      order == SetToSortSeq(DOMAIN s, before)
  IN  [i \in DOMAIN s |-> s[order[i]]]

\* Whether SortTasks accepts the batch.
Sortable(tasks, rank, n) ==
  \A i \in DOMAIN tasks :
    IF IsP2p(tasks[i]) THEN PeerInRange(tasks[i], rank, n)
    ELSE ValidateCollectiveTask(tasks[i], rank, n)

IsCollectiveTask(t) == ~IsP2p(t)

SortTasks(tasks, rank, n) ==
  StableSort(SelectSeq(tasks, IsCollectiveTask), CollectiveKey)
    \o StableSort(SelectSeq(tasks, IsP2p), LAMBDA t : P2pKey(t, rank, n))

IsCollectiveBatch(tasks) == \A i \in DOMAIN tasks : ~IsP2p(tasks[i])

-----------------------------------------------------------------------------
(* EmitCollectiveSlices.                                                   *)

UseTree(t) == t.func = AllReduce /\ TotalBytes(t) \div ChunkBytes < TreeThresholdChunks

UnitBytes(t, n) == IF t.func = AllReduce THEN ChunkBytes * n ELSE ChunkBytes

UnitsTotal(t, n) == TotalBytes(t) \div UnitBytes(t, n)

\* n_used: the channels, and slices, of a task.
SliceCount(t, n, channels) ==
  IF UnitsTotal(t, n) = 0 THEN 1
  ELSE IF UnitsTotal(t, n) < channels THEN UnitsTotal(t, n) ELSE channels

\* Mutant: forgets the partial unit.
SliceBytesWhole(t, n, channels, c) ==
  LET used == SliceCount(t, n, channels)
  IN  (UnitsTotal(t, n) \div used + (IF c < UnitsTotal(t, n) % used THEN 1 ELSE 0)) * UnitBytes(t, n)

\* channel_bytes of slice c (from 0): whole units, the first rem_units
\* slices one more, the last one the partial unit as well.
SliceBytes(t, n, channels, c) ==
  LET used  == SliceCount(t, n, channels)
      units == UnitsTotal(t, n) \div used + (IF c < UnitsTotal(t, n) % used THEN 1 ELSE 0)
  IN  units * UnitBytes(t, n) + (IF c = used - 1 THEN TotalBytes(t) % UnitBytes(t, n) ELSE 0)

SliceElems(t, n, channels, c) == SliceBytes(t, n, channels, c) \div TypeSize(t.dtype)

\* offset: the elements of the slices before slice c.
SliceOffset(t, n, channels, c) ==
  FoldLeft(LAMBDA sum, i : sum + SliceElems(t, n, channels, i - 1), 0, [i \in 1 .. c |-> i])

\* chunk_size: what a ring or tree AllReduce moves at a time.
SliceChunk(t, n, elems) ==
  IF t.func = AllReduce THEN ChunkBytes \div TypeSize(t.dtype) ELSE (elems + n - 1) \div n

\* The slices of one task, in the order they are emitted.
EmitCollectiveSlices(t, n, channels) ==
  [c \in 1 .. SliceCount(t, n, channels) |->
     LET elems == SliceElems(t, n, channels, c - 1)
     IN  [task |-> t.id, func |-> t.func, topology |-> IF UseTree(t) THEN "tree" ELSE "ring",
          offset |-> SliceOffset(t, n, channels, c - 1), elems |-> elems, stride |-> t.count,
          chunk |-> SliceChunk(t, n, elems), root |-> t.root, op |-> t.op, dtype |-> t.dtype]]

-----------------------------------------------------------------------------
(* Plan.                                                                   *)

CanPlan(tasks, rank, n) ==
  \A i \in DOMAIN tasks :
    IF IsP2p(tasks[i]) THEN ValidateP2p(tasks[i], rank, n)
    ELSE ValidateCollectiveTask(tasks[i], rank, n)

\* plan.slices of a dynamic plan.
DynamicSlices(tasks, n, channels) ==
  FoldLeft(LAMBDA all, t : all \o EmitCollectiveSlices(t, n, channels), << >>, tasks)

\* The collectives' slices on channel c of a static plan: slice i of every
\* task goes to channel i.
BoundSlices(tasks, n, channels, c) ==
  FoldLeft(LAMBDA all, t :
             all \o (IF c < SliceCount(t, n, channels) THEN <<EmitCollectiveSlices(t, n, channels)[c + 1]>> ELSE << >>),
           << >>, SelectSeq(tasks, IsCollectiveTask))

\* Mutant: forgets the last round.
P2pOnChannelShort(tasks, rank, n, c) ==
  LET onChannel(t) == (t.func = Send /\ c = 0) \/ (t.func = Recv /\ c = 1)
      mine == SelectSeq(tasks, LAMBDA t : onChannel(t) /\ P2pRoundOf(t, rank, n) < n - 1)
  IN  [i \in DOMAIN mine |-> [task |-> mine[i].id, func |-> mine[i].func, peer |-> mine[i].peer, elems |-> mine[i].count]]

\* Sends go to channel 0 and receives to channel 1, by round and, within a
\* round, in the order of the sorted batch.
P2pOnChannel(tasks, rank, n, c) ==
  LET onChannel(t) == (t.func = Send /\ c = 0) \/ (t.func = Recv /\ c = 1)
      entry(t) == [task |-> t.id, func |-> t.func, peer |-> t.peer, elems |-> t.count]
      round(k) == SelectSeq(tasks, LAMBDA t : onChannel(t) /\ P2pRoundOf(t, rank, n) = k)
      inOrder == FoldLeft(LAMBDA all, k : all \o round(k), << >>, [k \in 1 .. n - 1 |-> k])
  IN  [i \in DOMAIN inOrder |-> entry(inOrder[i])]

\* plan.channels of a static plan; channel c is at index c + 1.
StaticChannels(tasks, rank, n, channels) ==
  [c \in 1 .. channels |-> BoundSlices(tasks, n, channels, c - 1) \o P2pOnChannel(tasks, rank, n, c - 1)]
=============================================================================
