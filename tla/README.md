# OriginCCL in TLA+

A model of OriginCCL, a collective communication library in C++: what a rank
does from a call of `AllReduce` to the last byte in shared memory, on all ranks
at once.  Paths below are relative to the repository.

## 1. The system

A **rank** is a process with one `Communicator`.  A call (`AllReduce`,
`Broadcast`, `AllGather`, `Reduce`, `ReduceScatter`, `Send`, `Recv`) becomes a
`CollTask`; tasks between `GroupStart` and `GroupEnd` form a batch.  `Flush`
sorts the batch and lets `Planner` cut it into slices and put them on channels;
an `Executor` runs the plan.  A **channel** has one connection (`Transport`) per
direction to each neighbour, and an executor drives, per channel, the state
machine of a `Topology` that moves a slice's bytes with `TrySend` and `TryRecv`.

No rank ever tells another what it is about to do.  The plans match because
every rank computes the same one from its own calls, and bytes reach the right
buffer because both ends of a connection send and receive in the same order:
nothing on the wire says what a byte belongs to.  Most properties here are about
exactly that.

| component | state | operations | hard behaviour | what makes it correct |
|---|---|---|---|---|
| `Communicator` (`src/communicator.cpp`) | `group_depth`, `pending_tasks`, channels, executors | public calls, `GroupStart`, `GroupEnd`, `Submit`, `Flush`, `Finalize` | nesting, refused calls, failing flushes | each task in exactly one plan (`BatchesWhole`) |
| `Planner` (`src/planner.cpp`) | none of its own | `SortTasks`, `Plan`, `EmitCollectiveSlices` | the ranks' orders and ignored fields differ; boundaries of the slicing | `SlicesTile`, `PlansAgree` |
| `Planner`, P2P (`src/planner.cpp`) | `send_p2p`, `recv_p2p`, listeners | `PlanP2pRound`, `PrepareRound`, `ConnectP2p`, `AcceptP2pOne` | two threads per rank, unsynchronised ranks, connections out of order | `WiredOnce`, no circular wait |
| `TopologyRing` (`src/topology/topology_ring.cpp`) | `CollOpState`, buffers | `CollectiveInit/Step/Done` of five collectives | index arithmetic, buffers sent from and received into, skew between ranks, edge-triggered progress | `Correct`, `NoAliasing`, `CallPending` |
| `TopologyTree` (`src/topology/topology_tree.cpp`) | `CollOpState` per edge, tree shape | `FillChannels`, `CollectiveInit/Step` | pipelining behind the slowest input, done flags per chunk, shape computed by each rank alone | `Correct`, `CallPending` |
| `TopologyP2p` (`src/topology/topology_p2p.cpp`) | progress of one message | `CollectiveInit/Step` | messages of several batches on one connection | `Delivered` |
| `MultiThreadExecutor` (`src/executor/multi_thread_executor.cpp`) | workers, `batch_id_`, counters, plan pointer | `Run`, `Shutdown`, `WorkerLoop` | condition variables, growing and shrinking plans, a plan that dies with its caller | `BatchOnce`, `PlanAlive`, `ResultFaithful` |
| `DynamicMultiThreadExecutor` (`src/executor/dynamic_multi_thread_executor.cpp`) | the same and `next_slice_` | `Run`, `ProcessChannel` | channels race for slices; control and data share an edge | `SlicesOnce`, `EdgesFramed` |
| `EpollExecutor`, `PollingExecutor`, `ReactorExecutor` (`src/executor/`) | registrations, current tasks, work and completion queues | `Run` | edge-triggered and stale events, hand-over of a task between threads, abort half-way; only the first is ever selected | `Aligned`, `OneOwner`, `NoLostEvent`, `CleanReturn` |
| `TransportShm` (`src/transport/transport_shm.cpp`) | cursors, ring, eventfds, cached cursors; control socket, descriptors | `TrySend`, `TryRecv`, `Send`, `Recv`; `Listen`, `Connect`, `Accept`, `Close` | lock-free ring between processes, wake-ups; retries with new rings, descriptors that come in part | `RingSafe`, `NoLostWakeup`, refines `ByteChannel`; `SameOutcome`, `NoLeak` |
| `TransportRDMA` (`src/transport/transport_rdma.cpp`) | slots, credits, receive pool, completion queue; CM channels | `TrySend`, `TryRecv`, `ProcessCompletions`; `Listen`, `Connect`, `Accept`, `AwaitEvent` | credit window, batched credits, re-arming, a card at its own pace; either end failing half-way | `CreditConserved`, `SlotsReady`, `NoLostWakeup`, refines `ByteChannel`; `SameOutcome`, `CallsReturn` |
| `TransportRDMAZc` (`src/transport/transport_rdma_zc.cpp`) | requests posted and completed, cached memory region | zero-copy `TrySend`, `TryRecv` | the caller's buffer in the card's hands, late completions, ends with different limits, failed calls and aborted plans | `BufferOwned`, `ZcExact` |
| `TransportTCP` (`src/transport/transport_tcp.cpp`) | a socket | `TrySend`, `TryRecv`, `Connect`, `Accept` | partial writes, readiness | part of `TaskEdges` and `Startup` |
| Channel start-up (`src/communicator.cpp:459-658`) | connectors, retries | `InitChannels`, `ConnectActiveEdges`, `AcceptPassiveEdges` | a connect and an accept thread on every rank, connections in any order, failed attempts | `EdgesMeet`, no circular wait |
| `Bootstrap` (`src/bootstrap.cpp`) | list of nodes | `RunMaster`, `RunWorker` | workers in any order, ranks that run ahead | `CommonView` |

Who calls whom: `Communicator::Flush` → `Planner::Plan` (→ `ConnectP2p`,
`AcceptP2pOne` for a P2P batch) → `Executor::Run` → per channel
`Topology::CollectiveInit/Step` → `Transport::TrySend/TryRecv`.  Shared state
between threads: the executors' members under `mutex_`, the connectors during
`PrepareRound`.  Shared state between processes: the shared-memory ring and the
connections.

## 2. Modules

| module | models | composed of |
|---|---|---|
| `ByteChannel` | what a `Transport` promises: a bounded, lossless FIFO | |
| `ShmRing` | `TransportShm`'s data path, both ends | refines `ByteChannel` (`sent <- head`) |
| `RdmaRing` | `TransportRDMA`'s data path, both ends and the card | refines `ByteChannel` (what `TrySend` has accepted) |
| `RdmaZc` | the zero-copy path of `TransportRDMAZc` | the ring as whole messages |
| `RdmaTransports` | either of the two | extends `RdmaRing`, instantiates `RdmaZc` |
| `ShmRendezvous` | `Connect`, `Accept`, handshake, `Close` of `TransportShm` | |
| `RdmaConnect` | `Connect`, `Accept` of both RDMA transports over the connection manager | |
| `Connections` | several connectors and one listener of either kind | instantiates both |
| `RingCollective` | `TopologyRing` on all ranks of a channel | edges as in `ByteChannel` |
| `TreeAllReduce` | `TopologyTree` on all ranks of a channel | the same |
| `Topologies` | what both promise an executor | instantiates both |
| `TaskEdges` | one rank's sockets, readiness list and calls into a `Topology` | |
| `EpollExecutor`, `PollingExecutor`, `ReactorExecutor` | their `Run` | extend `TaskEdges` |
| `Executors` | what `Executor::Run` promises, over the three | instantiates them |
| `WorkerPool` | `MultiThreadExecutor`'s threads on one rank; line for line also those of the dynamic executor | |
| `DynamicExecutor` | `ProcessChannel` on all ranks | collectives abstracted to an item per edge |
| `Planner` | the pure part of `Planner` | |
| `Communicator` | the public interface on all ranks | extends `Planner` |
| `P2pExchange` | `Send`/`Recv`: connections and execution | extends `Planner` |
| `Batches` | what ranks that submit batches may rely on | instantiates both |
| `Startup` | `Communicator::Init` and `Bootstrap` on all ranks | |
| `Totals`, `Ordered` | sums and orderings of finite collections, defined without recursion | used by the proofs, by `ReactorExecutor` and by `Startup` |
| `MC*` | the instances for TLC | |
| `ShmRingProofs`, `RdmaTransportsProofs`, `ConnectionsProofs`, `ExecutorsProofs`, `WorkerPoolProofs`, `DynamicExecutorProofs`, `StartupProofs` | the TLAPS proofs about the module each is named for (section 4) | extend it |
| `ProofLemmas` | facts about remainders, minima, sums and sorted lists that these proofs share | |

`Topologies`, `Executors`, `Connections` and `RdmaTransports` each gather the
implementations of one interface, `Batches` the two moments of a batch (planning
it, and exchanging its messages).  A variable that never changes (`topology`,
`executor`, `kind`, `path`, `moment`) says which one is at work in a behaviour;
the others keep a neutral value.  Their properties state the interface's promise
once and say, case by case, what it comes to in each implementation.  Where several
invariants of one module make up one promise, a conjunction names it
(`RingSafe`, `BatchOnce`, `SlicesOnce`, `EdgesFramed`, `BatchesWhole`,
`WiredOnce`, `SlotsReady`, `BufferOwned`, `CommonView`, `EdgesMeet`); the
conjuncts keep their names and comments.

An operator named `...` with the comment `Mutant:` is a deliberately wrong
variant of the definition after it; no specification uses it.  It documents a
slip the properties detect.

### How the models correspond to the code

**ShmRing.**  `head`, `tail` are `ShmRingCursors`, `ring` is `RingData()`,
`dataReady` and `spaceReady` are the eventfds as readable (1) or not (0), which
is all `poll`, `Drain` and `Notify` tell apart.  A batch is what one
`Executor::Run` moves, with the wait mode it sets.  Each load of the peer's
cursor, each `memcpy`, each cursor store, each `Drain` and `Notify` is a step.
The acquire/release pairs are modelled as sequentially consistent accesses of
the cursors; the copies are separate steps so that a race would show as an
overlap (`NoDataRace`).  Cursors are unbounded naturals; the code's are 64-bit
byte counts.  `SendRepush`/`RecvRepush` let another event call `Try*` early, as
`TopologyTree` does; fairness never relies on them.

**RingCollective, TreeAllReduce.**  `st[r]` is `CollOpState` with the buffers,
`edge` the bytes in flight in units of elements.  A handler (`CollectiveInit`,
`CollectiveStep`) is one step, with its `Complete*`/`Advance` loop in it, because
it runs without interruption on one thread; two ranks meet only through edges.
Values are bags of `<<rank, index>>`, so a lost, doubled or misplaced input is
visible; `Averaged` adds a mark with the number of summands, so averaging twice
or too early is too.  `SUM` stands for the other reductions, which differ only
in the arithmetic of `ReduceData`.  `Fail` is any `TrySend`/`TryRecv` returning
false.

**WorkerPool.**  A critical section of `mutex_` is a step; waits are modelled as
check, sleep, notified or spurious wake-up, check.  `plan_` is the index of the
call whose plan it points to, so a dangling pointer is a `wPlan` of another call.

**DynamicExecutor.**  An item on an edge is a whole message; its tag, run, index
and the number of the task it belongs to are history, and so are `claims`, the
tasks each claim of rank 0 makes the channel execute, and `log`, what each rank
has executed of them.  No action but the recording ones looks at history;
`Framed`, `Agreement` and `ExactlyOnce` do.

**Planner, Communicator.**  Enumerators are their numbers in `include/types.h`
since `SortTasks` compares them; buffers are present or null.  `Flush` is one
step whose outcome (accepted, refused, connection failed, run failed) is chosen
as the code allows.  P2P with a single channel throws out of `channels.at` and
counts as a failed call.  The overflow checks and the zero-copy size limit are
left out.

**P2pExchange.**  Backlogs of listeners, the connect and the accept thread of
`PrepareRound` with their shared `error` flag, and then the two workers.
`blocking` says whether `ConnectP2p` goes on at once (TCP) or only when the peer
accepts: RDMA waits in `Connect`, shared memory in the handshake's `Send`, which
wants an acknowledgement.  A rank that fails stops making calls: what a user does
after a failed `Flush` is not specified anywhere.

**RdmaRing.**  The card is an actor: `wire` holds posted work requests,
`Execute` takes one, writes the slot, takes a receive entry and adds a
completion, raising an event if the queue was armed.  An endpoint's call is
drain, re-arm, poll completion by completion, move; each is a step, so
completions arrive between any two.  Arrivals are numbered by the receiver
itself; the slot in the immediate is only range-checked by the code, and the
refinement shows that both counts agree; `seq`, the number a write or credit
carries, is history.  Queue pair, completion queue and channel are external,
modelled from how `transport_rdma.cpp` uses them.

**RdmaZc.**  A call is one step, the card moves between calls.  Which bytes land
where is the history `filled`; a region is a buffer, a size and a key that
changes with every registration.  Each way a call returns false is an action: a
completion with an error or a failing repost in `ProcessCompletions`
(`PollFails`: any number of completions handled, the rest lost), `ibv_reg_mr`
(`RegisterFails`, the old region already dropped), a chain posted in part
(`PostFails`), a transfer begun for another buffer (`Refuse`); and so is the
executor that aborts a plan between two calls because another task failed
(`Abandon`, which the transport never hears of).  The caller then has its buffer
back (`aborted`) and goes on to its next message on the same endpoint; counters,
region and posted requests stay as they are, since nothing but `Close` releases
them.  The next message is refused as long as the old transfer is begun, unless
it has the same buffer and size: then the code continues the old transfer, and
so does the model.  `torn` records an end that has posted a chain in part, whose
counters no longer say what the card holds.

**RdmaConnect, ShmRendezvous.**  A request or message under way is an entry of a
queue per channel or socket; every system or CM call that can fail may fail
where the instance allows it.  The three descriptors of a ring are separate:
`CreateRing` may fail with some of them open, and `recvmsg` in a process short of
descriptors installs the first few (`RecvTruncated`).  The accepting caller
returns at its first failure and keeps what it has filed; the listener stays
open behind it.  `CloseListener` is `InitChannels` after its threads are joined
(`communicator.cpp:513`) or, for P2P, `Finalize` (`communicator.cpp:334`);
`AcceptAgain` is a later `AcceptP2pOne`; `GiveUp` is `AcceptPassiveEdges` that
sees the other thread's error, or a caller that does not come back.

**TaskEdges and the executors.**  A task is a list of phases, each with units to
send and to receive; the neighbours deliver and drain at any time.  `ready` is
the kernel's ready list with edge-triggered semantics, including the event a full
send buffer owes (`nospace`).  A `Topology` call is not atomic: between any two
`PushBuffer`s the neighbours may move.  `EpollExecutor` handles the events it
fetched one by one, so later ones may be stale.  In `ReactorExecutor` each
critical section, each job and each use of the eventfd is a step.

**Startup.**  One action per step of `Init`: listen, bootstrap (join, gather in
any order of acceptance, broadcast), decide, close the unused listener, then the
connect and the accept thread and their join.  A cluster (`setup`) says who
shares a machine, who has RDMA and whether shared memory is on.  `conns` names
connections so that `WiredAlike` can compare the two ends.

## 3. Runs

`tlc -workers 2 -config <run>.cfg <module>` in this directory.

| run | module | instance | distinct states | shows |
|---|---|---|---|---|
| `ShmRing` | `MCShmRing` | ring of 3 bytes, all splits of 7 bytes into two batches, settled modes | 15 892 | the ring is safe, refines the channel, and completes |
| `ShmRingSwitch` | `MCShmRing` | the same, polling then event-driven | violation | finding 1: the transfer hangs |
| `Topologies` | `MCTopologies` | rings of 1–4 ranks with every collective, all pairs of six tasks on 3 ranks, edges of 2; trees of 1–5 ranks, both parities, edges of 1 | 268 952 | results, aliasing, no confusion between tasks, progress |
| `WorkerPool` | `MCWorkerPool` | up to 3 workers, four scripts of calls | 23 009 | the thread protocol |
| `DynamicExecutor` | `MCDynamicExecutor` | 3 ranks, 2 channels, claims of 2, edges of 1 item; in one list of plans one worker may fail | 218 548 | agreement, exactly-once, framing, termination |
| `Batches` | `MCBatches` | 3 ranks.  Planning: groups in several orders, nested P2P groups, messages on all ranks, on two of them or on none, refused calls, counts 0–24 around the slicing's boundaries, 1–4 channels.  Exchange: all-to-all and a two-batch chain, both kinds of connection | 274 371 | tiling, agreement, whole batches; wiring, delivery, no circular wait |
| `FlushBalanced` | `MCBatches` | as `Batches`, planning | violation | finding 2: balanced batches run dynamically by default |
| `FlushMixed` | `MCBatches` | a group of collectives on 3 ranks, with a message between two of them | violation | finding 3: the ranks choose different executors |
| `RdmaTransports` | `MCRdmaTransports` | 3 slots of 2 bytes, 4 receive entries, credits by 2, messages of 3 and 5 bytes; zero-copy window of 3, three messages of 1, 2 or 9 bytes in one or two buffers, one failed call or aborted plan at any point and the refusals that follow | 410 138 | credits, slots, wake-ups, refinement; buffers and chunks, after a failure too; delivery |
| `Executors` | `MCExecutors` | 2 channels, up to 3 tasks each, buffers of 1 and 2 units, any transport may fail, 2 reactor workers | 325 705 | one owner, no lost event, clean return, termination |
| `Startup` | `MCStartup` | 3 ranks, two clusters, one failing attempt, 2 tries | 138 222 | same view, same decisions, matching edges, termination |
| `Connections` | `Connections` | 2 connectors, 1 listener, 2 tries, every fault, for start-up's callers and for P2P's | 48 770 | same outcome, which failures leak, calls return |

**Why these bounds.**  A ring of 3 bytes and 7 bytes of traffic wraps more than
twice with chunks cut by the ring's end, by the room and by the batch.  Edges of
1 or 2 elements are smaller than every chunk, so partial progress and
back-pressure happen everywhere; up to 4 ring ranks give both parities of
ReduceScatter's buffer swap, and counts of `2m - 1` and `2m + 1` leave partial
and empty chunks and a second unit.  Five machines are the fewest whose tree has
an inner node beside a leaf and depth two.  Scripts of `WorkerPool` grow,
shrink, empty and restart the pool.  Three ranks are the fewest for which a
Broadcast has a middle rank and P2P rounds or start-up could form a circle.
`ChunkBytes = 8` and `TreeThresholdChunks = 4` keep the proportions of
`include/occl_config.h` (`OCCL_SMALL_TESTS` scales them the same way).  The RDMA
instance keeps the proportions of 32 slots, 64 entries and batches of 8 as far
as they matter: a batch does not divide the ring, the stream of five slots wraps
it, and the pool has one entry beyond the slots, for a credit; 9 bytes are more
chunks than the window, and three messages are enough for one to fail, one to be
refused or to continue what was left, and one to follow (`Failures = 1` bounds
failures other than refusals; the proofs have no such bound).  In `Startup` one
channel of odd number is modelled (the mirrored tree); more channels repeat it.

**Deadlock** is checked except in `DynamicExecutor`, where ranks wait for ever
for one that has failed (the code has no timeout there), and in `Executors`,
`Startup` and `Connections`, where the calls end and nothing follows.  In all
four a liveness property says where behaviours must get to.

**Fairness.**  Weak fairness of every thread or process: the operating system
schedules them; a card executes what is posted, the connection manager and the
network deliver, neighbours of `Executors` go on delivering and draining.  In
`RingCollective` and `TreeAllReduce` it is written with `ENABLED` spelt out
(`CanMove`), as TLC evaluates that much faster; it owes a rank a call only for a
side whose done flag is down, which is what the polling executors do
(`multi_thread_executor.cpp:115-127`).  For an event-driven executor the wake-up
it presupposes is `NoLostWakeup` of `ShmRing` and `RdmaRing` and `NoLostEvent`
of `Executors`.  Nothing assumes fairness of spurious wake-ups, failures,
refusals or repushes, nor of the moment at which an accepting caller that has
failed comes back or closes its listener.

### Findings

1. *Polling, then event-driven, on one shared-memory ring.*  In polling mode
   nobody notifies (`transport_shm.cpp:364`, `:394`).  A producer whose polling
   batch left the ring full begins an event-driven batch, drains the eventfd and
   parks; the consumer, still in its polling batch, makes room without
   notifying.  `docs/layers/transport.md:14` presents the mode as a choice per
   plan.  It takes the dynamic executor (always polling) and `EpollExecutor`
   (fewer cores than local ranks) in turns.
2. *Balanced batches.*  `Flush` compares with `config.n_channels`, 0 by default,
   not with the number of channels (`communicator.cpp:393`, comment above it).
3. *A message between two ranks of a group.*  `Flush` takes the dynamic executor
   only if the rank's own batch has no P2P task (`communicator.cpp:384`).  When
   ranks 0 and 1 group {collectives, `Send`/`Recv`} and rank 2 the same
   collectives alone, which `docs/layers/communicator.md:45` and `:55-56` allow,
   the first two run the static executor and the third the dynamic one, which
   reads slice data of its neighbour as control.  `PlansAgree` is therefore
   stated for ranks that run a batch on the same executor (their slices agree
   whatever messages each adds) and for batches in which all ranks or none have
   messages.

Observations, with configurations beside those of the table that show the first
five (`tlc -config <name>.cfg <module>` reports a violation):

* `P2pReport` (`MCBatches`): when one thread of `PrepareRound` has failed, the
  other may sit in `poll` with a timeout of -1 (`planner.cpp:488`) for a peer that
  will not connect; `Plan` then never returns, although `docs/layers/planner.md:27`
  says that a failure is reported by its `false`.
* `StartupRetries` (`MCStartup`, two minutes): a rank whose connect thread has
  used up its retries waits the same way in its accept thread
  (`communicator.cpp:615`), although `docs/layers/communicator.md:28` says that
  exhausted retries fail the initialisation.
* `RdmaConnectTimeout` (`RdmaConnect`): the time-out in `AwaitEvent`
  (`transport_rdma.cpp:373`) follows `EAGAIN`, but nothing makes the CM channel
  non-blocking, and an address error, a route error or an unreachable peer is
  not among its fatal events; such a `Connect` waits for ever.
* `ShmTruncated` (`Connections`): a control message with fewer than three
  descriptors, which is what `recvmsg` delivers to a process near its limit, is
  skipped by `RecvResources` (`transport_shm.cpp:254`) and the descriptors it
  did install are never closed.  `NoLeak` excepts exactly these.
* `ZcAbort` (`MCRdmaTransports`): after a failed call or an aborted plan the
  requests posted stay with the card until `Close`, while
  `docs/layers/communicator.md:58` asks the caller to keep its buffers only
  until `GroupEnd` returns.  The card may then still read or write memory the
  caller has freed.  `BufferOwned` says that it holds no others: once `TrySend`
  or `TryRecv` has said done, the buffer is the caller's.
* A transfer left begun by an aborted plan refuses the messages after it, and a
  message with the same buffer and size is taken for the old one's rest
  (`transport_rdma_zc.cpp:321`, `:363`), so the ends are out of step from then
  on; `ZcExact` promises nothing from the first failed message on.
* A connector nobody has accepted when the accepting call fails waits as long as
  the listener is open: for P2P until the peer's `Finalize`, or until a later
  `AcceptP2pOne` takes it up (`planner.cpp:504`, `communicator.cpp:334`).
  `CallsReturn` is about every call but that one.
* `docs/layers/planner.md:33` gives P2P tasks channel 0 although receives use
  channel 1 (`include/planner.h:11`), so that P2P with `n_channels = 1` throws
  `std::out_of_range`.

### Not modelled

* Probing for RDMA devices, address resolution, socket options, CPU pinning,
  logging: I/O whose results are inputs here (`setup` of `Startup`).
* Closing an established RDMA connection, and the blocking socket calls of
  `TransportTCP`, which are the kernel's.
* In `Startup`: an accept or a handshake that fails (modelled per listener in
  `Connections`), failing sockets during the bootstrap, and `Init` with one rank.
* In the executors of `Executors`: the wait mode `Run` sets (a batch's mode in
  `ShmRing` and `RdmaRing`), `progressed` and `sched_yield`, `Shutdown` between
  two `Run`s, which only closes descriptors.
* Overflow of `size_t` and the size limit of zero-copy RDMA (in `Planner`, and
  `IsTransferSizeSupported` in `TransportRDMAZc`).
* Tree and ring tasks in turns on one channel (`planner.cpp:260-262`):
  `Topologies` has sequences of tasks of one topology.  Dynamic slices on a tree
  topology: `DynamicExecutor` has the ring's edges.
* Failures in `RdmaRing` (a failed call there leaves the endpoint as the
  zero-copy one does, in slots of its own and not in the caller's buffer).  On
  the zero-copy path: the error state of a queue pair after a SEND longer than
  its RECV (nothing more is executed then), and a batch of 16 completions in
  `PollCompletionQueue` counts as all there are.
* In `Executors`, what a transport has handed to a card: `CleanReturn` is about
  edges, workers and jobs, and not about zero-copy requests still posted after a
  failed `Run` (observation `ZcAbort`).
* Pages behind a cached RDMA registration: a caller that frees and reallocates a
  buffer at the same address between two calls is the driver's matter.

## 4. Proofs

`tlapm <module>.tla` checks each of the following modules, for every value of
the constants that satisfies the named assumption.  The assumptions are those of
the modelled code: positive sizes, a receive pool larger than the number of
slots, well-formed plans; TLC evaluates each on the instance of its run.

| module, assumption | theorem | statement |
|---|---|---|
| `ShmRingProofs`, `ShmAssumption` | `TypeCorrect` | `Spec => []TypeOK` |
| | `RingAlwaysSafe` | `Spec => []RingSafe`, from `CursorsAlwaysConservative`, `StreamInOrder`, `RaceFree` |
| | `ShmImplementsChannel` | `Spec => ImplementsChannel` |
| | `WakeupsNotLost` | `SettledPlans` implies `Spec => []NoLostWakeup` |
| `RdmaTransportsProofs`, `RdmaAssumption` | `CreditsConserved` | `PathSpec => []CreditConserved` |
| | `SlotsAlwaysReady` | `PathSpec => []SlotsReady` |
| | `WakeupsKept` | `PathSpec => []NoLostWakeup` |
| | `RdmaImplementsChannel` | `PathSpec => ImplementsChannel` |
| the same, `ZcAssumption` | `BuffersOwned` | `PathSpec => []BufferOwned`, for any number of failures |
| | `ChunksExact` | `PathSpec => []ZcExact`, up to the first message that fails |
| `ConnectionsProofs`, `ConnectionsAssumption` | `EndsAgree` | `Spec => []SameOutcome` |
| | `OnlyTornRingsLeak` | `Spec => []NoLeak` (what came in part excepted) |
| `ExecutorsProofs`, `TaskEdgesAssumption` and `ExecutorsAssumption` | `TaskHasOneOwner` | `Spec => []OneOwner` |
| | `NoEventLost` | `Spec => []NoLostEvent` |
| | `RunLeavesNothing` | `Spec => []CleanReturn` |
| | `StreamsAligned` | `Spec => []Aligned` |
| `WorkerPoolProofs`, `PoolAssumption` | `PlanNeverDangles` | `Spec => []PlanAlive` |
| | `EachBatchOnce` | `Spec => []BatchOnce` |
| | `RunTellsTheTruth` | `Spec => []ResultFaithful` |
| | `NobodySleepsOverWork` | `Spec => []WakeInv` (safety part of "no lost wake-up"; no run's property) |
| `DynamicExecutorProofs`, `DynamicAssumption` | `SlicesExecutedOnce` | `Spec => []SlicesOnce` |
| | `FramingKept` | `Spec => []EdgesFramed` |
| `StartupProofs`, `StartupAssumption` | `ViewsAgree` | `Spec => []CommonView` |
| | `EndsFit` | `Spec => []WiredAlike` (half of `EdgesMeet`, whatever fails) |
| | `EveryEdgeMeets` | `MaxFaults < Retries` implies `Spec => []EdgesMeet` |

Every module but `ShmRingProofs` also has a theorem `...Invariant` that its
inductive invariant (`IInv`; `ZcInv` for the zero-copy path) holds in every
reachable state; the theorems above follow from it.  Each invariant was first
checked by TLC on the instance of the module's run.  Each is a conjunction of
named parts, and each action has a lemma that it preserves them.

### The inductive invariants

**ShmRing.**  `IInv` adds to `TypeOK` and `CursorsConservative`:

* `ChunkInv`: a chunk in flight is positive, within its batch, and does not
  cross the ring's end;
* `RingInv`: every byte between `tail` and `head` (and the chunk just copied) is
  at its offset in `ring`;
* `ReceivedInv`: `received` is the stream up to `tail` (or to the chunk just
  copied out);
* `BatchInv`: progress and cursors agree with the batch each side is in.

`InOrder` alone is not inductive: that the next byte read is right depends on
`RingInv`, and that a copy into the ring spares the unread bytes depends on the
cached cursors being conservative.  The arithmetic rests on a few lemmas about
`%`: two stream positions less than `Capacity` apart have different offsets
(`ModUnique`, `CopyMissesOlder`).  `ShmImplementsChannel` maps a publish to
`Put`, a copy-out to `Get` and all else to stuttering.  `WakeupsNotLost` needs
`WakeInv`, which follows an endpoint from its failed look at the cursor through
drain and re-check to parking; its assumption `SettledPlans` (no event-driven
batch after a polling one) is exactly what finding 1 violates.

**RdmaRing.**  The theorems are about `PathSpec`, under which a behaviour has
the ring or the zero-copy path; on the variables of the ring it takes only steps
of `RdmaRing` and stuttering ones (`RingOfPath`).  Credits are conserved only
because both ends count the same things.  `CountInv` says what the counters
count: the slots between the tail the sender knows and `send_seq` are those in
the wire, in the receiver's queue and unread, those consumed and held back,
those in a credit under way and those in a credit not yet polled; the sums are
`Weight`s of the queues (`Totals`). `FlightInv` says that the writes under way
carry consecutive numbers in order, completions before requests; `SlotInv`, that
a slot keeps its bytes on the sender's side while its write is pending and on
the receiver's until it is read, which is why ignored write completions do no
harm; `StreamInv` and `ReceivedInv`, that the unread slots in order continue
what was received; `EntryInv`, `ControlInv` and `KindInv`, that every request
finds an entry and each end sends the completions the other expects; `CallInv`,
how far each end is in its message. `WakeInv` (kept apart, it needs nothing
else) follows an endpoint through drain, re-arm and poll.  The refinement maps
the posting of writes to `Put` and the copy out of a slot to `Get`.

**RdmaTransports.**  No zero-copy message says which transfer it belongs to, so
what keeps the two ends together is a count, and a failure ends it for the
message it hits and those behind it, at both ends: what the other end posts from
then on may meet what was left behind.  `ZcInv` therefore has two layers.  What
an end knows by itself holds whatever has failed: `Counted` (the window is kept,
and no more is posted than the region has chunks), `Behind` (what failed lies
behind the message the end is at) and, for an end whose counters still agree
with the card, `Whole`: the requests not executed are the last ones posted, each
in the region registered and for a message the end is at or has failed at
(`Queued`), and every completion to come is of a request posted and not yet
counted (`Accounted`).  What needs both ends holds for a message before the
first failure (`Settled`): `AtMessage` says that the transfer begun is that of
the end's message, `Executed` that the chunks in the receiver's buffer are as
many as each end has posted and the card has taken, `Pieces` that they are the
right ones.  `BufferOwned` follows from the first layer, which is why it
survives failures; `ZcExact` needs the second.  `Whole` leaves out an end that
has posted a chain in part (`torn`).  `ZcTypes` is the range of the variables.
The theorems are about `PathSpec`, which is either path; for the ring path the
properties hold since the zero-copy state never leaves its start.

**Connections.**  For shared memory: `CountInv` (on an open connection what was
sent is what was taken and what is under way), `FreshInv` (nobody knows a ring
whose attempt has not connected), `QueueInv` and `ServeInv` (which connection
the accepting thread is serving and which wait), `HeldInv` (a connector past
`CreateRing` has all three descriptors), `DirInv`, `ServedInv`, `AckInv` (a
direction, a filed ring, an acknowledgement belong to the connector's present
attempt, and a filed ring came whole).  For RDMA: `Stage`, which for each
connection lists the combinations of the two ends' positions, the events under
way and the queue pairs' state that can occur; a step changes the stage of one
connection (`OnlyAt`), except the one that closes the listener and rejects all
that wait.  The set of connections must be finite, as the backlog is counted.

**Executors.**  `IInv` is the invariant of whichever executor is at work.
*Epoll*: `EpollCounts` (`active` counts the channels with a task), `EpollProgress`
(where `Run` is agrees with the tasks), `EpollAnnounced` (a side that could move
has its edge in the ready list or among the events being handled, or the channel
is being stepped).  *Polling*: `PollingProgress`.  *Reactor*: `ReactorOwned` (a
current task is in one of the queue, the workers' hands, the completions, the
watched set; `Parted` says these are disjoint and duplicate-free),
`ReactorCounts` (`in_flight` and `active` count them), `ReactorProgress`,
`ReactorWoken` (a completion not taken has raised or is about to raise the
notification).  `Aligned` has an invariant of its own on top (`AInv`): `Standing`
says of every channel, in each executor alike, that what it has sent and read is
the sum of the phases it has behind it and of the part of its phase that is
done.  The sum is a cardinality (`Blocks`), so that passing a phase adds that
phase's units; a channel between two tasks stands at the end of the one before
(`DoneIdle`).

**WorkerPool.**  `PoolInv`: a thread exists exactly below `workers_.size()` and
leaves its loop only while `StopWorkers` joins.  `IdInv`: between two batches
every worker has finished the last published one; this is why publishing a batch
by incrementing a number makes every worker owe exactly one report, also those
just started and those without a channel in the plan.  `ReportsCounted`: the
missing reports are the workers that have not reported.  `WorkInv` and
`OncePerTask`: a worker's position against the history of executed tasks.
`ResultInv` and `AllFaithful`: `batch_success_` against the outcomes so far.

**DynamicExecutor.**  Everything is stated over the list `claims[c]` of a
channel's tasks.  `List`: the list consists of proper entries, in the order of
the plans, each plan closed by its END (`InPlanOrder`), each batch message
followed by the slices it names (`InBatches`).  `Placed`: what a rank has
executed is a beginning of the list (`Begins`), it has passed the ENDs of the
plans it has returned from and no other (`Between`), its worker's position,
message and index agree with the next entry (`At`), and rank 0 claims only at the
end of its list (`Leads`).  `Carried`: an edge holds, in order, exactly the
entries its sender has sent and its receiver has not received.  `Shared`: over all
channels no slice is in the lists twice, and those of earlier plans, and of the
present one up to `next_slice_`, are all there.  `Agreement` is `Begins` twice;
`Framed` needs all of it: the head of an edge is the receiver's next task
because both ends skip exactly the entries in which that edge is not used.

**Startup.**  `BootInv` follows the list of nodes: every worker is once in the
backlog or among rank 0's sockets, in the order in which it was accepted; rank 0
fills the list place by place and shares it whole.  Hence whoever decides has the
same list (`CommonView`).  `WireInv` ties the threads of `InitChannels` to their
edges.  A connection exists for exactly the active edges begun (`ConnsOK`), a
connector has its transport for exactly the active edges finished and the
handshakes received (`WiresOK`), and `owed` is the number of passive edges
without one (`AcceptOK`); `Listeners` says which are open at each point of
`Init`.  That the two ends fit is then a fact about edges alone: with one list,
if `r` has an edge to `p`, then `p` has the mirrored one to `r` (`Mirrored`, for
the ring, the star of the leaders, and the tree on even and odd channels).  `EndsFit`
needs nothing more.  The other half of `EdgesMeet`, that a connect always finds
the listener open, is false once a rank may give up: it closes its listeners
while others still knock.  Hence the hypothesis `MaxFaults < Retries` of
`EveryEdgeMeets`, which the run satisfies (fewer attempts fail, over the whole
start-up, than one edge may make; `StartupRetries` shows the other case): with it
no rank gives up (`NoneGivesUp`), and a rank cannot have ended well either, as it
still waits for this edge.

### What stays model-checked

* *Liveness* (`Completes` of every module, `PathCompletes`, `CallsReturn`):
  TLAPS 1.4.5 does not reason about fairness or `ENABLED`.
* *`RingCollective`, `TreeAllReduce`, `Topologies`* (`Correct`, `NoAliasing`,
  `CallPending`): the handlers contain loops written as `RECURSIVE` operators,
  and their results need induction over data, which is out of the provers' reach.
* *`Communicator`* in `Batches` (`SlicesTile`, `PlansAgree`, `BatchesWhole`): slicing and
  sorting are folds over a batch of any length (`FoldLeft`, `SelectSeq` and
  `SetToSortSeq` in `Planner`), so these too are inductions over data.
* *`P2pExchange`* in `Batches` (`WiredOnce`, `Delivered`): built on the same lists of
  `Planner`; not proved.

## 5. Plan

Every component of section 1 has a module.  What is left is to prove more:

1. `P2pExchange`: `WiredOnce`, after its rounds and sorted lists are expressed
   without `SelectSeq` and `SetToSortSeq`, which the provers cannot expand
   (`Ordered` shows the form, `Startup` its use).
2. `Communicator`: `PlansAgree` and `BatchesWhole`, from the sorted list as a
   function of the set of tasks; `SlicesTile` needs the slices of a task in a
   form whose sum is a `Total`.

Where a fact about all naturals is needed, the least counterexample (from
`WellFoundedInduction`, without its induction rule) replaces an induction.
