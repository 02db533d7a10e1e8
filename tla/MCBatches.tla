------------------------------- MODULE MCBatches ------------------------------
(* Three ranks and short programs: of calls for Communicator, of batches of   *)
(* messages for P2pExchange.                                                  *)
EXTENDS Batches

Ranks == 0 .. WorldSize - 1

T(id, func, count, dtype, op, root, peer) ==
  [id |-> id, func |-> func, count |-> count, dtype |-> dtype, op |-> op, root |-> root, peer |-> peer,
   sendBuf |-> TRUE, recvBuf |-> func # Reduce]

GroupOf(ts) == <<[op |-> "GroupStart"]>> \o [i \in DOMAIN ts |-> [op |-> "Submit", task |-> ts[i]]] \o <<[op |-> "GroupEnd"]>>
Single(t) == <<[op |-> "Submit", task |-> t]>>

\* Collectives on both sides of every boundary of the slicing: below and
\* above the tree threshold, with and without a partial unit, empty.  The
\* fields a collective ignores differ from rank to rank (x).
Mixed(x) ==
  <<T(1, AllReduce, 21, 0, 3, x, -1), T(2, AllReduce, 3, 2, 0, x, -1),
    T(3, Broadcast, 7, 1, x, 1, -1), T(4, Broadcast, 7, 1, x, 0, -1), T(5, AllGather, 0, 3, x, x, -1)>>

\* Two tasks with the same key, and tasks that differ in one key field.
Twins(x) == <<T(1, ReduceScatter, 6, 0, 1, x, -1), T(2, ReduceScatter, 6, 0, 1, 2 - x, -1),
              T(3, ReduceScatter, 6, 2, 1, x, -1), T(4, ReduceScatter, 3, 1, 1, x, -1)>>

Permuted(s, p) == [i \in DOMAIN s |-> s[p[i]]]

\* Some orders of Mixed, and some of Twins that keep the twins in order.
MixedOrders == { <<1, 2, 3, 4, 5>>, <<5, 4, 3, 2, 1>>, <<3, 1, 4, 5, 2>>, <<4, 3, 5, 1, 2>> }
TwinsOrders == { <<1, 2, 3, 4>>, <<4, 3, 1, 2>>, <<1, 4, 2, 3>> }

\* Every rank sends a message of each length to both others, in
\* an order of its own; a collective stands between them, in a nested group.
\* Each pair's messages keep their order: lengths 1 then 2.
Left(r) == (r + 2) % 3
Right(r) == (r + 1) % 3
P2pTasks(r) ==
  <<T(1, Send, 1, 0, 0, 0, Left(r)), T(2, Send, 1, 0, 0, 0, Right(r)), T(3, Send, 2, 0, 0, 0, Left(r)),
    T(4, Recv, 1, 0, 0, 0, Left(r)), T(5, Recv, 1, 0, 0, 0, Right(r)), T(6, Recv, 2, 0, 0, 0, Right(r)),
    T(7, AllReduce, 9, 0, 0, 0, -1)>>

Submits(ts) == [i \in DOMAIN ts |-> [op |-> "Submit", task |-> ts[i]]]
Nested(ts) ==
  <<[op |-> "GroupStart"]>> \o Submits(SubSeq(ts, 1, 2)) \o <<[op |-> "GroupStart"]>>
    \o Submits(SubSeq(ts, 3, Len(ts))) \o <<[op |-> "GroupEnd"], [op |-> "GroupEnd"]>>

\* Rotations keep the messages of one pair in order when they split no pair.
Shuffles == { <<1, 2, 3, 4, 5, 6, 7>>, <<7, 5, 4, 6, 2, 1, 3>>, <<4, 1, 5, 7, 3, 6, 2>> }

\* Calls that are refused: a GroupEnd without a group, a collective with a
\* bad root, a batch with a bad peer or without its buffer.
BadPeer == T(8, Send, 1, 0, 0, 0, 3)
NoBuffer == [T(8, Send, 1, 0, 0, 0, 1) EXCEPT !.sendBuf = FALSE]
BadRoot == T(9, Broadcast, 1, 0, 0, 3, -1)
Refused(bad) ==
  <<[op |-> "GroupEnd"], [op |-> "GroupStart"], [op |-> "Submit", task |-> BadRoot],
    [op |-> "Submit", task |-> T(1, AllReduce, 1, 0, 0, 0, -1)], [op |-> "Submit", task |-> bad],
    [op |-> "GroupEnd"], [op |-> "Submit", task |-> T(2, AllReduce, 1, 0, 0, 0, -1)], [op |-> "Finalize"]>>

CollectivePrograms ==
  {[r \in Ranks |-> GroupOf(Permuted(Mixed(r), <<p, q, <<1, 2, 3, 4, 5>> >>[r + 1]))] : p, q \in MixedOrders}
  \cup {[r \in Ranks |-> GroupOf(Permuted(Twins(r), <<p, q, <<1, 2, 3, 4>> >>[r + 1]))] : p, q \in TwinsOrders}
  \cup {[r \in Ranks |-> Single(T(1, AllReduce, c, 0, 3, r, -1))] : c \in 0 .. 24}

P2pPrograms ==
  {[r \in Ranks |-> Nested(Permuted(P2pTasks(r), <<p, q, <<7, 5, 4, 6, 2, 1, 3>> >>[r + 1]))] : p, q \in Shuffles}

Unfinished == <<[op |-> "GroupStart"], [op |-> "Submit", task |-> T(1, AllReduce, 1, 0, 0, 0, -1)], [op |-> "Finalize"]>>

\* A message between two of the three ranks in a group of collectives: rank 2
\* has no part in it.
Bystander(r) == CASE r = 0 -> <<T(6, Send, 2, 0, 0, 0, 1)>> [] r = 1 -> <<T(6, Recv, 2, 0, 0, 0, 0)>> [] OTHER -> << >>
PartialPrograms ==
  {[r \in Ranks |-> GroupOf(Bystander(r) \o Permuted(Mixed(r), <<p, <<3, 1, 4, 5, 2>>, <<1, 2, 3, 4, 5>> >>[r + 1]))] :
     p \in MixedOrders}

MCCallPrograms ==
  CollectivePrograms \cup P2pPrograms \cup PartialPrograms
  \cup {[r \in Ranks |-> IF r = 0 THEN Refused(bad) ELSE Unfinished] : bad \in {BadPeer, NoBuffer}}
-----------------------------------------------------------------------------
(* Batches of messages *)

Message(id, func, peer, count) ==
  [id |-> id, func |-> func, peer |-> peer, count |-> count, dtype |-> 0, op |-> 0, root |-> 0,
   sendBuf |-> TRUE, recvBuf |-> TRUE]
Out(id, peer, count) == Message(id, Send, peer, count)
In(id, peer, count) == Message(id, Recv, peer, count)

\* Everyone to everyone in one batch, submitted in orders that would be
\* circular if they were executed as they stand.
AllToAll ==
  << << <<Out("01", 1, 2), Out("02", 2, 1), In("10", 1, 1), In("20", 2, 1)>> >>,
     << <<Out("12", 2, 1), Out("10", 0, 1), In("01", 0, 2), In("21", 2, 1)>> >>,
     << <<In("02", 0, 1), In("12", 1, 1), Out("20", 0, 1), Out("21", 1, 1)>> >> >>

\* A chain over two batches, with an empty message and a connection reused:
\* rank 0 may be in its second batch before rank 2 has begun its first.
Chain ==
  << << <<Out("a", 1, 1), Out("e", 2, 0)>>, <<Out("b", 1, 1), Out("c", 1, 2), Out("f", 2, 1)>> >>,
     << <<In("a", 0, 1), Out("d", 2, 1)>>, <<In("b", 0, 1), In("c", 0, 2)>> >>,
     << <<In("d", 1, 1), In("e", 0, 0)>>, <<In("f", 0, 1)>> >> >>

AsProgram(p) == [r \in Ranks |-> p[r + 1]]

\* Two ranks that send to each other.
Swap == << << <<Out("01", 1, 1), In("10", 1, 1)>> >>, << <<Out("10", 0, 1), In("01", 0, 1)>> >> >>

SwapPrograms == {AsProgram(Swap)}

NoPrograms == {}

MCBatchPrograms == {AsProgram(AllToAll), AsProgram(Chain)}
=============================================================================
