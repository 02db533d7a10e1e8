----------------------------- MODULE ByteChannel -----------------------------
(***************************************************************************)
(* What a data-plane Transport promises its two users: a bounded, lossless *)
(* FIFO of bytes in one direction.  Bytes are named by their position in   *)
(* the stream (0, 1, 2, ...), so the receiver got the right bytes exactly  *)
(* when its k-th byte is k - 1.                                            *)
(*                                                                         *)
(* This is the abstract specification TransportShm is shown to implement   *)
(* (module ShmRing), and the edge the collectives are modelled over.       *)
(***************************************************************************)
EXTENDS Integers, Sequences

CONSTANT Capacity   \* the most bytes sent and not yet received

VARIABLES
  sent,       \* how many bytes TrySend has put into the channel
  received    \* the bytes TryRecv has handed to its caller, in order

channelVars == <<sent, received>>

ChannelInit ==
  /\ sent = 0
  /\ received = << >>

\* The n bytes of the stream that follow the first k.
StreamSlice(k, n) == [i \in 1..n |-> k + i - 1]

\* TrySend advances its progress by n bytes.
Put(n) ==
  /\ n > 0
  /\ sent + n - Len(received) <= Capacity
  /\ sent' = sent + n
  /\ UNCHANGED received

\* TryRecv advances its progress by n bytes.
Get(n) ==
  /\ n > 0
  /\ Len(received) + n <= sent
  /\ received' = received \o StreamSlice(Len(received), n)
  /\ UNCHANGED sent

ChannelNext == \E n \in 1..Capacity : Put(n) \/ Get(n)

ChannelSpec == ChannelInit /\ [][ChannelNext]_channelVars
=============================================================================
