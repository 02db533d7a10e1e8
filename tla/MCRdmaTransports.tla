--------------------------- MODULE MCRdmaTransports ---------------------------
(* Small rings of slots, and short lists of zero-copy and ring messages.     *)
EXTENDS RdmaTransports, TLC

\* Messages of 3 and 5 bytes with slots of 2: five slots, so that a ring of
\* three wraps, the second message does not fit at once, and the last slot
\* of each message is short.
MCEnds == <<3, 8>>

\* An end waits for events throughout, or polls first and waits later.
Waits == <<"EventDriven", "EventDriven">>
Switches == <<"Polling", "EventDriven">>

\* The modes of the producer and of the consumer.
MCModes == { <<Waits, Waits>>, <<Switches, Waits>>, <<Switches, Switches>> }

MCPlans ==
  { [b \in 1 .. Len(MCEnds) |->
       [end |-> MCEnds[b], mode |-> (Producer :> m[1][b] @@ Consumer :> m[2][b])]] : m \in MCModes }

\* The names of RdmaZc's two ends.
ZcSender == "sender"
ZcReceiver == "receiver"

\* The peers were built with different chunk sizes and agree on the smaller.
MCZcChunk == ZcSender :> 2 @@ ZcReceiver :> 3

\* One message: a ring message (1 byte), one chunk, and more chunks than the
\* window, the last one short; the last two in one of two buffers of the
\* sender.
MCMessage(n, s) == [size |-> n, buf |-> (ZcSender :> s @@ ZcReceiver :> 1)]
MCFirst == { MCMessage(n, 1) : n \in {1, 2, 9} }
MCMessages == MCFirst \cup { MCMessage(n, 2) : n \in {2, 9} }

\* Three messages; the first one's buffer is called 1.
MCZcPlans == { <<a, b, c>> : a \in MCFirst, b \in MCMessages, c \in MCMessages }
=============================================================================
