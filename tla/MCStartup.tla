------------------------------ MODULE MCStartup ------------------------------
EXTENDS Startup

Setup(host, rdma, shm) ==
  [host |-> host, rdma |-> rdma, shm |-> shm]

Pair  == [r \in Ranks |-> IF r < 2 THEN 0 ELSE 1]
Apart == [r \in Ranks |-> r]

\* Two ranks share a machine, all can do RDMA; one machine each, and only
\* rank 1 can do RDMA.
MCSetups == {Setup(Pair, [r \in Ranks |-> TRUE], TRUE),
             Setup(Apart, [r \in Ranks |-> r = 1], FALSE)}

\* TCP alone, one machine each: for the run about exhausted retries.
TcpSetups == {Setup(Apart, [r \in Ranks |-> FALSE], FALSE)}
=============================================================================
