----------------------------- MODULE MCWorkerPool -----------------------------
(* Short call sequences for WorkerPool.                                      *)
EXTENDS WorkerPool

Run(tasks) == [op |-> "Run", tasks |-> tasks]
Shutdown == [op |-> "Shutdown", tasks |-> << >>]

\* Growing and shrinking plans, empty channels, an empty plan, a Shutdown
\* between two Runs (the pool starts again with an old batch_id_).
MCScripts ==
  { <<Run(<<2>>), Run(<<1, 1>>), Run(<<1>>)>>,
    <<Run(<<1, 0>>), Run(<< >>), Run(<<0, 1>>), Shutdown>>,
    <<Run(<<1, 1>>), Shutdown, Run(<<1, 1>>)>>,
    <<Shutdown, Run(<<1, 1, 1>>), Run(<<1>>)>> }
=============================================================================
