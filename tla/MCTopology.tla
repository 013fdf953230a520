------------------------------ MODULE MCTopology ------------------------------
\* Instances of Topology for TLC.
EXTENDS Topology

ShapesUpTo(n) ==
  [nworker_groups : 1 .. n, nserver_groups : 1 .. n,
   nworkers_per_group : 1 .. n, nservers_per_group : 1 .. n,
   nworkers_per_procs : 1 .. n, nservers_per_procs : 1 .. n,
   server_worker_separate : BOOLEAN]

\* Regular or not, with at most two processes.
MCShapes == {k \in ShapesUpTo(3) : NProcs(k) <= 2}

\* A parameter that is not on the first server where there are two.
MCParams == {1}

\* Two worker groups with a process each; the servers in the first.
MCTwoProcesses ==
  {[nworker_groups |-> 2, nserver_groups |-> 1,
    nworkers_per_group |-> 1, nservers_per_group |-> 1,
    nworkers_per_procs |-> 1, nservers_per_procs |-> 1,
    server_worker_separate |-> FALSE]}
=============================================================================
