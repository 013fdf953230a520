------------------------------- MODULE Topology -------------------------------
(***************************************************************************)
(* Which threads each process of a cluster launches (Trainer::Start,       *)
(* src/trainer/trainer.cc, over utils/cluster.cc) and where a message goes *)
(* (ProcsIDOf and Trainer::Run).  Both are integer arithmetic on the same  *)
(* six numbers of the configuration and have to agree.                     *)
(*                                                                         *)
(* Every layer of a net has locationid 0, so of each worker group only     *)
(* worker 0 has parameters to ask for.  The order of messages is left to   *)
(* the other modules: here a pipe is a set.                                *)
(***************************************************************************)
EXTENDS Integers, FiniteSets

CONSTANTS
  Shapes,   \* the cluster configurations to start
  Params    \* the parameters of the net, by id

Shape ==
  [nworker_groups : Nat \ {0}, nserver_groups : Nat \ {0},
   nworkers_per_group : Nat \ {0}, nservers_per_group : Nat \ {0},
   nworkers_per_procs : Nat \ {0}, nservers_per_procs : Nat \ {0},
   server_worker_separate : BOOLEAN]

ASSUME TopologyAssumption ==
  /\ Shapes \subseteq Shape
  /\ Params \subseteq Nat

VARIABLES
  c,         \* ClusterProto
  started,   \* processes that run
  died,      \* processes a failed CHECK or a division by zero ended
  asked,     \* <<process, group>>: a worker has sent the updates of a step
  answered,  \* <<process, group, parameter>>: answers a worker has received
  shard,     \* <<process, parameter>>: what the process's servers hold
  inbox,     \* <<process, message>>: read by the process's stub in some order
  pipe,      \* <<process, message>>: on its way from the stub to a thread
  stuck      \* <<process, message>>: sent to another process by a stub

vars == <<c, started, died, asked, answered, shard, inbox, pipe, stuck>>

----------------------------------------------------------------------------
(* Cluster *)

NWorkerProcs(k) == (k.nworker_groups * k.nworkers_per_group) \div k.nworkers_per_procs

NServerProcs(k) == (k.nserver_groups * k.nservers_per_group) \div k.nservers_per_procs

NProcs(k) ==
  IF k.server_worker_separate THEN NWorkerProcs(k) + NServerProcs(k)
  ELSE IF NWorkerProcs(k) > NServerProcs(k) THEN NWorkerProcs(k) ELSE NServerProcs(k)

HasServer(k, pid) ==
  IF k.server_worker_separate THEN pid >= NWorkerProcs(k) ELSE pid < NServerProcs(k)

HasWorker(k, pid) ==
  IF k.server_worker_separate THEN pid < NWorkerProcs(k) ELSE pid < NProcs(k)

PerServerGroup(k) == k.nworker_groups \div k.nserver_groups

----------------------------------------------------------------------------
(* Threads, as <<flag, group, id>> *)

\* Trainer::Start: a process takes a share of one server group, and launches
\* a group's worth of ids from there on.
ServersOf(k, procs_id) ==
  LET pid   == procs_id - (IF k.server_worker_separate THEN NWorkerProcs(k) ELSE 0)
      gid   == (pid * k.nservers_per_procs) \div k.nservers_per_group
      start == (pid * k.nservers_per_procs) % k.nservers_per_group
  IN {<<"server", gid, id>> : id \in start .. start + k.nservers_per_group - 1}

\* A worker group of one process or more.
Spread(k) == k.nworkers_per_group >= k.nworkers_per_procs

WorkerGroupsOf(k, pid) ==
  LET first == (pid * k.nworkers_per_procs) \div k.nworkers_per_group
      n     == k.nworkers_per_procs \div k.nworkers_per_group
  IN IF Spread(k) THEN {first} ELSE (pid * n) .. ((pid + 1) * n - 1)

\* Mutation: a process always starts at the group's first worker.
FromTheFirst(k, pid) == 0

FirstWorker(k, pid) ==
  IF Spread(k) THEN (pid * k.nworkers_per_procs) % k.nworkers_per_group ELSE 0

WorkersOf(k, pid) ==
  {<<"worker", gid, FirstWorker(k, pid) + i>> :
      gid \in WorkerGroupsOf(k, pid), i \in 0 .. k.nworkers_per_group - 1}

ThreadsOf(k, pid) ==
  (IF HasServer(k, pid) THEN ServersOf(k, pid) ELSE {}) \cup
  (IF HasWorker(k, pid) THEN WorkersOf(k, pid) ELSE {})

\* Mutation: the worker processes in front are not counted.
ServerProcsFromZero(k, gid, id) ==
  (gid * k.nservers_per_group) \div k.nservers_per_procs + id \div k.nservers_per_procs

ServerProcs(k, gid, id) ==
  (gid * k.nservers_per_group) \div k.nservers_per_procs + id \div k.nservers_per_procs
    + (IF k.server_worker_separate THEN NWorkerProcs(k) ELSE 0)

WorkerProcs(k, gid, id) ==
  (gid * k.nworkers_per_group) \div k.nworkers_per_procs
    + (IF k.nworkers_per_group > k.nworkers_per_procs
       THEN id \div k.nworkers_per_procs ELSE 0)

ProcsIDOf(k, a) ==
  IF a[1] = "server" THEN ServerProcs(k, a[2], a[3]) ELSE WorkerProcs(k, a[2], a[3])

----------------------------------------------------------------------------
(* Messages *)

\* Mutation: sharded over one server too many.
ShardingOverOne(k, p) == p % (k.nservers_per_group + 1)

Sharding(k, p) == p % k.nservers_per_group

\* The server a group's parameter lives on (PMWorker::Put, PMWorker::Update).
ServerFor(k, g, p) == <<"server", g \div PerServerGroup(k), Sharding(k, p)>>

Request(k, type, g, p) ==
  [type |-> type, src |-> <<"worker", g, 0>>, dst |-> ServerFor(k, g, p), target |-> p]

Answer(m) == [type |-> "kRUpdate", src |-> m.dst, dst |-> m.src, target |-> m.target]

----------------------------------------------------------------------------

Init ==
  /\ c \in Shapes
  /\ started = {} /\ died = {}
  /\ asked = {} /\ answered = {} /\ shard = {}
  /\ inbox = {} /\ pipe = {} /\ stuck = {}

Alive(pid) == pid \in started \ died

\* Start's CHECK_EQ, and the division in PMWorker::Put for group 0.
StartFails(pid) ==
  /\ HasWorker(c, pid)
  /\ \/ ~ Spread(c) /\ c.nworkers_per_procs % c.nworkers_per_group # 0
     \/ <<"worker", 0, 0>> \in WorkersOf(c, pid) /\ PerServerGroup(c) = 0

\* Trainer::Start: the threads, and the Puts of the first group's worker 0.
Start(pid) ==
  /\ pid \in 0 .. NProcs(c) - 1
  /\ pid \notin started
  /\ started' = started \cup {pid}
  /\ IF StartFails(pid)
     THEN /\ died' = died \cup {pid}
          /\ UNCHANGED inbox
     ELSE /\ inbox' = inbox \cup
               {<<pid, Request(c, "kPut", 0, p)>> :
                  p \in {q \in Params : <<"worker", 0, 0>> \in ThreadsOf(c, pid)}}
          /\ UNCHANGED died
  /\ UNCHANGED <<c, asked, answered, shard, pipe, stuck>>

\* BPWorker::Backward in worker 0 of group g, once: an update of every
\* parameter.  One step is enough here.
Backward(pid, g) ==
  /\ Alive(pid)
  /\ <<"worker", g, 0>> \in ThreadsOf(c, pid)
  /\ <<pid, g>> \notin asked
  /\ asked' = asked \cup {<<pid, g>>}
  /\ IF PerServerGroup(c) = 0
     THEN /\ died' = died \cup {pid}
          /\ UNCHANGED inbox
     ELSE /\ inbox' = inbox \cup {<<pid, Request(c, "kUpdate", g, p)>> : p \in Params}
          /\ UNCHANGED died
  /\ UNCHANGED <<c, started, answered, shard, pipe, stuck>>

\* The dealer the stub makes for another process is never connected, and a
\* ZeroMQ DEALER without a peer blocks its sender.
StubFree(pid) == Alive(pid) /\ \A x \in stuck : x[1] # pid

\* Trainer::Run, the default branch.
Route(pid, type) ==
  /\ StubFree(pid)
  /\ \E x \in inbox :
       /\ x[1] = pid
       /\ x[2].type = type
       /\ inbox' = inbox \ {x}
       /\ IF ProcsIDOf(c, x[2].dst) = pid
          THEN pipe' = pipe \cup {x} /\ UNCHANGED stuck
          ELSE stuck' = stuck \cup {x} /\ UNCHANGED pipe
  /\ UNCHANGED <<c, started, died, asked, answered, shard>>

\* Thread x[2].dst of process pid receives: a thread that was not launched
\* never does, and the router keeps the message.
Receives(pid, x, types) ==
  /\ Alive(pid)
  /\ x \in pipe
  /\ x[1] = pid
  /\ x[2].type \in types
  /\ x[2].dst \in ThreadsOf(c, pid)
  /\ pipe' = pipe \ {x}

\* PMServer::HandlePut.  The servers of a process share one shard.
HandlePut(pid) ==
  /\ \E x \in pipe :
       /\ Receives(pid, x, {"kPut"})
       /\ shard' = shard \cup {<<pid, x[2].target>>}
  /\ UNCHANGED <<c, started, died, asked, answered, inbox, stuck>>

\* PMServer::HandleUpdate: an update of a parameter the shard does not have
\* goes back to the stub.
HandleUpdate(pid) ==
  /\ \E x \in pipe :
       /\ Receives(pid, x, {"kUpdate"})
       /\ inbox' = inbox \cup
            {IF <<pid, x[2].target>> \in shard THEN <<pid, Answer(x[2])>> ELSE x}
  /\ UNCHANGED <<c, started, died, asked, answered, shard, stuck>>

\* PMWorker::Collect.
Collect(pid) ==
  /\ \E x \in pipe :
       /\ Receives(pid, x, {"kRUpdate"})
       /\ answered' = answered \cup {<<pid, x[2].dst[2], x[2].target>>}
  /\ UNCHANGED <<c, started, died, asked, shard, inbox, stuck>>

Types == {"kPut", "kUpdate", "kRUpdate"}

Next ==
  \E pid \in 0 .. NProcs(c) - 1 :
    \/ Start(pid)
    \/ \E g \in WorkerGroupsOf(c, pid) : Backward(pid, g)
    \/ \E type \in Types : Route(pid, type)
    \/ HandlePut(pid)
    \/ HandleUpdate(pid)
    \/ Collect(pid)

Spec == Init /\ [][Next]_vars

AllPids == UNION {0 .. NProcs(k) - 1 : k \in Shapes}

\* Every process is started and its threads are scheduled.  The pipes are
\* FIFO and the ROUTER fair-queues them, so that among bouncing updates a Put
\* is routed and handled as well.
FairSpec ==
  /\ Spec
  /\ \A pid \in AllPids :
       /\ WF_vars(pid < NProcs(c) /\ Start(pid))
       /\ WF_vars(\E g \in WorkerGroupsOf(c, pid) : Backward(pid, g))
       /\ \A type \in Types : SF_vars(Route(pid, type))
       /\ WF_vars(HandlePut(pid)) /\ WF_vars(HandleUpdate(pid)) /\ WF_vars(Collect(pid))
----------------------------------------------------------------------------

Divides(a, b) == b % a = 0

\* The configurations Start and ProcsIDOf were written for: a server group
\* fills its processes, a process is filled by one worker group or by whole
\* ones, worker groups are dealt evenly to server groups, and no process
\* has only servers without being asked to.
Regular(k) ==
  /\ Divides(k.nservers_per_procs, k.nservers_per_group)
  /\ Divides(k.nserver_groups, k.nworker_groups)
  /\ \/ Divides(k.nworkers_per_procs, k.nworkers_per_group)
     \/ Divides(k.nworkers_per_group, k.nworkers_per_procs)
  /\ Divides(k.nworkers_per_procs, k.nworker_groups * k.nworkers_per_group)
  /\ k.server_worker_separate \/ NServerProcs(k) <= NWorkerProcs(k)

\* In a regular cluster every message under way is for a thread that the
\* process ProcsIDOf names exists to launch: the ranges of Trainer::Start and
\* the divisions of ProcsIDOf agree.
RoutedWhereLaunched ==
  Regular(c) =>
    \A x \in inbox \cup pipe \cup stuck :
      LET q == ProcsIDOf(c, x[2].dst) IN
        q \in 0 .. NProcs(c) - 1 /\ x[2].dst \in ThreadsOf(c, q)

\* In every cluster, regular or not, no group's net is trained by the
\* workers of two processes at once: its gradients are sent once.
OneTrainer ==
  \A x, y \in asked : x[2] = y[2] => x = y

\* In a regular cluster of one process every group has each of its updates
\* answered by a server.
ServedInOneProcess ==
  (Regular(c) /\ NProcs(c) = 1) ~>
    ({<<x[2], x[3]>> : x \in answered} = (0 .. c.nworker_groups - 1) \X Params)

\* "The main thread runs a loop to forward messages between workers and
\* servers" (include/trainer/trainer.h:20): the same for a regular cluster of
\* any number of processes.
ServedInEveryCluster ==
  Regular(c) ~>
    ({<<x[2], x[3]>> : x \in answered} = (0 .. c.nworker_groups - 1) \X Params)
=============================================================================
