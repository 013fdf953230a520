------------------------------ MODULE ParamServer ------------------------------
(***************************************************************************)
(* Training through the parameter servers of one process: the worker       *)
(* threads (src/trainer/worker.cc, pm_worker.cc), the server threads       *)
(* (server.cc, pm_server.cc, utils/param.cc) and the stub thread between   *)
(* them (trainer.cc over the Router).                                      *)
(*                                                                         *)
(* Group g has one worker with layers (NeuralNet's default group_size of 1 *)
(* gives every layer locationid 0).  Parameter p lives on server           *)
(* p % NServers.  Values are abstracted to what went into them: the        *)
(* initial value and the gradients <<g, s>> of group g at step s.          *)
(*                                                                         *)
(* Group 0 Puts every parameter before the threads start; nobody is told   *)
(* when a Put has arrived.  In a step a worker collects each parameter in  *)
(* turn until its version has reached the step, then sends one Update per  *)
(* parameter.  A server that does not hold the parameter yet sends the     *)
(* request back to the router, which routes it to the server again.        *)
(*                                                                         *)
(* Before a step that is due for it, group 0 runs validation and test      *)
(* passes over nets that share the values of its training net.  With       *)
(* ModelProto.hogwild the nets of the other groups share those values too, *)
(* and PMWorker's ParamCounter decides who sends their gradients.          *)
(***************************************************************************)
EXTENDS Integers, Sequences, FiniteSets

CONSTANTS
  NGroups,        \* worker groups
  NServers,       \* servers of the one server group
  NParams,        \* parameters, in the order of the layers that own them
  BackwardOrder,  \* the parameters in the order Backward sends updates
  FirstStep,      \* ModelProto.step
  TrainSteps,     \* ModelProto.train_steps
  Passes,         \* the validation and the test pass, as configured
  Hogwild,        \* ModelProto.hogwild
  BufSize,        \* the router's bufsize
  MaxSignals,     \* bound: signals that interrupt a blocked receive
  InitialValue, Nil

Groups  == 0 .. NGroups - 1
Params  == 0 .. NParams - 1
Steps   == FirstStep .. TrainSteps - 1

Worker(g) == <<"worker", g>>
Server(i) == <<"server", i>>
Stub      == <<"stub", 0>>

Workers == {Worker(g) : g \in Groups}
Servers == {Server(i) : i \in 0 .. NServers - 1}
Address == Workers \cup Servers

ASSUME Assumption ==
  /\ NGroups \in Nat \ {0}
  /\ NServers \in Nat \ {0}
  /\ NParams \in Nat \ {0}
  /\ FirstStep \in Nat
  /\ TrainSteps \in Nat
  /\ FirstStep < TrainSteps
  /\ BackwardOrder \in [1 .. NParams -> Params]
  /\ \A i, j \in 1 .. NParams : BackwardOrder[i] = BackwardOrder[j] => i = j
  /\ \A p \in Params : \E i \in 1 .. NParams : BackwardOrder[i] = p
  /\ Passes \subseteq [after : Nat, frequency : Nat, steps : Nat]
  /\ Hogwild \in BOOLEAN
  /\ BufSize \in Nat
  /\ MaxSignals \in Nat
  /\ InitialValue \notin Groups \X Nat
  /\ Nil \notin Address

VARIABLES
  up, down, id2addr, bufmsg, nBufmsg, hand, process,  \* the fabric: Router
  phase,     \* phase[g]: "test", "forward", "backward", "done", "failed"
  step,      \* step[g]: Worker::step_
  pos,       \* pos[g]: the parameter its sweep over the net has come to
  held,      \* held[g][p]: version of the worker's copy
  copy,      \* copy[n][p]: the contributions in the copy of net n's data
  nGet,      \* nGet[g][p]: ParamCounter::nGet in group g's shard
  serving,   \* serving[i]: "starting", "serving", "stopped"
  value,     \* value[p]: the contributions in the server's copy, {} if absent
  version,   \* version[p]: its version, -1 if absent
  signals    \* signals left

INSTANCE Router

fabricvars == <<up, down, id2addr, bufmsg, nBufmsg, hand, process>>
workervars == <<phase, step, pos, held, copy, nGet>>
servervars == <<serving, value, version>>
vars == <<fabricvars, workervars, servervars, signals>>

----------------------------------------------------------------------------
(* Messages *)

\* Mutation: servers numbered from 1.
ShardingFromOne(p) == (p % NServers) + 1

Sharding(p) == p % NServers

PutMsg(p) ==
  [type |-> "kPut", src |-> Worker(0), dst |-> Server(Sharding(p)),
   target |-> p, v |-> FirstStep, data |-> {InitialValue}]

UpdateMsg(g, p, s) ==
  [type |-> "kUpdate", src |-> Worker(g), dst |-> Server(Sharding(p)),
   target |-> p, v |-> s, data |-> {<<g, s>>}]

PingMsg(i) ==
  [type |-> "kConnect", src |-> Server(i), dst |-> Stub,
   target |-> 0, v |-> 0, data |-> {}]

\* The answer to update m: addresses swapped, the new version and value.
UpdateResponse(m, ver, val) ==
  [type |-> "kRUpdate", src |-> m.dst, dst |-> m.src,
   target |-> m.target, v |-> ver, data |-> val]

Contributions == {InitialValue} \cup (Groups \X Nat)

Requests ==
  [type : {"kPut", "kUpdate", "kRUpdate"}, src : Address, dst : Address,
   target : Params, v : Nat, data : SUBSET Contributions]

Pings ==
  [type : {"kConnect"}, src : Servers, dst : {Stub}, target : {0}, v : {0}, data : {{}}]

Message == Requests \cup Pings

----------------------------------------------------------------------------
(* The course of a step *)

\* Worker::ValidateNow, Worker::TestNow.
Due(e, s) == e.frequency > 0 /\ s >= e.after /\ (s - e.after) % e.frequency = 0

EvaluateNow(g, s) == g = 0 /\ \E e \in Passes : Due(e, s)

\* Where group g finds itself before step s: StopNow, then the passes that
\* are due, then training.
Before(g, s) ==
  IF s >= TrainSteps THEN "done" ELSE IF EvaluateNow(g, s) THEN "test" ELSE "forward"

\* NeuralNet::ShareParams made group g's parameters share the data of group
\* 0's; Param::ShareData set their owner.
Shares(g) == Hogwild /\ g # 0

\* The net whose memory holds the values group g computes with.
DataOf(g) == IF Shares(g) THEN 0 ELSE g

----------------------------------------------------------------------------
(* Start: Trainer::Start has set every worker up, so group 0's Puts are in *)
(* its dealer's pipe; its own copies have the Put's version.  The other    *)
(* groups' copies are as NeuralNet built them: version 0, no value.        *)

Init ==
  /\ RouterInit
  /\ up = [a \in Address |->
             IF a = Worker(0) THEN [i \in 1 .. NParams |-> PutMsg(i - 1)] ELSE << >>]
  /\ phase   = [g \in Groups |-> Before(g, FirstStep)]
  /\ step    = [g \in Groups |-> FirstStep]
  /\ pos     = [g \in Groups |-> 1]
  /\ held    = [g \in Groups |-> [p \in Params |-> IF g = 0 THEN FirstStep ELSE 0]]
  /\ copy    = [g \in Groups |-> [p \in Params |-> IF g = 0 THEN {InitialValue} ELSE {}]]
  /\ nGet    = [g \in Groups |-> [p \in Params |-> 0]]
  /\ serving = [i \in 0 .. NServers - 1 |-> "starting"]
  /\ value   = [p \in Params |-> {}]
  /\ version = [p \in Params |-> -1]
  /\ signals = MaxSignals

----------------------------------------------------------------------------
(* Workers *)

\* Worker::Test over the validation and the test net: they compute with the
\* training net's values as they are, nothing is collected.  A pass that is
\* due without steps has no net, and Performance dereferences null.
TestPass(g) ==
  /\ phase[g] = "test"
  /\ IF \A e \in Passes : Due(e, step[g]) => e.steps > 0
     THEN /\ phase' = [phase EXCEPT ![g] = "forward"]
          /\ UNCHANGED process
     ELSE /\ process' = "aborted"
          /\ UNCHANGED phase
  /\ UNCHANGED <<up, down, id2addr, bufmsg, nBufmsg, hand, step, pos, held, copy, nGet,
                 servervars, signals>>

\* Mutation: Collect is content with the version before the step's.
OneBehind(g, p) == held[g][p] + 1 < step[g]

\* Worker::Collect keeps receiving while this holds.
Outdated(g, p) == held[g][p] < step[g]

\* Forward has come to parameter p of group g's net.
AtForward(g, p) == phase[g] = "forward" /\ p = pos[g] - 1

\* One turn of Collect's loop: whatever arrives is stored in the copy it
\* names (PMWorker::Collect, Param::ParseGetResponseMsg).
Collect(g) ==
  /\ \E p \in Params : AtForward(g, p) /\ Outdated(g, p)
  /\ DealerReceive(Worker(g))
  /\ LET m == Head(down[Worker(g)]) IN
     /\ held' = [held EXCEPT ![g][m.target] = m.v]
     /\ copy' = [copy EXCEPT ![DataOf(g)][m.target] = m.data]
  /\ UNCHANGED <<up, id2addr, bufmsg, nBufmsg, hand, process, phase, step, pos, nGet,
                 servervars, signals>>

\* Collect returned 1 for p, and the layer computes with it.
Forward(g) ==
  /\ \E p \in Params : AtForward(g, p) /\ ~ Outdated(g, p)
  /\ IF pos[g] = NParams
     THEN /\ phase' = [phase EXCEPT ![g] = "backward"]
          /\ pos'   = [pos EXCEPT ![g] = 1]
     ELSE /\ pos'   = [pos EXCEPT ![g] = @ + 1]
          /\ UNCHANGED phase
  /\ UNCHANGED <<fabricvars, step, held, copy, nGet, servervars, signals>>

\* Mutation: PMWorker::Update leaves the version of the copy alone.
HeldUntouched(g, p) == held[g][p]

\* PMWorker::Update's set_version: only the answer will raise it above step.
HeldAfterUpdate(g, p) == step[g]

\* PMWorker::Update of a parameter without an owner: its gradient goes to
\* its server.
SendUpdate(g, p) ==
  /\ DealerSend(Worker(g), UpdateMsg(g, p, step[g]))
  /\ UNCHANGED <<nGet, process>>

\* PMWorker::Update of a parameter that shares its data: it is counted, and
\* sent when the count divided by nLocal, 1 here, is the step.  The message
\* GenUpdateMsg makes is then dropped and a null one addressed.
CountUpdate(g, p) ==
  /\ nGet' = [nGet EXCEPT ![g][p] = @ + 1]
  /\ process' = IF nGet[g][p] + 1 = step[g] THEN "aborted" ELSE process
  /\ UNCHANGED up

\* Backward: PMWorker::Update for the next parameter.  After the last one
\* the step is over and Worker::Run's loop turns.
Backward(g) ==
  LET p == BackwardOrder[pos[g]] IN
  /\ phase[g] = "backward"
  /\ IF Shares(g) THEN CountUpdate(g, p) ELSE SendUpdate(g, p)
  /\ held' = [held EXCEPT ![g][p] = HeldAfterUpdate(g, p)]
  /\ IF pos[g] < NParams
     THEN /\ pos' = [pos EXCEPT ![g] = @ + 1]
          /\ UNCHANGED <<phase, step>>
     ELSE /\ pos'   = [pos EXCEPT ![g] = 1]
          /\ step'  = [step EXCEPT ![g] = @ + 1]
          /\ phase' = [phase EXCEPT ![g] = Before(g, step[g] + 1)]
  /\ UNCHANGED <<down, id2addr, bufmsg, nBufmsg, hand, copy, servervars, signals>>

\* A signal interrupts the receive Collect is blocked in: it returns 0,
\* Forward throws WorkerException, and Worker::Run ends.
WorkerInterrupted(g) ==
  /\ signals > 0
  /\ \E p \in Params : AtForward(g, p) /\ Outdated(g, p)
  /\ down[Worker(g)] = << >>
  /\ signals' = signals - 1
  /\ phase' = [phase EXCEPT ![g] = "failed"]
  /\ UNCHANGED <<fabricvars, step, pos, held, copy, nGet, servervars>>

WorkerStep(g) == TestPass(g) \/ Collect(g) \/ Forward(g) \/ Backward(g)

----------------------------------------------------------------------------
(* Servers *)

\* Server::Run announces the server to the stub before its loop.
ServerConnect(i) ==
  /\ serving[i] = "starting"
  /\ serving' = [serving EXCEPT ![i] = "serving"]
  /\ DealerSend(Server(i), PingMsg(i))
  /\ UNCHANGED <<down, id2addr, bufmsg, nBufmsg, hand, process, workervars,
                 value, version, signals>>

\* Server i takes a message of type t out of its dealer's pipe.
ServerTakes(i, t) ==
  /\ serving[i] = "serving"
  /\ DealerReceive(Server(i))
  /\ Head(down[Server(i)]).type = t

\* PMServer::HandlePut, Param::HandlePutMsg: no acknowledgement.
HandlePut(i) ==
  /\ ServerTakes(i, "kPut")
  /\ LET m == Head(down[Server(i)]) IN
       /\ value'   = [value EXCEPT ![m.target] = m.data]
       /\ version' = [version EXCEPT ![m.target] = m.v]
  /\ UNCHANGED <<up, id2addr, bufmsg, nBufmsg, hand, process, workervars, serving, signals>>

\* Mutation: the version is not raised when the update is applied.
VersionStays(p) == version[p]

VersionAfterUpdate(p) == version[p] + 1

\* Mutation: the updater overwrites the value with the gradient.
GradientAlone(m) == m.data

ValueAfterUpdate(m) == value[m.target] \cup m.data

\* PMServer::HandleUpdate for a parameter the shard has.  ParseUpdateMsg
\* aborts the process when the gradient is of a version yet to come.
HandleUpdate(i) ==
  /\ ServerTakes(i, "kUpdate")
  /\ LET m == Head(down[Server(i)]) IN
       /\ value[m.target] # {}
       /\ IF m.v <= version[m.target]
          THEN /\ value'   = [value EXCEPT ![m.target] = ValueAfterUpdate(m)]
               /\ version' = [version EXCEPT ![m.target] = VersionAfterUpdate(m.target)]
               /\ DealerSend(Server(i), UpdateResponse(m, VersionAfterUpdate(m.target), ValueAfterUpdate(m)))
               /\ UNCHANGED process
          ELSE /\ process' = "aborted"
               /\ UNCHANGED <<value, version, up>>
  /\ UNCHANGED <<id2addr, bufmsg, nBufmsg, hand, workervars, serving, signals>>

\* Mutation: an update that cannot be served yet is sent back twice.
Doubled(m) == <<m, m>>

\* "re-construct msg to be re-queued": the request itself, src and dst kept.
Requeued(m) == <<m>>

\* PMServer::HandleUpdate for a parameter whose Put has not arrived.
RequeueUpdate(i) ==
  /\ ServerTakes(i, "kUpdate")
  /\ LET m == Head(down[Server(i)]) IN
       /\ value[m.target] = {}
       /\ up' = [up EXCEPT ![Server(i)] = @ \o Requeued(m)]
  /\ UNCHANGED <<id2addr, bufmsg, nBufmsg, hand, process, workervars, servervars, signals>>

\* A signal interrupts the blocked receive of Server::Run: its loop breaks.
ServerInterrupted(i) ==
  /\ signals > 0
  /\ serving[i] = "serving"
  /\ down[Server(i)] = << >>
  /\ signals' = signals - 1
  /\ serving' = [serving EXCEPT ![i] = "stopped"]
  /\ UNCHANGED <<fabricvars, workervars, value, version>>

ServerStep(i) == ServerConnect(i) \/ HandlePut(i) \/ HandleUpdate(i) \/ RequeueUpdate(i)

----------------------------------------------------------------------------
(* Stub *)

StubReceive(a) ==
  /\ RouterReceive(a)
  /\ UNCHANGED <<workervars, servervars, signals>>

StubSend ==
  /\ StubDispatch
  /\ UNCHANGED <<workervars, servervars, signals>>

\* A signal interrupts the stub's blocked receive: it calls exit(0).
StubInterrupted ==
  /\ signals > 0
  /\ hand = << >>
  /\ \A a \in Address : up[a] = << >>
  /\ signals' = signals - 1
  /\ process' = "exited"
  /\ UNCHANGED <<up, down, id2addr, bufmsg, nBufmsg, hand, workervars, servervars>>

----------------------------------------------------------------------------

Next ==
  /\ Running
  /\ \/ \E g \in Groups :
          \/ TestPass(g) \/ Collect(g) \/ Forward(g) \/ Backward(g)
          \/ WorkerInterrupted(g)
     \/ \E i \in 0 .. NServers - 1 :
          \/ ServerConnect(i) \/ HandlePut(i) \/ HandleUpdate(i) \/ RequeueUpdate(i)
          \/ ServerInterrupted(i)
     \/ \E a \in Address : StubReceive(a)
     \/ StubSend
     \/ StubInterrupted

Spec == Init /\ [][Next]_vars

\* The operating system schedules every thread; ZeroMQ's ROUTER fair-queues
\* the dealers' pipes, so a dealer with messages is read again and again
\* even while the stub is kept busy by a request that bounces.
Fairness ==
  /\ \A g \in Groups : WF_vars(Running /\ WorkerStep(g))
  /\ \A i \in 0 .. NServers - 1 : WF_vars(Running /\ ServerStep(i))
  /\ \A a \in Address : SF_vars(Running /\ StubReceive(a))
  /\ WF_vars(Running /\ StubSend)

FairSpec == Spec /\ Fairness
----------------------------------------------------------------------------
(* Type invariant *)

FabricTypeOK ==
  /\ up \in [Address -> Seq(Message)]
  /\ down \in [Address -> Seq(Message)]
  /\ id2addr \in [Address -> Address \cup {Nil}]
  /\ bufmsg \in [Address -> Seq(Message)]
  /\ nBufmsg \in Nat
  /\ hand \in Seq(Message)
  /\ process \in {"running", "aborted", "exited"}

WorkerTypeOK ==
  /\ phase \in [Groups -> {"test", "forward", "backward", "done", "failed"}]
  /\ step \in [Groups -> Nat]
  /\ pos \in [Groups -> 1 .. NParams]
  /\ held \in [Groups -> [Params -> Nat]]
  /\ copy \in [Groups -> [Params -> SUBSET Contributions]]
  /\ nGet \in [Groups -> [Params -> Nat]]

ServerTypeOK ==
  /\ serving \in [0 .. NServers - 1 -> {"starting", "serving", "stopped"}]
  /\ value \in [Params -> SUBSET Contributions]
  /\ version \in [Params -> Nat \cup {-1}]

TypeOK == FabricTypeOK /\ WorkerTypeOK /\ ServerTypeOK /\ signals \in Nat

----------------------------------------------------------------------------
(* Safety *)

\* Where messages are, and the <<place, index>> of each.
Places == ({"up", "down", "kept"} \X Address) \cup {<<"hand", Stub>>}

Line(c) ==
  CASE c[1] = "up"   -> up[c[2]]
    [] c[1] = "down" -> down[c[2]]
    [] c[1] = "kept" -> bufmsg[c[2]]
    [] c[1] = "hand" -> hand

UnderWay == UNION {{<<c, i>> : i \in 1 .. Len(Line(c))} : c \in Places}

MessageAt(x) == Line(x[1])[x[2]]

\* Message m asks for group g's update of p, or answers it.
Concerns(m, g, p) ==
  \/ m.type = "kUpdate"  /\ m.src = Worker(g) /\ m.target = p
  \/ m.type = "kRUpdate" /\ m.dst = Worker(g) /\ m.target = p

\* A group never has two updates of one parameter under way, neither as
\* request (bounced any number of times) nor as answer: the answer a worker
\* waits for is the one to its latest gradient.
OneUpdateUnderWay ==
  \A x, y \in UnderWay : \A g \in Groups, p \in Params :
    Concerns(MessageAt(x), g, p) /\ Concerns(MessageAt(y), g, p) => x = y

\* The parameters group g has computed with in its present step.
Computed(g) ==
  IF phase[g] = "backward" THEN Params
  ELSE IF phase[g] = "forward" THEN {p \in Params : p < pos[g] - 1} ELSE {}

\* A layer computes with copies that hold every gradient the group itself
\* sent for them in the earlier steps (Worker::Collect's promise).
ReadsOwnGradients ==
  \A g \in Groups : \A p \in Computed(g) :
    \A s \in FirstStep .. step[g] - 1 : <<g, s>> \in copy[g][p]

\* A validation or test pass before step s reads copies that lack nothing
\* older than the gradients of step s - 1, whose answers are still on their
\* way (Worker::RunOneBatch tests before TrainOneBatch collects).
TestLagsOneStep ==
  \A g \in Groups : phase[g] = "test" =>
    \A p \in Params :
      {InitialValue} \cup {<<g, s>> : s \in FirstStep .. step[g] - 2} \subseteq copy[g][p]

\* Only the first step of a group other than the first can compute with
\* values that nobody initialised (Worker::Setup gets nothing for it): what
\* it collects later starts from group 0's initial values.
UninitialisedOnlyAtFirst ==
  \A g \in Groups : \A p \in Computed(g) :
    g = 0 \/ step[g] > FirstStep => InitialValue \in copy[DataOf(g)][p]

\* Neither the servers' CHECK_LE on the version of a gradient nor the
\* router's CHECK_LE on its buffer ever fails: an update is of a version
\* the server has reached, with every interleaving of the groups.
NoCheckFails == process # "aborted"

\* When every group is through and nothing is under way, every gradient of
\* every step is in the servers' copies.
NothingLost ==
  ( /\ \A g \in Groups : phase[g] = "done"
    /\ \A x \in UnderWay : MessageAt(x).type # "kUpdate" )
  => \A p \in Params : value[p] = {InitialValue} \cup (Groups \X Steps)

\* The servers implement the abstract store: a value placed once, each
\* gradient applied once, bulk synchronous within a group.
Store == INSTANCE ParamStore WITH value <- value, version <- version
ImplementsParamStore == Store!Spec

----------------------------------------------------------------------------
(* Liveness *)

\* Every group finishes its train_steps steps.
AllGroupsFinish == <>(\A g \in Groups : phase[g] = "done")
=============================================================================
