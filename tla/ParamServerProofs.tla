-------------------------- MODULE ParamServerProofs --------------------------
(***************************************************************************)
(* Theorems about ParamServer, for every number of groups, servers,        *)
(* parameters, steps, signals and every buffer size:                       *)
(*                                                                         *)
(*   TypeCorrect     every variable keeps its type                         *)
(*   RoutingCorrect  the router's table never names a foreign dealer       *)
(*                                                                         *)
(* TypeOK is inductive.  TableTruthful is not: it needs RoutingInv, which  *)
(* says of every message under way where it may be.                        *)
(***************************************************************************)
EXTENDS ParamServer, TLAPS, SequenceTheorems

----------------------------------------------------------------------------
(* Types *)

\* PMWorker::Sharding picks a server that exists.
LEMMA ShardingType == \A p \in Params : Sharding(p) \in 0 .. NServers - 1
  BY Assumption DEF Sharding, Params

\* The address of a worker or a server is one, the stub's is neither.
LEMMA AddressType ==
  /\ \A g \in Groups : Worker(g) \in Address
  /\ \A i \in 0 .. NServers - 1 : Server(i) \in Address
  /\ Stub \notin Address
  BY DEF Address, Workers, Servers, Worker, Server, Stub

\* What workers and servers build are messages.
LEMMA MessageTypes ==
  /\ \A p \in Params : PutMsg(p) \in Message
  /\ \A g \in Groups, p \in Params, s \in Nat : UpdateMsg(g, p, s) \in Message
  /\ \A i \in 0 .. NServers - 1 : PingMsg(i) \in Message
<1>1. ASSUME NEW p \in Params PROVE PutMsg(p) \in Message
  <2>1. 0 \in Groups
    BY Assumption DEF Groups
  <2>2. Worker(0) \in Address /\ Server(Sharding(p)) \in Address
    BY <2>1, AddressType, ShardingType
  <2>3. FirstStep \in Nat
    BY Assumption
  <2> QED
    BY <2>2, <2>3 DEF PutMsg, Message, Requests, Contributions
<1>2. ASSUME NEW g \in Groups, NEW p \in Params, NEW s \in Nat
      PROVE  UpdateMsg(g, p, s) \in Message
  <2>1. Worker(g) \in Address /\ Server(Sharding(p)) \in Address
    BY AddressType, ShardingType
  <2> QED
    BY <2>1 DEF UpdateMsg, Message, Requests, Contributions
<1>3. ASSUME NEW i \in 0 .. NServers - 1 PROVE PingMsg(i) \in Message
  <2>1. Server(i) \in Address /\ 0 \in Params
    BY AddressType, Assumption DEF Params
  <2> QED
    BY <2>1 DEF PingMsg, Message, Pings, Servers
<1> QED
  BY <1>1, <1>2, <1>3

\* The fields of a message; only a ping is addressed to the stub.
LEMMA MessageFields ==
  ASSUME NEW m \in Message
  PROVE  /\ m.src \in Address /\ m.dst \in Address \cup {Stub}
         /\ m.target \in Params /\ m.v \in Nat /\ m.data \in SUBSET Contributions
         /\ m.type # "kConnect" => m.dst \in Address
<1>1. CASE m \in Requests
  BY <1>1 DEF Requests
<1>2. CASE m \in Pings
  BY <1>2, Assumption DEF Pings, Address, Params
<1> QED
  BY <1>1, <1>2 DEF Message

\* The sequence operations of the dealers and the router keep a sequence
\* over a set a sequence over that set.
LEMMA SeqFacts ==
  ASSUME NEW S, NEW s \in Seq(S)
  PROVE  /\ s # << >> => Head(s) \in S /\ Tail(s) \in Seq(S)
         /\ \A x \in S : Append(s, x) \in Seq(S) /\ <<x>> \in Seq(S)
         /\ \A t \in Seq(S) : s \o t \in Seq(S)
  BY HeadTailProperties, AppendProperties, ConcatProperties

\* The state Trainer::Start leaves behind is well typed.
LEMMA InitType == Init => TypeOK
<1> SUFFICES ASSUME Init PROVE TypeOK
  OBVIOUS
<1>1. FabricTypeOK
  <2> DEFINE puts == [i \in 1 .. NParams |-> PutMsg(i - 1)]
  <2>1. NParams \in Nat /\ << >> \in Seq(Message)
    BY Assumption
  <2>2. \A i \in 1 .. NParams : puts[i] \in Message
    BY <2>1, MessageTypes DEF Params
  <2>3. puts \in Seq(Message)
    <3> HIDE DEF puts
    <3>1. puts = [i \in 1 .. NParams |-> puts[i]]
      BY DEF puts
    <3> QED
      BY <2>1, <2>2, <3>1, IsASeq
  <2>4. up \in [Address -> Seq(Message)]
    BY <2>1, <2>3 DEF Init
  <2> QED
    BY <2>1, <2>4 DEF FabricTypeOK, Init, RouterInit
<1>2. WorkerTypeOK
  <2>1. \A g \in Groups : Before(g, FirstStep) \in {"test", "forward", "done"}
    BY DEF Before
  <2>2. 1 \in 1 .. NParams /\ FirstStep \in Nat
    BY Assumption
  <2> QED
    BY <2>1, <2>2 DEF WorkerTypeOK, Init, Contributions
<1>3. ServerTypeOK
  BY DEF ServerTypeOK, Init
<1>4. signals \in Nat
  BY Assumption DEF Init
<1> QED
  BY <1>1, <1>2, <1>3, <1>4 DEF TypeOK

\* The Router's operations keep the fabric well typed.
LEMMA RouterReceiveType ==
  ASSUME FabricTypeOK, NEW a \in Address, RouterReceive(a)
  PROVE  FabricTypeOK'
<1> DEFINE m == Head(up[a])
<1>1. m \in Message /\ Tail(up[a]) \in Seq(Message) /\ <<m>> \in Seq(Message)
  BY SeqFacts DEF FabricTypeOK, RouterReceive
<1>2. m.src \in Address
  BY <1>1, MessageFields
<1>3. down[a] \o bufmsg[m.src] \in Seq(Message)
  BY <1>2, SeqFacts DEF FabricTypeOK
<1> QED
  BY <1>1, <1>2, <1>3 DEF FabricTypeOK, RouterReceive, Flush

\* Sending on, keeping or dropping the message in the stub's hand keeps the
\* fabric well typed.
LEMMA StubDispatchType ==
  ASSUME FabricTypeOK, StubDispatch
  PROVE  FabricTypeOK'
<1> DEFINE m == Head(hand)
<1>1. m \in Message
  BY SeqFacts DEF FabricTypeOK, StubDispatch
<1>2. ASSUME m.dst # Stub PROVE FabricTypeOK'
  <2>1. m.dst \in Address
    BY <1>1, <1>2, MessageFields
  <2>2. Append(bufmsg[m.dst], m) \in Seq(Message)
    BY <1>1, <2>1, SeqFacts DEF FabricTypeOK
  <2>3. ASSUME Known(m.dst) PROVE Append(down[id2addr[m.dst]], m) \in Seq(Message)
    BY <1>1, <2>1, <2>3, SeqFacts DEF FabricTypeOK, Known
  <2>4. CountAfterPush \in Nat
    BY DEF CountAfterPush, FabricTypeOK
  <2>5. /\ RouterSend(m)
        /\ hand' \in Seq(Message) /\ up' = up /\ id2addr' = id2addr
    BY <1>2 DEF StubDispatch
  <2>6. CASE Known(m.dst)
    <3>1. id2addr[m.dst] \in Address
      BY <2>1, <2>6 DEF FabricTypeOK, Known
    <3>2. /\ down' = [down EXCEPT ![id2addr[m.dst]] = Append(@, m)]
          /\ bufmsg' = bufmsg /\ nBufmsg' = nBufmsg /\ process' = process
      BY <2>5, <2>6 DEF RouterSend
    <3>3. down' \in [Address -> Seq(Message)]
      BY <2>3, <2>6, <3>1, <3>2 DEF FabricTypeOK
    <3> QED
      BY <2>5, <3>2, <3>3 DEF FabricTypeOK
  <2>7. CASE ~ Known(m.dst)
    <3>1. /\ bufmsg' = [bufmsg EXCEPT ![m.dst] = Append(@, m)]
          /\ nBufmsg' = CountAfterPush /\ process' \in {process, "aborted"}
          /\ down' = down
      BY <2>5, <2>7 DEF RouterSend
    <3>2. bufmsg' \in [Address -> Seq(Message)]
      BY <2>1, <2>2, <3>1 DEF FabricTypeOK
    <3> QED
      BY <2>4, <2>5, <3>1, <3>2 DEF FabricTypeOK
  <2> QED
    BY <2>6, <2>7
<1>3. CASE m.dst = Stub
  <2>1. << >> \in Seq(Message)
    OBVIOUS
  <2> QED
    BY <1>3, <2>1 DEF FabricTypeOK, StubDispatch
<1> QED
  BY <1>2, <1>3

\* A dealer's send and receive keep its pipes well typed.
LEMMA DealerTypes ==
  ASSUME FabricTypeOK
  PROVE  /\ \A a \in Address, m \in Message :
              [up EXCEPT ![a] = Append(@, m)] \in [Address -> Seq(Message)]
         /\ \A a \in Address :
              down[a] # << >> =>
                /\ Head(down[a]) \in Message
                /\ [down EXCEPT ![a] = Tail(@)] \in [Address -> Seq(Message)]
  BY SeqFacts DEF FabricTypeOK

\* The memory a group computes with is that of some group's net.
LEMMA DataOfType == \A g \in Groups : DataOf(g) \in Groups
  BY Assumption DEF DataOf, Groups

\* PMWorker::Update keeps the fabric, and the counters, well typed.
LEMMA UpdateType ==
  ASSUME TypeOK, NEW g \in Groups, NEW p \in Params,
         IF Shares(g) THEN CountUpdate(g, p) ELSE SendUpdate(g, p)
  PROVE  /\ up' \in [Address -> Seq(Message)]
         /\ nGet' \in [Groups -> [Params -> Nat]]
         /\ process' \in {"running", "aborted", "exited"}
<1>1. CASE Shares(g)
  <2>1. /\ nGet' = [nGet EXCEPT ![g][p] = @ + 1]
        /\ process' \in {process, "aborted"} /\ up' = up
    BY <1>1 DEF CountUpdate
  <2>2. nGet' \in [Groups -> [Params -> Nat]]
    BY <2>1 DEF TypeOK, WorkerTypeOK
  <2> QED
    BY <2>1, <2>2 DEF TypeOK, FabricTypeOK
<1>2. CASE ~ Shares(g)
  <2> DEFINE m == UpdateMsg(g, p, step[g])
  <2>1. m \in Message /\ Worker(g) \in Address
    BY MessageTypes, AddressType DEF TypeOK, WorkerTypeOK
  <2>2. up' = [up EXCEPT ![Worker(g)] = Append(@, m)] /\ UNCHANGED <<nGet, process>>
    BY <1>2 DEF SendUpdate, DealerSend
  <2>3. up' \in [Address -> Seq(Message)]
    <3> HIDE DEF m
    <3> QED
      BY <2>1, <2>2, DealerTypes DEF TypeOK
  <2> QED
    BY <2>2, <2>3 DEF TypeOK, FabricTypeOK, WorkerTypeOK
<1> QED
  BY <1>1, <1>2

\* The steps of a worker preserve the types.
LEMMA WorkerType ==
  ASSUME TypeOK, NEW g \in Groups,
         TestPass(g) \/ Collect(g) \/ Forward(g) \/ Backward(g) \/ WorkerInterrupted(g)
  PROVE  TypeOK'
<1> USE DEF TypeOK
<1>0. Worker(g) \in Address
  BY AddressType
<1>1. CASE Collect(g)
  <2> DEFINE m == Head(down[Worker(g)])
  <2>1. m \in Message /\ down' \in [Address -> Seq(Message)]
    BY <1>0, <1>1, DealerTypes DEF Collect, DealerReceive
  <2>2. m.target \in Params /\ m.v \in Nat /\ m.data \in SUBSET Contributions
    BY <2>1, MessageFields
  <2>3. held' \in [Groups -> [Params -> Nat]] /\ copy' \in [Groups -> [Params -> SUBSET Contributions]]
    BY <1>1, <2>2, DataOfType DEF Collect, WorkerTypeOK
  <2> QED
    BY <1>1, <2>1, <2>3 DEF Collect, FabricTypeOK, WorkerTypeOK, ServerTypeOK, servervars
<1>2. CASE Forward(g)
  <2>1. pos[g] # NParams => pos[g] + 1 \in 1 .. NParams
    BY Assumption DEF WorkerTypeOK
  <2>2. 1 \in 1 .. NParams
    BY Assumption
  <2> QED
    BY <1>2, <2>1, <2>2 DEF Forward, FabricTypeOK, WorkerTypeOK, ServerTypeOK, fabricvars, servervars
<1>3. CASE Backward(g)
  <2> DEFINE p == BackwardOrder[pos[g]]
  <2>1. p \in Params /\ step[g] \in Nat
    BY Assumption DEF WorkerTypeOK
  <2>2. /\ up' \in [Address -> Seq(Message)]
        /\ nGet' \in [Groups -> [Params -> Nat]]
        /\ process' \in {"running", "aborted", "exited"}
    BY <1>3, <2>1, UpdateType DEF Backward
  <2>3. FabricTypeOK'
    BY <1>3, <2>2 DEF Backward, FabricTypeOK
  <2>4. held' \in [Groups -> [Params -> Nat]] /\ copy' \in [Groups -> [Params -> SUBSET Contributions]]
    BY <1>3, <2>1 DEF Backward, WorkerTypeOK, HeldAfterUpdate
  <2>5. /\ pos[g] < NParams => pos[g] + 1 \in 1 .. NParams
        /\ 1 \in 1 .. NParams
        /\ step[g] + 1 \in Nat
        /\ Before(g, step[g] + 1) \in {"test", "forward", "done"}
    BY Assumption, <2>1 DEF WorkerTypeOK, Before
  <2>6. /\ phase' \in [Groups -> {"test", "forward", "backward", "done", "failed"}]
        /\ step' \in [Groups -> Nat]
        /\ pos' \in [Groups -> 1 .. NParams]
    <3> HIDE DEF TypeOK
    <3>0. /\ phase \in [Groups -> {"test", "forward", "backward", "done", "failed"}]
          /\ step \in [Groups -> Nat] /\ pos \in [Groups -> 1 .. NParams]
      BY DEF TypeOK, WorkerTypeOK
    <3>1. CASE pos[g] < NParams
      BY <1>3, <2>5, <3>0, <3>1 DEF Backward
    <3>2. CASE ~ (pos[g] < NParams)
      BY <1>3, <2>5, <3>0, <3>2 DEF Backward
    <3> QED
      BY <3>1, <3>2
  <2>7. WorkerTypeOK'
    BY <2>2, <2>4, <2>6 DEF WorkerTypeOK
  <2> QED
    BY <1>3, <2>3, <2>7 DEF Backward, ServerTypeOK, servervars
<1>4. CASE WorkerInterrupted(g)
  BY <1>4 DEF WorkerInterrupted, FabricTypeOK, WorkerTypeOK, ServerTypeOK, fabricvars, servervars
<1>5. CASE TestPass(g)
  BY <1>5 DEF TestPass, FabricTypeOK, WorkerTypeOK, ServerTypeOK, servervars
<1> QED
  BY <1>1, <1>2, <1>3, <1>4, <1>5

\* What PMServer::HandleUpdate stores and answers is well typed: the version
\* it raises is one already placed, because the CHECK on the gradient passed.
LEMMA ServedAnswer ==
  ASSUME TypeOK, NEW i \in 0 .. NServers - 1, ServerTakes(i, "kUpdate"),
         Head(down[Server(i)]).v <= version[Head(down[Server(i)]).target]
  PROVE  LET m == Head(down[Server(i)]) IN
         /\ VersionAfterUpdate(m.target) \in Nat
         /\ ValueAfterUpdate(m) \in SUBSET Contributions
         /\ UpdateResponse(m, VersionAfterUpdate(m.target), ValueAfterUpdate(m)) \in Message
<1> DEFINE m == Head(down[Server(i)])
<1>1. m \in Message /\ m.type = "kUpdate"
  BY AddressType, DealerTypes DEF ServerTakes, DealerReceive, TypeOK
<1>2. m.target \in Params /\ m.v \in Nat /\ m.data \in SUBSET Contributions
      /\ m.src \in Address /\ m.dst \in Address
  BY <1>1, MessageFields
<1>3. VersionAfterUpdate(m.target) \in Nat
  <2>1. version[m.target] \in Nat \cup {-1}
    BY <1>2 DEF TypeOK, ServerTypeOK
  <2>2. version[m.target] \in Nat
    BY <1>2, <2>1
  <2> QED
    BY <2>2 DEF VersionAfterUpdate
<1>4. ValueAfterUpdate(m) \in SUBSET Contributions
  BY <1>2 DEF ValueAfterUpdate, TypeOK, ServerTypeOK
<1>5. UpdateResponse(m, VersionAfterUpdate(m.target), ValueAfterUpdate(m)) \in Message
  BY <1>2, <1>3, <1>4 DEF UpdateResponse, Message, Requests
<1> QED
  BY <1>3, <1>4, <1>5

\* The steps of a server preserve the types.
LEMMA ServerType ==
  ASSUME TypeOK, NEW i \in 0 .. NServers - 1,
         ServerConnect(i) \/ HandlePut(i) \/ HandleUpdate(i) \/ RequeueUpdate(i)
           \/ ServerInterrupted(i)
  PROVE  TypeOK'
<1> USE DEF TypeOK
<1> DEFINE m == Head(down[Server(i)])
<1>0. Server(i) \in Address
  BY AddressType
<1>1. ASSUME NEW t, ServerTakes(i, t)
      PROVE  /\ m \in Message /\ down' \in [Address -> Seq(Message)]
             /\ m.target \in Params /\ m.v \in Nat /\ m.data \in SUBSET Contributions
             /\ m.type = t
  BY <1>0, <1>1, DealerTypes, MessageFields DEF ServerTakes, DealerReceive
<1>2. CASE ServerConnect(i)
  <2>1. up' \in [Address -> Seq(Message)]
    BY <1>0, <1>2, MessageTypes, DealerTypes DEF ServerConnect, DealerSend
  <2> QED
    BY <1>2, <2>1 DEF ServerConnect, FabricTypeOK, WorkerTypeOK, ServerTypeOK, workervars
<1>3. CASE HandlePut(i)
  <2>1. ServerTakes(i, "kPut")
    BY <1>3 DEF HandlePut
  <2> QED
    BY <1>1, <1>3, <2>1 DEF HandlePut, FabricTypeOK, WorkerTypeOK, ServerTypeOK, workervars
<1>4. CASE HandleUpdate(i)
  <2>1. ServerTakes(i, "kUpdate")
    BY <1>4 DEF HandleUpdate
  <2>2. m \in Message /\ m.target \in Params /\ m.data \in SUBSET Contributions
    BY <1>1, <2>1
  <2>3. CASE m.v <= version[m.target]
    <3> DEFINE ans == UpdateResponse(m, VersionAfterUpdate(m.target), ValueAfterUpdate(m))
    <3>1. VersionAfterUpdate(m.target) \in Nat /\ ValueAfterUpdate(m) \in SUBSET Contributions
      BY <2>1, <2>3, ServedAnswer
    <3>4. ans \in Message
      BY <2>1, <2>3, ServedAnswer
    <3>5. up' \in [Address -> Seq(Message)]
      <4>1. up' = [up EXCEPT ![Server(i)] = Append(@, ans)]
        BY <1>4, <2>3 DEF HandleUpdate, DealerSend
      <4> HIDE DEF ans
      <4> QED
        BY <1>0, <3>4, <4>1, DealerTypes
    <3>6. FabricTypeOK'
      BY <1>1, <1>4, <2>1, <2>3, <3>5 DEF HandleUpdate, FabricTypeOK
    <3>7. ServerTypeOK'
      BY <1>4, <2>2, <2>3, <3>1 DEF HandleUpdate, ServerTypeOK
    <3> QED
      BY <1>4, <3>6, <3>7 DEF HandleUpdate, WorkerTypeOK, workervars
  <2>4. CASE ~ (m.v <= version[m.target])
    BY <1>1, <1>4, <2>1, <2>4
       DEF HandleUpdate, FabricTypeOK, WorkerTypeOK, ServerTypeOK, workervars
  <2> QED
    BY <2>3, <2>4
<1>5. CASE RequeueUpdate(i)
  <2>1. ServerTakes(i, "kUpdate")
    BY <1>5 DEF RequeueUpdate
  <2>2. up[Server(i)] \o Requeued(m) \in Seq(Message)
    BY <1>0, <1>1, <2>1, SeqFacts DEF Requeued, FabricTypeOK
  <2>3. up' \in [Address -> Seq(Message)]
    BY <1>5, <2>2 DEF RequeueUpdate, FabricTypeOK
  <2> QED
    BY <1>1, <1>5, <2>1, <2>3 DEF RequeueUpdate, FabricTypeOK, WorkerTypeOK, ServerTypeOK, workervars, servervars
<1>6. CASE ServerInterrupted(i)
  BY <1>6 DEF ServerInterrupted, FabricTypeOK, WorkerTypeOK, ServerTypeOK, fabricvars, workervars
<1> QED
  BY <1>2, <1>3, <1>4, <1>5, <1>6

\* The steps of the stub preserve the types.
LEMMA StubType ==
  ASSUME TypeOK, (\E a \in Address : StubReceive(a)) \/ StubSend \/ StubInterrupted
  PROVE  TypeOK'
<1>1. CASE \E a \in Address : StubReceive(a)
  BY <1>1, RouterReceiveType
     DEF TypeOK, StubReceive, WorkerTypeOK, ServerTypeOK, workervars, servervars
<1>2. CASE StubSend
  BY <1>2, StubDispatchType
     DEF TypeOK, StubSend, WorkerTypeOK, ServerTypeOK, workervars, servervars
<1>3. CASE StubInterrupted
  BY <1>3 DEF TypeOK, StubInterrupted, FabricTypeOK, WorkerTypeOK, ServerTypeOK,
              workervars, servervars
<1> QED
  BY <1>1, <1>2, <1>3

\* Every variable of the parameter server system keeps its type: messages
\* keep naming parameters, versions and addresses that exist.
THEOREM TypeCorrect == Spec => []TypeOK
<1>1. TypeOK /\ [Next]_vars => TypeOK'
  <2> SUFFICES ASSUME TypeOK, [Next]_vars PROVE TypeOK'
    OBVIOUS
  <2>1. CASE Next
    BY <2>1, WorkerType, ServerType, StubType DEF Next
  <2>2. CASE UNCHANGED vars
    BY <2>2 DEF vars, fabricvars, workervars, servervars, TypeOK, FabricTypeOK,
                WorkerTypeOK, ServerTypeOK
  <2> QED
    BY <2>1, <2>2
<1> QED
  BY <1>1, InitType, PTL DEF Spec

----------------------------------------------------------------------------
(* The routing table.  Whatever the router has passed on has a source it   *)
(* knows, and is where its dst says; what is on its way to the router      *)
(* either comes from its owner's dealer or has a source known already (a   *)
(* bounced request): so no address is ever learnt behind a foreign dealer. *)

Routed(a)   == {m \in Message : m.src \in Address /\ Known(m.src) /\ m.dst = a}
Received    == {m \in Message : m.src \in Address /\ Known(m.src)}
Outgoing(a) == {m \in Message : m.src = a} \cup Received

RoutingInv ==
  /\ TableTruthful
  /\ hand \in Seq(Received)
  /\ \A a \in Address :
       /\ up[a] \in Seq(Outgoing(a))
       /\ down[a] \in Seq(Routed(a))
       /\ bufmsg[a] \in Seq(Routed(a))

\* A sequence over a set is one over every larger set.
LEMMA SeqMonotone ==
  ASSUME NEW S, NEW T, S \subseteq T, NEW s \in Seq(S)
  PROVE  s \in Seq(T)
<1>1. s = [i \in 1 .. Len(s) |-> s[i]] /\ Len(s) \in Nat
  OBVIOUS
<1>2. \A i \in 1 .. Len(s) : s[i] \in T
  OBVIOUS
<1> QED
  BY <1>1, <1>2, IsASeq

\* Steps that teach the router nothing leave the sets of messages as they
\* are.
LEMMA SameTable ==
  ASSUME UNCHANGED id2addr
  PROVE  /\ Received' = Received
         /\ \A a \in Address : Outgoing(a)' = Outgoing(a) /\ Routed(a)' = Routed(a)
         /\ TableTruthful' = TableTruthful
  BY DEF Received, Outgoing, Routed, Known, TableTruthful, Message, Requests, Pings

\* At the start only group 0's Puts are under way, in its own pipe.
LEMMA RoutingInit == Init => RoutingInv
<1> SUFFICES ASSUME Init PROVE RoutingInv
  OBVIOUS
<1>1. up[Worker(0)] \in Seq(Outgoing(Worker(0)))
  <2> DEFINE puts == [i \in 1 .. NParams |-> PutMsg(i - 1)]
  <2>1. NParams \in Nat /\ 0 \in Groups
    BY Assumption DEF Groups
  <2>2. \A i \in 1 .. NParams : puts[i] \in Outgoing(Worker(0))
    BY <2>1, MessageTypes DEF Params, Outgoing, PutMsg
  <2>3. puts \in Seq(Outgoing(Worker(0)))
    <3> HIDE DEF puts
    <3>1. puts = [i \in 1 .. NParams |-> puts[i]]
      BY DEF puts
    <3> QED
      BY <2>1, <2>2, <3>1, IsASeq
  <2>4. up[Worker(0)] = puts
    BY <2>1, AddressType DEF Init
  <2> QED
    BY <2>3, <2>4
<1>2. \A a \in Address : a # Worker(0) => up[a] \in Seq(Outgoing(a))
  BY DEF Init
<1>3. TableTruthful /\ hand \in Seq(Received)
  BY DEF Init, RouterInit, TableTruthful
<1>4. \A a \in Address : down[a] \in Seq(Routed(a)) /\ bufmsg[a] \in Seq(Routed(a))
  BY DEF Init, RouterInit
<1> QED
  BY <1>1, <1>2, <1>3, <1>4 DEF RoutingInv

\* A step that leaves the router alone has only its dealers' pipes to show.
LEMMA DealerRouting ==
  ASSUME RoutingInv, UNCHANGED <<id2addr, bufmsg, hand>>,
         \A a \in Address : up'[a] \in Seq(Outgoing(a)) /\ down'[a] \in Seq(Routed(a))
  PROVE  RoutingInv'
<1>1. /\ Received' = Received /\ TableTruthful' = TableTruthful
      /\ \A a \in Address : Outgoing(a)' = Outgoing(a) /\ Routed(a)' = Routed(a)
  BY SameTable
<1>2. TableTruthful' /\ hand' \in Seq(Received')
  BY <1>1 DEF RoutingInv
<1>3. ASSUME NEW a \in Address
      PROVE  /\ up'[a] \in Seq(Outgoing(a)')
             /\ down'[a] \in Seq(Routed(a)')
             /\ bufmsg'[a] \in Seq(Routed(a)')
  BY <1>1 DEF RoutingInv
<1> QED
  BY <1>2, <1>3 DEF RoutingInv

\* Taking a message out of dealer a's pipe, and sending one of a's own or
\* one that has come through the router.
LEMMA PipesRouted ==
  ASSUME TypeOK, RoutingInv, NEW a \in Address
  PROVE  /\ UNCHANGED up => \A b \in Address : up'[b] \in Seq(Outgoing(b))
         /\ UNCHANGED down => \A b \in Address : down'[b] \in Seq(Routed(b))
         /\ \A m \in Outgoing(a) :
              DealerSend(a, m) => \A b \in Address : up'[b] \in Seq(Outgoing(b))
         /\ DealerReceive(a) =>
              /\ Head(down[a]) \in Routed(a)
              /\ \A b \in Address : down'[b] \in Seq(Routed(b))
<1>1. UNCHANGED up => \A b \in Address : up'[b] \in Seq(Outgoing(b))
  BY DEF RoutingInv
<1>2. UNCHANGED down => \A b \in Address : down'[b] \in Seq(Routed(b))
  BY DEF RoutingInv
<1>3. ASSUME NEW m \in Outgoing(a), DealerSend(a, m), NEW b \in Address
      PROVE  up'[b] \in Seq(Outgoing(b))
  <2>1. up[b] \in Seq(Outgoing(b)) /\ Append(up[a], m) \in Seq(Outgoing(a))
    BY SeqFacts DEF RoutingInv
  <2>2. up' = [up EXCEPT ![a] = Append(@, m)] /\ up \in [Address -> Seq(Message)]
    BY <1>3 DEF DealerSend, TypeOK, FabricTypeOK
  <2> QED
    BY <2>1, <2>2
<1>4. ASSUME DealerReceive(a)
      PROVE  /\ Head(down[a]) \in Routed(a)
             /\ \A b \in Address : down'[b] \in Seq(Routed(b))
  <2>1. down[a] # << >> /\ down' = [down EXCEPT ![a] = Tail(@)]
    BY <1>4 DEF DealerReceive
  <2>2. Head(down[a]) \in Routed(a) /\ Tail(down[a]) \in Seq(Routed(a))
    BY <2>1, SeqFacts DEF RoutingInv
  <2>3. ASSUME NEW b \in Address PROVE down'[b] \in Seq(Routed(b))
    <3>1. down[b] \in Seq(Routed(b)) /\ down \in [Address -> Seq(Message)]
      BY DEF RoutingInv, TypeOK, FabricTypeOK
    <3> QED
      BY <2>1, <2>2, <3>1
  <2> QED
    BY <2>2, <2>3
<1> QED
  BY <1>1, <1>2, <1>3, <1>4

\* A worker sends under its own address.
LEMMA WorkerRouting ==
  ASSUME TypeOK, RoutingInv, NEW g \in Groups,
         TestPass(g) \/ Collect(g) \/ Forward(g) \/ Backward(g) \/ WorkerInterrupted(g)
  PROVE  RoutingInv'
<1>0. Worker(g) \in Address
  BY AddressType
<1>1. CASE Collect(g)
  <2>1. DealerReceive(Worker(g)) /\ UNCHANGED <<up, id2addr, bufmsg, hand>>
    BY <1>1 DEF Collect
  <2> QED
    BY <1>0, <2>1, PipesRouted, DealerRouting
<1>2. CASE Backward(g)
  <2> DEFINE m == UpdateMsg(g, BackwardOrder[pos[g]], step[g])
  <2>1. /\ DealerSend(Worker(g), m) \/ UNCHANGED up
        /\ UNCHANGED <<down, id2addr, bufmsg, hand>>
    BY <1>2 DEF Backward, SendUpdate, CountUpdate
  <2>2. BackwardOrder[pos[g]] \in Params /\ step[g] \in Nat
    BY Assumption DEF TypeOK, WorkerTypeOK
  <2>3. m \in Message
    BY <2>2, MessageTypes
  <2>4. m \in Outgoing(Worker(g))
    BY <2>3 DEF Outgoing, UpdateMsg
  <2> QED
    BY <1>0, <2>1, <2>4, PipesRouted, DealerRouting
<1>3. CASE TestPass(g) \/ Forward(g) \/ WorkerInterrupted(g)
  <2>1. UNCHANGED <<up, down, id2addr, bufmsg, hand>>
    BY <1>3 DEF TestPass, Forward, WorkerInterrupted, fabricvars
  <2> QED
    BY <1>0, <2>1, PipesRouted, DealerRouting
<1> QED
  BY <1>1, <1>2, <1>3

\* A server sends under its own address (ping, answer) or sends back a
\* request whose source the router has seen.
LEMMA ServerRouting ==
  ASSUME TypeOK, RoutingInv, NEW i \in 0 .. NServers - 1,
         ServerConnect(i) \/ HandlePut(i) \/ HandleUpdate(i) \/ RequeueUpdate(i)
           \/ ServerInterrupted(i), TypeOK'
  PROVE  RoutingInv'
<1> DEFINE m == Head(down[Server(i)])
<1>0. Server(i) \in Address
  BY AddressType
<1>1. CASE ServerConnect(i)
  <2>1. DealerSend(Server(i), PingMsg(i)) /\ UNCHANGED <<down, id2addr, bufmsg, hand>>
    BY <1>1 DEF ServerConnect
  <2>2. PingMsg(i) \in Outgoing(Server(i))
    BY MessageTypes DEF Outgoing, PingMsg
  <2> QED
    BY <1>0, <2>1, <2>2, PipesRouted, DealerRouting
<1>2. CASE HandlePut(i)
  <2>1. DealerReceive(Server(i)) /\ UNCHANGED <<up, id2addr, bufmsg, hand>>
    BY <1>2 DEF HandlePut, ServerTakes
  <2> QED
    BY <1>0, <2>1, PipesRouted, DealerRouting
<1>3. CASE HandleUpdate(i)
  <2>1. DealerReceive(Server(i)) /\ UNCHANGED <<id2addr, bufmsg, hand>>
    BY <1>3 DEF HandleUpdate, ServerTakes
  <2>2. m \in Routed(Server(i)) /\ \A b \in Address : down'[b] \in Seq(Routed(b))
    BY <1>0, <2>1, PipesRouted
  <2>3. \A b \in Address : up'[b] \in Seq(Outgoing(b))
    <3>1. CASE m.v <= version[m.target]
      <4> DEFINE ans == UpdateResponse(m, VersionAfterUpdate(m.target), ValueAfterUpdate(m))
      <4>1. DealerSend(Server(i), ans)
        BY <1>3, <3>1 DEF HandleUpdate
      <4>2. ans.src = Server(i)
        BY <2>2 DEF Routed, UpdateResponse
      <4>3. ans \in Message
        BY <1>3, <3>1, ServedAnswer DEF HandleUpdate
      <4>4. ans \in Outgoing(Server(i))
        BY <4>2, <4>3 DEF Outgoing
      <4> HIDE DEF ans
      <4> QED
        BY <1>0, <4>1, <4>4, PipesRouted
    <3>2. CASE ~ (m.v <= version[m.target])
      BY <1>0, <1>3, <3>2, PipesRouted DEF HandleUpdate
    <3> QED
      BY <3>1, <3>2
  <2> QED
    BY <2>1, <2>2, <2>3, DealerRouting
<1>4. CASE RequeueUpdate(i)
  <2>1. /\ DealerReceive(Server(i)) /\ UNCHANGED <<id2addr, bufmsg, hand>>
        /\ up' = [up EXCEPT ![Server(i)] = @ \o <<m>>]
    BY <1>4 DEF RequeueUpdate, ServerTakes, Requeued
  <2>2. m \in Routed(Server(i)) /\ \A b \in Address : down'[b] \in Seq(Routed(b))
    BY <1>0, <2>1, PipesRouted
  <2>3. m \in Outgoing(Server(i))
    BY <2>2 DEF Routed, Outgoing, Received
  <2>4. <<m>> \in Seq(Outgoing(Server(i)))
    BY <2>3, SeqFacts
  <2>5. ASSUME NEW b \in Address PROVE up'[b] \in Seq(Outgoing(b))
    <3>1. up[b] \in Seq(Outgoing(b)) /\ up[Server(i)] \o <<m>> \in Seq(Outgoing(Server(i)))
      BY <1>0, <2>4, ConcatProperties DEF RoutingInv
    <3> QED
      BY <2>1, <3>1 DEF TypeOK, FabricTypeOK
  <2> QED
    BY <2>1, <2>2, <2>5, DealerRouting
<1>5. CASE ServerInterrupted(i)
  <2>1. UNCHANGED <<up, down, id2addr, bufmsg, hand>>
    BY <1>5 DEF ServerInterrupted, fabricvars
  <2> QED
    BY <1>0, <2>1, PipesRouted, DealerRouting
<1> QED
  BY <1>1, <1>2, <1>3, <1>4, <1>5

\* The router reads dealer d's pipe: the only step that writes the table.
LEMMA ReceiveRouting ==
  ASSUME TypeOK, RoutingInv, NEW d \in Address, RouterReceive(d)
  PROVE  RoutingInv'
<1> DEFINE m == Head(up[d])
<1>1. m \in Outgoing(d) /\ Tail(up[d]) \in Seq(Outgoing(d))
  BY SeqFacts DEF RouterReceive, RoutingInv
<1>2. m \in Message /\ m.src \in Address /\ (m.src = d \/ Known(m.src))
  BY <1>1 DEF Outgoing, Received
<1>3. id2addr \in [Address -> Address \cup {Nil}] /\ Nil \notin Address
  BY Assumption DEF TypeOK, FabricTypeOK
<1>4. TableTruthful' /\ id2addr'[m.src] # Nil /\ \A a \in Address : Known(a) => Known(a)'
  <2>1. CASE Unlearnt(m.src)
    <3>1. id2addr' = [id2addr EXCEPT ![d] = d] /\ m.src = d
      BY <1>2, <2>1 DEF RouterReceive, Unlearnt
    <3> QED
      BY <1>3, <3>1 DEF RoutingInv, TableTruthful, Known
  <2>2. CASE ~ Unlearnt(m.src)
    <3>1. UNCHANGED id2addr
      BY <2>2 DEF RouterReceive
    <3> QED
      BY <2>2, <3>1 DEF RoutingInv, TableTruthful, Known, Unlearnt
  <2> QED
    BY <2>1, <2>2
<1>5. /\ Received \subseteq Received'
      /\ \A a \in Address : Outgoing(a) \subseteq Outgoing(a)' /\ Routed(a) \subseteq Routed(a)'
  BY <1>4 DEF Received, Outgoing, Routed, Message, Requests, Pings
<1>6. hand' \in Seq(Received')
  <2>1. Received' = {x \in Message : x.src \in Address /\ id2addr'[x.src] # Nil}
    BY DEF Received, Known, Message, Requests, Pings
  <2>2. m \in Received'
    BY <1>2, <1>4, <2>1
  <2> QED
    BY <2>2, SeqFacts DEF RouterReceive
<1>7. ASSUME NEW a \in Address PROVE up'[a] \in Seq(Outgoing(a)')
  <2>1. up'[a] \in Seq(Outgoing(a))
    BY <1>1 DEF RouterReceive, RoutingInv, TypeOK, FabricTypeOK
  <2> QED
    BY <1>5, <2>1, SeqMonotone
<1>8. ASSUME NEW a \in Address
      PROVE  down'[a] \in Seq(Routed(a)') /\ bufmsg'[a] \in Seq(Routed(a)')
  <2>1. down'[a] \in Seq(Routed(a)) /\ bufmsg'[a] \in Seq(Routed(a))
    <3>1. CASE Unlearnt(m.src)
      <4>1. /\ down' = [down EXCEPT ![d] = @ \o bufmsg[d]]
            /\ bufmsg' = [bufmsg EXCEPT ![d] = << >>]
        BY <1>2, <3>1 DEF RouterReceive, Unlearnt, Flush
      <4>2. down[d] \o bufmsg[d] \in Seq(Routed(d))
        BY SeqFacts DEF RoutingInv
      <4> QED
        BY <4>1, <4>2 DEF RoutingInv, TypeOK, FabricTypeOK
    <3>2. CASE ~ Unlearnt(m.src)
      BY <3>2 DEF RouterReceive, RoutingInv
    <3> QED
      BY <3>1, <3>2
  <2> QED
    BY <1>5, <2>1, SeqMonotone
<1> QED
  BY <1>4, <1>6, <1>7, <1>8 DEF RoutingInv

\* Router::Send passes a message on to the dealer of its dst, or keeps it
\* in the buffer of its dst.
LEMMA DispatchRouting ==
  ASSUME TypeOK, RoutingInv, StubDispatch
  PROVE  RoutingInv'
<1> DEFINE m == Head(hand)
<1>1. m \in Received
  BY SeqFacts DEF StubDispatch, RoutingInv
<1>2. /\ UNCHANGED <<up, id2addr>>
      /\ hand' \in Seq(Received)
  BY DEF StubDispatch
<1>3. \A a \in Address : down'[a] \in Seq(Routed(a)) /\ bufmsg'[a] \in Seq(Routed(a))
  <2>1. CASE m.dst = Stub
    BY <2>1 DEF StubDispatch, RoutingInv
  <2>2. CASE m.dst # Stub
    <3>1. m.dst \in Address /\ m \in Routed(m.dst)
      BY <1>1, <2>2, MessageFields DEF Received, Routed
    <3>2. RouterSend(m)
      BY <2>2 DEF StubDispatch
    <3>3. CASE Known(m.dst)
      <4>1. down' = [down EXCEPT ![m.dst] = Append(@, m)] /\ UNCHANGED bufmsg
        BY <3>1, <3>2, <3>3 DEF RouterSend, RoutingInv, TableTruthful, Known
      <4>2. Append(down[m.dst], m) \in Seq(Routed(m.dst))
        BY <3>1, SeqFacts DEF RoutingInv
      <4>3. down'[m.dst] = Append(down[m.dst], m) /\ \A a \in Address : a # m.dst => down'[a] = down[a]
        BY <3>1, <4>1 DEF TypeOK, FabricTypeOK
      <4> QED
        BY <4>1, <4>2, <4>3 DEF RoutingInv
    <3>4. CASE ~ Known(m.dst)
      <4>1. bufmsg' = [bufmsg EXCEPT ![m.dst] = Append(@, m)] /\ UNCHANGED down
        BY <3>2, <3>4 DEF RouterSend
      <4>2. Append(bufmsg[m.dst], m) \in Seq(Routed(m.dst))
        BY <3>1, SeqFacts DEF RoutingInv
      <4>3. bufmsg'[m.dst] = Append(bufmsg[m.dst], m) /\ \A a \in Address : a # m.dst => bufmsg'[a] = bufmsg[a]
        BY <3>1, <4>1 DEF TypeOK, FabricTypeOK
      <4> QED
        BY <4>1, <4>2, <4>3 DEF RoutingInv
    <3> QED
      BY <3>3, <3>4
  <2> QED
    BY <2>1, <2>2
<1>4. /\ Received' = Received /\ TableTruthful' = TableTruthful
      /\ \A a \in Address : Outgoing(a)' = Outgoing(a) /\ Routed(a)' = Routed(a)
  BY <1>2, SameTable
<1>5. \A a \in Address : up'[a] \in Seq(Outgoing(a)')
  BY <1>2, <1>4 DEF RoutingInv
<1>6. \A a \in Address : down'[a] \in Seq(Routed(a)') /\ bufmsg'[a] \in Seq(Routed(a)')
  BY <1>3, <1>4
<1>7. TableTruthful' /\ hand' \in Seq(Received')
  BY <1>2, <1>4 DEF RoutingInv
<1> QED
  BY <1>5, <1>6, <1>7 DEF RoutingInv

\* RoutingInv is inductive, given the types.
LEMMA RoutingStep == TypeOK /\ TypeOK' /\ RoutingInv /\ [Next]_vars => RoutingInv'
<1> SUFFICES ASSUME TypeOK, TypeOK', RoutingInv, [Next]_vars PROVE RoutingInv'
  OBVIOUS
<1>1. ASSUME NEW g \in Groups,
             TestPass(g) \/ Collect(g) \/ Forward(g) \/ Backward(g) \/ WorkerInterrupted(g)
      PROVE  RoutingInv'
  BY <1>1, WorkerRouting
<1>2. ASSUME NEW i \in 0 .. NServers - 1,
             \/ ServerConnect(i) \/ HandlePut(i) \/ HandleUpdate(i) \/ RequeueUpdate(i)
             \/ ServerInterrupted(i)
      PROVE  RoutingInv'
  BY <1>2, ServerRouting
<1>3. ASSUME NEW a \in Address, StubReceive(a) PROVE RoutingInv'
  BY <1>3, ReceiveRouting DEF StubReceive
<1>4. CASE StubSend
  BY <1>4, DispatchRouting DEF StubSend
<1>5. CASE StubInterrupted \/ UNCHANGED vars
  <2>1. UNCHANGED <<up, down, id2addr, bufmsg, hand>>
    BY <1>5 DEF StubInterrupted, vars, fabricvars
  <2>2. \A a \in Address : up'[a] \in Seq(Outgoing(a)) /\ down'[a] \in Seq(Routed(a))
    BY <2>1 DEF RoutingInv
  <2> QED
    BY <2>1, <2>2, DealerRouting
<1> QED
  BY <1>1, <1>2, <1>3, <1>4, <1>5 DEF Next

\* The router never learns an address behind another's dealer, whatever the
\* servers bounce and in whatever order threads connect (Router::Receive).
THEOREM RoutingCorrect == Spec => []TableTruthful
<1>1. RoutingInv => TableTruthful
  BY DEF RoutingInv
<1> QED
  BY <1>1, RoutingInit, RoutingStep, TypeCorrect, PTL DEF Spec
=============================================================================
