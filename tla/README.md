# Verification of singa

TLA+ models of the parameter-server training system in this repository, the
TLC runs that check them and the TLAPS proofs about them.  Paths are those of
the repository.

## 1. The system

singa trains a neural network with *worker groups* that compute gradients and
*servers* that hold the parameters.  Every server and worker is a thread; the
main thread of each process, the *stub*, routes their messages.

| Component | Code | State | Operations | Talks to |
|---|---|---|---|---|
| Message fabric | `src/communication/socket.cc` | pipes of each Dealer; Router: `id2addr_`, `bufmsg_`, `nBufmsg_` | `Dealer::Send/Receive`, `Router::Send/Receive` | all threads |
| Msg | `include/communication/msg.h` | addresses, type, target packed in words; frames | set/get, `SwapAddr`, `CopyAddr`, dump and parse | carried by the fabric |
| Stub, start-up | `src/trainer/trainer.cc` | inter-process dealers | `Start`, `Run`, `ProcsIDOf` | Router, creates all threads |
| Worker | `src/trainer/worker.cc` | `step_`, nets | `Setup`, `Run`, `RunOneBatch`, `Collect`, `Forward`, `Backward`, `Test` | PMWorker, Dealer |
| PMWorker | `src/trainer/pm_worker.cc` | ParamShard: counters per parameter | `Put`, `Get`, `Update`, `Collect`, `Sharding` | builds messages |
| Server, PMServer | `src/trainer/server.cc`, `pm_server.cc` | ParamShard map | `Run`, `HandlePut/Get/Update/Sync*` | Dealer |
| Param | `src/utils/param.cc` | version, data, gradient | generate, parse and handle messages | PMWorker, PMServer |
| DataShard | `src/utils/data_shard.cc` | file, buffer, offsets, `keys_` | open in three modes, `Insert`, `Flush`, `Next`, `SeekToFirst`, `Count` | loader tool, data layer |
| Data and parser layers | `src/neuralnet/layer.cc`, `include/neuralnet/base_layer.h` | records, `prefetch_data_`, `ready_` | `ComputeFeature`, `Prefetching` | DataShard, worker and prefetch thread |
| NeuralNet, Graph | `src/neuralnet/neuralnet.cc`, `src/utils/graph.cc` | layers, graph nodes | partition, connect, sort, share parameters | built by Trainer |
| Cluster | `src/utils/cluster.cc` | configuration | groups and processes | Trainer, PMWorker |
| Updater | `src/utils/updater.cc` | history | update with a learning-rate schedule | PMServer |
| Blob, SyncedMemory | `src/utils/blob.cc` | head, CPU and GPU pointer | access and synchronise | layers, Param |

What is hard about it:

* **Concurrency and order.** Workers' and servers' messages cross in the
  router. A message may be sent before its destination has connected; the
  router keeps it. An update may reach a server before the Put of its
  parameter; the server sends it back and it circulates. Putting is never
  acknowledged.
* **Stale state.** A worker decides by *version* whether its copy is recent,
  and all groups raise the same version.
* **Failure.** A signal makes a blocked receive return null, which the worker,
  the server and the stub each handle differently. `CHECK` aborts the process.
* **Crashes.** The loader of a DataShard may die in the middle of a write and
  is run again in append mode.
* **Boundaries.** The router's buffer, the shard's read and write buffers, the
  first and last step, cluster shapes.

What makes each component correct: the fabric is FIFO and exactly once for each
pair of addresses; a parameter is placed once and takes every gradient once, bulk
synchronous within a group; every group finishes; a shard keeps what was flushed
and stores a key once; a prefetched batch is consumed once and by the step it is
meant for; a partitioned net depends on what the net depended on, in an order
that respects it; every address is routed to a process that launches its thread.

## 2. Modules

| Module | Models |
|---|---|
| `Router` | the fabric as a data structure: pipes, table, buffers, count; its operations are conjoined by the modules that instantiate it |
| `FifoPairs` | abstract: what the fabric promises |
| `RouterSys` | the fabric with talking threads around it and the stub's loop |
| `ParamStore` | abstract: what the servers promise the groups |
| `ParamServer` | workers, servers and stub of one process over `Router` |
| `Topology` | the threads each process of a cluster launches, and where messages between them go |
| `DataShard` | the record file over sessions of writing, crashing, appending, reading |
| `Prefetch` | data layers, parser layers and the prefetching thread |
| `NetGraph` | the graph of a net and its partitioning |
| `Division` | lemmas about `\div` and `%` |
| `ParamServerProofs`, `StoreProofs` | theorems about `ParamServer`: types and routing; what it computes |
| `RouterProofs` | theorems about `RouterSys`: order and exactly once, the router's count |
| `TopologyProofs`, `PrefetchProofs`, `ShardProofs`, `NetGraphProofs` | theorems about `Topology`, `Prefetch`, `DataShard` and `NetGraph` |
| `MCRouter`, `MCParamServer`, `MCTopology`, `MCDataShard`, `MCPrefetch`, `MCNetGraph` | instances for TLC |

`Router` is instantiated by `RouterSys` and by `ParamServer`; `FifoPairs` and
`ParamStore` are what these two implement. `Topology` leaves the order of
messages to them and looks at several processes, which they do not. `Prefetch`
stands on what `DataShard` says of `Next` at the end of a file.

### Router, RouterSys

`up[a]` and `down[a]` are the two pipes of the dealer of `a`'s owner; a dealer
and the logical address of its owner are told apart (`id2addr` maps one to the
other), because a bounced request arrives from a server's dealer with a
worker's `src`. `RouterReceive` is the whole of `Router::Receive` (pop, learn,
flush); `StubDispatch` is one turn of the switch in `Trainer::Run` with all of
`Router::Send`, whose failing `CHECK_LE` sets `process` to `"aborted"`. Between
the two the stub holds the message in `hand`. The destruction of `bufmsg_[a]`
after a flush is its emptiness.

In `RouterSys` messages are numbers within a source-destination pair, so that
FIFO and exactly once are the refinement of `FifoPairs` (`ImplementsFifoPairs`).

### ParamServer

| Code | Model |
|---|---|
| `Worker::Setup` of group 0 (before the threads start) | `Init`: the Puts are in the dealer's pipe |
| `Worker::Collect` and `PMWorker::Collect` | `Collect`: one turn of the loop |
| `BPWorker::Forward` | `Forward`: parameter by parameter, when `Collect` would return 1 |
| `BPWorker::Backward`, `PMWorker::Update`, `StopNow` | `Backward` |
| `Server::Run` | `ServerConnect`, then one action per message type |
| `Worker::RunOneBatch` before training, `Worker::Test` | `TestPass`, in phase `"test"` when `EvaluateNow` holds |
| `PMWorker::Update` of a shared parameter (hogwild) | `CountUpdate` |
| `PMServer::HandleUpdate` | `HandleUpdate` (parameter present, including the failing CHECK) and `RequeueUpdate` (absent) |
| receive interrupted | `WorkerInterrupted`, `ServerInterrupted`, `StubInterrupted` |

Values are sets of contributions: the initial value and the gradients
`<<group, step>>`; the updater joins. `ValueAfterUpdate` therefore says which
gradients are in a copy and not their sum. Messages carry what the handlers
read. `MaxSignals` bounds the interruptions and `TrainSteps` the run.

A validation and a test pass are one action: they read the copies and change
nothing else. With `Hogwild` the groups behind the first share its memory
(`DataOf`) and count their updates instead of sending them (`nGet`).

Assumed: one process and one server group (`Topology` has several); one worker
per group (the default `group_size` of 1 puts every layer there); no parameter
shared between layers of one net. `Worker::Get` never sends (after `Put` the
version is the step), so `kGet` does not occur. The servers of a process share a
`std::map` without a lock and `sscanf` reads a frame without a terminator:
handlers are atomic here and versions are read as sent; both are listed as
hazards.

### Topology

`c` is the configuration; the operators down to `ProcsIDOf` are the integer
arithmetic of `Cluster`, `Trainer::Start` and `ProcsIDOf`, word for word
(divisions round down, all numbers are natural). `ServersOf` and `WorkersOf` are the
loops that launch threads. Around them a step of training is played once:
`Start` (with the CHECK and the division that can fail), group 0's Puts,
`Backward`, the stub's `Route`, the handlers, `Collect`. `stuck` holds what the
stub has sent to another process: its dealer is never connected, so the stub
does nothing more (`StubFree`). `Regular` says in one place which
configurations the two sides of the arithmetic agree for; `OneTrainer` holds of
all.

### Prefetch

A record is its index in the source, a batch a function from places to records.
`Filler` is the thread that runs the data layer. `ReadRecord` is one turn of the
loop over `records_`, `Take` and `Hand` the two sides of ParserLayer's handshake
(each under its mutex, so one action), with `Wait` when the condition is not
met and `Wake` for a spurious wake-up. The prefetching thread's loop is the one
`worker.cc` keeps as a comment (`Executor::PrefetchData`); without it the worker
fills and parses itself, and both are initial states of the same run.
`RecordOf` says in closed form which record belongs in a place of a step's batch.

### NetGraph

Nodes are numbers; `graph` has their names, origins, locations, neighbours in
order and `nodes_`. The layers are created in the order of the first sort, then
each gets its nodes (`layer2nodes`), then each source of each layer is connected in a
step: each branch of `CreatePartitonedGraph` is an action. `todo` and `walk` are what
the loops have left, the inner one over a copy where the code copies. The sort is
modelled call by call: `Root` is its loop over the nodes, `Descend` one turn of
the loop of `topology_sort_inner` (from the last neighbour), `Put` the end of a
call; `walk` is then the stack of calls. Names are tuples: they can coincide, as
in the code, and `visited`, `stack` and `RemoveEdge` go by names as the code does.
Layers are told from the nodes between them by their origin, as the code does, so
no layer may be called `kSlice` and the like (`NetGraphAssumption`). A net is any
function from layers to sequences of distinct sources without cycles, with any
types and connections. `NeuralNet`'s `group_size` defaults to 1 and no caller passes
another: partitioning is complete code that today only a caller of the
constructor reaches.

### DataShard

The file is a sequence of cells, one per length word and one per byte; a cell is
a number, so bytes found where a length is expected are used as one, as in the
code. The writer has what is in `buf_`, and what it has given to `fstream`
(`pending`) which a crash cuts at any point. `Scan` is the walk of
`PrepareForAppend` and `Count`. The reader is the record `rd`: `Prepared` is
`PrepareNextField` (what is left in the buffer moves to its front at the end of
the file too), `TakeField` adds the `CHECK_LE` that follows it, `TakeWord` and
`TakeData` are a length and what has that length, `ReadNext` is `Next`. `queued`, `sent`, `flushed`, `offered` and `durable` are history.
Keys are shorter than the 256 bytes `PrepareForAppend` reserves.

## 3. Runs

| Run | Instance | Shows |
|---|---|---|
| `fabric` | a worker and two servers, three talking pairs, two messages each, buffer 4 | `ImplementsFifoPairs`: order and exactly once through buffering and flush. `CountCoversKept`: the router's count is never below what it keeps. `PostedIsTaken`: everything posted arrives |
| `train` | 2 groups, 2 servers, 2 parameters, 2 steps, a test pass before step 1, 1 signal, buffer 6 | types; at most one update per group and parameter under way; a layer computes with the group's own earlier gradients and, behind the first step, with initialised values; no CHECK fails; at the end nothing is lost; the table is truthful; the servers implement `ParamStore` |
| `train_live` | 2 groups, 1 server, 2 parameters, 3 steps, test passes, no signal | every group finishes; a test pass lags training by one step and no more |
| `resume` (violation) | first step 1 | groups other than 0 wait for ever (resuming is still a TODO in `worker.h:157` and `trainer.h:33`, but `step` is read) |
| `hogwild` (violation) | 2 groups that share values | the group that shares never sends a gradient and waits for ever |
| `shard` | four tuples (small, two-cell, one with a long key, one larger than the buffer), buffers 8 and 9, five sessions | flushed tuples survive and stay in order, cells before the last flush never change, `kAppend` and `Count` find every flushed tuple (`FlushedFound`), keys are stored once, `Count` covers what is read |
| `shard_torn` (violation) | four sessions | a tuple torn in its value is taken for complete |
| `shard_end` (violation) | four sessions | the end of a file can abort the process |
| `prefetch` | 2 parsers, 5 records, batches of 2, skips up to 2, 8 steps, shard and LMDB, with and without the thread | each step's parsers all hold that step's batch; every step is fed |
| `topology` | every configuration with numbers 1 to 3 and at most two processes | in regular clusters messages go where their thread is launched; no group is trained twice; one process serves every group |
| `cluster` (violation) | two worker groups in a process each | what goes to another process is never delivered |
| `netgraph` | every acyclic net of 3 layers, 3 partition types, 2 connections, 2 locations, groups of 2 and 3 | types; the partitioned graph keeps the dependencies, is sorted, bridged exactly at borders, whole at every slice and concatenation, in order of partition there but for those behind bridges (`PiecesInOrder`), and splits every fan-out |

Why the bounds are enough. *fabric*: one pair to each of two silent servers and
one answering pair give every order of learning, keeping and flushing, and two
messages per pair are the least that can be reordered. *train*: two groups are
the least that raise each other's versions; two servers the least with separate
late connections; two parameters the least for which one can be ahead of the
other; with two steps a worker waits for answers once. The buffer of 6 =
parameters × (1 + groups) is the exact number of messages that can be counted
before the router knows both servers; 5 fails. One signal reaches each of the
three handlers in every state. *train_live* has one server to keep the
temporal check small; bouncing does not need a second; the third step is the
first whose test pass can miss a gradient that is two steps old. *shard*: five
sessions allow write, crash, append, crash, append (or read). *prefetch*: the
thread runs ahead by one batch, so two parsers are the least that can be a batch
apart; an odd number of records over batches of two ends the source inside a
batch, and eight steps pass its end three times. *topology*: with numbers up to
3 a group fills one process, several, or a part of one, evenly or not; a third
process adds nothing that the second does not show, and the theorems cover all
configurations. *netgraph*: three layers give every pair of connections in
sequence, a fan-out, a fan-in and a diamond's half; a group of three is the
least in which a bridge can reorder.

What the violation runs do not cover is in `PROJECT.json` under "findings"
without a run. Three of these can be seen with the models: a buffer of 2 in
`fabric` makes the router give up with two messages kept; `Resubmits = TRUE` in
`shard` violates `KeyStoredOnce`; and the nets with repeated names are those
`DistinctNames` excludes in `netgraph`.

What the passing runs leave to others. `NoCheckFails` is checked with passes that
have steps; a pass that is due without any dereferences null, which a finding
describes. `ImplementsParamStore` says nothing of the stub's `exit(0)`: nothing
outlives it. `KeyStoredOnce` is about a key stored twice; that a key is wrongly
refused because its tuple was torn in the value is `shard_torn`. `StepReadsItsBatch`
takes the end of a shard to make `Next` return false; where it aborts instead is
`shard_end`. `OnePieceEach` compares sets of pieces; `PiecesInOrder`
says what order they are in, and that bridged ones come last is a finding. `OneTrainer` is about worker groups, `RoutedWhereLaunched` about
server ids too.

Deadlock is not checked: all systems end (train steps used up, bounds reached,
process ended).

Fairness. `FairSpec` assumes weak fairness of each thread (the operating system
schedules it; every blocking wait is a guard) and strong fairness of
`StubReceive(a)` for every dealer: ZeroMQ's ROUTER socket fair-queues its
pipes, so a pipe that has a message again and again is read, even while a
bouncing update keeps the stub busy. Interruptions are not fair. `Topology`
assumes the same of `Route`, per kind of message, because its pipes are sets.
`Prefetch` assumes weak fairness of the two threads and nothing of `Wake`: a
lost notification would not be repaired by a spurious wake-up.

## 4. Proofs

`ParamServerProofs` holds, for all values of the constants that satisfy
`Assumption` (positive numbers of groups, servers and parameters, `FirstStep` <
`TrainSteps`, `BackwardOrder` an order of all parameters):

* `TypeCorrect`: `Spec => []TypeOK`. `TypeOK` is inductive; its parts are the
  fabric, the workers and the servers, with one lemma for each. The one place
  that needs the code's CHECK is the answer to an update (`ServedAnswer`): the
  version it raises cannot be the -1 of an absent parameter.
* `RoutingCorrect`: `Spec => []TableTruthful`. The table alone is not
  inductive: that an address is learnt behind its own dealer depends on what is
  in the pipes. `RoutingInv` says that what the router has passed on or kept
  has a known source and lies where its `dst` says (`Routed`), and what is on
  its way to the router is its owner's or has a known source (`Outgoing`).
  Sequences over these sets turn the invariant into a typing argument:
  `SeqFacts` for the queue operations, `SeqMonotone` for the step that learns.

`StoreProofs` says under the same assumptions what the workers and the servers
compute:

* `UpdatesSingle` (`OneUpdateUnderWay`), `OwnGradientsRead`
  (`ReadsOwnGradients`), `InitialValuesRead` (`UninitialisedOnlyAtFirst`) and
  `TestLag` (`TestLagsOneStep`), with and without hogwild and for every
  schedule of test passes; `GradientsKept` (`NothingLost`) without hogwild,
  where the code does lose what a sharing group computes (run `hogwild`).
* `StoreImplemented`: `Spec => ImplementsParamStore`. A Put places a parameter
  that has no value, an update joins a gradient whose predecessors of the same
  group are there, and every other step, bouncing included, stutters.

None of these is inductive. A worker goes on when its copy's version is behind
its step, but every group raises that version, so the version alone says
nothing of the group's *own* gradients. `StoreInv` says where each update is:
it is a message under way, alone in concerning its group and parameter
(`UpdateInv`, `MessagesInv`), or the server has it (`ServerInv`: the value has
the group's gradients up to the last sent, less the one under way) and, when no
answer is under way, so has the copy (`CopyInv`). `PutInv` says that a Put
under way is the only one of its parameter, which no server has yet,
`ComputeInv` that no update is under way of what a worker has computed with
since it last sent, and `CourseInv` bounds a worker's step in each phase. Most steps
only move a message from one queue to another; the invariant speaks of messages
through two predicates (some message of a set is under way; at most one is),
and the lemmas at the head of the module show that a move keeps both (`Passed`,
`Joined`). What remains are
the three steps that create a message: `PutStep`, `BackwardStep`, `UpdateStep`.
On the way `UpdateArrives` shows that the `CHECK_LE` of `HandleUpdate` never
fails.

* `ChecksPass`: `Spec => []NoCheckFails`, under three hypotheses that each rule out
  an abort the code has. `Roomy`: the router's buffer has room for a Put of every
  parameter and an update of every parameter by every group. `PassesHaveSteps`: a
  validation or test pass that is due has steps (`Worker::Test` aborts otherwise).
  `CounterMisses`: with hogwild training does not begin at step 1.

The hard one is the `CHECK_LE(nBufmsg_, bufsize_)` of `Router::Send`: a flush does
not lower the count, so what bounds it is how many messages can *ever* be kept. A
ticket is a parameter's Put or a group's updates of a parameter; it is used when its
message is kept, or its destination known. Keeping a message uses a ticket that
was not used (a group that waits for the answer to its first update sends no
second, `KeepingUses`), no ticket becomes unused again (`TicketsStay`), and so
`TicketsInv`, the count is at most the number of used tickets, is inductive; its
bound is the cardinality of a product. Answers are never kept (`AnswersInv`): who
is answered has sent something. The instance of `train` meets `Roomy` with equality.

`RouterProofs` holds for any set of addresses, any talking pairs, any number of
messages and any buffer size:

* `FabricFifo`: `Spec => ImplementsFifoPairs`. On the way from one thread to another
  a pair's messages lie in four queues: the sender's pipe, the stub's hand, the
  router's buffer, the receiver's pipe. `PathInv` says that each holds a *run* of
  consecutive numbers that begins where the run of the queue ahead ends; a step
  moves the end of one run and the beginning of the next, and a flush joins two
  (`JoinedRuns`). `PlaceInv` says that a queue holds only messages that belong
  there, and that nothing is kept for an address that is known.
* `CountBounds`: `Spec => []CountCoversKept`. `Kept` is the cardinality of the set of
  slots of all buffers; a send adds one slot and one to the count, a flush takes
  slots away and leaves the count.

`TopologyProofs` holds for every configuration of positive numbers:

* `ClusterRouted`: `Spec => []RoutedWhereLaunched`. The heart is arithmetic:
  `ServerPlaced` and `WorkerPlaced` show that the process `ProcsIDOf` computes
  exists and that its launched range contains the id. The prover knows nothing of
  quotients of products, so `Division` states the few facts needed (existence,
  uniqueness, monotonicity) and each step names the ones it uses.
* `TrainedOnce`: `Spec => []OneTrainer`, from `LeaderUnique`: two processes
  whose range begins with a group's worker 0 are one process.

`PrefetchProofs` holds for any number of parsers and records, any batch size,
skip and number of steps:

* `PrefetchCorrect`: `Spec => []StepReadsItsBatch`. The invariant says what is in
  `records_` while it is filled (`Filled`: the places before `slot` have this
  round's record, the others the last round's), how far the two threads can be
  apart at each parser, and what `prefetch_data` holds when it is ready. `PlaceRead` is the
  arithmetic of the closed form at the end of a shard and around an LMDB.

`ShardProofs` holds for any tuples with an encoding, any buffer capacities, any
number of sessions and any crashes:

* `ShardTypes`: `Spec => []TypeOK`. The reader's part is `TakesField`: whatever is in
  the file, a field that is taken has the length asked for and the reader stays
  inside its buffer and the file.
* `FlushedAreFound`: `Spec => []FlushedFound`, and `FlushedStays`:
  `Spec => FlushedUntouched`. The invariant `ShardInv` says that the walk over the
  file reaches the end of what was flushed (`Complete`) and, while a session
  writes, the put pointer, which is not before it (`PointerInv`); and that what is
  not yet in the file is whole tuples (`UnwrittenInv`). A write at an offset the
  walk reaches leaves the walk up to there as it was (`WalkKept`), and the walk goes
  on over whole tuples written there (`TuplesRead`). A torn tuple behind the flushed
  ones does no harm to them: `kAppend`'s walk comes at least as far as the flushed end.

`Scan` is a recursive function of the offset. That it is defined at all and finds
what the walk finds (`ScanDefined`, `ScanWalks`) is proved by descent on the
distance to the end of the file, from the existence of a least number (`LeastOf`,
by well-foundedness). "The walk reaches offset `o` after `n` tuples" (`Reaches`) and
"these cells spell these tuples" (`Spells`) are membership in every set closed under
one step, so that an induction over them is a choice of such a set and needs no
theorem with an operator as a parameter.

`NetGraphProofs` holds for every list of layers, every net without cycles over them,
every mix of types, connections and locations, and every group size above 1:

* `NetGraphTypes`: `Spec => []TypeOK`, whether names repeat or not.
* `DependenciesAreKept` (`DependenciesKept`), `SourcesComeFirst` (`SourcesFirst`),
  `BordersAreBridged` (`BridgedAtBorders`), `PiecesAreWhole` (`OnePieceEach`) and
  `FanOutsAreSplit` (`FanOutIsSplit`): what is built from a net whose nodes have
  names of their own.

The inductive invariant is `IInv`: types, what the configuration says (`NetInv`), which
nodes are a layer's parts (`PartsInv`), and, while the names differ, `Body`. That
they will differ at the end need not be guessed: no step up to the sort that
follows the connections looks at the name of a node between layers, so `Body` is
kept until then whatever the names (`Sane`); from then on nodes are only added, so
names that differ behind a step differed before it. The parts of `Body`:

* `Ranked`: some function on the nodes goes up along every edge. While layers are
  connected a layer's node has four times the rank of its layer, which leaves room
  for the slice and the concatenation between two layers; a split or a bridge put
  on an edge later makes the graph deeper, and the function is stretched. The sort
  needs it: its calls climb (`ClimbInv`), so it never comes back to a node whose
  call has not ended, and what is put down leads only to what was put down before
  (`StackInv`). Every node is visited, put down or on its way there (`SeenInv`,
  `CallInv`).
* `Fed`: some function says of each node which layers' nodes come into it, and for
  a layer's part that is what the part `Wants` of the sources connected so far. Along
  edges that go up there is one such function only (`FeedUnique`, by a node of least
  rank where two differ), so at the end it is `Feeds`, and `Wants` is `Needs`.
* `BorderInv`, `PieceInv`, `FanInv`, `KindsInv`: which edges between locations are
  still to be bridged (`Unbridged`: those of nodes the loop has not reached, and those
  its copy has left), which pieces slices and concatenations have, seen past the
  bridges, and that the first node, which is never split, is a data layer.

There are two kinds of step that change the graph. A `LinkStep` connects a source with a
layer through new nodes; a `Detour` puts a split or a pair of bridges where an edge was.
Each branch of the code is shown to be one or the other, and `LinkRanked`, `LinkFed`,
`DetourRanked` and `DetourFed` say once what these do to ranks and feeds.

What the theorems rest on besides `NetGraphAssumption` is in `Init`: no cycles, no
source named twice by one layer, and that a layer without sources is not partitioned.

Only model-checked:

* `PiecesInOrder` of `NetGraph`. For concatenations it rests on the order in which the
  sort comes to the parts of one layer, which `IInv` does not say: it knows of two
  nodes only that one is behind the other if an edge leads there.
* Liveness under fairness (`PostedIsTaken`, `AllGroupsFinish`, `EveryStepFed`) and
  what is about ENABLED: out of the prover's reach.
* `ServedInOneProcess`, a liveness property of `Topology`.
* Of `DataShard`, `FlushedReadable`, `KeyStoredOnce` and `CountCoversRead`. The first
  two hold of the instance and not of all constants: cells are numbers, so there are
  tuples whose *keys* spell tuples; one that was torn in its header and overwritten by
  a shorter tuple leaves cells behind it that are read as a tuple nobody stored.
  `CountCoversRead` compares two recursive walks, `Scan` and the reader, over any torn
  file; TLC finds no instance against it, but there is no proof.

## 5. Plan

1. Proofs: `FlushedReadable` for tuples whose keys cannot be taken for tuples.
2. `MsgAddr`: the packing of addresses into 32-bit words.
3. `NeuralNet::SetupNeuralNet` and `ShareParams` over nets with excluded layers.

## 6. Not modelled

Layer arithmetic, updater arithmetic, initialisation of values, option parsing,
factories, generated protobuf code, the mshadow tensor library and googletest:
no control whose properties these methods could check. MPI sockets are stubs in
the source. The GPU side of `SyncedMemory` is compiled out (`CPU_ONLY`).

Most lines under `src/` are not the program's own: googletest, mshadow and the
generated protobuf classes are about four fifths of them, and a good part of the rest
is layer arithmetic. The map therefore covers a small share of all lines, and
most of those in `src/trainer`, `src/communication`, `src/utils/data_shard.cc`,
`graph.cc`, `cluster.*` and the partitioning in `neuralnet.cc`.
