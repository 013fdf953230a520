------------------------------- MODULE Prefetch -------------------------------
(***************************************************************************)
(* How records become the batches a net is trained with: a data layer      *)
(* (ShardDataLayer or LMDBDataLayer, src/neuralnet/layer.cc) fills a       *)
(* vector of records, and the parser layers above it (ParserLayer,         *)
(* include/neuralnet/base_layer.h) each parse it into a blob.  The worker  *)
(* does both, or a prefetching thread runs ahead of it and hands every     *)
(* parser's blob over under the parser's mutex and condition variable.     *)
(*                                                                         *)
(* A record is its index in the source.  Parsing keeps which record is in  *)
(* which place.  The loop of the prefetching thread is Executor's, which   *)
(* worker.cc keeps as a comment.                                           *)
(***************************************************************************)
EXTENDS Integers

CONSTANTS
  NParsers,     \* parser layers of the data layer, in the order of the net
  NRecords,     \* records in the source
  BatchSize,    \* DataProto.batchsize
  RandomSkip,   \* DataProto.random_skip
  TrainSteps,   \* steps of the worker and of the prefetching thread
  Unset         \* a record nothing was read into

ASSUME PrefetchAssumption ==
  /\ NParsers \in Nat \ {0}
  /\ NRecords \in Nat \ {0}
  /\ BatchSize \in Nat \ {0}
  /\ RandomSkip \in Nat
  /\ TrainSteps \in Nat
  /\ Unset \notin Nat

Parsers == 1 .. NParsers
Slots   == 0 .. BatchSize - 1
Threads == {"worker", "prefetcher"}
Batch   == [Slots -> (0 .. NRecords - 1) \cup {Unset}]

VARIABLES
  source,         \* "shard" or "lmdb": the class of the data layer
  prefetch,       \* prefetch_ of the data layer and its parsers
  cursor,         \* the record the source would give next
  random_skip,    \* random_skip_
  first,          \* history: the first record that goes into a batch
  records,        \* records_
  slot,           \* the place in records_ that is filled next
  at,             \* at[t]: 0 at the data layer, then the parser it is at
  round,          \* round[t]: batches thread t is through with
  data,           \* data[p]: data_, what the net above parser p reads
  prefetch_data,  \* prefetch_data[p]
  ready,          \* ready[p]
  waiting         \* waiting[p]: threads blocked in cv_.wait

datavars == <<cursor, random_skip, first, records, slot>>
handvars == <<prefetch_data, ready, waiting>>
vars == <<source, prefetch, datavars, at, round, data, handvars>>

----------------------------------------------------------------------------
(* Sources *)

\* Behind record i: LMDB's cursor restarts from the first, a shard stays at
\* its end.
Past(i) ==
  IF i < NRecords - 1 THEN i + 1 ELSE IF source = "lmdb" THEN 0 ELSE NRecords

\* n records on.
Skipped(i, n) ==
  IF source = "lmdb" THEN (i + n) % NRecords
  ELSE IF i + n < NRecords THEN i + n ELSE NRecords

----------------------------------------------------------------------------

\* The thread that runs DataLayer::ComputeFeature.
Filler == IF prefetch THEN "prefetcher" ELSE "worker"

\* With prefetch_ set the worker's call of a data layer does nothing.
Begin(t) == IF t = "worker" /\ prefetch THEN 1 ELSE 0

\* Setup of the data layer read one record as its sample; LMDB's is the
\* record its cursor rests on.  ParserLayer::set_prefetch reset ready_.
Init ==
  /\ source \in {"shard", "lmdb"}
  /\ prefetch \in BOOLEAN
  /\ cursor = (IF NRecords > 1 THEN 1 ELSE IF source = "lmdb" THEN 0 ELSE 1)
  /\ random_skip = RandomSkip
  /\ first = cursor
  /\ records = [i \in Slots |-> Unset]
  /\ slot = 0
  /\ at = [t \in Threads |-> Begin(t)]
  /\ round = [t \in Threads |-> 0]
  /\ data = [p \in Parsers |-> [i \in Slots |-> Unset]]
  /\ prefetch_data = [p \in Parsers |-> [i \in Slots |-> Unset]]
  /\ ready = [p \in Parsers |-> ~ prefetch]
  /\ waiting = [p \in Parsers |-> {}]

Runs(t) == round[t] < TrainSteps /\ (t = "prefetcher" => prefetch)

\* rand() % random_skip_ records are skipped before the first batch, by LMDB
\* from its first record.
SkipRecords ==
  /\ Runs(Filler) /\ at[Filler] = 0 /\ random_skip > 0
  /\ \E n \in 0 .. random_skip - 1 :
       cursor' = Skipped(IF source = "lmdb" THEN 0 ELSE cursor, n)
  /\ first' = cursor'
  /\ random_skip' = 0
  /\ UNCHANGED <<source, prefetch, records, slot, at, round, data, handvars>>

\* One turn of the loop over records_.  At the end of a shard Next returns
\* false, which is ignored: the record stays as it was.
ReadRecord ==
  /\ Runs(Filler) /\ at[Filler] = 0 /\ random_skip = 0
  /\ IF cursor < NRecords
     THEN /\ records' = [records EXCEPT ![slot] = cursor]
          /\ cursor' = Past(cursor)
     ELSE UNCHANGED <<records, cursor>>
  /\ IF slot = BatchSize - 1
     THEN slot' = 0 /\ at' = [at EXCEPT ![Filler] = 1]
     ELSE slot' = slot + 1 /\ UNCHANGED at
  /\ UNCHANGED <<source, prefetch, random_skip, first, round, data, handvars>>

\* ParserLayer::ComputeFeature without prefetching.
Parse(p) ==
  /\ Runs("worker") /\ ~ prefetch /\ at["worker"] = p
  /\ data' = [data EXCEPT ![p] = records]
  /\ at' = [at EXCEPT !["worker"] = p + 1]
  /\ UNCHANGED <<source, prefetch, datavars, round, handvars>>

Wait(t, p) ==
  /\ waiting' = [waiting EXCEPT ![p] = @ \cup {t}]
  /\ UNCHANGED <<source, prefetch, datavars, at, round, data, prefetch_data, ready>>

\* Mutation: the other thread is not told.
NobodyNotified(p) == waiting[p]

\* cv_.notify_all.
Notified(p) == {}

\* Mutation: a batch that was taken is offered again.
StillReady(p) == TRUE

ReadyAfterTake(p) == FALSE

\* ParserLayer::ComputeFeature with prefetching.
Take(p) ==
  /\ Runs("worker") /\ prefetch /\ at["worker"] = p /\ "worker" \notin waiting[p]
  /\ \/ ~ ready[p] /\ Wait("worker", p)
     \/ /\ ready[p]
        /\ data' = [data EXCEPT ![p] = prefetch_data[p]]
        /\ ready' = [ready EXCEPT ![p] = ReadyAfterTake(p)]
        /\ waiting' = [waiting EXCEPT ![p] = Notified(p)]
        /\ at' = [at EXCEPT !["worker"] = p + 1]
        /\ UNCHANGED <<source, prefetch, datavars, round, prefetch_data>>

\* ParserLayer::Prefetching.  Behind the last parser the thread's loop
\* turns to the data layer again.
Hand(p) ==
  /\ Runs("prefetcher") /\ at["prefetcher"] = p /\ "prefetcher" \notin waiting[p]
  /\ \/ ready[p] /\ Wait("prefetcher", p)
     \/ /\ ~ ready[p]
        /\ prefetch_data' = [prefetch_data EXCEPT ![p] = records]
        /\ ready' = [ready EXCEPT ![p] = TRUE]
        /\ waiting' = [waiting EXCEPT ![p] = Notified(p)]
        /\ IF p = NParsers
           THEN /\ at' = [at EXCEPT !["prefetcher"] = 0]
                /\ round' = [round EXCEPT !["prefetcher"] = @ + 1]
           ELSE /\ at' = [at EXCEPT !["prefetcher"] = p + 1]
                /\ UNCHANGED round
        /\ UNCHANGED <<source, prefetch, datavars, data>>

\* cv_.wait may return for no reason.
Wake(t, p) ==
  /\ t \in waiting[p]
  /\ waiting' = [waiting EXCEPT ![p] = @ \ {t}]
  /\ UNCHANGED <<source, prefetch, datavars, at, round, data, prefetch_data, ready>>

\* The layers above the parsers have read their data: the worker is past the
\* last parser and its step ends.
EndStep ==
  /\ Runs("worker") /\ at["worker"] = NParsers + 1
  /\ at' = [at EXCEPT !["worker"] = Begin("worker")]
  /\ round' = [round EXCEPT !["worker"] = @ + 1]
  /\ UNCHANGED <<source, prefetch, datavars, data, handvars>>

WorkerStep == EndStep \/ \E p \in Parsers : Parse(p) \/ Take(p)

Next ==
  \/ SkipRecords \/ ReadRecord \/ EndStep
  \/ \E p \in Parsers :
       Parse(p) \/ Take(p) \/ Hand(p) \/ \E t \in Threads : Wake(t, p)

Spec == Init /\ [][Next]_vars

\* Both threads are scheduled; nothing makes a wait end without a reason.
FairSpec ==
  /\ Spec
  /\ WF_vars(SkipRecords \/ ReadRecord)
  /\ WF_vars(WorkerStep)
  /\ WF_vars(\E p \in Parsers : Hand(p))
----------------------------------------------------------------------------

\* The record in place i of the batch of step n, of a source of class s
\* whose first is f: record f + n * BatchSize + i, which LMDB counts over and
\* over, and a shard until its end, from where each place keeps what was
\* read into it last.
RecordOf(s, f, n, i) ==
  LET k == f + i IN
  IF s = "lmdb" THEN (k + n * BatchSize) % NRecords
  ELSE IF k + n * BatchSize < NRecords THEN k + n * BatchSize
  ELSE IF k < NRecords THEN k + ((NRecords - 1 - k) \div BatchSize) * BatchSize
  ELSE Unset

BatchOf(n) == [i \in Slots |-> RecordOf(source, first, n, i)]

\* "prefetching is transparent to parsing logics" (base_layer.h:523): when a
\* step's layers read their inputs, every parser's data is the same batch,
\* and it is the step's: none lost, repeated or torn, with and without the
\* prefetching thread.
StepReadsItsBatch ==
  at["worker"] = NParsers + 1 =>
    \A p \in Parsers : data[p] = BatchOf(round["worker"])

\* The worker gets a batch for each of its steps: no wake-up is lost and the
\* two threads never wait for each other.
EveryStepFed == <>(round["worker"] = TrainSteps)
=============================================================================
