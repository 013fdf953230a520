---------------------------- MODULE PrefetchProofs ----------------------------
(***************************************************************************)
(* For every number of parsers and records, every batch size and every     *)
(* number of skipped records: each step reads its batch.                   *)
(***************************************************************************)
EXTENDS Prefetch, Division

\* The cursor of a source of class s after m records of an endless count.
Position(s, m) ==
  IF s = "lmdb" THEN m % NRecords ELSE IF m < NRecords THEN m ELSE NRecords

\* The places of records_ before the turn of place j in round n.
Filled(s, f, n, j) ==
  [i \in Slots |-> IF i < j THEN RecordOf(s, f, n, i)
                   ELSE IF n = 0 THEN Unset ELSE RecordOf(s, f, n - 1, i)]

\* What parser p has been handed and what was taken from it, in batches.
HandedTo(p) == round["prefetcher"] + (IF at["prefetcher"] > p THEN 1 ELSE 0)
TakenOf(p)  == round["worker"] + (IF at["worker"] > p THEN 1 ELSE 0)

TypeInv ==
  /\ source \in {"shard", "lmdb"}
  /\ prefetch \in BOOLEAN
  /\ cursor \in Nat
  /\ random_skip \in Nat
  /\ first \in 0 .. NRecords
  /\ slot \in Slots
  /\ at \in [Threads -> 0 .. NParsers + 1]
  /\ at["prefetcher"] <= NParsers
  /\ prefetch => at["worker"] > 0
  /\ round \in [Threads -> Nat]
  /\ data \in [Parsers -> Batch]
  /\ prefetch_data \in [Parsers -> Batch]
  /\ records \in Batch
  /\ ready \in [Parsers -> BOOLEAN]
  /\ waiting \in [Parsers -> SUBSET Threads]

\* Before the first batch, whose first record may yet change.
SkipInv ==
  random_skip > 0 =>
    round[Filler] = 0 /\ at[Filler] = 0 /\ slot = 0 /\ cursor = first
      /\ first = Position(source, first)

\* The source and records_ follow the count.
FillInv ==
  LET n == round[Filler] IN
  IF at[Filler] = 0
  THEN /\ cursor = Position(source, first + n * BatchSize + slot)
       /\ records = Filled(source, first, n, slot)
  ELSE /\ slot = 0
       /\ cursor = Position(source, first + (n + 1) * BatchSize)
       /\ records = BatchOf(n)

\* A parser is ready exactly while it is one batch ahead of the worker, and
\* then holds the batch the worker takes next.
HandInv ==
  prefetch => \A p \in Parsers :
    /\ ready[p] => HandedTo(p) = TakenOf(p) + 1 /\ prefetch_data[p] = BatchOf(TakenOf(p))
    /\ ~ ready[p] => HandedTo(p) = TakenOf(p)

DataInv == \A p \in Parsers : at["worker"] > p => data[p] = BatchOf(round["worker"])

Inv == TypeInv /\ SkipInv /\ FillInv /\ HandInv /\ DataInv

----------------------------------------------------------------------------
(* Counting *)

\* A batch's last place belongs to the next batch's first count.
LEMMA NextRound ==
  ASSUME NEW n \in Nat
  PROVE  n * BatchSize \in Nat /\ (n + 1) * BatchSize = n * BatchSize + BatchSize
  BY PrefetchAssumption

\* One record further in the source is one further in the count.
LEMMA PositionStep ==
  ASSUME NEW s \in {"shard", "lmdb"}, s = source, NEW m \in Nat
  PROVE  /\ Position(s, m) \in Nat
         /\ Position(s, m) < NRecords => Past(Position(s, m)) = Position(s, m + 1)
         /\ ~ Position(s, m) < NRecords => Position(s, m + 1) = Position(s, m)
<1>1. NRecords \in Nat \ {0}
  BY PrefetchAssumption
<1>2. CASE s = "lmdb"
  <2>1. m % NRecords \in Nat /\ m % NRecords < NRecords
    BY <1>1, DivFacts
  <2>2. (m + 1) % NRecords = IF m % NRecords < NRecords - 1 THEN (m % NRecords) + 1 ELSE 0
    BY <1>1, ModStep
  <2> QED  BY <1>2, <2>1, <2>2 DEF Position, Past
<1>3. CASE s = "shard"
  BY <1>1, <1>3 DEF Position, Past
<1> QED  BY <1>2, <1>3

\* What is read into a place, or stays in it, is its record.
LEMMA PlaceRead ==
  ASSUME NEW s \in {"shard", "lmdb"}, NEW f \in 0 .. NRecords, NEW n \in Nat, NEW i \in Slots
  PROVE  LET q == Position(s, f + n * BatchSize + i) IN
         /\ q < NRecords => RecordOf(s, f, n, i) = q
         /\ ~ q < NRecords => RecordOf(s, f, n, i) = IF n = 0 THEN Unset ELSE RecordOf(s, f, n - 1, i)
<1>1. /\ NRecords \in Nat \ {0} /\ BatchSize \in Nat \ {0}
      /\ i \in Nat /\ f \in Nat /\ f + i \in Nat
  BY PrefetchAssumption DEF Slots
<1>2. n * BatchSize \in Nat
  BY <1>1
<1>3. CASE s = "lmdb"
  <2>1. f + n * BatchSize + i = f + i + n * BatchSize /\ f + n * BatchSize + i \in Nat
    BY <1>1, <1>2
  <2>2. Position(s, f + n * BatchSize + i) < NRecords
    BY <1>1, <1>3, <2>1, DivFacts DEF Position
  <2> QED  BY <1>3, <2>1, <2>2 DEF Position, RecordOf
<1>4. CASE s = "shard" /\ f + i + n * BatchSize < NRecords
  BY <1>1, <1>2, <1>4 DEF Position, RecordOf
<1>5. CASE s = "shard" /\ ~ f + i + n * BatchSize < NRecords
  <2>1. ~ Position(s, f + n * BatchSize + i) < NRecords
    BY <1>1, <1>2, <1>5 DEF Position
  <2>2. CASE n = 0
    <3>1. ~ f + i < NRecords /\ 0 * BatchSize = 0
      BY <1>1, <1>5, <2>2
    <3> QED  BY <1>1, <1>5, <2>1, <2>2, <3>1 DEF RecordOf
  <2>3. CASE n > 0
    <3> DEFINE m == (n - 1) * BatchSize
               k == f + i
    <3>1. n - 1 \in Nat /\ m \in Nat /\ n * BatchSize = m + BatchSize
      BY <1>1, <2>3, NextRound
    <3>2. CASE k + m < NRecords
      <4>1. k < NRecords /\ NRecords - 1 - k \in Nat
        BY <1>1, <3>1, <3>2
      <4> DEFINE a == NRecords - 1 - k
                 r == a - m
                 q == n - 1
      <4>2. a \in Nat /\ r \in Nat /\ r < BatchSize /\ q \in Nat /\ a = BatchSize * q + r
        BY <1>1, <1>5, <3>1, <3>2, <4>1
      <4>3. a \div BatchSize = q
        <5> HIDE DEF a, r, q
        <5> QED  BY <1>1, <4>2, DivUnique
      <4>4. RecordOf(s, f, n, i) = k + m
        BY <1>5, <4>1, <4>3 DEF RecordOf
      <4>5. RecordOf(s, f, n - 1, i) = k + m
        BY <1>5, <3>2 DEF RecordOf
      <4> QED  BY <2>1, <2>3, <4>4, <4>5
    <3>3. CASE ~ k + m < NRecords
      <4> HIDE DEF m
      <4>1. RecordOf(s, f, n, i) = RecordOf(s, f, n - 1, i)
        BY <1>5, <3>3 DEF RecordOf, m
      <4> QED  BY <2>1, <2>3, <4>1
    <3> QED  BY <3>2, <3>3
  <2> QED  BY <2>2, <2>3
<1> QED  BY <1>3, <1>4, <1>5

\* Filled up to its end the vector is the round's batch, and so is what the
\* next round finds.
LEMMA FilledFacts ==
  ASSUME NEW s, NEW f, NEW n \in Nat
  PROVE  /\ Filled(s, f, n, BatchSize) = [i \in Slots |-> RecordOf(s, f, n, i)]
         /\ Filled(s, f, n + 1, 0) = [i \in Slots |-> RecordOf(s, f, n, i)]
         /\ Filled(s, f, 0, 0) = [i \in Slots |-> Unset]
<1>1. \A i \in Slots : i < BatchSize /\ ~ i < 0
  BY PrefetchAssumption DEF Slots
<1>2. n + 1 # 0 /\ (n + 1) - 1 = n
  OBVIOUS
<1> QED  BY <1>1, <1>2 DEF Filled

\* The count begins at the first record.
LEMMA CountBegins ==
  ASSUME NEW f \in Nat
  PROVE  /\ f + 0 * BatchSize + 0 = f
         /\ f < NRecords => Position("lmdb", f) = f
         /\ f <= NRecords => Position("shard", f) = f
<1>1. BatchSize \in Nat /\ NRecords \in Nat \ {0}
  BY PrefetchAssumption
<1>2. f < NRecords => f % NRecords = f
  BY <1>1, DivSmall
<1> QED  BY <1>1, <1>2 DEF Position

\* Where the threads are, and the constants they are compared with.
LEMMA ThreadFacts ==
  ASSUME TypeInv
  PROVE  /\ Filler \in Threads
         /\ \A t \in Threads : at[t] \in 0 .. NParsers + 1 /\ round[t] \in Nat
         /\ first \in Nat /\ slot \in Nat /\ slot < BatchSize
         /\ BatchSize \in Nat \ {0} /\ NRecords \in Nat \ {0} /\ NParsers \in Nat \ {0}
  BY PrefetchAssumption DEF TypeInv, Filler, Threads, Slots

\* The state the Setup of the layers leaves behind.
LEMMA InitInv == Init => Inv
<1> SUFFICES ASSUME Init  PROVE Inv
  OBVIOUS
<1>1. /\ NRecords \in Nat \ {0} /\ BatchSize \in Nat \ {0} /\ NParsers \in Nat \ {0}
      /\ RandomSkip \in Nat
  BY PrefetchAssumption
<1>2. cursor = first /\ first \in 0 .. NRecords /\ source \in {"shard", "lmdb"}
      /\ (source = "lmdb" => first < NRecords)
  BY <1>1 DEF Init
<1>3. first = Position(source, first)
  <2>1. first \in Nat /\ first <= NRecords
    BY <1>1, <1>2
  <2> QED  BY <1>2, <2>1, CountBegins
<1>4. TypeInv
  <2>1. 0 \in Slots /\ [i \in Slots |-> Unset] \in Batch
    BY <1>1 DEF Slots, Batch
  <2> QED  BY <1>1, <1>2, <2>1 DEF Init, TypeInv, Begin, Threads
<1>5. round[Filler] = 0 /\ at[Filler] = 0 /\ slot = 0
  BY DEF Init, Filler, Begin, Threads
<1>6. SkipInv
  BY <1>2, <1>3, <1>5 DEF SkipInv
<1>7. FillInv
  <2>1. first + 0 * BatchSize + 0 = first
    BY <1>1, <1>2, CountBegins
  <2>2. records = Filled(source, first, 0, 0)
    BY FilledFacts DEF Init
  <2> QED  BY <1>2, <1>3, <1>5, <2>1, <2>2 DEF FillInv
<1>8. HandInv /\ DataInv
  <2>1. /\ round["worker"] = 0 /\ round["prefetcher"] = 0
        /\ at["worker"] \in {0, 1} /\ at["prefetcher"] = 0
    BY DEF Init, Begin, Threads
  <2>2. \A p \in Parsers : ~ at["worker"] > p /\ ~ at["prefetcher"] > p
    BY <1>1, <2>1 DEF Parsers
  <2>3. \A p \in Parsers : HandedTo(p) = TakenOf(p) /\ (prefetch => ~ ready[p])
    BY <2>1, <2>2 DEF HandedTo, TakenOf, Init
  <2> QED  BY <2>2, <2>3 DEF HandInv, DataInv
<1> QED  BY <1>4, <1>6, <1>7, <1>8 DEF Inv

\* Before the first batch nothing has been handed over or read.
LEMMA NothingYet ==
  ASSUME Inv, random_skip > 0
  PROVE  \A p \in Parsers : ~ at["worker"] > p /\ (prefetch => ~ ready[p])
<1>1. round[Filler] = 0 /\ at[Filler] = 0
  BY DEF Inv, SkipInv
<1>2. CASE ~ prefetch
  BY <1>1, <1>2 DEF Filler, Parsers
<1>3. CASE prefetch
  <2>1. \A p \in Parsers : HandedTo(p) = 0
    BY <1>1, <1>3 DEF HandedTo, Filler, Parsers
  <2>2. round["worker"] \in Nat /\ at["worker"] \in Nat
    BY DEF Inv, TypeInv, Threads
  <2>3. \A p \in Parsers : TakenOf(p) \in Nat /\ (at["worker"] > p => TakenOf(p) > 0)
    BY <2>2 DEF TakenOf
  <2>4. \A p \in Parsers : ~ ready[p] /\ TakenOf(p) = 0
    BY <1>3, <2>1, <2>3 DEF Inv, HandInv
  <2> QED  BY <1>3, <2>3, <2>4
<1> QED  BY <1>2, <1>3

\* Skipping moves the first record along with the cursor.
LEMMA SkipStep == Inv /\ SkipRecords => Inv'
<1> SUFFICES ASSUME Inv, SkipRecords  PROVE Inv'
  OBVIOUS
<1> USE DEF Inv
<1>1. /\ NRecords \in Nat \ {0} /\ BatchSize \in Nat \ {0}
      /\ source \in {"shard", "lmdb"} /\ cursor \in Nat
  BY PrefetchAssumption DEF TypeInv
<1>2. PICK n \in Nat : cursor' = Skipped(IF source = "lmdb" THEN 0 ELSE cursor, n)
  BY DEF SkipRecords, TypeInv
<1>3. /\ first' = cursor' /\ random_skip' = 0 /\ random_skip > 0
      /\ UNCHANGED <<source, prefetch, records, slot, at, round, data, prefetch_data, ready, waiting>>
  BY DEF SkipRecords, handvars
<1>4. first' \in 0 .. NRecords /\ first' = Position(source, first')
  <2>1. CASE source = "lmdb"
    <3>1. first' = (0 + n) % NRecords /\ 0 + n = n
      BY <1>2, <1>3, <2>1 DEF Skipped
    <3>2. first' \in Nat /\ first' < NRecords
      BY <1>1, <3>1, DivFacts
    <3> QED  BY <1>1, <2>1, <3>2, CountBegins
  <2>2. CASE source = "shard"
    BY <1>1, <1>2, <1>3, <2>2 DEF Skipped, Position
  <2> QED  BY <1>1, <2>1, <2>2
<1>5. TypeInv'
  BY <1>1, <1>3, <1>4 DEF TypeInv
<1>6. Filler' = Filler /\ round[Filler] = 0 /\ at[Filler] = 0 /\ slot = 0
  BY <1>3 DEF Filler, SkipInv
<1>7. FillInv'
  <2>1. \A f \in Nat : f + 0 * BatchSize + 0 = f
    BY <1>1, CountBegins
  <2> DEFINE f == first'
  <2>4. f \in Nat
    BY <1>1, <1>4
  <2>5. f + 0 * BatchSize + 0 = f
    <3> HIDE DEF f
    <3> QED  BY <2>1, <2>4
  <2>2. records = [i \in Slots |-> Unset]
    BY <1>6, FilledFacts DEF FillInv
  <2>3. records' = Filled(source', first', 0, 0)
    BY <1>3, <2>2, FilledFacts
  <2> QED  BY <1>3, <1>4, <1>6, <2>3, <2>5 DEF FillInv
<1>8. HandInv' /\ DataInv'
  <2>1. \A p \in Parsers : ~ at["worker"] > p /\ (prefetch => ~ ready[p])
    BY <1>3, NothingYet
  <2>2. HandInv'
    BY <1>3, <2>1 DEF HandInv, HandedTo, TakenOf
  <2>3. DataInv'
    BY <1>3, <2>1 DEF DataInv
  <2> QED  BY <2>2, <2>3
<1> QED  BY <1>3, <1>5, <1>7, <1>8 DEF SkipInv

\* A record read goes to its place in the filling thread's batch.
LEMMA ReadStep == Inv /\ ReadRecord => Inv'
<1> SUFFICES ASSUME Inv, ReadRecord  PROVE Inv'
  OBVIOUS
<1> USE DEF Inv
<1> DEFINE n == round[Filler]
           m == first + n * BatchSize + slot
<1>1. /\ NRecords \in Nat \ {0} /\ BatchSize \in Nat \ {0} /\ NParsers \in Nat \ {0}
      /\ source \in {"shard", "lmdb"} /\ first \in 0 .. NRecords /\ first \in Nat
      /\ slot \in Slots /\ slot \in Nat /\ slot < BatchSize
      /\ Filler \in Threads /\ n \in Nat
  BY ThreadFacts DEF TypeInv
<1>2. /\ at[Filler] = 0 /\ random_skip = 0
      /\ UNCHANGED <<source, prefetch, random_skip, first, round, data,
                     prefetch_data, ready, waiting>>
      /\ Filler' = Filler
  BY DEF ReadRecord, handvars, Filler
<1>3. m \in Nat /\ n * BatchSize \in Nat
  BY <1>1
<1>4. cursor = Position(source, m) /\ records = Filled(source, first, n, slot)
  BY <1>2 DEF FillInv
<1>5. cursor' = Position(source, m + 1)
  <2>1. CASE cursor < NRecords
    BY <1>1, <1>3, <1>4, <2>1, PositionStep DEF ReadRecord
  <2>2. CASE ~ cursor < NRecords
    BY <1>1, <1>3, <1>4, <2>2, PositionStep DEF ReadRecord
  <2> QED  BY <2>1, <2>2
<1>6. records' = Filled(source, first, n, slot + 1)
  <2>1. \A i \in Slots : i \in Nat /\ (i < slot + 1 <=> (i < slot \/ i = slot))
    BY <1>1 DEF Slots
  <2>2. CASE cursor < NRecords
    <3>1. records' = [records EXCEPT ![slot] = cursor]
      BY <2>2 DEF ReadRecord
    <3>2. cursor = RecordOf(source, first, n, slot)
      BY <1>1, <1>4, <2>2, PlaceRead
    <3> HIDE DEF n, m
    <3> QED  BY <1>1, <1>4, <2>1, <3>1, <3>2 DEF Filled
  <2>3. CASE ~ cursor < NRecords
    <3>1. records' = records
      BY <2>3 DEF ReadRecord
    <3>2. RecordOf(source, first, n, slot)
            = IF n = 0 THEN Unset ELSE RecordOf(source, first, n - 1, slot)
      BY <1>1, <1>4, <2>3, PlaceRead
    <3> HIDE DEF n, m
    <3> QED  BY <1>1, <1>4, <2>1, <3>1, <3>2 DEF Filled
  <2> QED  BY <2>2, <2>3
<1>7. cursor' \in Nat /\ records' \in Batch
  <2>1. cursor' \in Nat
    BY <1>1, <1>3, <1>5, PositionStep
  <2>2. cursor < NRecords => cursor \in 0 .. NRecords - 1
    BY <1>1 DEF TypeInv
  <2>3. records' \in Batch
    BY <1>1, <2>2 DEF ReadRecord, TypeInv, Batch
  <2> QED  BY <2>1, <2>3
<1>8. CASE slot = BatchSize - 1
  <2>1. slot' = 0 /\ at' = [at EXCEPT ![Filler] = 1]
    BY <1>8 DEF ReadRecord
  <2>2. at'[Filler] = 1 /\ \A t \in Threads : t # Filler => at'[t] = at[t]
    BY <1>1, <2>1 DEF TypeInv
  <2>3. TypeInv'
    <3>1. 0 \in Slots
      BY <1>1 DEF Slots
    <3> QED  BY <1>1, <1>2, <1>7, <2>1, <2>2, <3>1 DEF TypeInv, Threads
  <2>4. FillInv'
    <3>1. m + 1 = first + (n + 1) * BatchSize
      BY <1>1, <1>3, <1>8, NextRound
    <3>2. records' = BatchOf(n)'
      BY <1>1, <1>2, <1>6, <1>8, FilledFacts DEF BatchOf
    <3> QED  BY <1>2, <1>5, <2>1, <2>2, <3>1, <3>2 DEF FillInv, BatchOf
  <2>5. \A p \in Parsers : ~ 0 > p /\ ~ 1 > p
    BY <1>1 DEF Parsers
  <2>6. HandInv' /\ DataInv'
    <3>1. CASE prefetch
      <4>1. Filler = "prefetcher"
        BY <3>1 DEF Filler
      <4>2. \A p \in Parsers : HandedTo(p)' = HandedTo(p) /\ TakenOf(p)' = TakenOf(p)
        BY <1>1, <1>2, <2>2, <2>5, <4>1 DEF HandedTo, TakenOf, Threads
      <4>3. HandInv'
        BY <1>2, <4>2 DEF HandInv, BatchOf
      <4>4. DataInv'
        BY <1>2, <2>2, <4>1 DEF DataInv, BatchOf, Threads
      <4> QED  BY <4>3, <4>4
    <3>2. CASE ~ prefetch
      BY <1>2, <2>2, <2>5, <3>2 DEF HandInv, DataInv, Filler
    <3> QED  BY <3>1, <3>2
  <2> QED  BY <1>2, <2>3, <2>4, <2>6 DEF SkipInv
<1>9. CASE slot # BatchSize - 1
  <2>1. slot' = slot + 1 /\ at' = at
    BY <1>9 DEF ReadRecord
  <2>2. TypeInv'
    <3>1. slot + 1 \in Slots
      BY <1>1, <1>9 DEF Slots
    <3> QED  BY <1>2, <1>7, <2>1, <3>1 DEF TypeInv
  <2>3. FillInv'
    <3>1. m + 1 = first + n * BatchSize + (slot + 1)
      BY <1>1, <1>3
    <3> QED  BY <1>2, <1>5, <1>6, <2>1, <3>1 DEF FillInv
  <2>4. HandInv' /\ DataInv'
    BY <1>2, <2>1 DEF HandInv, DataInv, HandedTo, TakenOf, BatchOf
  <2> QED  BY <1>2, <2>2, <2>3, <2>4 DEF SkipInv
<1> QED  BY <1>8, <1>9

\* Steps that leave the source, records_ and the filling thread alone.
LEMMA FillKept ==
  ASSUME SkipInv, FillInv, UNCHANGED <<source, prefetch, datavars>>,
         at'[Filler] = at[Filler], round'[Filler] = round[Filler]
  PROVE  SkipInv' /\ FillInv'
<1>1. Filler' = Filler
  BY DEF Filler
<1> QED  BY <1>1 DEF SkipInv, FillInv, datavars, BatchOf

\* Without a prefetching thread the worker parses what it has filled.
LEMMA ParseStep ==
  ASSUME Inv, NEW p \in Parsers, Parse(p)
  PROVE  Inv'
<1> USE DEF Inv
<1>1. /\ ~ prefetch /\ at["worker"] = p /\ p \in Nat /\ p # 0 /\ p <= NParsers
      /\ NParsers \in Nat
      /\ data' = [data EXCEPT ![p] = records]
      /\ at' = [at EXCEPT !["worker"] = p + 1]
      /\ UNCHANGED <<source, prefetch, datavars, round, handvars>>
  BY PrefetchAssumption DEF Parse, Parsers
<1>2. Filler = "worker" /\ Filler' = "worker"
  BY <1>1 DEF Filler
<1>3. at'["worker"] = p + 1 /\ at'["prefetcher"] = at["prefetcher"]
  BY <1>1 DEF TypeInv, Threads
<1>4. records = BatchOf(round["worker"]) /\ random_skip = 0
  BY <1>1, <1>2 DEF FillInv, SkipInv, TypeInv
<1>5. TypeInv'
  BY <1>1, <1>3 DEF TypeInv, datavars, handvars, Threads
<1>6. SkipInv' /\ FillInv'
  BY <1>1, <1>2, <1>3, <1>4 DEF SkipInv, FillInv, datavars, BatchOf
<1>7. HandInv'
  BY <1>1 DEF HandInv
<1>8. DataInv'
  <2>1. \A q \in Parsers : p + 1 > q => q = p \/ at["worker"] > q
    BY <1>1 DEF Parsers
  <2>2. \A q \in Parsers : data'[q] = IF q = p THEN records ELSE data[q]
    BY <1>1 DEF TypeInv
  <2> QED  BY <1>1, <1>3, <1>4, <2>1, <2>2 DEF DataInv, BatchOf, datavars
<1> QED  BY <1>5, <1>6, <1>7, <1>8

\* Waiting and waking change no more than who waits.
LEMMA WaitingStep ==
  ASSUME Inv, waiting' \in [Parsers -> SUBSET Threads],
         UNCHANGED <<source, prefetch, datavars, at, round, data, prefetch_data, ready>>
  PROVE  Inv'
<1>1. TypeInv'
  BY DEF Inv, TypeInv, datavars
<1>2. SkipInv' /\ FillInv'
  BY FillKept DEF Inv
<1>3. HandInv' /\ DataInv'
  BY DEF Inv, HandInv, DataInv, HandedTo, TakenOf, BatchOf, datavars
<1> QED  BY <1>1, <1>2, <1>3 DEF Inv

\* The worker takes the batch of its own step.
LEMMA TakeStep ==
  ASSUME Inv, NEW p \in Parsers, Take(p)
  PROVE  Inv'
<1>1. CASE Wait("worker", p)
  BY <1>1, WaitingStep DEF Wait, Inv, TypeInv, Threads
<1>2. CASE ~ Wait("worker", p)
  <2> USE DEF Inv
  <2>0. p \in Nat /\ p # 0 /\ p <= NParsers /\ NParsers \in Nat
    BY PrefetchAssumption DEF Parsers
  <2>11. /\ prefetch /\ at["worker"] = p /\ ready[p]
         /\ data' = [data EXCEPT ![p] = prefetch_data[p]]
         /\ ready' = [ready EXCEPT ![p] = FALSE]
         /\ waiting' = [waiting EXCEPT ![p] = {}]
         /\ at' = [at EXCEPT !["worker"] = p + 1]
         /\ UNCHANGED <<source, prefetch, datavars, round, prefetch_data>>
    BY <1>2, Zenon DEF Take, ReadyAfterTake, Notified
  <2>1. /\ prefetch /\ at["worker"] = p /\ ready[p]
        /\ p \in Nat /\ p # 0 /\ p <= NParsers /\ NParsers \in Nat
        /\ data' = [data EXCEPT ![p] = prefetch_data[p]]
        /\ ready' = [ready EXCEPT ![p] = FALSE]
        /\ waiting' = [waiting EXCEPT ![p] = {}]
        /\ at' = [at EXCEPT !["worker"] = p + 1]
        /\ UNCHANGED <<source, prefetch, datavars, round, prefetch_data>>
    BY <2>0, <2>11
  <2>2. Filler = "prefetcher"
    BY <2>1 DEF Filler
  <2>3. at'["worker"] = p + 1 /\ at'["prefetcher"] = at["prefetcher"]
        /\ at["prefetcher"] \in Nat
        /\ round["worker"] \in Nat /\ round["prefetcher"] \in Nat
    BY <2>1 DEF TypeInv, Threads
  <2>4. \A q \in Parsers : /\ q # p => TakenOf(q)' = TakenOf(q)
                           /\ HandedTo(q)' = HandedTo(q)
    BY <2>1, <2>3 DEF TakenOf, HandedTo, Parsers
  <2>5. TakenOf(p) = round["worker"] /\ TakenOf(p)' = round["worker"] + 1
    BY <2>1, <2>3 DEF TakenOf
  <2>6. prefetch_data[p] = BatchOf(round["worker"]) /\ HandedTo(p) = round["worker"] + 1
    BY <2>1, <2>5 DEF HandInv
  <2>7. TypeInv'
    BY <2>1, <2>3 DEF TypeInv, datavars, Threads
  <2>8. SkipInv' /\ FillInv'
    BY <2>1, <2>2, <2>3, FillKept
  <2>9. HandInv'
    <3>1. \A q \in Parsers : ready'[q] = IF q = p THEN FALSE ELSE ready[q]
      BY <2>1 DEF TypeInv
    <3>2. ASSUME NEW q \in Parsers, q # p
          PROVE  /\ ready'[q] => HandedTo(q)' = TakenOf(q)' + 1
                                 /\ prefetch_data'[q] = BatchOf(TakenOf(q))'
                 /\ ~ ready'[q] => HandedTo(q)' = TakenOf(q)'
      BY <2>1, <2>4, <3>1, <3>2 DEF HandInv, BatchOf, datavars
    <3>3. ~ ready'[p] /\ HandedTo(p)' = TakenOf(p)'
      BY <2>4, <2>5, <2>6, <3>1
    <3> QED  BY <3>2, <3>3 DEF HandInv
  <2>10. DataInv'
    <3>1. \A q \in Parsers : p + 1 > q => q = p \/ at["worker"] > q
      BY <2>1 DEF Parsers
    <3>2. \A q \in Parsers : data'[q] = IF q = p THEN prefetch_data[p] ELSE data[q]
      BY <2>1 DEF TypeInv
    <3> QED  BY <2>1, <2>3, <2>6, <3>1, <3>2 DEF DataInv, BatchOf, datavars
  <2> QED  BY <2>7, <2>8, <2>9, <2>10
<1> QED  BY <1>1, <1>2

\* The prefetching thread hands over the batch it has filled, one ahead of the worker.
LEMMA HandStep ==
  ASSUME Inv, NEW p \in Parsers, Hand(p)
  PROVE  Inv'
<1>1. CASE Wait("prefetcher", p)
  BY <1>1, WaitingStep DEF Wait, Inv, TypeInv, Threads
<1>2. CASE ~ Wait("prefetcher", p)
  <2> USE DEF Inv
  <2>0. p \in Nat /\ p # 0 /\ p <= NParsers /\ NParsers \in Nat
    BY PrefetchAssumption DEF Parsers
  <2>1. /\ at["prefetcher"] = p /\ ~ ready[p]
        /\ prefetch_data' = [prefetch_data EXCEPT ![p] = records]
        /\ ready' = [ready EXCEPT ![p] = TRUE]
        /\ waiting' = [waiting EXCEPT ![p] = {}]
        /\ IF p = NParsers
           THEN /\ at' = [at EXCEPT !["prefetcher"] = 0]
                /\ round' = [round EXCEPT !["prefetcher"] = @ + 1]
           ELSE /\ at' = [at EXCEPT !["prefetcher"] = p + 1]
                /\ UNCHANGED round
        /\ UNCHANGED <<source, prefetch, datavars, data>>
    BY <1>2, Zenon DEF Hand, Notified
  <2>2. prefetch /\ Filler = "prefetcher" /\ Filler' = "prefetcher"
    BY <2>1 DEF Hand, Runs, Filler
  <2> DEFINE n == round["prefetcher"]
  <2>3. /\ n \in Nat /\ round["worker"] \in Nat /\ at["worker"] \in Nat
        /\ at'["worker"] = at["worker"] /\ round'["worker"] = round["worker"]
        /\ at'["prefetcher"] = (IF p = NParsers THEN 0 ELSE p + 1)
        /\ round'["prefetcher"] = (IF p = NParsers THEN n + 1 ELSE n)
    BY <2>0, <2>1 DEF TypeInv, Threads
  <2>4. /\ slot = 0 /\ records = BatchOf(n) /\ random_skip = 0
        /\ cursor = Position(source, first + (n + 1) * BatchSize)
    BY <2>0, <2>1, <2>2 DEF FillInv, SkipInv, TypeInv
  <2>5. \A q \in Parsers : TakenOf(q)' = TakenOf(q)
    BY <2>3 DEF TakenOf
  <2>6. \A q \in Parsers : q \in Nat /\ q <= NParsers /\ ~ 0 > q
    BY <2>0 DEF Parsers
  <2>7. \A q \in Parsers : HandedTo(q)' = IF q = p THEN n + 1 ELSE HandedTo(q)
    <3>1. ASSUME NEW q \in Parsers
          PROVE  HandedTo(q) = IF p > q THEN n + 1 ELSE n
      BY <2>1, <2>3 DEF HandedTo
    <3>2. ASSUME NEW q \in Parsers
          PROVE  HandedTo(q)' = IF p > q \/ q = p THEN n + 1 ELSE n
      <4>1. CASE p = NParsers
        BY <2>0, <2>3, <2>6, <4>1 DEF HandedTo
      <4>2. CASE p # NParsers
        BY <2>0, <2>3, <2>6, <4>2 DEF HandedTo
      <4> QED  BY <4>1, <4>2
    <3> QED  BY <3>1, <3>2
  <2>8. HandedTo(p) = n /\ TakenOf(p) = n
    <3>1. HandedTo(p) = n
      BY <2>0, <2>1, <2>3 DEF HandedTo
    <3> QED  BY <2>1, <2>2, <3>1 DEF HandInv
  <2>9. TypeInv'
    BY <2>0, <2>1, <2>3 DEF TypeInv, datavars, Threads
  <2>10. SkipInv'
    BY <2>1, <2>4 DEF SkipInv, datavars
  <2>11. FillInv'
    <3>1. CASE p = NParsers
      <4>1. first \in Nat /\ (n + 1) * BatchSize \in Nat
        BY <2>3, NextRound, PrefetchAssumption DEF TypeInv
      <4>2. first + (n + 1) * BatchSize = first + (n + 1) * BatchSize + 0
        BY <4>1
      <4>3. records = Filled(source, first, n + 1, 0)
        <5>1. records = [i \in Slots |-> RecordOf(source, first, n, i)]
          BY <2>4 DEF BatchOf
        <5>2. Filled(source, first, n + 1, 0) = [i \in Slots |-> RecordOf(source, first, n, i)]
          <6>1. n \in Nat
            BY <2>3
          <6> HIDE DEF n
          <6> QED  BY <6>1, FilledFacts, Zenon
        <5> QED  BY <5>1, <5>2, Zenon
      <4> QED  BY <2>1, <2>2, <2>3, <2>4, <3>1, <4>2, <4>3 DEF FillInv, datavars
    <3>2. CASE p # NParsers
      BY <2>0, <2>1, <2>2, <2>3, <2>4, <3>2 DEF FillInv, datavars, BatchOf
    <3> QED  BY <3>1, <3>2
  <2>12. HandInv'
    <3>1. \A q \in Parsers :
            /\ ready'[q] = IF q = p THEN TRUE ELSE ready[q]
            /\ prefetch_data'[q] = IF q = p THEN records ELSE prefetch_data[q]
      BY <2>1 DEF TypeInv
    <3>2. ASSUME NEW q \in Parsers, q # p
          PROVE  /\ ready'[q] => HandedTo(q)' = TakenOf(q)' + 1
                                 /\ prefetch_data'[q] = BatchOf(TakenOf(q))'
                 /\ ~ ready'[q] => HandedTo(q)' = TakenOf(q)'
      BY <2>1, <2>2, <2>5, <2>7, <3>1, <3>2 DEF HandInv, BatchOf, datavars
    <3>3. /\ ready'[p] /\ HandedTo(p)' = TakenOf(p)' + 1
          /\ prefetch_data'[p] = BatchOf(TakenOf(p))'
      <4>1. TakenOf(p)' = n /\ HandedTo(p)' = n + 1
        BY <2>5, <2>7, <2>8
      <4>2. BatchOf(TakenOf(p))' = [i \in Slots |-> RecordOf(source', first', TakenOf(p)', i)]
        BY DEF BatchOf
      <4>3. BatchOf(TakenOf(p))' = records
        BY <2>1, <2>4, <4>1, <4>2 DEF BatchOf, datavars
      <4> QED  BY <3>1, <4>1, <4>3
    <3> QED  BY <3>2, <3>3 DEF HandInv
  <2>13. DataInv'
    BY <2>1, <2>3 DEF DataInv, BatchOf, datavars
  <2> QED  BY <2>9, <2>10, <2>11, <2>12, <2>13
<1> QED  BY <1>1, <1>2

\* The next step wants the next batch.
LEMMA EndStepStep ==
  ASSUME Inv, EndStep
  PROVE  Inv'
<1> USE DEF Inv
<1>1. /\ at["worker"] = NParsers + 1
      /\ at' = [at EXCEPT !["worker"] = Begin("worker")]
      /\ round' = [round EXCEPT !["worker"] = @ + 1]
      /\ UNCHANGED <<source, prefetch, datavars, data, handvars>>
  BY DEF EndStep
<1> DEFINE n == round["worker"]
<1>2. /\ NParsers \in Nat \ {0} /\ n \in Nat
      /\ at'["worker"] = Begin("worker") /\ round'["worker"] = n + 1
      /\ at'["prefetcher"] = at["prefetcher"]
      /\ round'["prefetcher"] = round["prefetcher"]
  BY <1>1, PrefetchAssumption DEF TypeInv, Threads
<1>3. Begin("worker") \in {0, 1} /\ (prefetch => Begin("worker") = 1)
      /\ (~ prefetch => Begin("worker") = 0)
  BY DEF Begin
<1>4. \A q \in Parsers : q \in Nat /\ NParsers + 1 > q /\ ~ Begin("worker") > q
  BY <1>2, <1>3 DEF Parsers
<1>5. TypeInv'
  BY <1>1, <1>2, <1>3 DEF TypeInv, datavars, handvars, Threads
<1>6. SkipInv' /\ FillInv'
  <2>1. CASE prefetch
    <3>1. Filler = "prefetcher"
      BY <2>1 DEF Filler
    <3> QED  BY <1>1, <1>2, <3>1, FillKept
  <2>2. CASE ~ prefetch
    <3>1. Filler = "worker" /\ Filler' = "worker"
      BY <1>1, <2>2 DEF Filler
    <3>2. /\ slot = 0 /\ records = BatchOf(n) /\ random_skip = 0
          /\ cursor = Position(source, first + (n + 1) * BatchSize)
      BY <1>1, <1>2, <3>1 DEF FillInv, SkipInv, TypeInv
    <3>3. first \in Nat /\ (n + 1) * BatchSize \in Nat
      BY <1>2, NextRound, PrefetchAssumption DEF TypeInv
    <3>4. first + (n + 1) * BatchSize = first + (n + 1) * BatchSize + 0
      BY <3>3
    <3>5. records = Filled(source, first, n + 1, 0)
      <4>1. records = [i \in Slots |-> RecordOf(source, first, n, i)]
        BY <3>2 DEF BatchOf
      <4>2. Filled(source, first, n + 1, 0) = [i \in Slots |-> RecordOf(source, first, n, i)]
        <5>1. n \in Nat
          BY <1>2
        <5> HIDE DEF n
        <5> QED  BY <5>1, FilledFacts, Zenon
      <4> QED  BY <4>1, <4>2, Zenon
    <3> QED  BY <1>1, <1>2, <1>3, <2>2, <3>1, <3>2, <3>4, <3>5 DEF SkipInv, FillInv, datavars
  <2> QED  BY <2>1, <2>2
<1>7. HandInv' /\ DataInv'
  <2>1. \A q \in Parsers : HandedTo(q)' = HandedTo(q) /\ TakenOf(q)' = TakenOf(q)
    BY <1>1, <1>2, <1>4 DEF HandedTo, TakenOf
  <2>2. HandInv'
    BY <1>1, <2>1 DEF HandInv, BatchOf, datavars, handvars
  <2>3. DataInv'
    BY <1>2, <1>4 DEF DataInv
  <2> QED  BY <2>2, <2>3
<1> QED  BY <1>5, <1>6, <1>7

\* Inv is inductive.
LEMMA StepInv == Inv /\ [Next]_vars => Inv'
<1> SUFFICES ASSUME Inv, [Next]_vars  PROVE Inv'
  OBVIOUS
<1>1. CASE SkipRecords
  BY <1>1, SkipStep
<1>2. CASE ReadRecord
  BY <1>2, ReadStep
<1>3. CASE EndStep
  BY <1>3, EndStepStep
<1>4. ASSUME NEW p \in Parsers, Parse(p)  PROVE Inv'
  BY <1>4, ParseStep
<1>5. ASSUME NEW p \in Parsers, Take(p)  PROVE Inv'
  BY <1>5, TakeStep
<1>6. ASSUME NEW p \in Parsers, Hand(p)  PROVE Inv'
  BY <1>6, HandStep
<1>7. ASSUME NEW p \in Parsers, NEW t \in Threads, Wake(t, p)  PROVE Inv'
  BY <1>7, WaitingStep DEF Wake, Inv, TypeInv
<1>8. CASE UNCHANGED vars
  BY <1>8, WaitingStep DEF vars, datavars, handvars, Inv, TypeInv
<1> QED  BY <1>1, <1>2, <1>3, <1>4, <1>5, <1>6, <1>7, <1>8 DEF Next

\* Every step of every worker reads its own whole batch, with and without
\* the prefetching thread (ParserLayer, base_layer.h:505-540).
THEOREM PrefetchCorrect == Spec => []StepReadsItsBatch
<1>1. Inv => StepReadsItsBatch
  <2>1. \A p \in Parsers : NParsers + 1 > p
    BY PrefetchAssumption DEF Parsers
  <2> QED  BY <2>1 DEF Inv, DataInv, StepReadsItsBatch
<1> QED  BY <1>1, InitInv, StepInv, PTL DEF Spec
=============================================================================
