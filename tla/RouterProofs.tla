----------------------------- MODULE RouterProofs -----------------------------
(***************************************************************************)
(* Theorems about the fabric, for every set of addresses and talking pairs *)
(* and every size of the router's buffer:                                  *)
(*                                                                         *)
(*   FabricFifo    RouterSys implements FifoPairs                          *)
(*   CountBounds   CountCoversKept                                         *)
(*                                                                         *)
(* Between the thread that posts and the thread that takes, a pair's       *)
(* messages lie in four queues one behind the other: the source's pipe,    *)
(* the stub's hand, the router's buffer and the destination's pipe.  The   *)
(* inductive invariant says that each holds a run of consecutive numbers   *)
(* that begins where the run of the queue ahead of it ends.                *)
(***************************************************************************)
EXTENDS RouterSys, SequenceTheorems, FiniteSetTheorems, TLAPS

----------------------------------------------------------------------------
(* Runs of a pair's messages in a queue *)

Of(p) == {m \in [src : Address, dst : Address, n : Nat] : m.src = p[1] /\ m.dst = p[2]}

\* The messages of pair p in queue q are those numbered lo + 1 .. hi, in order.
Run(q, p, lo, hi) ==
  /\ lo <= hi
  /\ \A i \in 1 .. Len(q) : q[i] \in Of(p) => q[i].n \in lo + 1 .. hi
  /\ \A i, j \in 1 .. Len(q) :
       i < j /\ q[i] \in Of(p) /\ q[j] \in Of(p) => q[i].n < q[j].n
  /\ \A n \in lo + 1 .. hi : \E i \in 1 .. Len(q) : q[i] \in Of(p) /\ q[i].n = n

\* An empty queue has an empty run.
LEMMA EmptyRun ==
  ASSUME NEW p, NEW lo \in Nat, NEW hi \in Nat
  PROVE  Run(<< >>, p, lo, hi) <=> lo = hi
<1>1. Len(<< >>) = 0
  OBVIOUS
<1>2. ASSUME Run(<< >>, p, lo, hi), lo < hi PROVE FALSE
  <2>1. lo + 1 \in lo + 1 .. hi
    BY <1>2
  <2> QED  BY <1>1, <1>2, <2>1 DEF Run
<1>3. Run(<< >>, p, lo, hi) => lo <= hi
  BY DEF Run
<1>4. lo = hi => Run(<< >>, p, lo, hi)
  BY <1>1 DEF Run
<1> QED  BY <1>2, <1>3, <1>4

\* One message has a run of one, or none when it is not of the pair.
LEMMA SingleRun ==
  ASSUME NEW p, NEW m, NEW lo \in Nat, NEW hi \in Nat
  PROVE  Run(<<m>>, p, lo, hi) <=>
           IF m \in Of(p) THEN hi = lo + 1 /\ m.n = hi ELSE lo = hi
<1>1. Len(<<m>>) = 1 /\ <<m>>[1] = m /\ 1 .. 1 = {1}
  OBVIOUS
<1>2. Run(<<m>>, p, lo, hi) <=> /\ lo <= hi
                                /\ m \in Of(p) => m.n \in lo + 1 .. hi
                                /\ \A n \in lo + 1 .. hi : m \in Of(p) /\ m.n = n
  BY <1>1 DEF Run
<1>3. m \in Of(p) => m.n \in Nat
  BY DEF Of
<1>4. ASSUME Run(<<m>>, p, lo, hi), m \in Of(p) PROVE hi = lo + 1 /\ m.n = hi
  <2>1. m.n \in lo + 1 .. hi /\ lo + 1 \in lo + 1 .. hi /\ hi \in lo + 1 .. hi
    BY <1>2, <1>3, <1>4
  <2> QED  BY <1>2, <1>4, <2>1
<1>5. ASSUME Run(<<m>>, p, lo, hi), m \notin Of(p), lo # hi PROVE FALSE
  <2>1. hi \in lo + 1 .. hi
    BY <1>2, <1>5
  <2> QED  BY <1>2, <1>5, <2>1
<1>6. ASSUME IF m \in Of(p) THEN hi = lo + 1 /\ m.n = hi ELSE lo = hi
      PROVE  Run(<<m>>, p, lo, hi)
  BY <1>2, <1>6
<1> QED  BY <1>4, <1>5, <1>6

\* Runs that follow one another make one.
LEMMA JoinedRuns ==
  ASSUME NEW p, NEW S, NEW q \in Seq(S), NEW r \in Seq(S),
         NEW lo \in Nat, NEW mid \in Nat, NEW hi \in Nat,
         Run(q, p, lo, mid), Run(r, p, mid, hi)
  PROVE  Run(q \o r, p, lo, hi)
<1> DEFINE a == Len(q)  b == Len(r)  t == q \o r
<1>1. /\ a \in Nat /\ b \in Nat /\ Len(t) = a + b
      /\ \A i \in 1 .. a + b : t[i] = IF i <= a THEN q[i] ELSE r[i - a]
  BY ConcatProperties, LenProperties
<1> HIDE DEF t, a, b
<1>2. lo <= mid /\ mid <= hi
  BY DEF Run
<1>3. /\ \A i \in 1 .. a : q[i] \in Of(p) => q[i].n \in lo + 1 .. mid
      /\ \A i, j \in 1 .. a : i < j /\ q[i] \in Of(p) /\ q[j] \in Of(p) => q[i].n < q[j].n
      /\ \A n \in lo + 1 .. mid : \E i \in 1 .. a : q[i] \in Of(p) /\ q[i].n = n
  BY DEF Run, a
<1>4. /\ \A i \in 1 .. b : r[i] \in Of(p) => r[i].n \in mid + 1 .. hi
      /\ \A i, j \in 1 .. b : i < j /\ r[i] \in Of(p) /\ r[j] \in Of(p) => r[i].n < r[j].n
      /\ \A n \in mid + 1 .. hi : \E i \in 1 .. b : r[i] \in Of(p) /\ r[i].n = n
  BY DEF Run, b
<1>5. \A i \in 1 .. a + b : \/ i \in 1 .. a /\ t[i] = q[i]
                            \/ i - a \in 1 .. b /\ t[i] = r[i - a] /\ ~ (i <= a)
  BY <1>1
<1>6. ASSUME NEW i \in 1 .. a + b, t[i] \in Of(p) PROVE t[i].n \in lo + 1 .. hi
  <2>1. CASE i \in 1 .. a /\ t[i] = q[i]
    <3>1. t[i].n \in lo + 1 .. mid
      BY <1>3, <1>6, <2>1
    <3> QED  BY <1>2, <3>1
  <2>2. CASE i - a \in 1 .. b /\ t[i] = r[i - a]
    <3>1. t[i].n \in mid + 1 .. hi
      BY <1>4, <1>6, <2>2
    <3> QED  BY <1>2, <3>1
  <2> QED  BY <1>5, <2>1, <2>2
<1>7. ASSUME NEW i \in 1 .. a + b, NEW j \in 1 .. a + b, i < j, t[i] \in Of(p), t[j] \in Of(p)
      PROVE  t[i].n < t[j].n
  <2>1. CASE j <= a
    <3>1. i \in 1 .. a /\ j \in 1 .. a /\ t[i] = q[i] /\ t[j] = q[j]
      BY <1>1, <1>7, <2>1
    <3> QED  BY <1>3, <1>7, <3>1
  <2>2. CASE ~ (i <= a)
    <3>1. i - a \in 1 .. b /\ j - a \in 1 .. b /\ t[i] = r[i - a] /\ t[j] = r[j - a] /\ i - a < j - a
      BY <1>1, <1>7, <2>2
    <3> QED  BY <1>4, <1>7, <3>1
  <2>3. CASE i <= a /\ ~ (j <= a)
    <3>1. i \in 1 .. a /\ j - a \in 1 .. b /\ t[i] = q[i] /\ t[j] = r[j - a]
      BY <1>1, <2>3
    <3>2. t[i].n \in lo + 1 .. mid /\ t[j].n \in mid + 1 .. hi
      BY <1>3, <1>4, <1>7, <3>1
    <3> QED  BY <3>2
  <2> QED  BY <1>1, <1>7, <2>1, <2>2, <2>3
<1>8. ASSUME NEW n \in lo + 1 .. hi PROVE \E i \in 1 .. a + b : t[i] \in Of(p) /\ t[i].n = n
  <2>1. CASE n <= mid
    <3>0. n \in lo + 1 .. mid /\ \A k \in lo + 1 .. mid : \E i \in 1 .. a : q[i] \in Of(p) /\ q[i].n = k
      <4>1. n \in lo + 1 .. mid
        BY <2>1
      <4> QED  BY <1>3, <4>1
    <3>1. PICK i \in 1 .. a : q[i] \in Of(p) /\ q[i].n = n
      BY ONLY <3>0, Zenon
    <3>2. i \in 1 .. a + b /\ t[i] = q[i]
      BY <1>1
    <3> QED  BY <3>1, <3>2
  <2>2. CASE ~ (n <= mid)
    <3>0. n \in mid + 1 .. hi /\ \A k \in mid + 1 .. hi : \E i \in 1 .. b : r[i] \in Of(p) /\ r[i].n = k
      <4>1. n \in mid + 1 .. hi
        BY <2>2
      <4> QED  BY <1>4, <4>1
    <3>1. PICK i \in 1 .. b : r[i] \in Of(p) /\ r[i].n = n
      BY ONLY <3>0, Zenon
    <3>2. i + a \in 1 .. a + b /\ ~ (i + a <= a) /\ (i + a) - a = i
      BY <1>1
    <3>3. t[i + a] = r[i]
      BY <1>1, <3>2
    <3> QED  BY <3>1, <3>2, <3>3
  <2> QED  BY <2>1, <2>2
<1>9. Run(t, p, lo, hi)
  BY <1>1, <1>2, <1>6, <1>7, <1>8 DEF Run
<1> QED  BY <1>9 DEF t

\* A run is that of the head and that of the tail.
LEMMA SplitRun ==
  ASSUME NEW p, NEW S, NEW q \in Seq(S), q # << >>, NEW lo \in Nat, NEW hi \in Nat,
         Run(q, p, lo, hi)
  PROVE  \E mid \in Nat : Run(<<Head(q)>>, p, lo, mid) /\ Run(Tail(q), p, mid, hi)
<1> DEFINE m == Head(q)  t == Tail(q)  k == Len(q)  mid == IF m \in Of(p) THEN lo + 1 ELSE lo
<1>1. /\ k \in Nat /\ k >= 1 /\ m = q[1] /\ Len(t) = k - 1
      /\ \A i \in 1 .. k - 1 : t[i] = q[i + 1]
  BY HeadTailProperties, LenProperties, EmptySeq
<1> HIDE DEF m, t, k
<1>2. /\ lo <= hi
      /\ \A i \in 1 .. k : q[i] \in Of(p) => q[i].n \in lo + 1 .. hi
      /\ \A i, j \in 1 .. k : i < j /\ q[i] \in Of(p) /\ q[j] \in Of(p) => q[i].n < q[j].n
      /\ \A n \in lo + 1 .. hi : \E i \in 1 .. k : q[i] \in Of(p) /\ q[i].n = n
  BY DEF Run, k
<1>3. m \in Of(p) => m.n = lo + 1 /\ lo + 1 <= hi
  <2> SUFFICES ASSUME m \in Of(p) PROVE m.n = lo + 1 /\ lo + 1 <= hi
    OBVIOUS
  <2>1. m.n \in lo + 1 .. hi /\ lo + 1 \in lo + 1 .. hi
    BY <1>1, <1>2
  <2>2. PICK i \in 1 .. k : q[i] \in Of(p) /\ q[i].n = lo + 1
    BY <1>2, <2>1
  <2>3. i # 1 => m.n < lo + 1
    BY <1>1, <1>2, <2>2
  <2> QED  BY <1>1, <2>1, <2>2, <2>3
<1>4. mid \in Nat /\ Run(<<m>>, p, lo, mid)
  BY <1>3, SingleRun
<1>5. Run(t, p, mid, hi)
  <2>1. mid <= hi
    BY <1>2, <1>3
  <2>2. ASSUME NEW i \in 1 .. k - 1, t[i] \in Of(p) PROVE t[i].n \in mid + 1 .. hi
    <3>1. i + 1 \in 1 .. k /\ 1 \in 1 .. k /\ 1 < i + 1 /\ t[i] = q[i + 1]
      BY <1>1
    <3>2. t[i].n \in lo + 1 .. hi
      BY <1>2, <2>2, <3>1
    <3>3. m \in Of(p) => m.n < t[i].n
      BY <1>1, <1>2, <2>2, <3>1
    <3> QED  BY <1>3, <3>2, <3>3
  <2>3. ASSUME NEW i \in 1 .. k - 1, NEW j \in 1 .. k - 1, i < j, t[i] \in Of(p), t[j] \in Of(p)
        PROVE  t[i].n < t[j].n
    <3>1. i + 1 \in 1 .. k /\ j + 1 \in 1 .. k /\ i + 1 < j + 1 /\ t[i] = q[i + 1] /\ t[j] = q[j + 1]
      BY <1>1, <2>3
    <3> QED  BY <1>2, <2>3, <3>1
  <2>4. ASSUME NEW n \in mid + 1 .. hi PROVE \E i \in 1 .. k - 1 : t[i] \in Of(p) /\ t[i].n = n
    <3>1. n \in lo + 1 .. hi
      BY <2>1
    <3>2. PICK i \in 1 .. k : q[i] \in Of(p) /\ q[i].n = n
      BY <1>2, <3>1
    <3>3. i # 1
      BY <1>1, <1>3, <3>2
    <3>4. i - 1 \in 1 .. k - 1 /\ (i - 1) + 1 = i
      BY <1>1, <3>3
    <3>5. t[i - 1] = q[i]
      BY <1>1, <3>4
    <3> QED  BY <3>2, <3>4, <3>5
  <2>5. Len(t) = k - 1
    BY <1>1
  <2> HIDE DEF mid
  <2> QED  BY <2>1, <2>2, <2>3, <2>4, <2>5 DEF Run
<1> QED  BY <1>4, <1>5 DEF m, t
\* A message behind a run.
LEMMA GrownRun ==
  ASSUME NEW p, NEW S, NEW q \in Seq(S), NEW m \in S,
         NEW lo \in Nat, NEW mid \in Nat, NEW hi \in Nat,
         Run(q, p, lo, mid), Run(<<m>>, p, mid, hi)
  PROVE  Run(Append(q, m), p, lo, hi)
<1>1. Append(q, m) = q \o <<m>> /\ <<m>> \in Seq(S)
  BY AppendIsConcat
<1> QED  BY <1>1, JoinedRuns

----------------------------------------------------------------------------
(* The invariant *)

Message == [src : Address, dst : Address \cup {Stub}, n : Nat]

\* What the owner of a sends: messages to its partners, pings to the stub.
Outgoing(a) == {m \in Message : m.src = a /\ (m.dst = Stub \/ <<a, m.dst>> \in Pairs)}

\* What is for the owner of a.
Incoming(a) == {m \in Message : m.dst = a /\ <<m.src, a>> \in Pairs}

\* Queues hold what belongs there; a buffer is empty once its address is
\* learnt, and a pipe to an address until then.
PlaceInv ==
  /\ sent \in [Pairs -> Nat] /\ got \in [Pairs -> Nat]
  /\ up \in [Address -> Seq(Message)]
  /\ down \in [Address -> Seq(Message)]
  /\ bufmsg \in [Address -> Seq(Message)]
  /\ id2addr \in [Address -> Address \cup {Nil}]
  /\ hand = << >> \/ \E a \in Address : \E m \in Outgoing(a) : hand = <<m>>
  /\ \A a \in Address :
       /\ up[a] \in Seq(Outgoing(a))
       /\ down[a] \in Seq(Incoming(a)) /\ bufmsg[a] \in Seq(Incoming(a))
       /\ IF Known(a) THEN id2addr[a] = a /\ bufmsg[a] = << >> ELSE down[a] = << >>

\* Pair p's messages on their way from p[1] to p[2].
PathInv(p) ==
  \E x, y, z \in Nat : /\ Run(down[p[2]], p, got[p], x)
                       /\ Run(bufmsg[p[2]], p, x, y)
                       /\ Run(hand, p, y, z)
                       /\ Run(up[p[1]], p, z, sent[p])

FifoInv == PlaceInv /\ \A p \in Pairs : PathInv(p)

\* Nothing is under way at the start.
LEMMA InitFifo == Init => FifoInv
<1> SUFFICES ASSUME Init PROVE FifoInv
  OBVIOUS
<1>1. PlaceInv
  BY DEF Init, RouterInit, PlaceInv, Known
<1>2. ASSUME NEW p \in Pairs PROVE PathInv(p)
  <2>1. p[1] \in Address /\ p[2] \in Address
    BY SysAssumption
  <2>2. /\ down[p[2]] = << >> /\ bufmsg[p[2]] = << >> /\ hand = << >> /\ up[p[1]] = << >>
        /\ got[p] = 0 /\ sent[p] = 0
    BY <2>1 DEF Init, RouterInit
  <2>3. Run(<< >>, p, 0, 0)
    BY EmptyRun
  <2> QED  BY <2>2, <2>3 DEF PathInv
<1> QED  BY <1>1, <1>2 DEF FifoInv

\* A message its owner sends goes behind the runs of its pipe; it raises the
\* number posted of its own pair only.
LEMMA SendStep ==
  ASSUME FifoInv, NEW a \in Address, NEW m \in Outgoing(a), DealerSend(a, m),
         UNCHANGED <<down, id2addr, bufmsg, hand, got>>,
         sent' \in [Pairs -> Nat],
         \A p \in Pairs : IF m \in Of(p) THEN m.n = sent[p] + 1 /\ sent'[p] = sent[p] + 1
                                         ELSE sent'[p] = sent[p]
  PROVE  FifoInv'
<1>1. up \in [Address -> Seq(Message)] /\ m \in Message
  BY DEF FifoInv, PlaceInv, Outgoing
<1>2. /\ up' \in [Address -> Seq(Message)]
      /\ up'[a] = Append(up[a], m) /\ \A b \in Address : b # a => up'[b] = up[b]
  BY <1>1 DEF DealerSend
<1>3. \A b \in Address : up'[b] \in Seq(Outgoing(b))
  <2>1. \A b \in Address : up[b] \in Seq(Outgoing(b))
    BY DEF FifoInv, PlaceInv
  <2>2. Append(up[a], m) \in Seq(Outgoing(a))
    BY <2>1, AppendProperties
  <2> QED  BY <1>2, <2>1, <2>2
<1>4. PlaceInv'
  BY <1>2, <1>3 DEF FifoInv, PlaceInv, Known, Outgoing, Incoming
<1>5. ASSUME NEW p \in Pairs PROVE PathInv(p)'
  <2>1. p[1] \in Address /\ p[2] \in Address /\ sent[p] \in Nat /\ sent'[p] \in Nat
    BY SysAssumption DEF FifoInv, PlaceInv
  <2>2. PICK x \in Nat, y \in Nat, z \in Nat :
          /\ Run(down[p[2]], p, got[p], x) /\ Run(bufmsg[p[2]], p, x, y)
          /\ Run(hand, p, y, z) /\ Run(up[p[1]], p, z, sent[p])
    BY DEF FifoInv, PathInv
  <2>3. Run(up'[p[1]], p, z, sent'[p])
    <3>1. CASE p[1] = a
      <4>1. Run(<<m>>, p, sent[p], sent'[p])
        BY <2>1, SingleRun
      <4>2. up[a] \in Seq(Message)
        BY <1>1
      <4>3. Run(up[a], p, z, sent[p])
        BY <2>2, <3>1
      <4>4. Run(Append(up[a], m), p, z, sent'[p])
        BY <1>1, <2>1, <4>1, <4>2, <4>3, GrownRun
      <4> QED  BY <1>2, <3>1, <4>4
    <3>2. CASE p[1] # a
      <4>1. m \notin Of(p)
        BY <3>2 DEF Of, Outgoing
      <4> QED  BY <1>2, <2>1, <2>2, <3>2, <4>1
    <3> QED  BY <3>1, <3>2
  <2> QED  BY <2>2, <2>3 DEF PathInv
<1> QED  BY <1>4, <1>5 DEF FifoInv

\* The stub takes a message into its hand; the router learns its source and
\* flushes what it kept for it.
LEMMA ReceiveStep ==
  ASSUME FifoInv, NEW d \in Address, RouterReceive(d), UNCHANGED <<sent, got>>
  PROVE  FifoInv'
<1> DEFINE m == Head(up[d])
<1>1. /\ up \in [Address -> Seq(Message)] /\ down \in [Address -> Seq(Message)]
      /\ bufmsg \in [Address -> Seq(Message)] /\ id2addr \in [Address -> Address \cup {Nil}]
      /\ up[d] \in Seq(Outgoing(d)) /\ up[d] # << >> /\ hand = << >>
  BY DEF FifoInv, PlaceInv, RouterReceive
<1>2. m \in Outgoing(d) /\ Tail(up[d]) \in Seq(Outgoing(d)) /\ Tail(up[d]) \in Seq(Message) /\ m.src = d
  BY <1>1, HeadTailProperties DEF Outgoing
<1>3. /\ hand' = <<m>> /\ up' = [up EXCEPT ![d] = Tail(@)]
      /\ IF Unlearnt(d)
         THEN /\ id2addr' = [id2addr EXCEPT ![d] = d]
              /\ down'    = [down EXCEPT ![d] = @ \o bufmsg[d]]
              /\ bufmsg'  = [bufmsg EXCEPT ![d] = << >>]
         ELSE UNCHANGED <<id2addr, down, bufmsg>>
  BY <1>2 DEF RouterReceive, Flush
<1> HIDE DEF m
<1>4. /\ up' \in [Address -> Seq(Message)] /\ up'[d] = Tail(up[d])
      /\ \A b \in Address : b # d => up'[b] = up[b]
  BY <1>1, <1>2, <1>3
<1>5. /\ down' \in [Address -> Seq(Message)] /\ bufmsg' \in [Address -> Seq(Message)]
      /\ id2addr' \in [Address -> Address \cup {Nil}]
      /\ \A b \in Address : b # d => /\ down'[b] = down[b] /\ bufmsg'[b] = bufmsg[b]
                                     /\ id2addr'[b] = id2addr[b]
  <2>1. down[d] \o bufmsg[d] \in Seq(Message) /\ << >> \in Seq(Message)
    BY <1>1, ConcatProperties
  <2>2. CASE Unlearnt(d)
    BY <1>1, <1>3, <2>1, <2>2
  <2>3. CASE ~ Unlearnt(d)
    BY <1>1, <1>3, <2>3
  <2> QED  BY <2>2, <2>3
<1>6. /\ down'[d] = down[d] \o bufmsg[d] /\ bufmsg'[d] = << >> /\ id2addr'[d] = d
      /\ down'[d] \in Seq(Incoming(d))
  <2>1. /\ down[d] \in Seq(Incoming(d)) /\ bufmsg[d] \in Seq(Incoming(d))
        /\ IF Known(d) THEN id2addr[d] = d /\ bufmsg[d] = << >> ELSE down[d] = << >>
    BY DEF FifoInv, PlaceInv
  <2>2. CASE Known(d)
    <3>1. down[d] \o << >> = down[d]
      BY <2>1, ConcatEmptySeq
    <3> QED  BY <1>3, <2>1, <2>2, <3>1 DEF Unlearnt
  <2>3. CASE ~ Known(d)
    <3>1. << >> \o bufmsg[d] = bufmsg[d]
      BY <2>1, ConcatEmptySeq
    <3> QED  BY <1>1, <1>3, <2>1, <2>3, <3>1 DEF Unlearnt
  <2> QED  BY <2>2, <2>3
<1>7. PlaceInv'
  <2>1. hand' = << >> \/ \E a \in Address : \E k \in Outgoing(a) : hand' = <<k>>
    BY <1>2, <1>3
  <2>2. ASSUME NEW b \in Address
        PROVE  /\ up'[b] \in Seq(Outgoing(b))
               /\ down'[b] \in Seq(Incoming(b)) /\ bufmsg'[b] \in Seq(Incoming(b))
               /\ IF Known(b)' THEN id2addr'[b] = b /\ bufmsg'[b] = << >> ELSE down'[b] = << >>
    <3>1. CASE b = d
      <4>1. << >> \in Seq(Incoming(d)) /\ d # Nil
        BY SysAssumption
      <4> QED  BY <1>2, <1>4, <1>6, <3>1, <4>1 DEF Known
    <3>2. CASE b # d
      BY <1>4, <1>5, <3>2 DEF FifoInv, PlaceInv, Known
    <3> QED  BY <3>1, <3>2
  <2>3. sent' \in [Pairs -> Nat] /\ got' \in [Pairs -> Nat]
    BY DEF FifoInv, PlaceInv
  <2> QED  BY <1>4, <1>5, <2>1, <2>2, <2>3 DEF PlaceInv, Outgoing, Incoming
<1>8. ASSUME NEW p \in Pairs PROVE PathInv(p)'
  <2>1. /\ p[1] \in Address /\ p[2] \in Address /\ sent[p] \in Nat /\ got[p] \in Nat
        /\ sent'[p] = sent[p] /\ got'[p] = got[p]
    BY SysAssumption DEF FifoInv, PlaceInv
  <2>2. PICK x \in Nat, y \in Nat, z \in Nat :
          /\ Run(down[p[2]], p, got[p], x) /\ Run(bufmsg[p[2]], p, x, y)
          /\ Run(hand, p, y, z) /\ Run(up[p[1]], p, z, sent[p])
    BY DEF FifoInv, PathInv
  <2>3. y = z
    BY <1>1, <2>2, EmptyRun
  <2>4. \E w \in Nat : Run(hand', p, y, w) /\ Run(up'[p[1]], p, w, sent[p])
    <3>1. CASE p[1] = d
      <4>1. \E w \in Nat : Run(<<m>>, p, z, w) /\ Run(Tail(up[d]), p, w, sent[p])
        BY <1>1, <2>1, <2>2, <3>1, SplitRun DEF m
      <4> QED  BY <1>3, <1>4, <2>3, <3>1, <4>1
    <3>2. CASE p[1] # d
      <4>1. m \notin Of(p)
        BY <1>2, <3>2 DEF Of
      <4>2. Run(<<m>>, p, y, z)
        BY <2>3, <4>1, SingleRun
      <4> QED  BY <1>3, <1>4, <2>1, <2>2, <3>2, <4>2
    <3> QED  BY <3>1, <3>2
  <2>5. \E v \in Nat : Run(down'[p[2]], p, got[p], v) /\ Run(bufmsg'[p[2]], p, v, y)
    <3>1. CASE p[2] = d
      <4>1. Run(down'[d], p, got[p], y)
        BY <1>1, <1>6, <2>1, <2>2, <3>1, JoinedRuns
      <4>2. Run(<< >>, p, y, y)
        BY EmptyRun
      <4> QED  BY <1>6, <3>1, <4>1, <4>2
    <3>2. CASE p[2] # d
      BY <1>5, <2>1, <2>2, <3>2
    <3> QED  BY <3>1, <3>2
  <2> QED  BY <2>1, <2>4, <2>5 DEF PathInv
<1> QED  BY <1>7, <1>8 DEF FifoInv
\* The stub sends the message in its hand on, or the router keeps it.
LEMMA DispatchStep ==
  ASSUME FifoInv, StubDispatch, UNCHANGED <<sent, got>>
  PROVE  FifoInv'
<1>1. PICK a \in Address : \E k \in Outgoing(a) : hand = <<k>>
  BY DEF FifoInv, PlaceInv, StubDispatch
<1>2. PICK m \in Outgoing(a) : hand = <<m>>
  BY <1>1
<1>3. Head(hand) = m /\ hand' = << >> /\ UNCHANGED <<up, id2addr>>
  BY <1>2 DEF StubDispatch
<1>4. /\ down \in [Address -> Seq(Message)] /\ bufmsg \in [Address -> Seq(Message)]
      /\ m \in Message /\ m.src = a /\ (m.dst = Stub \/ <<a, m.dst>> \in Pairs)
      /\ \A b \in Address : down[b] \in Seq(Incoming(b)) /\ bufmsg[b] \in Seq(Incoming(b))
      /\ \A b \in Address : IF Known(b) THEN id2addr[b] = b /\ bufmsg[b] = << >> ELSE down[b] = << >>
  BY DEF FifoInv, PlaceInv, Outgoing
<1>5. ASSUME m.dst # Stub
      PROVE  LET d == m.dst IN
             /\ d \in Address /\ m \in Incoming(d)
             /\ Append(down[d], m) \in Seq(Incoming(d)) /\ Append(down[d], m) \in Seq(Message)
             /\ Append(bufmsg[d], m) \in Seq(Incoming(d)) /\ Append(bufmsg[d], m) \in Seq(Message)
  <2> DEFINE d == m.dst
  <2>1. <<a, d>> \in Pairs /\ d \in Address /\ m \in Incoming(d)
    BY <1>4, <1>5, SysAssumption DEF Incoming
  <2>2. down[d] \in Seq(Incoming(d)) /\ bufmsg[d] \in Seq(Incoming(d))
        /\ down[d] \in Seq(Message) /\ bufmsg[d] \in Seq(Message)
    BY <1>4, <2>1
  <2> HIDE DEF d
  <2>3. \A S, q : q \in Seq(S) /\ m \in S => Append(q, m) \in Seq(S)
    BY AppendProperties
  <2> QED  BY <1>4, <2>1, <2>2, <2>3 DEF d
<1>6. /\ down' \in [Address -> Seq(Message)] /\ bufmsg' \in [Address -> Seq(Message)]
      /\ \A b \in Address :
           IF b = m.dst
           THEN IF Known(b) THEN down'[b] = Append(down[b], m) /\ bufmsg'[b] = bufmsg[b]
                            ELSE down'[b] = down[b] /\ bufmsg'[b] = Append(bufmsg[b], m)
           ELSE down'[b] = down[b] /\ bufmsg'[b] = bufmsg[b]
  <2>1. CASE m.dst = Stub
    <3>1. UNCHANGED <<down, bufmsg>>
      BY <1>3, <2>1 DEF StubDispatch
    <3> QED  BY <1>4, <2>1, <3>1, SysAssumption
  <2>2. CASE m.dst # Stub /\ Known(m.dst)
    <3>1. down' = [down EXCEPT ![m.dst] = Append(@, m)] /\ bufmsg' = bufmsg
      BY <1>3, <1>4, <1>5, <2>2 DEF StubDispatch, RouterSend
    <3> QED  BY <1>4, <1>5, <2>2, <3>1
  <2>3. CASE m.dst # Stub /\ ~ Known(m.dst)
    <3>1. bufmsg' = [bufmsg EXCEPT ![m.dst] = Append(@, m)] /\ down' = down
      BY <1>3, <2>3 DEF StubDispatch, RouterSend
    <3> QED  BY <1>4, <1>5, <2>3, <3>1
  <2> QED  BY <2>1, <2>2, <2>3
<1>7. PlaceInv'
  <2>1. ASSUME NEW b \in Address
        PROVE  /\ down'[b] \in Seq(Incoming(b)) /\ bufmsg'[b] \in Seq(Incoming(b))
               /\ IF Known(b)' THEN id2addr'[b] = b /\ bufmsg'[b] = << >> ELSE down'[b] = << >>
    <3>1. Known(b)' <=> Known(b)
      BY <1>3 DEF Known
    <3>2. CASE b = m.dst
      <4>1. m.dst # Stub
        BY <3>2, SysAssumption
      <4> QED  BY <1>3, <1>4, <1>5, <1>6, <3>1, <3>2, <4>1
    <3>3. CASE b # m.dst
      BY <1>3, <1>4, <1>6, <3>1, <3>3
    <3> QED  BY <3>2, <3>3
  <2>2. /\ sent' \in [Pairs -> Nat] /\ got' \in [Pairs -> Nat]
        /\ up' \in [Address -> Seq(Message)] /\ id2addr' \in [Address -> Address \cup {Nil}]
        /\ \A b \in Address : up'[b] \in Seq(Outgoing(b))
    BY <1>3 DEF FifoInv, PlaceInv
  <2> QED  BY <1>3, <1>6, <2>1, <2>2 DEF PlaceInv, Outgoing, Incoming
<1>8. ASSUME NEW p \in Pairs PROVE PathInv(p)'
  <2> DEFINE d == p[2]
  <2>1. /\ p[1] \in Address /\ d \in Address /\ sent[p] \in Nat /\ got[p] \in Nat
        /\ sent'[p] = sent[p] /\ got'[p] = got[p] /\ up'[p[1]] = up[p[1]]
    BY <1>3, SysAssumption DEF FifoInv, PlaceInv
  <2>2. PICK x \in Nat, y \in Nat, z \in Nat :
          /\ Run(down[d], p, got[p], x) /\ Run(bufmsg[d], p, x, y)
          /\ Run(<<m>>, p, y, z) /\ Run(up[p[1]], p, z, sent[p])
    BY <1>2 DEF FifoInv, PathInv
  <2>3. Run(<< >>, p, z, z)
    BY EmptyRun
  <2>4. \E u, v \in Nat : Run(down'[d], p, got[p], u) /\ Run(bufmsg'[d], p, u, v) /\ v = z
    <3>1. down[d] \in Seq(Message) /\ bufmsg[d] \in Seq(Message)
      BY <1>4, <2>1
    <3>2. CASE d = m.dst /\ Known(d)
      <4>1. bufmsg[d] = << >> /\ bufmsg'[d] = << >> /\ down'[d] = Append(down[d], m)
        BY <1>4, <1>6, <2>1, <3>2
      <4>2. x = y
        BY <2>2, <4>1, EmptyRun
      <4>3. Run(Append(down[d], m), p, got[p], z)
        BY <1>4, <2>1, <2>2, <3>1, <4>2, GrownRun
      <4> QED  BY <2>3, <4>1, <4>3
    <3>3. CASE d = m.dst /\ ~ Known(d)
      <4>1. bufmsg'[d] = Append(bufmsg[d], m) /\ down'[d] = down[d]
        BY <1>6, <2>1, <3>3
      <4>2. Run(Append(bufmsg[d], m), p, x, z)
        BY <1>4, <2>2, <3>1, GrownRun
      <4> QED  BY <2>2, <4>1, <4>2
    <3>4. CASE d # m.dst
      <4>1. m \notin Of(p)
        BY <3>4 DEF Of
      <4>2. y = z
        BY <2>2, <4>1, SingleRun
      <4>3. bufmsg'[d] = bufmsg[d] /\ down'[d] = down[d]
        BY <1>6, <2>1, <3>4
      <4> QED  BY <2>2, <4>2, <4>3
    <3> QED  BY <3>2, <3>3, <3>4
  <2>5. PICK u \in Nat, v \in Nat :
          Run(down'[d], p, got[p], u) /\ Run(bufmsg'[d], p, u, v) /\ v = z
    BY <2>4
  <2>6. Run(hand', p, v, z) /\ Run(up'[p[1]], p, z, sent'[p])
    BY <1>3, <2>1, <2>2, <2>3, <2>5
  <2> QED  BY <2>1, <2>5, <2>6 DEF PathInv
<1> QED  BY <1>7, <1>8 DEF FifoInv

\* What a thread takes out is the next of its pair.
LEMMA TakeStep ==
  ASSUME FifoInv, NEW a \in Address, Take(a)
  PROVE  FifoInv' /\ Fifo!Next
<1> DEFINE m == Head(down[a])  o == <<m.src, a>>
<1>1. /\ down \in [Address -> Seq(Message)] /\ down[a] \in Seq(Incoming(a)) /\ down[a] # << >>
      /\ got \in [Pairs -> Nat] /\ sent \in [Pairs -> Nat]
  BY DEF FifoInv, PlaceInv, Take, DealerReceive
<1>2. /\ m \in Incoming(a) /\ Tail(down[a]) \in Seq(Incoming(a)) /\ Tail(down[a]) \in Seq(Message)
  BY <1>1, HeadTailProperties DEF Incoming
<1>3. /\ o \in Pairs /\ m \in Message /\ m.dst = a /\ m \in Of(o)
      /\ \A p \in Pairs : p[2] = a /\ p # o => m \notin Of(p)
  <2>1. o \in Pairs /\ m \in Message /\ m.dst = a /\ o[1] = m.src /\ o[2] = a /\ a \in Address
    BY <1>2 DEF Incoming
  <2>2. m \in [src : Address, dst : Address, n : Nat]
    BY <2>1 DEF Message
  <2>3. \A p \in Pairs : p = <<p[1], p[2]>>
    BY SysAssumption
  <2> QED  BY <2>1, <2>2, <2>3 DEF Of
<1>4. /\ down' = [down EXCEPT ![a] = Tail(@)] /\ got' = [got EXCEPT ![o] = m.n]
      /\ UNCHANGED <<up, id2addr, bufmsg, hand, sent>>
  BY DEF Take, DealerReceive
<1> HIDE DEF m, o
<1>5. \A p \in Pairs : got'[p] = IF p = o THEN m.n ELSE got[p]
  BY <1>1, <1>4
<1>6. down' \in [Address -> Seq(Message)] /\ down'[a] = Tail(down[a])
      /\ \A b \in Address : b # a => down'[b] = down[b]
  BY <1>1, <1>2, <1>4
<1>7. ASSUME NEW p \in Pairs
      PROVE  /\ PathInv(p)'
             /\ p = o => got[p] < sent[p] /\ m.n = got[p] + 1
  <2>1. /\ p[1] \in Address /\ p[2] \in Address /\ sent[p] \in Nat /\ got[p] \in Nat
        /\ sent'[p] = sent[p]
    BY <1>1, <1>4, SysAssumption
  <2>2. PICK x \in Nat, y \in Nat, z \in Nat :
          /\ Run(down[p[2]], p, got[p], x) /\ Run(bufmsg[p[2]], p, x, y)
          /\ Run(hand, p, y, z) /\ Run(up[p[1]], p, z, sent[p])
    BY DEF FifoInv, PathInv
  <2>3. x <= y /\ y <= z /\ z <= sent[p]
    BY <2>2 DEF Run
  <2>4. CASE p[2] = a
    <3>1. down[a] \in Seq(Message) /\ Run(down[a], p, got[p], x)
      BY <1>1, <2>2, <2>4
    <3>2. PICK w \in Nat : Run(<<m>>, p, got[p], w) /\ Run(Tail(down[a]), p, w, x)
      BY <1>1, <2>1, <3>1, SplitRun DEF m
    <3>3. IF m \in Of(p) THEN w = got[p] + 1 /\ m.n = w ELSE got[p] = w
      BY <2>1, <3>2, SingleRun
    <3>4. w <= x
      BY <3>2 DEF Run
    <3>5. w = got'[p] /\ (p = o => got[p] < sent[p] /\ m.n = got[p] + 1)
      BY <1>3, <1>5, <2>1, <2>3, <2>4, <3>3, <3>4
    <3>6. Run(down'[p[2]], p, got'[p], x)
      BY <1>6, <2>4, <3>2, <3>5
    <3> QED  BY <1>4, <2>2, <3>5, <3>6 DEF PathInv
  <2>5. CASE p[2] # a
    <3>1. p # o
      BY <2>5 DEF o
    <3>2. down'[p[2]] = down[p[2]] /\ got'[p] = got[p]
      BY <1>5, <1>6, <2>1, <2>5, <3>1
    <3> QED  BY <1>4, <2>2, <3>1, <3>2 DEF PathInv
  <2> QED  BY <2>4, <2>5
<1>8. PlaceInv'
  <2>1. m.n \in Nat
    BY <1>3 DEF Message
  <2>2. got' \in [Pairs -> Nat]
    BY <1>1, <1>4, <2>1
  <2>3. ASSUME NEW b \in Address
        PROVE  /\ down'[b] \in Seq(Incoming(b)) /\ bufmsg'[b] \in Seq(Incoming(b))
               /\ IF Known(b)' THEN id2addr'[b] = b /\ bufmsg'[b] = << >> ELSE down'[b] = << >>
    <3>1. IF Known(b) THEN id2addr[b] = b /\ bufmsg[b] = << >> ELSE down[b] = << >>
      BY DEF FifoInv, PlaceInv
    <3>2. CASE b = a
      BY <1>1, <1>2, <1>4, <1>6, <3>1, <3>2 DEF FifoInv, PlaceInv, Known
    <3>3. CASE b # a
      BY <1>4, <1>6, <3>1, <3>3 DEF FifoInv, PlaceInv, Known
    <3> QED  BY <3>2, <3>3
  <2> QED  BY <1>4, <1>6, <2>2, <2>3 DEF FifoInv, PlaceInv, Outgoing, Incoming
<1>9. Fifo!Deliver(o)
  <2>1. got[o] < sent[o] /\ m.n = got[o] + 1
    BY <1>3, <1>7
  <2> QED  BY <1>4, <2>1 DEF Fifo!Deliver
<1> QED  BY <1>3, <1>7, <1>8, <1>9 DEF FifoInv, Fifo!Next

\* Every step keeps the invariant, and sends or delivers the next message of
\* a pair or neither.
LEMMA FifoStep == FifoInv /\ [Next]_vars => FifoInv' /\ [Fifo!Next]_<<sent, got>>
<1> SUFFICES ASSUME FifoInv, [Next]_vars PROVE FifoInv' /\ [Fifo!Next]_<<sent, got>>
  OBVIOUS
<1>1. ASSUME NEW a \in Address, Ping(a) PROVE FifoInv' /\ UNCHANGED <<sent, got>>
  <2> DEFINE m == [src |-> a, dst |-> Stub, n |-> 0]
  <2>1. m \in Outgoing(a) /\ \A p : m \notin Of(p)
    BY SysAssumption DEF Outgoing, Message, Of
  <2>2. DealerSend(a, m) /\ UNCHANGED <<down, id2addr, bufmsg, hand, got, sent>>
    BY <1>1 DEF Ping
  <2>3. sent' \in [Pairs -> Nat]
    BY <2>2 DEF FifoInv, PlaceInv
  <2> HIDE DEF m
  <2> QED  BY <2>1, <2>2, <2>3, SendStep
<1>2. ASSUME NEW a \in Address, Take(a) PROVE FifoInv' /\ Fifo!Next
  BY <1>2, TakeStep
<1>3. ASSUME NEW a \in Address, StubReceive(a) PROVE FifoInv' /\ UNCHANGED <<sent, got>>
  BY <1>3, ReceiveStep DEF StubReceive
<1>4. ASSUME NEW o \in Pairs, Post(o) PROVE FifoInv' /\ Fifo!Next
  <2> DEFINE m == [src |-> o[1], dst |-> o[2], n |-> sent[o] + 1]
  <2>1. o = <<o[1], o[2]>> /\ o[1] \in Address /\ o[2] \in Address
        /\ \A p \in Pairs : p = <<p[1], p[2]>>
    BY SysAssumption
  <2>2. sent \in [Pairs -> Nat] /\ sent[o] + 1 \in Nat
    BY DEF FifoInv, PlaceInv
  <2>3. m \in Outgoing(o[1])
    BY <2>1, <2>2 DEF Outgoing, Message
  <2>4. /\ DealerSend(o[1], m) /\ UNCHANGED <<down, id2addr, bufmsg, hand, got>>
        /\ sent' = [sent EXCEPT ![o] = @ + 1]
    BY <1>4 DEF Post
  <2>5. m.src = o[1] /\ m.dst = o[2] /\ m.n = sent[o] + 1
    OBVIOUS
  <2>6. m \in Of(o)
    BY <2>1, <2>2 DEF Of
  <2> HIDE DEF m
  <2>7. ASSUME NEW p \in Pairs
        PROVE  IF m \in Of(p) THEN m.n = sent[p] + 1 /\ sent'[p] = sent[p] + 1
                              ELSE sent'[p] = sent[p]
    <3>1. m \in Of(p) <=> p = o
      BY <2>1, <2>5, <2>6 DEF Of
    <3> QED  BY <2>2, <2>4, <2>5, <3>1
  <2>8. sent' \in [Pairs -> Nat]
    BY <2>2, <2>4
  <2>9. FifoInv'
    BY <2>1, <2>3, <2>4, <2>7, <2>8, SendStep
  <2> QED  BY <2>4, <2>9 DEF Fifo!Next, Fifo!Send
<1>5. ASSUME StubSend PROVE FifoInv' /\ UNCHANGED <<sent, got>>
  BY <1>5, DispatchStep DEF StubSend
<1>6. ASSUME UNCHANGED vars PROVE FifoInv' /\ UNCHANGED <<sent, got>>
  <2>1. FifoInv'
    BY <1>6 DEF FifoInv, PlaceInv, PathInv, Known, Outgoing, Incoming, vars
  <2> QED  BY <1>6, <2>1 DEF vars
<1> QED  BY <1>1, <1>2, <1>3, <1>4, <1>5, <1>6 DEF Next

\* Between every pair of addresses messages arrive once each and in the order
\* sent, whatever the router keeps and flushes (Router::Send,
\* Router::Receive).
THEOREM FabricFifo == Spec => ImplementsFifoPairs
<1>1. Init => FifoInv /\ Fifo!Init
  BY InitFifo DEF Init, Fifo!Init
<1> QED  BY <1>1, FifoStep, PTL DEF Spec, ImplementsFifoPairs, Fifo!Spec
----------------------------------------------------------------------------
(* The count of kept messages *)

\* The count covers what is kept, and while the process runs it is in bounds.
CountInv ==
  /\ IsFiniteSet(Slots) /\ nBufmsg \in Nat
  /\ Kept <= nBufmsg
  /\ Running => nBufmsg <= BufSize

\* Which places are taken.
LEMMA SlotsMeaning ==
  ASSUME PlaceInv
  PROVE  /\ \A x : x \in Slots <=> \E a \in Address : \E i \in 1 .. Len(bufmsg[a]) : x = <<a, i>>
         /\ \A a \in Address : bufmsg[a] \in Seq(Message) /\ Len(bufmsg[a]) \in Nat
<1>1. \A a \in Address : bufmsg[a] \in Seq(Message)
  BY DEF PlaceInv
<1>2. \A a \in Address : Len(bufmsg[a]) \in Nat
  BY <1>1, LenProperties
<1> QED  BY <1>1, <1>2 DEF Slots

\* Nothing is kept that was not kept before.
LEMMA CountFalls ==
  ASSUME PlaceInv, CountInv, UNCHANGED <<nBufmsg, process>>,
         \A a \in Address : bufmsg'[a] = bufmsg[a] \/ bufmsg'[a] = << >>
  PROVE  CountInv'
<1>1. Slots' \subseteq Slots
  <2>1. Len(<< >>) = 0
    OBVIOUS
  <2> QED  BY <2>1 DEF Slots
<1>2. IsFiniteSet(Slots') /\ Cardinality(Slots') <= Cardinality(Slots)
      /\ Cardinality(Slots') \in Nat /\ Cardinality(Slots) \in Nat
  BY <1>1, FS_Subset, FS_CardinalityType DEF CountInv
<1> QED  BY <1>2 DEF CountInv, Kept, Running

\* One more message is kept.
LEMMA CountRises ==
  ASSUME PlaceInv, CountInv, Running, NEW d \in Address, NEW m \in Message,
         bufmsg'  = [bufmsg EXCEPT ![d] = Append(@, m)],
         nBufmsg' = CountAfterPush,
         process' = IF CountAfterPush <= BufSize THEN process ELSE "aborted"
  PROVE  CountInv'
<1> DEFINE new == <<d, Len(bufmsg[d]) + 1>>
<1>1. /\ bufmsg \in [Address -> Seq(Message)]
      /\ \A a \in Address : bufmsg[a] \in Seq(Message) /\ Len(bufmsg[a]) \in Nat
      /\ \A x : x \in Slots <=> \E a \in Address : \E i \in 1 .. Len(bufmsg[a]) : x = <<a, i>>
  BY SlotsMeaning DEF PlaceInv
<1>2. \A a \in Address : Len(bufmsg'[a]) = IF a = d THEN Len(bufmsg[a]) + 1 ELSE Len(bufmsg[a])
  <2>1. Len(Append(bufmsg[d], m)) = Len(bufmsg[d]) + 1
    BY <1>1, AppendProperties
  <2> QED  BY <1>1, <2>1
<1>3. Slots' = Slots \cup {new}
  <2>1. ASSUME NEW x PROVE x \in Slots' <=> \E a \in Address : \E i \in 1 .. Len(bufmsg'[a]) : x = <<a, i>>
    BY DEF Slots
  <2>2. ASSUME NEW x \in Slots' PROVE x \in Slots \cup {new}
    <3>1. PICK a \in Address : \E i \in 1 .. Len(bufmsg'[a]) : x = <<a, i>>
      BY <2>1, <2>2
    <3>2. PICK i \in 1 .. Len(bufmsg'[a]) : x = <<a, i>>
      BY <3>1
    <3>3. i \in 1 .. Len(bufmsg[a]) \/ (a = d /\ i = Len(bufmsg[a]) + 1)
      BY <1>1, <1>2
    <3> QED  BY <1>1, <3>2, <3>3
  <2>3. ASSUME NEW x \in Slots PROVE x \in Slots'
    <3>1. PICK a \in Address : \E i \in 1 .. Len(bufmsg[a]) : x = <<a, i>>
      BY <1>1, <2>3
    <3>2. PICK i \in 1 .. Len(bufmsg[a]) : x = <<a, i>>
      BY <3>1
    <3>3. i \in 1 .. Len(bufmsg'[a])
      BY <1>1, <1>2
    <3> QED  BY <2>1, <3>2, <3>3
  <2>4. new \in Slots'
    <3>1. Len(bufmsg[d]) + 1 \in 1 .. Len(bufmsg'[d])
      BY <1>1, <1>2
    <3> QED  BY <2>1, <3>1
  <2> QED  BY <2>2, <2>3, <2>4
<1>4. new \notin Slots
  <2> SUFFICES ASSUME NEW a \in Address, NEW i \in 1 .. Len(bufmsg[a]), new = <<a, i>>
               PROVE  FALSE
    BY <1>1
  <2> QED  BY <1>1
<1>5. /\ IsFiniteSet(Slots') /\ Cardinality(Slots) \in Nat
      /\ Cardinality(Slots') = Cardinality(Slots) + 1
  BY <1>3, <1>4, FS_AddElement, FS_CardinalityType DEF CountInv
<1>6. CountAfterPush \in Nat /\ Cardinality(Slots) + 1 <= CountAfterPush
  <2>1. CASE \A a \in Address : bufmsg[a] = << >>
    <3>1. Slots = {}
      BY <2>1, <1>1
    <3> QED  BY <2>1, <3>1, FS_EmptySet DEF CountAfterPush
  <2>2. CASE ~ \A a \in Address : bufmsg[a] = << >>
    BY <1>5, <2>2 DEF CountAfterPush, CountInv, Kept
  <2> QED  BY <2>1, <2>2
<1>7. Running' => CountAfterPush <= BufSize
  BY DEF Running
<1> QED  BY <1>5, <1>6, <1>7 DEF CountInv, Kept

\* Every step keeps the count's invariant.
LEMMA CountStep == FifoInv /\ CountInv /\ [Next]_vars => CountInv'
<1> SUFFICES ASSUME PlaceInv, CountInv, [Next]_vars PROVE CountInv'
  BY DEF FifoInv
<1>1. CASE UNCHANGED <<bufmsg, nBufmsg, process>>
  BY <1>1, CountFalls
<1>2. ASSUME NEW a \in Address, RouterReceive(a) PROVE CountInv'
  <2>1. \A b \in Address : bufmsg'[b] = bufmsg[b] \/ bufmsg'[b] = << >>
    <3>1. UNCHANGED bufmsg \/ bufmsg' = [bufmsg EXCEPT ![Head(up[a]).src] = << >>]
      BY <1>2 DEF RouterReceive
    <3> QED  BY <3>1 DEF PlaceInv
  <2> QED  BY <1>2, <2>1, CountFalls DEF RouterReceive
<1>3. ASSUME Running, StubDispatch PROVE CountInv'
  <2>1. PICK a \in Address : \E k \in Outgoing(a) : hand = <<k>>
    BY <1>3 DEF PlaceInv, StubDispatch
  <2>2. PICK m \in Outgoing(a) : hand = <<m>>
    BY <2>1
  <2>3. Head(hand) = m /\ m \in Message /\ (m.dst = Stub \/ m.dst \in Address)
    BY <2>2 DEF Outgoing, Message
  <2>4. CASE m.dst = Stub \/ Known(m.dst)
    <3>1. UNCHANGED <<bufmsg, nBufmsg, process>>
      BY <1>3, <2>3, <2>4 DEF StubDispatch, RouterSend
    <3> QED  BY <3>1, <1>1
  <2>5. CASE m.dst # Stub /\ ~ Known(m.dst)
    <3>1. /\ bufmsg'  = [bufmsg EXCEPT ![m.dst] = Append(@, m)]
          /\ nBufmsg' = CountAfterPush
          /\ process' = IF CountAfterPush <= BufSize THEN process ELSE "aborted"
      BY <1>3, <2>3, <2>5 DEF StubDispatch, RouterSend
    <3> QED  BY <1>3, <2>3, <2>5, <3>1, CountRises
  <2> QED  BY <2>4, <2>5
<1>4. \/ UNCHANGED <<bufmsg, nBufmsg, process>>
      \/ \E a \in Address : RouterReceive(a)
      \/ Running /\ StubDispatch
  BY DEF Next, Ping, Take, StubReceive, Post, StubSend, vars
<1> QED  BY <1>1, <1>2, <1>3, <1>4

\* The router's count is never below what it keeps, so the CHECK_LE of
\* Router::Send bounds the memory its buffers take.
THEOREM CountBounds == Spec => []CountCoversKept
<1>1. Init => CountInv
  <2> SUFFICES ASSUME Init PROVE CountInv
    OBVIOUS
  <2>1. nBufmsg = 0 /\ \A a \in Address : bufmsg[a] = << >>
    BY DEF Init, RouterInit
  <2>2. Slots = {}
    BY <2>1 DEF Slots
  <2> QED  BY <2>1, <2>2, FS_EmptySet, SysAssumption DEF CountInv, Kept
<1>2. CountInv => CountCoversKept
  <2>1. CountInv => Cardinality(Slots) \in Nat
    BY FS_CardinalityType DEF CountInv
  <2> QED  BY <2>1, SysAssumption DEF CountInv, CountCoversKept, Kept
<1> QED  BY <1>1, <1>2, InitFifo, FifoStep, CountStep, PTL DEF Spec
=============================================================================
