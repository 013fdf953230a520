----------------------------- MODULE StoreProofs -----------------------------
(***************************************************************************)
(* Theorems about what ParamServer computes, for every number of groups,   *)
(* servers, parameters, steps and signals, every order of Backward, every  *)
(* schedule of tests, with and without hogwild:                            *)
(*                                                                         *)
(*   UpdatesSingle     OneUpdateUnderWay                                   *)
(*   OwnGradientsRead  ReadsOwnGradients                                   *)
(*   InitialValuesRead UninitialisedOnlyAtFirst                            *)
(*   TestLag           TestLagsOneStep                                     *)
(*   GradientsKept     NothingLost, without hogwild                        *)
(*   StoreImplemented  the servers implement ParamStore                    *)
(*   ChecksPass        NoCheckFails, under conditions on the configuration *)
(*                                                                         *)
(* All follow from one inductive invariant, StoreInv, the last one with    *)
(* ChecksInv added.  StoreInv speaks of the messages under way only        *)
(* through Some and AtMostOne, which the router, the bouncing of a request *)
(* included, leaves as they are.                                           *)
(***************************************************************************)
EXTENDS ParamServerProofs, FiniteSetTheorems, SequenceTheorems

----------------------------------------------------------------------------
(* Messages that wait in queues: L is a function from places to sequences, *)
(* K a set of messages.  What moves from queue to queue is neither lost    *)
(* nor doubled.                                                            *)

\* A message of K waits somewhere.
Some(L, K) == \E c \in DOMAIN L : \E i \in 1 .. Len(L[c]) : L[c][i] \in K

\* No two messages of K wait anywhere.
AtMostOne(L, K) ==
  \A c, d \in DOMAIN L : \A i \in 1 .. Len(L[c]) : \A j \in 1 .. Len(L[d]) :
    L[c][i] \in K /\ L[d][j] \in K => c = d /\ i = j

\* Taking the first message out of queue a.
Take(L, a) == [L EXCEPT ![a] = Tail(@)]

\* Adding message m to queue b.
Add(L, b, m) == [L EXCEPT ![b] = Append(@, m)]

\* Emptying queue a onto the end of queue b.
Join(L, a, b) == [L EXCEPT ![b] = @ \o L[a], ![a] = << >>]

\* The messages of K may have moved, no more.
Moved(L, N, K) ==
  /\ Some(N, K) <=> Some(L, K)
  /\ AtMostOne(L, K) => AtMostOne(N, K)

\* A larger set has more messages.
LEMMA Monotone ==
  ASSUME NEW L, NEW J, NEW K, J \subseteq K
  PROVE  (Some(L, J) => Some(L, K)) /\ (AtMostOne(L, K) => AtMostOne(L, J))
  BY DEF Some, AtMostOne

\* A message of two sets together is one of either.
LEMMA InEither == \A L, J, K : Some(L, J \cup K) => Some(L, J) \/ Some(L, K)
  BY DEF Some

\* Taking the first message out of a queue.
LEMMA Taken ==
  ASSUME NEW P, NEW M, NEW L \in [P -> Seq(M)], NEW a \in P, L[a] # << >>, NEW K
  PROVE  /\ Take(L, a) \in [P -> Seq(M)] /\ Head(L[a]) \in M
         /\ Some(L, K) <=> Some(Take(L, a), K) \/ Head(L[a]) \in K
         /\ AtMostOne(L, K) => AtMostOne(Take(L, a), K)
         /\ AtMostOne(L, K) /\ Head(L[a]) \in K => ~ Some(Take(L, a), K)
<1> DEFINE N == Take(L, a)
<1>0. N = [L EXCEPT ![a] = Tail(@)]
  BY DEF Take
<1> HIDE DEF N
<1>1. /\ DOMAIN L = P /\ DOMAIN N = P /\ N = [c \in P |-> N[c]]
      /\ N[a] = Tail(L[a]) /\ \A c \in P : c # a => N[c] = L[c]
  BY <1>0
<1>2. /\ L[a] \in Seq(M) /\ Len(L[a]) \in Nat /\ Len(L[a]) # 0
      /\ Head(L[a]) = L[a][1] /\ Head(L[a]) \in M
      /\ Tail(L[a]) \in Seq(M) /\ Len(Tail(L[a])) = Len(L[a]) - 1
      /\ \A i \in 1 .. Len(Tail(L[a])) : Tail(L[a])[i] = L[a][i + 1]
  <2>1. L[a] \in Seq(M)
    OBVIOUS
  <2> QED  BY <2>1, HeadTailProperties, EmptySeq
<1>3. \A i \in 1 .. Len(N[a]) : i + 1 \in 1 .. Len(L[a]) /\ N[a][i] = L[a][i + 1]
  BY <1>1, <1>2
<1>4. N \in [P -> Seq(M)]
  <2>1. \A c \in P : c # a => N[c] \in Seq(M)
    BY <1>1
  <2> QED  BY <1>1, <1>2, <2>1
<1>5. ASSUME Some(L, K)  PROVE Some(N, K) \/ Head(L[a]) \in K
  <2>1. PICK c \in P : \E i \in 1 .. Len(L[c]) : L[c][i] \in K
    BY <1>5, <1>1 DEF Some
  <2>0. PICK i \in 1 .. Len(L[c]) : L[c][i] \in K
    BY <2>1
  <2>2. CASE c # a
    BY <2>0, <2>2, <1>1 DEF Some
  <2>3. CASE c = a /\ i # 1
    <3>1. i - 1 \in 1 .. Len(N[a]) /\ N[a][i - 1] = L[a][i]
      BY <2>3, <1>1, <1>2
    <3> QED  BY <2>0, <2>3, <3>1, <1>1 DEF Some
  <2> QED  BY <2>0, <2>2, <2>3, <1>2
<1>6. ASSUME Some(N, K) \/ Head(L[a]) \in K  PROVE Some(L, K)
  <2>1. CASE Head(L[a]) \in K
    <3>1. 1 \in 1 .. Len(L[a])
      BY <1>2
    <3> QED  BY <2>1, <3>1, <1>1, <1>2 DEF Some
  <2>2. CASE Some(N, K)
    <3>1. PICK c \in P : \E i \in 1 .. Len(N[c]) : N[c][i] \in K
      BY <2>2, <1>1 DEF Some
    <3> QED  BY <3>1, <1>1, <1>3 DEF Some
  <2> QED  BY <1>6, <2>1, <2>2
<1>7. ASSUME AtMostOne(L, K), NEW c \in P, NEW d \in P,
             NEW i \in 1 .. Len(N[c]), NEW j \in 1 .. Len(N[d]),
             N[c][i] \in K, N[d][j] \in K
      PROVE  c = d /\ i = j
  <2> DEFINE Old(x, k) == IF x = a THEN k + 1 ELSE k
  <2>1. /\ Old(c, i) \in 1 .. Len(L[c]) /\ L[c][Old(c, i)] \in K
        /\ Old(d, j) \in 1 .. Len(L[d]) /\ L[d][Old(d, j)] \in K
    BY <1>7, <1>1, <1>3
  <2>2. c = d /\ Old(c, i) = Old(d, j)
    BY <2>1, <1>7, <1>1 DEF AtMostOne
  <2> QED  BY <2>2
<1>8. ASSUME AtMostOne(L, K), Head(L[a]) \in K, Some(N, K)  PROVE FALSE
  <2>1. PICK c \in P : \E i \in 1 .. Len(N[c]) : N[c][i] \in K
    BY <1>8, <1>1 DEF Some
  <2>0. PICK i \in 1 .. Len(N[c]) : N[c][i] \in K
    BY <2>1
  <2>2. 1 \in 1 .. Len(L[a]) /\ L[a][1] \in K
    BY <1>8, <1>2
  <2>3. CASE c = a
    <3>1. i + 1 \in 1 .. Len(L[a]) /\ L[a][i + 1] \in K /\ i \in Nat /\ i # 0
      BY <2>0, <2>3, <1>3
    <3>2. i + 1 = 1
      BY <2>2, <3>1, <1>8, <1>1 DEF AtMostOne
    <3> QED  BY <3>1, <3>2
  <2>4. CASE c # a
    BY <2>0, <2>2, <2>4, <1>8, <1>1 DEF AtMostOne
  <2> QED  BY <2>3, <2>4
<1>9. AtMostOne(L, K) => AtMostOne(N, K)
  BY <1>7, <1>1 DEF AtMostOne
<1> QED  BY <1>2, <1>4, <1>5, <1>6, <1>8, <1>9 DEF N

\* Adding a message to a queue.
LEMMA Added ==
  ASSUME NEW P, NEW M, NEW L \in [P -> Seq(M)], NEW b \in P, NEW m \in M, NEW K
  PROVE  /\ Add(L, b, m) \in [P -> Seq(M)]
         /\ Some(Add(L, b, m), K) <=> Some(L, K) \/ m \in K
         /\ AtMostOne(L, K) /\ (m \notin K \/ ~ Some(L, K)) => AtMostOne(Add(L, b, m), K)
<1> DEFINE N == Add(L, b, m)
<1>0. N = [L EXCEPT ![b] = Append(@, m)]
  BY DEF Add
<1> HIDE DEF N
<1> DEFINE n == Len(L[b]) + 1
<1>1. /\ DOMAIN L = P /\ DOMAIN N = P /\ N = [c \in P |-> N[c]]
      /\ N[b] = Append(L[b], m) /\ \A c \in P : c # b => N[c] = L[c]
  BY <1>0
<1>2. /\ L[b] \in Seq(M) /\ Len(L[b]) \in Nat /\ N[b] \in Seq(M) /\ Len(N[b]) = n
      /\ N[b][n] = m /\ \A i \in 1 .. Len(L[b]) : N[b][i] = L[b][i]
  <2>1. L[b] \in Seq(M)
    OBVIOUS
  <2> QED  BY <1>1, <2>1, AppendProperties
<1>3. N \in [P -> Seq(M)]
  <2>1. \A c \in P : c # b => N[c] \in Seq(M)
    BY <1>1
  <2> QED  BY <1>1, <1>2, <2>1
<1>4. \A c \in P : \A i \in 1 .. Len(N[c]) :
        \/ i \in 1 .. Len(L[c]) /\ N[c][i] = L[c][i]
        \/ c = b /\ i = n /\ N[c][i] = m
  BY <1>1, <1>2
<1>5. \A c \in P : \A i \in 1 .. Len(L[c]) : i \in 1 .. Len(N[c]) /\ N[c][i] = L[c][i]
  <2>1. \A i \in 1 .. Len(L[b]) : i \in 1 .. Len(N[b]) /\ N[b][i] = L[b][i]
    BY <1>2
  <2> QED  BY <1>1, <2>1
<1>6. Some(N, K) => Some(L, K) \/ m \in K
  BY <1>1, <1>4 DEF Some
<1>7. Some(L, K) => Some(N, K)
  BY <1>1, <1>5 DEF Some
<1>8. ASSUME m \in K  PROVE Some(N, K)
  <2>1. n \in 1 .. Len(N[b]) /\ N[b][n] \in K
    BY <1>2, <1>8
  <2> QED  BY <2>1, <1>1 DEF Some
<1>9. ASSUME AtMostOne(L, K), m \notin K \/ ~ Some(L, K),
             NEW c \in P, NEW d \in P, NEW i \in 1 .. Len(N[c]), NEW j \in 1 .. Len(N[d]),
             N[c][i] \in K, N[d][j] \in K
      PROVE  c = d /\ i = j
  <2>1. CASE m \notin K
    <3>1. /\ i \in 1 .. Len(L[c]) /\ L[c][i] \in K
          /\ j \in 1 .. Len(L[d]) /\ L[d][j] \in K
      BY <2>1, <1>4, <1>9
    <3> QED  BY <3>1, <1>9, <1>1 DEF AtMostOne
  <2>2. CASE ~ Some(L, K)
    <3>1. \A x \in P : \A k \in 1 .. Len(L[x]) : L[x][k] \notin K
      BY <2>2, <1>1 DEF Some
    <3>2. c = b /\ i = n
      BY <3>1, <1>4, <1>9
    <3>3. d = b /\ j = n
      BY <3>1, <1>4, <1>9
    <3> QED  BY <3>2, <3>3
  <2> QED  BY <1>9, <2>1, <2>2
<1>10. AtMostOne(L, K) /\ (m \notin K \/ ~ Some(L, K)) => AtMostOne(N, K)
  BY <1>9, <1>1 DEF AtMostOne
<1> QED  BY <1>3, <1>6, <1>7, <1>8, <1>10 DEF N
\* Passing the first message of one queue on to another.
LEMMA Passed ==
  ASSUME NEW P, NEW M, NEW L \in [P -> Seq(M)], NEW a \in P, NEW b \in P, L[a] # << >>,
         NEW K
  PROVE  /\ Add(Take(L, a), b, Head(L[a])) \in [P -> Seq(M)]
         /\ Moved(L, Add(Take(L, a), b, Head(L[a])), K)
<1>1. PICK T \in [P -> Seq(M)], m \in M :
        /\ T = Take(L, a) /\ m = Head(L[a])
        /\ Some(L, K) <=> Some(T, K) \/ m \in K
        /\ AtMostOne(L, K) => AtMostOne(T, K)
        /\ AtMostOne(L, K) /\ m \in K => ~ Some(T, K)
  BY Taken
<1>2. /\ Add(T, b, m) \in [P -> Seq(M)]
      /\ Some(Add(T, b, m), K) <=> Some(T, K) \/ m \in K
      /\ AtMostOne(T, K) /\ (m \notin K \/ ~ Some(T, K)) => AtMostOne(Add(T, b, m), K)
  BY Added, ZenonT(60)
<1>3. Moved(L, Add(T, b, m), K)
  BY <1>1, <1>2 DEF Moved
<1> QED  BY <1>1, <1>2, <1>3

\* Emptying one queue onto the end of another.
LEMMA Joined ==
  ASSUME NEW P, NEW M, NEW L \in [P -> Seq(M)], NEW a \in P, NEW b \in P, a # b,
         NEW K
  PROVE  Join(L, a, b) \in [P -> Seq(M)] /\ Moved(L, Join(L, a, b), K)
<1> DEFINE n == Len(L[b])  N == Join(L, a, b)
<1>0. N = [L EXCEPT ![b] = @ \o L[a], ![a] = << >>]
  BY DEF Join
<1> HIDE DEF N
<1>1. /\ DOMAIN L = P /\ DOMAIN N = P /\ N = [c \in P |-> N[c]]
      /\ N[b] = L[b] \o L[a] /\ N[a] = << >>
      /\ \A c \in P : c # a /\ c # b => N[c] = L[c]
  BY <1>0
<1>2. L[a] \in Seq(M) /\ L[b] \in Seq(M)
  OBVIOUS
<1>3. /\ N[b] \in Seq(M) /\ n \in Nat /\ Len(L[a]) \in Nat /\ Len(N[b]) = n + Len(L[a])
      /\ \A i \in 1 .. Len(N[b]) : N[b][i] = IF i <= n THEN L[b][i] ELSE L[a][i - n]
  <2> DEFINE s == L[b]  t == L[a]
  <2>1. s \in Seq(M) /\ t \in Seq(M)
    BY <1>2
  <2> HIDE DEF s, t
  <2>2. /\ s \o t \in Seq(M) /\ Len(s \o t) = Len(s) + Len(t)
        /\ Len(s) \in Nat /\ Len(t) \in Nat
        /\ \A i \in 1 .. Len(s) + Len(t) : (s \o t)[i] = IF i <= Len(s) THEN s[i] ELSE t[i - Len(s)]
    BY <2>1, ConcatProperties
  <2> QED  BY <1>1, <2>2 DEF s, t
<1>4. N \in [P -> Seq(M)]
  <2>1. ASSUME NEW c \in P PROVE N[c] \in Seq(M)
    <3>1. CASE c = a
      BY <3>1, <1>1
    <3>2. CASE c = b
      BY <3>2, <1>3
    <3>3. CASE c # a /\ c # b
      BY <3>3, <1>1
    <3> QED  BY <3>1, <3>2, <3>3
  <2> QED  BY <2>1, <1>1
<1>5. Len(N[a]) = 0
  BY <1>1
\* Where the message at index i of queue c of N was.
<1> DEFINE From(x, k) == IF x = b /\ k > n THEN a ELSE x
           At(x, k)   == IF x = b /\ k > n THEN k - n ELSE k
<1>6. \A c \in P : \A i \in 1 .. Len(N[c]) :
        /\ From(c, i) \in P /\ At(c, i) \in 1 .. Len(L[From(c, i)])
        /\ N[c][i] = L[From(c, i)][At(c, i)]
  <2> TAKE c \in P
  <2> TAKE i \in 1 .. Len(N[c])
  <2>1. c # a
    BY <1>5
  <2>2. CASE c = b
    BY <2>2, <1>3
  <2>3. CASE c # b
    BY <2>1, <2>3, <1>1
  <2> QED  BY <2>2, <2>3
<1>7. \A c \in P : \A i \in 1 .. Len(L[c]) :
        \E d \in P : \E j \in 1 .. Len(N[d]) : N[d][j] = L[c][i]
  <2> TAKE c \in P
  <2> TAKE i \in 1 .. Len(L[c])
  <2>1. CASE c = a
    <3>1. n + i \in 1 .. Len(N[b]) /\ ~ (n + i <= n) /\ (n + i) - n = i
      BY <1>3, <2>1
    <3>2. N[b][n + i] = L[a][i]
      BY <1>3, <3>1
    <3> QED  BY <2>1, <3>1, <3>2
  <2>2. CASE c = b
    <3>1. i \in 1 .. Len(N[b]) /\ i <= n
      BY <1>3, <2>2
    <3>2. N[b][i] = L[b][i]
      BY <1>3, <3>1
    <3> QED  BY <2>2, <3>1, <3>2
  <2>3. CASE c # a /\ c # b
    BY <2>3, <1>1
  <2> QED  BY <2>1, <2>2, <2>3
<1>8. Some(N, K) => Some(L, K)
  <2> HIDE DEF From, At
  <2> SUFFICES ASSUME NEW c \in P, NEW i \in 1 .. Len(N[c]), N[c][i] \in K
               PROVE  Some(L, K)
    BY <1>1 DEF Some
  <2>1. /\ From(c, i) \in P /\ At(c, i) \in 1 .. Len(L[From(c, i)])
        /\ L[From(c, i)][At(c, i)] \in K
    BY <1>6
  <2> QED  BY <1>1, <2>1 DEF Some
<1>9. Some(L, K) => Some(N, K)
  <2> SUFFICES ASSUME NEW c \in P, NEW i \in 1 .. Len(L[c]), L[c][i] \in K
               PROVE  Some(N, K)
    BY <1>1 DEF Some
  <2>1. PICK d \in P : \E j \in 1 .. Len(N[d]) : N[d][j] = L[c][i]
    BY <1>7
  <2>2. PICK j \in 1 .. Len(N[d]) : N[d][j] = L[c][i]
    BY <2>1
  <2>3. d \in DOMAIN N /\ N[d][j] \in K
    BY <1>1, <2>2
  <2> QED  BY <2>3 DEF Some
<1>10. AtMostOne(L, K) => AtMostOne(N, K)
  <2> SUFFICES ASSUME AtMostOne(L, K), NEW c \in P, NEW d \in P,
                      NEW i \in 1 .. Len(N[c]), NEW j \in 1 .. Len(N[d]),
                      N[c][i] \in K, N[d][j] \in K
               PROVE  c = d /\ i = j
    BY <1>1 DEF AtMostOne
  <2>1. From(c, i) = From(d, j) /\ At(c, i) = At(d, j)
    <3>1. /\ From(c, i) \in P /\ At(c, i) \in 1 .. Len(L[From(c, i)])
          /\ L[From(c, i)][At(c, i)] \in K
          /\ From(d, j) \in P /\ At(d, j) \in 1 .. Len(L[From(d, j)])
          /\ L[From(d, j)][At(d, j)] \in K
      <4> HIDE DEF From, At
      <4> QED  BY <1>6
    <3> HIDE DEF From, At
    <3> QED  BY <1>1, <3>1 DEF AtMostOne
  <2>2. c # a /\ d # a
    BY <1>5
  <2>3. i \in Nat /\ j \in Nat /\ n \in Nat
    BY <1>3
  <2>4. c = d
    BY <2>1, <2>2
  <2>5. i = j
    BY <2>1, <2>2, <2>3, <2>4
  <2> QED  BY <2>4, <2>5
<1> QED  BY <1>4, <1>8, <1>9, <1>10 DEF Moved, N

----------------------------------------------------------------------------
(* The queues of ParamServer *)

\* The queues messages wait in.
Lines == [c \in Places |-> Line(c)]

----------------------------------------------------------------------------
(* Messages by what they are about *)

PutsOf(p) == {m \in Requests : m.type = "kPut" /\ m.target = p}

UpdatesOf(g, p) ==
  {m \in Requests : m.type = "kUpdate" /\ m.src = Worker(g) /\ m.target = p}

AnswersTo(g, p) ==
  {m \in Requests : m.type = "kRUpdate" /\ m.dst = Worker(g) /\ m.target = p}

Concerning(g, p) == UpdatesOf(g, p) \cup AnswersTo(g, p)

----------------------------------------------------------------------------
(* How far a group has come with a parameter *)

\* Group g has sent its update of p in its present step.
Sent(g, p) ==
  phase[g] = "backward" /\ \E i \in 1 .. NParams : i < pos[g] /\ BackwardOrder[i] = p

\* The step of group g's latest update of p, FirstStep - 1 before the first.
LastSent(g, p) == IF Sent(g, p) THEN step[g] ELSE step[g] - 1

\* What a value that has group g's gradients up to step n holds of it.
Upto(g, n) ==
  IF n < FirstStep THEN {} ELSE {InitialValue} \cup {<<g, s>> : s \in FirstStep .. n}

----------------------------------------------------------------------------
(* The inductive invariant *)

\* The requests the state accounts for.
Expected ==
  {m \in Requests :
     \/ \E p \in Params : m = PutMsg(p)
     \/ \E g \in Groups, p \in Params : m = UpdateMsg(g, p, LastSent(g, p))
     \/ \E g \in Groups, p \in Params :
          m \in AnswersTo(g, p) /\ Upto(g, LastSent(g, p)) \subseteq m.data}

\* Nothing else is under way, and the stub holds one message at a time.
MessagesInv == Len(hand) <= 1 /\ ~ Some(Lines, Requests \ Expected)

\* A parameter's Put is there at most once, before the value.
PutInv ==
  \A p \in Params :
    /\ AtMostOne(Lines, PutsOf(p))
    /\ Some(Lines, PutsOf(p)) => value[p] = {}

\* A group's update is there at most once, as request or as answer, and
\* while it is, or when the group shares its values, the worker's copy has
\* the version PMWorker::Update gave it.
UpdateInv ==
  \A g \in Groups, p \in Params :
    /\ AtMostOne(Lines, Concerning(g, p))
    /\ Some(Lines, Concerning(g, p)) => ~ Shares(g) /\ LastSent(g, p) >= FirstStep
    /\ Some(Lines, Concerning(g, p)) \/ (Shares(g) /\ LastSent(g, p) >= FirstStep)
         => held[g][p] = LastSent(g, p)

\* The servers have exactly the gradients that were sent and have arrived,
\* and versions as high as the gradients they have.
ServerInv ==
  \A p \in Params :
    /\ \A g \in Groups, s \in Nat :
         <<g, s>> \in value[p] <=>
           /\ ~ Shares(g)
           /\ s \in FirstStep .. LastSent(g, p)
           /\ ~ (s = LastSent(g, p) /\ Some(Lines, UpdatesOf(g, p)))
    /\ value[p] # {} => InitialValue \in value[p] /\ version[p] >= FirstStep
    /\ \A g \in Groups, s \in Nat : <<g, s>> \in value[p] => version[p] >= s + 1

\* A worker's copy lacks at most what is under way.
CopyInv ==
  /\ \A p \in Params : InitialValue \in copy[0][p]
  /\ \A g \in Groups, p \in Params : ~ Shares(g) =>
       /\ Upto(g, LastSent(g, p) - 1) \subseteq copy[g][p]
       /\ ~ Some(Lines, Concerning(g, p)) => Upto(g, LastSent(g, p)) \subseteq copy[g][p]

\* What a worker has computed with since its last update has no update
\* under way; one that shares its values computes in its first step only.
ComputeInv ==
  \A g \in Groups : \A p \in Computed(g) :
    /\ ~ Sent(g, p) => ~ Some(Lines, Concerning(g, p))
    /\ Shares(g) => step[g] = FirstStep

\* A worker's step and phase.
CourseInv ==
  \A g \in Groups :
    /\ step[g] \in FirstStep .. TrainSteps
    /\ phase[g] = "done" => step[g] = TrainSteps
    /\ phase[g] \in {"test", "forward", "backward"} => step[g] < TrainSteps
    /\ phase[g] = "test" => g = 0 /\ pos[g] = 1

StoreInv ==
  /\ MessagesInv /\ PutInv /\ UpdateInv /\ ServerInv
  /\ CopyInv /\ ComputeInv /\ CourseInv
----------------------------------------------------------------------------
(* The queues, step by step *)

Up(a)   == <<"up", a>>
Down(a) == <<"down", a>>
Kept(a) == <<"kept", a>>
Hand    == <<"hand", Stub>>

\* The places are the two pipes and the buffer of each address, and the stub's hand.
LEMMA PlaceCases ==
  /\ \A a \in Address : Up(a) \in Places /\ Down(a) \in Places /\ Kept(a) \in Places
  /\ Hand \in Places
  /\ \A c \in Places : c = Hand \/ \E a \in Address : c = Up(a) \/ c = Down(a) \/ c = Kept(a)
  BY DEF Places, Up, Down, Kept, Hand

\* What waits in each place, now and after a step.
LEMMA LineOf ==
  /\ \A a : /\ Line(Up(a)) = up[a] /\ Line(Down(a)) = down[a] /\ Line(Kept(a)) = bufmsg[a]
            /\ Line(Up(a))' = up'[a] /\ Line(Down(a))' = down'[a] /\ Line(Kept(a))' = bufmsg'[a]
  /\ Line(Hand) = hand /\ Line(Hand)' = hand'
  BY DEF Line, Up, Down, Kept, Hand

\* No place is two.
LEMMA PlacesDiffer ==
  \A a, b : /\ Up(a) # Down(b) /\ Up(a) # Kept(b) /\ Up(a) # Hand
            /\ Down(a) # Kept(b) /\ Down(a) # Hand /\ Kept(a) # Hand
            /\ (Up(a) = Up(b) \/ Down(a) = Down(b) \/ Kept(a) = Kept(b)) => a = b
  BY DEF Up, Down, Kept, Hand

\* The queues hold messages.
LEMMA LinesType ==
  ASSUME TypeOK
  PROVE  /\ Lines \in [Places -> Seq(Message)]
         /\ \A c \in Places : Lines[c] = Line(c)
<1>1. ASSUME NEW c \in Places PROVE Line(c) \in Seq(Message)
  BY PlaceCases, LineOf DEF TypeOK, FabricTypeOK
<1> QED  BY <1>1 DEF Lines

\* How the queues change when Line does.
LEMMA LinesChange ==
  ASSUME NEW x \in Places, NEW y \in Places
  PROVE  /\ (\A c \in Places : Line(c)' = Line(c)) => Lines' = Lines
         /\ \A m : (\A c \in Places : Line(c)' = IF c = x THEN Append(Line(c), m) ELSE Line(c))
                     => Lines' = Add(Lines, x, m)
         /\ (\A c \in Places : Line(c)' = IF c = x THEN Tail(Line(c)) ELSE Line(c))
              => Lines' = Take(Lines, x)
         /\ \A m : x # y /\ (\A c \in Places :
                     Line(c)' = IF c = x THEN Tail(Line(c))
                                ELSE IF c = y THEN Append(Line(c), m) ELSE Line(c))
                     => Lines' = Add(Take(Lines, x), y, m)
<1>1. Lines' = [c \in Places |-> Line(c)']
  BY DEF Lines, Places
<1>2. (\A c \in Places : Line(c)' = Line(c)) => Lines' = Lines
  BY <1>1 DEF Lines
<1>3. ASSUME NEW m, \A c \in Places : Line(c)' = IF c = x THEN Append(Line(c), m) ELSE Line(c)
      PROVE  Lines' = Add(Lines, x, m)
  <2>1. Add(Lines, x, m) = [c \in Places |-> IF c = x THEN Append(Line(c), m) ELSE Line(c)]
    BY DEF Add, Lines
  <2> QED  BY <1>1, <1>3, <2>1
<1>4. Take(Lines, x) = [c \in Places |-> IF c = x THEN Tail(Line(c)) ELSE Line(c)]
  BY DEF Take, Lines
<1>5. ASSUME \A c \in Places : Line(c)' = IF c = x THEN Tail(Line(c)) ELSE Line(c)
      PROVE  Lines' = Take(Lines, x)
  BY <1>1, <1>4, <1>5
<1>6. ASSUME NEW m, x # y, \A c \in Places :
               Line(c)' = IF c = x THEN Tail(Line(c))
                          ELSE IF c = y THEN Append(Line(c), m) ELSE Line(c)
      PROVE  Lines' = Add(Take(Lines, x), y, m)
  <2>1. Add(Take(Lines, x), y, m) =
          [c \in Places |-> IF c = x THEN Tail(Line(c))
                            ELSE IF c = y THEN Append(Line(c), m) ELSE Line(c)]
    BY <1>4, <1>6 DEF Add
  <2> QED  BY <1>1, <1>6, <2>1
<1> QED  BY <1>2, <1>3, <1>5, <1>6

\* What a dealer's owner does to the queues.
LEMMA PipeLines ==
  ASSUME TypeOK, NEW a \in Address, UNCHANGED <<bufmsg, hand>>
  PROVE  /\ UNCHANGED <<up, down>> => Lines' = Lines
         /\ \A m : DealerSend(a, m) /\ UNCHANGED down => Lines' = Add(Lines, Up(a), m)
         /\ DealerReceive(a) /\ UNCHANGED up => Lines' = Take(Lines, Down(a))
         /\ \A m : DealerReceive(a) /\ DealerSend(a, m)
                     => Lines' = Add(Take(Lines, Down(a)), Up(a), m)
<1>0. /\ up \in [Address -> Seq(Message)] /\ down \in [Address -> Seq(Message)]
      /\ Up(a) \in Places /\ Down(a) \in Places /\ Down(a) # Up(a)
  BY PlaceCases, PlacesDiffer DEF TypeOK, FabricTypeOK
<1>1. ASSUME UNCHANGED <<up, down>> PROVE Lines' = Lines
  <2>1. ASSUME NEW c \in Places PROVE Line(c)' = Line(c)
    BY <1>1, PlaceCases, LineOf
  <2> QED  BY <1>0, <2>1, LinesChange
<1>2. ASSUME NEW m, DealerSend(a, m), UNCHANGED down PROVE Lines' = Add(Lines, Up(a), m)
  <2>0. /\ \A b \in Address : /\ up'[b] = IF b = a THEN Append(up[b], m) ELSE up[b]
                              /\ down'[b] = down[b] /\ bufmsg'[b] = bufmsg[b]
        /\ hand' = hand
    BY <1>0, <1>2 DEF DealerSend
  <2>1. ASSUME NEW c \in Places
        PROVE  Line(c)' = IF c = Up(a) THEN Append(Line(c), m) ELSE Line(c)
    <3>1. CASE c = Hand
      BY <2>0, <3>1, PlacesDiffer, LineOf
    <3>2. ASSUME NEW b \in Address, c = Up(b)
          PROVE  Line(c)' = IF c = Up(a) THEN Append(Line(c), m) ELSE Line(c)
      BY <2>0, <3>2, PlacesDiffer, LineOf
    <3>3. ASSUME NEW b \in Address, c = Down(b)
          PROVE  Line(c)' = IF c = Up(a) THEN Append(Line(c), m) ELSE Line(c)
      <4>1. c # Up(a) /\ (c = Down(a) <=> b = a)
        BY <3>3, PlacesDiffer
      <4> QED  BY <2>0, <3>3, <4>1, LineOf
    <3>4. ASSUME NEW b \in Address, c = Kept(b)
          PROVE  Line(c)' = IF c = Up(a) THEN Append(Line(c), m) ELSE Line(c)
      BY <2>0, <3>4, PlacesDiffer, LineOf
    <3> QED  BY <3>1, <3>2, <3>3, <3>4, PlaceCases
  <2> QED  BY <1>0, <2>1, LinesChange
<1>3. ASSUME DealerReceive(a), UNCHANGED up PROVE Lines' = Take(Lines, Down(a))
  <2>0. /\ \A b \in Address : /\ down'[b] = IF b = a THEN Tail(down[b]) ELSE down[b]
                              /\ up'[b] = up[b] /\ bufmsg'[b] = bufmsg[b]
        /\ hand' = hand
    BY <1>0, <1>3 DEF DealerReceive
  <2>1. ASSUME NEW c \in Places
        PROVE  Line(c)' = IF c = Down(a) THEN Tail(Line(c)) ELSE Line(c)
    <3>1. CASE c = Hand
      BY <2>0, <3>1, PlacesDiffer, LineOf
    <3>2. ASSUME NEW b \in Address, c = Up(b)
          PROVE  Line(c)' = IF c = Down(a) THEN Tail(Line(c)) ELSE Line(c)
      BY <2>0, <3>2, PlacesDiffer, LineOf
    <3>3. ASSUME NEW b \in Address, c = Down(b)
          PROVE  Line(c)' = IF c = Down(a) THEN Tail(Line(c)) ELSE Line(c)
      <4>1. c # Up(a) /\ (c = Down(a) <=> b = a)
        BY <3>3, PlacesDiffer
      <4> QED  BY <2>0, <3>3, <4>1, LineOf
    <3>4. ASSUME NEW b \in Address, c = Kept(b)
          PROVE  Line(c)' = IF c = Down(a) THEN Tail(Line(c)) ELSE Line(c)
      BY <2>0, <3>4, PlacesDiffer, LineOf
    <3> QED  BY <3>1, <3>2, <3>3, <3>4, PlaceCases
  <2> QED  BY <1>0, <2>1, LinesChange
<1>4. ASSUME NEW m, DealerReceive(a), DealerSend(a, m)
      PROVE  Lines' = Add(Take(Lines, Down(a)), Up(a), m)
  <2>0. /\ \A b \in Address : /\ up'[b] = IF b = a THEN Append(up[b], m) ELSE up[b]
                              /\ down'[b] = IF b = a THEN Tail(down[b]) ELSE down[b]
                              /\ bufmsg'[b] = bufmsg[b]
        /\ hand' = hand
    BY <1>0, <1>4 DEF DealerReceive, DealerSend
  <2>1. ASSUME NEW c \in Places
        PROVE  Line(c)' = IF c = Down(a) THEN Tail(Line(c))
                          ELSE IF c = Up(a) THEN Append(Line(c), m) ELSE Line(c)
    <3>1. CASE c = Hand
      BY <2>0, <3>1, PlacesDiffer, LineOf
    <3>2. ASSUME NEW b \in Address, c = Up(b)
          PROVE  Line(c)' = IF c = Down(a) THEN Tail(Line(c))
                              ELSE IF c = Up(a) THEN Append(Line(c), m) ELSE Line(c)
      BY <2>0, <3>2, PlacesDiffer, LineOf
    <3>3. ASSUME NEW b \in Address, c = Down(b)
          PROVE  Line(c)' = IF c = Down(a) THEN Tail(Line(c))
                              ELSE IF c = Up(a) THEN Append(Line(c), m) ELSE Line(c)
      <4>1. c # Up(a) /\ (c = Down(a) <=> b = a)
        BY <3>3, PlacesDiffer
      <4> QED  BY <2>0, <3>3, <4>1, LineOf
    <3>4. ASSUME NEW b \in Address, c = Kept(b)
          PROVE  Line(c)' = IF c = Down(a) THEN Tail(Line(c))
                              ELSE IF c = Up(a) THEN Append(Line(c), m) ELSE Line(c)
      BY <2>0, <3>4, PlacesDiffer, LineOf
    <3> QED  BY <3>1, <3>2, <3>3, <3>4, PlaceCases
  <2> QED  BY <1>0, <2>1, LinesChange
<1> QED  BY <1>1, <1>2, <1>3, <1>4

----------------------------------------------------------------------------
(* What the router leaves as it is *)

\* Of no set of requests does the step take one away, add one or double one.
Quiet == \A K \in SUBSET Requests : Moved(Lines, Lines', K)

\* Nothing has moved.
LEMMA NothingMoved == Lines' = Lines => Quiet
  BY DEF Quiet, Moved

\* A message's next place is known when it has been read.
LEMMA ReceiveQuiet ==
  ASSUME TypeOK, NEW d \in Address, RouterReceive(d)
  PROVE  Quiet /\ Len(hand') = 1
<1> DEFINE m == Head(up[d])
           R == Add(Take(Lines, Up(d)), Hand, m)
<1>1. /\ up \in [Address -> Seq(Message)] /\ down \in [Address -> Seq(Message)]
      /\ bufmsg \in [Address -> Seq(Message)]
      /\ up[d] # << >> /\ hand = << >> /\ hand' = <<m>> /\ up' = [up EXCEPT ![d] = Tail(@)]
  BY DEF TypeOK, FabricTypeOK, RouterReceive
<1>2. /\ Lines \in [Places -> Seq(Message)] /\ Up(d) \in Places /\ Hand \in Places
      /\ Down(d) \in Places /\ Lines[Up(d)] = up[d] /\ Up(d) # Hand
  BY LinesType, PlaceCases, PlacesDiffer, LineOf
<1>3. m \in Message /\ m.src \in Address
  <2>1. m \in Message
    BY <1>1, SeqFacts
  <2> QED  BY <2>1, MessageFields
<1>4. R \in [Places -> Seq(Message)] /\ \A K \in SUBSET Requests : Moved(Lines, R, K)
  BY <1>1, <1>2, Passed
<1>5. CASE ~ Unlearnt(m.src)
  <2>0. /\ \A b \in Address : /\ down'[b] = down[b] /\ bufmsg'[b] = bufmsg[b]
                              /\ up'[b] = IF b = d THEN Tail(up[b]) ELSE up[b]
        /\ hand' = Append(hand, m)
    BY <1>1, <1>5 DEF RouterReceive
  <2>1. ASSUME NEW c \in Places
        PROVE  Line(c)' = IF c = Up(d) THEN Tail(Line(c))
                          ELSE IF c = Hand THEN Append(Line(c), m) ELSE Line(c)
    <3>1. CASE c = Hand
      BY <2>0, <3>1, PlacesDiffer, LineOf
    <3>2. ASSUME NEW b \in Address, c = Up(b)
          PROVE  Line(c)' = IF c = Up(d) THEN Tail(Line(c))
                              ELSE IF c = Hand THEN Append(Line(c), m) ELSE Line(c)
      BY <2>0, <3>2, PlacesDiffer, LineOf
    <3>3. ASSUME NEW b \in Address, c = Down(b)
          PROVE  Line(c)' = IF c = Up(d) THEN Tail(Line(c))
                              ELSE IF c = Hand THEN Append(Line(c), m) ELSE Line(c)
      BY <2>0, <3>3, PlacesDiffer, LineOf
    <3>4. ASSUME NEW b \in Address, c = Kept(b)
          PROVE  Line(c)' = IF c = Up(d) THEN Tail(Line(c))
                              ELSE IF c = Hand THEN Append(Line(c), m) ELSE Line(c)
      BY <2>0, <3>4, PlacesDiffer, LineOf
    <3> QED  BY <3>1, <3>2, <3>3, <3>4, PlaceCases
  <2>2. Lines' = R
    BY <1>2, <2>1, LinesChange
  <2> QED  BY <1>1, <1>4, <2>2 DEF Quiet
<1>6. CASE Unlearnt(m.src)
  <2> DEFINE src == m.src
  <2>5. /\ down' = [down EXCEPT ![d] = @ \o bufmsg[src]]
        /\ bufmsg' = [bufmsg EXCEPT ![src] = << >>]
    BY <1>6 DEF RouterReceive, Flush
  <2>6. src \in Address
    BY <1>3
  <2>7. /\ up' = [up EXCEPT ![d] = Tail(@)] /\ hand' = Append(hand, m)
    BY <1>1
  <2> HIDE DEF src, m, R
  <2>0. /\ \A b \in Address : /\ up'[b] = IF b = d THEN Tail(up[b]) ELSE up[b]
                              /\ down'[b] = IF b = d THEN down[b] \o bufmsg[src] ELSE down[b]
                              /\ bufmsg'[b] = IF b = src THEN << >> ELSE bufmsg[b]
        /\ hand' = Append(hand, m)
    BY <1>1, <2>5, <2>6, <2>7
  <2>1. ASSUME NEW c \in Places
        PROVE  Line(c)' = IF c = Up(d) THEN Tail(Line(c))
                          ELSE IF c = Hand THEN Append(Line(c), m)
                          ELSE IF c = Down(d) THEN Line(c) \o bufmsg[src]
                          ELSE IF c = Kept(src) THEN << >> ELSE Line(c)
    <3>1. CASE c = Hand
      BY <2>0, <3>1, PlacesDiffer, LineOf
    <3>2. ASSUME NEW b \in Address, c = Up(b)
          PROVE  Line(c)' = IF c = Up(d) THEN Tail(Line(c))
                              ELSE IF c = Hand THEN Append(Line(c), m)
                              ELSE IF c = Down(d) THEN Line(c) \o bufmsg[src]
                              ELSE IF c = Kept(src) THEN << >> ELSE Line(c)
      <4>1. c # Hand /\ c # Down(d) /\ c # Kept(src) /\ (c = Up(d) <=> b = d)
        BY <3>2, PlacesDiffer
      <4> QED  BY <2>0, <3>2, <4>1, LineOf
    <3>3. ASSUME NEW b \in Address, c = Down(b)
          PROVE  Line(c)' = IF c = Up(d) THEN Tail(Line(c))
                              ELSE IF c = Hand THEN Append(Line(c), m)
                              ELSE IF c = Down(d) THEN Line(c) \o bufmsg[src]
                              ELSE IF c = Kept(src) THEN << >> ELSE Line(c)
      <4>1. c # Hand /\ c # Up(d) /\ c # Kept(src) /\ (c = Down(d) <=> b = d)
        BY <3>3, PlacesDiffer
      <4> QED  BY <2>0, <3>3, <4>1, LineOf
    <3>4. ASSUME NEW b \in Address, c = Kept(b)
          PROVE  Line(c)' = IF c = Up(d) THEN Tail(Line(c))
                              ELSE IF c = Hand THEN Append(Line(c), m)
                              ELSE IF c = Down(d) THEN Line(c) \o bufmsg[src]
                              ELSE IF c = Kept(src) THEN << >> ELSE Line(c)
      <4>1. c # Hand /\ c # Up(d) /\ c # Down(d) /\ (c = Kept(src) <=> b = src)
        BY <3>4, PlacesDiffer
      <4> QED  BY <2>0, <3>4, <4>1, LineOf
    <3> QED  BY <3>1, <3>2, <3>3, <3>4, PlaceCases
  <2>2. src \in Address /\ Kept(src) \in Places /\ Kept(src) # Down(d)
        /\ Kept(src) # Up(d) /\ Kept(src) # Hand /\ Down(d) # Up(d) /\ Down(d) # Hand
    BY <2>6, PlaceCases, PlacesDiffer
  <2>3. Lines' = Join(R, Kept(src), Down(d))
    <3>1. Lines' = [c \in Places |-> Line(c)']
      BY DEF Lines, Places
    <3>2. R = [c \in Places |-> IF c = Up(d) THEN Tail(Line(c))
                                ELSE IF c = Hand THEN Append(Line(c), m) ELSE Line(c)]
      BY <1>2 DEF Add, Take, Lines, R
    <3>3. R[Kept(src)] = bufmsg[src]
      BY <2>2, <3>2, LineOf
    <3>4. Join(R, Kept(src), Down(d)) =
            [c \in Places |-> IF c = Down(d) THEN R[c] \o bufmsg[src]
                              ELSE IF c = Kept(src) THEN << >> ELSE R[c]]
      <4>1. DOMAIN R = Places
        BY <1>4
      <4> QED  BY <2>2, <3>3, <4>1, <1>4 DEF Join
    <3>5. ASSUME NEW c \in Places
          PROVE  Line(c)' = IF c = Down(d) THEN R[c] \o bufmsg[src]
                            ELSE IF c = Kept(src) THEN << >> ELSE R[c]
      <4>1. R[c] = IF c = Up(d) THEN Tail(Line(c))
                   ELSE IF c = Hand THEN Append(Line(c), m) ELSE Line(c)
        BY <3>2
      <4> QED  BY <2>1, <2>2, <4>1
    <3> QED  BY <3>1, <3>4, <3>5
  <2>4. \A K \in SUBSET Requests : Moved(R, Lines', K)
    <3> QED  BY <1>2, <1>4, <2>2, <2>3, Joined
  <2>8. Quiet
    BY <1>4, <2>4 DEF Quiet, Moved
  <2> QED  BY <1>1, <2>8
<1> QED  BY <1>5, <1>6

\* A message's next place is a dealer's pipe or the buffer; only a ping ends
\* in the stub's hand.
LEMMA DispatchQuiet ==
  ASSUME TypeOK, StubDispatch, Len(hand) <= 1
  PROVE  Quiet /\ Len(hand') = 0
<1> DEFINE m == Head(hand)
<1>1. /\ down \in [Address -> Seq(Message)] /\ bufmsg \in [Address -> Seq(Message)]
      /\ hand \in Seq(Message) /\ hand # << >> /\ hand' = << >> /\ up' = up
  BY DEF TypeOK, FabricTypeOK, StubDispatch
<1>2. hand' = Tail(hand)
  BY <1>1, HeadTailProperties, EmptySeq
<1>3. /\ Lines \in [Places -> Seq(Message)] /\ Hand \in Places /\ Lines[Hand] = hand
  BY LinesType, PlaceCases, LineOf
<1>4. m \in Message
  BY <1>1, SeqFacts
<1>5. CASE m.dst = Stub
  <2>0. /\ \A b \in Address : down'[b] = down[b] /\ bufmsg'[b] = bufmsg[b] /\ up'[b] = up[b]
        /\ hand' = Tail(hand)
    BY <1>1, <1>2, <1>5 DEF StubDispatch
  <2>1. ASSUME NEW c \in Places
        PROVE  Line(c)' = IF c = Hand THEN Tail(Line(c)) ELSE Line(c)
    <3>1. CASE c = Hand
      BY <2>0, <3>1, PlacesDiffer, LineOf
    <3>2. ASSUME NEW b \in Address, c = Up(b)
          PROVE  Line(c)' = IF c = Hand THEN Tail(Line(c)) ELSE Line(c)
      BY <2>0, <3>2, PlacesDiffer, LineOf
    <3>3. ASSUME NEW b \in Address, c = Down(b)
          PROVE  Line(c)' = IF c = Hand THEN Tail(Line(c)) ELSE Line(c)
      BY <2>0, <3>3, PlacesDiffer, LineOf
    <3>4. ASSUME NEW b \in Address, c = Kept(b)
          PROVE  Line(c)' = IF c = Hand THEN Tail(Line(c)) ELSE Line(c)
      BY <2>0, <3>4, PlacesDiffer, LineOf
    <3> QED  BY <3>1, <3>2, <3>3, <3>4, PlaceCases
  <2>2. Lines' = Take(Lines, Hand)
    BY <1>3, <2>1, LinesChange
  <2>3. m \notin Requests
    BY <1>5, AddressType DEF Requests
  <2>4. ASSUME NEW K \in SUBSET Requests PROVE Moved(Lines, Lines', K)
    <3>1. /\ Some(Lines, K) <=> Some(Take(Lines, Hand), K) \/ m \in K
          /\ AtMostOne(Lines, K) => AtMostOne(Take(Lines, Hand), K)
      BY <1>1, <1>3, Taken
    <3> QED  BY <2>2, <2>3, <3>1 DEF Moved
  <2> QED  BY <1>1, <2>4 DEF Quiet
<1>6. ASSUME m.dst # Stub PROVE Quiet
  <2>1. m.dst \in Address /\ RouterSend(m)
    BY <1>4, <1>6, MessageFields DEF StubDispatch
  <2>2. \A y \in Places : y # Hand =>
          \A K \in SUBSET Requests : Moved(Lines, Add(Take(Lines, Hand), y, m), K)
    BY <1>1, <1>3, Passed
  <2>3. CASE Known(m.dst)
    <3> DEFINE a == id2addr[m.dst]
    <3>1. a \in Address /\ Down(a) \in Places /\ Down(a) # Hand
      BY <2>1, <2>3, PlaceCases, PlacesDiffer DEF Known, TypeOK, FabricTypeOK
    <3>2. down' = [down EXCEPT ![a] = Append(@, m)] /\ bufmsg' = bufmsg
      BY <2>1, <2>3 DEF RouterSend
    <3> HIDE DEF a, m
    <3>0. /\ \A b \in Address : /\ bufmsg'[b] = bufmsg[b] /\ up'[b] = up[b]
                                /\ down'[b] = IF b = a THEN Append(down[b], m) ELSE down[b]
          /\ hand' = Tail(hand)
      BY <1>1, <1>2, <3>1, <3>2
    <3>3. ASSUME NEW c \in Places
          PROVE  Line(c)' = IF c = Hand THEN Tail(Line(c))
                            ELSE IF c = Down(a) THEN Append(Line(c), m) ELSE Line(c)
  <4>1. CASE c = Hand
    BY <3>0, <4>1, PlacesDiffer, LineOf
  <4>2. ASSUME NEW b \in Address, c = Up(b)
        PROVE  Line(c)' = IF c = Hand THEN Tail(Line(c))
                              ELSE IF c = Down(a) THEN Append(Line(c), m) ELSE Line(c)
    BY <3>0, <4>2, PlacesDiffer, LineOf
  <4>3. ASSUME NEW b \in Address, c = Down(b)
        PROVE  Line(c)' = IF c = Hand THEN Tail(Line(c))
                              ELSE IF c = Down(a) THEN Append(Line(c), m) ELSE Line(c)
    BY <3>0, <4>3, PlacesDiffer, LineOf
  <4>4. ASSUME NEW b \in Address, c = Kept(b)
        PROVE  Line(c)' = IF c = Hand THEN Tail(Line(c))
                              ELSE IF c = Down(a) THEN Append(Line(c), m) ELSE Line(c)
    BY <3>0, <4>4, PlacesDiffer, LineOf
  <4> QED  BY <4>1, <4>2, <4>3, <4>4, PlaceCases
    <3>4. Lines' = Add(Take(Lines, Hand), Down(a), m)
      BY <1>3, <3>1, <3>3, LinesChange
    <3> QED  BY <2>2, <3>1, <3>4 DEF Quiet, m
  <2>4. CASE ~ Known(m.dst)
    <3> DEFINE a == m.dst
    <3>1. a \in Address /\ Kept(a) \in Places /\ Kept(a) # Hand
      BY <2>1, PlaceCases, PlacesDiffer
    <3>2. bufmsg' = [bufmsg EXCEPT ![a] = Append(@, m)] /\ down' = down
      BY <2>1, <2>4 DEF RouterSend
    <3> HIDE DEF a, m
    <3>0. /\ \A b \in Address : /\ down'[b] = down[b] /\ up'[b] = up[b]
                                /\ bufmsg'[b] = IF b = a THEN Append(bufmsg[b], m) ELSE bufmsg[b]
          /\ hand' = Tail(hand)
      BY <1>1, <1>2, <3>1, <3>2
    <3>3. ASSUME NEW c \in Places
          PROVE  Line(c)' = IF c = Hand THEN Tail(Line(c))
                            ELSE IF c = Kept(a) THEN Append(Line(c), m) ELSE Line(c)
  <4>1. CASE c = Hand
    BY <3>0, <4>1, PlacesDiffer, LineOf
  <4>2. ASSUME NEW b \in Address, c = Up(b)
        PROVE  Line(c)' = IF c = Hand THEN Tail(Line(c))
                              ELSE IF c = Kept(a) THEN Append(Line(c), m) ELSE Line(c)
    BY <3>0, <4>2, PlacesDiffer, LineOf
  <4>3. ASSUME NEW b \in Address, c = Down(b)
        PROVE  Line(c)' = IF c = Hand THEN Tail(Line(c))
                              ELSE IF c = Kept(a) THEN Append(Line(c), m) ELSE Line(c)
    BY <3>0, <4>3, PlacesDiffer, LineOf
  <4>4. ASSUME NEW b \in Address, c = Kept(b)
        PROVE  Line(c)' = IF c = Hand THEN Tail(Line(c))
                              ELSE IF c = Kept(a) THEN Append(Line(c), m) ELSE Line(c)
    BY <3>0, <4>4, PlacesDiffer, LineOf
  <4> QED  BY <4>1, <4>2, <4>3, <4>4, PlaceCases
    <3>4. Lines' = Add(Take(Lines, Hand), Kept(a), m)
      BY <1>3, <3>1, <3>3, LinesChange
    <3> QED  BY <2>2, <3>1, <3>4 DEF Quiet, m
  <2> QED  BY <2>3, <2>4
<1> QED  BY <1>1, <1>5, <1>6

----------------------------------------------------------------------------
(* What stays when no message comes or goes *)

\* The sets the invariant speaks of are sets of requests.
LEMMA SetsType ==
  /\ \A p : PutsOf(p) \in SUBSET Requests
  /\ \A g, p : /\ UpdatesOf(g, p) \in SUBSET Requests
               /\ AnswersTo(g, p) \in SUBSET Requests
               /\ Concerning(g, p) \in SUBSET Requests
               /\ UpdatesOf(g, p) \subseteq Concerning(g, p)
  /\ (Requests \ Expected) \in SUBSET Requests
  BY DEF PutsOf, UpdatesOf, AnswersTo, Concerning

\* The step of a worker's latest update is a number.
LEMMA LastSentType ==
  ASSUME TypeOK
  PROVE  \A g \in Groups, p \in Params : LastSent(g, p) \in Int /\ LastSent(g, p) <= step[g]
                                         /\ LastSent(g, p) >= step[g] - 1
  BY DEF LastSent, TypeOK, WorkerTypeOK

\* A worker that stays where it is has sent and computed the same.
LEMMA SameCourse ==
  ASSUME NEW g \in Groups,
         phase'[g] = phase[g], step'[g] = step[g], pos'[g] = pos[g]
  PROVE  /\ \A p : (Sent(g, p)' <=> Sent(g, p)) /\ LastSent(g, p)' = LastSent(g, p)
         /\ Computed(g)' = Computed(g)
<1>1. \A p : Sent(g, p)' <=> Sent(g, p)
  BY DEF Sent
<1>2. Computed(g)' = Computed(g)
  BY DEF Computed
<1> QED  BY <1>1, <1>2 DEF LastSent

\* What is expected depends on what was sent.
LEMMA SameExpected ==
  ASSUME \A g \in Groups, p \in Params : LastSent(g, p)' = LastSent(g, p)
  PROVE  Expected' = Expected
<1>1. \A m : m \in Expected' <=> m \in Expected
  BY DEF Expected
<1> QED  BY <1>1 DEF Expected

\* The parts of the invariant about messages and values.
FlowInv == MessagesInv /\ PutInv /\ UpdateInv /\ ServerInv /\ CopyInv

\* A step that only moves messages from queue to queue keeps these parts.
LEMMA QuietFlow ==
  ASSUME FlowInv, Quiet, Len(hand') <= 1,
         \A g \in Groups, p \in Params : LastSent(g, p)' = LastSent(g, p),
         UNCHANGED <<held, copy, value, version>>
  PROVE  FlowInv'
<1>1. \A K \in SUBSET Requests : /\ Some(Lines', K) <=> Some(Lines, K)
                                 /\ AtMostOne(Lines, K) => AtMostOne(Lines', K)
  BY DEF Quiet, Moved
<1>2. Expected' = Expected
  BY SameExpected
<1>3. MessagesInv'
  BY <1>1, <1>2, SetsType DEF FlowInv, MessagesInv
<1>4. PutInv'
  BY <1>1, SetsType DEF FlowInv, PutInv
<1>5. UpdateInv'
  BY <1>1, SetsType DEF FlowInv, UpdateInv, Shares
<1>6. ServerInv'
  <2>1. ASSUME NEW g \in Groups, NEW p \in Params
        PROVE  /\ LastSent(g, p)' = LastSent(g, p)
               /\ Some(Lines', UpdatesOf(g, p)) <=> Some(Lines, UpdatesOf(g, p))
    BY <1>1, SetsType
  <2> QED  BY <2>1 DEF FlowInv, ServerInv, Shares
<1>7. CopyInv'
  <2>1. ASSUME NEW g \in Groups, NEW p \in Params
        PROVE  Some(Lines', Concerning(g, p)) <=> Some(Lines, Concerning(g, p))
    BY <1>1, SetsType
  <2> QED  BY <2>1 DEF FlowInv, CopyInv, Shares, Upto
<1> QED  BY <1>3, <1>4, <1>5, <1>6, <1>7 DEF FlowInv

\* Steps that leave the workers where they are.
LEMMA QuietCourse ==
  ASSUME ComputeInv, CourseInv, UNCHANGED <<phase, step, pos>>,
         \A g \in Groups, p \in Params :
           Some(Lines', Concerning(g, p)) => Some(Lines, Concerning(g, p))
  PROVE  ComputeInv' /\ CourseInv'
<1>1. ASSUME NEW g \in Groups
      PROVE  /\ \A p : Sent(g, p)' <=> Sent(g, p)
             /\ Computed(g)' = Computed(g) /\ Computed(g) \subseteq Params
             /\ step'[g] = step[g] /\ phase'[g] = phase[g] /\ pos'[g] = pos[g]
  BY SameCourse DEF Computed
<1>2. ComputeInv'
  BY <1>1 DEF ComputeInv, Shares
<1>3. CourseInv'
  BY <1>1 DEF CourseInv
<1> QED  BY <1>2, <1>3

----------------------------------------------------------------------------
(* Steps of a worker *)

\* Test passes, forward passes and interruptions send and receive nothing;
\* Forward computes only with a copy whose version has reached the step, so
\* no update of it is under way.
LEMMA ComputingStep ==
  ASSUME TypeOK, StoreInv, NEW g \in Groups,
         TestPass(g) \/ Forward(g) \/ WorkerInterrupted(g)
  PROVE  /\ StoreInv' /\ Lines' = Lines
         /\ \A h \in Groups, p \in Params : LastSent(h, p)' = LastSent(h, p)
<1>1. /\ UNCHANGED <<up, down, bufmsg, hand, step, held, copy, value, version>>
      /\ phase' = phase \/ phase' = [phase EXCEPT ![g] = phase'[g]]
      /\ pos' = pos \/ pos' = [pos EXCEPT ![g] = pos'[g]]
  BY DEF TestPass, Forward, WorkerInterrupted, fabricvars, servervars, TypeOK, WorkerTypeOK
<1>2. \A h \in Groups : h # g => phase'[h] = phase[h] /\ pos'[h] = pos[h]
  BY <1>1 DEF TypeOK, WorkerTypeOK
<1>3. Lines' = Lines
  <2>1. \A c \in Places : Line(c)' = Line(c)
    BY <1>1, PlaceCases, LineOf
  <2> QED  BY <2>1, PlaceCases, LinesChange
<1>4. \A p : ~ Sent(g, p) /\ ~ Sent(g, p)'
  <2>1. phase[g] # "backward"
    BY DEF TestPass, Forward, WorkerInterrupted, AtForward
  <2>2. phase'[g] = "backward" => pos'[g] = 1
    BY <2>1 DEF TestPass, Forward, WorkerInterrupted, TypeOK, WorkerTypeOK
  <2> QED  BY <2>1, <2>2 DEF Sent
<1>5. \A h \in Groups, p \in Params : LastSent(h, p)' = LastSent(h, p)
  <2>1. ASSUME NEW h \in Groups, NEW p \in Params, h # g PROVE LastSent(h, p)' = LastSent(h, p)
    BY <1>1, <1>2, <2>1, SameCourse
  <2>2. ASSUME NEW p \in Params PROVE LastSent(g, p)' = LastSent(g, p)
    BY <1>1, <1>4 DEF LastSent
  <2> QED  BY <2>1, <2>2
<1>6. FlowInv'
  BY <1>1, <1>3, <1>5, NothingMoved, QuietFlow DEF StoreInv, FlowInv, MessagesInv
<1>7. ASSUME NEW p \in Computed(g)'
      PROVE  p \in Params /\ ~ Some(Lines, Concerning(g, p)) /\ (Shares(g) => step[g] = FirstStep)
  <2>1. phase \in [Groups -> {"test", "forward", "backward", "done", "failed"}]
        /\ pos[g] \in 1 .. NParams /\ NParams \in Nat
    BY Assumption DEF TypeOK, WorkerTypeOK
  <2>2. CASE TestPass(g)
    <3>1. pos'[g] = 1 /\ phase'[g] \in {"test", "forward"}
      BY <2>1, <2>2 DEF TestPass, StoreInv, CourseInv
    <3> QED  BY <3>1 DEF Computed, Params
  <2>3. CASE WorkerInterrupted(g)
    <3>1. phase'[g] = "failed"
      BY <2>1, <2>3 DEF WorkerInterrupted
    <3> QED  BY <3>1 DEF Computed
  <2>4. CASE Forward(g)
    <3> DEFINE q == pos[g] - 1
    <3>1. phase[g] = "forward" /\ q \in Params /\ held[g][q] >= step[g]
          /\ held[g][q] \in Nat /\ step[g] \in Nat
      BY <2>1, <2>4 DEF Forward, AtForward, Outdated, TypeOK, WorkerTypeOK
    <3>2. p \in Params /\ (p = q \/ p \in Computed(g))
      <4>1. CASE pos[g] = NParams
        BY <2>1, <2>4, <3>1, <4>1 DEF Forward, Computed, Params
      <4>2. CASE pos[g] # NParams
        BY <2>1, <2>4, <3>1, <4>2 DEF Forward, Computed, Params, TypeOK, WorkerTypeOK
      <4> QED  BY <4>1, <4>2
    <3>3. CASE p \in Computed(g)
      BY <1>4, <3>2, <3>3 DEF StoreInv, ComputeInv
    <3>4. CASE p = q
      <4>1. LastSent(g, q) = step[g] - 1
        BY <1>4 DEF LastSent
      <4>2. ~ (held[g][q] = LastSent(g, q))
        BY <3>1, <4>1
      <4>3. ~ Some(Lines, Concerning(g, q)) /\ ~ (Shares(g) /\ LastSent(g, q) >= FirstStep)
        BY <3>1, <4>2 DEF StoreInv, UpdateInv
      <4>4. step[g] >= FirstStep /\ FirstStep \in Nat
        BY Assumption DEF StoreInv, CourseInv
      <4> QED  BY <3>1, <3>2, <3>4, <4>1, <4>3, <4>4
    <3> QED  BY <3>2, <3>3, <3>4
  <2> QED  BY <2>2, <2>3, <2>4
<1>8. ComputeInv'
  <2>1. ASSUME NEW h \in Groups, NEW p \in Computed(h)'
        PROVE  /\ ~ Sent(h, p)' => ~ Some(Lines', Concerning(h, p))
               /\ Shares(h) => step'[h] = FirstStep
    <3>1. CASE h = g
      BY <1>1, <1>3, <1>7, <2>1, <3>1
    <3>2. CASE h # g
      <4>1. (Sent(h, p)' <=> Sent(h, p)) /\ p \in Computed(h)
        BY <1>1, <1>2, <2>1, <3>2, SameCourse
      <4> QED  BY <1>1, <1>3, <4>1 DEF StoreInv, ComputeInv
    <3> QED  BY <3>1, <3>2
  <2> QED  BY <2>1 DEF ComputeInv, Shares
<1>9. CourseInv'
  <2>1. ASSUME NEW h \in Groups
        PROVE  /\ step'[h] \in FirstStep .. TrainSteps
               /\ phase'[h] = "done" => step'[h] = TrainSteps
               /\ phase'[h] \in {"test", "forward", "backward"} => step'[h] < TrainSteps
               /\ phase'[h] = "test" => h = 0 /\ pos'[h] = 1
    <3>1. CASE h = g
      BY <1>1, <3>1 DEF StoreInv, CourseInv, TestPass, Forward, WorkerInterrupted, AtForward,
                        TypeOK, WorkerTypeOK
    <3>2. CASE h # g
      BY <1>1, <1>2, <3>2 DEF StoreInv, CourseInv
    <3> QED  BY <3>1, <3>2
  <2> QED  BY <2>1 DEF CourseInv
<1> QED  BY <1>3, <1>5, <1>6, <1>8, <1>9 DEF FlowInv, StoreInv

\* What a dealer reads was expected, and is addressed to its owner.
LEMMA Arrives ==
  ASSUME TypeOK, RoutingInv, MessagesInv, NEW a \in Address, DealerReceive(a),
         NEW m, m = Head(down[a])
  PROVE  /\ Lines \in [Places -> Seq(Message)] /\ Down(a) \in Places
         /\ Lines[Down(a)] # << >> /\ Head(Lines[Down(a)]) = m
         /\ m \in Expected /\ m.dst = a
<1>1. /\ Lines \in [Places -> Seq(Message)] /\ Down(a) \in Places
      /\ Lines[Down(a)] # << >> /\ Head(Lines[Down(a)]) = m
  BY LinesType, PlaceCases, LineOf DEF DealerReceive
<1>2. m \in Message /\ m.dst = a
  BY PipesRouted DEF Routed
<1>3. m \in Requests
  BY <1>2, AddressType DEF Message, Pings
<1>4. m \notin Requests \ Expected
  BY <1>1, Taken DEF MessagesInv
<1> QED  BY <1>1, <1>2, <1>3, <1>4

\* Whatever gradients a value has up to a step, it has up to the one before.
LEMMA UptoGrows ==
  ASSUME NEW g, NEW n \in Int
  PROVE  /\ Upto(g, n - 1) \subseteq Upto(g, n)
         /\ n >= FirstStep => InitialValue \in Upto(g, n)
  BY Assumption DEF Upto

\* An address names one thread.
LEMMA AddressesDiffer ==
  /\ \A g, i : Worker(g) # Server(i)
  /\ \A g, h : Worker(g) = Worker(h) => g = h
  BY DEF Worker, Server

\* Collect takes the answer to the group's latest update of a parameter,
\* which has all of the group's gradients.
LEMMA CollectStep ==
  ASSUME TypeOK, RoutingInv, StoreInv, NEW g \in Groups, Collect(g)
  PROVE  StoreInv'
<1> DEFINE a == Worker(g)
           m == Head(down[a])
           p == m.target
<1>1. /\ a \in Address /\ DealerReceive(a)
      /\ UNCHANGED <<up, bufmsg, hand, phase, step, pos, value, version>>
      /\ held' = [held EXCEPT ![g][p] = m.v] /\ copy' = [copy EXCEPT ![DataOf(g)][p] = m.data]
  BY AddressType DEF Collect, servervars
<1>2. /\ Lines \in [Places -> Seq(Message)] /\ Down(a) \in Places
      /\ Lines[Down(a)] # << >> /\ Head(Lines[Down(a)]) = m
      /\ m \in Expected /\ m.dst = a
  <2> HIDE DEF a
  <2> QED  BY <1>1, Arrives DEF StoreInv
<1>3. p \in Params /\ m \in AnswersTo(g, p) /\ Upto(g, LastSent(g, p)) \subseteq m.data
  <2>1. m.dst = Worker(g) /\ \A i : m.dst # Server(i)
    BY <1>2, AddressesDiffer
  <2>2. \A q \in Params : m # PutMsg(q)
    BY <2>1 DEF PutMsg
  <2>3. \A h \in Groups, q \in Params : m # UpdateMsg(h, q, LastSent(h, q))
    BY <2>1 DEF UpdateMsg
  <2>4. PICK h \in Groups, q \in Params :
          m \in AnswersTo(h, q) /\ Upto(h, LastSent(h, q)) \subseteq m.data
    BY <1>2, <2>2, <2>3 DEF Expected
  <2>5. h = g /\ q = p
    BY <2>1, <2>4, AddressesDiffer DEF AnswersTo
  <2> QED  BY <2>4, <2>5
<1>4. Lines' = Take(Lines, Down(a))
  BY <1>1, PipeLines
<1> HIDE DEF a, m, p
<1>5. \A K : /\ Some(Lines, K) <=> Some(Lines', K) \/ m \in K
             /\ AtMostOne(Lines, K) => AtMostOne(Lines', K)
             /\ AtMostOne(Lines, K) /\ m \in K => ~ Some(Lines', K)
  BY <1>2, <1>4, Taken
<1>6. m \in Concerning(g, p) /\ \A h \in Groups : \A q : m \notin UpdatesOf(h, q)
  BY <1>3 DEF AnswersTo, UpdatesOf, Concerning
<1>7. /\ ~ Some(Lines', Concerning(g, p)) /\ ~ Shares(g) /\ LastSent(g, p) >= FirstStep
      /\ DataOf(g) = g
  BY <1>3, <1>5, <1>6 DEF StoreInv, UpdateInv, DataOf
<1>8. \A h \in Groups, q \in Params : LastSent(h, q)' = LastSent(h, q)
  BY <1>1, SameCourse
<1>9. ASSUME NEW h \in Groups, NEW q \in Params, h # g \/ q # p
      PROVE  held'[h][q] = held[h][q] /\ copy'[h][q] = copy[h][q]
  BY <1>1, <1>7, <1>9 DEF TypeOK, WorkerTypeOK
<1>10. held'[g][p] = m.v /\ copy'[g][p] = m.data
  BY <1>1, <1>3, <1>7 DEF TypeOK, WorkerTypeOK
<1>11. MessagesInv'
  <2>1. Expected' = Expected
    BY <1>8, SameExpected
  <2> QED  BY <1>1, <1>5, <2>1 DEF StoreInv, MessagesInv
<1>12. PutInv'
  BY <1>1, <1>5 DEF StoreInv, PutInv
<1>13. UpdateInv'
  <2>1. ASSUME NEW h \in Groups, NEW q \in Params
        PROVE  /\ AtMostOne(Lines', Concerning(h, q))
               /\ Some(Lines', Concerning(h, q)) => ~ Shares(h) /\ LastSent(h, q) >= FirstStep
               /\ Some(Lines', Concerning(h, q)) \/ (Shares(h) /\ LastSent(h, q) >= FirstStep)
                    => held'[h][q] = LastSent(h, q)
    <3>1. CASE h = g /\ q = p
      BY <1>5, <1>7, <3>1 DEF StoreInv, UpdateInv
    <3>2. CASE h # g \/ q # p
      BY <1>5, <1>9, <3>2 DEF StoreInv, UpdateInv
    <3> QED  BY <3>1, <3>2
  <2> QED  BY <1>8, <2>1 DEF UpdateInv, Shares
<1>14. ServerInv'
  <2>1. \A h \in Groups, q \in Params :
          /\ LastSent(h, q)' = LastSent(h, q)
          /\ Some(Lines', UpdatesOf(h, q)) <=> Some(Lines, UpdatesOf(h, q))
    BY <1>5, <1>6, <1>8
  <2> QED  BY <1>1, <2>1 DEF StoreInv, ServerInv, Shares
<1>15. CopyInv'
  <2>1. ASSUME NEW q \in Params PROVE InitialValue \in copy'[0][q]
    <3>1. 0 \in Groups
      BY Assumption DEF Groups
    <3>2. CASE g = 0 /\ q = p
      BY <1>3, <1>7, <1>10, <3>2, UptoGrows, LastSentType
    <3>3. CASE g # 0 \/ q # p
      BY <1>9, <3>1, <3>3 DEF StoreInv, CopyInv
    <3> QED  BY <3>2, <3>3
  <2>2. ASSUME NEW h \in Groups, NEW q \in Params, ~ Shares(h)
        PROVE  /\ Upto(h, LastSent(h, q) - 1) \subseteq copy'[h][q]
               /\ ~ Some(Lines', Concerning(h, q)) => Upto(h, LastSent(h, q)) \subseteq copy'[h][q]
    <3>1. CASE h = g /\ q = p
      BY <1>3, <1>10, <3>1, UptoGrows, LastSentType
    <3>2. CASE h # g \/ q # p
      <4>1. m \notin Concerning(h, q)
        BY <1>3, <3>2 DEF Concerning, UpdatesOf, AnswersTo, Worker
      <4> QED  BY <1>5, <1>9, <2>2, <3>2, <4>1 DEF StoreInv, CopyInv
    <3> QED  BY <3>1, <3>2
  <2>3. \A h \in Groups, q \in Params : Upto(h, LastSent(h, q))' = Upto(h, LastSent(h, q))
                         /\ Upto(h, LastSent(h, q) - 1)' = Upto(h, LastSent(h, q) - 1)
    BY <1>8 DEF Upto
  <2> QED  BY <2>1, <2>2, <2>3 DEF CopyInv, Shares
<1>16. ComputeInv' /\ CourseInv'
  BY <1>1, <1>5, QuietCourse DEF StoreInv
<1> QED  BY <1>11, <1>12, <1>13, <1>14, <1>15, <1>16 DEF StoreInv

\* Backward raises the step of the latest update of its parameter and of no
\* other; after the last parameter all have been sent.
LEMMA BackwardSends ==
  ASSUME TypeOK, NEW g \in Groups, Backward(g), NEW p, p = BackwardOrder[pos[g]]
  PROVE  /\ p \in Params /\ phase[g] = "backward"
         /\ ~ Sent(g, p) /\ LastSent(g, p) = step[g] - 1 /\ LastSent(g, p)' = step[g]
         /\ pos[g] < NParams => Sent(g, p)'
         /\ \A h \in Groups, q \in Params : h # g \/ q # p => LastSent(h, q)' = LastSent(h, q)
         /\ \A h \in Groups : h # g => /\ \A q : Sent(h, q)' <=> Sent(h, q)
                                       /\ Computed(h)' = Computed(h)
         /\ pos[g] < NParams => \A q \in Params : q # p => (Sent(g, q)' <=> Sent(g, q))
<1>1. /\ phase \in [Groups -> {"test", "forward", "backward", "done", "failed"}]
      /\ step \in [Groups -> Nat] /\ pos \in [Groups -> 1 .. NParams] /\ NParams \in Nat
  BY Assumption DEF TypeOK, WorkerTypeOK
<1>2. phase[g] = "backward"
  BY DEF Backward
<1>3. /\ p \in Params
      /\ \A i \in 1 .. NParams : BackwardOrder[i] = p => i = pos[g]
      /\ \A q \in Params : \E i \in 1 .. NParams : BackwardOrder[i] = q
  BY <1>1, Assumption
<1>4. ~ Sent(g, p) /\ LastSent(g, p) = step[g] - 1
  <2>1. ~ Sent(g, p)
    BY <1>1, <1>3 DEF Sent
  <2> QED  BY <2>1 DEF LastSent
<1>5. \A h \in Groups : h # g => phase'[h] = phase[h] /\ step'[h] = step[h] /\ pos'[h] = pos[h]
  <2>1. CASE pos[g] < NParams
    BY <1>1, <2>1 DEF Backward
  <2>2. CASE ~ (pos[g] < NParams)
    BY <1>1, <2>2 DEF Backward
  <2> QED  BY <2>1, <2>2
<1>6. CASE pos[g] < NParams
  <2>1. phase'[g] = "backward" /\ step'[g] = step[g] /\ pos'[g] = pos[g] + 1
    BY <1>1, <1>2, <1>6 DEF Backward
  <2>2. Sent(g, p)'
    BY <1>1, <2>1 DEF Sent
  <2>3. ASSUME NEW q \in Params, q # p PROVE Sent(g, q)' <=> Sent(g, q)
    <3>1. \A i \in 1 .. NParams : i < pos'[g] /\ BackwardOrder[i] = q
                                    <=> i < pos[g] /\ BackwardOrder[i] = q
      BY <1>1, <2>1, <2>3
    <3> QED  BY <1>2, <2>1, <3>1 DEF Sent
  <2>4. LastSent(g, p)' = step[g] /\ \A q \in Params : q # p => LastSent(g, q)' = LastSent(g, q)
    BY <2>1, <2>2, <2>3 DEF LastSent
  <2> QED  BY <1>2, <1>3, <1>4, <1>5, <2>2, <2>3, <2>4, SameCourse
<1>7. CASE ~ (pos[g] < NParams)
  <2>1. phase'[g] \in {"done", "test", "forward"} /\ step'[g] = step[g] + 1 /\ pos[g] = NParams
    BY <1>1, <1>7 DEF Backward, Before
  <2>2. \A q : ~ Sent(g, q)'
    BY <2>1 DEF Sent
  <2>3. \A q : LastSent(g, q)' = step[g]
    BY <1>1, <2>1, <2>2 DEF LastSent
  <2>4. ASSUME NEW q \in Params, q # p PROVE LastSent(g, q) = step[g]
    <3>1. PICK i \in 1 .. NParams : BackwardOrder[i] = q
      BY <1>3
    <3>2. i < pos[g]
      BY <1>1, <2>1, <2>4, <3>1
    <3> QED  BY <1>2, <3>1, <3>2 DEF LastSent, Sent
  <2> QED  BY <1>2, <1>3, <1>4, <1>5, <1>7, <2>3, <2>4, SameCourse
<1> QED  BY <1>6, <1>7

\* An update is sent when the answer to the one before has been collected.
LEMMA BackwardStep ==
  ASSUME TypeOK, StoreInv, NEW g \in Groups, Backward(g)
  PROVE  StoreInv'
<1>0. PICK p \in Params : p = BackwardOrder[pos[g]]
  BY BackwardSends
<1> DEFINE m == UpdateMsg(g, p, step[g])
           a == Worker(g)
<1>1. /\ p \in Params /\ phase[g] = "backward"
      /\ ~ Sent(g, p) /\ LastSent(g, p) = step[g] - 1 /\ LastSent(g, p)' = step[g]
      /\ \A h \in Groups, q \in Params : h # g \/ q # p => LastSent(h, q)' = LastSent(h, q)
  BY <1>0, BackwardSends
<1>2. /\ UNCHANGED <<down, bufmsg, hand, copy, value, version>>
      /\ held' = [held EXCEPT ![g][p] = step[g]]
  BY <1>0 DEF Backward, servervars, HeldAfterUpdate
<1>3. /\ Lines \in [Places -> Seq(Message)] /\ a \in Address /\ Up(a) \in Places
      /\ m \in Message /\ m \in UpdatesOf(g, p) /\ step[g] \in Nat /\ FirstStep \in Nat
      /\ step[g] >= FirstStep
  <2>1. step[g] \in Nat /\ a \in Address /\ Up(a) \in Places
    BY AddressType, PlaceCases DEF TypeOK, WorkerTypeOK
  <2>2. m \in Message
    BY <1>1, <2>1, MessageTypes
  <2>3. m \in UpdatesOf(g, p)
    BY <2>2 DEF UpdatesOf, UpdateMsg, Message, Pings
  <2>4. FirstStep \in Nat /\ step[g] >= FirstStep
    BY Assumption DEF StoreInv, CourseInv
  <2> QED  BY <2>1, <2>2, <2>3, <2>4, LinesType
<1>4. ~ Some(Lines, Concerning(g, p)) /\ (Shares(g) => step[g] = FirstStep)
  BY <1>1 DEF StoreInv, ComputeInv, Computed
<1>5. ~ Some(Lines, UpdatesOf(g, p))
  BY <1>4, SetsType, Monotone
<1>6. /\ Shares(g) => Lines' = Lines
      /\ ~ Shares(g) => Lines' = Add(Lines, Up(a), m)
  <2>1. Shares(g) => UNCHANGED <<up, down>>
    BY <1>0, <1>2 DEF Backward, CountUpdate
  <2>2. ~ Shares(g) => DealerSend(a, m) /\ UNCHANGED down
    BY <1>0, <1>2 DEF Backward, SendUpdate
  <2> HIDE DEF a, m
  <2> QED  BY <1>2, <1>3, <2>1, <2>2, PipeLines
<1>7. m = UpdateMsg(g, p, step[g])
  OBVIOUS
<1> HIDE DEF a, m
<1>8. ASSUME NEW K
      PROVE  /\ Some(Lines', K) <=> Some(Lines, K) \/ (~ Shares(g) /\ m \in K)
             /\ AtMostOne(Lines, K) /\ (m \notin K \/ ~ Some(Lines, K)) => AtMostOne(Lines', K)
  <2>1. /\ Some(Add(Lines, Up(a), m), K) <=> Some(Lines, K) \/ m \in K
        /\ AtMostOne(Lines, K) /\ (m \notin K \/ ~ Some(Lines, K))
             => AtMostOne(Add(Lines, Up(a), m), K)
    BY <1>3, Added
  <2>2. CASE Shares(g)
    BY <1>6, <2>2, Monotone
  <2>3. CASE ~ Shares(g)
    BY <1>6, <2>1, <2>3
  <2> QED  BY <2>2, <2>3
<1>9. /\ m \in Concerning(g, p)
      /\ \A q : m \notin PutsOf(q)
      /\ \A h, q : h # g \/ q # p => m \notin Concerning(h, q) /\ m \notin UpdatesOf(h, q)
  BY <1>3, AddressesDiffer DEF UpdatesOf, AnswersTo, Concerning, PutsOf
<1>10. held'[g][p] = step[g]
       /\ \A h \in Groups, q \in Params : h # g \/ q # p => held'[h][q] = held[h][q]
  BY <1>1, <1>2 DEF TypeOK, WorkerTypeOK
<1>11. MessagesInv'
  <2>1. m \in Expected'
    <3>1. m = UpdateMsg(g, p, LastSent(g, p)') /\ m \in Requests
      BY <1>1, <1>3, <1>7 DEF UpdatesOf
    <3> QED  BY <1>1, <3>1 DEF Expected
  <2>2. Requests \ Expected' \subseteq (Requests \ Expected) \cup Concerning(g, p)
    <3> SUFFICES ASSUME NEW x \in Expected, x \notin Concerning(g, p) PROVE x \in Expected'
      BY DEF Expected
    <3>1. x \in Requests
      BY DEF Expected
    <3>2. CASE \E q \in Params : x = PutMsg(q)
      BY <3>1, <3>2 DEF Expected
    <3>3. ASSUME NEW h \in Groups, NEW q \in Params, x = UpdateMsg(h, q, LastSent(h, q))
          PROVE  x \in Expected'
      <4>1. x \in UpdatesOf(h, q)
        BY <3>1, <3>3 DEF UpdateMsg, UpdatesOf
      <4>2. h # g \/ q # p
        BY <4>1 DEF Concerning
      <4>3. x = UpdateMsg(h, q, LastSent(h, q)')
        BY <1>1, <3>3, <4>2
      <4> QED  BY <3>1, <4>3 DEF Expected
    <3>4. ASSUME NEW h \in Groups, NEW q \in Params,
                 x \in AnswersTo(h, q), Upto(h, LastSent(h, q)) \subseteq x.data
          PROVE  x \in Expected'
      <4>1. h # g \/ q # p
        BY <3>4 DEF Concerning
      <4>2. Upto(h, LastSent(h, q))' \subseteq x.data
        BY <1>1, <3>4, <4>1 DEF Upto
      <4> QED  BY <3>1, <3>4, <4>2 DEF Expected
    <3> QED  BY <3>2, <3>3, <3>4 DEF Expected
  <2>3. ~ Some(Lines, Requests \ Expected')
    <3> DEFINE J == Requests \ Expected
               K == Requests \ Expected'
               C == Concerning(g, p)
    <3>1. ~ Some(Lines, J) /\ ~ Some(Lines, C) /\ K \subseteq J \cup C
      BY <1>4, <2>2 DEF StoreInv, MessagesInv
    <3> HIDE DEF J, K, C
    <3>2. ~ Some(Lines, J \cup C)
      BY <3>1, InEither
    <3>3. ~ Some(Lines, K)
      BY <3>1, <3>2, Monotone
    <3> QED  BY <3>3 DEF K
  <2>4. ~ Some(Lines', Requests \ Expected')
    BY <1>8, <2>1, <2>3
  <2> QED  BY <1>2, <2>4 DEF StoreInv, MessagesInv
<1>12. PutInv'
  BY <1>2, <1>8, <1>9 DEF StoreInv, PutInv
<1>13. UpdateInv'
  <2>1. ASSUME NEW h \in Groups, NEW q \in Params
        PROVE  /\ AtMostOne(Lines', Concerning(h, q))
               /\ Some(Lines', Concerning(h, q)) => ~ Shares(h) /\ LastSent(h, q)' >= FirstStep
               /\ Some(Lines', Concerning(h, q)) \/ (Shares(h) /\ LastSent(h, q)' >= FirstStep)
                    => held'[h][q] = LastSent(h, q)'
    <3>1. CASE h = g /\ q = p
      BY <1>1, <1>3, <1>4, <1>8, <1>10, <3>1 DEF StoreInv, UpdateInv
    <3>2. CASE h # g \/ q # p
      BY <1>1, <1>8, <1>9, <1>10, <3>2 DEF StoreInv, UpdateInv
    <3> QED  BY <3>1, <3>2
  <2> QED  BY <2>1 DEF UpdateInv, Shares
<1>14. ServerInv'
  <2>1. ASSUME NEW q \in Params, NEW h \in Groups, NEW t \in Nat
        PROVE  <<h, t>> \in value[q] <=>
                 /\ ~ Shares(h)
                 /\ t \in FirstStep .. LastSent(h, q)'
                 /\ ~ (t = LastSent(h, q)' /\ Some(Lines', UpdatesOf(h, q)))
    <3>1. <<h, t>> \in value[q] <=>
            /\ ~ Shares(h)
            /\ t \in FirstStep .. LastSent(h, q)
            /\ ~ (t = LastSent(h, q) /\ Some(Lines, UpdatesOf(h, q)))
      BY DEF StoreInv, ServerInv
    <3>2. CASE h = g /\ q = p
      <4>1. ~ Shares(h) => Some(Lines', UpdatesOf(h, q))
        BY <1>3, <1>8, <3>2
      <4>2. <<h, t>> \in value[q] <=> ~ Shares(h) /\ t \in FirstStep .. step[g] - 1
        BY <1>1, <1>5, <3>1, <3>2
      <4>3. t \in FirstStep .. step[g] - 1 <=> t \in FirstStep .. step[g] /\ t # step[g]
        BY <1>3
      <4> QED  BY <1>1, <3>2, <4>1, <4>2, <4>3
    <3>3. CASE h # g \/ q # p
      <4>1. Some(Lines', UpdatesOf(h, q)) <=> Some(Lines, UpdatesOf(h, q))
        BY <1>8, <1>9, <3>3
      <4> QED  BY <1>1, <3>1, <3>3, <4>1
    <3> QED  BY <3>2, <3>3
  <2> QED  BY <1>2, <2>1 DEF StoreInv, ServerInv, Shares
<1>15. CopyInv'
  <2>1. ASSUME NEW h \in Groups, NEW q \in Params, ~ Shares(h)
        PROVE  /\ Upto(h, LastSent(h, q)' - 1) \subseteq copy[h][q]
               /\ ~ Some(Lines', Concerning(h, q)) => Upto(h, LastSent(h, q)') \subseteq copy[h][q]
    <3>1. CASE h = g /\ q = p
      <4>1. Some(Lines', Concerning(h, q))
        BY <1>8, <1>9, <2>1, <3>1
      <4> QED  BY <1>1, <1>4, <2>1, <3>1, <4>1 DEF StoreInv, CopyInv
    <3>2. CASE h # g \/ q # p
      BY <1>1, <1>8, <1>9, <2>1, <3>2 DEF StoreInv, CopyInv
    <3> QED  BY <3>1, <3>2
  <2>2. \A h \in Groups, q \in Params : /\ Upto(h, LastSent(h, q))' = Upto(h, LastSent(h, q)')
                                       /\ Upto(h, LastSent(h, q) - 1)' = Upto(h, LastSent(h, q)' - 1)
    BY DEF Upto
  <2> QED  BY <1>2, <2>1, <2>2 DEF StoreInv, CopyInv, Shares
<1>16. ASSUME ~ (pos[g] < NParams)
       PROVE  phase'[g] \in {"done", "test", "forward"} /\ step'[g] = step[g] + 1 /\ pos'[g] = 1
              /\ phase'[g] = Before(g, step[g] + 1)
  BY <1>16, Assumption DEF Backward, Before, TypeOK, WorkerTypeOK
<1>17. ASSUME pos[g] < NParams
       PROVE  phase'[g] = "backward" /\ step'[g] = step[g]
  BY <1>1, <1>17, Assumption DEF Backward, TypeOK, WorkerTypeOK
<1>18. \A h \in Groups : h # g => phase'[h] = phase[h] /\ step'[h] = step[h] /\ pos'[h] = pos[h]
  BY DEF Backward, TypeOK, WorkerTypeOK
<1>19. ComputeInv'
  <2>1. ASSUME NEW h \in Groups, NEW q \in Computed(h)'
        PROVE  /\ ~ Sent(h, q)' => ~ Some(Lines', Concerning(h, q))
               /\ Shares(h) => step'[h] = FirstStep
    <3>1. CASE h # g
      <4>1. (Sent(h, q)' <=> Sent(h, q)) /\ q \in Computed(h)
        BY <2>1, <3>1, BackwardSends
      <4> QED  BY <1>8, <1>9, <1>18, <3>1, <4>1 DEF StoreInv, ComputeInv
    <3>2. CASE h = g /\ pos[g] < NParams
      <4>1. q \in Params /\ q \in Computed(g)
        BY <1>1, <1>17, <2>1, <3>2 DEF Computed
      <4>2. Sent(g, p)' /\ (q # p => (Sent(g, q)' <=> Sent(g, q)))
        BY <1>0, <3>2, <4>1, BackwardSends
      <4>3. q # p /\ ~ Sent(g, q)' => ~ Some(Lines, Concerning(g, q))
        BY <4>1, <4>2 DEF StoreInv, ComputeInv
      <4> QED  BY <1>4, <1>8, <1>9, <1>17, <3>2, <4>2, <4>3
    <3>3. CASE h = g /\ ~ (pos[g] < NParams)
      BY <1>16, <2>1, <3>3 DEF Computed, Params
    <3> QED  BY <3>1, <3>2, <3>3
  <2> QED  BY <2>1 DEF ComputeInv, Shares
<1>20. CourseInv'
  <2>1. ASSUME NEW h \in Groups
        PROVE  /\ step'[h] \in FirstStep .. TrainSteps
               /\ phase'[h] = "done" => step'[h] = TrainSteps
               /\ phase'[h] \in {"test", "forward", "backward"} => step'[h] < TrainSteps
               /\ phase'[h] = "test" => h = 0 /\ pos'[h] = 1
    <3>1. CASE h # g
      BY <1>18, <3>1 DEF StoreInv, CourseInv
    <3>2. CASE h = g /\ pos[g] < NParams
      BY <1>1, <1>17, <3>2 DEF StoreInv, CourseInv
    <3>3. CASE h = g /\ ~ (pos[g] < NParams)
      <4>1. step[g] < TrainSteps /\ TrainSteps \in Nat
        BY <1>1, Assumption DEF StoreInv, CourseInv
      <4>2. step'[g] \in FirstStep .. TrainSteps
        BY <1>3, <1>16, <3>3, <4>1
      <4>3. CASE step[g] + 1 >= TrainSteps
        BY <1>3, <1>16, <3>3, <4>1, <4>2, <4>3 DEF Before
      <4>4. CASE ~ (step[g] + 1 >= TrainSteps)
        BY <1>3, <1>16, <3>3, <4>1, <4>2, <4>4 DEF Before, EvaluateNow
      <4> QED  BY <4>3, <4>4
    <3> QED  BY <3>1, <3>2, <3>3
  <2> QED  BY <2>1 DEF CourseInv
<1> QED  BY <1>11, <1>12, <1>13, <1>14, <1>15, <1>19, <1>20 DEF StoreInv

----------------------------------------------------------------------------
(* Steps of a server and of the stub *)

\* A ping is no request; a bounced request has only moved; the stub moves
\* what it holds.
LEMMA QuietSteps ==
  ASSUME TypeOK, StoreInv,
         \/ \E i \in 0 .. NServers - 1 :
              ServerConnect(i) \/ RequeueUpdate(i) \/ ServerInterrupted(i)
         \/ \E a \in Address : StubReceive(a)
         \/ StubSend \/ StubInterrupted \/ UNCHANGED vars
  PROVE  /\ StoreInv' /\ Quiet
         /\ \A g \in Groups, p \in Params : LastSent(g, p)' = LastSent(g, p)
<1>1. Lines \in [Places -> Seq(Message)] /\ Len(hand) <= 1
  BY LinesType DEF StoreInv, MessagesInv
<1>2. UNCHANGED <<phase, step, pos, held, copy, value, version>>
  BY DEF ServerConnect, RequeueUpdate, ServerInterrupted, StubReceive, StubSend, StubInterrupted,
         workervars, servervars, vars
<1>3. ASSUME NEW i \in 0 .. NServers - 1, ServerConnect(i) PROVE Quiet /\ Len(hand') <= 1
  <2> DEFINE a == Server(i)  m == PingMsg(i)
  <2>1. a \in Address /\ m \in Message /\ m \notin Requests /\ Up(a) \in Places
    BY AddressType, MessageTypes, PlaceCases DEF PingMsg, Requests
  <2>2. Lines' = Add(Lines, Up(a), m)
    BY <1>3, <2>1, PipeLines DEF ServerConnect
  <2> HIDE DEF a, m
  <2>3. ASSUME NEW K \in SUBSET Requests PROVE Moved(Lines, Lines', K)
    BY <1>1, <2>1, <2>2, Added DEF Moved
  <2> QED  BY <1>1, <1>3, <2>3 DEF Quiet, ServerConnect
<1>4. ASSUME NEW i \in 0 .. NServers - 1, RequeueUpdate(i) PROVE Quiet /\ Len(hand') <= 1
  <2> DEFINE a == Server(i)  m == Head(down[a])
  <2>1. a \in Address /\ DealerReceive(a) /\ UNCHANGED <<bufmsg, hand>>
        /\ up' = [up EXCEPT ![a] = @ \o <<m>>]
    BY <1>4, AddressType DEF RequeueUpdate, ServerTakes, Requeued
  <2>2. Lines[Down(a)] = down[a] /\ down[a] # << >> /\ Up(a) \in Places /\ Down(a) \in Places
    BY <2>1, PlaceCases, LineOf, LinesType DEF DealerReceive
  <2>3. DealerSend(a, m)
    <3>1. up[a] \in Seq(Message) /\ m \in Message
      BY <2>1, SeqFacts DEF TypeOK, FabricTypeOK, DealerReceive
    <3> HIDE DEF m
    <3>2. up[a] \o <<m>> = Append(up[a], m)
      BY <3>1
    <3> QED  BY <2>1, <3>2 DEF DealerSend
  <2> HIDE DEF a
  <2>4. Lines' = Add(Take(Lines, Down(a)), Up(a), m)
    BY <2>1, <2>3, PipeLines
  <2>5. \A K : Moved(Lines, Lines', K)
    BY <1>1, <2>2, <2>4, Passed
  <2> QED  BY <1>1, <2>1, <2>5 DEF Quiet
<1>5. ASSUME \/ \E i \in 0 .. NServers - 1 : ServerInterrupted(i)
             \/ StubInterrupted \/ UNCHANGED vars
      PROVE  Quiet /\ Len(hand') <= 1
  <2>1. UNCHANGED <<up, down, bufmsg, hand>>
    BY <1>5 DEF ServerInterrupted, StubInterrupted, vars, fabricvars
  <2>2. \A c \in Places : Line(c)' = Line(c)
    BY <2>1, PlaceCases, LineOf
  <2> QED  BY <1>1, <2>1, <2>2, PlaceCases, LinesChange, NothingMoved
<1>6. ASSUME (\E a \in Address : StubReceive(a)) \/ StubSend PROVE Quiet /\ Len(hand') <= 1
  <2>1. CASE \E a \in Address : StubReceive(a)
    <3>1. PICK a \in Address : RouterReceive(a)
      BY <2>1 DEF StubReceive
    <3>2. Quiet /\ Len(hand') = 1
      BY <3>1, ReceiveQuiet
    <3> QED  BY <3>2
  <2>2. CASE StubSend
    <3>1. Quiet /\ Len(hand') = 0
      BY <1>1, <2>2, DispatchQuiet DEF StubSend
    <3> QED  BY <3>1
  <2> QED  BY <1>6, <2>1, <2>2
<1>7. Quiet /\ Len(hand') <= 1
  BY <1>3, <1>4, <1>5, <1>6
<1>8. \A g \in Groups, p \in Params : LastSent(g, p)' = LastSent(g, p)
  BY <1>2, SameCourse
<1>9. FlowInv'
  BY <1>2, <1>7, <1>8, QuietFlow DEF StoreInv, FlowInv
<1>10. \A g \in Groups, p \in Params :
         Some(Lines', Concerning(g, p)) => Some(Lines, Concerning(g, p))
  BY <1>7, SetsType DEF Quiet, Moved
<1>11. ComputeInv' /\ CourseInv'
  BY <1>2, <1>10, QuietCourse DEF StoreInv
<1> QED  BY <1>7, <1>8, <1>9, <1>11 DEF FlowInv, StoreInv

\* A Put arrives once, where there is no value yet.
LEMMA PutStep ==
  ASSUME TypeOK, RoutingInv, StoreInv, NEW i \in 0 .. NServers - 1, HandlePut(i)
  PROVE  /\ StoreInv'
         /\ \E p \in Params : /\ value[p] = {}
                              /\ value'   = [value EXCEPT ![p] = {InitialValue}]
                              /\ version' = [version EXCEPT ![p] = FirstStep]
<1> DEFINE a == Server(i)
           m == Head(down[a])
           p == m.target
<1>1. /\ a \in Address /\ DealerReceive(a) /\ m.type = "kPut"
      /\ UNCHANGED <<up, bufmsg, hand, phase, step, pos, held, copy>>
      /\ value' = [value EXCEPT ![p] = m.data] /\ version' = [version EXCEPT ![p] = m.v]
  BY AddressType DEF HandlePut, ServerTakes, workervars
<1>2. /\ Lines \in [Places -> Seq(Message)] /\ Down(a) \in Places
      /\ Lines[Down(a)] # << >> /\ Head(Lines[Down(a)]) = m /\ m \in Expected
  <2> HIDE DEF a
  <2> QED  BY <1>1, Arrives DEF StoreInv
<1>3. Lines' = Take(Lines, Down(a))
  BY <1>1, PipeLines
<1> HIDE DEF a, m
<1>4. p \in Params /\ m \in PutsOf(p) /\ m.data = {InitialValue} /\ m.v = FirstStep
  <2>1. \A h, q, s : m # UpdateMsg(h, q, s)
    BY <1>1 DEF UpdateMsg
  <2>2. \A h, q : m \notin AnswersTo(h, q)
    BY <1>1 DEF AnswersTo
  <2>3. PICK q \in Params : m = PutMsg(q)
    BY <1>2, <2>1, <2>2 DEF Expected
  <2>4. m \in Requests
    BY <1>2 DEF Expected
  <2> QED  BY <2>3, <2>4 DEF PutMsg, PutsOf
<1> HIDE DEF p
<1>5. \A K : /\ Some(Lines, K) <=> Some(Lines', K) \/ m \in K
             /\ AtMostOne(Lines, K) => AtMostOne(Lines', K)
             /\ AtMostOne(Lines, K) /\ m \in K => ~ Some(Lines', K)
  BY <1>2, <1>3, Taken
<1>6. value[p] = {} /\ ~ Some(Lines', PutsOf(p))
  BY <1>4, <1>5 DEF StoreInv, PutInv
<1>7. \A h, q : m \notin UpdatesOf(h, q) /\ m \notin Concerning(h, q)
  BY <1>1 DEF UpdatesOf, AnswersTo, Concerning
<1>8. \A h \in Groups, q \in Params : LastSent(h, q)' = LastSent(h, q)
  BY <1>1, SameCourse
<1>9. /\ value'[p] = {InitialValue} /\ version'[p] = FirstStep
      /\ \A q \in Params : q # p => value'[q] = value[q] /\ version'[q] = version[q]
  BY <1>1, <1>4 DEF TypeOK, ServerTypeOK
<1>10. MessagesInv'
  <2>1. Expected' = Expected
    BY <1>8, SameExpected
  <2> QED  BY <1>1, <1>5, <2>1 DEF StoreInv, MessagesInv
<1>11. PutInv'
  <2>1. ASSUME NEW q \in Params
        PROVE  AtMostOne(Lines', PutsOf(q)) /\ (Some(Lines', PutsOf(q)) => value'[q] = {})
    BY <1>5, <1>6, <1>9 DEF StoreInv, PutInv
  <2> QED  BY <2>1 DEF PutInv
<1>12. UpdateInv'
  BY <1>1, <1>5, <1>7, <1>8 DEF StoreInv, UpdateInv, Shares
<1>13. ServerInv'
  <2>1. \A h \in Groups, q \in Params :
          /\ LastSent(h, q)' = LastSent(h, q)
          /\ Some(Lines', UpdatesOf(h, q)) <=> Some(Lines, UpdatesOf(h, q))
    BY <1>5, <1>7, <1>8
  <2>2. ASSUME NEW h \in Groups, NEW s \in Nat
        PROVE  <<h, s>> \notin value[p] /\ <<h, s>> \notin value'[p]
    BY <1>6, <1>9, Assumption
  <2>3. FirstStep \in Nat
    BY Assumption
  <2>4. ASSUME NEW q \in Params
        PROVE  /\ \A h \in Groups, s \in Nat :
                    <<h, s>> \in value'[q] <=>
                      /\ ~ Shares(h)
                      /\ s \in FirstStep .. LastSent(h, q)
                      /\ ~ (s = LastSent(h, q) /\ Some(Lines, UpdatesOf(h, q)))
               /\ value'[q] # {} => InitialValue \in value'[q] /\ version'[q] >= FirstStep
               /\ \A h \in Groups, s \in Nat : <<h, s>> \in value'[q] => version'[q] >= s + 1
    <3>1. CASE q = p
      <4>1. \A h \in Groups, s \in Nat :
              ~ ( /\ ~ Shares(h)
                  /\ s \in FirstStep .. LastSent(h, q)
                  /\ ~ (s = LastSent(h, q) /\ Some(Lines, UpdatesOf(h, q))))
        BY <2>2, <3>1, <1>4 DEF StoreInv, ServerInv
      <4> QED  BY <1>9, <2>2, <2>3, <3>1, <4>1
    <3>2. CASE q # p
      BY <1>9, <3>2 DEF StoreInv, ServerInv
    <3> QED  BY <3>1, <3>2
  <2> QED  BY <2>1, <2>4 DEF ServerInv, Shares
<1>14. CopyInv'
  <2>1. \A h \in Groups, q \in Params :
          /\ LastSent(h, q)' = LastSent(h, q)
          /\ Some(Lines', Concerning(h, q)) <=> Some(Lines, Concerning(h, q))
    BY <1>5, <1>7, <1>8
  <2> QED  BY <1>1, <2>1 DEF StoreInv, CopyInv, Shares, Upto
<1>15. ComputeInv' /\ CourseInv'
  BY <1>1, <1>5, QuietCourse DEF StoreInv
<1>16. /\ value' = [value EXCEPT ![p] = {InitialValue}]
       /\ version' = [version EXCEPT ![p] = FirstStep]
  BY <1>1, <1>4
<1> QED  BY <1>4, <1>6, <1>10, <1>11, <1>12, <1>13, <1>14, <1>15, <1>16 DEF StoreInv

\* What UpdateResponse answers to group g's update of p.
Answer(g, p, s) ==
  [type |-> "kRUpdate", src |-> Server(Sharding(p)), dst |-> Worker(g),
   target |-> p, v |-> version[p] + 1, data |-> value[p] \cup {<<g, s>>}]

\* A gradient that reaches a value is the group's latest, of a version the
\* server has (its CHECK_LE never fails), and not in the value yet.
LEMMA UpdateArrives ==
  ASSUME TypeOK, RoutingInv, StoreInv, NEW i \in 0 .. NServers - 1, HandleUpdate(i),
         NEW m, m = Head(down[Server(i)])
  PROVE  \E g \in Groups, p \in Params : \E s \in Nat :
           /\ s = LastSent(g, p) /\ s >= FirstStep /\ ~ Shares(g)
           /\ m = UpdateMsg(g, p, s) /\ m \in UpdatesOf(g, p) /\ Some(Lines, UpdatesOf(g, p))
           /\ value[p] # {} /\ <<g, s>> \notin value[p] /\ s <= version[p]
           /\ version[p] \in Nat
           /\ value'   = [value EXCEPT ![p] = @ \cup {<<g, s>>}]
           /\ version' = [version EXCEPT ![p] = @ + 1]
           /\ Answer(g, p, s) \in AnswersTo(g, p)
           /\ DealerSend(Server(i), Answer(g, p, s))
<1> DEFINE a == Server(i)
<1>1. /\ a \in Address /\ DealerReceive(a) /\ m.type = "kUpdate" /\ ServerTakes(i, "kUpdate")
      /\ value[m.target] # {} /\ m = Head(down[a])
  BY AddressType DEF HandleUpdate, ServerTakes
<1>2. /\ Lines \in [Places -> Seq(Message)] /\ Down(a) \in Places
      /\ Lines[Down(a)] # << >> /\ Head(Lines[Down(a)]) = m /\ m \in Expected
  <2> HIDE DEF a
  <2> QED  BY <1>1, Arrives DEF StoreInv
<1>3. m \in Requests
  BY <1>2 DEF Expected
<1>4. PICK g \in Groups, p \in Params : m = UpdateMsg(g, p, LastSent(g, p))
  <2>1. \A q : m # PutMsg(q)
    BY <1>1 DEF PutMsg
  <2>2. \A h, q : m \notin AnswersTo(h, q)
    BY <1>1 DEF AnswersTo
  <2> QED  BY <1>2, <2>1, <2>2 DEF Expected
<1> DEFINE s == LastSent(g, p)
<1>5. /\ m.target = p /\ m.v = s /\ m.data = {<<g, s>>} /\ m.src = Worker(g)
      /\ m.dst = Server(Sharding(p))
  BY <1>4 DEF UpdateMsg
<1>6. m \in UpdatesOf(g, p) /\ m \in Concerning(g, p)
  BY <1>1, <1>3, <1>5 DEF UpdatesOf, Concerning
<1>7. Some(Lines, UpdatesOf(g, p)) /\ Some(Lines, Concerning(g, p))
  BY <1>2, <1>6, Taken
<1>8. s \in Nat /\ s >= FirstStep /\ ~ Shares(g) /\ FirstStep \in Nat
  BY <1>7, Assumption, LastSentType DEF StoreInv, UpdateInv
<1> HIDE DEF s
<1>9. \A t \in Nat : <<g, t>> \in value[p] <=> t \in FirstStep .. s /\ t # s
  BY <1>7, <1>8 DEF StoreInv, ServerInv, s
<1>10. <<g, s>> \notin value[p]
  BY <1>8, <1>9
<1>11. value[p] # {} /\ version[p] >= FirstStep /\ version[p] \in Nat
  <2>1. value[p] # {} /\ version[p] >= FirstStep
    BY <1>1, <1>5 DEF StoreInv, ServerInv
  <2>2. version[p] \in Nat \cup {-1}
    BY DEF TypeOK, ServerTypeOK
  <2> QED  BY <1>8, <2>1, <2>2
<1>12. s <= version[p]
  <2>1. CASE s = FirstStep
    BY <1>11, <2>1
  <2>2. CASE s # FirstStep
    <3>1. s - 1 \in Nat /\ s - 1 \in FirstStep .. s /\ s - 1 # s
      BY <1>8, <2>2
    <3>2. <<g, s - 1>> \in value[p]
      BY <1>9, <3>1
    <3>3. version[p] >= (s - 1) + 1
      BY <3>1, <3>2 DEF StoreInv, ServerInv
    <3> QED  BY <1>8, <1>11, <3>3
  <2> QED  BY <2>1, <2>2
<1>13. m.v <= version[m.target]
  BY <1>5, <1>12 DEF s
<1>14. Answer(g, p, s) = UpdateResponse(m, VersionAfterUpdate(m.target), ValueAfterUpdate(m))
  BY <1>5 DEF Answer, UpdateResponse, VersionAfterUpdate, ValueAfterUpdate, s
<1>15. Answer(g, p, s) \in AnswersTo(g, p)
  <2>1. Answer(g, p, s) \in Message
    BY <1>1, <1>13, <1>14, ServedAnswer
  <2> QED  BY <2>1 DEF Message, Pings, AnswersTo, Answer
<1>16. /\ value' = [value EXCEPT ![m.target] = ValueAfterUpdate(m)]
       /\ version' = [version EXCEPT ![m.target] = VersionAfterUpdate(m.target)]
       /\ DealerSend(a, UpdateResponse(m, VersionAfterUpdate(m.target), ValueAfterUpdate(m)))
  BY <1>13 DEF HandleUpdate
<1>17. /\ value'   = [value EXCEPT ![p] = @ \cup {<<g, s>>}]
       /\ version' = [version EXCEPT ![p] = @ + 1]
       /\ DealerSend(a, Answer(g, p, s))
  BY <1>5, <1>14, <1>16 DEF ValueAfterUpdate, VersionAfterUpdate, s
<1>18. s = LastSent(g, p) /\ m = UpdateMsg(g, p, s)
  BY <1>4 DEF s
<1> QED  BY <1>6, <1>7, <1>8, <1>10, <1>11, <1>12, <1>15, <1>17, <1>18

\* An update becomes an answer that has all of the group's gradients.
LEMMA UpdateStep ==
  ASSUME TypeOK, RoutingInv, StoreInv, NEW i \in 0 .. NServers - 1, HandleUpdate(i)
  PROVE  StoreInv'
<1> DEFINE a == Server(i)
           m == Head(down[a])
<1>1. /\ a \in Address /\ DealerReceive(a)
      /\ UNCHANGED <<bufmsg, hand, phase, step, pos, held, copy>>
  BY AddressType DEF HandleUpdate, ServerTakes, workervars
<1>2. /\ Lines \in [Places -> Seq(Message)] /\ Down(a) \in Places /\ Up(a) \in Places
      /\ Lines[Down(a)] # << >> /\ Head(Lines[Down(a)]) = m
  <2> HIDE DEF a
  <2> QED  BY <1>1, Arrives, PlaceCases DEF StoreInv
<1>3. PICK g \in Groups, p \in Params : \E t \in Nat :
           /\ t = LastSent(g, p) /\ t >= FirstStep /\ ~ Shares(g)
           /\ m = UpdateMsg(g, p, t) /\ m \in UpdatesOf(g, p) /\ Some(Lines, UpdatesOf(g, p))
           /\ value[p] # {} /\ <<g, t>> \notin value[p] /\ t <= version[p]
           /\ version[p] \in Nat
           /\ value'   = [value EXCEPT ![p] = @ \cup {<<g, t>>}]
           /\ version' = [version EXCEPT ![p] = @ + 1]
           /\ Answer(g, p, t) \in AnswersTo(g, p)
           /\ DealerSend(Server(i), Answer(g, p, t))
  BY UpdateArrives
<1> DEFINE s == LastSent(g, p)
           ans == Answer(g, p, s)
           T == Take(Lines, Down(a))
<1>4. /\ s \in Nat /\ s >= FirstStep /\ ~ Shares(g)
      /\ m \in UpdatesOf(g, p) /\ Some(Lines, UpdatesOf(g, p))
      /\ value[p] # {} /\ <<g, s>> \notin value[p] /\ s <= version[p] /\ version[p] \in Nat
      /\ value'   = [value EXCEPT ![p] = @ \cup {<<g, s>>}]
      /\ version' = [version EXCEPT ![p] = @ + 1]
      /\ ans \in AnswersTo(g, p) /\ ans.data = value[p] \cup {<<g, s>>}
      /\ DealerSend(a, ans)
  BY <1>3 DEF Answer
<1>5. ans \in Message
  BY <1>4 DEF AnswersTo, Message
<1>6. Lines' = Add(T, Up(a), ans)
  BY <1>1, <1>4, PipeLines
<1> HIDE DEF a, m, s, ans
<1>7. /\ T \in [Places -> Seq(Message)]
      /\ \A K : /\ Some(Lines, K) <=> Some(T, K) \/ m \in K
                /\ AtMostOne(Lines, K) => AtMostOne(T, K)
                /\ AtMostOne(Lines, K) /\ m \in K => ~ Some(T, K)
  BY <1>2, Taken
<1> HIDE DEF T
<1>8. \A K : /\ Some(Lines', K) <=> Some(T, K) \/ ans \in K
             /\ AtMostOne(T, K) /\ (ans \notin K \/ ~ Some(T, K)) => AtMostOne(Lines', K)
  <2> TAKE K
  <2>1. T \in [Places -> Seq(Message)] /\ Up(a) \in Places /\ ans \in Message
    BY <1>2, <1>5, <1>7
  <2>2. /\ Some(Add(T, Up(a), ans), K) <=> Some(T, K) \/ ans \in K
        /\ AtMostOne(T, K) /\ (ans \notin K \/ ~ Some(T, K)) => AtMostOne(Add(T, Up(a), ans), K)
    BY <2>1, Added
  <2> QED  BY <1>6, <2>2
<1>9. /\ m \in Concerning(g, p) /\ ans \in Concerning(g, p)
      /\ \A h, q : ans \notin UpdatesOf(h, q)
      /\ \A q : m \notin PutsOf(q) /\ ans \notin PutsOf(q)
      /\ \A h, q : h # g \/ q # p => /\ m \notin Concerning(h, q) /\ m \notin UpdatesOf(h, q)
                                     /\ ans \notin Concerning(h, q)
  BY <1>4, AddressesDiffer DEF UpdatesOf, AnswersTo, Concerning, PutsOf
<1>10. AtMostOne(Lines, Concerning(g, p)) /\ ~ Some(T, Concerning(g, p))
  BY <1>7, <1>9 DEF StoreInv, UpdateInv
<1>11. ~ Some(Lines', UpdatesOf(g, p))
  <2>1. ~ Some(T, UpdatesOf(g, p))
    BY <1>10, SetsType, Monotone
  <2> QED  BY <1>8, <1>9, <2>1
<1>12. \A h \in Groups, q \in Params : LastSent(h, q)' = LastSent(h, q)
  BY <1>1, SameCourse
<1>13. \A h \in Groups, q \in Params :
         /\ Some(Lines', Concerning(h, q)) <=> Some(Lines, Concerning(h, q))
         /\ AtMostOne(Lines', Concerning(h, q))
  <2>1. ASSUME NEW h \in Groups, NEW q \in Params
        PROVE  /\ Some(Lines', Concerning(h, q)) <=> Some(Lines, Concerning(h, q))
               /\ AtMostOne(Lines', Concerning(h, q))
    <3>1. AtMostOne(Lines, Concerning(h, q))
      BY DEF StoreInv, UpdateInv
    <3>2. CASE h = g /\ q = p
      BY <1>7, <1>8, <1>9, <1>10, <3>1, <3>2
    <3>3. CASE h # g \/ q # p
      BY <1>7, <1>8, <1>9, <3>1, <3>3
    <3> QED  BY <3>2, <3>3
  <2> QED  BY <2>1
<1>14. /\ value'[p] = value[p] \cup {<<g, s>>} /\ version'[p] = version[p] + 1
       /\ \A q \in Params : q # p => value'[q] = value[q] /\ version'[q] = version[q]
  BY <1>4 DEF TypeOK, ServerTypeOK
<1>15. \A t \in Nat : <<g, t>> \in value[p] <=> t \in FirstStep .. s /\ t # s
  BY <1>4 DEF StoreInv, ServerInv, s
<1>16. MessagesInv'
  <2>1. Expected' = Expected
    BY <1>12, SameExpected
  <2>2. ans \in Expected
    <3>1. Upto(g, s) \subseteq ans.data
      <4>1. FirstStep \in Nat /\ InitialValue \in value[p]
        BY <1>4, Assumption DEF StoreInv, ServerInv
      <4>2. \A t \in FirstStep .. s : <<g, t>> \in value[p] \cup {<<g, s>>}
        BY <1>4, <1>15, <4>1
      <4> QED  BY <1>4, <4>1, <4>2 DEF Upto
    <3>2. ans \in Requests
      BY <1>4 DEF AnswersTo
    <3> QED  BY <1>4, <3>1, <3>2 DEF Expected, s
  <2>3. ~ Some(T, Requests \ Expected)
    BY <1>7 DEF StoreInv, MessagesInv
  <2>4. ~ Some(Lines', Requests \ Expected)
    BY <1>8, <2>2, <2>3
  <2> QED  BY <1>1, <2>1, <2>4 DEF StoreInv, MessagesInv
<1>17. PutInv'
  <2>1. ASSUME NEW q \in Params
        PROVE  AtMostOne(Lines', PutsOf(q)) /\ (Some(Lines', PutsOf(q)) => value'[q] = {})
    <3>1. AtMostOne(Lines', PutsOf(q)) /\ (Some(Lines', PutsOf(q)) => Some(Lines, PutsOf(q)))
      BY <1>7, <1>8, <1>9 DEF StoreInv, PutInv
    <3>2. Some(Lines, PutsOf(q)) => value[q] = {}
      BY DEF StoreInv, PutInv
    <3> QED  BY <1>4, <1>14, <3>1, <3>2
  <2> QED  BY <2>1 DEF PutInv
<1>18. UpdateInv'
  BY <1>1, <1>12, <1>13 DEF StoreInv, UpdateInv, Shares
<1>19. ServerInv'
  <2>1. ASSUME NEW q \in Params, NEW h \in Groups, NEW t \in Nat
        PROVE  /\ <<h, t>> \in value'[q] <=>
                    /\ ~ Shares(h)
                    /\ t \in FirstStep .. LastSent(h, q)
                    /\ ~ (t = LastSent(h, q) /\ Some(Lines', UpdatesOf(h, q)))
               /\ <<h, t>> \in value'[q] => version'[q] >= t + 1
    <3>1. CASE h = g /\ q = p
      <4>1. <<h, t>> \in value'[q] <=> t \in FirstStep .. s
        BY <1>4, <1>14, <1>15, <3>1
      <4>2. <<h, t>> \in value'[q] => version'[q] >= t + 1
        BY <1>4, <1>14, <3>1, <4>1
      <4> QED  BY <1>4, <1>11, <3>1, <4>1, <4>2 DEF s
    <3>2. CASE h # g \/ q # p
      <4>1. Some(Lines', UpdatesOf(h, q)) <=> Some(Lines, UpdatesOf(h, q))
        BY <1>7, <1>8, <1>9, <3>2
      <4>2. <<h, t>> \in value'[q] <=> <<h, t>> \in value[q]
        BY <1>14, <3>2
      <4>3. /\ <<h, t>> \in value[q] <=>
                 /\ ~ Shares(h)
                 /\ t \in FirstStep .. LastSent(h, q)
                 /\ ~ (t = LastSent(h, q) /\ Some(Lines, UpdatesOf(h, q)))
            /\ <<h, t>> \in value[q] => version[q] >= t + 1
        BY DEF StoreInv, ServerInv
      <4>4. <<h, t>> \in value'[q] => version'[q] >= t + 1
        BY <1>4, <1>14, <4>2, <4>3
      <4> QED  BY <4>1, <4>2, <4>3, <4>4
    <3> QED  BY <3>1, <3>2
  <2>2. ASSUME NEW q \in Params, value'[q] # {}
        PROVE  InitialValue \in value'[q] /\ version'[q] >= FirstStep
    <3>1. CASE q = p
      <4>1. InitialValue \in value[p] /\ version[p] >= FirstStep /\ FirstStep \in Nat
        BY <1>4, Assumption DEF StoreInv, ServerInv
      <4> QED  BY <1>4, <1>14, <3>1, <4>1
    <3>2. CASE q # p
      BY <1>14, <2>2, <3>2 DEF StoreInv, ServerInv
    <3> QED  BY <3>1, <3>2
  <2> QED  BY <1>12, <2>1, <2>2 DEF ServerInv, Shares
<1>20. CopyInv'
  BY <1>1, <1>12, <1>13 DEF StoreInv, CopyInv, Shares, Upto
<1>21. ComputeInv' /\ CourseInv'
  BY <1>1, <1>13, QuietCourse DEF StoreInv
<1> QED  BY <1>16, <1>17, <1>18, <1>19, <1>20, <1>21 DEF StoreInv

----------------------------------------------------------------------------
(* The invariant *)

\* At the start there are group 0's Puts and nothing else.
LEMMA InitStore == Init => StoreInv
<1> SUFFICES ASSUME Init PROVE StoreInv
  OBVIOUS
<1>1. /\ NParams \in Nat \ {0} /\ FirstStep \in Nat /\ TrainSteps \in Nat /\ FirstStep < TrainSteps
      /\ 0 \in Groups /\ Worker(0) \in Address /\ InitialValue \notin Groups \X Nat
  BY Assumption, AddressType DEF Groups
<1> DEFINE puts == [i \in 1 .. NParams |-> PutMsg(i - 1)]
<1>2. \A a \in Address : /\ up[a] = IF a = Worker(0) THEN puts ELSE << >>
                         /\ down[a] = << >> /\ bufmsg[a] = << >>
  BY DEF Init, RouterInit
<1>3. hand = << >>
  BY DEF Init, RouterInit
<1>4. Len(puts) = NParams /\ \A i \in 1 .. NParams : puts[i] = PutMsg(i - 1)
  BY <1>1
<1> HIDE DEF puts
<1>5. TypeOK /\ Lines \in [Places -> Seq(Message)]
  BY InitType, LinesType
<1>6. ASSUME NEW c \in DOMAIN Lines, NEW i \in 1 .. Len(Lines[c])
      PROVE  c = Up(Worker(0)) /\ i \in 1 .. NParams /\ Lines[c][i] = PutMsg(i - 1)
  <2>1. c \in Places /\ Lines[c] = Line(c)
    BY <1>5, LinesType
  <2>2. CASE c = Up(Worker(0))
    <3>1. Lines[c] = puts
      BY <1>1, <1>2, <2>1, <2>2, LineOf
    <3> QED  BY <1>4, <2>2, <3>1
  <2>3. CASE c # Up(Worker(0))
    <3>1. Lines[c] = << >>
      <4>1. CASE c = Hand
        BY <1>3, <2>1, <4>1, LineOf
      <4>2. ASSUME NEW a \in Address, c = Up(a) \/ c = Down(a) \/ c = Kept(a)
            PROVE  Lines[c] = << >>
        BY <1>2, <2>1, <2>3, <4>2, LineOf
      <4> QED  BY <2>1, <4>1, <4>2, PlaceCases
    <3> QED  BY <3>1
  <2> QED  BY <2>2, <2>3
<1>7. ASSUME NEW K, Some(Lines, K) PROVE \E p \in Params : PutMsg(p) \in K
  <2>1. PICK c \in DOMAIN Lines : \E i \in 1 .. Len(Lines[c]) : Lines[c][i] \in K
    BY <1>7 DEF Some
  <2>2. PICK i \in 1 .. Len(Lines[c]) : Lines[c][i] \in K
    BY <2>1
  <2>3. i - 1 \in Params
    BY <1>1, <1>6 DEF Params
  <2> QED  BY <1>6, <2>2, <2>3
<1>8. \A g, q, p : PutMsg(p) \notin Concerning(g, q) /\ PutMsg(p) \notin UpdatesOf(g, q)
  BY DEF PutMsg, Concerning, UpdatesOf, AnswersTo
<1>9. \A g, q : ~ Some(Lines, Concerning(g, q)) /\ ~ Some(Lines, UpdatesOf(g, q))
  BY <1>7, <1>8
<1>10. /\ step = [g \in Groups |-> FirstStep] /\ pos = [g \in Groups |-> 1]
       /\ \A g \in Groups : phase[g] = Before(g, FirstStep)
  BY DEF Init
<1>11. ASSUME NEW g \in Groups
       PROVE  phase[g] \in {"test", "forward"} /\ (phase[g] = "test" => g = 0)
  BY <1>1, <1>10 DEF Before, EvaluateNow
<1>12. ASSUME NEW g \in Groups, NEW p
       PROVE  ~ Sent(g, p) /\ LastSent(g, p) = FirstStep - 1
  BY <1>10, <1>11 DEF Sent, LastSent
<1>13. MessagesInv
  <2>1. \A p \in Params : PutMsg(p) \in Expected
    BY MessageTypes DEF Expected, PutMsg, Message, Pings
  <2> QED  BY <1>3, <1>7, <2>1 DEF MessagesInv
<1>14. PutInv
  <2>1. ASSUME NEW p \in Params PROVE AtMostOne(Lines, PutsOf(p))
    <3> SUFFICES ASSUME NEW c \in DOMAIN Lines, NEW d \in DOMAIN Lines,
                        NEW i \in 1 .. Len(Lines[c]), NEW j \in 1 .. Len(Lines[d]),
                        Lines[c][i] \in PutsOf(p), Lines[d][j] \in PutsOf(p)
                 PROVE  c = d /\ i = j
      BY DEF AtMostOne
    <3>1. ASSUME NEW n, PutMsg(n) \in PutsOf(p) PROVE n = p
      <4>1. PutMsg(n).target = n
        BY DEF PutMsg
      <4> QED  BY <3>1, <4>1 DEF PutsOf
    <3>2. c = d /\ i \in 1 .. NParams /\ j \in 1 .. NParams
      BY <1>6
    <3>3. PutMsg(i - 1) \in PutsOf(p) /\ PutMsg(j - 1) \in PutsOf(p)
      BY <1>6
    <3>4. i - 1 = p /\ j - 1 = p
      BY <3>1, <3>3
    <3> QED  BY <1>1, <3>2, <3>4
  <2>2. \A p \in Params : value[p] = {}
    BY DEF Init
  <2> QED  BY <2>1, <2>2 DEF PutInv
<1>15. UpdateInv
  <2>1. \A g, q : AtMostOne(Lines, Concerning(g, q))
    BY <1>9 DEF AtMostOne, Some
  <2> QED  BY <1>1, <1>9, <1>12, <2>1 DEF UpdateInv
<1>16. ServerInv
  BY <1>1, <1>12 DEF ServerInv, Init
<1>17. CopyInv
  <2>1. \A g : Upto(g, FirstStep - 1) = {} /\ Upto(g, FirstStep - 1 - 1) = {}
    BY <1>1 DEF Upto
  <2>2. \A p \in Params : InitialValue \in copy[0][p]
    BY <1>1 DEF Init
  <2> QED  BY <1>12, <2>1, <2>2 DEF CopyInv
<1>18. ComputeInv
  <2>1. \A g \in Groups : Computed(g) = {}
    BY <1>10, <1>11 DEF Computed, Params
  <2> QED  BY <2>1 DEF ComputeInv
<1>19. CourseInv
  BY <1>1, <1>10, <1>11 DEF CourseInv
<1> QED  BY <1>13, <1>14, <1>15, <1>16, <1>17, <1>18, <1>19 DEF StoreInv

\* StoreInv is inductive, given the types and the routing.
LEMMA StoreStep == TypeOK /\ RoutingInv /\ StoreInv /\ [Next]_vars => StoreInv'
<1> SUFFICES ASSUME TypeOK, RoutingInv, StoreInv, [Next]_vars PROVE StoreInv'
  OBVIOUS
<1>1. ASSUME NEW g \in Groups,
             TestPass(g) \/ Collect(g) \/ Forward(g) \/ Backward(g) \/ WorkerInterrupted(g)
      PROVE  StoreInv'
  BY <1>1, ComputingStep, CollectStep, BackwardStep
<1>2. ASSUME NEW i \in 0 .. NServers - 1,
             \/ ServerConnect(i) \/ HandlePut(i) \/ HandleUpdate(i) \/ RequeueUpdate(i)
             \/ ServerInterrupted(i)
      PROVE  StoreInv'
  BY <1>2, QuietSteps, PutStep, UpdateStep
<1>3. CASE (\E a \in Address : StubReceive(a)) \/ StubSend \/ StubInterrupted \/ UNCHANGED vars
  BY <1>3, QuietSteps
<1> QED  BY <1>1, <1>2, <1>3 DEF Next

\* The state is well typed, well routed and accounted for.
SystemInv == TypeOK /\ RoutingInv /\ StoreInv

\* SystemInv holds throughout.
LEMMA SystemCorrect == Spec => []SystemInv
<1>1. Init => SystemInv
  BY InitType, RoutingInit, InitStore DEF SystemInv
<1>2. TypeOK /\ TypeOK' /\ SystemInv /\ [Next]_vars => SystemInv'
  BY RoutingStep, StoreStep DEF SystemInv
<1> QED  BY <1>1, <1>2, TypeCorrect, PTL DEF Spec

----------------------------------------------------------------------------
(* What the invariant says of the messages and of the workers' copies *)

\* A message that concerns group g's update of p is in Concerning(g, p).
LEMMA ConcernsMeans ==
  ASSUME TypeOK, NEW x \in UnderWay, NEW g \in Groups, NEW p \in Params
  PROVE  /\ x = <<x[1], x[2]>> /\ x[1] \in DOMAIN Lines /\ x[2] \in 1 .. Len(Lines[x[1]])
         /\ MessageAt(x) = Lines[x[1]][x[2]] /\ MessageAt(x) \in Message
         /\ Concerns(MessageAt(x), g, p) => MessageAt(x) \in Concerning(g, p)
<1>1. PICK c \in Places : x \in {<<c, i>> : i \in 1 .. Len(Line(c))}
  BY DEF UnderWay
<1>2. PICK i \in 1 .. Len(Line(c)) : x = <<c, i>>
  BY <1>1
<1>3. c \in DOMAIN Lines /\ Lines[c] = Line(c) /\ Lines[c] \in Seq(Message)
  BY LinesType
<1>4. x[1] = c /\ x[2] = i /\ MessageAt(x) = Lines[c][i] /\ Lines[c][i] \in Message
  BY <1>2, <1>3 DEF MessageAt
<1>5. ASSUME Concerns(MessageAt(x), g, p) PROVE MessageAt(x) \in Concerning(g, p)
  BY <1>4, <1>5 DEF Concerns, Concerning, UpdatesOf, AnswersTo, Message, Pings
<1> QED  BY <1>2, <1>3, <1>4, <1>5

\* A group has one update of a parameter under way, however often it bounces
\* (PMServer::HandleUpdate, Trainer::Run).
THEOREM UpdatesSingle == Spec => []OneUpdateUnderWay
<1>1. SystemInv => OneUpdateUnderWay
  <2> SUFFICES ASSUME SystemInv, NEW x \in UnderWay, NEW y \in UnderWay,
                      NEW g \in Groups, NEW p \in Params,
                      Concerns(MessageAt(x), g, p), Concerns(MessageAt(y), g, p)
               PROVE  x = y
    BY DEF OneUpdateUnderWay
  <2>1. TypeOK /\ AtMostOne(Lines, Concerning(g, p))
    BY DEF SystemInv, StoreInv, UpdateInv
  <2>2. x[1] = y[1] /\ x[2] = y[2]
    BY <2>1, ConcernsMeans DEF AtMostOne
  <2> QED  BY <2>1, <2>2, ConcernsMeans
<1> QED  BY <1>1, SystemCorrect, PTL

\* A copy that a worker has computed with since its last update has all of
\* the group's gradients of the earlier steps.
LEMMA ComputedCopies ==
  ASSUME SystemInv, NEW g \in Groups, NEW p \in Computed(g), ~ Shares(g)
  PROVE  p \in Params /\ Upto(g, step[g] - 1) \subseteq copy[g][p]
<1>1. p \in Params
  BY DEF Computed
<1>2. CASE Sent(g, p)
  <2>1. LastSent(g, p) = step[g]
    BY <1>2 DEF LastSent
  <2> QED  BY <1>1, <2>1 DEF SystemInv, StoreInv, CopyInv
<1>3. CASE ~ Sent(g, p)
  <2>1. LastSent(g, p) = step[g] - 1
    BY <1>3 DEF LastSent
  <2>2. ~ Some(Lines, Concerning(g, p))
    BY <1>3 DEF SystemInv, StoreInv, ComputeInv
  <2> QED  BY <1>1, <2>1, <2>2 DEF SystemInv, StoreInv, CopyInv
<1> QED  BY <1>2, <1>3

\* A layer computes with all gradients its group sent for the parameter
\* before (Worker::Collect), in every interleaving with other groups.
THEOREM OwnGradientsRead == Spec => []ReadsOwnGradients
<1>1. SystemInv => ReadsOwnGradients
  <2> SUFFICES ASSUME SystemInv, NEW g \in Groups, NEW p \in Computed(g),
                      NEW s \in FirstStep .. step[g] - 1
               PROVE  <<g, s>> \in copy[g][p]
    BY DEF ReadsOwnGradients
  <2>1. FirstStep \in Nat /\ step[g] \in Nat
    BY Assumption DEF SystemInv, TypeOK, WorkerTypeOK
  <2>2. ~ Shares(g)
    BY <2>1 DEF SystemInv, StoreInv, ComputeInv
  <2>3. <<g, s>> \in Upto(g, step[g] - 1)
    BY <2>1 DEF Upto
  <2> QED  BY <2>2, <2>3, ComputedCopies
<1> QED  BY <1>1, SystemCorrect, PTL

\* Values nobody initialised are computed with in the first step only
\* (Worker::Setup, PMWorker::Collect).
THEOREM InitialValuesRead == Spec => []UninitialisedOnlyAtFirst
<1>1. SystemInv => UninitialisedOnlyAtFirst
  <2> SUFFICES ASSUME SystemInv, NEW g \in Groups, NEW p \in Computed(g),
                      g = 0 \/ step[g] > FirstStep
               PROVE  InitialValue \in copy[DataOf(g)][p]
    BY DEF UninitialisedOnlyAtFirst
  <2>1. p \in Params /\ FirstStep \in Nat /\ step[g] \in Nat
    BY Assumption DEF Computed, SystemInv, TypeOK, WorkerTypeOK
  <2>2. CASE g = 0
    BY <2>1, <2>2 DEF SystemInv, StoreInv, CopyInv, DataOf
  <2>3. CASE step[g] > FirstStep
    <3>1. ~ Shares(g)
      BY <2>1, <2>3 DEF SystemInv, StoreInv, ComputeInv
    <3>2. InitialValue \in Upto(g, step[g] - 1)
      BY <2>1, <2>3, UptoGrows
    <3> QED  BY <3>1, <3>2, ComputedCopies DEF DataOf
  <2> QED  BY <2>2, <2>3
<1> QED  BY <1>1, SystemCorrect, PTL

\* A test pass sees copies at most one step old (Worker::RunOneBatch).
THEOREM TestLag == Spec => []TestLagsOneStep
<1>1. SystemInv => TestLagsOneStep
  <2> SUFFICES ASSUME SystemInv, NEW g \in Groups, phase[g] = "test", NEW p \in Params
               PROVE  {InitialValue} \cup {<<g, s>> : s \in FirstStep .. step[g] - 2}
                        \subseteq copy[g][p]
    BY DEF TestLagsOneStep
  <2>1. g = 0 /\ ~ Shares(g) /\ FirstStep \in Nat /\ step[g] \in Nat
    BY Assumption DEF SystemInv, StoreInv, CourseInv, Shares, TypeOK, WorkerTypeOK
  <2>2. LastSent(g, p) = step[g] - 1
    BY DEF LastSent, Sent
  <2>3. Upto(g, step[g] - 2) \subseteq copy[g][p]
    <3>1. LastSent(g, p) - 1 = step[g] - 2
      BY <2>1, <2>2
    <3>2. Upto(g, LastSent(g, p) - 1) \subseteq copy[g][p]
      BY <2>1 DEF SystemInv, StoreInv, CopyInv
    <3> QED  BY <3>1, <3>2
  <2>4. InitialValue \in copy[g][p]
    BY <2>1 DEF SystemInv, StoreInv, CopyInv
  <2>5. ASSUME NEW s \in FirstStep .. step[g] - 2 PROVE <<g, s>> \in Upto(g, step[g] - 2)
    BY <2>1 DEF Upto
  <2> QED  BY <2>3, <2>4, <2>5
<1> QED  BY <1>1, SystemCorrect, PTL

\* Without hogwild every gradient ends in its parameter, and nothing else.
THEOREM GradientsKept == ~ Hogwild => (Spec => []NothingLost)
<1> SUFFICES ASSUME ~ Hogwild PROVE Spec => []NothingLost
  OBVIOUS
<1>1. SystemInv => NothingLost
  <2> SUFFICES ASSUME SystemInv, \A g \in Groups : phase[g] = "done",
                      \A x \in UnderWay : MessageAt(x).type # "kUpdate", NEW p \in Params
               PROVE  value[p] = {InitialValue} \cup (Groups \X Steps)
    BY DEF NothingLost
  <2>1. /\ FirstStep \in Nat /\ TrainSteps \in Nat /\ FirstStep < TrainSteps /\ 0 \in Groups
        /\ value[p] \in SUBSET Contributions
    BY Assumption DEF SystemInv, TypeOK, ServerTypeOK, Groups
  <2>2. ASSUME NEW g \in Groups PROVE ~ Some(Lines, UpdatesOf(g, p))
    <3> SUFFICES ASSUME Some(Lines, UpdatesOf(g, p)) PROVE FALSE
      OBVIOUS
    <3>1. PICK c \in DOMAIN Lines : \E i \in 1 .. Len(Lines[c]) : Lines[c][i] \in UpdatesOf(g, p)
      BY DEF Some
    <3>2. PICK i \in 1 .. Len(Lines[c]) : Lines[c][i] \in UpdatesOf(g, p)
      BY <3>1
    <3>3. c \in Places /\ Lines[c] = Line(c)
      BY LinesType DEF SystemInv
    <3>4. <<c, i>> \in UnderWay /\ MessageAt(<<c, i>>) = Lines[c][i]
      BY <3>3 DEF UnderWay, MessageAt
    <3> QED  BY <3>2, <3>4 DEF UpdatesOf
  <2>3. ASSUME NEW g \in Groups, NEW s \in Nat PROVE <<g, s>> \in value[p] <=> s \in Steps
    <3>1. LastSent(g, p) = TrainSteps - 1
      BY DEF LastSent, Sent, SystemInv, StoreInv, CourseInv
    <3>2. ~ Shares(g)
      BY DEF Shares
    <3> QED  BY <2>1, <2>2, <3>1, <3>2 DEF SystemInv, StoreInv, ServerInv, Steps
  <2>4. <<0, FirstStep>> \in value[p]
    BY <2>1, <2>3 DEF Steps
  <2>5. InitialValue \in value[p]
    BY <2>4 DEF SystemInv, StoreInv, ServerInv
  <2>6. Steps \subseteq Nat
    BY <2>1 DEF Steps
  <2>7. ASSUME NEW x \in Groups \X Steps PROVE x \in value[p]
    <3>1. PICK g \in Groups, s \in Steps : x = <<g, s>>
      OBVIOUS
    <3> QED  BY <2>3, <2>6, <3>1
  <2>8. ASSUME NEW x \in value[p], x # InitialValue PROVE x \in Groups \X Steps
    <3>1. x \in Groups \X Nat
      BY <2>1, <2>6, <2>8 DEF Contributions
    <3>2. PICK g \in Groups, s \in Nat : x = <<g, s>>
      BY <3>1
    <3> QED  BY <2>3, <2>8, <3>2
  <2> QED  BY <2>5, <2>7, <2>8
<1> QED  BY <1>1, SystemCorrect, PTL

----------------------------------------------------------------------------
(* The refinement *)

\* Whatever HandleUpdate applies is the next gradient its parameter may take.
LEMMA UpdateApplies ==
  ASSUME SystemInv, NEW i \in 0 .. NServers - 1, HandleUpdate(i)
  PROVE  Store!Next
<1> DEFINE m == Head(down[Server(i)])
<1>1. PICK g \in Groups, p \in Params : \E t \in Nat :
           /\ t = LastSent(g, p) /\ t >= FirstStep /\ ~ Shares(g)
           /\ m = UpdateMsg(g, p, t) /\ m \in UpdatesOf(g, p) /\ Some(Lines, UpdatesOf(g, p))
           /\ value[p] # {} /\ <<g, t>> \notin value[p] /\ t <= version[p]
           /\ version[p] \in Nat
           /\ value'   = [value EXCEPT ![p] = @ \cup {<<g, t>>}]
           /\ version' = [version EXCEPT ![p] = @ + 1]
           /\ Answer(g, p, t) \in AnswersTo(g, p)
           /\ DealerSend(Server(i), Answer(g, p, t))
  BY UpdateArrives DEF SystemInv
<1> DEFINE s == LastSent(g, p)
<1>2. /\ s \in Nat /\ s >= FirstStep /\ ~ Shares(g)
      /\ value[p] # {} /\ <<g, s>> \notin value[p]
      /\ value'   = [value EXCEPT ![p] = @ \cup {<<g, s>>}]
      /\ version' = [version EXCEPT ![p] = @ + 1]
  BY <1>1
<1>3. /\ step[g] \in Nat /\ step[g] <= TrainSteps /\ FirstStep \in Nat /\ TrainSteps \in Nat
      /\ phase[g] = "backward" => step[g] < TrainSteps
  BY Assumption DEF SystemInv, TypeOK, WorkerTypeOK, StoreInv, CourseInv
<1>4. s \in FirstStep .. TrainSteps - 1
  BY <1>2, <1>3 DEF LastSent, Sent
<1>5. ASSUME NEW q \in Params, s # FirstStep PROVE <<g, s - 1>> \in value[q]
  <2>1. s - 1 \in Nat /\ s - 1 \in FirstStep .. LastSent(g, q)
    BY <1>2, <1>3, <1>5 DEF LastSent
  <2>2. ASSUME s - 1 = LastSent(g, q) PROVE ~ Some(Lines, UpdatesOf(g, q))
    <3>1. Sent(g, p) /\ ~ Sent(g, q)
      BY <1>2, <1>3, <2>2 DEF LastSent
    <3>2. q \in Computed(g)
      BY <3>1 DEF Sent, Computed
    <3>3. ~ Some(Lines, Concerning(g, q))
      BY <3>1, <3>2 DEF SystemInv, StoreInv, ComputeInv
    <3> QED  BY <3>3, SetsType, Monotone
  <2> QED  BY <1>2, <2>1, <2>2 DEF SystemInv, StoreInv, ServerInv
<1> HIDE DEF s
<1>6. Store!Apply(g, s, p)
  BY <1>2, <1>5 DEF Store!Apply, Store!Due
<1> QED  BY <1>4, <1>6 DEF Store!Next

\* The parameter servers implement the abstract store: one value placed
\* once, each gradient applied once, a group's steps in order over all
\* parameters, whatever the router bounces and however the groups interleave.
THEOREM StoreImplemented == Spec => ImplementsParamStore
<1>1. Init => Store!Init
  BY DEF Init, Store!Init
<1>2. SystemInv /\ [Next]_vars => [Store!Next]_<<value, version>>
  <2> SUFFICES ASSUME SystemInv, [Next]_vars
               PROVE  Store!Next \/ UNCHANGED <<value, version>>
    OBVIOUS
  <2>1. ASSUME NEW i \in 0 .. NServers - 1, HandlePut(i) PROVE Store!Next
    <3>1. PICK p \in Params : /\ value[p] = {}
                              /\ value'   = [value EXCEPT ![p] = {InitialValue}]
                              /\ version' = [version EXCEPT ![p] = FirstStep]
      BY <2>1, PutStep DEF SystemInv
    <3>2. Store!Place(p)
      BY <3>1 DEF Store!Place
    <3> QED  BY <3>2 DEF Store!Next
  <2>2. ASSUME NEW i \in 0 .. NServers - 1, HandleUpdate(i) PROVE Store!Next
    BY <2>2, UpdateApplies
  <2>3. ASSUME NEW i \in 0 .. NServers - 1,
               ServerConnect(i) \/ RequeueUpdate(i) \/ ServerInterrupted(i)
        PROVE  UNCHANGED <<value, version>>
    BY <2>3 DEF ServerConnect, RequeueUpdate, ServerInterrupted, servervars
  <2>4. ASSUME NEW g \in Groups,
               TestPass(g) \/ Collect(g) \/ Forward(g) \/ Backward(g) \/ WorkerInterrupted(g)
        PROVE  UNCHANGED <<value, version>>
    BY <2>4 DEF TestPass, Collect, Forward, Backward, WorkerInterrupted, servervars
  <2>5. CASE (\E a \in Address : StubReceive(a)) \/ StubSend \/ StubInterrupted \/ UNCHANGED vars
    BY <2>5 DEF StubReceive, StubSend, StubInterrupted, servervars, vars
  <2> QED  BY <2>1, <2>2, <2>3, <2>4, <2>5 DEF Next
<1> QED  BY <1>1, <1>2, SystemCorrect, PTL DEF Spec, ImplementsParamStore, Store!Spec

----------------------------------------------------------------------------
(* The CHECKs                                                              *)
(*                                                                         *)
(* The count of kept messages is never lowered by a flush, so it is        *)
(* bounded only because few messages can ever be kept: a Put of each       *)
(* parameter, and one update of each group and parameter, since a worker   *)
(* that waits for the answer to its first sends no second.  Each of them   *)
(* is a ticket; a ticket is used once its message is kept, and stays used  *)
(* when the flush has emptied the buffer.                                  *)

Tickets == (0 .. NGroups) \X Params

\* What ticket t admits: group t[1]'s updates of t[2], or the Put of t[2].
Admitted(t) == IF t[1] = NGroups THEN PutsOf(t[2]) ELSE UpdatesOf(t[1], t[2])

Used(t) ==
  LET a == Server(Sharding(t[2])) IN
  Known(a) \/ \E i \in 1 .. Len(bufmsg[a]) : bufmsg[a][i] \in Admitted(t)

UsedTickets == {t \in Tickets : Used(t)}

\* The answers on their way to group g.
AnswersFor(g) == {m \in Requests : m.type = "kRUpdate" /\ m.dst = Worker(g)}

\* No answer is kept: who is answered has sent something.
AnswersInv == \A g \in Groups : Some(Lines, AnswersFor(g)) => Known(Worker(g))

TicketsInv == nBufmsg <= Cardinality(UsedTickets)

\* A group that shares its values counts from 0.
CounterInv ==
  \A g \in Groups, p \in Params : Shares(g) /\ LastSent(g, p) < FirstStep => nGet[g][p] = 0

ChecksInv == AnswersInv /\ TicketsInv /\ CounterInv /\ NoCheckFails

\* The buffer has room for a Put of each parameter and a first update of
\* each by each group.
Roomy == (NGroups + 1) * NParams <= BufSize

\* Every pass that is configured has steps.
PassesHaveSteps == \A e \in Passes : e.frequency > 0 => e.steps > 0

\* The count of a first gradient is not its step, so none is sent.
CounterMisses == Hogwild => FirstStep # 1

\* There are as many tickets as messages that may be kept.
LEMMA TicketCount ==
  /\ IsFiniteSet(Tickets)
  /\ Cardinality(Tickets) = (NGroups + 1) * NParams
<1>1. /\ NGroups \in Nat /\ NParams \in Nat /\ NParams # 0 /\ 0 \in Int /\ NGroups \in Int
      /\ NParams - 1 \in Int
  BY Assumption
<1>2. IsFiniteSet(0 .. NGroups) /\ Cardinality(0 .. NGroups) = NGroups + 1
  BY <1>1, FS_Interval
<1>3. IsFiniteSet(Params) /\ Cardinality(Params) = NParams
  BY <1>1, FS_Interval DEF Params
<1> QED  BY <1>2, <1>3, FS_Product DEF Tickets

\* The used tickets are counted.
LEMMA UsedCount ==
  /\ IsFiniteSet(UsedTickets) /\ Cardinality(UsedTickets) \in Nat
  /\ Cardinality(UsedTickets) <= (NGroups + 1) * NParams
<1>1. UsedTickets \in SUBSET Tickets
  BY DEF UsedTickets
<1> QED  BY <1>1, TicketCount, FS_Subset, FS_CardinalityType

\* The router forgets no address, and keeps what it keeps until the address
\* is known.
LEMMA TableGrows ==
  ASSUME TypeOK, [Next]_vars, NEW a \in Address
  PROVE  /\ Known(a) => Known(a)'
         /\ \/ bufmsg'[a] = bufmsg[a]
            \/ Known(a)'
            \/ \E m \in Message : bufmsg'[a] = Append(bufmsg[a], m)
<1>1. /\ id2addr \in [Address -> Address \cup {Nil}] /\ bufmsg \in [Address -> Seq(Message)]
      /\ up \in [Address -> Seq(Message)] /\ hand \in Seq(Message)
  BY DEF TypeOK, FabricTypeOK
<1>2. ASSUME UNCHANGED <<id2addr, bufmsg>>
      PROVE  (Known(a) => Known(a)') /\ bufmsg'[a] = bufmsg[a]
  BY <1>2 DEF Known
<1>3. ASSUME NEW d \in Address, RouterReceive(d)
      PROVE  (Known(a) => Known(a)') /\ (bufmsg'[a] = bufmsg[a] \/ Known(a)')
  <2> DEFINE m == Head(up[d])
  <2>1. m.src \in Address /\ Nil \notin Address
    <3>1. up[d] # << >> /\ up[d] \in Seq(Message)
      BY <1>1, <1>3 DEF RouterReceive
    <3>2. m \in Message
      BY <3>1, SeqFacts
    <3> QED  BY <3>2, MessageFields, Assumption
  <2>2. CASE Unlearnt(m.src)
    <3>1. /\ id2addr' = [id2addr EXCEPT ![m.src] = d]
          /\ bufmsg'  = [bufmsg EXCEPT ![m.src] = << >>]
      BY <1>3, <2>2 DEF RouterReceive
    <3> HIDE DEF m
    <3> QED  BY <1>1, <2>1, <3>1 DEF Known
  <2>3. CASE ~ Unlearnt(m.src)
    BY <1>2, <1>3, <2>3 DEF RouterReceive
  <2> QED  BY <2>2, <2>3
<1>4. ASSUME StubDispatch
      PROVE  /\ Known(a) => Known(a)'
             /\ \/ bufmsg'[a] = bufmsg[a]
                \/ \E m \in Message : bufmsg'[a] = Append(bufmsg[a], m)
  <2> DEFINE m == Head(hand)
  <2>1. m \in Message /\ id2addr' = id2addr
    BY <1>1, <1>4, SeqFacts DEF StubDispatch
  <2>2. bufmsg' = bufmsg \/ bufmsg' = [bufmsg EXCEPT ![m.dst] = Append(@, m)]
    BY <1>4 DEF StubDispatch, RouterSend
  <2> HIDE DEF m
  <2> QED  BY <1>1, <2>1, <2>2 DEF Known
<1>5. CASE UNCHANGED <<id2addr, bufmsg>>
  BY <1>2, <1>5
<1>6. CASE (\E d \in Address : RouterReceive(d)) \/ StubDispatch
  BY <1>3, <1>4, <1>6
<1>7. CASE Next
  <2>1. ASSUME NEW g \in Groups,
               \/ TestPass(g) \/ Collect(g) \/ Forward(g) \/ Backward(g)
               \/ WorkerInterrupted(g)
        PROVE  UNCHANGED <<id2addr, bufmsg>>
    BY <2>1 DEF TestPass, Collect, Forward, Backward, WorkerInterrupted, fabricvars
  <2>2. ASSUME NEW i \in 0 .. NServers - 1,
               \/ ServerConnect(i) \/ HandlePut(i) \/ HandleUpdate(i) \/ RequeueUpdate(i)
               \/ ServerInterrupted(i)
        PROVE  UNCHANGED <<id2addr, bufmsg>>
    BY <2>2 DEF ServerConnect, HandlePut, HandleUpdate, RequeueUpdate, ServerInterrupted, fabricvars
  <2>3. CASE StubInterrupted
    BY <1>5, <2>3 DEF StubInterrupted
  <2> QED  BY <1>5, <1>6, <1>7, <2>1, <2>2, <2>3 DEF Next, StubReceive, StubSend
<1>8. CASE UNCHANGED vars
  BY <1>5, <1>8 DEF vars, fabricvars
<1> QED  BY <1>7, <1>8

\* A used ticket stays used.
LEMMA TicketsStay ==
  ASSUME TypeOK, [Next]_vars
  PROVE  UsedTickets \subseteq UsedTickets'
<1> SUFFICES ASSUME NEW t \in Tickets, Used(t) PROVE Used(t)'
  BY DEF UsedTickets
<1> DEFINE a == Server(Sharding(t[2]))
<1>1. a \in Address
  BY ShardingType, AddressType DEF Tickets
<1>2. Known(a) \/ \E i \in 1 .. Len(bufmsg[a]) : bufmsg[a][i] \in Admitted(t)
  BY DEF Used
<1>3. Known(a)' \/ \E i \in 1 .. Len(bufmsg'[a]) : bufmsg'[a][i] \in Admitted(t)
  <2> HIDE DEF a
  <2>1. CASE Known(a)
    BY <1>1, <2>1, TableGrows
  <2>2. ASSUME NEW i \in 1 .. Len(bufmsg[a]), bufmsg[a][i] \in Admitted(t),
               NEW m \in Message, bufmsg'[a] = Append(bufmsg[a], m)
        PROVE  \E j \in 1 .. Len(bufmsg'[a]) : bufmsg'[a][j] \in Admitted(t)
    <3>1. bufmsg[a] \in Seq(Message)
      BY <1>1 DEF TypeOK, FabricTypeOK
    <3>2. i \in 1 .. Len(bufmsg'[a]) /\ bufmsg'[a][i] = bufmsg[a][i]
      BY <2>2, <3>1, AppendProperties
    <3> QED  BY <2>2, <3>2
  <2> QED  BY <1>1, <1>2, <2>1, <2>2, TableGrows
<1> QED  BY <1>3 DEF Used, Admitted, PutsOf, UpdatesOf

\* An answer is made for a worker whose request has come through the router.
LEMMA AnswersStep ==
  ASSUME SystemInv, AnswersInv, [Next]_vars
  PROVE  AnswersInv'
<1>1. TypeOK /\ RoutingInv /\ StoreInv /\ Lines \in [Places -> Seq(Message)]
  BY LinesType DEF SystemInv
<1>2. \A h : AnswersFor(h) \in SUBSET Requests
  BY DEF AnswersFor
<1>3. SUFFICES ASSUME NEW h \in Groups, Some(Lines', AnswersFor(h)), ~ Some(Lines, AnswersFor(h))
               PROVE  Known(Worker(h))'
  BY <1>1, AddressType, TableGrows DEF AnswersInv
<1>4. ASSUME Quiet \/ Lines' = Lines PROVE FALSE
  BY <1>2, <1>3, <1>4 DEF Quiet, Moved
<1>5. ASSUME NEW a \in Address, DealerReceive(a), UNCHANGED <<up, bufmsg, hand>> PROVE FALSE
  <2>1. Lines' = Take(Lines, Down(a)) /\ Down(a) \in Places /\ Lines[Down(a)] # << >>
    BY <1>1, <1>5, PipeLines, PlaceCases, LinesType, LineOf DEF DealerReceive
  <2> QED  BY <1>1, <1>3, <2>1, Taken
<1>6. ASSUME NEW g \in Groups, Collect(g) PROVE FALSE
  BY <1>5, <1>6, AddressType DEF Collect
<1>7. ASSUME NEW g \in Groups, Backward(g) PROVE FALSE
  <2>1. PICK p \in Params : p = BackwardOrder[pos[g]]
    BY <1>1, <1>7, BackwardSends
  <2>2. /\ Worker(g) \in Address /\ Up(Worker(g)) \in Places
        /\ UNCHANGED <<down, bufmsg, hand>>
    BY <1>7, AddressType, PlaceCases DEF Backward
  <2>3. CASE Shares(g)
    BY <1>1, <1>4, <1>7, <2>2, <2>3, PipeLines DEF Backward, CountUpdate
  <2>4. CASE ~ Shares(g)
    <3> DEFINE m == UpdateMsg(g, p, step[g])
    <3>1. m \in Message /\ m \notin AnswersFor(h)
      BY <1>1, MessageTypes DEF TypeOK, WorkerTypeOK, UpdateMsg, AnswersFor
    <3>2. DealerSend(Worker(g), m)
      BY <1>7, <2>1, <2>4 DEF Backward, SendUpdate
    <3> HIDE DEF m
    <3>3. Lines' = Add(Lines, Up(Worker(g)), m)
      BY <1>1, <2>2, <3>2, PipeLines
    <3> QED  BY <1>1, <1>3, <2>2, <3>1, <3>3, Added
  <2> QED  BY <2>3, <2>4
<1>8. ASSUME NEW i \in 0 .. NServers - 1, HandlePut(i) PROVE FALSE
  BY <1>5, <1>8, AddressType DEF HandlePut, ServerTakes
<1>9. ASSUME NEW i \in 0 .. NServers - 1, HandleUpdate(i) PROVE Known(Worker(h))'
  <2> DEFINE a == Server(i)
  <2>1. PICK m : m = Head(down[a])
    OBVIOUS
  <2>2. /\ a \in Address /\ DealerReceive(a) /\ UNCHANGED <<bufmsg, hand>>
        /\ Up(a) \in Places /\ Down(a) \in Places
    BY <1>9, AddressType, PlaceCases DEF HandleUpdate, ServerTakes
  <2>3. PICK g \in Groups, p \in Params : \E s \in Nat :
          /\ m = UpdateMsg(g, p, s) /\ Answer(g, p, s) \in AnswersTo(g, p)
          /\ DealerSend(a, Answer(g, p, s))
    BY <1>1, <1>9, <2>1, UpdateArrives
  <2>4. PICK s \in Nat :
          /\ m = UpdateMsg(g, p, s) /\ Answer(g, p, s) \in AnswersTo(g, p)
          /\ DealerSend(a, Answer(g, p, s))
    BY <2>3
  <2> HIDE DEF a
  <2>5. m.src = Worker(g) /\ Known(m.src)
    <3>1. m \in Routed(a)
      BY <1>1, <2>1, <2>2, PipesRouted
    <3> QED  BY <2>4, <3>1 DEF Routed, UpdateMsg
  <2>6. PICK ans : ans = Answer(g, p, s)
    OBVIOUS
  <2>7. ans \in Message /\ ans.dst = Worker(g)
    BY <2>4, <2>6 DEF AnswersTo, Message
  <2>8. Lines' = Add(Take(Lines, Down(a)), Up(a), ans)
    BY <1>1, <2>2, <2>4, <2>6, PipeLines
  <2>9. Lines[Down(a)] # << >>
    BY <1>1, <2>2, LinesType, LineOf DEF DealerReceive
  <2>10. ans \in AnswersFor(h)
    <3>1. /\ Take(Lines, Down(a)) \in [Places -> Seq(Message)]
          /\ ~ Some(Take(Lines, Down(a)), AnswersFor(h))
      BY <1>1, <1>3, <2>2, <2>9, Taken
    <3> QED  BY <1>3, <2>2, <2>7, <2>8, <3>1, Added
  <2>11. h = g
    BY <2>7, <2>10, AddressesDiffer DEF AnswersFor
  <2> QED  BY <1>1, <2>5, <2>11, AddressType, TableGrows
<1>10. ASSUME NEW g \in Groups, TestPass(g) \/ Forward(g) \/ WorkerInterrupted(g) PROVE FALSE
  BY <1>1, <1>4, <1>10, ComputingStep
<1>11. ASSUME \/ \E i \in 0 .. NServers - 1 :
                   ServerConnect(i) \/ RequeueUpdate(i) \/ ServerInterrupted(i)
              \/ \E a \in Address : StubReceive(a)
              \/ StubSend \/ StubInterrupted \/ UNCHANGED vars
       PROVE  FALSE
  BY <1>1, <1>4, <1>11, QuietSteps
<1> QED  BY <1>6, <1>7, <1>8, <1>9, <1>10, <1>11 DEF Next

\* The count of a group that shares its values is raised when it has sent,
\* or would have sent, its first update.
LEMMA CounterStep ==
  ASSUME SystemInv, CounterInv, [Next]_vars
  PROVE  CounterInv'
<1>1. TypeOK /\ RoutingInv /\ StoreInv
  BY DEF SystemInv
<1>2. ASSUME UNCHANGED nGet, \A g \in Groups, p \in Params : LastSent(g, p)' = LastSent(g, p)
      PROVE  CounterInv'
  BY <1>2 DEF CounterInv, Shares
<1>3. ASSUME UNCHANGED <<nGet, phase, step, pos>> PROVE CounterInv'
  BY <1>2, <1>3, SameCourse
<1>4. ASSUME NEW g \in Groups, Backward(g) PROVE CounterInv'
  <2>1. PICK p \in Params : p = BackwardOrder[pos[g]]
    BY <1>1, <1>4, BackwardSends
  <2>2. /\ \A h \in Groups, q \in Params : h # g \/ q # p => LastSent(h, q)' = LastSent(h, q)
        /\ LastSent(g, p)' = step[g]
    BY <1>1, <1>4, <2>1, BackwardSends
  <2>3. \A h \in Groups, q \in Params : h # g \/ q # p => nGet'[h][q] = nGet[h][q]
    BY <1>1, <1>4, <2>1 DEF Backward, CountUpdate, SendUpdate, TypeOK, WorkerTypeOK
  <2>4. step[g] \in Nat /\ FirstStep \in Nat /\ step[g] >= FirstStep
    BY <1>1, Assumption DEF TypeOK, WorkerTypeOK, StoreInv, CourseInv
  <2> QED  BY <2>2, <2>3, <2>4 DEF CounterInv, Shares
<1>5. ASSUME NEW g \in Groups, Collect(g) PROVE CounterInv'
  BY <1>3, <1>5 DEF Collect
<1>6. ASSUME NEW i \in 0 .. NServers - 1, HandlePut(i) \/ HandleUpdate(i) PROVE CounterInv'
  BY <1>3, <1>6 DEF HandlePut, HandleUpdate, workervars
<1>7. ASSUME NEW g \in Groups, TestPass(g) \/ Forward(g) \/ WorkerInterrupted(g) PROVE CounterInv'
  <2>1. UNCHANGED nGet
    BY <1>7 DEF TestPass, Forward, WorkerInterrupted
  <2> QED  BY <1>1, <1>2, <1>7, <2>1, ComputingStep
<1>8. ASSUME \/ \E i \in 0 .. NServers - 1 :
                  ServerConnect(i) \/ RequeueUpdate(i) \/ ServerInterrupted(i)
             \/ \E a \in Address : StubReceive(a)
             \/ StubSend \/ StubInterrupted \/ UNCHANGED vars
      PROVE  CounterInv'
  <2>1. UNCHANGED nGet
    BY <1>8 DEF ServerConnect, RequeueUpdate, ServerInterrupted, StubReceive, StubSend,
                StubInterrupted, workervars, vars
  <2> QED  BY <1>1, <1>2, <1>8, <2>1, QuietSteps
<1> QED  BY <1>4, <1>5, <1>6, <1>7, <1>8 DEF Next

\* What the stub cannot pass on uses a ticket that was not used before: the
\* only other message the ticket admits would be the one in hand.
LEMMA KeepingUses ==
  ASSUME SystemInv, AnswersInv, StubDispatch, NEW m, m = Head(hand), m.dst # Stub, ~ Known(m.dst)
  PROVE  \E t \in Tickets : ~ Used(t) /\ Used(t)'
<1>1. TypeOK /\ StoreInv /\ Lines \in [Places -> Seq(Message)] /\ Hand \in Places
  BY LinesType, PlaceCases DEF SystemInv
<1>2. /\ hand \in Seq(Message) /\ hand # << >> /\ 1 \in 1 .. Len(hand) /\ hand[1] = m
      /\ m \in Message
  <2>1. hand \in Seq(Message) /\ hand # << >>
    BY <1>1 DEF TypeOK, FabricTypeOK, StubDispatch
  <2> QED  BY <2>1, HeadTailProperties, EmptySeq, SeqFacts
<1>3. /\ Lines[Hand] # << >> /\ Head(Lines[Hand]) = m /\ DOMAIN Lines = Places
      /\ Lines[Hand] = hand
  BY <1>1, <1>2, LinesType, LineOf
<1>4. m \in Expected /\ m \in Requests
  <2>1. m \in Requests
    BY <1>2 DEF Message, Pings
  <2>2. m \notin Requests \ Expected
    BY <1>1, <1>3, Taken DEF StoreInv, MessagesInv
  <2> QED  BY <2>1, <2>2
<1>5. ASSUME NEW t \in Tickets, m \in Admitted(t), m.dst = Server(Sharding(t[2])),
             AtMostOne(Lines, Admitted(t))
      PROVE  ~ Used(t) /\ Used(t)'
  <2>0. PICK a \in Address : a = Server(Sharding(t[2]))
    BY ShardingType, AddressType DEF Tickets
  <2>1. bufmsg \in [Address -> Seq(Message)] /\ bufmsg[a] \in Seq(Message)
    BY <1>1 DEF TypeOK, FabricTypeOK
  <2>2. ASSUME NEW i \in 1 .. Len(bufmsg[a]), bufmsg[a][i] \in Admitted(t) PROVE FALSE
    <3>1. Lines[Kept(a)] = bufmsg[a] /\ Kept(a) \in Places /\ Kept(a) # Hand
      BY <1>1, LinesType, PlaceCases, PlacesDiffer, LineOf
    <3>2. /\ i \in 1 .. Len(Lines[Kept(a)]) /\ Lines[Kept(a)][i] \in Admitted(t)
          /\ 1 \in 1 .. Len(Lines[Hand]) /\ Lines[Hand][1] \in Admitted(t)
      BY <1>2, <1>3, <1>5, <2>2, <3>1
    <3>3. Kept(a) \in DOMAIN Lines /\ Hand \in DOMAIN Lines
      BY <1>1, <1>3, <3>1
    <3> QED  BY <1>5, <3>1, <3>2, <3>3 DEF AtMostOne
  <2>3. ~ Used(t)
    BY <1>5, <2>0, <2>2 DEF Used
  <2>4. bufmsg'[a] = Append(bufmsg[a], m)
    BY <1>5, <2>0, <2>1 DEF StubDispatch, RouterSend
  <2>5. Len(bufmsg'[a]) \in 1 .. Len(bufmsg'[a]) /\ bufmsg'[a][Len(bufmsg'[a])] = m
    BY <1>2, <2>1, <2>4, AppendProperties
  <2>6. Admitted(t)' = Admitted(t)
    BY DEF Admitted, PutsOf, UpdatesOf
  <2> QED  BY <1>5, <2>0, <2>3, <2>5, <2>6 DEF Used
<1>6. ASSUME NEW p \in Params, m = PutMsg(p)
      PROVE  \E t \in Tickets : ~ Used(t) /\ Used(t)'
  <2> DEFINE t == <<NGroups, p>>
  <2>1. t \in Tickets /\ Admitted(t) = PutsOf(p) /\ t[2] = p
    BY Assumption DEF Tickets, Admitted
  <2>2. m \in PutsOf(p) /\ m.dst = Server(Sharding(p))
    BY <1>4, <1>6 DEF PutsOf, PutMsg
  <2>3. AtMostOne(Lines, PutsOf(p))
    BY <1>1 DEF StoreInv, PutInv
  <2> HIDE DEF t
  <2> QED  BY <1>5, <2>1, <2>2, <2>3
<1>7. ASSUME NEW g \in Groups, NEW p \in Params, m = UpdateMsg(g, p, LastSent(g, p))
      PROVE  \E t \in Tickets : ~ Used(t) /\ Used(t)'
  <2> DEFINE t == <<g, p>>
  <2>1. t \in Tickets /\ Admitted(t) = UpdatesOf(g, p) /\ t[2] = p
    BY Assumption DEF Tickets, Admitted, Groups
  <2>2. m \in UpdatesOf(g, p) /\ m.dst = Server(Sharding(p))
    BY <1>4, <1>7 DEF UpdatesOf, UpdateMsg
  <2>3. AtMostOne(Lines, UpdatesOf(g, p))
    BY <1>1, SetsType, Monotone DEF StoreInv, UpdateInv
  <2> HIDE DEF t
  <2> QED  BY <1>5, <2>1, <2>2, <2>3
<1>8. ASSUME NEW g \in Groups, NEW p \in Params, m \in AnswersTo(g, p) PROVE FALSE
  <2>1. m \in AnswersFor(g) /\ m.dst = Worker(g)
    BY <1>8 DEF AnswersTo, AnswersFor
  <2>2. Some(Lines, AnswersFor(g))
    BY <1>2, <1>3, <1>1, <2>1 DEF Some
  <2> QED  BY <2>1, <2>2 DEF AnswersInv
<1> QED  BY <1>4, <1>6, <1>7, <1>8 DEF Expected

\* Each message that is kept is counted once, and uses a ticket of its own.
LEMMA TicketsStep ==
  ASSUME SystemInv, AnswersInv, TicketsInv, [Next]_vars
  PROVE  TicketsInv'
<1>1. TypeOK /\ nBufmsg \in Nat /\ UsedTickets \subseteq UsedTickets'
  BY TicketsStay DEF SystemInv, TypeOK, FabricTypeOK
<1>2. /\ IsFiniteSet(UsedTickets) /\ Cardinality(UsedTickets) \in Nat
      /\ IsFiniteSet(UsedTickets') /\ Cardinality(UsedTickets') \in Nat
  <2>1. UsedTickets' \in SUBSET Tickets
    BY DEF UsedTickets, Tickets
  <2> QED  BY <2>1, UsedCount, TicketCount, FS_Subset, FS_CardinalityType
<1>3. Cardinality(UsedTickets) <= Cardinality(UsedTickets')
  BY <1>1, <1>2, FS_Subset
<1>4. CASE UNCHANGED nBufmsg
  BY <1>1, <1>2, <1>3, <1>4 DEF TicketsInv
<1>5. CASE StubDispatch /\ nBufmsg' # nBufmsg
  <2>1. PICK m : m = Head(hand)
    OBVIOUS
  <2>2. m.dst # Stub /\ ~ Known(m.dst) /\ nBufmsg' = CountAfterPush
    BY <1>5, <2>1 DEF StubDispatch, RouterSend
  <2>3. PICK t \in Tickets : ~ Used(t) /\ Used(t)'
    BY <1>5, <2>1, <2>2, KeepingUses
  <2>4. t \notin UsedTickets /\ t \in UsedTickets'
    BY <2>3 DEF UsedTickets, Tickets
  <2>5. Cardinality(UsedTickets) + 1 <= Cardinality(UsedTickets')
    <3>1. Cardinality(UsedTickets \cup {t}) = Cardinality(UsedTickets) + 1
      BY <1>2, <2>4, FS_AddElement
    <3>2. (UsedTickets \cup {t}) \in SUBSET UsedTickets'
      BY <1>1, <2>4
    <3> QED  BY <1>2, <3>1, <3>2, FS_Subset
  <2>6. CountAfterPush <= Cardinality(UsedTickets) + 1 /\ CountAfterPush \in Nat
    BY <1>1, <1>2 DEF CountAfterPush, TicketsInv
  <2> QED  BY <1>2, <2>2, <2>5, <2>6 DEF TicketsInv
<1>6. UNCHANGED nBufmsg \/ StubDispatch
  <2>1. ASSUME NEW g \in Groups,
               \/ TestPass(g) \/ Collect(g) \/ Forward(g) \/ Backward(g)
               \/ WorkerInterrupted(g)
        PROVE  UNCHANGED nBufmsg
    BY <2>1 DEF TestPass, Collect, Forward, Backward, WorkerInterrupted, fabricvars
  <2>2. ASSUME NEW i \in 0 .. NServers - 1,
               \/ ServerConnect(i) \/ HandlePut(i) \/ HandleUpdate(i) \/ RequeueUpdate(i)
               \/ ServerInterrupted(i)
        PROVE  UNCHANGED nBufmsg
    BY <2>2 DEF ServerConnect, HandlePut, HandleUpdate, RequeueUpdate, ServerInterrupted, fabricvars
  <2>3. ASSUME (\E a \in Address : StubReceive(a)) \/ StubInterrupted \/ UNCHANGED vars
        PROVE  UNCHANGED nBufmsg
    BY <2>3 DEF StubReceive, RouterReceive, StubInterrupted, vars, fabricvars
  <2> QED  BY <2>1, <2>2, <2>3 DEF Next, StubSend
<1> QED  BY <1>4, <1>5, <1>6

\* Every CHECK of the router, the servers and the workers is passed: the
\* count fits its buffer, a gradient is of a version the server has, a pass
\* that is due has a net, and no shared parameter sends a gradient.
LEMMA CheckStep ==
  ASSUME Roomy, PassesHaveSteps, CounterMisses, SystemInv, ChecksInv, [Next]_vars
  PROVE  NoCheckFails'
<1>1. TypeOK /\ RoutingInv /\ StoreInv /\ process # "aborted" /\ TicketsInv'
  BY TicketsStep DEF SystemInv, ChecksInv, NoCheckFails
<1>2. ASSUME process' = process \/ process' = "exited" PROVE NoCheckFails'
  BY <1>1, <1>2 DEF NoCheckFails
<1>3. ASSUME NEW g \in Groups, TestPass(g) PROVE NoCheckFails'
  <2>1. \A e \in Passes : Due(e, step[g]) => e.steps > 0
    BY DEF PassesHaveSteps, Due
  <2> QED  BY <1>2, <1>3, <2>1 DEF TestPass
<1>4. ASSUME NEW g \in Groups, Backward(g) PROVE NoCheckFails'
  <2>1. PICK p \in Params : p = BackwardOrder[pos[g]]
    BY <1>1, <1>4, BackwardSends
  <2>2. phase[g] = "backward" /\ LastSent(g, p) = step[g] - 1
    BY <1>1, <1>4, <2>1, BackwardSends
  <2>3. CASE Shares(g)
    <3>1. step[g] = FirstStep /\ FirstStep \in Nat /\ FirstStep # 1
      BY <1>1, <2>2, <2>3, Assumption DEF StoreInv, ComputeInv, Computed, CounterMisses, Shares
    <3>2. nGet[g][p] = 0
      BY <2>2, <2>3, <3>1 DEF ChecksInv, CounterInv
    <3>3. nGet[g][p] + 1 # step[g]
      BY <3>1, <3>2
    <3> QED  BY <1>2, <1>4, <2>1, <2>3, <3>3 DEF Backward, CountUpdate
  <2>4. CASE ~ Shares(g)
    BY <1>2, <1>4, <2>4 DEF Backward, SendUpdate
  <2> QED  BY <2>3, <2>4
<1>5. ASSUME NEW i \in 0 .. NServers - 1, HandleUpdate(i) PROVE NoCheckFails'
  <2>1. PICK m : m = Head(down[Server(i)])
    OBVIOUS
  <2>2. PICK g \in Groups, p \in Params : \E s \in Nat : m = UpdateMsg(g, p, s) /\ s <= version[p]
    BY <1>1, <1>5, <2>1, UpdateArrives
  <2>3. m.v <= version[m.target]
    BY <2>2 DEF UpdateMsg
  <2> QED  BY <1>2, <1>5, <2>1, <2>3 DEF HandleUpdate
<1>6. ASSUME StubDispatch PROVE NoCheckFails'
  <2>1. PICK m : m = Head(hand)
    OBVIOUS
  <2>2. CASE m.dst = Stub \/ Known(m.dst)
    BY <1>2, <1>6, <2>1, <2>2 DEF StubDispatch, RouterSend
  <2>3. CASE ~ (m.dst = Stub \/ Known(m.dst))
    <3>1. nBufmsg' = CountAfterPush /\ process' = IF CountAfterPush <= BufSize THEN process ELSE "aborted"
      BY <1>6, <2>1, <2>3 DEF StubDispatch, RouterSend
    <3>2. CountAfterPush <= Cardinality(UsedTickets') /\ CountAfterPush \in Nat
      BY <1>1, <3>1 DEF TicketsInv, CountAfterPush, TypeOK, FabricTypeOK
    <3>3. Cardinality(UsedTickets') <= Cardinality(Tickets) /\ Cardinality(UsedTickets') \in Nat
      <4>1. UsedTickets' \in SUBSET Tickets
        BY DEF UsedTickets, Tickets
      <4> QED  BY <4>1, TicketCount, FS_Subset, FS_CardinalityType
    <3>4. Cardinality(Tickets) <= BufSize /\ BufSize \in Nat /\ Cardinality(Tickets) \in Nat
      BY TicketCount, FS_CardinalityType, Assumption DEF Roomy
    <3>5. CountAfterPush <= BufSize
      BY <3>2, <3>3, <3>4
    <3> QED  BY <1>2, <3>1, <3>5
  <2> QED  BY <2>2, <2>3
<1>7. ASSUME \/ \E g \in Groups : Collect(g) \/ Forward(g) \/ WorkerInterrupted(g)
             \/ \E i \in 0 .. NServers - 1 :
                  ServerConnect(i) \/ HandlePut(i) \/ RequeueUpdate(i) \/ ServerInterrupted(i)
             \/ \E a \in Address : StubReceive(a)
             \/ StubInterrupted \/ UNCHANGED vars
      PROVE  NoCheckFails'
  BY <1>2, <1>7 DEF Collect, Forward, WorkerInterrupted, ServerConnect, HandlePut, RequeueUpdate,
                    ServerInterrupted, StubReceive, RouterReceive, StubInterrupted, vars, fabricvars
<1> QED  BY <1>3, <1>4, <1>5, <1>6, <1>7 DEF Next, StubSend

\* With a buffer for a Put and a first update of every parameter by every
\* group, with steps in every configured pass and, under hogwild, another
\* first step than 1, no CHECK ever fails and nothing null is dereferenced.
THEOREM ChecksPass ==
  Roomy /\ PassesHaveSteps /\ CounterMisses => (Spec => []NoCheckFails)
<1> SUFFICES ASSUME Roomy, PassesHaveSteps, CounterMisses PROVE Spec => []NoCheckFails
  OBVIOUS
<1>1. Init => ChecksInv
  <2> SUFFICES ASSUME Init PROVE ChecksInv
    OBVIOUS
  <2>1. /\ nBufmsg = 0 /\ process = "running"
        /\ nGet = [g \in Groups |-> [p \in Params |-> 0]]
    BY DEF Init, RouterInit
  <2>2. StoreInv /\ TypeOK
    BY InitStore, InitType
  <2>3. AnswersInv
    <3> SUFFICES ASSUME NEW g \in Groups, Some(Lines, AnswersFor(g)) PROVE FALSE
      BY DEF AnswersInv
    <3>1. PICK c \in Places : \E i \in 1 .. Len(Lines[c]) : Lines[c][i] \in AnswersFor(g)
      BY <2>2, LinesType DEF Some
    <3>2. PICK i \in 1 .. Len(Line(c)) : Line(c)[i] \in AnswersFor(g)
      BY <2>2, <3>1, LinesType
    <3>3. /\ hand = << >> /\ \A a \in Address : down[a] = << >> /\ bufmsg[a] = << >>
      BY DEF Init, RouterInit
    <3>4. PICK a \in Address : c = Up(a)
      BY <3>2, <3>3, PlaceCases, LineOf
    <3>5. up[a] # << >> /\ i \in 1 .. Len(up[a]) /\ up[a][i] \in AnswersFor(g)
      BY <3>2, <3>4, LineOf
    <3>6. up[a] = [j \in 1 .. NParams |-> PutMsg(j - 1)]
      BY <3>5 DEF Init
    <3>7. i \in 1 .. NParams
      BY <3>5, <3>6, Assumption
    <3> QED  BY <3>5, <3>6, <3>7 DEF PutMsg, AnswersFor
  <2> QED  BY <2>1, <2>3, UsedCount DEF ChecksInv, TicketsInv, CounterInv, NoCheckFails
<1>2. SystemInv /\ ChecksInv /\ [Next]_vars => ChecksInv'
  BY AnswersStep, TicketsStep, CounterStep, CheckStep DEF ChecksInv
<1>3. ChecksInv => NoCheckFails
  BY DEF ChecksInv
<1> QED  BY <1>1, <1>2, <1>3, SystemCorrect, PTL DEF Spec
=============================================================================
