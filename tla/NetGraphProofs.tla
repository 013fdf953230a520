--------------------------- MODULE NetGraphProofs ---------------------------
(***************************************************************************)
(* Proofs about NetGraph: for every net, every configuration of partition  *)
(* types, connections and locations and every group size, the graph that   *)
(* CreatePartitonedGraph builds keeps the dependencies of the layers, and  *)
(* its order, splits and bridges are what they are for.                    *)
(*                                                                         *)
(* The module proves, in order: facts about lists and graphs; that the     *)
(* invariant IInv has the properties where the construction is done; that  *)
(* the initial states satisfy it; and that each step keeps it.  A step     *)
(* that links a layer with a source is a LinkStep, one that puts a split   *)
(* or bridges on the way is a Detour: each kind keeps the ranks and the    *)
(* feeds of IInv for a reason of its own, stated once.                     *)
(***************************************************************************)
EXTENDS NetGraph, SequenceTheorems, WellFoundedInduction, TLAPS

----------------------------------------------------------------------------
(* Lists *)

\* A list holds what its places hold.
LEMMA ListFacts ==
  ASSUME NEW S, NEW s \in Seq(S)
  PROVE  /\ Len(s) \in Nat /\ DOMAIN s = 1 .. Len(s) /\ \A i \in 1 .. Len(s) : s[i] \in S
         /\ \A x : x \in ToSet(s) <=> \E i \in 1 .. Len(s) : s[i] = x
         /\ ToSet(s) \subseteq S
         /\ IsInjective(s) <=> \A i, j \in 1 .. Len(s) : s[i] = s[j] => i = j
<1>1. Len(s) \in Nat /\ DOMAIN s = 1 .. Len(s) /\ \A i \in 1 .. Len(s) : s[i] \in S
  BY LenProperties
<1> QED  BY <1>1 DEF ToSet, IsInjective

\* A longer list, or one over a larger set.
LEMMA ListOver == \A S, T : S \subseteq T => Seq(S) \subseteq Seq(T)
  BY SeqMonotonic

\* A function over 1 .. k is a list.
LEMMA ListOf ==
  ASSUME NEW S, NEW k \in Nat, NEW s \in [1 .. k -> S]
  PROVE  s \in Seq(S) /\ Len(s) = k
  OBVIOUS

\* The list without elements.
LEMMA NoList ==
  \A S : /\ << >> \in Seq(S) /\ Len(<< >>) = 0 /\ ToSet(<< >>) = {} /\ IsInjective(<< >>)
         /\ \A s \in Seq(S) : ToSet(s) = {} <=> s = << >>
<1> SUFFICES ASSUME NEW S PROVE
         /\ << >> \in Seq(S) /\ Len(<< >>) = 0 /\ ToSet(<< >>) = {} /\ IsInjective(<< >>)
         /\ \A s \in Seq(S) : ToSet(s) = {} <=> s = << >>
  OBVIOUS
<1>1. << >> \in Seq(S) /\ Len(<< >>) = 0 /\ \A s \in Seq(S) : s # << >> => Len(s) \in Nat \ {0}
  BY EmptySeq
<1>2. DOMAIN << >> = {}
  BY <1>1
<1>3. ToSet(<< >>) = {} /\ IsInjective(<< >>)
  BY <1>2 DEF ToSet, IsInjective
<1>4. ASSUME NEW s \in Seq(S), s # << >> PROVE s[1] \in ToSet(s)
  BY <1>1, <1>4, ListFacts
<1> QED  BY <1>1, <1>3, <1>4

\* A list of one.
LEMMA OneList ==
  ASSUME NEW S, NEW x \in S
  PROVE  <<x>> \in Seq(S) /\ Len(<<x>>) = 1 /\ ToSet(<<x>>) = {x} /\ IsInjective(<<x>>)
         /\ <<x>>[1] = x
  BY DEF ToSet, IsInjective

\* One list behind another.
LEMMA JoinedList ==
  ASSUME NEW S, NEW s \in Seq(S), NEW t \in Seq(S)
  PROVE  /\ s \o t \in Seq(S) /\ Len(s \o t) = Len(s) + Len(t)
         /\ ToSet(s \o t) = ToSet(s) \cup ToSet(t)
         /\ IsInjective(s) /\ IsInjective(t) /\ ToSet(s) \cap ToSet(t) = {} => IsInjective(s \o t)
<1> DEFINE a == Len(s)  b == Len(t)  u == s \o t
<1>1. /\ a \in Nat /\ b \in Nat /\ u \in Seq(S) /\ Len(u) = a + b
      /\ \A i \in 1 .. a + b : u[i] = IF i <= a THEN s[i] ELSE t[i - a]
  BY ConcatProperties, LenProperties
<1> HIDE DEF u
<1>2. /\ \A x : x \in ToSet(u) <=> \E i \in 1 .. a + b : u[i] = x
      /\ IsInjective(u) <=> \A i, j \in 1 .. a + b : u[i] = u[j] => i = j
  <2>1. u \in Seq(S) /\ Len(u) = a + b
    BY <1>1
  <2>2. /\ \A x : x \in ToSet(u) <=> \E i \in 1 .. Len(u) : u[i] = x
        /\ IsInjective(u) <=> \A i, j \in 1 .. Len(u) : u[i] = u[j] => i = j
    BY <2>1, ListFacts
  <2> HIDE DEF a, b
  <2> QED  BY <2>1, <2>2
<1>3. /\ \A x : x \in ToSet(s) <=> \E i \in 1 .. a : s[i] = x
      /\ IsInjective(s) <=> \A i, j \in 1 .. a : s[i] = s[j] => i = j
  BY ListFacts
<1>4. /\ \A x : x \in ToSet(t) <=> \E i \in 1 .. b : t[i] = x
      /\ IsInjective(t) <=> \A i, j \in 1 .. b : t[i] = t[j] => i = j
  BY ListFacts
<1> HIDE DEF a, b
<1>5. ASSUME NEW x, x \in ToSet(u) PROVE x \in ToSet(s) \/ x \in ToSet(t)
  <2>1. PICK i \in 1 .. a + b : u[i] = x
    BY <1>2, <1>5
  <2>2. CASE i <= a
    <3>1. i \in 1 .. a /\ s[i] = x
      BY <1>1, <2>1, <2>2
    <3> QED  BY <1>3, <3>1
  <2>3. CASE ~ (i <= a)
    <3>1. i - a \in 1 .. b /\ t[i - a] = x
      BY <1>1, <2>1, <2>3
    <3> QED  BY <1>4, <3>1
  <2> QED  BY <2>2, <2>3
<1>6. ASSUME NEW x, x \in ToSet(s) PROVE x \in ToSet(u)
  <2>1. PICK i \in 1 .. a : s[i] = x
    BY <1>3, <1>6
  <2>2. i \in 1 .. a + b /\ u[i] = x
    BY <1>1, <2>1
  <2> QED  BY <1>2, <2>2
<1>7. ASSUME NEW x, x \in ToSet(t) PROVE x \in ToSet(u)
  <2>1. PICK i \in 1 .. b : t[i] = x
    BY <1>4, <1>7
  <2>2. a + i \in 1 .. a + b /\ ~ (a + i <= a) /\ (a + i) - a = i
    BY <1>1
  <2>3. u[a + i] = x
    BY <1>1, <2>1, <2>2
  <2> QED  BY <1>2, <2>2, <2>3
<1>8. ASSUME IsInjective(s), IsInjective(t), ToSet(s) \cap ToSet(t) = {},
             NEW i \in 1 .. a + b, NEW j \in 1 .. a + b, u[i] = u[j]
      PROVE  i = j
  <2>1. \A k \in 1 .. a + b : IF k <= a THEN k \in 1 .. a /\ u[k] = s[k] /\ u[k] \in ToSet(s)
                              ELSE k - a \in 1 .. b /\ u[k] = t[k - a] /\ u[k] \in ToSet(t)
    <3> SUFFICES ASSUME NEW k \in 1 .. a + b
                 PROVE  IF k <= a THEN k \in 1 .. a /\ u[k] = s[k] /\ u[k] \in ToSet(s)
                        ELSE k - a \in 1 .. b /\ u[k] = t[k - a] /\ u[k] \in ToSet(t)
      OBVIOUS
    <3>1. CASE k <= a
      <4>1. k \in 1 .. a /\ u[k] = s[k]
        BY <1>1, <3>1
      <4> QED  BY <1>3, <3>1, <4>1
    <3>2. CASE ~ (k <= a)
      <4>1. k - a \in 1 .. b /\ u[k] = t[k - a]
        BY <1>1, <3>2
      <4> QED  BY <1>4, <3>2, <4>1
    <3> QED  BY <3>1, <3>2
  <2>2. (i <= a) <=> (j <= a)
    BY <1>8, <2>1
  <2>3. CASE i <= a /\ j <= a
    <3>1. i \in 1 .. a /\ j \in 1 .. a /\ s[i] = s[j]
      BY <1>8, <2>1, <2>3
    <3> QED  BY <1>3, <1>8, <3>1
  <2>4. CASE ~ (i <= a) /\ ~ (j <= a)
    <3>1. i - a \in 1 .. b /\ j - a \in 1 .. b /\ t[i - a] = t[j - a]
      BY <1>8, <2>1, <2>4
    <3>2. i - a = j - a
      BY <1>4, <1>8, <3>1
    <3> QED  BY <1>1, <3>2
  <2> QED  BY <2>2, <2>3, <2>4
<1>9. ToSet(u) = ToSet(s) \cup ToSet(t)
  BY <1>5, <1>6, <1>7
<1>10. IsInjective(s) /\ IsInjective(t) /\ ToSet(s) \cap ToSet(t) = {} => IsInjective(u)
  BY <1>2, <1>8
<1>11. Len(u) = Len(s) + Len(t)
  BY <1>1 DEF a, b
<1> QED  BY <1>1, <1>9, <1>10, <1>11 DEF u

\* A list without its first element.
LEMMA TailList ==
  ASSUME NEW S, NEW s \in Seq(S), s # << >>
  PROVE  /\ Head(s) \in S /\ Head(s) = s[1] /\ Tail(s) \in Seq(S)
         /\ Len(s) \in Nat \ {0} /\ Len(Tail(s)) = Len(s) - 1
         /\ \A i \in 1 .. Len(s) - 1 : Tail(s)[i] = s[i + 1]
         /\ ToSet(s) = {Head(s)} \cup ToSet(Tail(s))
         /\ IsInjective(s) => IsInjective(Tail(s)) /\ Head(s) \notin ToSet(Tail(s))
<1> DEFINE k == Len(s)  t == Tail(s)
<1>1. /\ k \in Nat \ {0} /\ Head(s) \in S /\ Head(s) = s[1] /\ t \in Seq(S) /\ Len(t) = k - 1
      /\ \A i \in 1 .. k - 1 : t[i] = s[i + 1]
  BY HeadTailProperties, EmptySeq
<1>2. /\ \A x : x \in ToSet(s) <=> \E i \in 1 .. k : s[i] = x
      /\ IsInjective(s) <=> \A i, j \in 1 .. k : s[i] = s[j] => i = j
  BY ListFacts
<1> HIDE DEF t, k
<1>3. /\ \A x : x \in ToSet(t) <=> \E i \in 1 .. k - 1 : t[i] = x
      /\ IsInjective(t) <=> \A i, j \in 1 .. k - 1 : t[i] = t[j] => i = j
  <2>1. t \in Seq(S) /\ Len(t) = k - 1
    BY <1>1
  <2>2. /\ \A x : x \in ToSet(t) <=> \E i \in 1 .. Len(t) : t[i] = x
        /\ IsInjective(t) <=> \A i, j \in 1 .. Len(t) : t[i] = t[j] => i = j
    BY <2>1, ListFacts
  <2> QED  BY <2>1, <2>2
<1>4. ASSUME NEW x, x \in ToSet(s) PROVE x = Head(s) \/ x \in ToSet(t)
  <2>1. PICK i \in 1 .. k : s[i] = x
    BY <1>2, <1>4
  <2>2. CASE i # 1
    <3>1. i - 1 \in 1 .. k - 1 /\ (i - 1) + 1 = i
      BY <1>1, <2>2
    <3>2. t[i - 1] = x
      BY <1>1, <2>1, <3>1
    <3> QED  BY <1>3, <3>1, <3>2
  <2> QED  BY <1>1, <2>1, <2>2
<1>5. ASSUME NEW x, x \in ToSet(t) PROVE \E i \in 2 .. k : s[i] = x
  <2>1. PICK i \in 1 .. k - 1 : t[i] = x
    BY <1>3, <1>5
  <2>2. i + 1 \in 2 .. k /\ s[i + 1] = x
    BY <1>1, <2>1
  <2> QED  BY <2>2
<1>6. \A i \in 2 .. k : i \in 1 .. k /\ i # 1
  BY <1>1
<1>7. Head(s) \in ToSet(s)
  BY <1>1, <1>2
<1>8. ToSet(s) = {Head(s)} \cup ToSet(t)
  BY <1>2, <1>4, <1>5, <1>6, <1>7
<1>9. ASSUME IsInjective(s), NEW i \in 1 .. k - 1, NEW j \in 1 .. k - 1, t[i] = t[j] PROVE i = j
  <2>1. i + 1 \in 1 .. k /\ j + 1 \in 1 .. k /\ s[i + 1] = s[j + 1]
    BY <1>1, <1>9
  <2>2. i + 1 = j + 1
    BY <1>2, <1>9, <2>1
  <2> QED  BY <1>1, <2>2
<1>10. ASSUME IsInjective(s), Head(s) \in ToSet(t) PROVE FALSE
  BY <1>1, <1>2, <1>5, <1>6, <1>10
<1> QED  BY <1>1, <1>3, <1>8, <1>9, <1>10 DEF k, t

\* A list without its last element.
LEMMA FrontList ==
  ASSUME NEW S, NEW s \in Seq(S), s # << >>
  PROVE  /\ Last(s) \in S /\ Front(s) \in Seq(S)
         /\ ToSet(s) = {Last(s)} \cup ToSet(Front(s))
<1> DEFINE k == Len(s)
<1>1. k \in Nat \ {0} /\ \A i \in 1 .. k : s[i] \in S
  BY EmptySeq, ListFacts
<1>2. /\ Front(s) \in Seq(S) /\ Len(Front(s)) = k - 1
      /\ \A i \in 1 .. k - 1 : Front(s)[i] = s[i]
  <2>1. k - 1 \in Int /\ \A i \in 1 .. k - 1 : s[i] \in S
    BY <1>1
  <2> HIDE DEF k
  <2>2. /\ SubSeq(s, 1, k - 1) \in Seq(S)
        /\ Len(SubSeq(s, 1, k - 1)) = IF 1 <= k - 1 THEN (k - 1) - 1 + 1 ELSE 0
        /\ \A i \in 1 .. (k - 1) - 1 + 1 : SubSeq(s, 1, k - 1)[i] = s[1 + i - 1]
    BY <2>1, SubSeqProperties
  <2>3. Len(SubSeq(s, 1, k - 1)) = k - 1
    BY <1>1, <2>2
  <2>4. \A i \in 1 .. k - 1 : i \in 1 .. (k - 1) - 1 + 1 /\ 1 + i - 1 = i
    BY <1>1
  <2>5. \A i \in 1 .. k - 1 : SubSeq(s, 1, k - 1)[i] = s[i]
    BY <2>2, <2>4
  <2> QED  BY <2>2, <2>3, <2>5 DEF Front, k
<1>3. Last(s) = s[k] /\ k \in 1 .. k
  BY <1>1 DEF Last
<1>4. \A x : x \in ToSet(s) <=> \E i \in 1 .. k : s[i] = x
  BY ListFacts
<1>5. \A x : x \in ToSet(Front(s)) <=> \E i \in 1 .. k - 1 : Front(s)[i] = x
  BY <1>2, ListFacts
<1>6. \A i \in 1 .. k : i = k \/ i \in 1 .. k - 1
  BY <1>1
<1>7. \A i \in 1 .. k - 1 : i \in 1 .. k
  BY <1>1
<1> HIDE DEF k
<1>8. ToSet(s) \subseteq {Last(s)} \cup ToSet(Front(s))
  BY <1>2, <1>3, <1>4, <1>5, <1>6
<1>9. {Last(s)} \cup ToSet(Front(s)) \subseteq ToSet(s)
  BY <1>2, <1>3, <1>4, <1>5, <1>7
<1> QED  BY <1>1, <1>2, <1>3, <1>8, <1>9

\* A set of numbers has a least one.
LEMMA LeastOf ==
  ASSUME NEW T \in SUBSET Nat, T # {}
  PROVE  \E x \in T : \A y \in T : x <= y
<1>1. PICK R : R = {ss \in Nat \X Nat : ss[1] < ss[2]}
  OBVIOUS
<1>2. R = OpToRel(<, Nat)
  BY <1>1 DEF OpToRel
<1>3. IsWellFoundedOn(R, Nat)
  BY <1>2, NatLessThanWellFounded
<1>4. PICK x \in T : \A y \in T : ~ (<<y, x>> \in R)
  BY <1>3, WFMin
<1>5. ASSUME NEW y \in T PROVE x <= y
  <2>1. <<y, x>> \notin R
    BY <1>4
  <2>2. <<y, x>> \in Nat \X Nat /\ <<y, x>>[1] = y /\ <<y, x>>[2] = x
    OBVIOUS
  <2> QED  BY <1>1, <2>1, <2>2
<1> QED  BY <1>5

\* A bounded one has a greatest.
LEMMA GreatestOf ==
  ASSUME NEW k \in Nat, NEW T \in SUBSET (1 .. k), T # {}
  PROVE  \E x \in T : \A y \in T : y <= x
<1> DEFINE D == {k - y : y \in T}
<1>1. D \in SUBSET Nat /\ D # {}
  OBVIOUS
<1>2. PICK d \in D : \A e \in D : d <= e
  BY <1>1, LeastOf
<1>3. PICK x \in T : d = k - x
  BY <1>2
<1>4. ASSUME NEW y \in T PROVE y <= x
  <2>1. k - y \in D
    OBVIOUS
  <2>2. k - x <= k - y
    BY <1>2, <1>3, <2>1
  <2> QED  BY <2>2
<1> QED  BY <1>4

\* A list without one place.
LEMMA RemovedAt ==
  ASSUME NEW S, NEW s \in Seq(S), NEW k \in 1 .. Len(s)
  PROVE  /\ RemoveAt(s, k) \in Seq(S) /\ Len(RemoveAt(s, k)) = Len(s) - 1
         /\ IsInjective(s) => /\ ToSet(RemoveAt(s, k)) = ToSet(s) \ {s[k]}
                              /\ IsInjective(RemoveAt(s, k))
<1> DEFINE m == Len(s)  a == SubSeq(s, 1, k - 1)  b == SubSeq(s, k + 1, m)  r == RemoveAt(s, k)
<1>1. m \in Nat /\ k \in 1 .. m /\ \A i \in 1 .. m : s[i] \in S
  BY ListFacts
<1>2. /\ k - 1 \in Int /\ k + 1 \in Int
      /\ \A i \in 1 .. k - 1 : i \in 1 .. m
      /\ \A i \in k + 1 .. m : i \in 1 .. m
  BY <1>1
<1>3. r = a \o b
  BY DEF RemoveAt
<1> HIDE DEF m, r
<1>4. /\ a \in Seq(S) /\ Len(a) = k - 1 /\ \A i \in 1 .. k - 1 : a[i] = s[i]
  <2>1. \A i \in 1 .. k - 1 : s[i] \in S
    BY <1>1, <1>2
  <2>2. /\ a \in Seq(S) /\ Len(a) = IF 1 <= k - 1 THEN (k - 1) - 1 + 1 ELSE 0
        /\ \A i \in 1 .. (k - 1) - 1 + 1 : a[i] = s[1 + i - 1]
    BY <1>2, <2>1, SubSeqProperties
  <2> HIDE DEF a
  <2>3. (k - 1) - 1 + 1 = k - 1 /\ \A i \in 1 .. k - 1 : 1 + i - 1 = i
    BY <1>1
  <2>4. Len(a) = k - 1
    BY <1>1, <2>2
  <2> QED  BY <2>2, <2>3, <2>4
<1>5. /\ b \in Seq(S) /\ Len(b) = m - k /\ \A i \in 1 .. m - k : b[i] = s[k + i]
  <2>1. \A i \in k + 1 .. m : s[i] \in S
    BY <1>1, <1>2
  <2>2. /\ b \in Seq(S) /\ Len(b) = IF k + 1 <= m THEN m - (k + 1) + 1 ELSE 0
        /\ \A i \in 1 .. m - (k + 1) + 1 : b[i] = s[k + 1 + i - 1]
    BY <1>1, <1>2, <2>1, SubSeqProperties
  <2> HIDE DEF b
  <2>3. m - (k + 1) + 1 = m - k /\ \A i \in 1 .. m - k : k + 1 + i - 1 = k + i
    BY <1>1
  <2>4. Len(b) = m - k
    BY <1>1, <2>2
  <2> QED  BY <2>2, <2>3, <2>4
<1> HIDE DEF a, b
<1>6. r \in Seq(S) /\ Len(r) = m - 1
  <2>1. r \in Seq(S) /\ Len(r) = Len(a) + Len(b)
    BY <1>3, <1>4, <1>5, JoinedList
  <2>2. Len(r) = (k - 1) + (m - k)
    BY <1>4, <1>5, <2>1
  <2> QED  BY <1>1, <2>1, <2>2
<1>7. ASSUME IsInjective(s)
      PROVE  ToSet(r) = ToSet(s) \ {s[k]} /\ IsInjective(r)
  <2>1. \A i, j \in 1 .. m : s[i] = s[j] => i = j
    BY <1>7, ListFacts DEF m
  <2>2. \A x : x \in ToSet(s) <=> \E i \in 1 .. m : s[i] = x
    BY ListFacts DEF m
  <2>3. /\ \A x : x \in ToSet(a) <=> \E i \in 1 .. k - 1 : a[i] = x
        /\ IsInjective(a) <=> \A i, j \in 1 .. k - 1 : a[i] = a[j] => i = j
    <3>1. /\ \A x : x \in ToSet(a) <=> \E i \in 1 .. Len(a) : a[i] = x
          /\ IsInjective(a) <=> \A i, j \in 1 .. Len(a) : a[i] = a[j] => i = j
      BY <1>4, ListFacts
    <3> QED  BY <1>4, <3>1
  <2>4. /\ \A x : x \in ToSet(b) <=> \E i \in 1 .. m - k : b[i] = x
        /\ IsInjective(b) <=> \A i, j \in 1 .. m - k : b[i] = b[j] => i = j
    <3>1. /\ \A x : x \in ToSet(b) <=> \E i \in 1 .. Len(b) : b[i] = x
          /\ IsInjective(b) <=> \A i, j \in 1 .. Len(b) : b[i] = b[j] => i = j
      BY <1>5, ListFacts
    <3> QED  BY <1>5, <3>1
  <2>5. \A x : x \in ToSet(a) <=> \E i \in 1 .. k - 1 : s[i] = x
    BY <1>4, <2>3
  <2>6. \A x : x \in ToSet(b) <=> \E i \in k + 1 .. m : s[i] = x
    <3>1. ASSUME NEW x, x \in ToSet(b) PROVE \E i \in k + 1 .. m : s[i] = x
      <4>1. PICK i \in 1 .. m - k : b[i] = x
        BY <2>4, <3>1
      <4>2. k + i \in k + 1 .. m /\ s[k + i] = x
        BY <1>1, <1>5, <4>1
      <4> QED  BY <4>2
    <3>2. ASSUME NEW i \in k + 1 .. m PROVE s[i] \in ToSet(b)
      <4>1. i - k \in 1 .. m - k /\ k + (i - k) = i
        BY <1>1
      <4>2. b[i - k] = s[i]
        BY <1>5, <4>1
      <4> QED  BY <2>4, <4>1, <4>2
    <3> QED  BY <3>1, <3>2
  <2>7. \A i \in 1 .. m : i = k \/ i \in 1 .. k - 1 \/ i \in k + 1 .. m
    BY <1>1
  <2>8. /\ \A i \in 1 .. k - 1 : i \in 1 .. m /\ i # k
        /\ \A i \in k + 1 .. m : i \in 1 .. m /\ i # k
        /\ \A i \in 1 .. k - 1 : \A j \in k + 1 .. m : i # j
    BY <1>1
  <2>9. ToSet(a) \cap ToSet(b) = {}
    BY <2>1, <2>5, <2>6, <2>8
  <2>10. IsInjective(a)
    BY <1>4, <2>1, <2>3, <2>8
  <2>11. IsInjective(b)
    <3> SUFFICES ASSUME NEW i \in 1 .. m - k, NEW j \in 1 .. m - k, b[i] = b[j] PROVE i = j
      BY <2>4
    <3>1. k + i \in 1 .. m /\ k + j \in 1 .. m /\ s[k + i] = s[k + j]
      BY <1>1, <1>5
    <3>2. k + i = k + j
      BY <2>1, <3>1
    <3> QED  BY <1>1, <3>2
  <2>12. ToSet(r) = ToSet(a) \cup ToSet(b) /\ IsInjective(r)
    BY <1>3, <1>4, <1>5, <2>9, <2>10, <2>11, JoinedList
  <2>13. ToSet(a) \cup ToSet(b) \subseteq ToSet(s) \ {s[k]}
    BY <1>1, <2>1, <2>2, <2>5, <2>6, <2>8
  <2>14. ToSet(s) \ {s[k]} \subseteq ToSet(a) \cup ToSet(b)
    BY <2>2, <2>5, <2>6, <2>7
  <2> QED  BY <2>12, <2>13, <2>14
<1> QED  BY <1>6, <1>7 DEF m, r

\* No two nodes of g have the same name.
Distinct(g) == \A n, m \in Nodes(g) : Name(g, n) = Name(g, m) => n = m

\* Without one node of n's name.
LEMMA WithoutOne ==
  ASSUME NEW g, g.size \in Nat, NEW s \in Seq(Nodes(g)), NEW n \in Nodes(g)
  PROVE  /\ Without(g, s, n) \in Seq(Nodes(g))
         /\ Distinct(g) /\ IsInjective(s) /\ n \in ToSet(s) =>
              /\ ToSet(Without(g, s, n)) = ToSet(s) \ {n}
              /\ IsInjective(Without(g, s, n))
              /\ Len(s) = Len(Without(g, s, n)) + 1
<1> DEFINE I == {i \in 1 .. Len(s) : Name(g, s[i]) = Name(g, n)}  r == Without(g, s, n)
<1>1. Len(s) \in Nat /\ \A i \in 1 .. Len(s) : s[i] \in Nodes(g)
  BY ListFacts
<1>2. \A x : x \in ToSet(s) <=> \E i \in 1 .. Len(s) : s[i] = x
  BY ListFacts
<1>3. CASE I = {}
  <2>1. r = s
    BY <1>3 DEF Without, RemoveFirstMatch
  <2>2. n \notin ToSet(s)
    BY <1>2, <1>3
  <2> QED  BY <2>1, <2>2
<1>4. CASE I # {}
  <2>1. I \in SUBSET Nat
    BY <1>1
  <2>2. \E x \in I : \A y \in I : x <= y
    BY <1>4, <2>1, LeastOf
  <2>3. Min(I) \in I
    BY <2>2 DEF Min
  <2>4. r = RemoveAt(s, Min(I))
    BY <1>4 DEF Without, RemoveFirstMatch, SelectInSeq
  <2> HIDE DEF r
  <2>5. PICK k \in 1 .. Len(s) : k = Min(I) /\ Name(g, s[k]) = Name(g, n)
    BY <2>3
  <2>6. Distinct(g) => s[k] = n
    BY <1>1, <2>5 DEF Distinct
  <2>7. /\ r \in Seq(Nodes(g)) /\ Len(r) = Len(s) - 1
        /\ IsInjective(s) => ToSet(r) = ToSet(s) \ {s[k]} /\ IsInjective(r)
    BY <2>4, <2>5, RemovedAt
  <2> QED  BY <1>1, <2>6, <2>7 DEF r
<1> QED  BY <1>3, <1>4

----------------------------------------------------------------------------
(* Graphs *)

\* What g says of its nodes, h says too.
Extends(g, h) ==
  /\ g.size <= h.size
  /\ \A n \in Nodes(g) : h.node[n] = g.node[n]

\* The lists of both directions agree, and none holds a node twice.
Wired(g) ==
  /\ \A a, b \in Nodes(g) : b \in ToSet(g.dst[a]) <=> a \in ToSet(g.src[b])
  /\ \A n \in Nodes(g) : IsInjective(g.dst[n]) /\ IsInjective(g.src[n])

\* nodes_ has every node once.
Complete(g) == ToSet(g.order) = Nodes(g) /\ IsInjective(g.order)

IsInfo(info) == info.origin \in Layers \cup Between /\ info.location \in Nat /\ info.partition \in Nat

\* What TypeOK says of a graph, node by node.
LEMMA GraphFacts ==
  ASSUME NEW g, IsGraph(g)
  PROVE  /\ g.size \in Nat
         /\ \A n \in Nodes(g) : /\ n \in Nat /\ n >= 1 /\ n <= g.size /\ IsInfo(g.node[n])
                                /\ g.dst[n] \in Seq(Nodes(g)) /\ g.src[n] \in Seq(Nodes(g))
         /\ g.order \in Seq(Nodes(g))
  BY DEF IsGraph, IsInfo, Nodes, Origin

\* AddNodes: new nodes without neighbours behind the old ones.
NodesAdded(g, h, k, infos) ==
  /\ IsGraph(h) /\ h.size = g.size + k
  /\ Extends(g, h) /\ Nodes(g) \subseteq Nodes(h)
  /\ \A n \in Nodes(g) : h.dst[n] = g.dst[n] /\ h.src[n] = g.src[n]
  /\ \A i \in 1 .. k :
       /\ g.size + i \in Nodes(h) \ Nodes(g) /\ h.node[g.size + i] = infos[i]
       /\ h.dst[g.size + i] = << >> /\ h.src[g.size + i] = << >>
  /\ \A n \in Nodes(h) \ Nodes(g) : n - g.size \in 1 .. k /\ g.size + (n - g.size) = n
  /\ Complete(g) => Complete(h)
  /\ g.order # << >> => h.order # << >> /\ Head(h.order) = Head(g.order)
  /\ Wired(g) => Wired(h)

\* AddNodes adds nodes and disturbs none.
LEMMA AddNodesFacts ==
  ASSUME NEW g, IsGraph(g), NEW k \in Nat, NEW infos, \A i \in 1 .. k : IsInfo(infos[i])
  PROVE  NodesAdded(g, AddNodes(g, k, infos), k, infos)
<1> SUFFICES ASSUME NEW h, h = AddNodes(g, k, infos) PROVE NodesAdded(g, h, k, infos)
  OBVIOUS
<1> DEFINE new == [i \in 1 .. k |-> g.size + i]
<1>1. /\ g.size \in Nat /\ h.size = g.size + k
      /\ Nodes(g) = 1 .. g.size /\ Nodes(h) = 1 .. g.size + k /\ Nodes(g) \subseteq Nodes(h)
  BY GraphFacts DEF AddNodes, Nodes
<1>2. /\ h = [size |-> h.size, node |-> h.node, dst |-> h.dst, src |-> h.src, order |-> h.order]
      /\ h.node = [n \in Nodes(h) |-> IF n <= g.size THEN g.node[n] ELSE infos[n - g.size]]
      /\ h.dst = [n \in Nodes(h) |-> IF n <= g.size THEN g.dst[n] ELSE << >>]
      /\ h.src = [n \in Nodes(h) |-> IF n <= g.size THEN g.src[n] ELSE << >>]
      /\ h.order = g.order \o new
  BY <1>1 DEF AddNodes
<1>3. \A n \in Nodes(g) : n \in Nodes(h) /\ n <= g.size
  BY <1>1
<1>4. \A n \in Nodes(g) : h.node[n] = g.node[n] /\ h.dst[n] = g.dst[n] /\ h.src[n] = g.src[n]
  BY <1>2, <1>3
<1>5. \A i \in 1 .. k : LET n == g.size + i IN
        n \in Nodes(h) \ Nodes(g) /\ ~ (n <= g.size) /\ n - g.size = i
  BY <1>1
<1>6. \A i \in 1 .. k : LET n == g.size + i IN
        h.node[n] = infos[i] /\ h.dst[n] = << >> /\ h.src[n] = << >>
  BY <1>2, <1>5
<1>7. \A n \in Nodes(h) \ Nodes(g) : n - g.size \in 1 .. k /\ g.size + (n - g.size) = n
  BY <1>1
<1>8. \A n \in Nodes(h) : IF n \in Nodes(g) THEN h.dst[n] = g.dst[n] /\ h.src[n] = g.src[n]
                          ELSE h.dst[n] = << >> /\ h.src[n] = << >>
  BY <1>4, <1>6, <1>7
<1>9. \A n \in Nodes(h) : IsInfo(h.node[n])
  <2>1. \A n \in Nodes(g) : IsInfo(h.node[n])
    BY <1>4, GraphFacts
  <2>2. \A n \in Nodes(h) \ Nodes(g) : IsInfo(h.node[n])
    <3> SUFFICES ASSUME NEW n \in Nodes(h) \ Nodes(g) PROVE IsInfo(h.node[n])
      OBVIOUS
    <3>1. PICK i \in 1 .. k : n = g.size + i
      BY <1>7
    <3> QED  BY <1>6, <3>1
  <2> QED  BY <2>1, <2>2
<1>10. \A n \in Nodes(h) : h.dst[n] \in Seq(Nodes(h)) /\ h.src[n] \in Seq(Nodes(h))
  <2>1. \A n \in Nodes(g) : g.dst[n] \in Seq(Nodes(h)) /\ g.src[n] \in Seq(Nodes(h))
    BY <1>1, GraphFacts, ListOver
  <2> QED  BY <1>8, <2>1, NoList
<1>11. /\ new \in Seq(Nodes(h)) /\ ToSet(new) = Nodes(h) \ Nodes(g) /\ IsInjective(new)
  <2>1. new \in [1 .. k -> Nodes(h)]
    BY <1>5
  <2>2. new \in Seq(Nodes(h)) /\ Len(new) = k
    BY <2>1, ListOf
  <2>3. \A x : x \in ToSet(new) <=> \E i \in 1 .. k : g.size + i = x
    BY <2>2, ListFacts
  <2>4. ToSet(new) = Nodes(h) \ Nodes(g)
    BY <1>5, <1>7, <2>3
  <2>5. \A i, j \in 1 .. k : new[i] = new[j] => i = j
    BY <1>1
  <2> QED  BY <2>2, <2>4, <2>5, ListFacts
<1>12. g.order \in Seq(Nodes(h))
  BY <1>1, GraphFacts, ListOver
<1> HIDE DEF new
<1>13. /\ h.order \in Seq(Nodes(h))
       /\ Complete(g) => Complete(h)
  <2>1. /\ h.order \in Seq(Nodes(h)) /\ ToSet(h.order) = ToSet(g.order) \cup ToSet(new)
        /\ IsInjective(g.order) /\ IsInjective(new) /\ ToSet(g.order) \cap ToSet(new) = {}
             => IsInjective(h.order)
    BY <1>2, <1>11, <1>12, JoinedList
  <2> QED  BY <1>1, <1>11, <2>1 DEF Complete
<1>14. ASSUME g.order # << >> PROVE h.order # << >> /\ Head(h.order) = Head(g.order)
  <2>1. /\ Len(g.order) \in Nat \ {0} /\ Len(new) \in Nat
        /\ Head(g.order) = g.order[1]
    BY <1>11, <1>12, <1>14, TailList, ListFacts
  <2>2. /\ Len(h.order) = Len(g.order) + Len(new)
        /\ h.order[1] = g.order[1]
    BY <1>2, <1>11, <1>12, <2>1, ConcatProperties
  <2>3. h.order # << >>
    BY <1>13, <2>1, <2>2, NoList
  <2> QED  BY <1>13, <2>1, <2>2, <2>3, TailList
<1>15. IsGraph(h)
  <2>1. DOMAIN h.node = Nodes(h) /\ h.dst \in [Nodes(h) -> Seq(Nodes(h))]
        /\ h.src \in [Nodes(h) -> Seq(Nodes(h))]
    BY <1>2, <1>10
  <2>2. h.size \in Nat
    BY <1>1
  <2> QED  BY <1>2, <1>9, <1>13, <2>1, <2>2 DEF IsGraph, IsInfo, Origin
<1>16. ASSUME Wired(g) PROVE Wired(h)
  <2>1. \A n \in Nodes(h) : IsInjective(h.dst[n]) /\ IsInjective(h.src[n])
    BY <1>8, <1>16, NoList DEF Wired
  <2>2. \A a, b \in Nodes(h) : b \in ToSet(h.dst[a]) <=> a \in ToSet(h.src[b])
    <3>1. ToSet(<< >>) = {}
      BY NoList
    <3>2. \A n \in Nodes(g) : ToSet(g.dst[n]) \subseteq Nodes(g) /\ ToSet(g.src[n]) \subseteq Nodes(g)
      BY GraphFacts, ListFacts
    <3> QED  BY <1>8, <1>16, <3>1, <3>2 DEF Wired
  <2> QED  BY <2>1, <2>2 DEF Wired
<1>17. Extends(g, h)
  BY <1>1, <1>4 DEF Extends
<1> QED  BY <1>1, <1>4, <1>5, <1>6, <1>7, <1>13, <1>14, <1>15, <1>16, <1>17 DEF NodesAdded

\* What edges leave alone.
SameNodes(g, h) == IsGraph(h) /\ h.size = g.size /\ h.node = g.node /\ h.order = g.order

EdgesAdded(g, h, out, in) ==
  /\ SameNodes(g, h)
  /\ \A n \in Nodes(g) :
       /\ h.dst[n] = g.dst[n] \o out[n] /\ h.src[n] = g.src[n] \o in[n]
       /\ ToSet(h.dst[n]) = ToSet(g.dst[n]) \cup ToSet(out[n])
       /\ ToSet(h.src[n]) = ToSet(g.src[n]) \cup ToSet(in[n])
       /\ out[n] = << >> => h.dst[n] = g.dst[n]
       /\ in[n] = << >> => h.src[n] = g.src[n]
       /\ g.dst[n] = << >> => h.dst[n] = out[n]
       /\ g.src[n] = << >> => h.src[n] = in[n]
  /\ /\ Wired(g)
     /\ \A n \in Nodes(g) :
          /\ IsInjective(out[n]) /\ ToSet(out[n]) \cap ToSet(g.dst[n]) = {}
          /\ IsInjective(in[n])
     /\ \A a, b \in Nodes(g) : b \in ToSet(out[a]) <=> a \in ToSet(in[b])
     => Wired(h)

\* AddEdges puts the new neighbours behind the old ones.
LEMMA AddEdgesFacts ==
  ASSUME NEW g, IsGraph(g),
         NEW out \in [Nodes(g) -> Seq(Nodes(g))], NEW in \in [Nodes(g) -> Seq(Nodes(g))]
  PROVE  EdgesAdded(g, AddEdges(g, out, in), out, in)
<1> SUFFICES ASSUME NEW h, h = AddEdges(g, out, in) PROVE EdgesAdded(g, h, out, in)
  OBVIOUS
<1>1. /\ h.size = g.size /\ h.node = g.node /\ h.order = g.order
      /\ h.dst = [n \in Nodes(g) |-> g.dst[n] \o out[n]]
      /\ h.src = [n \in Nodes(g) |-> g.src[n] \o in[n]]
      /\ h = [size |-> h.size, node |-> h.node, dst |-> h.dst, src |-> h.src, order |-> h.order]
  BY DEF AddEdges, IsGraph
<1>2. \A n \in Nodes(g) : /\ h.dst[n] = g.dst[n] \o out[n] /\ h.src[n] = g.src[n] \o in[n]
                          /\ g.dst[n] \in Seq(Nodes(g)) /\ g.src[n] \in Seq(Nodes(g))
                          /\ out[n] \in Seq(Nodes(g)) /\ in[n] \in Seq(Nodes(g))
  BY <1>1, GraphFacts
<1>3. \A n \in Nodes(g) :
        /\ h.dst[n] \in Seq(Nodes(g)) /\ h.src[n] \in Seq(Nodes(g))
        /\ ToSet(h.dst[n]) = ToSet(g.dst[n]) \cup ToSet(out[n])
        /\ ToSet(h.src[n]) = ToSet(g.src[n]) \cup ToSet(in[n])
        /\ IsInjective(g.dst[n]) /\ IsInjective(out[n]) /\ ToSet(g.dst[n]) \cap ToSet(out[n]) = {}
             => IsInjective(h.dst[n])
        /\ IsInjective(g.src[n]) /\ IsInjective(in[n]) /\ ToSet(g.src[n]) \cap ToSet(in[n]) = {}
             => IsInjective(h.src[n])
  <2> TAKE n \in Nodes(g)
  <2>1. /\ h.dst[n] \in Seq(Nodes(g))
        /\ ToSet(h.dst[n]) = ToSet(g.dst[n]) \cup ToSet(out[n])
        /\ IsInjective(g.dst[n]) /\ IsInjective(out[n]) /\ ToSet(g.dst[n]) \cap ToSet(out[n]) = {}
             => IsInjective(h.dst[n])
    <3>1. g.dst[n] \in Seq(Nodes(g)) /\ out[n] \in Seq(Nodes(g))
      BY <1>2
    <3>2. /\ g.dst[n] \o out[n] \in Seq(Nodes(g))
          /\ ToSet(g.dst[n] \o out[n]) = ToSet(g.dst[n]) \cup ToSet(out[n])
          /\ IsInjective(g.dst[n]) /\ IsInjective(out[n]) /\ ToSet(g.dst[n]) \cap ToSet(out[n]) = {}
               => IsInjective(g.dst[n] \o out[n])
      BY <3>1, JoinedList
    <3> QED  BY <1>2, <3>2
  <2>2. /\ h.src[n] \in Seq(Nodes(g))
        /\ ToSet(h.src[n]) = ToSet(g.src[n]) \cup ToSet(in[n])
        /\ IsInjective(g.src[n]) /\ IsInjective(in[n]) /\ ToSet(g.src[n]) \cap ToSet(in[n]) = {}
             => IsInjective(h.src[n])
    <3>1. g.src[n] \in Seq(Nodes(g)) /\ in[n] \in Seq(Nodes(g))
      BY <1>2
    <3>2. /\ g.src[n] \o in[n] \in Seq(Nodes(g))
          /\ ToSet(g.src[n] \o in[n]) = ToSet(g.src[n]) \cup ToSet(in[n])
          /\ IsInjective(g.src[n]) /\ IsInjective(in[n]) /\ ToSet(g.src[n]) \cap ToSet(in[n]) = {}
               => IsInjective(g.src[n] \o in[n])
      BY <3>1, JoinedList
    <3> QED  BY <1>2, <3>2
  <2> QED  BY <2>1, <2>2
<1>4. \A n \in Nodes(g) :
        /\ out[n] = << >> => h.dst[n] = g.dst[n]
        /\ in[n] = << >> => h.src[n] = g.src[n]
        /\ g.dst[n] = << >> => h.dst[n] = out[n]
        /\ g.src[n] = << >> => h.src[n] = in[n]
  <2>1. \A s \in Seq(Nodes(g)) : s \o << >> = s /\ << >> \o s = s
    BY ConcatEmptySeq
  <2> TAKE n \in Nodes(g)
  <2>2. ASSUME out[n] = << >> PROVE h.dst[n] = g.dst[n]
    BY <1>2, <2>1, <2>2, Zenon
  <2>3. ASSUME in[n] = << >> PROVE h.src[n] = g.src[n]
    BY <1>2, <2>1, <2>3, Zenon
  <2>4. ASSUME g.dst[n] = << >> PROVE h.dst[n] = out[n]
    BY <1>2, <2>1, <2>4, Zenon
  <2>5. ASSUME g.src[n] = << >> PROVE h.src[n] = in[n]
    BY <1>2, <2>1, <2>5, Zenon
  <2> QED  BY <2>2, <2>3, <2>4, <2>5
<1>5. SameNodes(g, h)
  <2>1. Nodes(h) = Nodes(g)
    BY <1>1 DEF Nodes
  <2>2. h.dst \in [Nodes(h) -> Seq(Nodes(h))] /\ h.src \in [Nodes(h) -> Seq(Nodes(h))]
    BY <1>1, <1>3, <2>1
  <2>3. IsGraph(h)
    BY <1>1, <2>1, <2>2 DEF IsGraph, Origin
  <2> QED  BY <1>1, <2>3 DEF SameNodes
<1>6. ASSUME Wired(g),
             \A n \in Nodes(g) : /\ IsInjective(out[n]) /\ ToSet(out[n]) \cap ToSet(g.dst[n]) = {}
                                 /\ IsInjective(in[n]),
             \A a, b \in Nodes(g) : b \in ToSet(out[a]) <=> a \in ToSet(in[b])
      PROVE  Wired(h)
  <2>1. Nodes(h) = Nodes(g)
    BY <1>1 DEF Nodes
  <2>2. \A a, b \in Nodes(g) : b \in ToSet(h.dst[a]) <=> a \in ToSet(h.src[b])
    BY <1>3, <1>6 DEF Wired
  <2>3. ASSUME NEW n \in Nodes(g) PROVE ToSet(g.src[n]) \cap ToSet(in[n]) = {}
    <3>1. \A a \in ToSet(in[n]) : a \in Nodes(g)
      BY <1>2, ListFacts
    <3> QED  BY <1>6, <3>1 DEF Wired
  <2>4. \A n \in Nodes(g) : IsInjective(h.dst[n]) /\ IsInjective(h.src[n])
    BY <1>3, <1>6, <2>3 DEF Wired
  <2> QED  BY <2>1, <2>2, <2>4 DEF Wired
<1> QED  BY <1>2, <1>3, <1>4, <1>5, <1>6 DEF EdgesAdded

\* Connect.
Connects(g, h, as, bs) ==
  /\ SameNodes(g, h)
  /\ \A n \in Nodes(g) :
       /\ n \in ToSet(as) => /\ ToSet(h.dst[n]) = ToSet(g.dst[n]) \cup ToSet(bs)
                             /\ g.dst[n] = << >> => h.dst[n] = bs
       /\ n \notin ToSet(as) => h.dst[n] = g.dst[n]
       /\ n \in ToSet(bs) => /\ ToSet(h.src[n]) = ToSet(g.src[n]) \cup ToSet(as)
                             /\ h.src[n] = g.src[n] \o as
                             /\ g.src[n] = << >> => h.src[n] = as
       /\ n \notin ToSet(bs) => h.src[n] = g.src[n]
  /\ /\ Wired(g) /\ IsInjective(as) /\ IsInjective(bs)
     /\ \A a \in ToSet(as) : \A b \in ToSet(bs) : b \notin ToSet(g.dst[a])
     => Wired(h)

\* Connect links each of one list with each of the other.
LEMMA ConnectFacts ==
  ASSUME NEW g, IsGraph(g), NEW as \in Seq(Nodes(g)), NEW bs \in Seq(Nodes(g))
  PROVE  Connects(g, Connect(g, as, bs), as, bs)
<1> DEFINE out == [n \in Nodes(g) |-> IF n \in ToSet(as) THEN bs ELSE << >>]
           in == [n \in Nodes(g) |-> IF n \in ToSet(bs) THEN as ELSE << >>]
           h == Connect(g, as, bs)
<1>1. out \in [Nodes(g) -> Seq(Nodes(g))] /\ in \in [Nodes(g) -> Seq(Nodes(g))]
  BY NoList
<1>2. h = AddEdges(g, out, in)
  BY DEF Connect
<1>3. \A n \in Nodes(g) : /\ out[n] = IF n \in ToSet(as) THEN bs ELSE << >>
                          /\ in[n] = IF n \in ToSet(bs) THEN as ELSE << >>
  OBVIOUS
<1>4. ToSet(<< >>) = {} /\ IsInjective(<< >>)
  BY NoList
<1>5. ToSet(as) \subseteq Nodes(g) /\ ToSet(bs) \subseteq Nodes(g)
  BY ListFacts
<1> HIDE DEF out, in, h
<1>6. EdgesAdded(g, h, out, in)
  BY <1>1, <1>2, AddEdgesFacts
<1>7. ASSUME IsInjective(as), IsInjective(bs),
             \A a \in ToSet(as) : \A b \in ToSet(bs) : b \notin ToSet(g.dst[a])
      PROVE  /\ \A n \in Nodes(g) :
                 /\ IsInjective(out[n]) /\ ToSet(out[n]) \cap ToSet(g.dst[n]) = {}
                 /\ IsInjective(in[n])
             /\ \A a, b \in Nodes(g) : b \in ToSet(out[a]) <=> a \in ToSet(in[b])
  BY <1>3, <1>4, <1>7
<1>8. /\ SameNodes(g, h)
      /\ /\ Wired(g) /\ IsInjective(as) /\ IsInjective(bs)
         /\ \A a \in ToSet(as) : \A b \in ToSet(bs) : b \notin ToSet(g.dst[a])
         => Wired(h)
  BY <1>6, <1>7 DEF EdgesAdded
<1>9. ASSUME NEW n \in Nodes(g)
      PROVE  /\ n \in ToSet(as) => /\ ToSet(h.dst[n]) = ToSet(g.dst[n]) \cup ToSet(bs)
                                   /\ g.dst[n] = << >> => h.dst[n] = bs
             /\ n \notin ToSet(as) => h.dst[n] = g.dst[n]
             /\ n \in ToSet(bs) => /\ ToSet(h.src[n]) = ToSet(g.src[n]) \cup ToSet(as)
                                   /\ h.src[n] = g.src[n] \o as
                                   /\ g.src[n] = << >> => h.src[n] = as
             /\ n \notin ToSet(bs) => h.src[n] = g.src[n]
  BY <1>3, <1>6 DEF EdgesAdded
<1> QED  BY <1>8, <1>9 DEF Connects, h

\* Match.
Matches(g, h, as, bs) ==
  /\ SameNodes(g, h)
  /\ \A i \in 1 .. Len(as) :
       /\ ToSet(h.dst[as[i]]) = ToSet(g.dst[as[i]]) \cup {bs[i]}
       /\ h.dst[as[i]] = g.dst[as[i]] \o <<bs[i]>>
       /\ g.dst[as[i]] = << >> => h.dst[as[i]] = <<bs[i]>>
       /\ ToSet(h.src[bs[i]]) = ToSet(g.src[bs[i]]) \cup {as[i]}
       /\ h.src[bs[i]] = g.src[bs[i]] \o <<as[i]>>
       /\ g.src[bs[i]] = << >> => h.src[bs[i]] = <<as[i]>>
  /\ \A n \in Nodes(g) :
       /\ n \notin ToSet(as) => h.dst[n] = g.dst[n]
       /\ n \notin ToSet(bs) => h.src[n] = g.src[n]
  /\ /\ Wired(g)
     /\ \A i \in 1 .. Len(as) : bs[i] \notin ToSet(g.dst[as[i]])
     => Wired(h)

\* Match links the lists pairwise.
LEMMA MatchFacts ==
  ASSUME NEW g, IsGraph(g), NEW as \in Seq(Nodes(g)), NEW bs \in Seq(Nodes(g)),
         IsInjective(as), IsInjective(bs), Len(as) = Len(bs)
  PROVE  Matches(g, Match(g, as, bs), as, bs)
<1> DEFINE out == [n \in Nodes(g) |-> IF n \in ToSet(as) THEN <<bs[At(as, n)]>> ELSE << >>]
           in == [n \in Nodes(g) |-> IF n \in ToSet(bs) THEN <<as[At(bs, n)]>> ELSE << >>]
           k == Len(as)
           h == Match(g, as, bs)
<1>1. /\ k \in Nat /\ DOMAIN as = 1 .. k /\ DOMAIN bs = 1 .. k
      /\ \A i \in 1 .. k : as[i] \in Nodes(g) /\ bs[i] \in Nodes(g)
      /\ \A x : x \in ToSet(as) <=> \E i \in 1 .. k : as[i] = x
      /\ \A x : x \in ToSet(bs) <=> \E i \in 1 .. k : bs[i] = x
      /\ \A i, j \in 1 .. k : as[i] = as[j] => i = j
      /\ \A i, j \in 1 .. k : bs[i] = bs[j] => i = j
  BY ListFacts
<1>2. h = AddEdges(g, out, in)
  BY DEF Match
<1> HIDE DEF k, h
<1>3. \A i \in 1 .. k : At(as, as[i]) = i /\ At(bs, bs[i]) = i
  BY <1>1 DEF At
<1>4. /\ \A i \in 1 .. k : out[as[i]] = <<bs[i]>> /\ in[bs[i]] = <<as[i]>>
      /\ \A n \in Nodes(g) : /\ n \notin ToSet(as) => out[n] = << >>
                             /\ n \notin ToSet(bs) => in[n] = << >>
  BY <1>1, <1>3
<1>5. out \in [Nodes(g) -> Seq(Nodes(g))] /\ in \in [Nodes(g) -> Seq(Nodes(g))]
  <2>1. \A x \in Nodes(g) : <<x>> \in Seq(Nodes(g))
    OBVIOUS
  <2>2. << >> \in Seq(Nodes(g))
    OBVIOUS
  <2>3. out = [n \in Nodes(g) |-> out[n]] /\ in = [n \in Nodes(g) |-> in[n]]
    OBVIOUS
  <2> HIDE DEF out, in
  <2>4. ASSUME NEW n \in Nodes(g) PROVE out[n] \in Seq(Nodes(g))
    <3>1. CASE n \in ToSet(as)
      <4>1. PICK i \in 1 .. k : as[i] = n
        BY <1>1, <3>1
      <4>2. out[n] = <<bs[i]>> /\ bs[i] \in Nodes(g)
        BY <1>1, <1>4, <4>1
      <4> QED  BY <2>1, <4>2
    <3>2. CASE n \notin ToSet(as)
      <4>1. out[n] = << >>
        BY <1>4, <3>2
      <4> QED  BY <2>2, <4>1, Zenon
    <3> QED  BY <3>1, <3>2
  <2>5. ASSUME NEW n \in Nodes(g) PROVE in[n] \in Seq(Nodes(g))
    <3>1. CASE n \in ToSet(bs)
      <4>1. PICK i \in 1 .. k : bs[i] = n
        BY <1>1, <3>1
      <4>2. in[n] = <<as[i]>> /\ as[i] \in Nodes(g)
        BY <1>1, <1>4, <4>1
      <4> QED  BY <2>1, <4>2
    <3>2. CASE n \notin ToSet(bs)
      <4>1. in[n] = << >>
        BY <1>4, <3>2
      <4> QED  BY <2>2, <4>1, Zenon
    <3> QED  BY <3>1, <3>2
  <2> QED  BY <2>3, <2>4, <2>5
<1>6. ToSet(<< >>) = {} /\ IsInjective(<< >>)
  BY NoList
<1> HIDE DEF out, in
<1>7. EdgesAdded(g, h, out, in)
  BY <1>2, <1>5, AddEdgesFacts
<1>8. \A x \in Nodes(g) : ToSet(<<x>>) = {x} /\ IsInjective(<<x>>)
  BY OneList
<1>9. /\ \A i \in 1 .. k : /\ ToSet(out[as[i]]) = {bs[i]} /\ IsInjective(out[as[i]])
                           /\ ToSet(in[bs[i]]) = {as[i]} /\ IsInjective(in[bs[i]])
      /\ \A n \in Nodes(g) : /\ n \notin ToSet(as) => ToSet(out[n]) = {} /\ IsInjective(out[n])
                             /\ n \notin ToSet(bs) => ToSet(in[n]) = {} /\ IsInjective(in[n])
  <2>1. ASSUME NEW i \in 1 .. k
        PROVE  /\ ToSet(out[as[i]]) = {bs[i]} /\ IsInjective(out[as[i]])
               /\ ToSet(in[bs[i]]) = {as[i]} /\ IsInjective(in[bs[i]])
    <3>1. out[as[i]] = <<bs[i]>> /\ in[bs[i]] = <<as[i]>> /\ as[i] \in Nodes(g) /\ bs[i] \in Nodes(g)
      BY <1>1, <1>4
    <3> QED  BY <1>8, <3>1
  <2>2. ASSUME NEW n \in Nodes(g)
        PROVE  /\ n \notin ToSet(as) => ToSet(out[n]) = {} /\ IsInjective(out[n])
               /\ n \notin ToSet(bs) => ToSet(in[n]) = {} /\ IsInjective(in[n])
    BY <1>4, <1>6
  <2> QED  BY <2>1, <2>2
<1>10. /\ \A n \in Nodes(g) : IsInjective(out[n]) /\ IsInjective(in[n])
       /\ \A a, b \in Nodes(g) : b \in ToSet(out[a]) <=> \E i \in 1 .. k : a = as[i] /\ b = bs[i]
       /\ \A a, b \in Nodes(g) : a \in ToSet(in[b]) <=> \E i \in 1 .. k : a = as[i] /\ b = bs[i]
  <2>1. ASSUME NEW n \in Nodes(g) PROVE IsInjective(out[n]) /\ IsInjective(in[n])
    BY <1>1, <1>9, Zenon
  <2>2. ASSUME NEW a \in Nodes(g), NEW b \in Nodes(g)
        PROVE  b \in ToSet(out[a]) <=> \E i \in 1 .. k : a = as[i] /\ b = bs[i]
    <3>1. CASE a \in ToSet(as)
      <4>1. PICK i \in 1 .. k : as[i] = a
        BY <1>1, <3>1
      <4>2. ToSet(out[a]) = {bs[i]} /\ \A j \in 1 .. k : as[j] = a => j = i
        BY <1>1, <1>9, <4>1
      <4> QED  BY <4>1, <4>2
    <3>2. CASE a \notin ToSet(as)
      BY <1>1, <1>9, <3>2
    <3> QED  BY <3>1, <3>2
  <2>3. ASSUME NEW a \in Nodes(g), NEW b \in Nodes(g)
        PROVE  a \in ToSet(in[b]) <=> \E i \in 1 .. k : a = as[i] /\ b = bs[i]
    <3>1. CASE b \in ToSet(bs)
      <4>1. PICK i \in 1 .. k : bs[i] = b
        BY <1>1, <3>1
      <4>2. ToSet(in[b]) = {as[i]} /\ \A j \in 1 .. k : bs[j] = b => j = i
        BY <1>1, <1>9, <4>1
      <4> QED  BY <4>1, <4>2
    <3>2. CASE b \notin ToSet(bs)
      BY <1>1, <1>9, <3>2
    <3> QED  BY <3>1, <3>2
  <2> QED  BY <2>1, <2>2, <2>3
<1>11. ASSUME Wired(g), \A i \in 1 .. k : bs[i] \notin ToSet(g.dst[as[i]]) PROVE Wired(h)
  <2>1. ASSUME NEW n \in Nodes(g) PROVE ToSet(out[n]) \cap ToSet(g.dst[n]) = {}
    <3>1. ASSUME NEW b \in ToSet(out[n]), b \in ToSet(g.dst[n]) PROVE FALSE
      <4>1. b \in Nodes(g)
        BY <3>1, GraphFacts, ListFacts
      <4>2. PICK i \in 1 .. k : n = as[i] /\ b = bs[i]
        BY <1>10, <3>1, <4>1
      <4> QED  BY <1>11, <3>1, <4>2
    <3> QED  BY <3>1
  <2>2. \A a, b \in Nodes(g) : b \in ToSet(out[a]) <=> a \in ToSet(in[b])
    BY <1>10
  <2> QED  BY <1>7, <1>10, <1>11, <2>1, <2>2 DEF EdgesAdded
<1>12. ASSUME NEW i \in 1 .. k
       PROVE  /\ ToSet(h.dst[as[i]]) = ToSet(g.dst[as[i]]) \cup {bs[i]}
              /\ h.dst[as[i]] = g.dst[as[i]] \o <<bs[i]>>
              /\ g.dst[as[i]] = << >> => h.dst[as[i]] = <<bs[i]>>
              /\ ToSet(h.src[bs[i]]) = ToSet(g.src[bs[i]]) \cup {as[i]}
              /\ h.src[bs[i]] = g.src[bs[i]] \o <<as[i]>>
              /\ g.src[bs[i]] = << >> => h.src[bs[i]] = <<as[i]>>
  <2>1. as[i] \in Nodes(g) /\ bs[i] \in Nodes(g) /\ out[as[i]] = <<bs[i]>> /\ in[bs[i]] = <<as[i]>>
        /\ ToSet(out[as[i]]) = {bs[i]} /\ ToSet(in[bs[i]]) = {as[i]}
    BY <1>1, <1>4, <1>9
  <2>2. /\ ToSet(h.dst[as[i]]) = ToSet(g.dst[as[i]]) \cup ToSet(out[as[i]])
        /\ h.dst[as[i]] = g.dst[as[i]] \o out[as[i]]
        /\ g.dst[as[i]] = << >> => h.dst[as[i]] = out[as[i]]
    BY <1>7, <2>1 DEF EdgesAdded
  <2>3. /\ ToSet(h.src[bs[i]]) = ToSet(g.src[bs[i]]) \cup ToSet(in[bs[i]])
        /\ h.src[bs[i]] = g.src[bs[i]] \o in[bs[i]]
        /\ g.src[bs[i]] = << >> => h.src[bs[i]] = in[bs[i]]
    BY <1>7, <2>1 DEF EdgesAdded
  <2> QED  BY <2>1, <2>2, <2>3, Zenon
<1>13. \A n \in Nodes(g) : /\ n \notin ToSet(as) => h.dst[n] = g.dst[n]
                           /\ n \notin ToSet(bs) => h.src[n] = g.src[n]
  BY <1>4, <1>7 DEF EdgesAdded
<1>14. SameNodes(g, h)
  BY <1>7 DEF EdgesAdded
<1> QED  BY <1>11, <1>12, <1>13, <1>14 DEF Matches, h, k

----------------------------------------------------------------------------
(* The inductive invariant *)

\* Before the nodes are sorted by name, no step depends on names that differ.
Early == {"construct", "wire", "sortLayers", "nodes", "edges"}

Sane == phase \notin Early => DistinctNames

\* The net's own, from its configuration.
IsRank(rank) ==
  /\ rank \in [Layers -> 1 .. Len(LayerNames)]
  /\ \A l \in Layers : \A m \in ToSet(srclayers[l]) : rank[m] < rank[l]

Rank == CHOOSE rank : IsRank(rank)

NetInv == IsRank(Rank) /\ \A l \in Layers : IsInjective(srclayers[l])

\* The nodes of a layer are those that layer2nodes has, by partition.
PartsInv ==
  /\ phase \in {"construct", "wire", "sortLayers"} =>
       /\ \A l \in Layers : layer2nodes[l] = << >>
       /\ phase = "construct" => graph = NoGraph
       /\ phase # "construct" =>
            /\ graph.size = Len(LayerNames)
            /\ \A n \in Nodes(graph) :
                 /\ Origin(graph, n) = LayerNames[n] /\ Name(graph, n) = <<LayerNames[n]>>
                 /\ graph.node[n].partition = 0
  /\ phase \notin {"construct", "wire", "sortLayers"} =>
       /\ \A l \in Layers :
            IF phase = "nodes" /\ l \in ToSet(todo) THEN layer2nodes[l] = << >>
            ELSE Len(layer2nodes[l]) = PartsOf(l)
       /\ \A l \in Layers : \A i \in 1 .. Len(layer2nodes[l]) :
            /\ Origin(graph, layer2nodes[l][i]) = l
            /\ graph.node[layer2nodes[l][i]].partition = i - 1
       /\ \A n \in Nodes(graph) : OfNet(n) => n \in ToSet(layer2nodes[Origin(graph, n)])

\* The loops take each item once.
LoopInv ==
  /\ IsInjective(todo)
  /\ phase \in {"construct", "nodes", "splits"} => walk = << >>
  /\ phase \in {"wire", "edges", "bridges"} /\ walk # << >> =>
       IsInjective(walk[1].left) /\ walk[1].at \notin ToSet(todo)
  /\ phase \in {"wire", "edges"} /\ walk # << >> =>
       ToSet(walk[1].left) \subseteq ToSet(srclayers[walk[1].at])
  /\ phase \in {"nodes", "edges"} => ToSet(layers) = Layers /\ IsInjective(layers)

\* Every edge goes up.
Ascends(g, f) ==
  /\ f \in [Nodes(g) -> Nat]
  /\ \A n \in Nodes(g) : \A m \in ToSet(g.src[n]) : f[m] < f[n]

Ranked ==
  \E f : /\ Ascends(graph, f)
         /\ phase \in Early => \A n \in Nodes(graph) : OfNet(n) => f[n] = 4 * Rank[Origin(graph, n)]

\* The loop over the sources of l has not come to s.
Pending(s, l) ==
  \/ phase \in {"construct", "nodes"}
  \/ /\ phase \in {"wire", "edges"}
     /\ \/ l \in ToSet(todo)
        \/ walk # << >> /\ walk[1].at = l /\ s \in ToSet(walk[1].left)

Linked(s, l) == s \in ToSet(srclayers[l]) /\ ~ Pending(s, l)

\* What a part n of layer l, whose partition is that of n, needs of m.
Suits(g, m, n) ==
  OneToOne(Origin(g, n)) /\ type[Origin(g, m)] = type[Origin(g, n)] =>
    g.node[m].partition = g.node[n].partition

\* What n reads as far as the edges of its layer are there.
Wants(n) ==
  {m \in Nodes(graph) :
     OfNet(m) /\ Linked(Origin(graph, m), Origin(graph, n)) /\ Suits(graph, m, n)}

\* What comes out of m, if F[m] is what goes into it.
Given(g, F, m) == IF Origin(g, m) \in Layers THEN {m} ELSE F[m]

IsFeed(g, F) ==
  /\ F = [n \in Nodes(g) |-> F[n]]
  /\ \A n \in Nodes(g) : F[n] = UNION {Given(g, F, m) : m \in ToSet(g.src[n])}

Fed == \E F : IsFeed(graph, F) /\ \A n \in Nodes(graph) : OfNet(n) => F[n] = Wants(n)

Bridges == {"kBridgeSrc", "kBridgeDst"}

KindsInv ==
  /\ phase \in Early \ {"edges"} => \A n \in Nodes(graph) : OfNet(n)
  /\ \A n \in Nodes(graph) : Origin(graph, n) \in Bridges => phase \in {"bridges", "sortBridged", "done"}
  /\ \A n \in Nodes(graph) : ~ OfNet(n) => graph.src[n] # << >>

FanInv ==
  /\ phase = "splits" /\ graph.order # << >> =>
       OfNet(Head(graph.order)) /\ IsData(Origin(graph, Head(graph.order)))
  /\ phase \in {"splits", "bridges", "sortBridged", "done"} =>
       \A n \in Nodes(graph) :
         Len(graph.dst[n]) > 1 =>
           \/ Origin(graph, n) \in {"kSlice", "kSplit"}
           \/ OfNet(n) /\ IsData(Origin(graph, n))
           \/ phase = "splits" /\ n \in ToSet(todo)

\* The loop over the nodes has not come to the edge from n to d.
Unbridged(n, d) ==
  /\ phase = "bridges"
  /\ n \in ToSet(todo) \/ (walk # << >> /\ walk[1].at = n /\ d \in ToSet(walk[1].left))

Pair(g, n, d) == Origin(g, n) = "kBridgeSrc" /\ Origin(g, d) = "kBridgeDst"

BorderInv ==
  /\ phase \in {"bridges", "sortBridged", "done"} =>
       \A n \in Nodes(graph) : \A d \in ToSet(graph.dst[n]) :
         /\ Pair(graph, n, d) => Apart(graph, n, d)
         /\ Apart(graph, n, d) => Pair(graph, n, d) \/ Unbridged(n, d)
  /\ phase = "bridges" =>
       /\ \A n \in ToSet(todo) : /\ Origin(graph, n) \notin Bridges
                                 /\ \A d \in ToSet(graph.dst[n]) : Origin(graph, d) \notin Bridges
       /\ walk # << >> =>
            /\ Origin(graph, walk[1].at) \notin Bridges
            /\ ToSet(walk[1].left) \subseteq ToSet(graph.dst[walk[1].at])
            /\ \A d \in ToSet(walk[1].left) : Origin(graph, d) \notin Bridges

PieceInv ==
  \A n \in Nodes(graph) :
    /\ Origin(graph, n) = "kSlice" => Whole(graph.dst[n])
    /\ Origin(graph, n) = "kConcate" => Whole(graph.src[n])
    /\ Origin(graph, n) = "kBridgeSrc" => graph.dst[n] # << >>
    /\ Origin(graph, n) = "kBridgeDst" => graph.src[n] # << >>

Height == CHOOSE f : Ascends(graph, f)

Seen(n)     == Name(graph, n) \in visited
Finished(n) == Name(graph, n) \in ToSet(stack)

\* A depth-first search.  Nodes are finished or their call runs, or they are
\* still to come.
SeenInv ==
  /\ \A n \in Nodes(graph) : Seen(n) <=> Finished(n) \/ \E i \in 1 .. Len(walk) : walk[i].at = n
  /\ \A n \in Nodes(graph) : Seen(n) \/ n \in ToSet(todo)

\* A call that runs has come to all its neighbours but those it has left.
CallInv ==
  \A i \in 1 .. Len(walk) :
    /\ ~ Finished(walk[i].at)
    /\ ToSet(walk[i].left) \subseteq ToSet(graph.dst[walk[i].at])
    /\ \A d \in ToSet(graph.dst[walk[i].at]) : Seen(d) \/ d \in ToSet(walk[i].left)

\* The calls climb.
ClimbInv == \A i, j \in 1 .. Len(walk) : i < j => Height[walk[j].at] < Height[walk[i].at]

\* What is finished leads to what is finished, and lies on it.
StackInv ==
  /\ IsInjective(stack)
  /\ \A n \in Nodes(graph) : Finished(n) => \A d \in ToSet(graph.dst[n]) : Finished(d)
  /\ \A i, j \in 1 .. Len(stack) : \A n \in Nodes(graph) : \A d \in ToSet(graph.dst[n]) :
       stack[i] = Name(graph, n) /\ stack[j] = Name(graph, d) => i < j

SortInv == Sorting => SeenInv /\ CallInv /\ ClimbInv /\ StackInv

DoneInv ==
  Done => \A i, j \in 1 .. Len(graph.order) :
            graph.order[j] \in ToSet(graph.dst[graph.order[i]]) => i < j

Body ==
  /\ Wired(graph) /\ Complete(graph) /\ LoopInv /\ Ranked /\ Fed /\ KindsInv
  /\ FanInv /\ BorderInv /\ PieceInv /\ SortInv /\ DoneInv

IInv == TypeOK /\ NetInv /\ PartsInv /\ (Sane => Body)

----------------------------------------------------------------------------
(* What the invariant says of a graph that is done *)

\* Where edges go up, at most one function says what goes into each node.
LEMMA FeedUnique ==
  ASSUME NEW g, IsGraph(g), NEW f, Ascends(g, f), NEW F, IsFeed(g, F), NEW G, IsFeed(g, G)
  PROVE  F = G
<1> DEFINE Bad == {n \in Nodes(g) : F[n] # G[n]}  H == {f[n] : n \in Bad}
<1>1. CASE Bad = {}
  <2>1. F = [n \in Nodes(g) |-> F[n]] /\ G = [n \in Nodes(g) |-> G[n]]
    BY DEF IsFeed
  <2> QED  BY <1>1, <2>1
<1>2. CASE Bad # {}
  <2>1. H \in SUBSET Nat /\ H # {}
    BY <1>2 DEF Ascends
  <2>2. PICK h \in H : \A y \in H : h <= y
    BY <2>1, LeastOf
  <2>3. PICK n \in Bad : h = f[n]
    BY <2>2
  <2>4. ASSUME NEW m \in ToSet(g.src[n]) PROVE Given(g, F, m) = Given(g, G, m)
    <3>1. m \in Nodes(g) /\ f[m] < f[n] /\ f[m] \in Nat /\ f[n] \in Nat
      BY GraphFacts, ListFacts DEF Ascends
    <3>2. m \notin Bad
      <4>1. ASSUME m \in Bad PROVE f[n] <= f[m]
        BY <2>2, <2>3, <4>1
      <4> QED  BY <3>1, <4>1
    <3> QED  BY <3>1, <3>2 DEF Given
  <2>5. {Given(g, F, m) : m \in ToSet(g.src[n])} = {Given(g, G, m) : m \in ToSet(g.src[n])}
    BY <2>4
  <2> QED  BY <2>5 DEF IsFeed
<1> QED  BY <1>1, <1>2

\* With names that differ, the node of a name is the node.
LEMMA NamedSame ==
  ASSUME NEW g, Distinct(g), NEW n \in Nodes(g), g.size \in Nat
  PROVE  Named(g, Name(g, n)) = n
<1>1. Name(g, n) = Name(g, n) /\ \A m \in n + 1 .. g.size : Name(g, m) # Name(g, n)
  <2>1. \A m \in n + 1 .. g.size : m \in Nodes(g) /\ m # n
    BY DEF Nodes
  <2> QED  BY <2>1 DEF Distinct
<1>2. \A k \in Nodes(g) : Name(g, k) = Name(g, n) => k = n
  BY DEF Distinct
<1>3. Named(g, Name(g, n)) \in Nodes(g) /\ Name(g, Named(g, Name(g, n))) = Name(g, n)
  BY <1>1 DEF Named
<1> QED  BY <1>2, <1>3

\* Where a function of that kind exists, Feeds is one: found by name is
\* found, as names differ.
LEMMA FeedsIsFeed ==
  ASSUME TypeOK, DistinctNames, NEW F, IsFeed(graph, F)
  PROVE  IsFeed(graph, Feeds)
<1>1. IsGraph(graph) /\ graph.size \in Nat /\ Distinct(graph)
  BY GraphFacts DEF TypeOK, DistinctNames, Distinct
<1>2. \A n \in Nodes(graph) : SrcLayers(n) = ToSet(graph.src[n])
  <2> TAKE n \in Nodes(graph)
  <2>1. \A m \in ToSet(graph.src[n]) : m \in Nodes(graph)
    BY <1>1, GraphFacts, ListFacts
  <2>2. \A m \in ToSet(graph.src[n]) : Named(graph, Name(graph, m)) = m
    BY <1>1, <2>1, NamedSame
  <2> QED  BY <2>2 DEF SrcLayers
<1> DEFINE Eq(G) == G = [n \in Nodes(graph) |-> UNION {IF OfNet(m) THEN {m} ELSE G[m] : m \in SrcLayers(n)}]
<1>3. \A n \in Nodes(graph) :
        F[n] = UNION {IF OfNet(m) THEN {m} ELSE F[m] : m \in SrcLayers(n)}
  BY <1>2 DEF IsFeed, Given, OfNet
<1>4. Eq(F)
  BY <1>3 DEF IsFeed
<1>5. Feeds = CHOOSE G : Eq(G)
  BY DEF Feeds
<1> HIDE DEF Eq
<1>6. Eq(Feeds)
  BY <1>4, <1>5
<1>7. /\ Feeds = [n \in Nodes(graph) |-> Feeds[n]]
      /\ \A n \in Nodes(graph) :
           Feeds[n] = UNION {IF OfNet(m) THEN {m} ELSE Feeds[m] : m \in SrcLayers(n)}
  BY <1>6 DEF Eq
<1>8. \A n \in Nodes(graph) :
        Feeds[n] = UNION {Given(graph, Feeds, m) : m \in ToSet(graph.src[n])}
  BY <1>2, <1>7 DEF Given, OfNet
<1> QED  BY <1>7, <1>8 DEF IsFeed

\* A graph that is done has the five properties.
LEMMA DoneProperties ==
  IInv => SourcesFirst /\ BridgedAtBorders /\ FanOutIsSplit /\ OnePieceEach /\ DependenciesKept
<1> SUFFICES ASSUME IInv, Done, DistinctNames
             PROVE  SourcesFirst /\ BridgedAtBorders /\ FanOutIsSplit /\ OnePieceEach /\ DependenciesKept
  BY DEF SourcesFirst, BridgedAtBorders, FanOutIsSplit, OnePieceEach, DependenciesKept
<1>1. TypeOK /\ Body /\ phase = "done"
  BY DEF IInv, Sane, Done
<1>2. SourcesFirst
  <2>1. DOMAIN graph.order = 1 .. Len(graph.order)
    BY <1>1, GraphFacts, ListFacts DEF TypeOK
  <2> QED  BY <1>1, <2>1 DEF Body, DoneInv, Complete, SourcesFirst
<1>3. BridgedAtBorders
  <2>1. ASSUME NEW n \in Nodes(graph), NEW d \in ToSet(graph.dst[n])
        PROVE  /\ Pair(graph, n, d) => Apart(graph, n, d)
               /\ Apart(graph, n, d) => Pair(graph, n, d)
    BY <1>1 DEF Body, BorderInv, Unbridged
  <2> QED  BY <2>1 DEF BridgedAtBorders, Pair, Apart
<1>4. FanOutIsSplit
  BY <1>1 DEF Body, FanInv, FanOutIsSplit
<1>5. OnePieceEach
  BY <1>1 DEF Body, PieceInv, OnePieceEach
<1>6. DependenciesKept
  <2>1. PICK F : IsFeed(graph, F) /\ \A n \in Nodes(graph) : OfNet(n) => F[n] = Wants(n)
    BY <1>1 DEF Body, Fed
  <2>2. PICK f : Ascends(graph, f)
    BY <1>1 DEF Body, Ranked
  <2>3. IsFeed(graph, Feeds)
    BY <1>1, <2>1, FeedsIsFeed
  <2>4. Feeds = F
    BY <1>1, <2>1, <2>2, <2>3, FeedUnique DEF TypeOK
  <2>5. ASSUME NEW n \in Nodes(graph), OfNet(n) PROVE Wants(n) = Needs(n)
    <3>1. Origin(graph, n) \in Layers /\ srclayers[Origin(graph, n)] \in Seq(Layers)
      BY <1>1, <2>5 DEF OfNet, TypeOK
    <3>2. ToSet(srclayers[Origin(graph, n)]) \subseteq Layers
      BY <3>1, ListFacts
    <3>3. \A s : ~ Pending(s, Origin(graph, n))
      BY <1>1 DEF Pending
    <3> QED  BY <3>2, <3>3 DEF Wants, Needs, Linked, OfNet, Suits
  <2> QED  BY <2>1, <2>4, <2>5 DEF DependenciesKept
<1> QED  BY <1>2, <1>3, <1>4, <1>5, <1>6

----------------------------------------------------------------------------
(* The initial states *)

\* The invariant holds at first: nothing is built yet.
LEMMA InitIInv == Init => IInv
<1> SUFFICES ASSUME Init PROVE IInv
  OBVIOUS
<1> USE DEF Init
<1>1. /\ graph = NoGraph /\ Nodes(graph) = {} /\ IsGraph(graph)
      /\ graph.dst = << >> /\ graph.src = << >> /\ graph.order = << >> /\ graph.size = 0
  BY DEF NoGraph, Nodes, IsGraph
<1>2. TypeOK
  <2>1. srclayers \in [Layers -> Seq(Layers)]
    <3>1. \A s \in BoundedSeq(Layers, Len(LayerNames)) : s \in Seq(Layers)
      <4> TAKE s \in BoundedSeq(Layers, Len(LayerNames))
      <4>1. PICK m \in 0 .. Len(LayerNames) : s \in [1 .. m -> Layers]
        BY DEF BoundedSeq, SeqOf
      <4>2. m \in Nat
        OBVIOUS
      <4> QED  BY <4>1, <4>2, ListOf
    <3> QED  BY <3>1
  <2>2. layer2nodes \in [Layers -> Seq(Nodes(graph))] /\ layers \in Seq(Layers)
        /\ todo \in Seq(Items) /\ walk \in Seq([at : Items, left : Seq(Items)])
    BY <1>1
  <2> QED  BY <1>1, <2>1, <2>2 DEF TypeOK, Sorting
<1>3. NetInv
  <2>1. \E rank : IsRank(rank)
    BY DEF Acyclic, IsRank
  <2> QED  BY <2>1 DEF NetInv, Rank
<1>4. PartsInv
  BY DEF PartsInv
<1>5. Body
  <2>1. ToSet(<< >>) = {} /\ IsInjective(<< >>)
    BY NoList
  <2>2. Wired(graph) /\ Complete(graph) /\ LoopInv
    BY <1>1, <2>1 DEF Wired, Complete, LoopInv
  <2>3. Ranked
    <3>1. Ascends(graph, << >>)
      BY <1>1 DEF Ascends
    <3> QED  BY <1>1, <3>1 DEF Ranked
  <2>4. Fed
    <3>1. IsFeed(graph, << >>)
      BY <1>1 DEF IsFeed
    <3> QED  BY <1>1, <3>1 DEF Fed
  <2>5. KindsInv /\ FanInv /\ BorderInv /\ PieceInv /\ SortInv /\ DoneInv
    BY <1>1 DEF KindsInv, FanInv, BorderInv, PieceInv, SortInv, DoneInv, Sorting, Done
  <2> QED  BY <2>2, <2>3, <2>4, <2>5 DEF Body
<1> QED  BY <1>2, <1>3, <1>4, <1>5 DEF IInv

----------------------------------------------------------------------------
(* Steps that leave the edges alone *)

\* A net that does not change keeps its ranks.
LEMMA NetKept == NetInv /\ UNCHANGED net => NetInv'
  BY DEF NetInv, net, IsRank, Rank

\* A list of one frame.
LEMMA OneFrame ==
  ASSUME NEW S, NEW a \in S, NEW s \in Seq(S)
  PROVE  LET w == <<[at |-> a, left |-> s]>> IN
         /\ w \in Seq([at : S, left : Seq(S)]) /\ w # << >> /\ Len(w) = 1
         /\ w[1].at = a /\ w[1].left = s
  OBVIOUS

\* What was read stays read, when no edge is added and no loop goes on.
LEMMA FedKept ==
  ASSUME Fed, UNCHANGED net, graph'.size = graph.size, graph'.node = graph.node, graph'.src = graph.src,
         \A s, l \in Layers : Linked(s, l)' <=> Linked(s, l)
  PROVE  Fed'
<1>1. PICK F : IsFeed(graph, F) /\ \A n \in Nodes(graph) : OfNet(n) => F[n] = Wants(n)
  BY DEF Fed
<1>2. Nodes(graph') = Nodes(graph) /\ \A n : Origin(graph', n) = Origin(graph, n)
  BY DEF Nodes, Origin
<1>3. IsFeed(graph', F)
  BY <1>1, <1>2 DEF IsFeed, Given
<1>4. ASSUME NEW n \in Nodes(graph), OfNet(n) PROVE Wants(n)' = Wants(n)
  <2>1. \A m \in Nodes(graph) : OfNet(m)' <=> OfNet(m)
    BY <1>2 DEF OfNet
  <2>2. \A m \in Nodes(graph) : Suits(graph, m, n)' <=> Suits(graph, m, n)
    BY <1>2 DEF Suits, OneToOne, net
  <2>3. \A m \in Nodes(graph) : OfNet(m) =>
          (Linked(Origin(graph, m), Origin(graph, n))' <=> Linked(Origin(graph, m), Origin(graph, n)))
    BY <1>2, <1>4 DEF OfNet
  <2> QED  BY <1>2, <2>1, <2>2, <2>3 DEF Wants
<1>5. \A n \in Nodes(graph') : OfNet(n)' => F[n] = Wants(n)'
  BY <1>1, <1>2, <1>4 DEF OfNet
<1> QED  BY <1>3, <1>5 DEF Fed

\* What a step keeps that leaves the graph, the net and its parts alone.
Still == UNCHANGED <<net, layers, graph, layer2nodes>>

\* A step that leaves the graph alone keeps what is about the graph alone.
LEMMA StillKept ==
  ASSUME IInv, Still
  PROVE  /\ NetInv'
         /\ gsize' \in GroupSizes
         /\ (type \in [Layers -> {"kNone", "kDataPartition", "kLayerPartition"}])'
         /\ (connection \in [Layers -> {"kOneToOne", "kOneToAll"}])'
         /\ (location \in [Layers -> Locations])'
         /\ (srclayers \in [Layers -> Seq(Layers)])'
         /\ (layers \in Seq(Layers))' /\ IsGraph(graph)' /\ (layer2nodes \in [Layers -> Seq(Nodes(graph))])'
         /\ Nodes(graph)' = Nodes(graph) /\ Names' = Names
         /\ DistinctNames' <=> DistinctNames
         /\ Body => Wired(graph)' /\ Complete(graph)' /\ PieceInv'
<1>1. /\ gsize' = gsize /\ type' = type /\ connection' = connection /\ location' = location
      /\ srclayers' = srclayers /\ layers' = layers /\ graph' = graph /\ layer2nodes' = layer2nodes
  BY DEF Still, net
<1>2. NetInv'
  BY NetKept DEF IInv, Still
<1>3. Names' = Names /\ (DistinctNames' <=> DistinctNames)
  BY <1>1 DEF Names, DistinctNames
<1>4. Body => PieceInv'
  BY <1>1 DEF Body, PieceInv, Whole, Past
<1> QED  BY <1>1, <1>2, <1>3, <1>4 DEF IInv, TypeOK, Body

\* Such a step keeps Body if the conjuncts about loops hold.
LEMMA StillBody ==
  ASSUME IInv, Body, Still, phase' \in Early => phase \in Early,
         \A s, l \in Layers : Linked(s, l)' <=> Linked(s, l),
         LoopInv', KindsInv', FanInv', BorderInv', SortInv', DoneInv'
  PROVE  Body'
<1>1. Wired(graph)' /\ Complete(graph)' /\ PieceInv' /\ UNCHANGED net /\ graph' = graph
  BY StillKept DEF Still
<1>2. Ranked'
  <2>1. PICK f : /\ Ascends(graph, f)
                 /\ phase \in Early => \A n \in Nodes(graph) : OfNet(n) => f[n] = 4 * Rank[Origin(graph, n)]
    BY DEF Body, Ranked
  <2>2. Ascends(graph', f) /\ Rank' = Rank
    BY <1>1, <2>1 DEF net, Rank, IsRank
  <2> QED  BY <1>1, <2>1, <2>2 DEF Ranked, OfNet
<1>3. Fed'
  BY <1>1, FedKept DEF Body
<1> QED  BY <1>1, <1>2, <1>3 DEF Body

\* No source of the layer is linked before or after.
LEMMA OpenLayerKeeps == IInv /\ OpenLayer => IInv'
<1> SUFFICES ASSUME IInv, OpenLayer PROVE IInv'
  OBVIOUS
<1>1. /\ phase \in {"wire", "edges"} /\ walk = << >> /\ todo # << >>
      /\ walk' = <<[at |-> Head(todo), left |-> srclayers[Head(todo)]]>>
      /\ todo' = Tail(todo) /\ phase' = phase /\ visited' = visited /\ stack' = stack
      /\ Still
  BY DEF OpenLayer, Still, calls
<1>2. TypeOK /\ NetInv /\ PartsInv /\ Body
  BY <1>1 DEF IInv, Sane, Early
<1> DEFINE l == Head(todo)
<1>3. todo \in Seq(Layers) /\ Items = Layers /\ Items' = Layers
  BY <1>1, <1>2 DEF TypeOK, Items
<1>4. /\ l \in Layers /\ Tail(todo) \in Seq(Layers)
      /\ ToSet(todo) = {l} \cup ToSet(Tail(todo))
      /\ IsInjective(Tail(todo)) /\ l \notin ToSet(Tail(todo))
  BY <1>1, <1>2, <1>3, TailList DEF Body, LoopInv
<1>5. srclayers[l] \in Seq(Layers) /\ IsInjective(srclayers[l])
  BY <1>2, <1>4 DEF TypeOK, NetInv
<1> HIDE DEF l
<1>6. walk' \in Seq([at : Layers, left : Seq(Layers)]) /\ walk' # << >>
      /\ walk'[1].at = l /\ walk'[1].left = srclayers[l]
  BY <1>1, <1>4, <1>5, OneFrame DEF l
<1>7. TypeOK'
  BY <1>1, <1>2, <1>3, <1>4, <1>6, StillKept DEF TypeOK, Sorting
<1>8. PartsInv'
  BY <1>1, <1>2 DEF PartsInv, Still, net, PartsOf, Partitioned, OfNet
<1>9. Body'
  <2>1. LoopInv'
    BY <1>1, <1>2, <1>4, <1>5, <1>6 DEF Body, LoopInv, Still, net
  <2>2. ASSUME NEW s \in Layers, NEW m \in Layers PROVE Linked(s, m)' <=> Linked(s, m)
    BY <1>1, <1>4, <1>6 DEF Linked, Pending, Still, net
  <2>3. KindsInv'
    BY <1>1, <1>2 DEF Body, KindsInv, Still, OfNet
  <2>4. FanInv' /\ BorderInv' /\ SortInv' /\ DoneInv'
    BY <1>1 DEF FanInv, BorderInv, SortInv, DoneInv, Sorting, Done
  <2> QED  BY <1>1, <1>2, <2>1, <2>2, <2>3, <2>4, StillBody
<1> QED  BY <1>1, <1>7, <1>8, <1>9, StillKept DEF IInv

\* An inner loop that has nothing left leaves nothing pending.
LEMMA CloseKeeps == IInv /\ Close => IInv'
<1> SUFFICES ASSUME IInv, Close PROVE IInv'
  OBVIOUS
<1>1. /\ ~ Sorting /\ walk # << >> /\ walk[1].left = << >> /\ walk' = << >>
      /\ todo' = todo /\ phase' = phase /\ visited' = visited /\ stack' = stack
      /\ Still
  BY DEF Close, Still, calls
<1>2. TypeOK /\ NetInv /\ PartsInv
  BY DEF IInv
<1>3. TypeOK'
  <2>1. Items' = Items
    BY <1>1 DEF Items, Still
  <2> QED  BY <1>1, <1>2, <2>1, StillKept DEF TypeOK, Sorting
<1>4. PartsInv'
  BY <1>1, <1>2 DEF PartsInv, Still, net, PartsOf, Partitioned, OfNet
<1>5. ASSUME Sane' PROVE Body'
  <2>1. Body
    BY <1>1, <1>5, StillKept DEF IInv, Sane
  <2>2. ToSet(<< >>) = {}
    BY NoList
  <2>3. LoopInv'
    BY <1>1, <2>1 DEF Body, LoopInv, Still, net
  <2>4. ASSUME NEW s \in Layers, NEW m \in Layers PROVE Linked(s, m)' <=> Linked(s, m)
    BY <1>1, <2>2 DEF Linked, Pending, Still, net
  <2>5. KindsInv' /\ FanInv' /\ DoneInv'
    BY <1>1, <2>1 DEF Body, KindsInv, FanInv, DoneInv, Done, Still, OfNet, IsData, net
  <2>6. BorderInv'
    <3>1. \A n, d : Unbridged(n, d)' <=> Unbridged(n, d)
      BY <1>1, <2>2 DEF Unbridged
    <3> QED  BY <1>1, <2>1, <3>1 DEF Body, BorderInv, Still, Pair, Apart
  <2>7. SortInv'
    BY <1>1 DEF SortInv, Sorting
  <2> QED  BY <1>1, <2>1, <2>3, <2>4, <2>5, <2>6, <2>7, StillBody
<1> QED  BY <1>1, <1>3, <1>4, <1>5, StillKept DEF IInv

\* Every layer has its nodes, and all of its sources are still to come.
LEMMA EndPartitionsKeeps == IInv /\ EndPartitions => IInv'
<1> SUFFICES ASSUME IInv, EndPartitions PROVE IInv'
  OBVIOUS
<1>1. /\ phase = "nodes" /\ todo = << >> /\ phase' = "edges" /\ todo' = layers
      /\ walk' = walk /\ Still
  BY DEF EndPartitions, Still
<1>2. TypeOK /\ NetInv /\ PartsInv /\ Body
  BY <1>1 DEF IInv, Sane, Early
<1>3. walk = << >> /\ ToSet(layers) = Layers /\ IsInjective(layers)
  BY <1>1, <1>2 DEF Body, LoopInv
<1>4. TypeOK'
  BY <1>1, <1>2, <1>3, StillKept DEF TypeOK, Sorting, Items
<1>5. PartsInv'
  <2>1. ToSet(<< >>) = {}
    BY NoList
  <2> QED  BY <1>1, <1>2, <2>1 DEF PartsInv, Still, net, PartsOf, Partitioned, OfNet
<1>6. Body'
  <2>1. LoopInv'
    BY <1>1, <1>3 DEF LoopInv, Still
  <2>2. ASSUME NEW s \in Layers, NEW m \in Layers PROVE Linked(s, m)' <=> Linked(s, m)
    BY <1>1, <1>3 DEF Linked, Pending
  <2>3. KindsInv'
    BY <1>1, <1>2 DEF Body, KindsInv, Still, OfNet, Early
  <2>4. FanInv' /\ BorderInv' /\ SortInv' /\ DoneInv'
    BY <1>1 DEF FanInv, BorderInv, SortInv, DoneInv, Sorting, Done
  <2> QED  BY <1>1, <1>2, <2>1, <2>2, <2>3, <2>4, StillBody DEF Early
<1> QED  BY <1>1, <1>4, <1>5, <1>6, StillKept DEF IInv

\* The nodes with many readers are done, and no bridge is there yet.
LEMMA EndSplitsKeeps == IInv /\ EndSplits => IInv'
<1> SUFFICES ASSUME IInv, EndSplits PROVE IInv'
  OBVIOUS
<1>1. /\ phase = "splits" /\ todo = << >> /\ phase' = "bridges" /\ todo' = graph.order
      /\ walk' = walk /\ Still
  BY DEF EndSplits, Still
<1>2. TypeOK /\ NetInv /\ PartsInv
  BY DEF IInv
<1>3. TypeOK'
  <2>1. Items = Nodes(graph) /\ Items' = Nodes(graph) /\ graph.order \in Seq(Nodes(graph))
    BY <1>1, <1>2, GraphFacts DEF Items, Still, TypeOK
  <2> QED  BY <1>1, <1>2, <2>1, StillKept DEF TypeOK, Sorting
<1>4. PartsInv'
  BY <1>1, <1>2 DEF PartsInv, Still, net, PartsOf, Partitioned, OfNet
<1>5. ASSUME Sane' PROVE Body'
  <2>1. Body
    BY <1>1, <1>5, StillKept DEF IInv, Sane, Early
  <2>2. ToSet(<< >>) = {} /\ walk = << >>
    BY <1>1, <2>1, NoList DEF Body, LoopInv
  <2>3. LoopInv'
    BY <1>1, <2>1, <2>2 DEF Body, LoopInv, Complete
  <2>4. ASSUME NEW s \in Layers, NEW m \in Layers PROVE Linked(s, m)' <=> Linked(s, m)
    BY <1>1 DEF Linked, Pending, Still, net
  <2>5. KindsInv' /\ DoneInv'
    BY <1>1, <2>1 DEF Body, KindsInv, DoneInv, Done, Still, OfNet, Early
  <2>6. FanInv'
    BY <1>1, <2>1, <2>2 DEF Body, FanInv, Still, OfNet, IsData, net
  <2>7. BorderInv'
    <3>1. \A n \in Nodes(graph) : n \in ToSet(graph.order) /\ Origin(graph, n) \notin Bridges
      BY <1>1, <2>1 DEF Body, Complete, KindsInv
    <3>2. \A n \in Nodes(graph) : ToSet(graph.dst[n]) \subseteq Nodes(graph)
      BY <1>2, GraphFacts, ListFacts DEF TypeOK
    <3>3. \A n \in Nodes(graph) : \A d : ~ Pair(graph, n, d) /\ Unbridged(n, d)'
      BY <1>1, <3>1 DEF Pair, Bridges, Unbridged
    <3>4. ToSet(todo') = Nodes(graph) /\ walk' = << >>
      BY <1>1, <2>1, <2>2 DEF Body, Complete
    <3> QED  BY <1>1, <3>1, <3>2, <3>3, <3>4 DEF BorderInv, Still
  <2>8. SortInv'
    BY <1>1 DEF SortInv, Sorting
  <2> QED  BY <1>1, <2>1, <2>3, <2>4, <2>5, <2>6, <2>7, <2>8, StillBody DEF Early
<1> QED  BY <1>1, <1>3, <1>4, <1>5, StillKept DEF IInv

\* The edges of the node are those that are left to it.
LEMMA OpenNodeKeeps == IInv /\ OpenNode => IInv'
<1> SUFFICES ASSUME IInv, OpenNode PROVE IInv'
  OBVIOUS
<1>1. /\ phase = "bridges" /\ walk = << >> /\ todo # << >>
      /\ walk' = <<[at |-> Head(todo), left |-> graph.dst[Head(todo)]]>>
      /\ todo' = Tail(todo) /\ phase' = phase /\ visited' = visited /\ stack' = stack
      /\ Still
  BY DEF OpenNode, Still, calls
<1>2. TypeOK /\ NetInv /\ PartsInv
  BY DEF IInv
<1> DEFINE n == Head(todo)
<1>3. todo \in Seq(Nodes(graph)) /\ Items = Nodes(graph) /\ Items' = Nodes(graph)
  BY <1>1, <1>2 DEF TypeOK, Items, Still
<1>4. /\ n \in Nodes(graph) /\ Tail(todo) \in Seq(Nodes(graph))
      /\ ToSet(todo) = {n} \cup ToSet(Tail(todo))
      /\ IsInjective(todo) => IsInjective(Tail(todo)) /\ n \notin ToSet(Tail(todo))
  BY <1>1, <1>2, <1>3, TailList
<1>5. graph.dst[n] \in Seq(Nodes(graph))
  BY <1>2, <1>4, GraphFacts DEF TypeOK
<1> HIDE DEF n
<1>6. walk' \in Seq([at : Nodes(graph), left : Seq(Nodes(graph))]) /\ walk' # << >>
      /\ walk'[1].at = n /\ walk'[1].left = graph.dst[n]
  BY <1>1, <1>4, <1>5, OneFrame DEF n
<1>7. TypeOK'
  BY <1>1, <1>2, <1>3, <1>4, <1>6, StillKept DEF TypeOK, Sorting
<1>8. PartsInv'
  BY <1>1, <1>2 DEF PartsInv, Still, net, PartsOf, Partitioned, OfNet
<1>9. ASSUME Sane' PROVE Body'
  <2>1. Body
    BY <1>1, <1>9, StillKept DEF IInv, Sane, Early
  <2>2. LoopInv'
    BY <1>1, <1>4, <1>6, <2>1 DEF Body, LoopInv, Wired
  <2>3. ASSUME NEW s \in Layers, NEW m \in Layers PROVE Linked(s, m)' <=> Linked(s, m)
    BY <1>1 DEF Linked, Pending, Still, net
  <2>4. KindsInv' /\ DoneInv' /\ FanInv'
    BY <1>1, <2>1 DEF Body, KindsInv, DoneInv, Done, FanInv, Still, OfNet, IsData, net
  <2>5. BorderInv'
    <3>1. ASSUME NEW a \in Nodes(graph), NEW d \in ToSet(graph.dst[a]) PROVE Unbridged(a, d)' <=> Unbridged(a, d)
      BY <1>1, <1>4, <1>6, <3>1 DEF Unbridged
    <3>2. \A a \in Nodes(graph) : \A d \in ToSet(graph.dst[a]) :
            /\ Pair(graph, a, d)' => Apart(graph, a, d)'
            /\ Apart(graph, a, d)' => Pair(graph, a, d)' \/ Unbridged(a, d)'
      BY <1>1, <2>1, <3>1 DEF Body, BorderInv, Still, Pair, Apart
    <3>3. \A a \in ToSet(todo) : /\ Origin(graph, a) \notin Bridges
                                 /\ \A d \in ToSet(graph.dst[a]) : Origin(graph, d) \notin Bridges
      BY <1>1, <2>1 DEF Body, BorderInv
    <3> QED  BY <1>1, <1>4, <1>6, <3>2, <3>3 DEF BorderInv, Still
  <2>6. SortInv'
    BY <1>1 DEF SortInv, Sorting
  <2> QED  BY <1>1, <2>1, <2>2, <2>3, <2>4, <2>5, <2>6, StillBody
<1> QED  BY <1>1, <1>7, <1>8, <1>9, StillKept DEF IInv

----------------------------------------------------------------------------
(* Sort *)

\* A sort starts with nothing seen; all edges of the phase before are there.
LEMMA BeginSortKeeps ==
  ASSUME IInv, NEW p, NEW q, BeginSort(p, q),
         \/ p = "wire" /\ q = "sortLayers"
         \/ p = "edges" /\ q = "sortConnected"
         \/ p = "bridges" /\ q = "sortBridged"
  PROVE  IInv'
<1>1. /\ phase = p /\ walk = << >> /\ todo = << >>
      /\ phase' = q /\ todo' = graph.order /\ visited' = {} /\ stack' = << >>
      /\ walk' = << >> /\ Still
  BY DEF BeginSort, Still
<1>2. TypeOK /\ NetInv /\ PartsInv
  BY DEF IInv
<1>3. ToSet(<< >>) = {} /\ Len(<< >>) = 0 /\ IsInjective(<< >>)
  BY NoList
<1>4. TypeOK'
  <2>1. Items' = Nodes(graph) /\ graph.order \in Seq(Nodes(graph))
    BY <1>1, <1>2, GraphFacts DEF Items, Still, TypeOK
  <2> QED  BY <1>1, <1>2, <2>1, StillKept DEF TypeOK, Sorting
<1>5. PartsInv'
  BY <1>1, <1>2 DEF PartsInv, Still, net, PartsOf, Partitioned, OfNet
<1>6. ASSUME Sane' PROVE Body'
  <2>1. Body
    BY <1>1, <1>6, StillKept DEF IInv, Sane, Early
  <2>2. LoopInv'
    BY <1>1, <2>1 DEF Body, LoopInv, Complete
  <2>3. ASSUME NEW s \in Layers, NEW m \in Layers PROVE Linked(s, m)' <=> Linked(s, m)
    BY <1>1, <1>3 DEF Linked, Pending, Still, net
  <2>4. KindsInv' /\ DoneInv' /\ FanInv'
    BY <1>1, <2>1 DEF Body, KindsInv, DoneInv, Done, FanInv, Still, OfNet, Early, IsData, net
  <2>5. BorderInv'
    <3>1. \A n, d : ~ Unbridged(n, d)
      BY <1>1, <1>3 DEF Unbridged
    <3> QED  BY <1>1, <2>1, <3>1 DEF Body, BorderInv, Still, Pair, Apart
  <2>6. SortInv'
    <3>1. \A n \in Nodes(graph)' : ~ Seen(n)' /\ ~ Finished(n)' /\ n \in ToSet(todo')
      BY <1>1, <1>3, <2>1 DEF Body, Complete, Seen, Finished, Still
    <3> QED  BY <1>1, <1>3, <3>1 DEF SortInv, SeenInv, CallInv, ClimbInv, StackInv
  <2> QED  BY <1>1, <2>1, <2>2, <2>3, <2>4, <2>5, <2>6, StillBody DEF Early
<1> QED  BY <1>1, <1>4, <1>5, <1>6, StillKept DEF IInv

\* The nodes of the first graph have the names of the layers, which differ.
LEMMA LayerNamesDiffer == TypeOK /\ PartsInv /\ phase \in {"wire", "sortLayers"} => DistinctNames
<1> SUFFICES ASSUME TypeOK, PartsInv, phase \in {"wire", "sortLayers"},
                    NEW n \in Nodes(graph), NEW m \in Nodes(graph), Name(graph, n) = Name(graph, m)
             PROVE  n = m
  BY DEF DistinctNames
<1>1. graph.size = Len(LayerNames) /\ <<LayerNames[n]>> = <<LayerNames[m]>>
  BY DEF PartsInv
<1>2. LayerNames[n] = LayerNames[m]
  BY <1>1
<1>3. DOMAIN LayerNames = 1 .. Len(LayerNames)
  BY NetGraphAssumption, ListFacts
<1> QED  BY <1>1, <1>2, <1>3, NetGraphAssumption DEF Nodes, IsInjective

\* The heights climb along edges.
LEMMA HeightAscends == Body => Ascends(graph, Height)
  BY DEF Body, Ranked, Height

\* An edge goes up.
LEMMA Climb ==
  ASSUME TypeOK, Body, NEW n \in Nodes(graph), NEW d \in ToSet(graph.dst[n])
  PROVE  d \in Nodes(graph) /\ Height[n] \in Nat /\ Height[d] \in Nat /\ Height[n] < Height[d]
<1>1. d \in Nodes(graph)
  BY GraphFacts, ListFacts DEF TypeOK
<1>2. n \in ToSet(graph.src[d])
  BY <1>1 DEF Body, Wired
<1> QED  BY <1>1, <1>2, HeightAscends DEF Ascends

Frames == [at : Nodes(graph), left : Seq(Nodes(graph))]

\* The types of a sort.
LEMMA SortTypes ==
  ASSUME TypeOK, Sorting
  PROVE  /\ IsGraph(graph) /\ todo \in Seq(Nodes(graph)) /\ walk \in Seq(Frames)
         /\ visited \subseteq Names /\ stack \in Seq(Names)
         /\ Len(walk) \in Nat /\ Len(stack) \in Nat
         /\ \A i \in 1 .. Len(walk) : walk[i].at \in Nodes(graph) /\ walk[i].left \in Seq(Nodes(graph))
<1>1. Items = Nodes(graph)
  BY DEF Sorting, Items
<1>2. walk \in Seq(Frames) /\ stack \in Seq(Names)
  BY <1>1 DEF TypeOK, Frames
<1>3. Len(walk) \in Nat /\ Len(stack) \in Nat
  BY <1>2, ListFacts
<1>4. \A i \in 1 .. Len(walk) : walk[i] \in Frames
  BY <1>2, ListFacts
<1> QED  BY <1>1, <1>2, <1>3, <1>4 DEF TypeOK, Frames

\* A call of n, which is the next node of the loop or a neighbour of the
\* node whose loop runs.
LEMMA CallKeeps ==
  ASSUME TypeOK, Body, DistinctNames, Sorting, Still, phase' = phase, stack' = stack,
         NEW n \in Nodes(graph), NEW rest \in Seq(Frames), Call(n, rest), Len(rest) = Len(walk),
         \A i \in 1 .. Len(walk) : /\ rest[i].at = walk[i].at
                                   /\ ToSet(rest[i].left) \subseteq ToSet(walk[i].left)
                                   /\ ToSet(walk[i].left) \subseteq ToSet(rest[i].left) \cup {n},
         ToSet(todo) \subseteq ToSet(todo') \cup {n},
         Len(walk) # 0 => n \in ToSet(graph.dst[walk[1].at])
  PROVE  SortInv'
<1> DEFINE k == Len(walk)
<1>1. /\ IsGraph(graph) /\ walk \in Seq(Frames) /\ k \in Nat
      /\ \A i \in 1 .. k : walk[i].at \in Nodes(graph)
  BY SortTypes
<1>2. graph' = graph /\ Nodes(graph)' = Nodes(graph) /\ Height' = Height
      /\ \A m : Finished(m)' <=> Finished(m)
  BY DEF Still, Height, Ascends, Finished
<1>3. SeenInv /\ CallInv /\ ClimbInv /\ StackInv
  BY DEF Body, SortInv
<1>4. \A i \in 1 .. k : ToSet(graph.dst[walk[i].at]) \subseteq Nodes(graph)
  BY <1>1, GraphFacts, ListFacts
<1>5. StackInv'
  BY <1>2, <1>3 DEF StackInv
<1>6. CASE Seen(n)
  <2>1. walk' = rest /\ visited' = visited
    BY <1>6 DEF Call, Seen
  <2>2. \A m : Seen(m)' <=> Seen(m)
    BY <1>2, <2>1 DEF Seen
  <2>3. SeenInv'
    <3>1. \A m \in Nodes(graph) : Seen(m)' <=> Finished(m)' \/ \E i \in 1 .. Len(walk') : walk'[i].at = m
      BY <1>2, <1>3, <2>1, <2>2 DEF SeenInv
    <3>2. \A m \in Nodes(graph) : Seen(m)' \/ m \in ToSet(todo')
      BY <1>3, <1>6, <2>2 DEF SeenInv
    <3> QED  BY <1>2, <3>1, <3>2 DEF SeenInv
  <2>4. CallInv'
    <3>1. ASSUME NEW i \in 1 .. Len(walk')
          PROVE  (/\ ~ Finished(walk[i].at)
                  /\ ToSet(walk[i].left) \subseteq ToSet(graph.dst[walk[i].at])
                  /\ \A d \in ToSet(graph.dst[walk[i].at]) : Seen(d) \/ d \in ToSet(walk[i].left))'
      <4>1. /\ ~ Finished(walk[i].at)
            /\ ToSet(walk[i].left) \subseteq ToSet(graph.dst[walk[i].at])
            /\ \A d \in ToSet(graph.dst[walk[i].at]) : Seen(d) \/ d \in ToSet(walk[i].left)
        BY <1>3, <2>1, <3>1 DEF CallInv
      <4>2. walk'[i].at = walk[i].at /\ ToSet(walk'[i].left) \subseteq ToSet(walk[i].left)
            /\ ToSet(walk[i].left) \subseteq ToSet(walk'[i].left) \cup {n}
        BY <2>1, <3>1
      <4>3. \A d : Seen(d)' <=> Seen(d)
        BY <2>2
      <4> QED  BY <1>2, <1>6, <4>1, <4>2, <4>3 DEF Finished
    <3> QED  BY <3>1 DEF CallInv
  <2>5. ClimbInv'
    BY <1>2, <1>3, <2>1 DEF ClimbInv
  <2> QED  BY <1>5, <2>3, <2>4, <2>5 DEF SortInv
<1>7. CASE ~ Seen(n)
  <2> DEFINE fr == [at |-> n, left |-> graph.dst[n]]
  <2>1. walk' = <<fr>> \o rest /\ visited' = visited \cup {Name(graph, n)}
    BY <1>7 DEF Call, Seen
  <2>2. fr \in Frames /\ fr.at = n /\ fr.left = graph.dst[n]
    BY <1>1, GraphFacts DEF Frames
  <2> HIDE DEF fr
  <2>3. /\ Len(walk') = k + 1 /\ walk'[1] = fr /\ \A i \in 1 .. k : walk'[i + 1] = rest[i]
    <3>1. <<fr>> \in Seq(Frames) /\ Len(<<fr>>) = 1 /\ <<fr>>[1] = fr
      BY <2>2, OneList
    <3>2. /\ Len(walk') = 1 + k
          /\ \A i \in 1 .. 1 + k : walk'[i] = IF i <= 1 THEN <<fr>>[i] ELSE rest[i - 1]
      BY <2>1, <3>1, ConcatProperties
    <3>3. \A i \in 1 .. k : i + 1 \in 1 .. 1 + k /\ ~ (i + 1 <= 1) /\ (i + 1) - 1 = i
      BY <1>1
    <3>4. 1 \in 1 .. 1 + k /\ 1 <= 1 /\ 1 + k = k + 1
      BY <1>1
    <3> HIDE DEF k
    <3> QED  BY <3>1, <3>2, <3>3, <3>4
  <2>4. \A i \in 1 .. k + 1 : i = 1 \/ \E j \in 1 .. k : i = j + 1
    <3> TAKE i \in 1 .. k + 1
    <3>1. i # 1 => i - 1 \in 1 .. k /\ i = (i - 1) + 1
      BY <1>1
    <3> QED  BY <3>1
  <2>5. 1 \in 1 .. k + 1 /\ \A j \in 1 .. k : j + 1 \in 1 .. k + 1
    BY <1>1
  <2>6. \A m \in Nodes(graph) : Seen(m)' <=> Seen(m) \/ m = n
    BY <1>2, <2>1 DEF Seen, DistinctNames
  <2>7. /\ walk'[1].at = n /\ walk'[1].left = graph.dst[n]
        /\ \A i \in 1 .. k : walk'[i + 1].at = walk[i].at /\ walk'[i + 1].left = rest[i].left
    BY <2>2, <2>3
  <2> HIDE DEF k
  <2>8. SeenInv'
    <3>1. \A m \in Nodes(graph) :
            (\E i \in 1 .. k + 1 : walk'[i].at = m) <=> m = n \/ \E i \in 1 .. k : walk[i].at = m
      <4> TAKE m \in Nodes(graph)
      <4>1. ASSUME NEW i \in 1 .. k + 1, walk'[i].at = m PROVE m = n \/ \E j \in 1 .. k : walk[j].at = m
        <5>1. i = 1 \/ \E j \in 1 .. k : i = j + 1
          BY <2>4
        <5> QED  BY <2>7, <4>1, <5>1
      <4>2. ASSUME NEW i \in 1 .. k, walk[i].at = m PROVE \E j \in 1 .. k + 1 : walk'[j].at = m
        BY <2>5, <2>7, <4>2
      <4> QED  BY <2>5, <2>7, <4>1, <4>2
    <3>2. \A m \in Nodes(graph) : Seen(m) <=> Finished(m) \/ \E i \in 1 .. k : walk[i].at = m
      BY <1>3 DEF SeenInv, k
    <3>3. \A m \in Nodes(graph) : Seen(m)' <=> Finished(m)' \/ \E i \in 1 .. k + 1 : walk'[i].at = m
      BY <1>2, <2>6, <3>1, <3>2
    <3>4. \A m \in Nodes(graph) : Seen(m)' \/ m \in ToSet(todo')
      BY <1>3, <2>6 DEF SeenInv
    <3> QED  BY <1>2, <2>3, <3>3, <3>4 DEF SeenInv
  <2>9. CallInv'
    <3>1. ASSUME NEW i \in 1 .. k + 1
          PROVE  (/\ ~ Finished(walk[i].at)
                  /\ ToSet(walk[i].left) \subseteq ToSet(graph.dst[walk[i].at])
                  /\ \A d \in ToSet(graph.dst[walk[i].at]) : Seen(d) \/ d \in ToSet(walk[i].left))'
      <4>1. CASE i = 1
        <5>1. ~ Finished(n)
          BY <1>3, <1>7 DEF SeenInv
        <5> QED  BY <1>2, <2>7, <4>1, <5>1 DEF Finished
      <4>2. CASE i # 1
        <5>1. PICK j \in 1 .. k : i = j + 1
          BY <2>4, <4>2
        <5>2. walk'[i].at = walk[j].at /\ walk'[i].left = rest[j].left
          BY <2>7, <5>1
        <5>3. /\ ~ Finished(walk[j].at)
              /\ ToSet(walk[j].left) \subseteq ToSet(graph.dst[walk[j].at])
              /\ \A d \in ToSet(graph.dst[walk[j].at]) : Seen(d) \/ d \in ToSet(walk[j].left)
          BY <1>3, <5>1 DEF CallInv, k
        <5>4. /\ ToSet(rest[j].left) \subseteq ToSet(walk[j].left)
              /\ ToSet(walk[j].left) \subseteq ToSet(rest[j].left) \cup {n}
          BY <5>1 DEF k
        <5>5. \A d \in ToSet(graph.dst[walk[j].at]) : d \in Nodes(graph)
          BY <1>4, <5>1
        <5> QED  BY <1>2, <2>6, <5>2, <5>3, <5>4, <5>5 DEF Finished
      <4> QED  BY <4>1, <4>2
    <3> QED  BY <2>3, <3>1 DEF CallInv
  <2>10. ClimbInv'
    <3>1. ASSUME NEW i \in 1 .. k + 1, NEW j \in 1 .. k + 1, i < j
          PROVE  Height[walk'[j].at] < Height[walk'[i].at]
      <4>1. PICK b \in 1 .. k : j = b + 1
        <5>1. j # 1
          BY <1>1, <3>1
        <5> QED  BY <2>4, <5>1
      <4>2. \A a, c \in 1 .. k : a < c => Height[walk[c].at] < Height[walk[a].at]
        BY <1>3 DEF ClimbInv, k
      <4>3. walk'[j].at = walk[b].at
        BY <2>7, <4>1
      <4>4. \A m \in Nodes(graph) : Height[m] \in Nat
        BY HeightAscends DEF Ascends
      <4>5. CASE i = 1
        <5>1. 1 \in 1 .. k /\ k # 0
          BY <1>1, <4>1
        <5>2. walk[1].at \in Nodes(graph) /\ n \in ToSet(graph.dst[walk[1].at])
          BY <1>1, <5>1 DEF k
        <5>3. Height[walk[1].at] < Height[n]
          BY <5>2, Climb
        <5>4. b = 1 \/ Height[walk[b].at] < Height[walk[1].at]
          BY <1>1, <4>1, <4>2, <5>1
        <5>5. walk[b].at \in Nodes(graph)
          BY <1>1, <4>1 DEF k
        <5>6. Height[n] \in Nat /\ Height[walk[1].at] \in Nat /\ Height[walk[b].at] \in Nat
          BY <4>4, <5>2, <5>5
        <5>7. Height[walk[b].at] < Height[n]
          BY <5>3, <5>4, <5>6
        <5> QED  BY <2>7, <4>3, <4>5, <5>7
      <4>6. CASE i # 1
        <5>1. PICK a \in 1 .. k : i = a + 1
          BY <2>4, <4>6
        <5>2. a < b
          BY <1>1, <3>1, <4>1, <5>1
        <5>3. walk'[i].at = walk[a].at
          BY <2>7, <5>1
        <5> QED  BY <4>2, <4>3, <5>2, <5>3
      <4> QED  BY <4>5, <4>6
    <3> QED  BY <1>2, <2>3, <3>1 DEF ClimbInv
  <2> QED  BY <1>5, <2>8, <2>9, <2>10 DEF SortInv
<1> QED  BY <1>6, <1>7

\* The names of what is sorted differ: they are layers, or Sane says so.
LEMMA SortingSane ==
  ASSUME IInv, Sorting, Sane PROVE Body /\ DistinctNames
<1>1. phase = "sortLayers" \/ phase \notin Early
  BY DEF Sorting, Early
<1>2. DistinctNames
  BY <1>1, LayerNamesDiffer DEF IInv, Sane
<1> QED  BY <1>2 DEF IInv

\* A step of the sort.
LEMMA SortStepKeeps ==
  ASSUME IInv, Sorting, Still, phase' = phase,
         todo' \in Seq(Nodes(graph)), walk' \in Seq(Frames),
         visited' \subseteq Names, stack' \in Seq(Names),
         Body /\ DistinctNames => IsInjective(todo') /\ SortInv'
  PROVE  IInv'
<1>1. TypeOK /\ PartsInv /\ phase \in {"sortLayers", "sortConnected", "sortBridged"}
  BY DEF IInv, Sorting
<1>2. TypeOK'
  <2>1. Items' = Nodes(graph)
    BY <1>1 DEF Items, Still
  <2> QED  BY <1>1, <2>1, StillKept DEF TypeOK, Frames
<1>3. PartsInv'
  BY <1>1 DEF PartsInv, Still, net, PartsOf, Partitioned, OfNet
<1>4. ASSUME Sane' PROVE Body'
  <2>1. Body /\ IsInjective(todo') /\ SortInv'
    BY <1>4, StillKept, SortingSane DEF Sane
  <2>2. LoopInv'
    BY <1>1, <2>1 DEF LoopInv
  <2>3. ASSUME NEW s \in Layers, NEW m \in Layers PROVE Linked(s, m)' <=> Linked(s, m)
    BY <1>1 DEF Linked, Pending, Still, net
  <2>4. KindsInv' /\ FanInv' /\ DoneInv'
    BY <1>1, <2>1 DEF Body, KindsInv, FanInv, DoneInv, Done, Still, OfNet, IsData, net
  <2>5. BorderInv'
    BY <1>1, <2>1 DEF Body, BorderInv, Still, Pair, Apart, Unbridged
  <2> QED  BY <2>1, <2>2, <2>3, <2>4, <2>5, StillBody
<1> QED  BY <1>2, <1>3, <1>4, StillKept DEF IInv

\* The types of a call.
LEMMA CallTypes ==
  ASSUME TypeOK, Sorting, NEW n \in Nodes(graph), NEW rest \in Seq(Frames), Call(n, rest)
  PROVE  walk' \in Seq(Frames) /\ visited' \subseteq Names
<1>1. visited \subseteq Names /\ Name(graph, n) \in Names /\ graph.dst[n] \in Seq(Nodes(graph))
  BY SortTypes, GraphFacts DEF Names
<1> DEFINE fr == [at |-> n, left |-> graph.dst[n]]
<1>2. fr \in Frames
  BY <1>1 DEF Frames
<1>3. <<fr>> \in Seq(Frames)
  BY <1>2
<1> HIDE DEF fr
<1>4. <<fr>> \o rest \in Seq(Frames)
  BY <1>3, JoinedList
<1> QED  BY <1>1, <1>4 DEF Call, fr

\* A call from the outer loop keeps the invariant.
LEMMA RootKeeps == IInv /\ Root => IInv'
<1> SUFFICES ASSUME IInv, Root PROVE IInv'
  OBVIOUS
<1>1. /\ Sorting /\ walk = << >> /\ todo # << >> /\ Call(Head(todo), << >>) /\ todo' = Tail(todo)
      /\ phase' = phase /\ stack' = stack /\ Still
  BY DEF Root, Still
<1> DEFINE n == Head(todo)
<1>2. TypeOK /\ todo \in Seq(Nodes(graph)) /\ stack \in Seq(Names)
  BY <1>1, SortTypes DEF IInv
<1>3. /\ n \in Nodes(graph) /\ Tail(todo) \in Seq(Nodes(graph))
      /\ ToSet(todo) = {n} \cup ToSet(Tail(todo))
      /\ IsInjective(todo) => IsInjective(Tail(todo))
  BY <1>1, <1>2, TailList
<1>4. << >> \in Seq(Frames) /\ Len(<< >>) = 0
  BY NoList
<1>5. Call(n, << >>)
  BY <1>1
<1> HIDE DEF n
<1>6. walk' \in Seq(Frames) /\ visited' \subseteq Names
  BY <1>1, <1>2, <1>3, <1>4, <1>5, CallTypes
<1>7. ASSUME Body, DistinctNames PROVE IsInjective(todo') /\ SortInv'
  <2>1. IsInjective(todo')
    BY <1>1, <1>3, <1>7 DEF Body, LoopInv
  <2>2. Len(<< >>) = Len(walk) /\ ~ (Len(walk) # 0)
    BY <1>1, <1>4
  <2>3. \A i \in 1 .. Len(walk) : FALSE
    BY <2>2, <1>4
  <2>4. ToSet(todo) \subseteq ToSet(todo') \cup {n}
    BY <1>1, <1>3
  <2>5. SortInv'
    BY <1>1, <1>2, <1>3, <1>4, <1>5, <1>7, <2>2, <2>3, <2>4, CallKeeps
  <2> QED  BY <2>1, <2>5
<1> QED  BY <1>1, <1>2, <1>3, <1>6, <1>7, SortStepKeeps

\* A call from a call keeps the invariant: it climbs.
LEMMA DescendKeeps == IInv /\ Descend => IInv'
<1> SUFFICES ASSUME IInv, Descend PROVE IInv'
  OBVIOUS
<1> DEFINE fr == [walk[1] EXCEPT !.left = Front(@)]
           n == Last(walk[1].left)
           rest == <<fr>> \o Tail(walk)
<1>1. /\ Sorting /\ walk # << >> /\ walk[1].left # << >> /\ Call(n, rest)
      /\ todo' = todo /\ phase' = phase /\ stack' = stack /\ Still
  BY DEF Descend, Still
<1>2. /\ TypeOK /\ todo \in Seq(Nodes(graph)) /\ stack \in Seq(Names) /\ walk \in Seq(Frames)
      /\ Len(walk) \in Nat
      /\ \A i \in 1 .. Len(walk) : walk[i].at \in Nodes(graph) /\ walk[i].left \in Seq(Nodes(graph))
  BY <1>1, SortTypes DEF IInv
<1>3. /\ Tail(walk) \in Seq(Frames) /\ Len(walk) \in Nat \ {0} /\ Len(Tail(walk)) = Len(walk) - 1
      /\ \A i \in 1 .. Len(walk) - 1 : Tail(walk)[i] = walk[i + 1]
  BY <1>1, <1>2, TailList
<1>4. 1 \in 1 .. Len(walk) /\ walk[1] \in Frames /\ walk[1].left \in Seq(Nodes(graph))
  <2>1. 1 \in 1 .. Len(walk)
    BY <1>3
  <2>2. walk[1] \in Frames
    BY <1>2, <2>1, ListFacts
  <2> QED  BY <1>2, <2>1, <2>2
<1>5. /\ n \in Nodes(graph) /\ Front(walk[1].left) \in Seq(Nodes(graph))
      /\ ToSet(walk[1].left) = {n} \cup ToSet(Front(walk[1].left))
  BY <1>1, <1>4, FrontList
<1>6. fr \in Frames /\ fr.at = walk[1].at /\ fr.left = Front(walk[1].left)
  BY <1>4, <1>5 DEF Frames
<1> HIDE DEF fr, n
<1>7. <<fr>> \in Seq(Frames) /\ Len(<<fr>>) = 1 /\ <<fr>>[1] = fr
  BY <1>6, OneList
<1>8. /\ rest \in Seq(Frames) /\ Len(rest) = 1 + (Len(walk) - 1)
      /\ \A i \in 1 .. 1 + (Len(walk) - 1) : rest[i] = IF i <= 1 THEN <<fr>>[i] ELSE Tail(walk)[i - 1]
  BY <1>3, <1>7, ConcatProperties
<1> HIDE DEF rest
<1>9. Len(rest) = Len(walk) /\ 1 + (Len(walk) - 1) = Len(walk)
  BY <1>3, <1>8
<1>10. rest[1] = fr
  BY <1>4, <1>7, <1>8, <1>9
<1>11. ASSUME NEW i \in 1 .. Len(walk), i # 1 PROVE rest[i] = walk[i]
  <2>1. i - 1 \in 1 .. Len(walk) - 1 /\ (i - 1) + 1 = i /\ ~ (i <= 1)
    BY <1>3, <1>11
  <2> QED  BY <1>3, <1>8, <1>9, <2>1
<1>12. \A i \in 1 .. Len(walk) : /\ rest[i].at = walk[i].at
                                 /\ ToSet(rest[i].left) \subseteq ToSet(walk[i].left)
                                 /\ ToSet(walk[i].left) \subseteq ToSet(rest[i].left) \cup {n}
  <2> TAKE i \in 1 .. Len(walk)
  <2>1. CASE i = 1
    BY <1>5, <1>6, <1>10, <2>1
  <2>2. CASE i # 1
    BY <1>11, <2>2
  <2> QED  BY <2>1, <2>2
<1>13. walk' \in Seq(Frames) /\ visited' \subseteq Names
  BY <1>1, <1>2, <1>5, <1>8, CallTypes
<1>14. ASSUME Body, DistinctNames PROVE IsInjective(todo') /\ SortInv'
  <2>1. IsInjective(todo')
    BY <1>1, <1>14 DEF Body, LoopInv
  <2>2. n \in ToSet(graph.dst[walk[1].at])
    BY <1>1, <1>4, <1>5, <1>14 DEF Body, SortInv, CallInv
  <2>3. ToSet(todo) \subseteq ToSet(todo') \cup {n}
    BY <1>1
  <2>4. SortInv'
    BY <1>1, <1>2, <1>5, <1>8, <1>9, <1>12, <1>14, <2>2, <2>3, CallKeeps
  <2> QED  BY <2>1, <2>4
<1> QED  BY <1>1, <1>2, <1>13, <1>14, SortStepKeeps

\* The end of a call keeps the invariant: all that it leads to is finished.
LEMMA PutKeeps == IInv /\ Put => IInv'
<1> SUFFICES ASSUME IInv, Put PROVE IInv'
  OBVIOUS
<1> DEFINE n == walk[1].at  k == Len(walk)  q == Len(stack)
<1>1. /\ Sorting /\ walk # << >> /\ walk[1].left = << >> /\ stack' = <<Name(graph, n)>> \o stack
      /\ walk' = Tail(walk) /\ todo' = todo /\ phase' = phase /\ visited' = visited /\ Still
  BY DEF Put, Still
<1>2. /\ TypeOK /\ todo \in Seq(Nodes(graph)) /\ stack \in Seq(Names) /\ walk \in Seq(Frames)
      /\ visited \subseteq Names /\ k \in Nat /\ q \in Nat /\ IsGraph(graph)
      /\ \A i \in 1 .. k : walk[i].at \in Nodes(graph) /\ walk[i].left \in Seq(Nodes(graph))
  BY <1>1, SortTypes DEF IInv
<1>3. /\ Tail(walk) \in Seq(Frames) /\ k \in Nat \ {0} /\ Len(Tail(walk)) = k - 1
      /\ \A i \in 1 .. k - 1 : Tail(walk)[i] = walk[i + 1]
  BY <1>1, <1>2, TailList
<1>4. 1 \in 1 .. k /\ n \in Nodes(graph)
  BY <1>2, <1>3
<1>5. Name(graph, n) \in Names
  BY <1>4 DEF Names
<1> HIDE DEF n, k, q
<1>6. <<Name(graph, n)>> \in Seq(Names) /\ Len(<<Name(graph, n)>>) = 1
      /\ ToSet(<<Name(graph, n)>>) = {Name(graph, n)} /\ IsInjective(<<Name(graph, n)>>)
      /\ <<Name(graph, n)>>[1] = Name(graph, n)
  BY <1>5, OneList
<1>7. /\ stack' \in Seq(Names) /\ Len(stack') = q + 1 /\ stack'[1] = Name(graph, n)
      /\ \A i \in 1 .. q : stack'[i + 1] = stack[i]
      /\ ToSet(stack') = {Name(graph, n)} \cup ToSet(stack)
      /\ IsInjective(stack) /\ Name(graph, n) \notin ToSet(stack) => IsInjective(stack')
  <2>1. /\ stack' \in Seq(Names) /\ Len(stack') = 1 + q
        /\ \A i \in 1 .. 1 + q : stack'[i] = IF i <= 1 THEN <<Name(graph, n)>>[i] ELSE stack[i - 1]
    BY <1>1, <1>2, <1>6, ConcatProperties DEF q
  <2>2. \A i \in 1 .. q : i + 1 \in 1 .. 1 + q /\ ~ (i + 1 <= 1) /\ (i + 1) - 1 = i
    BY <1>2
  <2>3. 1 \in 1 .. 1 + q /\ 1 <= 1 /\ 1 + q = q + 1
    BY <1>2
  <2>4. PICK one \in Seq(Names) : one = <<Name(graph, n)>>
    BY <1>6
  <2>5. /\ ToSet(one \o stack) = ToSet(one) \cup ToSet(stack)
        /\ IsInjective(one) /\ IsInjective(stack) /\ ToSet(one) \cap ToSet(stack) = {}
           => IsInjective(one \o stack)
    BY <1>2, JoinedList
  <2>6. stack' = one \o stack /\ ToSet(one) = {Name(graph, n)} /\ IsInjective(one)
    BY <1>1, <1>6, <2>4
  <2>7. ToSet(stack') = {Name(graph, n)} \cup ToSet(stack)
    BY <2>5, <2>6
  <2>8. IsInjective(stack) /\ Name(graph, n) \notin ToSet(stack) => IsInjective(stack')
    BY <2>5, <2>6
  <2>9. Len(stack') = q + 1
    BY <2>1, <2>3
  <2>10. stack'[1] = Name(graph, n)
    BY <1>6, <2>1, <2>3
  <2>11. \A i \in 1 .. q : stack'[i + 1] = stack[i]
    BY <2>1, <2>2
  <2> QED  BY <2>1, <2>7, <2>8, <2>9, <2>10, <2>11
<1>8. ASSUME Body, DistinctNames PROVE IsInjective(todo') /\ SortInv'
  <2>1. IsInjective(todo')
    BY <1>1, <1>8 DEF Body, LoopInv
  <2>2. SeenInv /\ CallInv /\ ClimbInv /\ StackInv
    BY <1>1, <1>8 DEF Body, SortInv
  <2>3. graph' = graph /\ Nodes(graph)' = Nodes(graph) /\ Height' = Height
        /\ \A m : Seen(m)' <=> Seen(m)
    BY <1>1 DEF Still, Height, Ascends, Seen
  <2>4. \A m \in Nodes(graph) : Finished(m)' <=> Finished(m) \/ m = n
    BY <1>4, <1>7, <1>8, <2>3 DEF Finished, DistinctNames
  <2>5. /\ Len(walk') = k - 1 /\ \A i \in 1 .. k - 1 : walk'[i] = walk[i + 1]
        /\ \A i \in 1 .. k - 1 : i + 1 \in 1 .. k /\ i + 1 # 1
        /\ \A i \in 1 .. k : i = 1 \/ (i - 1 \in 1 .. k - 1 /\ (i - 1) + 1 = i)
    <3>1. \A i \in 1 .. k - 1 : i + 1 \in 1 .. k /\ i + 1 # 1
      BY <1>3
    <3>2. \A i \in 1 .. k : i = 1 \/ (i - 1 \in 1 .. k - 1 /\ (i - 1) + 1 = i)
      BY <1>3
    <3> QED  BY <1>1, <1>3, <3>1, <3>2
  <2>6. \A m \in Nodes(graph) : Height[m] \in Nat
    BY <1>8, HeightAscends DEF Ascends
  \* The calls below are at other nodes.
  <2>7. \A i \in 1 .. k : i # 1 => walk[i].at # n /\ Height[walk[i].at] < Height[n]
    <3> TAKE i \in 1 .. k
    <3>1. ASSUME i # 1 PROVE Height[walk[i].at] < Height[n]
      <4>1. 1 < i
        BY <1>3, <3>1
      <4> QED  BY <1>4, <2>2, <4>1 DEF ClimbInv, n, k
    <3>2. Height[n] \in Nat /\ Height[walk[i].at] \in Nat
      BY <1>2, <1>4, <2>6
    <3> QED  BY <3>1, <3>2
  \* All that n leads to is finished.
  <2>8. \A d \in ToSet(graph.dst[n]) : Finished(d)
    <3> TAKE d \in ToSet(graph.dst[n])
    <3>1. d \in Nodes(graph) /\ Height[n] < Height[d] /\ Height[n] \in Nat /\ Height[d] \in Nat
      BY <1>2, <1>4, <1>8, Climb
    <3>2. ToSet(walk[1].left) = {}
      BY <1>1, NoList
    <3>3. Seen(d)
      BY <1>4, <2>2, <3>2 DEF CallInv, n, k
    <3>4. ASSUME NEW i \in 1 .. k, walk[i].at = d PROVE FALSE
      <4>1. CASE i = 1
        BY <3>1, <3>4, <4>1 DEF n
      <4>2. CASE i # 1
        BY <2>7, <3>1, <3>4, <4>2
      <4> QED  BY <4>1, <4>2
    <3> QED  BY <2>2, <3>1, <3>3, <3>4 DEF SeenInv, k
  <2>9. SeenInv'
    <3>1. \A m \in Nodes(graph) : Seen(m)' <=> Finished(m)' \/ \E i \in 1 .. Len(walk') : walk'[i].at = m
      <4> TAKE m \in Nodes(graph)
      <4>1. Seen(m) <=> Finished(m) \/ \E i \in 1 .. k : walk[i].at = m
        BY <2>2 DEF SeenInv, k
      <4>2. (\E i \in 1 .. k : walk[i].at = m) <=> m = n \/ \E i \in 1 .. k - 1 : walk'[i].at = m
        <5>1. ASSUME NEW i \in 1 .. k, walk[i].at = m PROVE m = n \/ \E j \in 1 .. k - 1 : walk'[j].at = m
          <6>1. CASE i = 1
            BY <5>1, <6>1 DEF n
          <6>2. CASE i # 1
            <7>1. i - 1 \in 1 .. k - 1 /\ (i - 1) + 1 = i
              BY <2>5, <6>2
            <7>2. walk'[i - 1] = walk[i]
              BY <2>5, <7>1
            <7> QED  BY <5>1, <7>1, <7>2
          <6> QED  BY <6>1, <6>2
        <5>2. ASSUME NEW j \in 1 .. k - 1, walk'[j].at = m PROVE \E i \in 1 .. k : walk[i].at = m
          BY <2>5, <5>2
        <5>3. walk[1].at = n
          BY DEF n
        <5> QED  BY <1>4, <5>1, <5>2, <5>3
      <4> QED  BY <2>3, <2>4, <2>5, <4>1, <4>2
    <3>2. \A m \in Nodes(graph) : Seen(m)' \/ m \in ToSet(todo')
      BY <1>1, <2>2, <2>3 DEF SeenInv
    <3> QED  BY <2>3, <3>1, <3>2 DEF SeenInv
  <2>10. CallInv'
    <3>1. ASSUME NEW i \in 1 .. k - 1
          PROVE  (/\ ~ Finished(walk[i].at)
                  /\ ToSet(walk[i].left) \subseteq ToSet(graph.dst[walk[i].at])
                  /\ \A d \in ToSet(graph.dst[walk[i].at]) : Seen(d) \/ d \in ToSet(walk[i].left))'
      <4> DEFINE j == i + 1
      <4>1. j \in 1 .. k /\ j # 1 /\ walk'[i] = walk[j]
        BY <2>5
      <4> HIDE DEF j
      <4>2. /\ ~ Finished(walk[j].at)
            /\ ToSet(walk[j].left) \subseteq ToSet(graph.dst[walk[j].at])
            /\ \A d \in ToSet(graph.dst[walk[j].at]) : Seen(d) \/ d \in ToSet(walk[j].left)
        BY <2>2, <4>1 DEF CallInv, k
      <4>3. walk[j].at # n /\ walk[j].at \in Nodes(graph)
        BY <1>2, <2>7, <4>1
      <4>4. Name(graph, walk[j].at) \notin ToSet(stack')
        BY <1>4, <1>7, <1>8, <4>2, <4>3 DEF Finished, DistinctNames
      <4>5. \A d : Seen(d)' <=> Seen(d)
        BY <2>3
      <4> QED  BY <2>3, <4>1, <4>2, <4>4, <4>5 DEF Finished
    <3> QED  BY <2>5, <3>1 DEF CallInv
  <2>11. ClimbInv'
    <3>1. ASSUME NEW i \in 1 .. k - 1, NEW j \in 1 .. k - 1, i < j
          PROVE  Height[walk'[j].at] < Height[walk'[i].at]
      <4>1. i + 1 \in 1 .. k /\ j + 1 \in 1 .. k /\ i + 1 < j + 1
        BY <1>3, <3>1
      <4> QED  BY <2>2, <2>5, <4>1 DEF ClimbInv, k
    <3> QED  BY <2>3, <2>5, <3>1 DEF ClimbInv
  <2>12. StackInv'
    <3>1. ~ Finished(n)
      BY <1>4, <2>2 DEF CallInv, n, k
    <3>2. IsInjective(stack')
      BY <1>7, <2>2, <3>1 DEF StackInv, Finished
    <3>3. \A m \in Nodes(graph) : Finished(m)' => \A d \in ToSet(graph.dst[m]) : Finished(d)'
      <4> TAKE m \in Nodes(graph)
      <4>1. \A d \in ToSet(graph.dst[m]) : d \in Nodes(graph)
        BY <1>2, GraphFacts, ListFacts
      <4> QED  BY <2>2, <2>4, <2>8, <4>1 DEF StackInv
    <3>4. ASSUME NEW i \in 1 .. q + 1, NEW j \in 1 .. q + 1, NEW m \in Nodes(graph),
                 NEW d \in ToSet(graph.dst[m]), stack'[i] = Name(graph, m), stack'[j] = Name(graph, d)
          PROVE  i < j
      <4>1. d \in Nodes(graph)
        BY <1>2, GraphFacts, ListFacts
      <4>2. CASE i = 1 /\ j = 1
        <5>1. m = n /\ d = n
          BY <1>4, <1>7, <1>8, <3>4, <4>1, <4>2 DEF DistinctNames
        <5> QED  BY <2>8, <3>1, <5>1
      <4>3. CASE i = 1 /\ j # 1
        BY <1>2, <4>3
      <4>4. CASE i # 1
        <5> DEFINE a == i - 1
        <5>1. a \in 1 .. q /\ i = a + 1
          BY <1>2, <4>4
        <5> HIDE DEF a
        <5>2. stack[a] = Name(graph, m)
          BY <1>7, <3>4, <5>1
        <5>3. \A x : x \in ToSet(stack) <=> \E b \in 1 .. q : stack[b] = x
          BY <1>2, ListFacts DEF q
        <5>4. Finished(m)
          BY <5>1, <5>2, <5>3 DEF Finished
        <5>5. Finished(d)
          BY <2>2, <5>4 DEF StackInv
        <5>6. j # 1
          <6>1. ASSUME j = 1 PROVE d = n
            BY <1>4, <1>7, <1>8, <3>4, <4>1, <6>1 DEF DistinctNames
          <6> QED  BY <3>1, <5>5, <6>1
        <5> DEFINE c == j - 1
        <5>7. c \in 1 .. q /\ j = c + 1
          BY <1>2, <5>6
        <5> HIDE DEF c
        <5>8. stack[c] = Name(graph, d)
          BY <1>7, <3>4, <5>7
        <5>9. a < c
          BY <2>2, <5>1, <5>2, <5>7, <5>8 DEF StackInv, q
        <5> QED  BY <1>2, <5>1, <5>7, <5>9
      <4> QED  BY <4>2, <4>3, <4>4
    <3> QED  BY <1>7, <2>3, <3>2, <3>3, <3>4 DEF StackInv
  <2> QED  BY <2>1, <2>9, <2>10, <2>11, <2>12 DEF SortInv
<1> QED  BY <1>1, <1>2, <1>3, <1>7, <1>8, SortStepKeeps

\* nodes_ when the stack has been emptied.
LEMMA SortedTypes ==
  ASSUME TypeOK, Sorting
  PROVE  /\ SortedNodes \in Seq(Nodes(graph)) /\ Len(SortedNodes) = Len(stack)
         /\ DOMAIN stack = 1 .. Len(stack)
         /\ \A i \in 1 .. Len(stack) :
              SortedNodes[i] \in Nodes(graph) /\ Name(graph, SortedNodes[i]) = stack[i]
<1>1. /\ IsGraph(graph) /\ graph.size \in Nat /\ Len(stack) \in Nat /\ DOMAIN stack = 1 .. Len(stack)
      /\ \A i \in 1 .. Len(stack) : stack[i] \in Names
  BY SortTypes, GraphFacts, ListFacts
<1>2. ASSUME NEW name \in Names
      PROVE  Named(graph, name) \in Nodes(graph) /\ Name(graph, Named(graph, name)) = name
  <2> DEFINE T == {n \in Nodes(graph) : Name(graph, n) = name}
  <2>1. T \in SUBSET (1 .. graph.size) /\ T # {}
    BY <1>2 DEF Names, Nodes
  <2>2. PICK n \in T : \A m \in T : m <= n
    BY <1>1, <2>1, GreatestOf
  <2>3. \A m \in n + 1 .. graph.size : m \in Nodes(graph) /\ ~ (m <= n)
    BY <1>1 DEF Nodes
  <2>4. \A m \in n + 1 .. graph.size : Name(graph, m) # name
    BY <2>2, <2>3
  <2> QED  BY <2>2, <2>4 DEF Named
<1>3. SortedNodes \in [1 .. Len(stack) -> Nodes(graph)]
  BY <1>1, <1>2 DEF SortedNodes
<1>4. \A i \in 1 .. Len(stack) : SortedNodes[i] = Named(graph, stack[i])
  BY <1>1 DEF SortedNodes
<1> QED  BY <1>1, <1>2, <1>3, <1>4, ListOf

\* At the end of a sort each node is in the order once, before all it leads
\* to.
LEMMA SortedFacts ==
  ASSUME TypeOK, Sorting, Body, DistinctNames, walk = << >>, todo = << >>
  PROVE  /\ ToSet(SortedNodes) = Nodes(graph) /\ IsInjective(SortedNodes)
         /\ \A i, j \in 1 .. Len(SortedNodes) :
              SortedNodes[j] \in ToSet(graph.dst[SortedNodes[i]]) => i < j
<1>1. /\ SortedNodes \in Seq(Nodes(graph)) /\ Len(SortedNodes) = Len(stack)
      /\ \A i \in 1 .. Len(stack) :
              SortedNodes[i] \in Nodes(graph) /\ Name(graph, SortedNodes[i]) = stack[i]
  BY SortedTypes
<1>2. SeenInv /\ StackInv
  BY DEF Body, SortInv
<1>3. /\ \A x : x \in ToSet(stack) <=> \E i \in 1 .. Len(stack) : stack[i] = x
      /\ \A i, j \in 1 .. Len(stack) : stack[i] = stack[j] => i = j
  BY <1>2, SortTypes, ListFacts DEF StackInv
<1>4. ASSUME NEW n \in Nodes(graph) PROVE \E i \in 1 .. Len(stack) : SortedNodes[i] = n
  <2>1. ToSet(<< >>) = {} /\ Len(<< >>) = 0
    BY NoList
  <2>2. Finished(n)
    BY <1>2, <2>1 DEF SeenInv
  <2>3. PICK i \in 1 .. Len(stack) : stack[i] = Name(graph, n)
    BY <1>3, <2>2 DEF Finished
  <2>4. SortedNodes[i] = n
    BY <1>1, <2>3 DEF DistinctNames
  <2> QED  BY <2>4
<1>5. ToSet(SortedNodes) = Nodes(graph)
  <2>1. \A x : x \in ToSet(SortedNodes) <=> \E i \in 1 .. Len(stack) : SortedNodes[i] = x
    BY <1>1, ListFacts
  <2> QED  BY <1>1, <1>4, <2>1
<1>6. IsInjective(SortedNodes)
  BY <1>1, <1>3, ListFacts
<1>7. \A i, j \in 1 .. Len(stack) : SortedNodes[j] \in ToSet(graph.dst[SortedNodes[i]]) => i < j
  BY <1>1, <1>2 DEF StackInv
<1> QED  BY <1>1, <1>5, <1>6, <1>7

\* The layers are those of the configuration, each once.
LEMMA LayersSortedKeeps == IInv /\ LayersSorted => IInv'
<1> SUFFICES ASSUME IInv, LayersSorted PROVE IInv'
  OBVIOUS
<1>1. /\ phase = "sortLayers" /\ walk = << >> /\ todo = << >>
      /\ layers' = [i \in DOMAIN stack |-> Origin(graph, SortedNodes[i])]
      /\ phase' = "nodes" /\ graph' = NoGraph /\ todo' = layers'
      /\ UNCHANGED net /\ layer2nodes' = layer2nodes /\ walk' = walk
      /\ gsize' = gsize /\ type' = type /\ connection' = connection /\ location' = location
      /\ srclayers' = srclayers
  BY DEF LayersSorted, SortEnds, net
<1>2. /\ TypeOK /\ NetInv /\ PartsInv /\ Body /\ DistinctNames /\ Sorting
  BY <1>1, SortingSane DEF IInv, Sane, Early, Sorting
<1>3. /\ SortedNodes \in Seq(Nodes(graph)) /\ Len(SortedNodes) = Len(stack)
      /\ DOMAIN stack = 1 .. Len(stack) /\ Len(stack) \in Nat
      /\ \A i \in 1 .. Len(stack) : SortedNodes[i] \in Nodes(graph)
      /\ ToSet(SortedNodes) = Nodes(graph) /\ IsInjective(SortedNodes)
  BY <1>1, <1>2, SortedTypes, SortedFacts, SortTypes
<1>4. /\ Nodes(graph) = 1 .. Len(LayerNames)
      /\ \A n \in Nodes(graph) : Origin(graph, n) = LayerNames[n]
      /\ \A l \in Layers : layer2nodes[l] = << >>
  BY <1>1, <1>2 DEF PartsInv, Nodes
<1>5. /\ \A n \in 1 .. Len(LayerNames) : LayerNames[n] \in Layers
      /\ \A l \in Layers : \E n \in 1 .. Len(LayerNames) : LayerNames[n] = l
      /\ \A n, m \in 1 .. Len(LayerNames) : LayerNames[n] = LayerNames[m] => n = m
  BY NetGraphAssumption, ListFacts DEF Layers
<1>6. \A i \in 1 .. Len(stack) : layers'[i] = LayerNames[SortedNodes[i]] /\ layers'[i] \in Layers
  BY <1>1, <1>3, <1>4, <1>5
<1>7. layers' \in Seq(Layers) /\ Len(layers') = Len(stack)
  <2>1. layers' \in [1 .. Len(stack) -> Layers]
    BY <1>1, <1>3, <1>6
  <2> QED  BY <1>3, <2>1, ListOf
<1>8. ToSet(layers') = Layers
  <2>1. ASSUME NEW l \in Layers PROVE \E i \in 1 .. Len(stack) : layers'[i] = l
    <3>1. PICK n \in Nodes(graph) : LayerNames[n] = l
      BY <1>4, <1>5
    <3>2. PICK i \in 1 .. Len(stack) : SortedNodes[i] = n
      BY <1>3, ListFacts
    <3> QED  BY <1>6, <3>1, <3>2
  <2>2. \A x : x \in ToSet(layers') <=> \E i \in 1 .. Len(stack) : layers'[i] = x
    BY <1>7, ListFacts
  <2> QED  BY <1>6, <2>1, <2>2
<1>9. IsInjective(layers')
  <2>1. \A i, j \in 1 .. Len(stack) : SortedNodes[i] = SortedNodes[j] => i = j
    BY <1>3, ListFacts
  <2>2. \A i, j \in 1 .. Len(stack) : layers'[i] = layers'[j] => i = j
    BY <1>3, <1>4, <1>5, <1>6, <2>1
  <2> QED  BY <1>7, <2>2, ListFacts
<1>10. /\ graph' = NoGraph /\ Nodes(graph)' = {} /\ IsGraph(graph)'
       /\ graph'.dst = << >> /\ graph'.src = << >> /\ graph'.order = << >> /\ graph'.size = 0
  BY <1>1 DEF NoGraph, Nodes, IsGraph
<1>11. TypeOK'
  <2>1. layer2nodes' \in [Layers -> Seq(Nodes(graph)')]
    <3>1. layer2nodes' = [l \in Layers |-> << >>]
      BY <1>1, <1>2, <1>4 DEF TypeOK
    <3> QED  BY <3>1, NoList
  <2>2. Items' = Layers /\ walk' \in Seq([at : Items', left : Seq(Items')])
    BY <1>1, NoList DEF Items
  <2> QED  BY <1>1, <1>2, <1>7, <1>10, <2>1, <2>2 DEF TypeOK, Sorting
<1>12. PartsInv'
  BY <1>1, <1>4, <1>8, <1>10 DEF PartsInv
<1>13. Body'
  <2>1. ToSet(<< >>) = {} /\ IsInjective(<< >>)
    BY NoList
  <2>2. Wired(graph)' /\ Complete(graph)' /\ LoopInv'
    BY <1>1, <1>8, <1>9, <1>10, <2>1 DEF Wired, Complete, LoopInv
  <2>3. Ranked'
    <3>1. Ascends(graph', << >>)
      BY <1>10 DEF Ascends
    <3> QED  BY <1>10, <3>1 DEF Ranked
  <2>4. Fed'
    <3>1. IsFeed(graph', << >>)
      BY <1>10 DEF IsFeed
    <3> QED  BY <1>10, <3>1 DEF Fed
  <2>5. KindsInv' /\ FanInv' /\ BorderInv' /\ PieceInv' /\ SortInv' /\ DoneInv'
    BY <1>1, <1>10 DEF KindsInv, FanInv, BorderInv, PieceInv, SortInv, DoneInv, Sorting, Done
  <2> QED  BY <2>2, <2>3, <2>4, <2>5 DEF Body
<1> QED  BY <1>1, <1>2, <1>11, <1>12, <1>13, NetKept DEF IInv

\* The sort of the nodes with names that differ keeps the edges.
LEMMA ReorderKeeps ==
  ASSUME IInv, Sorting, phase \notin Early, phase' \notin Early, ~ Sorting',
         phase' = IF phase = "sortConnected" THEN "splits" ELSE "done",
         graph' = [graph EXCEPT !.order = SortedNodes],
         walk = << >>, todo = << >>, walk' = walk, UNCHANGED <<net, layers, layer2nodes>>,
         todo' = IF phase' = "done" THEN << >> ELSE SortedNodes
  PROVE  /\ TypeOK' /\ NetInv' /\ PartsInv'
         /\ Sane' => Body /\ DistinctNames
         /\ Body /\ DistinctNames =>
              /\ Wired(graph)' /\ Complete(graph)' /\ LoopInv' /\ Ranked' /\ Fed' /\ KindsInv'
              /\ PieceInv' /\ SortInv' /\ BorderInv' /\ DoneInv'
<1>1. TypeOK /\ NetInv /\ PartsInv
  BY DEF IInv
<1>2. /\ SortedNodes \in Seq(Nodes(graph)) /\ Len(SortedNodes) = Len(stack)
  BY <1>1, SortedTypes
<1>3. /\ graph'.size = graph.size /\ graph'.node = graph.node /\ graph'.dst = graph.dst
      /\ graph'.src = graph.src /\ graph'.order = SortedNodes
      /\ graph' = [size |-> graph'.size, node |-> graph'.node, dst |-> graph'.dst,
                   src |-> graph'.src, order |-> graph'.order]
  BY <1>1 DEF TypeOK, IsGraph
<1>4. /\ Nodes(graph)' = Nodes(graph)
      /\ \A n : Origin(graph', n) = Origin(graph, n) /\ Name(graph', n) = Name(graph, n)
      /\ \A n : OfNet(n)' <=> OfNet(n)
  BY <1>3 DEF Nodes, Origin, Name, OfNet
<1>5. /\ gsize' = gsize /\ type' = type /\ connection' = connection /\ location' = location
      /\ srclayers' = srclayers /\ layers' = layers /\ layer2nodes' = layer2nodes
  BY DEF net
<1>6. IsGraph(graph)'
  BY <1>1, <1>2, <1>3, <1>4 DEF TypeOK, IsGraph
<1>7. phase \in {"sortConnected", "sortBridged"}
  BY DEF Sorting, Early
<1>8. Items = Nodes(graph) /\ Items' = Nodes(graph)
  BY <1>4, <1>7 DEF Items
<1>9. TypeOK'
  <2>1. todo' \in Seq(Items')
    BY <1>2, <1>8
  <2>2. walk' \in Seq([at : Items', left : Seq(Items')])
    BY NoList
  <2> QED  BY <1>1, <1>4, <1>5, <1>6, <2>1, <2>2 DEF TypeOK
<1>10. NetInv'
  BY <1>1, NetKept
<1>11. PartsInv'
  BY <1>1, <1>3, <1>4, <1>5, <1>7 DEF PartsInv, PartsOf, Partitioned
<1>12. ASSUME Sane' PROVE Body /\ DistinctNames
  BY <1>4, <1>12 DEF IInv, Sane, DistinctNames
<1>13. ASSUME Body, DistinctNames
       PROVE  /\ Wired(graph)' /\ Complete(graph)' /\ LoopInv' /\ Ranked' /\ Fed' /\ KindsInv'
              /\ PieceInv' /\ SortInv' /\ BorderInv' /\ DoneInv'
  <2>1. /\ ToSet(SortedNodes) = Nodes(graph) /\ IsInjective(SortedNodes)
        /\ \A i, j \in 1 .. Len(SortedNodes) :
              SortedNodes[j] \in ToSet(graph.dst[SortedNodes[i]]) => i < j
    BY <1>1, <1>13, SortedFacts
  <2>2. Wired(graph)' /\ Complete(graph)'
    BY <1>3, <1>4, <1>13, <2>1 DEF Body, Wired, Complete
  <2>3. LoopInv'
    BY <2>1, NoList DEF LoopInv, Early
  <2>4. Ranked'
    <3>1. Ascends(graph', Height)
      BY <1>3, <1>4, <1>13, HeightAscends DEF Ascends
    <3> QED  BY <3>1 DEF Ranked
  <2>5. Fed'
    <3>1. ASSUME NEW s \in Layers, NEW m \in Layers PROVE Linked(s, m)' <=> Linked(s, m)
      BY <1>5 DEF Linked, Pending, Early
    <3> QED  BY <1>3, <1>13, <3>1, FedKept DEF Body
  <2>6. KindsInv'
    BY <1>3, <1>4, <1>7, <1>13 DEF Body, KindsInv, Early
  <2>7. PieceInv'
    <3>1. \A n : Past(n)' = Past(n)
      BY <1>3, <1>4 DEF Past
    <3>2. \A ns : Whole(ns)' <=> Whole(ns)
      BY <1>3, <1>5, <3>1 DEF Whole
    <3> QED  BY <1>3, <1>4, <1>13, <3>2 DEF Body, PieceInv
  <2>8. SortInv'
    BY DEF SortInv
  <2>9. BorderInv'
    <3>1. \A n, d : ~ Unbridged(n, d)
      BY <1>7 DEF Unbridged
    <3>2. CASE phase = "sortBridged"
      BY <1>3, <1>4, <1>13, <3>1, <3>2 DEF Body, BorderInv, Pair, Apart
    <3>3. CASE phase = "sortConnected"
      BY <3>3 DEF BorderInv
    <3> QED  BY <1>7, <3>2, <3>3
  <2>10. DoneInv'
    BY <1>3, <2>1 DEF DoneInv
  <2> QED  BY <2>2, <2>3, <2>4, <2>5, <2>6, <2>7, <2>8, <2>9, <2>10
<1> QED  BY <1>9, <1>10, <1>11, <1>12, <1>13

\* The last sort makes SourcesFirst true.
LEMMA BridgedSortedKeeps == IInv /\ BridgedSorted => IInv'
<1> SUFFICES ASSUME IInv, BridgedSorted PROVE IInv'
  OBVIOUS
<1>1. /\ phase = "sortBridged" /\ walk = << >> /\ todo = << >>
      /\ graph' = [graph EXCEPT !.order = SortedNodes] /\ phase' = "done"
      /\ todo' = todo /\ walk' = walk /\ UNCHANGED <<net, layers, layer2nodes>>
  BY DEF BridgedSorted, SortEnds
<1>2. Sorting /\ ~ Sorting' /\ phase \notin Early /\ phase' \notin Early
  BY <1>1 DEF Sorting, Early
<1>3. /\ TypeOK' /\ NetInv' /\ PartsInv'
      /\ Sane' => Body /\ DistinctNames
      /\ Body /\ DistinctNames =>
              /\ Wired(graph)' /\ Complete(graph)' /\ LoopInv' /\ Ranked' /\ Fed' /\ KindsInv'
              /\ PieceInv' /\ SortInv' /\ BorderInv' /\ DoneInv'
  BY <1>1, <1>2, ReorderKeeps
<1>4. ASSUME Body PROVE FanInv'
  <2>1. /\ Nodes(graph)' = Nodes(graph) /\ graph'.dst = graph.dst /\ srclayers' = srclayers
        /\ \A n : Origin(graph', n) = Origin(graph, n)
    BY <1>1 DEF Nodes, Origin, net
  <2> QED  BY <1>1, <1>4, <2>1 DEF Body, FanInv, OfNet, IsData
<1> QED  BY <1>3, <1>4 DEF IInv, Body

\* A node without sources is a data layer's.
LEMMA SourcelessIsData ==
  ASSUME IInv, Body, phase \notin {"construct", "wire", "sortLayers", "nodes", "edges"},
         NEW n \in Nodes(graph), graph.src[n] = << >>
  PROVE  OfNet(n) /\ IsData(Origin(graph, n))
<1> DEFINE l == Origin(graph, n)
<1>1. TypeOK /\ NetInv /\ PartsInv
  BY DEF IInv
<1>2. OfNet(n) /\ l \in Layers
  BY DEF Body, KindsInv, OfNet
<1>3. PICK F : IsFeed(graph, F) /\ F[n] = Wants(n)
  BY <1>2 DEF Body, Fed
<1>4. ToSet(graph.src[n]) = {}
  BY NoList
<1>5. Wants(n) = {}
  BY <1>3, <1>4 DEF IsFeed
<1> HIDE DEF l
<1>6. ASSUME srclayers[l] # << >> PROVE FALSE
  <2>1. srclayers[l] \in Seq(Layers)
    BY <1>1, <1>2 DEF TypeOK
  <2>2. PICK s \in Layers : s \in ToSet(srclayers[l])
    BY <1>6, <2>1, TailList
  <2>3. Linked(s, l)
    BY <2>2 DEF Linked, Pending
  <2>4. /\ layer2nodes[s] \in Seq(Nodes(graph)) /\ layer2nodes[l] \in Seq(Nodes(graph))
        /\ Len(layer2nodes[s]) = PartsOf(s) /\ Len(layer2nodes[l]) = PartsOf(l)
        /\ \A i \in 1 .. Len(layer2nodes[s]) : /\ Origin(graph, layer2nodes[s][i]) = s
                                               /\ graph.node[layer2nodes[s][i]].partition = i - 1
        /\ \A i \in 1 .. Len(layer2nodes[l]) : graph.node[layer2nodes[l][i]].partition = i - 1
        /\ n \in ToSet(layer2nodes[l])
    BY <1>1, <1>2, <2>2 DEF TypeOK, PartsInv, l
  <2>5. PICK i \in 1 .. Len(layer2nodes[l]) : layer2nodes[l][i] = n
    BY <2>4, ListFacts
  <2>6. gsize \in Nat \ {0, 1}
    BY <1>1, NetGraphAssumption DEF TypeOK
  <2>7. PICK j \in 1 .. Len(layer2nodes[s]) : type[s] = type[l] => j = i
    <3>1. CASE type[s] = type[l]
      BY <2>4, <3>1 DEF PartsOf, Partitioned
    <3>2. CASE type[s] # type[l]
      <4>1. 1 \in 1 .. Len(layer2nodes[s])
        BY <2>4, <2>6 DEF PartsOf
      <4> QED  BY <3>2, <4>1
    <3> QED  BY <3>1, <3>2
  <2>8. layer2nodes[s][j] \in Nodes(graph)
    BY <2>4, ListFacts
  <2>9. layer2nodes[s][j] \in Wants(n)
    BY <1>2, <2>2, <2>3, <2>4, <2>5, <2>7, <2>8 DEF Wants, OfNet, Suits, l
  <2> QED  BY <1>5, <2>9
<1> QED  BY <1>2, <1>6 DEF IsData, l

\* The first node of the order reads nothing: it is of a data layer.
LEMMA ConnectedSortedKeeps == IInv /\ ConnectedSorted => IInv'
<1> SUFFICES ASSUME IInv, ConnectedSorted PROVE IInv'
  OBVIOUS
<1>1. /\ phase = "sortConnected" /\ walk = << >> /\ todo = << >>
      /\ graph' = [graph EXCEPT !.order = SortedNodes] /\ phase' = "splits"
      /\ todo' = SortedNodes /\ walk' = walk /\ UNCHANGED <<net, layers, layer2nodes>>
  BY DEF ConnectedSorted, SortEnds
<1>2. Sorting /\ ~ Sorting' /\ phase \notin Early /\ phase' \notin Early
  BY <1>1 DEF Sorting, Early
<1>3. /\ TypeOK' /\ NetInv' /\ PartsInv'
      /\ Sane' => Body /\ DistinctNames
      /\ Body /\ DistinctNames =>
              /\ Wired(graph)' /\ Complete(graph)' /\ LoopInv' /\ Ranked' /\ Fed' /\ KindsInv'
              /\ PieceInv' /\ SortInv' /\ BorderInv' /\ DoneInv'
  BY <1>1, <1>2, ReorderKeeps
<1>4. ASSUME Body, DistinctNames PROVE FanInv'
  <2>1. /\ Nodes(graph)' = Nodes(graph) /\ graph'.dst = graph.dst /\ srclayers' = srclayers
        /\ \A n : Origin(graph', n) = Origin(graph, n)
        /\ graph'.order = SortedNodes
    BY <1>1 DEF Nodes, Origin, net, IInv, TypeOK, IsGraph
  <2>2. TypeOK /\ IsGraph(graph)
    BY DEF IInv, TypeOK
  <2>3. /\ SortedNodes \in Seq(Nodes(graph))
        /\ ToSet(SortedNodes) = Nodes(graph) /\ IsInjective(SortedNodes)
        /\ \A i, j \in 1 .. Len(SortedNodes) :
              SortedNodes[j] \in ToSet(graph.dst[SortedNodes[i]]) => i < j
    BY <1>1, <1>2, <1>4, <2>2, SortedTypes, SortedFacts
  <2>4. ASSUME SortedNodes # << >>
        PROVE  OfNet(Head(SortedNodes)) /\ IsData(Origin(graph, Head(SortedNodes)))
    <3> DEFINE n == Head(SortedNodes)
    <3>1. n = SortedNodes[1] /\ n \in Nodes(graph) /\ Len(SortedNodes) \in Nat \ {0}
      BY <2>3, <2>4, TailList
    <3> HIDE DEF n
    <3>2. ASSUME NEW m \in ToSet(graph.src[n]) PROVE FALSE
      <4>1. m \in Nodes(graph)
        BY <2>2, <3>1, GraphFacts, ListFacts
      <4>2. n \in ToSet(graph.dst[m])
        BY <1>4, <3>1, <4>1 DEF Body, Wired
      <4>3. PICK i \in 1 .. Len(SortedNodes) : SortedNodes[i] = m
        BY <2>3, <4>1, ListFacts
      <4>4. 1 \in 1 .. Len(SortedNodes)
        BY <3>1
      <4>5. i < 1
        BY <2>3, <3>1, <4>2, <4>3, <4>4
      <4> QED  BY <4>3, <4>5
    <3>3. graph.src[n] = << >>
      BY <2>2, <3>1, <3>2, GraphFacts, NoList
    <3> QED  BY <1>1, <1>4, <3>1, <3>3, SourcelessIsData DEF n
  <2>5. (phase = "splits" /\ graph.order # << >> =>
           OfNet(Head(graph.order)) /\ IsData(Origin(graph, Head(graph.order))))'
    BY <2>1, <2>4 DEF OfNet, IsData
  <2>6. \A n \in Nodes(graph)' : n \in ToSet(todo')
    BY <1>1, <2>1, <2>3
  <2> QED  BY <1>1, <2>5, <2>6 DEF FanInv
<1> QED  BY <1>3, <1>4 DEF IInv, Body

----------------------------------------------------------------------------
(* Steps that add the nodes of layers *)

\* Without edges, layers that have come to none of their sources are ranked
\* and fed.
LEMMA EdgelessBody ==
  ASSUME IsGraph(graph)', NetInv', phase' \in {"wire", "nodes"},
         \A n \in Nodes(graph') : /\ graph'.dst[n] = << >> /\ graph'.src[n] = << >>
                                  /\ Origin(graph', n) \in Layers,
         \A s, l \in Layers : Pending(s, l)',
         Complete(graph)', LoopInv'
  PROVE  Body'
<1>1. ToSet(<< >>) = {} /\ IsInjective(<< >>)
  BY NoList
<1>2. Wired(graph)'
  BY <1>1 DEF Wired
<1>3. Ranked'
  <2> DEFINE f == [n \in Nodes(graph') |-> 4 * Rank'[Origin(graph', n)]]
  <2>1. \A l \in Layers : Rank'[l] \in 1 .. Len(LayerNames)
    BY DEF NetInv, IsRank
  <2>2. \A l \in Layers : 4 * Rank'[l] \in Nat
    BY <2>1
  <2>3. f \in [Nodes(graph') -> Nat]
    BY <2>2
  <2>4. \A n \in Nodes(graph') : f[n] = 4 * Rank'[Origin(graph', n)]
    OBVIOUS
  <2> HIDE DEF f
  <2>5. Ascends(graph', f)
    BY <1>1, <2>3 DEF Ascends
  <2> QED  BY <2>4, <2>5 DEF Ranked
<1>4. Fed'
  <2> DEFINE F == [n \in Nodes(graph') |-> {}]
  <2>1. IsFeed(graph', F)
    BY <1>1 DEF IsFeed
  <2>2. ASSUME NEW n \in Nodes(graph') PROVE Wants(n)' = {}
    BY DEF Wants, Linked, OfNet
  <2>3. \A n \in Nodes(graph') : F[n] = {}
    OBVIOUS
  <2> HIDE DEF F
  <2> QED  BY <2>1, <2>2, <2>3 DEF Fed
<1>5. KindsInv'
  <2>1. \A l \in Layers : l \notin Between
    BY NetGraphAssumption, ListFacts DEF Layers
  <2> QED  BY <2>1 DEF KindsInv, OfNet, Bridges, Between
<1>6. FanInv' /\ BorderInv' /\ SortInv' /\ DoneInv'
  BY DEF FanInv, BorderInv, SortInv, DoneInv, Sorting, Done
<1>7. PieceInv'
  <2>1. \A l \in Layers : l \notin Between
    BY NetGraphAssumption, ListFacts DEF Layers
  <2> QED  BY <2>1 DEF PieceInv, Between
<1> QED  BY <1>2, <1>3, <1>4, <1>5, <1>6, <1>7 DEF Body

\* One node for each layer.
LEMMA ConstructKeeps == IInv /\ Construct => IInv'
<1> SUFFICES ASSUME IInv, Construct PROVE IInv'
  OBVIOUS
<1> DEFINE k == Len(LayerNames)
           infos == [i \in DOMAIN LayerNames |-> Info(LayerNames[i], <<LayerNames[i]>>, 0, 0)]
<1>1. /\ phase = "construct" /\ graph' = AddNodes(NoGraph, k, infos)
      /\ phase' = "wire" /\ todo' = LayerNames /\ walk' = walk
      /\ UNCHANGED <<net, layers, layer2nodes>> /\ visited' = visited /\ stack' = stack
      /\ gsize' = gsize /\ type' = type /\ connection' = connection /\ location' = location
      /\ srclayers' = srclayers /\ layers' = layers /\ layer2nodes' = layer2nodes
  BY DEF Construct, net, calls
<1>2. TypeOK /\ NetInv /\ PartsInv /\ Body
  BY <1>1 DEF IInv, Sane, Early
<1>3. walk = << >>
  BY <1>1, <1>2 DEF Body, LoopInv
<1>4. /\ IsGraph(NoGraph) /\ NoGraph.size = 0 /\ Nodes(NoGraph) = {}
      /\ Complete(NoGraph)
  <2>1. /\ NoGraph.size = 0 /\ NoGraph.order = << >> /\ Nodes(NoGraph) = {}
        /\ IsGraph(NoGraph)
    BY DEF NoGraph, Nodes, IsGraph
  <2> QED  BY <2>1, NoList DEF Complete
<1>5. /\ k \in Nat /\ DOMAIN LayerNames = 1 .. k /\ IsInjective(LayerNames)
      /\ \A i \in 1 .. k : LayerNames[i] \in Layers
      /\ ToSet(LayerNames) = Layers /\ LayerNames \in Seq(Layers)
  <2>1. /\ k \in Nat /\ DOMAIN LayerNames = 1 .. k /\ IsInjective(LayerNames)
        /\ \A i \in 1 .. k : LayerNames[i] \in Layers
        /\ ToSet(LayerNames) = Layers
    BY NetGraphAssumption, ListFacts DEF Layers
  <2>2. LayerNames \in [1 .. k -> Layers]
    BY <2>1, NetGraphAssumption
  <2> QED  BY <2>1, <2>2, ListOf
<1>6. \A i \in 1 .. k : /\ IsInfo(infos[i]) /\ infos[i].origin = LayerNames[i]
                        /\ infos[i].name = <<LayerNames[i]>> /\ infos[i].partition = 0
  BY <1>5 DEF IsInfo, Info
<1> HIDE DEF infos, k
<1>7. PICK h : h = graph'
  OBVIOUS
<1>8. /\ IsGraph(h) /\ h.size = 0 + k
      /\ \A i \in 1 .. k : /\ h.node[0 + i] = infos[i]
                           /\ h.dst[0 + i] = << >> /\ h.src[0 + i] = << >>
      /\ Complete(h)
  <2>1. NodesAdded(NoGraph, h, k, infos)
    BY <1>1, <1>4, <1>5, <1>6, <1>7, AddNodesFacts
  <2> QED  BY <1>4, <2>1 DEF NodesAdded
<1>9. h.size = k /\ Nodes(h) = 1 .. k
  BY <1>5, <1>8 DEF Nodes
<1>10. \A n \in Nodes(h) : h.node[n] = infos[n] /\ h.dst[n] = << >> /\ h.src[n] = << >>
  <2>1. \A n \in 1 .. k : 0 + n = n
    BY <1>5
  <2> QED  BY <1>8, <1>9, <2>1
<1>11. \A n \in Nodes(h) : /\ Origin(h, n) = LayerNames[n] /\ Origin(h, n) \in Layers
                           /\ Name(h, n) = <<LayerNames[n]>> /\ h.node[n].partition = 0
  BY <1>5, <1>6, <1>9, <1>10 DEF Origin, Name
<1>12. \A l \in Layers : layer2nodes[l] = << >>
  BY <1>1, <1>2 DEF PartsInv
<1>13. TypeOK'
  <2>1. layer2nodes' \in [Layers -> Seq(Nodes(h))]
    <3>1. layer2nodes = [l \in Layers |-> << >>]
      BY <1>2, <1>12 DEF TypeOK
    <3> QED  BY <1>1, <3>1, NoList
  <2>2. Items' = Layers /\ walk' \in Seq([at : Items', left : Seq(Items')])
    BY <1>1, <1>3, NoList DEF Items
  <2> QED  BY <1>1, <1>2, <1>5, <1>7, <1>8, <2>1, <2>2 DEF TypeOK, Sorting
<1>14. PartsInv'
  BY <1>1, <1>7, <1>9, <1>11, <1>12 DEF PartsInv, k
<1>15. NetInv'
  BY <1>1, <1>2, NetKept
<1>16. Body'
  <2>1. LoopInv'
    BY <1>1, <1>3, <1>5 DEF LoopInv
  <2>2. \A s, l \in Layers : Pending(s, l)'
    BY <1>1, <1>5 DEF Pending
  <2> QED  BY <1>1, <1>7, <1>8, <1>10, <1>11, <1>15, <2>1, <2>2, EdgelessBody
<1> QED  BY <1>13, <1>14, <1>15, <1>16 DEF IInv

\* The nodes that AddNodes creates.
LEMMA NewNodesFacts ==
  ASSUME NEW g, g.size \in Nat, NEW k \in Nat
  PROVE  /\ Len(NewNodes(g, k)) = k /\ IsInjective(NewNodes(g, k))
         /\ \A i \in 1 .. k : NewNodes(g, k)[i] = g.size + i
         /\ \A h : h.size = g.size + k =>
              /\ NewNodes(g, k) \in Seq(Nodes(h))
              /\ ToSet(NewNodes(g, k)) = Nodes(h) \ Nodes(g)
<1> DEFINE new == NewNodes(g, k)
<1>1. new = [i \in 1 .. k |-> g.size + i]
  BY DEF NewNodes
<1>2. \A i \in 1 .. k : new[i] = g.size + i
  BY <1>1
<1>3. new \in [1 .. k -> Nat]
  BY <1>1
<1>4. new \in Seq(Nat) /\ Len(new) = k
  BY <1>3, ListOf
<1> HIDE DEF new
<1>5. IsInjective(new)
  <2>1. \A i, j \in 1 .. k : new[i] = new[j] => i = j
    BY <1>2
  <2> QED  BY <1>4, <2>1, ListFacts
<1>6. ASSUME NEW h, h.size = g.size + k
      PROVE  new \in Seq(Nodes(h)) /\ ToSet(new) = Nodes(h) \ Nodes(g)
  <2>1. \A i \in 1 .. k : new[i] \in Nodes(h) /\ new[i] \notin Nodes(g)
    BY <1>2, <1>6 DEF Nodes
  <2>2. \A n \in Nodes(h) \ Nodes(g) : n - g.size \in 1 .. k /\ new[n - g.size] = n
    <3> TAKE n \in Nodes(h) \ Nodes(g)
    <3>1. n - g.size \in 1 .. k /\ g.size + (n - g.size) = n
      BY <1>6 DEF Nodes
    <3> QED  BY <1>2, <3>1
  <2>3. new \in Seq(Nodes(h))
    <3>1. DOMAIN new = 1 .. k /\ new = [i \in 1 .. k |-> new[i]]
      BY <1>1
    <3>2. new \in [1 .. k -> Nodes(h)]
      BY <2>1, <3>1
    <3> QED  BY <3>2, ListOf
  <2>4. \A x : x \in ToSet(new) <=> \E i \in 1 .. k : new[i] = x
    BY <1>4, ListFacts
  <2> QED  BY <2>1, <2>2, <2>3, <2>4
<1> QED  BY <1>2, <1>4, <1>5, <1>6 DEF new

\* A layer gets its nodes, which read nothing yet.
LEMMA AddPartitionsKeeps == IInv /\ AddPartitions => IInv'
<1> SUFFICES ASSUME IInv, AddPartitions PROVE IInv'
  OBVIOUS
<1> DEFINE l == Head(todo)
           Part(i) == IF Partitioned(l) THEN Info(l, <<l, i - 1>>, i - 1, i - 1)
                      ELSE Info(l, <<l>>, location[l], 0)
           k == PartsOf(l)
           infos == [i \in 1 .. k |-> Part(i)]
<1>1. /\ phase = "nodes" /\ todo # << >> /\ graph' = AddNodes(graph, k, infos)
      /\ layer2nodes' = [layer2nodes EXCEPT ![l] = NewNodes(graph, k)]
      /\ phase' = phase /\ todo' = Tail(todo) /\ walk' = walk
      /\ UNCHANGED <<net, layers>> /\ visited' = visited /\ stack' = stack
      /\ gsize' = gsize /\ type' = type /\ connection' = connection /\ location' = location
      /\ srclayers' = srclayers /\ layers' = layers
  BY DEF AddPartitions, net, calls
<1>2. TypeOK /\ NetInv /\ PartsInv /\ Body
  BY <1>1 DEF IInv, Sane, Early
<1>3. /\ walk = << >> /\ ToSet(layers) = Layers /\ IsInjective(layers)
      /\ todo \in Seq(Layers) /\ IsInjective(todo) /\ IsGraph(graph) /\ graph.size \in Nat
  BY <1>1, <1>2, GraphFacts DEF Body, LoopInv, TypeOK, Items
<1>4. /\ l \in Layers /\ Tail(todo) \in Seq(Layers) /\ IsInjective(Tail(todo))
      /\ ToSet(todo) = {l} \cup ToSet(Tail(todo)) /\ l \notin ToSet(Tail(todo))
  BY <1>1, <1>3, TailList
<1>5. k \in Nat \ {0} /\ (~ Partitioned(l) => k = 1)
  BY <1>2, NetGraphAssumption DEF TypeOK, PartsOf
<1>6. \A i \in 1 .. k : IsInfo(infos[i]) /\ infos[i].origin = l /\ infos[i].partition = i - 1
  <2> TAKE i \in 1 .. k
  <2>1. location[l] \in Nat /\ i - 1 \in Nat
    <3>1. location[l] \in Nat
      BY <1>2, <1>4, NetGraphAssumption DEF TypeOK
    <3>2. i - 1 \in Nat
      BY <1>5
    <3> QED  BY <3>1, <3>2
  <2>2. CASE Partitioned(l)
    <3>1. infos[i] = Info(l, <<l, i - 1>>, i - 1, i - 1)
      BY <2>2
    <3> QED  BY <1>4, <2>1, <3>1 DEF IsInfo, Info
  <2>3. CASE ~ Partitioned(l)
    <3>1. infos[i] = Info(l, <<l>>, location[l], 0) /\ i - 1 = 0
      BY <1>5, <2>3
    <3> QED  BY <1>4, <2>1, <3>1 DEF IsInfo, Info
  <2> QED  BY <2>2, <2>3
<1> HIDE DEF infos, k, l
<1>7. PICK h : h = graph'
  OBVIOUS
<1>8. /\ IsGraph(h) /\ h.size = graph.size + k
      /\ Extends(graph, h) /\ Nodes(graph) \subseteq Nodes(h)
      /\ \A n \in Nodes(graph) : h.dst[n] = graph.dst[n] /\ h.src[n] = graph.src[n]
      /\ \A i \in 1 .. k :
           /\ h.node[graph.size + i] = infos[i]
           /\ h.dst[graph.size + i] = << >> /\ h.src[graph.size + i] = << >>
      /\ \A n \in Nodes(h) \ Nodes(graph) : n - graph.size \in 1 .. k /\ graph.size + (n - graph.size) = n
      /\ Complete(graph) => Complete(h)
  <2>1. NodesAdded(graph, h, k, infos)
    BY <1>1, <1>3, <1>5, <1>6, <1>7, AddNodesFacts
  <2> QED  BY <2>1 DEF NodesAdded
<1> DEFINE new == NewNodes(graph, k)
<1>9. /\ new \in Seq(Nodes(h)) /\ Len(new) = k /\ ToSet(new) = Nodes(h) \ Nodes(graph)
      /\ \A i \in 1 .. k : new[i] = graph.size + i
  BY <1>3, <1>5, <1>8, NewNodesFacts
<1> HIDE DEF new
<1>10. \A n \in Nodes(graph) : graph.dst[n] = << >> /\ graph.src[n] = << >> /\ OfNet(n)
  <2>1. PICK F : IsFeed(graph, F) /\ \A n \in Nodes(graph) : OfNet(n) => F[n] = Wants(n)
    BY <1>2 DEF Body, Fed
  <2>2. \A n \in Nodes(graph) : OfNet(n)
    BY <1>1, <1>2 DEF Body, KindsInv, Early
  <2>3. \A n \in Nodes(graph) : F[n] = {}
    BY <1>1, <2>1, <2>2 DEF Wants, Linked, Pending
  <2>4. \A n \in Nodes(graph) : ToSet(graph.src[n]) = {}
    <3> TAKE n \in Nodes(graph)
    <3>1. \A m \in ToSet(graph.src[n]) : Given(graph, F, m) = {m}
      <4> TAKE m \in ToSet(graph.src[n])
      <4>1. m \in Nodes(graph)
        BY <1>3, GraphFacts, ListFacts
      <4> QED  BY <2>2, <4>1 DEF Given, OfNet
    <3> QED  BY <2>1, <2>3, <3>1 DEF IsFeed
  <2>5. \A n \in Nodes(graph) : ToSet(graph.dst[n]) = {}
    <3> TAKE n \in Nodes(graph)
    <3>1. \A d \in ToSet(graph.dst[n]) : d \in Nodes(graph)
      BY <1>3, GraphFacts, ListFacts
    <3> QED  BY <1>2, <2>4, <3>1 DEF Body, Wired
  <2>6. ASSUME NEW n \in Nodes(graph) PROVE graph.dst[n] = << >> /\ graph.src[n] = << >>
    <3>1. graph.dst[n] \in Seq(Nodes(graph)) /\ graph.src[n] \in Seq(Nodes(graph))
      BY <1>3, GraphFacts
    <3> QED  BY <2>4, <2>5, <3>1, NoList
  <2> QED  BY <2>2, <2>6
<1>11. \A n \in Nodes(graph) : h.node[n] = graph.node[n]
  BY <1>8 DEF Extends
<1>12. \A n \in Nodes(h) \ Nodes(graph) : \E i \in 1 .. k : new[i] = n /\ h.node[n] = infos[i]
  BY <1>8, <1>9
<1>13. \A n \in Nodes(h) : /\ h.dst[n] = << >> /\ h.src[n] = << >> /\ Origin(h, n) \in Layers
  <2>1. \A n \in Nodes(h) \ Nodes(graph) : h.dst[n] = << >> /\ h.src[n] = << >> /\ Origin(h, n) = l
    BY <1>6, <1>8, <1>9, <1>12 DEF Origin
  <2>2. \A n \in Nodes(graph) : h.dst[n] = << >> /\ h.src[n] = << >> /\ Origin(h, n) \in Layers
    BY <1>8, <1>10, <1>11 DEF Origin, OfNet
  <2> QED  BY <1>4, <2>1, <2>2
<1>14. /\ layer2nodes'[l] = new
       /\ \A m \in Layers \ {l} : layer2nodes'[m] = layer2nodes[m]
       /\ layer2nodes' \in [Layers -> Seq(Nodes(h))]
  <2>1. layer2nodes \in [Layers -> Seq(Nodes(h))]
    BY <1>2, <1>8, ListOver DEF TypeOK
  <2> QED  BY <1>1, <1>4, <1>9, <2>1 DEF new
<1>15. TypeOK'
  <2>1. Items' = Layers /\ walk' \in Seq([at : Items', left : Seq(Items')])
    BY <1>1, <1>3, NoList DEF Items
  <2> QED  BY <1>1, <1>2, <1>4, <1>7, <1>8, <1>14, <2>1 DEF TypeOK, Sorting
<1>16. PartsInv'
  <2>1. \A m \in Layers : IF m \in ToSet(todo) THEN layer2nodes[m] = << >>
                          ELSE Len(layer2nodes[m]) = PartsOf(m)
    BY <1>1, <1>2 DEF PartsInv
  <2>2. \A m \in Layers : PartsOf(m)' = PartsOf(m)
    BY <1>1 DEF PartsOf, Partitioned
  <2>3. \A m \in Layers : IF m \in ToSet(todo') THEN layer2nodes'[m] = << >>
                          ELSE Len(layer2nodes'[m]) = PartsOf(m)'
    <3> TAKE m \in Layers
    <3>1. CASE m = l
      BY <1>1, <1>4, <1>9, <1>14, <2>2, <3>1 DEF k
    <3>2. CASE m # l
      BY <1>1, <1>4, <1>14, <2>1, <2>2, <3>2
    <3> QED  BY <3>1, <3>2
  <2>4. ASSUME NEW m \in Layers, NEW i \in 1 .. Len(layer2nodes'[m])
        PROVE  Origin(h, layer2nodes'[m][i]) = m /\ h.node[layer2nodes'[m][i]].partition = i - 1
    <3>1. CASE m = l
      <4>1. i \in 1 .. k /\ h.node[new[i]] = infos[i]
        BY <1>8, <1>9, <1>14, <2>4, <3>1
      <4> QED  BY <1>6, <1>14, <3>1, <4>1 DEF Origin
    <3>2. CASE m # l
      <4>1. layer2nodes'[m] = layer2nodes[m] /\ layer2nodes[m] \in Seq(Nodes(graph))
        BY <1>2, <1>14, <3>2 DEF TypeOK
      <4>2. i \in 1 .. Len(layer2nodes[m]) /\ layer2nodes[m][i] \in Nodes(graph)
        BY <2>4, <4>1, ListFacts
      <4>3. /\ Origin(graph, layer2nodes[m][i]) = m
            /\ graph.node[layer2nodes[m][i]].partition = i - 1
        BY <1>1, <1>2, <4>2 DEF PartsInv
      <4> QED  BY <1>11, <4>1, <4>2, <4>3 DEF Origin
    <3> QED  BY <3>1, <3>2
  <2>5. ASSUME NEW n \in Nodes(h) PROVE n \in ToSet(layer2nodes'[Origin(h, n)])
    <3>1. CASE n \in Nodes(graph)
      <4>1. n \in ToSet(layer2nodes[Origin(graph, n)]) /\ Origin(h, n) = Origin(graph, n)
        BY <1>1, <1>2, <1>10, <1>11, <3>1 DEF PartsInv, Origin
      <4>2. Origin(graph, n) # l
        <5>1. ASSUME Origin(graph, n) = l PROVE FALSE
          <6>1. layer2nodes[l] = << >>
            BY <1>4, <2>1
          <6> QED  BY <4>1, <5>1, <6>1, NoList
        <5> QED  BY <5>1
      <4>3. Origin(graph, n) \in Layers
        BY <1>10, <3>1 DEF OfNet
      <4> QED  BY <1>14, <4>1, <4>2, <4>3
    <3>2. CASE n \notin Nodes(graph)
      <4>1. n \in ToSet(new) /\ Origin(h, n) = l
        BY <1>6, <1>9, <1>12, <3>2 DEF Origin
      <4> QED  BY <1>14, <4>1
    <3> QED  BY <3>1, <3>2
  <2> QED  BY <1>1, <1>7, <2>3, <2>4, <2>5 DEF PartsInv
<1>17. NetInv'
  BY <1>1, <1>2, NetKept
<1>18. Body'
  <2>1. LoopInv'
    BY <1>1, <1>3, <1>4 DEF LoopInv
  <2>2. \A s, m \in Layers : Pending(s, m)'
    BY <1>1 DEF Pending
  <2>3. Complete(h)
    BY <1>2, <1>8 DEF Body
  <2> QED  BY <1>1, <1>7, <1>8, <1>13, <1>17, <2>1, <2>2, <2>3, EdgelessBody
<1> QED  BY <1>15, <1>16, <1>17, <1>18 DEF IInv

----------------------------------------------------------------------------
(* Steps that connect the parts of a layer to those of one of its sources *)

Parts(g, l) == {n \in Nodes(g) : Origin(g, n) = l}

Fresh(g, h) == Nodes(h) \ Nodes(g)

\* What comes out of a part of the source layer, or of a new node.
Carried(g, C, m) == IF m \in Nodes(g) THEN {m} ELSE C[m]

\* One node for each partition.
Evenly(h, ns) == Len(ns) = gsize /\ {h.node[n].partition : n \in ToSet(ns)} = 0 .. gsize - 1

\* The new nodes between parts of s and parts of l.
Carries(g, h, s, l, C, lv) ==
  /\ \A n \in Fresh(g, h) :
       /\ lv[n] \in 1 .. 3
       /\ C[n] = UNION {Carried(g, C, m) : m \in ToSet(h.src[n])}
       /\ \A m \in ToSet(h.src[n]) : m \in Parts(g, s) \/ (m \in Fresh(g, h) /\ lv[m] < lv[n])
  /\ \A n \in Parts(g, l) : \E in \in SUBSET (Parts(g, s) \cup Fresh(g, h)) :
       /\ ToSet(h.src[n]) = ToSet(g.src[n]) \cup in
       /\ UNION {Carried(g, C, m) : m \in in} = {m \in Parts(g, s) : Suits(g, m, n)}

\* h is g with each part of l connected to what it needs of s.
LinkStep(g, h, s, l) ==
  /\ IsGraph(h) /\ Extends(g, h) /\ Nodes(g) \subseteq Nodes(h) /\ Wired(h) /\ Complete(h)
  /\ \A n \in Nodes(g) : /\ Origin(g, n) # s => h.dst[n] = g.dst[n]
                         /\ Origin(g, n) # l => h.src[n] = g.src[n]
  /\ \A n \in Fresh(g, h) : /\ Origin(h, n) \in {"kSlice", "kConcate", "kSplit"}
                            /\ h.src[n] # << >>
                            /\ Origin(h, n) = "kSlice" => Evenly(h, h.dst[n])
                            /\ Origin(h, n) = "kConcate" => Evenly(h, h.src[n])
  /\ \E C, lv : Carries(g, h, s, l, C, lv)

\* No layer is called like the origin of a node between layers.
LEMMA BetweenNoLayers == \A x \in Between : x \notin Layers
  BY NetGraphAssumption, ListFacts DEF Layers

\* The frame of an inner loop when one item has been taken.
LEMMA TurnFrame ==
  ASSUME NEW S, walk \in Seq([at : S, left : Seq(S)]), NEW n, NEW d, Turn(n, d)
  PROVE  /\ walk # << >> /\ walk[1].at = n /\ n \in S /\ d \in S
         /\ walk[1].left \in Seq(S) /\ walk[1].left # << >> /\ Head(walk[1].left) = d
         /\ walk' \in Seq([at : S, left : Seq(S)]) /\ walk' # << >>
         /\ walk'[1].at = n /\ walk'[1].left = Tail(walk[1].left)
<1> DEFINE fr == [walk[1] EXCEPT !.left = Tail(@)]
<1>1. walk # << >> /\ walk[1].at = n /\ walk[1].left # << >> /\ Head(walk[1].left) = d /\ walk' = <<fr>>
  BY DEF Turn
<1>2. walk[1] \in [at : S, left : Seq(S)]
  <2>1. Len(walk) \in Nat \ {0}
    BY <1>1, EmptySeq
  <2>2. 1 \in 1 .. Len(walk)
    BY <2>1
  <2> QED  BY <2>2, ListFacts
<1>3. walk[1].left \in Seq(S) /\ n \in S
  BY <1>1, <1>2
<1>4. d \in S /\ Tail(walk[1].left) \in Seq(S)
  BY <1>1, <1>3, TailList
<1>5. fr \in [at : S, left : Seq(S)] /\ fr.at = n /\ fr.left = Tail(walk[1].left)
  BY <1>1, <1>2, <1>4
<1> HIDE DEF fr
<1>6. <<fr>> \in Seq([at : S, left : Seq(S)]) /\ <<fr>> # << >> /\ <<fr>>[1] = fr
  BY <1>5, OneList, EmptySeq
<1> QED  BY <1>1, <1>3, <1>4, <1>5, <1>6

\* What is known when a layer l comes to its source s.
LEMMA TurnFacts ==
  ASSUME IInv, phase \in {"wire", "edges"}, NEW s \in Layers, NEW l \in Layers, Turn(l, s)
  PROVE  /\ TypeOK /\ NetInv /\ PartsInv /\ Body
         /\ s \in ToSet(srclayers[l]) /\ Rank[s] \in Nat /\ Rank[l] \in Nat /\ Rank[s] < Rank[l] /\ s # l
         /\ ~ Linked(s, l)
         /\ \A s2, l2 \in Layers : Linked(s2, l2)' <=> Linked(s2, l2) \/ (s2 = s /\ l2 = l)
         /\ walk' \in Seq([at : Layers, left : Seq(Layers)])
         /\ LoopInv'
         /\ \A a \in Parts(graph, s) : \A b \in Parts(graph, l) : b \notin ToSet(graph.dst[a])
<1>1. TypeOK /\ NetInv /\ PartsInv /\ Body
  BY DEF IInv, Sane, Early
<1>2. /\ walk # << >> /\ walk[1].at = l /\ walk[1].left # << >> /\ Head(walk[1].left) = s
      /\ walk' = <<[walk[1] EXCEPT !.left = Tail(@)]>>
      /\ UNCHANGED <<net, layers, layer2nodes, phase, todo, calls>>
      /\ phase' = phase /\ todo' = todo /\ layers' = layers /\ srclayers' = srclayers
  BY DEF Turn, net
<1>3. walk \in Seq([at : Layers, left : Seq(Layers)])
  BY <1>1 DEF TypeOK, Items
<1> DEFINE left == walk[1].left
<1>5. left \in Seq(Layers) /\ walk[1].at = l /\ left # << >> /\ Head(left) = s
  BY <1>3, TurnFrame
<1>6. IsInjective(left) /\ l \notin ToSet(todo) /\ ToSet(left) \subseteq ToSet(srclayers[l])
  BY <1>1, <1>2 DEF Body, LoopInv
<1> HIDE DEF left
<1>7. /\ Tail(left) \in Seq(Layers) /\ ToSet(left) = {s} \cup ToSet(Tail(left))
      /\ IsInjective(Tail(left)) /\ s \notin ToSet(Tail(left))
  BY <1>5, <1>6, TailList
<1>8. /\ walk' \in Seq([at : Layers, left : Seq(Layers)]) /\ walk' # << >>
      /\ walk'[1].at = l /\ walk'[1].left = Tail(left)
  BY <1>3, TurnFrame DEF left
<1>9. s \in ToSet(srclayers[l])
  BY <1>6, <1>7
<1>10. Rank[s] \in Nat /\ Rank[l] \in Nat /\ Rank[s] < Rank[l]
  BY <1>1, <1>9 DEF NetInv, IsRank
<1>11. s # l
  BY <1>10
<1>12. Pending(s, l) /\ ~ Linked(s, l)
  BY <1>2, <1>7 DEF Linked, Pending, left
<1>13. ASSUME NEW s2 \in Layers, NEW l2 \in Layers
       PROVE  Linked(s2, l2)' <=> Linked(s2, l2) \/ (s2 = s /\ l2 = l)
  <2>1. Pending(s2, l2)' <=> l2 \in ToSet(todo) \/ (l2 = l /\ s2 \in ToSet(Tail(left)))
    BY <1>2, <1>8 DEF Pending
  <2>2. Pending(s2, l2) <=> l2 \in ToSet(todo) \/ (l2 = l /\ s2 \in ToSet(left))
    BY <1>2 DEF Pending, left
  <2> QED  BY <1>2, <1>6, <1>7, <1>9, <2>1, <2>2 DEF Linked
<1>14. LoopInv'
  BY <1>1, <1>2, <1>6, <1>7, <1>8 DEF Body, LoopInv
<1>15. ASSUME NEW a \in Parts(graph, s), NEW b \in Parts(graph, l), b \in ToSet(graph.dst[a]) PROVE FALSE
  <2>1. a \in Nodes(graph) /\ b \in Nodes(graph) /\ OfNet(a) /\ OfNet(b)
        /\ Origin(graph, a) = s /\ Origin(graph, b) = l
    BY DEF Parts, OfNet
  <2>2. PICK F : IsFeed(graph, F) /\ F[b] = Wants(b)
    BY <1>1, <2>1 DEF Body, Fed
  <2>3. a \in ToSet(graph.src[b])
    BY <1>1, <1>15, <2>1 DEF Body, Wired
  <2>4. a \in F[b]
    BY <2>1, <2>2, <2>3 DEF IsFeed, Given, OfNet
  <2>5. Linked(s, l)
    BY <2>1, <2>2, <2>4 DEF Wants
  <2> QED  BY <1>12, <2>5
<1> QED  BY <1>1, <1>8, <1>9, <1>10, <1>11, <1>12, <1>13, <1>14, <1>15

\* The nodes between s and l fit between the ranks of s and l.
LEMMA LinkRanked ==
  ASSUME IInv, phase \in {"wire", "edges"}, NEW s \in Layers, NEW l \in Layers, Turn(l, s),
         LinkStep(graph, graph', s, l)
  PROVE  Ranked'
<1>1. TypeOK /\ Body /\ Rank[s] \in Nat /\ Rank[l] \in Nat /\ Rank[s] < Rank[l] /\ phase \in Early
  BY TurnFacts DEF Early
<1>2. PICK f : Ascends(graph, f) /\ \A n \in Nodes(graph) : OfNet(n) => f[n] = 4 * Rank[Origin(graph, n)]
  BY <1>1 DEF Body, Ranked
<1>3. PICK g : g = graph
  OBVIOUS
<1>4. PICK h : h = graph'
  OBVIOUS
<1>5. /\ IsGraph(g) /\ IsGraph(h) /\ Extends(g, h) /\ Nodes(g) \subseteq Nodes(h)
      /\ \A n \in Nodes(g) : Origin(g, n) # l => h.src[n] = g.src[n]
      /\ \A n \in Fresh(g, h) : Origin(h, n) \in {"kSlice", "kConcate", "kSplit"}
  BY <1>1, <1>3, <1>4 DEF LinkStep, TypeOK
<1>6. PICK C, lv : Carries(g, h, s, l, C, lv)
  BY <1>3, <1>4 DEF LinkStep
<1> DEFINE f2 == [n \in Nodes(h) |-> IF n \in Nodes(g) THEN f[n] ELSE 4 * Rank[s] + lv[n]]
<1>7. /\ \A n \in Nodes(g) : f2[n] = f[n]
      /\ \A n \in Fresh(g, h) : f2[n] = 4 * Rank[s] + lv[n] /\ lv[n] \in 1 .. 3
  BY <1>5, <1>6 DEF Fresh, Carries
<1>8. \A n \in Nodes(g) : f[n] \in Nat
  BY <1>2, <1>3 DEF Ascends
<1>9. f2 \in [Nodes(h) -> Nat]
  <2>1. ASSUME NEW n \in Fresh(g, h) PROVE 4 * Rank[s] + lv[n] \in Nat
    <3>1. lv[n] \in 1 .. 3
      BY <1>7
    <3>2. \A x \in 1 .. 3, r \in Nat : 4 * r + x \in Nat
      OBVIOUS
    <3> QED  BY <1>1, <3>1, <3>2
  <2> QED  BY <1>8, <2>1 DEF Fresh
<1> HIDE DEF f2
<1>10. /\ \A m \in Parts(g, s) : f2[m] = 4 * Rank[s]
       /\ \A m \in Parts(g, l) : f2[m] = 4 * Rank[l]
  BY <1>2, <1>3, <1>7 DEF Parts, OfNet
<1>11. ASSUME NEW n \in Nodes(h), NEW m \in ToSet(h.src[n]) PROVE f2[m] < f2[n]
  <2>1. CASE n \in Fresh(g, h)
    <3>1. m \in Parts(g, s) \/ (m \in Fresh(g, h) /\ lv[m] < lv[n])
      BY <1>6, <1>11, <2>1 DEF Carries
    <3> QED  BY <1>1, <1>7, <1>10, <2>1, <3>1
  <2>2. CASE n \in Nodes(g) /\ m \in ToSet(g.src[n])
    <3>1. m \in Nodes(g)
      BY <1>5, <2>2, GraphFacts, ListFacts
    <3> QED  BY <1>2, <1>3, <1>7, <2>2, <3>1 DEF Ascends
  <2>3. CASE n \in Nodes(g) /\ m \notin ToSet(g.src[n])
    <3>1. n \in Parts(g, l)
      BY <1>5, <1>11, <2>3 DEF Parts
    <3>2. m \in Parts(g, s) \cup Fresh(g, h)
      BY <1>6, <1>11, <2>3, <3>1 DEF Carries
    <3>3. f2[n] = 4 * Rank[l]
      BY <1>10, <3>1
    <3>4. CASE m \in Parts(g, s)
      BY <1>1, <1>10, <3>3, <3>4
    <3>5. CASE m \in Fresh(g, h)
      BY <1>1, <1>7, <3>3, <3>5
    <3> QED  BY <3>2, <3>4, <3>5
  <2> QED  BY <2>1, <2>2, <2>3 DEF Fresh
<1>12. Ascends(h, f2)
  BY <1>9, <1>11 DEF Ascends
<1>13. \A n \in Nodes(h) : Origin(h, n) \in Layers => f2[n] = 4 * Rank[Origin(h, n)]
  <2>1. \A n \in Fresh(g, h) : Origin(h, n) \notin Layers
    BY <1>5, BetweenNoLayers DEF Between
  <2>2. \A n \in Nodes(g) : Origin(h, n) = Origin(g, n)
    BY <1>5 DEF Extends, Origin
  <2> QED  BY <1>2, <1>3, <1>7, <2>1, <2>2 DEF Fresh, OfNet
<1>14. Rank' = Rank
  BY DEF Turn, net, Rank, IsRank
<1> QED  BY <1>4, <1>12, <1>13, <1>14 DEF Ranked, OfNet

\* The parts of l get all they want of s through the nodes between.
LEMMA LinkFed ==
  ASSUME IInv, phase \in {"wire", "edges"}, NEW s \in Layers, NEW l \in Layers, Turn(l, s),
         LinkStep(graph, graph', s, l)
  PROVE  Fed'
<1>1. /\ TypeOK /\ Body /\ ~ Linked(s, l)
      /\ \A s2, l2 \in Layers : Linked(s2, l2)' <=> Linked(s2, l2) \/ (s2 = s /\ l2 = l)
  BY TurnFacts
<1>2. PICK F : IsFeed(graph, F) /\ \A n \in Nodes(graph) : OfNet(n) => F[n] = Wants(n)
  BY <1>1 DEF Body, Fed
<1>3. PICK g : g = graph
  OBVIOUS
<1>4. PICK h : h = graph'
  OBVIOUS
<1>5. /\ IsGraph(g) /\ IsGraph(h) /\ Extends(g, h) /\ Nodes(g) \subseteq Nodes(h)
      /\ \A n \in Nodes(g) : Origin(g, n) # l => h.src[n] = g.src[n]
      /\ \A n \in Fresh(g, h) : Origin(h, n) \in {"kSlice", "kConcate", "kSplit"}
  BY <1>1, <1>3, <1>4 DEF LinkStep, TypeOK
<1>6. PICK C, lv : Carries(g, h, s, l, C, lv)
  BY <1>3, <1>4 DEF LinkStep
<1> DEFINE Need(n) == {m \in Parts(g, s) : Suits(g, m, n)}
           F2 == [n \in Nodes(h) |-> IF n \in Nodes(g)
                                     THEN IF Origin(g, n) = l THEN F[n] \cup Need(n) ELSE F[n]
                                     ELSE C[n]]
<1>7. \A n \in Nodes(h) : /\ n \in Nodes(g) /\ Origin(g, n) = l => F2[n] = F[n] \cup Need(n)
                          /\ n \in Nodes(g) /\ Origin(g, n) # l => F2[n] = F[n]
                          /\ n \in Fresh(g, h) => F2[n] = C[n]
  BY DEF Fresh
<1>8. F2 = [n \in Nodes(h) |-> F2[n]]
  OBVIOUS
<1> HIDE DEF F2
<1>9. /\ \A n \in Fresh(g, h) : Origin(h, n) \notin Layers
      /\ \A n \in Nodes(g) : Origin(h, n) = Origin(g, n) /\ h.node[n] = g.node[n]
  BY <1>5, BetweenNoLayers DEF Between, Extends, Origin
<1>10. \A m \in Nodes(g) : Given(h, F2, m) = Given(g, F, m)
  BY <1>5, <1>7, <1>9 DEF Given
<1>11. \A m \in Parts(g, s) \cup Fresh(g, h) : Given(h, F2, m) = Carried(g, C, m)
  BY <1>5, <1>7, <1>9 DEF Given, Carried, Parts, Fresh
<1>12. ASSUME NEW n \in Nodes(h) PROVE F2[n] = UNION {Given(h, F2, m) : m \in ToSet(h.src[n])}
  <2>1. CASE n \in Fresh(g, h)
    <3>1. /\ C[n] = UNION {Carried(g, C, m) : m \in ToSet(h.src[n])}
          /\ \A m \in ToSet(h.src[n]) : m \in Parts(g, s) \cup Fresh(g, h)
      BY <1>6, <2>1 DEF Carries
    <3>2. {Carried(g, C, m) : m \in ToSet(h.src[n])} = {Given(h, F2, m) : m \in ToSet(h.src[n])}
      BY <1>11, <3>1
    <3> QED  BY <1>7, <2>1, <3>1, <3>2
  <2>2. CASE n \in Nodes(g)
    <3>1. \A m \in ToSet(g.src[n]) : m \in Nodes(g)
      BY <1>5, <2>2, GraphFacts, ListFacts
    <3>2. F[n] = UNION {Given(g, F, m) : m \in ToSet(g.src[n])}
      BY <1>2, <1>3, <2>2 DEF IsFeed
    <3>3. {Given(g, F, m) : m \in ToSet(g.src[n])} = {Given(h, F2, m) : m \in ToSet(g.src[n])}
      BY <1>10, <3>1
    <3>4. CASE Origin(g, n) # l
      BY <1>5, <1>7, <2>2, <3>2, <3>3, <3>4
    <3>5. CASE Origin(g, n) = l
      <4>1. PICK in \in SUBSET (Parts(g, s) \cup Fresh(g, h)) :
              /\ ToSet(h.src[n]) = ToSet(g.src[n]) \cup in
              /\ UNION {Carried(g, C, m) : m \in in} = Need(n)
        BY <1>6, <2>2, <3>5 DEF Carries, Parts
      <4>2. {Carried(g, C, m) : m \in in} = {Given(h, F2, m) : m \in in}
        BY <1>11
      <4>3. UNION {Given(h, F2, m) : m \in ToSet(h.src[n])}
              = (UNION {Given(h, F2, m) : m \in ToSet(g.src[n])}) \cup UNION {Given(h, F2, m) : m \in in}
        BY <4>1
      <4>4. F2[n] = F[n] \cup Need(n)
        BY <1>7, <2>2, <3>5
      <4> QED  BY <3>2, <3>3, <4>1, <4>2, <4>3, <4>4
    <3> QED  BY <3>4, <3>5
  <2> QED  BY <2>1, <2>2 DEF Fresh
<1>13. IsFeed(h, F2)
  BY <1>8, <1>12 DEF IsFeed
<1>14. ASSUME NEW n \in Nodes(h), Origin(h, n) \in Layers PROVE F2[n] = Wants(n)'
  <2>1. n \in Nodes(g) /\ Origin(h, n) = Origin(g, n) /\ OfNet(n)
    BY <1>3, <1>9, <1>14 DEF Fresh, OfNet
  <2>2. F[n] = Wants(n)
    BY <1>2, <1>3, <2>1
  <2>3. \A m \in Nodes(g) : Suits(graph, m, n)' <=> Suits(g, m, n)
    BY <1>4, <1>9, <2>1 DEF Suits, OneToOne, Turn, net
  <2>4. \A m \in Nodes(g) : Origin(g, m) \in Layers =>
          (Linked(Origin(g, m), Origin(g, n))' <=>
             Linked(Origin(g, m), Origin(g, n)) \/ (Origin(g, m) = s /\ Origin(g, n) = l))
    BY <1>1, <1>14, <2>1
  <2>5. ASSUME NEW m
        PROVE  m \in Wants(n)' <=>
                 /\ m \in Nodes(g) /\ Origin(g, m) \in Layers /\ Suits(g, m, n)
                 /\ Linked(Origin(g, m), Origin(g, n)) \/ (Origin(g, m) = s /\ Origin(g, n) = l)
    <3>1. m \in Wants(n)' <=> /\ m \in Nodes(h) /\ Origin(h, m) \in Layers
                               /\ Linked(Origin(h, m), Origin(h, n))' /\ Suits(graph, m, n)'
      BY <1>4 DEF Wants, OfNet
    <3>2. m \in Nodes(h) /\ Origin(h, m) \in Layers <=> m \in Nodes(g) /\ Origin(g, m) \in Layers
      BY <1>5, <1>9 DEF Fresh
    <3>3. ASSUME m \in Nodes(g)
          PROVE  Linked(Origin(h, m), Origin(h, n))' <=> Linked(Origin(g, m), Origin(g, n))'
      BY <1>9, <2>1, <3>3
    <3> QED  BY <2>3, <2>4, <3>1, <3>2, <3>3
  <2>6. \A m : m \in Wants(n) <=>
                 /\ m \in Nodes(g) /\ Origin(g, m) \in Layers /\ Suits(g, m, n)
                 /\ Linked(Origin(g, m), Origin(g, n))
    BY <1>3 DEF Wants, OfNet
  <2>7. CASE Origin(g, n) = l
    <3>1. F2[n] = F[n] \cup Need(n)
      BY <1>7, <1>14, <2>1, <2>7
    <3>2. \A m : m \in Need(n) <=>
                   m \in Nodes(g) /\ Origin(g, m) = s /\ Suits(g, m, n)
      BY DEF Parts
    <3> HIDE DEF Need
    <3> QED  BY <2>2, <2>5, <2>6, <2>7, <3>1, <3>2
  <2>8. CASE Origin(g, n) # l
    <3>1. F2[n] = F[n]
      BY <1>7, <1>14, <2>1, <2>8
    <3>2. \A m : m \in Wants(n)' <=> m \in Wants(n)
      BY <2>5, <2>6, <2>8
    <3> QED  BY <2>2, <3>1, <3>2
  <2> QED  BY <2>7, <2>8
<1> QED  BY <1>4, <1>13, <1>14 DEF Fed, OfNet

\* A step that connects a layer to one of its sources keeps the invariant.
LEMMA LinkKeeps ==
  ASSUME IInv, phase \in {"wire", "edges"}, NEW s \in Layers, NEW l \in Layers, Turn(l, s),
         LinkStep(graph, graph', s, l), phase = "wire" => graph'.size = graph.size
  PROVE  IInv'
<1>1. /\ TypeOK /\ NetInv /\ PartsInv /\ Body /\ LoopInv'
      /\ walk' \in Seq([at : Layers, left : Seq(Layers)])
  BY TurnFacts
<1>2. /\ UNCHANGED <<net, layers, layer2nodes, phase, todo, calls>>
      /\ gsize' = gsize /\ type' = type /\ connection' = connection /\ location' = location
      /\ srclayers' = srclayers /\ layers' = layers /\ layer2nodes' = layer2nodes
      /\ phase' = phase /\ todo' = todo /\ visited' = visited /\ stack' = stack
  BY DEF Turn, net, calls
<1>3. PICK h : h = graph'
  OBVIOUS
<1>4. /\ IsGraph(graph) /\ IsGraph(h) /\ Extends(graph, h) /\ Nodes(graph) \subseteq Nodes(h)
      /\ Wired(h) /\ Complete(h)
      /\ \A n \in Nodes(graph) : /\ Origin(graph, n) # s => h.dst[n] = graph.dst[n]
                                 /\ Origin(graph, n) # l => h.src[n] = graph.src[n]
      /\ \A n \in Fresh(graph, h) : /\ Origin(h, n) \in {"kSlice", "kConcate", "kSplit"}
                                    /\ h.src[n] # << >>
                                    /\ Origin(h, n) = "kSlice" => Evenly(h, h.dst[n])
                                    /\ Origin(h, n) = "kConcate" => Evenly(h, h.src[n])
      /\ phase = "wire" => Nodes(h) = Nodes(graph)
  BY <1>1, <1>3 DEF LinkStep, TypeOK, Nodes
<1>5. /\ \A n \in Fresh(graph, h) : Origin(h, n) \notin Layers
      /\ \A n \in Nodes(graph) : Origin(h, n) = Origin(graph, n) /\ h.node[n] = graph.node[n]
  BY <1>4, BetweenNoLayers DEF Between, Extends, Origin
<1>6. TypeOK'
  <2>1. layer2nodes' \in [Layers -> Seq(Nodes(h))]
    <3>1. Seq(Nodes(graph)) \subseteq Seq(Nodes(h))
      BY <1>4, ListOver
    <3> QED  BY <1>1, <1>2, <3>1 DEF TypeOK
  <2>2. Items' = Layers /\ Items = Layers
    BY <1>2 DEF Items
  <2> QED  BY <1>1, <1>2, <1>3, <1>4, <2>1, <2>2 DEF TypeOK, Sorting
<1>7. NetInv'
  BY <1>1, <1>2, NetKept
<1>8. PartsInv'
  <2>1. CASE phase = "wire"
    <3>1. \A n \in Nodes(h) : /\ Origin(h, n) = LayerNames[n] /\ Name(h, n) = <<LayerNames[n]>>
                              /\ h.node[n].partition = 0
      BY <1>1, <1>4, <1>5, <2>1 DEF PartsInv, Name
    <3>2. h.size = Len(LayerNames) /\ \A m \in Layers : layer2nodes[m] = << >>
      BY <1>1, <1>3, <2>1 DEF PartsInv
    <3> QED  BY <1>2, <1>3, <2>1, <3>1, <3>2 DEF PartsInv
  <2>2. CASE phase = "edges"
    <3>1. \A m \in Layers : Len(layer2nodes[m]) = PartsOf(m) /\ PartsOf(m)' = PartsOf(m)
      BY <1>1, <1>2, <2>2 DEF PartsInv, PartsOf, Partitioned
    <3>2. ASSUME NEW m \in Layers, NEW i \in 1 .. Len(layer2nodes[m])
          PROVE  Origin(h, layer2nodes[m][i]) = m /\ h.node[layer2nodes[m][i]].partition = i - 1
      <4>1. layer2nodes[m] \in Seq(Nodes(graph))
        BY <1>1 DEF TypeOK
      <4>2. layer2nodes[m][i] \in Nodes(graph)
        BY <3>2, <4>1, ListFacts
      <4> QED  BY <1>1, <1>5, <2>2, <3>2, <4>2 DEF PartsInv
    <3>3. ASSUME NEW n \in Nodes(h), Origin(h, n) \in Layers
          PROVE  n \in ToSet(layer2nodes[Origin(h, n)])
      <4>1. n \in Nodes(graph) /\ OfNet(n)
        BY <1>5, <3>3 DEF Fresh, OfNet
      <4> QED  BY <1>1, <1>5, <2>2, <4>1 DEF PartsInv
    <3> QED  BY <1>2, <1>3, <2>2, <3>1, <3>2, <3>3 DEF PartsInv, OfNet
  <2> QED  BY <2>1, <2>2
<1>9. KindsInv'
  <2>1. \A n \in Nodes(graph) : Origin(graph, n) \notin Bridges
    BY <1>1, <1>2 DEF Body, KindsInv
  <2>2. \A n \in Nodes(h) : Origin(h, n) \notin Bridges
    BY <1>4, <1>5, <2>1 DEF Fresh, Bridges
  <2>3. phase = "wire" => \A n \in Nodes(h) : Origin(h, n) \in Layers
    BY <1>1, <1>4, <1>5 DEF Body, KindsInv, Early, OfNet
  <2>4. ASSUME NEW n \in Nodes(h), Origin(h, n) \notin Layers PROVE h.src[n] # << >>
    <3>1. CASE n \in Fresh(graph, h)
      BY <1>4, <3>1
    <3>2. CASE n \in Nodes(graph)
      <4>1. h.src[n] = graph.src[n] /\ ~ OfNet(n)
        BY <1>4, <1>5, <2>4, <3>2 DEF OfNet
      <4> QED  BY <1>1, <3>2, <4>1 DEF Body, KindsInv
    <3> QED  BY <3>1, <3>2 DEF Fresh
  <2> QED  BY <1>2, <1>3, <2>2, <2>3, <2>4 DEF KindsInv, OfNet, Early
<1>10. PieceInv'
  <2>1. \A n \in Nodes(graph) : Origin(graph, n) \notin Bridges
    BY <1>1, <1>2 DEF Body, KindsInv
  <2>2. \A n \in Nodes(h) : Origin(h, n) \notin Bridges
    BY <1>4, <1>5, <2>1 DEF Fresh, Bridges
  <2>3. /\ \A n \in Nodes(graph) : Past(n) = n
        /\ \A n \in Nodes(h) : Past(n)' = n
    BY <1>3, <2>1, <2>2 DEF Past, Bridges
  <2>4. ASSUME NEW ns \in Seq(Nodes(graph)), Whole(ns) PROVE Evenly(h, ns)
    <3>1. \A n \in ToSet(ns) : n \in Nodes(graph)
      BY ListFacts
    <3>2. {graph.node[Past(n)].partition : n \in ToSet(ns)} = {h.node[n].partition : n \in ToSet(ns)}
      BY <1>5, <2>3, <3>1
    <3> QED  BY <2>4, <3>2 DEF Whole, Evenly
  <2>5. ASSUME NEW ns \in Seq(Nodes(h)), Evenly(h, ns) PROVE Whole(ns)'
    <3>1. \A n \in ToSet(ns) : n \in Nodes(h)
      BY ListFacts
    <3>2. {graph.node[Past(n)].partition : n \in ToSet(ns)}' = {h.node[n].partition : n \in ToSet(ns)}
      BY <1>3, <2>3, <3>1
    <3> QED  BY <1>2, <2>5, <3>2 DEF Whole, Evenly
  <2>6. ASSUME NEW n \in Nodes(h)
        PROVE  /\ Origin(h, n) = "kSlice" => Evenly(h, h.dst[n])
               /\ Origin(h, n) = "kConcate" => Evenly(h, h.src[n])
    <3>1. CASE n \in Fresh(graph, h)
      BY <1>4, <3>1
    <3>2. CASE n \in Nodes(graph)
      <4>1. graph.dst[n] \in Seq(Nodes(graph)) /\ graph.src[n] \in Seq(Nodes(graph))
        BY <1>4, <3>2, GraphFacts
      <4>2. /\ Origin(graph, n) = "kSlice" => Whole(graph.dst[n])
            /\ Origin(graph, n) = "kConcate" => Whole(graph.src[n])
        BY <1>1, <3>2 DEF Body, PieceInv
      <4>3. Origin(graph, n) \in {"kSlice", "kConcate"} =>
              h.dst[n] = graph.dst[n] /\ h.src[n] = graph.src[n]
        BY <1>4, <3>2, BetweenNoLayers DEF Between
      <4> QED  BY <1>5, <2>4, <3>2, <4>1, <4>2, <4>3
    <3> QED  BY <3>1, <3>2 DEF Fresh
  <2>7. \A n \in Nodes(h) : h.dst[n] \in Seq(Nodes(h)) /\ h.src[n] \in Seq(Nodes(h))
    BY <1>4, GraphFacts
  <2> QED  BY <1>3, <2>2, <2>5, <2>6, <2>7 DEF PieceInv, Bridges
<1>11. FanInv' /\ BorderInv' /\ SortInv' /\ DoneInv'
  BY <1>2 DEF FanInv, BorderInv, SortInv, DoneInv, Sorting, Done
<1>12. Body'
  BY <1>1, <1>3, <1>4, <1>9, <1>10, <1>11, LinkRanked, LinkFed DEF Body
<1> QED  BY <1>6, <1>7, <1>8, <1>12 DEF IInv

----------------------------------------------------------------------------
(* Each connection is such a step *)

\* What layer2nodes says when all its nodes are there.
LEMMA PartsFacts ==
  ASSUME TypeOK, PartsInv, phase = "edges", NEW l \in Layers
  PROVE  /\ layer2nodes[l] \in Seq(Nodes(graph)) /\ IsInjective(layer2nodes[l])
         /\ Len(layer2nodes[l]) = PartsOf(l)
         /\ PartsOf(l) \in Nat \ {0} /\ gsize \in Nat \ {0}
         /\ ToSet(layer2nodes[l]) = Parts(graph, l)
         /\ \A i \in 1 .. PartsOf(l) : /\ layer2nodes[l][i] \in Parts(graph, l)
                                       /\ graph.node[layer2nodes[l][i]].partition = i - 1
         /\ {graph.node[n].partition : n \in Parts(graph, l)} = 0 .. PartsOf(l) - 1
<1> DEFINE ns == layer2nodes[l]
<1>1. ns \in Seq(Nodes(graph)) /\ Len(ns) = PartsOf(l)
  BY DEF TypeOK, PartsInv
<1>2. PartsOf(l) \in Nat \ {0} /\ gsize \in Nat \ {0}
  BY NetGraphAssumption DEF TypeOK, PartsOf
<1>3. \A i \in 1 .. Len(ns) : /\ ns[i] \in Nodes(graph) /\ Origin(graph, ns[i]) = l
                              /\ graph.node[ns[i]].partition = i - 1
  BY <1>1, ListFacts DEF PartsInv
<1>4. \A n \in Parts(graph, l) : n \in ToSet(ns)
  BY DEF PartsInv, OfNet, Parts
<1> HIDE DEF ns
<1>5. \A x : x \in ToSet(ns) <=> \E i \in 1 .. Len(ns) : ns[i] = x
  BY <1>1, ListFacts
<1>6. ToSet(ns) = Parts(graph, l)
  BY <1>3, <1>4, <1>5 DEF Parts
<1>7. IsInjective(ns)
  <2>1. \A i, j \in 1 .. Len(ns) : ns[i] = ns[j] => i = j
    BY <1>1, <1>2, <1>3
  <2> QED  BY <1>1, <2>1, ListFacts
<1>8. {graph.node[n].partition : n \in Parts(graph, l)} = 0 .. PartsOf(l) - 1
  <2>1. ASSUME NEW n \in Parts(graph, l) PROVE graph.node[n].partition \in 0 .. PartsOf(l) - 1
    <3>1. PICK i \in 1 .. Len(ns) : ns[i] = n
      BY <1>5, <1>6
    <3> QED  BY <1>1, <1>2, <1>3, <3>1
  <2>2. ASSUME NEW x \in 0 .. PartsOf(l) - 1
        PROVE  \E n \in Parts(graph, l) : graph.node[n].partition = x
    <3>1. x + 1 \in 1 .. Len(ns) /\ (x + 1) - 1 = x
      BY <1>1, <1>2
    <3> QED  BY <1>3, <3>1 DEF Parts
  <2> QED  BY <2>1, <2>2
<1> QED  BY <1>1, <1>2, <1>3, <1>6, <1>7, <1>8 DEF ns, Parts

\* New edges, but no new nodes.
LEMMA PlainLink ==
  ASSUME NEW g, NEW h, NEW s, NEW l, SameNodes(g, h), IsGraph(g), Complete(g), Wired(h),
         \A n \in Nodes(g) : /\ Origin(g, n) # s => h.dst[n] = g.dst[n]
                             /\ Origin(g, n) # l => h.src[n] = g.src[n],
         \A n \in Parts(g, l) :
           ToSet(h.src[n]) = ToSet(g.src[n]) \cup {m \in Parts(g, s) : Suits(g, m, n)}
  PROVE  LinkStep(g, h, s, l)
<1>1. /\ IsGraph(h) /\ h.size = g.size /\ h.node = g.node /\ h.order = g.order
      /\ Nodes(h) = Nodes(g) /\ Fresh(g, h) = {} /\ g.size \in Nat
  BY GraphFacts DEF SameNodes, Nodes, Fresh
<1>2. Extends(g, h) /\ Complete(h)
  BY <1>1 DEF Extends, Complete
<1>3. Carries(g, h, s, l, << >>, << >>)
  <2>1. ASSUME NEW n \in Parts(g, l)
        PROVE  \E in \in SUBSET (Parts(g, s) \cup Fresh(g, h)) :
                 /\ ToSet(h.src[n]) = ToSet(g.src[n]) \cup in
                 /\ UNION {Carried(g, << >>, m) : m \in in} = {m \in Parts(g, s) : Suits(g, m, n)}
    <3> DEFINE in == {m \in Parts(g, s) : Suits(g, m, n)}
    <3>1. \A m \in in : Carried(g, << >>, m) = {m}
      BY DEF Carried, Parts
    <3>2. UNION {Carried(g, << >>, m) : m \in in} = in
      BY <3>1
    <3> QED  BY <3>2
  <2> QED  BY <1>1, <2>1 DEF Carries
<1> QED  BY <1>1, <1>2, <1>3 DEF LinkStep

\* Linking all nodes of s with all of l carries all of s.
LEMMA ConnectLink ==
  ASSUME NEW g, NEW s, NEW l, IsGraph(g), Complete(g), Wired(g),
         NEW as \in Seq(Nodes(g)), NEW bs \in Seq(Nodes(g)), IsInjective(as), IsInjective(bs),
         ToSet(as) = Parts(g, s), ToSet(bs) = Parts(g, l),
         \A a \in Parts(g, s) : \A b \in Parts(g, l) : b \notin ToSet(g.dst[a]) /\ Suits(g, a, b)
  PROVE  LinkStep(g, Connect(g, as, bs), s, l)
<1>1. PICK h : h = Connect(g, as, bs)
  OBVIOUS
<1>2. Connects(g, h, as, bs)
  BY <1>1, ConnectFacts
<1>3. SameNodes(g, h) /\ Wired(h)
  BY <1>2 DEF Connects
<1>4. \A n \in Nodes(g) : /\ Origin(g, n) # s => h.dst[n] = g.dst[n]
                          /\ Origin(g, n) # l => h.src[n] = g.src[n]
  BY <1>2 DEF Connects, Parts
<1>5. ASSUME NEW n \in Parts(g, l)
      PROVE  ToSet(h.src[n]) = ToSet(g.src[n]) \cup {m \in Parts(g, s) : Suits(g, m, n)}
  <2>1. ToSet(h.src[n]) = ToSet(g.src[n]) \cup Parts(g, s)
    BY <1>2 DEF Connects, Parts
  <2>2. {m \in Parts(g, s) : Suits(g, m, n)} = Parts(g, s)
    OBVIOUS
  <2> QED  BY <2>1, <2>2
<1> QED  BY <1>1, <1>3, <1>4, <1>5, PlainLink

\* ConstructNeuralNet links a layer with a source.
LEMMA ReadSourceKeeps == \A s, l \in Layers : IInv /\ ReadSource(s, l) => IInv'
<1> SUFFICES ASSUME NEW s \in Layers, NEW l \in Layers, IInv, ReadSource(s, l) PROVE IInv'
  OBVIOUS
<1>1. /\ phase = "wire" /\ Turn(l, s)
      /\ graph' = Connect(graph, <<Named(graph, <<s>>)>>, <<Named(graph, <<l>>)>>)
  BY DEF ReadSource
<1>2. /\ TypeOK /\ PartsInv /\ Wired(graph) /\ Complete(graph) /\ IsGraph(graph) /\ graph.size \in Nat
      /\ \A a \in Parts(graph, s) : \A b \in Parts(graph, l) : b \notin ToSet(graph.dst[a])
  BY <1>1, TurnFacts, GraphFacts DEF Body, TypeOK
<1>3. Distinct(graph)
  BY <1>1, <1>2, LayerNamesDiffer DEF DistinctNames, Distinct
<1>4. ASSUME NEW m \in Layers
      PROVE  Named(graph, <<m>>) \in Nodes(graph) /\ Parts(graph, m) = {Named(graph, <<m>>)}
  <2>1. PICK i \in DOMAIN LayerNames : LayerNames[i] = m
    BY DEF Layers, ToSet
  <2>2. DOMAIN LayerNames = 1 .. Len(LayerNames)
    BY NetGraphAssumption
  <2>3. i \in Nodes(graph) /\ Name(graph, i) = <<m>> /\ Origin(graph, i) = m
    BY <1>1, <1>2, <2>1, <2>2 DEF PartsInv, Nodes
  <2>4. Named(graph, <<m>>) = i
    BY <1>2, <1>3, <2>3, NamedSame
  <2>5. \A n \in Nodes(graph) : Name(graph, n) = <<Origin(graph, n)>>
    BY <1>1, <1>2 DEF PartsInv
  <2>6. \A n \in Parts(graph, m) : n = i
    BY <1>3, <2>3, <2>5 DEF Parts, Distinct
  <2> QED  BY <2>3, <2>4, <2>6 DEF Parts
<1> DEFINE as == <<Named(graph, <<s>>)>>  bs == <<Named(graph, <<l>>)>>
<1>5. /\ as \in Seq(Nodes(graph)) /\ IsInjective(as) /\ ToSet(as) = Parts(graph, s)
      /\ bs \in Seq(Nodes(graph)) /\ IsInjective(bs) /\ ToSet(bs) = Parts(graph, l)
  BY <1>4, OneList
<1>6. graph' = Connect(graph, as, bs)
  BY <1>1
<1> HIDE DEF as, bs
<1>7. \A a \in Parts(graph, s) : \A b \in Parts(graph, l) : Suits(graph, a, b)
  BY <1>1, <1>2 DEF PartsInv, Parts, Suits
<1>8. LinkStep(graph, graph', s, l)
  BY <1>2, <1>5, <1>6, <1>7, ConnectLink
<1>9. graph'.size = graph.size
  <2>1. Connects(graph, graph', as, bs)
    BY <1>2, <1>5, <1>6, ConnectFacts
  <2> QED  BY <2>1 DEF Connects, SameNodes
<1> QED  BY <1>1, <1>8, <1>9, LinkKeeps

\* What every connection of parts starts from.
LEMMA ConnectedFacts ==
  ASSUME IInv, NEW s \in Layers, NEW l \in Layers, Connected(s, l)
  PROVE  /\ phase = "edges" /\ Turn(l, s) /\ TypeOK /\ PartsInv /\ s # l
         /\ IsGraph(graph) /\ Wired(graph) /\ Complete(graph) /\ graph.size \in Nat
         /\ type[l] \in {"kNone", "kDataPartition", "kLayerPartition"}
         /\ \A a \in Parts(graph, s) : \A b \in Parts(graph, l) : b \notin ToSet(graph.dst[a])
         /\ ~ (OneToOne(l) /\ type[s] = type[l]) =>
              \A a \in Parts(graph, s) : \A b \in Parts(graph, l) : Suits(graph, a, b)
         /\ OneToOne(l) /\ type[s] = type[l] =>
              \A a \in Parts(graph, s) : \A b \in Parts(graph, l) :
                Suits(graph, a, b) <=> graph.node[a].partition = graph.node[b].partition
<1>1. phase = "edges" /\ Turn(l, s)
  BY DEF Connected
<1>2. /\ TypeOK /\ PartsInv /\ Wired(graph) /\ Complete(graph) /\ IsGraph(graph) /\ graph.size \in Nat
      /\ s # l
      /\ \A a \in Parts(graph, s) : \A b \in Parts(graph, l) : b \notin ToSet(graph.dst[a])
  BY <1>1, TurnFacts, GraphFacts DEF Body, TypeOK
<1> QED  BY <1>1, <1>2 DEF Suits, Parts, TypeOK

\* Two layers that are not partitioned.
LEMMA ConnectWholeKeeps == \A s, l \in Layers : IInv /\ ConnectWhole(s, l) => IInv'
<1> SUFFICES ASSUME NEW s \in Layers, NEW l \in Layers, IInv, ConnectWhole(s, l) PROVE IInv'
  OBVIOUS
<1>1. Connected(s, l) /\ ~ OneToOne(l) /\ graph' = Connect(graph, layer2nodes[s], layer2nodes[l])
  BY DEF ConnectWhole, Partitioned, OneToOne
<1>2. LinkStep(graph, graph', s, l)
  BY <1>1, ConnectedFacts, PartsFacts, ConnectLink
<1> QED  BY <1>1, <1>2, ConnectedFacts, LinkKeeps

\* Two layers partitioned alike.
LEMMA ConnectPairsKeeps == \A s, l \in Layers : IInv /\ ConnectPairs(s, l) => IInv'
<1> SUFFICES ASSUME NEW s \in Layers, NEW l \in Layers, IInv, ConnectPairs(s, l) PROVE IInv'
  OBVIOUS
<1> DEFINE as == layer2nodes[s]  bs == layer2nodes[l]
<1>1. /\ Connected(s, l) /\ OneToOne(l) /\ type[s] = type[l] /\ graph' = Match(graph, as, bs)
      /\ PartsOf(s) = PartsOf(l)
  BY DEF ConnectPairs, PartsOf, Partitioned
<1>2. PICK g, h : g = graph /\ h = graph'
  OBVIOUS
<1>3. PICK k : k = PartsOf(l)
  OBVIOUS
<1>4. /\ IsGraph(g) /\ Wired(g) /\ Complete(g) /\ k \in Nat
      /\ as \in Seq(Nodes(g)) /\ IsInjective(as) /\ ToSet(as) = Parts(g, s) /\ Len(as) = k
      /\ bs \in Seq(Nodes(g)) /\ IsInjective(bs) /\ ToSet(bs) = Parts(g, l) /\ Len(bs) = k
      /\ \A i \in 1 .. k : /\ as[i] \in Parts(g, s) /\ bs[i] \in Parts(g, l)
                           /\ g.node[as[i]].partition = i - 1 /\ g.node[bs[i]].partition = i - 1
      /\ h = Match(g, as, bs)
  BY <1>1, <1>2, <1>3, ConnectedFacts, PartsFacts
<1>5. \A a \in Parts(g, s) : \A b \in Parts(g, l) :
        /\ b \notin ToSet(g.dst[a])
        /\ Suits(g, a, b) <=> g.node[a].partition = g.node[b].partition
  BY <1>1, <1>2, ConnectedFacts
<1> HIDE DEF as, bs
<1>6. Matches(g, h, as, bs)
  BY <1>4, MatchFacts
<1>7. SameNodes(g, h) /\ Wired(h)
  BY <1>4, <1>5, <1>6 DEF Matches
<1>8. \A n \in Nodes(g) : /\ Origin(g, n) # s => h.dst[n] = g.dst[n]
                          /\ Origin(g, n) # l => h.src[n] = g.src[n]
  BY <1>4, <1>6 DEF Matches, Parts
<1>9. ASSUME NEW n \in Parts(g, l)
      PROVE  ToSet(h.src[n]) = ToSet(g.src[n]) \cup {m \in Parts(g, s) : Suits(g, m, n)}
  <2>1. PICK i \in 1 .. k : bs[i] = n
    BY <1>4, ListFacts
  <2>2. ToSet(h.src[n]) = ToSet(g.src[n]) \cup {as[i]}
    BY <1>4, <1>6, <2>1 DEF Matches
  <2>3. as[i] \in Parts(g, s) /\ Suits(g, as[i], n)
    <3>1. /\ as[i] \in Parts(g, s)
          /\ g.node[as[i]].partition = i - 1 /\ g.node[n].partition = i - 1
      BY <1>4, <2>1
    <3> QED  BY <1>5, <3>1
  <2>4. ASSUME NEW m \in Parts(g, s), Suits(g, m, n) PROVE m = as[i]
    <3>1. PICK j \in 1 .. k : as[j] = m
      <4>1. \A x : x \in ToSet(as) <=> \E j \in 1 .. Len(as) : as[j] = x
        BY <1>4, ListFacts
      <4> QED  BY <1>4, <4>1
    <3>2. g.node[m].partition = j - 1 /\ g.node[n].partition = i - 1
      BY <1>4, <2>1, <3>1
    <3>3. j - 1 = i - 1
      BY <1>5, <2>4, <3>2
    <3>4. j = i
      BY <3>3
    <3> QED  BY <3>1, <3>4
  <2> QED  BY <2>2, <2>3, <2>4
<1>10. LinkStep(g, h, s, l)
  BY <1>4, <1>7, <1>8, <1>9, PlainLink
<1> QED  BY <1>1, <1>2, <1>10, ConnectedFacts, LinkKeeps

----------------------------------------------------------------------------
(* What the nodes that are put between bring with them *)

\* A node x beside a with edges from a to x and from x to bs.
InsertedAt(g, h, a, bs, x, label, origin) ==
  /\ IsGraph(h) /\ h.size = g.size + 1 /\ Extends(g, h) /\ Nodes(g) \subseteq Nodes(h)
  /\ x = g.size + 1 /\ Fresh(g, h) = {x} /\ Nodes(h) = Nodes(g) \cup {x} /\ x \notin Nodes(g)
  /\ h.node[x] = Beside(g, a, <<label, Name(g, a)>>, origin)
  /\ h.src[x] = <<a>> /\ h.dst[x] = bs
  /\ \A n \in Nodes(g) :
       /\ n = a => /\ ToSet(h.dst[n]) = ToSet(g.dst[n]) \cup {x}
                   /\ g.dst[n] = << >> => h.dst[n] = <<x>>
       /\ n # a => h.dst[n] = g.dst[n]
       /\ n \in ToSet(bs) => /\ ToSet(h.src[n]) = ToSet(g.src[n]) \cup {x}
                             /\ h.src[n] = g.src[n] \o <<x>>
       /\ n \notin ToSet(bs) => h.src[n] = g.src[n]
  /\ Complete(g) => Complete(h)
  /\ g.order # << >> => h.order # << >> /\ Head(h.order) = Head(g.order)
  /\ Wired(g) /\ IsInjective(bs) => Wired(h)

\* One node between s and all of ds.
LEMMA InsertedFacts ==
  ASSUME NEW g, IsGraph(g), NEW a \in Nodes(g), NEW bs \in Seq(Nodes(g)), NEW label,
         NEW origin \in Between
  PROVE  InsertedAt(g, Inserted(g, a, bs, label, origin), a, bs, g.size + 1, label, origin)
<1> DEFINE info == Beside(g, a, <<label, Name(g, a)>>, origin)
           h0 == AddNodes(g, 1, <<info>>)
           x == g.size + 1
           h1 == Connect(h0, <<a>>, <<h0.size>>)
           h == Connect(h1, <<h0.size>>, bs)
<1>1. h = Inserted(g, a, bs, label, origin)
  BY DEF Inserted
<1>2. IsInfo(info)
  BY GraphFacts DEF Beside, IsInfo
<1>3. <<info>>[1] = info
  OBVIOUS
<1> HIDE DEF info
<1>4. \A i \in 1 .. 1 : IsInfo(<<info>>[i])
  BY <1>2, <1>3
<1>5. NodesAdded(g, h0, 1, <<info>>)
  BY <1>4, AddNodesFacts
<1> HIDE DEF h0
<1>6. /\ IsGraph(h0) /\ h0.size = x /\ Extends(g, h0) /\ Nodes(g) \subseteq Nodes(h0)
      /\ \A n \in Nodes(g) : h0.dst[n] = g.dst[n] /\ h0.src[n] = g.src[n]
      /\ x \in Nodes(h0) \ Nodes(g) /\ h0.node[x] = info /\ h0.dst[x] = << >> /\ h0.src[x] = << >>
      /\ \A n \in Nodes(h0) \ Nodes(g) : n = x
      /\ Complete(g) => Complete(h0)
      /\ g.order # << >> => h0.order # << >> /\ Head(h0.order) = Head(g.order)
      /\ Wired(g) => Wired(h0)
  <2>1. 1 \in 1 .. 1 /\ \A i \in 1 .. 1 : i = 1
    OBVIOUS
  <2>2. \A n \in Nodes(h0) \ Nodes(g) : n = x
    BY <1>5, <2>1 DEF NodesAdded
  <2> QED  BY <1>3, <1>5, <2>1, <2>2 DEF NodesAdded
<1> HIDE DEF x
<1>7. /\ <<a>> \in Seq(Nodes(h0)) /\ ToSet(<<a>>) = {a} /\ IsInjective(<<a>>)
      /\ <<x>> \in Seq(Nodes(h0)) /\ ToSet(<<x>>) = {x} /\ IsInjective(<<x>>)
      /\ bs \in Seq(Nodes(h0)) /\ ToSet(bs) \subseteq Nodes(g) /\ ToSet(<< >>) = {} /\ a # x
  <2>1. a \in Nodes(h0) /\ x \in Nodes(h0) /\ a # x
    BY <1>6
  <2> QED  BY <1>6, <2>1, OneList, ListOver, ListFacts, NoList
<1>8. h1 = Connect(h0, <<a>>, <<x>>) /\ h = Connect(h1, <<x>>, bs)
  BY <1>6
<1> HIDE DEF h1, h
<1>9. Connects(h0, h1, <<a>>, <<x>>)
  BY <1>6, <1>7, <1>8, ConnectFacts
<1>10. /\ IsGraph(h1) /\ h1.size = h0.size /\ h1.node = h0.node /\ h1.order = h0.order
       /\ Nodes(h1) = Nodes(h0)
  BY <1>9 DEF Connects, SameNodes, Nodes
<1>11. Connects(h1, h, <<x>>, bs)
  BY <1>7, <1>8, <1>10, ConnectFacts
<1>12. /\ IsGraph(h) /\ h.size = h0.size /\ h.node = h0.node /\ h.order = h0.order
       /\ Nodes(h) = Nodes(h0)
  BY <1>10, <1>11 DEF Connects, SameNodes, Nodes
<1>13. /\ h1.src[x] = <<a>> /\ h1.dst[x] = << >>
       /\ h.src[x] = <<a>> /\ h.dst[x] = bs
  <2>1. h1.src[x] = <<a>> /\ h1.dst[x] = << >>
    BY <1>6, <1>7, <1>9 DEF Connects
  <2>2. h.dst[x] = bs /\ h.src[x] = h1.src[x]
    BY <1>6, <1>7, <1>10, <1>11, <2>1 DEF Connects
  <2> QED  BY <2>1, <2>2
<1>14. ASSUME NEW n \in Nodes(g)
       PROVE  /\ n = a => /\ ToSet(h.dst[n]) = ToSet(g.dst[n]) \cup {x}
                          /\ g.dst[n] = << >> => h.dst[n] = <<x>>
              /\ n # a => h.dst[n] = g.dst[n]
              /\ n \in ToSet(bs) => /\ ToSet(h.src[n]) = ToSet(g.src[n]) \cup {x}
                                    /\ h.src[n] = g.src[n] \o <<x>>
              /\ n \notin ToSet(bs) => h.src[n] = g.src[n]
  <2>1. n \in Nodes(h0) /\ n \in Nodes(h1) /\ n # x /\ h0.dst[n] = g.dst[n] /\ h0.src[n] = g.src[n]
    BY <1>6, <1>10
  <2>2. h.dst[n] = h1.dst[n] /\ h1.src[n] = g.src[n]
    BY <1>7, <1>9, <1>11, <2>1 DEF Connects
  <2>3. /\ n = a => /\ ToSet(h1.dst[n]) = ToSet(g.dst[n]) \cup {x}
                    /\ g.dst[n] = << >> => h1.dst[n] = <<x>>
        /\ n # a => h1.dst[n] = g.dst[n]
    BY <1>7, <1>9, <2>1 DEF Connects
  <2>4. /\ n \in ToSet(bs) => /\ ToSet(h.src[n]) = ToSet(h1.src[n]) \cup {x}
                              /\ h.src[n] = h1.src[n] \o <<x>>
        /\ n \notin ToSet(bs) => h.src[n] = h1.src[n]
    BY <1>7, <1>11, <2>1 DEF Connects
  <2> QED  BY <2>2, <2>3, <2>4
<1>15. ASSUME Wired(g), IsInjective(bs) PROVE Wired(h)
  <2>1. ToSet(h0.dst[a]) \subseteq Nodes(g)
    <3>1. h0.dst[a] \in Seq(Nodes(g))
      BY <1>6, GraphFacts
    <3> QED  BY <3>1, ListFacts
  <2>2. Wired(h1)
    BY <1>6, <1>7, <1>9, <1>15, <2>1 DEF Connects
  <2> QED  BY <1>7, <1>11, <1>13, <1>15, <2>2 DEF Connects
<1>16. Extends(g, h)
  BY <1>6, <1>12 DEF Extends
<1>17. Complete(g) => Complete(h)
  BY <1>6, <1>12 DEF Complete
<1>18. Fresh(g, h) = {x} /\ Nodes(h) = Nodes(g) \cup {x}
  BY <1>6, <1>12 DEF Fresh
<1> QED  BY <1>1, <1>6, <1>12, <1>13, <1>14, <1>15, <1>16, <1>17, <1>18 DEF InsertedAt, info, x

\* A slice or split of the one part of s for the parts of l.
LEMMA InsertLink ==
  ASSUME NEW g, NEW s, NEW l, s # l, IsGraph(g), Complete(g), Wired(g),
         NEW a, Parts(g, s) = {a}, NEW bs \in Seq(Nodes(g)), IsInjective(bs), ToSet(bs) = Parts(g, l),
         \A b \in Parts(g, l) : Suits(g, a, b),
         NEW label, NEW origin \in {"kSlice", "kSplit"}, origin = "kSlice" => Evenly(g, bs)
  PROVE  LinkStep(g, Inserted(g, a, bs, label, origin), s, l)
<1>1. PICK h : h = Inserted(g, a, bs, label, origin)
  OBVIOUS
<1>2. PICK x : x = g.size + 1
  OBVIOUS
<1>3. a \in Parts(g, s) /\ a \in Nodes(g) /\ Origin(g, a) = s
  BY DEF Parts
<1>4. InsertedAt(g, h, a, bs, x, label, origin)
  BY <1>1, <1>2, <1>3, InsertedFacts DEF Between
<1>5. /\ IsGraph(h) /\ Extends(g, h) /\ Nodes(g) \subseteq Nodes(h) /\ Wired(h) /\ Complete(h)
      /\ Fresh(g, h) = {x} /\ x \notin Nodes(g)
      /\ Origin(h, x) = origin /\ h.src[x] = <<a>> /\ h.dst[x] = bs
      /\ \A n \in Nodes(g) : h.node[n] = g.node[n]
  BY <1>4 DEF InsertedAt, Origin, Beside, Extends
<1>6. \A n \in Nodes(g) : /\ Origin(g, n) # s => h.dst[n] = g.dst[n]
                          /\ Origin(g, n) # l => h.src[n] = g.src[n]
  BY <1>3, <1>4 DEF InsertedAt, Parts
<1>7. <<a>> # << >> /\ ToSet(<<a>>) = {a}
  BY OneList
<1>8. origin = "kSlice" => Evenly(h, bs)
  <2>1. \A n \in ToSet(bs) : n \in Nodes(g)
    BY DEF Parts
  <2>2. {h.node[n].partition : n \in ToSet(bs)} = {g.node[n].partition : n \in ToSet(bs)}
    BY <1>5, <2>1
  <2> QED  BY <2>2 DEF Evenly
<1>9. \A n \in Fresh(g, h) : /\ Origin(h, n) \in {"kSlice", "kConcate", "kSplit"}
                             /\ h.src[n] # << >>
                             /\ Origin(h, n) = "kSlice" => Evenly(h, h.dst[n])
                             /\ Origin(h, n) = "kConcate" => Evenly(h, h.src[n])
  BY <1>5, <1>7, <1>8
<1>10. \E C, lv : Carries(g, h, s, l, C, lv)
  <2> DEFINE C == [n \in {x} |-> {a}]  lv == [n \in {x} |-> 1]
  <2>1. C[x] = {a} /\ lv[x] = 1 /\ Carried(g, C, a) = {a} /\ Carried(g, C, x) = {a}
    BY <1>3, <1>5 DEF Carried
  <2> HIDE DEF C, lv
  <2>2. UNION {Carried(g, C, m) : m \in {a}} = {a} /\ UNION {Carried(g, C, m) : m \in {x}} = {a}
    BY <2>1
  <2>3. \A n \in Parts(g, l) : /\ ToSet(h.src[n]) = ToSet(g.src[n]) \cup {x}
                               /\ {m \in Parts(g, s) : Suits(g, m, n)} = {a}
    <3> TAKE n \in Parts(g, l)
    <3>1. n \in Nodes(g) /\ n \in ToSet(bs)
      BY DEF Parts
    <3>2. ToSet(h.src[n]) = ToSet(g.src[n]) \cup {x}
      BY <1>4, <3>1 DEF InsertedAt
    <3>3. {m \in Parts(g, s) : Suits(g, m, n)} = {a}
      OBVIOUS
    <3> QED  BY <3>2, <3>3
  <2>4. Carries(g, h, s, l, C, lv)
    <3>1. \A n \in Fresh(g, h) :
            /\ lv[n] \in 1 .. 3
            /\ C[n] = UNION {Carried(g, C, m) : m \in ToSet(h.src[n])}
            /\ \A m \in ToSet(h.src[n]) : m \in Parts(g, s) \/ (m \in Fresh(g, h) /\ lv[m] < lv[n])
      <4>1. ToSet(h.src[x]) = {a}
        BY <1>5, <1>7
      <4>2. C[x] = UNION {Carried(g, C, m) : m \in ToSet(h.src[x])}
        BY <2>1, <2>2, <4>1
      <4>3. \A n \in Fresh(g, h) : n = x
        BY <1>5
      <4>4. lv[x] \in 1 .. 3
        BY <2>1
      <4>5. \A m \in ToSet(h.src[x]) : m \in Parts(g, s)
        BY <1>3, <4>1
      <4> QED  BY <4>2, <4>3, <4>4, <4>5
    <3>2. ASSUME NEW n \in Parts(g, l)
          PROVE  \E in \in SUBSET (Parts(g, s) \cup Fresh(g, h)) :
                   /\ ToSet(h.src[n]) = ToSet(g.src[n]) \cup in
                   /\ UNION {Carried(g, C, m) : m \in in} = {m \in Parts(g, s) : Suits(g, m, n)}
      <4>1. {x} \in SUBSET (Parts(g, s) \cup Fresh(g, h))
        BY <1>5
      <4> QED  BY <2>2, <2>3, <4>1
    <3> QED  BY <3>1, <3>2 DEF Carries
  <2> QED  BY <2>4
<1> QED  BY <1>1, <1>5, <1>6, <1>9, <1>10 DEF LinkStep

\* The one node of a layer that is not partitioned.
LEMMA OnlyPart ==
  ASSUME TypeOK, PartsInv, phase = "edges", NEW s \in Layers, ~ Partitioned(s)
  PROVE  Parts(graph, s) = {layer2nodes[s][1]}
<1> DEFINE ns == layer2nodes[s]
<1>1. /\ ns \in Seq(Nodes(graph)) /\ Len(ns) = 1 /\ ToSet(ns) = Parts(graph, s)
  BY PartsFacts DEF PartsOf
<1> HIDE DEF ns
<1>2. \A x : x \in ToSet(ns) <=> \E i \in 1 .. 1 : ns[i] = x
  BY <1>1, ListFacts
<1>3. ToSet(ns) = {ns[1]}
  BY <1>2
<1> QED  BY <1>1, <1>3 DEF ns

\* A whole layer, and one that reads it by parts.
LEMMA ConnectSlicedKeeps == \A s, l \in Layers : IInv /\ ConnectSliced(s, l) => IInv'
<1> SUFFICES ASSUME NEW s \in Layers, NEW l \in Layers, IInv, ConnectSliced(s, l) PROVE IInv'
  OBVIOUS
<1> DEFINE a == layer2nodes[s][1]  bs == layer2nodes[l]
<1>1. /\ Connected(s, l) /\ ~ Partitioned(s) /\ Partitioned(l)
      /\ ~ (OneToOne(l) /\ type[s] = type[l]) /\ PartsOf(l) = gsize
      /\ graph' = Inserted(graph, a, bs, "slice", "kSlice")
  BY DEF ConnectSliced, InsertSliceNode, Partitioned, OneToOne, PartsOf
<1>2. /\ IsGraph(graph) /\ Wired(graph) /\ Complete(graph) /\ s # l
      /\ \A x \in Parts(graph, s) : \A b \in Parts(graph, l) : Suits(graph, x, b)
  BY <1>1, ConnectedFacts
<1>3. /\ bs \in Seq(Nodes(graph)) /\ IsInjective(bs) /\ ToSet(bs) = Parts(graph, l)
      /\ Len(bs) = gsize
      /\ {graph.node[n].partition : n \in Parts(graph, l)} = 0 .. gsize - 1
      /\ Parts(graph, s) = {a}
  BY <1>1, ConnectedFacts, PartsFacts, OnlyPart
<1> HIDE DEF a, bs
<1>4. Evenly(graph, bs)
  BY <1>3 DEF Evenly
<1>5. LinkStep(graph, graph', s, l)
  BY <1>1, <1>2, <1>3, <1>4, InsertLink
<1> QED  BY <1>1, <1>5, ConnectedFacts, LinkKeeps

\* A whole layer, and one whose parts read all of it.
LEMMA ConnectSplitKeeps == \A s, l \in Layers : IInv /\ ConnectSplit(s, l) => IInv'
<1> SUFFICES ASSUME NEW s \in Layers, NEW l \in Layers, IInv, ConnectSplit(s, l) PROVE IInv'
  OBVIOUS
<1> DEFINE a == layer2nodes[s][1]  bs == layer2nodes[l]
<1>1. /\ Connected(s, l) /\ ~ Partitioned(s) /\ ~ OneToOne(l)
      /\ graph' = Inserted(graph, a, bs, "split", "kSplit")
  BY DEF ConnectSplit, InsertSplitNode, WantsAll
<1>2. /\ IsGraph(graph) /\ Wired(graph) /\ Complete(graph) /\ s # l
      /\ \A x \in Parts(graph, s) : \A b \in Parts(graph, l) : Suits(graph, x, b)
  BY <1>1, ConnectedFacts
<1>3. /\ bs \in Seq(Nodes(graph)) /\ IsInjective(bs) /\ ToSet(bs) = Parts(graph, l)
      /\ Parts(graph, s) = {a}
  BY <1>1, ConnectedFacts, PartsFacts, OnlyPart
<1> HIDE DEF a, bs
<1>4. LinkStep(graph, graph', s, l)
  BY <1>1, <1>2, <1>3, InsertLink
<1> QED  BY <1>1, <1>4, ConnectedFacts, LinkKeeps

\* A slice new[i] of each of ss.
SlicedAt(g, h, ss, new) ==
  /\ IsGraph(h) /\ h.size = g.size + Len(ss) /\ Extends(g, h) /\ Nodes(g) \subseteq Nodes(h)
  /\ new = NewNodes(g, Len(ss)) /\ new \in Seq(Nodes(h)) /\ Len(new) = Len(ss) /\ IsInjective(new)
  /\ Fresh(g, h) = ToSet(new)
  /\ \A i \in 1 .. Len(ss) :
       /\ new[i] \in Fresh(g, h)
       /\ Origin(h, new[i]) = "kSlice" /\ h.node[new[i]].partition = g.node[ss[i]].partition
       /\ h.src[new[i]] = <<ss[i]>> /\ h.dst[new[i]] = << >>
  /\ \A n \in Nodes(g) : /\ h.src[n] = g.src[n]
                         /\ n \notin ToSet(ss) => h.dst[n] = g.dst[n]
  /\ Complete(g) => Complete(h)
  /\ Wired(g) => Wired(h)

\* A slice behind each of ss.
LEMMA SlicedFacts ==
  ASSUME NEW g, IsGraph(g), NEW ss \in Seq(Nodes(g)), IsInjective(ss)
  PROVE  SlicedAt(g, Sliced(g, ss), ss, NewNodes(g, Len(ss)))
<1> DEFINE k == Len(ss)
           infos == [i \in 1 .. k |-> Beside(g, ss[i], <<"slice", Name(g, ss[i])>>, "kSlice")]
           h0 == AddNodes(g, k, infos)
           new == NewNodes(g, k)
           h == Match(h0, ss, new)
<1>1. h = Sliced(g, ss)
  BY DEF Sliced
<1>2. k \in Nat /\ g.size \in Nat /\ \A i \in 1 .. k : ss[i] \in Nodes(g)
  BY ListFacts, GraphFacts
<1>3. \A i \in 1 .. k : /\ IsInfo(infos[i]) /\ infos[i].origin = "kSlice"
                        /\ infos[i].partition = g.node[ss[i]].partition
  BY <1>2, GraphFacts DEF Beside, IsInfo, Between
<1> HIDE DEF infos
<1>4. NodesAdded(g, h0, k, infos)
  BY <1>2, <1>3, AddNodesFacts
<1> HIDE DEF h0
<1>5. /\ IsGraph(h0) /\ h0.size = g.size + k /\ Extends(g, h0) /\ Nodes(g) \subseteq Nodes(h0)
      /\ \A n \in Nodes(g) : h0.dst[n] = g.dst[n] /\ h0.src[n] = g.src[n]
      /\ Complete(g) => Complete(h0)
      /\ Wired(g) => Wired(h0)
  BY <1>4 DEF NodesAdded
<1>6. /\ new \in Seq(Nodes(h0)) /\ Len(new) = k /\ IsInjective(new) /\ ToSet(new) = Fresh(g, h0)
      /\ \A i \in 1 .. k : new[i] = g.size + i
  BY <1>2, <1>5, NewNodesFacts DEF Fresh
<1>7. \A i \in 1 .. k : /\ new[i] \in Fresh(g, h0) /\ new[i] \notin Nodes(g)
                        /\ h0.node[new[i]] = infos[i]
                        /\ h0.dst[new[i]] = << >> /\ h0.src[new[i]] = << >>
  BY <1>4, <1>6 DEF NodesAdded, Fresh
<1> HIDE DEF new, h
<1>8. ss \in Seq(Nodes(h0)) /\ ToSet(ss) \subseteq Nodes(g)
  BY <1>5, ListOver, ListFacts
<1>9. Matches(h0, h, ss, new)
  BY <1>5, <1>6, <1>8, MatchFacts DEF h
<1>10. /\ IsGraph(h) /\ h.size = h0.size /\ h.node = h0.node /\ h.order = h0.order
       /\ Nodes(h) = Nodes(h0) /\ Fresh(g, h) = Fresh(g, h0)
  BY <1>9 DEF Matches, SameNodes, Nodes, Fresh
<1>11. \A i \in 1 .. k :
         /\ Origin(h, new[i]) = "kSlice" /\ h.node[new[i]].partition = g.node[ss[i]].partition
         /\ h.src[new[i]] = <<ss[i]>> /\ h.dst[new[i]] = << >>
  <2> TAKE i \in 1 .. k
  <2>1. new[i] \notin ToSet(ss) /\ new[i] \in Nodes(h0)
    BY <1>7, <1>8 DEF Fresh
  <2>2. h.src[new[i]] = <<ss[i]>> /\ h.dst[new[i]] = h0.dst[new[i]]
    BY <1>7, <1>9, <2>1 DEF Matches
  <2> QED  BY <1>3, <1>7, <1>10, <2>2 DEF Origin
<1>12. \A n \in Nodes(g) : /\ h.src[n] = g.src[n]
                           /\ n \notin ToSet(ss) => h.dst[n] = g.dst[n]
  <2> TAKE n \in Nodes(g)
  <2>1. n \in Nodes(h0) /\ n \notin ToSet(new)
    BY <1>5, <1>6 DEF Fresh
  <2> QED  BY <1>5, <1>9, <2>1 DEF Matches
<1>13. ASSUME Wired(g) PROVE Wired(h)
  <2>1. \A i \in 1 .. k : new[i] \notin ToSet(h0.dst[ss[i]])
    <3> TAKE i \in 1 .. k
    <3>1. h0.dst[ss[i]] \in Seq(Nodes(g))
      BY <1>2, <1>5, GraphFacts
    <3>2. ToSet(h0.dst[ss[i]]) \subseteq Nodes(g)
      BY <3>1, ListFacts
    <3> QED  BY <1>7, <3>2
  <2> QED  BY <1>5, <1>9, <1>13, <2>1 DEF Matches
<1>14. Extends(g, h) /\ (Complete(g) => Complete(h))
  BY <1>5, <1>10 DEF Extends, Complete
<1> QED  BY <1>1, <1>5, <1>6, <1>7, <1>10, <1>11, <1>12, <1>13, <1>14 DEF SlicedAt, new

\* A node new[i] for each of ds that puts ss together.
ConcatedAt(g, h, ss, ds, new) ==
  /\ IsGraph(h) /\ h.size = g.size + Len(ds) /\ Extends(g, h) /\ Nodes(g) \subseteq Nodes(h)
  /\ new \in Seq(Nodes(h)) /\ Len(new) = Len(ds) /\ IsInjective(new) /\ Fresh(g, h) = ToSet(new)
  /\ \A i \in 1 .. Len(ds) :
       /\ new[i] \in Fresh(g, h)
       /\ Origin(h, new[i]) = "kConcate" /\ h.node[new[i]].partition = g.node[ds[i]].partition
       /\ h.src[new[i]] = ss
       /\ ToSet(h.src[ds[i]]) = ToSet(g.src[ds[i]]) \cup {new[i]}
  /\ \A n \in Nodes(g) : /\ n \notin ToSet(ss) => h.dst[n] = g.dst[n]
                         /\ n \in ToSet(ss) /\ g.dst[n] = << >> => h.dst[n] = new
                         /\ n \notin ToSet(ds) => h.src[n] = g.src[n]
  /\ Complete(g) => Complete(h)
  /\ Wired(g) /\ IsInjective(ss) => Wired(h)

\* A concatenation of ss before each of ds.
LEMMA ConcatedFacts ==
  ASSUME NEW g, IsGraph(g), NEW ss \in Seq(Nodes(g)), NEW ds \in Seq(Nodes(g)), IsInjective(ds)
  PROVE  ConcatedAt(g, Concated(g, ss, ds), ss, ds, NewNodes(g, Len(ds)))
<1> DEFINE k == Len(ds)
           infos == [i \in 1 .. k |-> Beside(g, ds[i], <<"concate", Name(g, ds[i])>>, "kConcate")]
           h0 == AddNodes(g, k, infos)
           new == NewNodes(g, k)
           h1 == Match(h0, new, ds)
           h == Connect(h1, ss, new)
<1>1. h = Concated(g, ss, ds)
  BY DEF Concated
<1>2. k \in Nat /\ g.size \in Nat /\ \A i \in 1 .. k : ds[i] \in Nodes(g)
  BY ListFacts, GraphFacts
<1>3. \A i \in 1 .. k : /\ IsInfo(infos[i]) /\ infos[i].origin = "kConcate"
                        /\ infos[i].partition = g.node[ds[i]].partition
  BY <1>2, GraphFacts DEF Beside, IsInfo, Between
<1> HIDE DEF infos
<1>4. NodesAdded(g, h0, k, infos)
  BY <1>2, <1>3, AddNodesFacts
<1> HIDE DEF h0
<1>5. /\ IsGraph(h0) /\ h0.size = g.size + k /\ Extends(g, h0) /\ Nodes(g) \subseteq Nodes(h0)
      /\ \A n \in Nodes(g) : h0.dst[n] = g.dst[n] /\ h0.src[n] = g.src[n]
      /\ Complete(g) => Complete(h0)
      /\ Wired(g) => Wired(h0)
  BY <1>4 DEF NodesAdded
<1>6. /\ new \in Seq(Nodes(h0)) /\ Len(new) = k /\ IsInjective(new) /\ ToSet(new) = Fresh(g, h0)
      /\ \A i \in 1 .. k : new[i] = g.size + i
  BY <1>2, <1>5, NewNodesFacts DEF Fresh
<1>7. \A i \in 1 .. k : /\ new[i] \in Fresh(g, h0) /\ new[i] \notin Nodes(g)
                        /\ h0.node[new[i]] = infos[i]
                        /\ h0.dst[new[i]] = << >> /\ h0.src[new[i]] = << >>
  BY <1>4, <1>6 DEF NodesAdded, Fresh
<1> HIDE DEF new, h1, h
<1>8. /\ ds \in Seq(Nodes(h0)) /\ ToSet(ds) \subseteq Nodes(g)
      /\ ss \in Seq(Nodes(h0)) /\ ToSet(ss) \subseteq Nodes(g)
  BY <1>5, ListOver, ListFacts
<1>9. Matches(h0, h1, new, ds)
  BY <1>5, <1>6, <1>8, MatchFacts DEF h1
<1>10. /\ IsGraph(h1) /\ h1.size = h0.size /\ h1.node = h0.node /\ h1.order = h0.order
       /\ Nodes(h1) = Nodes(h0)
  BY <1>9 DEF Matches, SameNodes, Nodes
<1>11. Connects(h1, h, ss, new)
  BY <1>6, <1>8, <1>10, ConnectFacts DEF h
<1>12. /\ IsGraph(h) /\ h.size = h0.size /\ h.node = h0.node /\ h.order = h0.order
       /\ Nodes(h) = Nodes(h0) /\ Fresh(g, h) = Fresh(g, h0)
  BY <1>10, <1>11 DEF Connects, SameNodes, Nodes, Fresh
<1>13. ASSUME NEW i \in 1 .. k
       PROVE  /\ Origin(h, new[i]) = "kConcate" /\ h.node[new[i]].partition = g.node[ds[i]].partition
              /\ h.src[new[i]] = ss
              /\ ToSet(h.src[ds[i]]) = ToSet(g.src[ds[i]]) \cup {new[i]}
  <2>1. /\ new[i] \notin ToSet(ds) /\ new[i] \in Nodes(h0) /\ new[i] \in ToSet(new)
        /\ ds[i] \in Nodes(g) /\ ds[i] \in Nodes(h0) /\ ds[i] \notin ToSet(new)
    BY <1>2, <1>5, <1>6, <1>7, <1>8 DEF Fresh
  <2>2. h1.src[new[i]] = << >>
    BY <1>7, <1>9, <2>1 DEF Matches
  <2>3. ToSet(h1.src[ds[i]]) = ToSet(g.src[ds[i]]) \cup {new[i]}
    BY <1>5, <1>6, <1>9, <2>1 DEF Matches
  <2>4. h.src[new[i]] = ss /\ h.src[ds[i]] = h1.src[ds[i]]
    BY <1>10, <1>11, <2>1, <2>2 DEF Connects
  <2> QED  BY <1>3, <1>7, <1>12, <2>3, <2>4 DEF Origin
<1>14. ASSUME NEW n \in Nodes(g)
       PROVE  /\ n \notin ToSet(ss) => h.dst[n] = g.dst[n]
              /\ n \in ToSet(ss) /\ g.dst[n] = << >> => h.dst[n] = new
              /\ n \notin ToSet(ds) => h.src[n] = g.src[n]
  <2>1. n \in Nodes(h0) /\ n \notin ToSet(new)
    BY <1>5, <1>6 DEF Fresh
  <2>2. h1.dst[n] = g.dst[n] /\ (n \notin ToSet(ds) => h1.src[n] = g.src[n])
    BY <1>5, <1>9, <2>1 DEF Matches
  <2> QED  BY <1>10, <1>11, <2>1, <2>2 DEF Connects
<1>15. ASSUME Wired(g), IsInjective(ss) PROVE Wired(h)
  <2>1. \A i \in 1 .. k : ds[i] \notin ToSet(h0.dst[new[i]])
    BY <1>7, NoList
  <2>2. Wired(h1)
    BY <1>5, <1>6, <1>9, <1>15, <2>1 DEF Matches
  <2>3. \A a \in ToSet(ss) : \A b \in ToSet(new) : b \notin ToSet(h1.dst[a])
    <3> TAKE a \in ToSet(ss)
    <3>1. a \in Nodes(g) /\ a \notin ToSet(new) /\ a \in Nodes(h0)
      BY <1>5, <1>6, <1>8 DEF Fresh
    <3>2. h1.dst[a] = g.dst[a] /\ g.dst[a] \in Seq(Nodes(g))
      BY <1>5, <1>9, <3>1, GraphFacts DEF Matches
    <3>3. ToSet(h1.dst[a]) \subseteq Nodes(g)
      BY <3>2, ListFacts
    <3> QED  BY <1>6, <3>3 DEF Fresh
  <2> QED  BY <1>6, <1>11, <1>15, <2>2, <2>3 DEF Connects
<1>16. Extends(g, h) /\ (Complete(g) => Complete(h))
  BY <1>5, <1>12 DEF Extends, Complete
<1> QED  BY <1>1, <1>5, <1>6, <1>7, <1>12, <1>13, <1>14, <1>15, <1>16 DEF ConcatedAt, new

\* What is in a list is at one of its places.
LEMMA ListPlaces ==
  ASSUME NEW S, NEW s \in Seq(S), NEW k, Len(s) = k
  PROVE  \A x : x \in ToSet(s) <=> \E i \in 1 .. k : s[i] = x
  BY ListFacts

\* A partitioned layer, and one that reads all of it.
LEMMA ConnectConcatedKeeps == \A s, l \in Layers : IInv /\ ConnectConcated(s, l) => IInv'
<1> SUFFICES ASSUME NEW s \in Layers, NEW l \in Layers, IInv, ConnectConcated(s, l) PROVE IInv'
  OBVIOUS
<1> DEFINE as == layer2nodes[s]  bs == layer2nodes[l]
<1>1. /\ Connected(s, l) /\ Partitioned(s) /\ ~ OneToOne(l) /\ PartsOf(s) = gsize
      /\ graph' = Concated(graph, as, bs)
  BY DEF ConnectConcated, WantsAll, PartsOf
<1>2. PICK g, h : g = graph /\ h = graph'
  OBVIOUS
<1>3. /\ IsGraph(g) /\ Wired(g) /\ Complete(g) /\ s # l
      /\ \A a \in Parts(g, s) : \A b \in Parts(g, l) : Suits(g, a, b)
  BY <1>1, <1>2, ConnectedFacts
<1>4. /\ as \in Seq(Nodes(g)) /\ IsInjective(as) /\ ToSet(as) = Parts(g, s) /\ Len(as) = gsize
      /\ gsize \in Nat \ {0} /\ as # << >>
      /\ {g.node[n].partition : n \in Parts(g, s)} = 0 .. gsize - 1
      /\ bs \in Seq(Nodes(g)) /\ IsInjective(bs) /\ ToSet(bs) = Parts(g, l)
  BY <1>1, <1>2, ConnectedFacts, PartsFacts, NoList
<1> DEFINE new == NewNodes(g, Len(bs))
<1> HIDE DEF as, bs, new
<1>5. ConcatedAt(g, h, as, bs, new)
  BY <1>1, <1>2, <1>3, <1>4, ConcatedFacts DEF new
<1>6. /\ IsGraph(h) /\ Extends(g, h) /\ Nodes(g) \subseteq Nodes(h) /\ Wired(h) /\ Complete(h)
      /\ \A n \in Nodes(g) : h.node[n] = g.node[n]
      /\ Fresh(g, h) = ToSet(new) /\ new \in Seq(Nodes(h)) /\ Len(new) = Len(bs)
      /\ \A n \in Nodes(g) : /\ Origin(g, n) # s => h.dst[n] = g.dst[n]
                             /\ Origin(g, n) # l => h.src[n] = g.src[n]
  BY <1>3, <1>4, <1>5 DEF ConcatedAt, Extends, Parts
<1>7. \A n \in Fresh(g, h) : Origin(h, n) = "kConcate" /\ h.src[n] = as
  <2> TAKE n \in Fresh(g, h)
  <2>1. \A x : x \in ToSet(new) <=> \E i \in 1 .. Len(bs) : new[i] = x
    BY <1>6, ListFacts
  <2>2. PICK i \in 1 .. Len(bs) : new[i] = n
    BY <1>6, <2>1
  <2> QED  BY <1>5, <2>2 DEF ConcatedAt
<1>8. Evenly(h, as)
  <2>1. {h.node[n].partition : n \in ToSet(as)} = {g.node[n].partition : n \in Parts(g, s)}
    BY <1>4, <1>6 DEF Parts
  <2> QED  BY <1>4, <2>1 DEF Evenly
<1>9. \E C, lv : Carries(g, h, s, l, C, lv)
  <2> DEFINE C == [n \in Fresh(g, h) |-> Parts(g, s)]  lv == [n \in Fresh(g, h) |-> 1]
  <2>1. \A n \in Fresh(g, h) : C[n] = Parts(g, s) /\ lv[n] = 1 /\ Carried(g, C, n) = Parts(g, s)
    BY DEF Carried, Fresh
  <2>2. \A n \in Parts(g, s) : Carried(g, C, n) = {n}
    BY DEF Carried, Parts
  <2> HIDE DEF C, lv
  <2>3. UNION {Carried(g, C, m) : m \in Parts(g, s)} = Parts(g, s)
    BY <2>2
  <2>4. ASSUME NEW n \in Fresh(g, h)
        PROVE  /\ lv[n] \in 1 .. 3
               /\ C[n] = UNION {Carried(g, C, m) : m \in ToSet(h.src[n])}
               /\ \A m \in ToSet(h.src[n]) : m \in Parts(g, s)
    <3>1. ToSet(h.src[n]) = Parts(g, s)
      BY <1>4, <1>7
    <3>2. lv[n] \in 1 .. 3
      BY <2>1
    <3> QED  BY <2>1, <2>3, <3>1, <3>2
  <2>5. ASSUME NEW n \in Parts(g, l)
        PROVE  \E in \in SUBSET (Parts(g, s) \cup Fresh(g, h)) :
                 /\ ToSet(h.src[n]) = ToSet(g.src[n]) \cup in
                 /\ UNION {Carried(g, C, m) : m \in in} = {m \in Parts(g, s) : Suits(g, m, n)}
    <3>1. PICK i \in 1 .. Len(bs) : bs[i] = n
      <4>1. \A x : x \in ToSet(bs) <=> \E i \in 1 .. Len(bs) : bs[i] = x
        BY <1>4, ListFacts
      <4> QED  BY <1>4, <4>1
    <3>2. ToSet(h.src[n]) = ToSet(g.src[n]) \cup {new[i]} /\ new[i] \in Fresh(g, h)
      BY <1>5, <3>1 DEF ConcatedAt
    <3>3. UNION {Carried(g, C, m) : m \in {new[i]}} = Parts(g, s)
      BY <2>1, <3>2
    <3>4. {m \in Parts(g, s) : Suits(g, m, n)} = Parts(g, s)
      BY <1>3
    <3>5. {new[i]} \in SUBSET (Parts(g, s) \cup Fresh(g, h))
      BY <3>2
    <3> QED  BY <3>2, <3>3, <3>4, <3>5
  <2>6. Carries(g, h, s, l, C, lv)
    BY <2>4, <2>5 DEF Carries
  <2> QED  BY <2>6
<1>10. LinkStep(g, h, s, l)
  BY <1>4, <1>6, <1>7, <1>8, <1>9 DEF LinkStep
<1> QED  BY <1>1, <1>2, <1>10, ConnectedFacts, LinkKeeps

\* Two layers partitioned differently.
LEMMA ConnectReslicedKeeps == \A s, l \in Layers : IInv /\ ConnectResliced(s, l) => IInv'
<1> SUFFICES ASSUME NEW s \in Layers, NEW l \in Layers, IInv, ConnectResliced(s, l) PROVE IInv'
  OBVIOUS
<1> DEFINE as == layer2nodes[s]  bs == layer2nodes[l]
<1>1. /\ Connected(s, l) /\ Partitioned(s) /\ Partitioned(l) /\ ~ (OneToOne(l) /\ type[s] = type[l])
      /\ PartsOf(s) = gsize /\ PartsOf(l) = gsize
      /\ graph' = Concated(Sliced(graph, as), NewNodes(graph, gsize), bs)
  BY DEF ConnectResliced, PartsOf, Partitioned, OneToOne
<1>2. PICK g, h : g = graph /\ h = graph'
  OBVIOUS
<1>3. /\ IsGraph(g) /\ Wired(g) /\ Complete(g) /\ s # l
      /\ \A a \in Parts(g, s) : \A b \in Parts(g, l) : Suits(g, a, b)
  BY <1>1, <1>2, ConnectedFacts
<1>4. /\ as \in Seq(Nodes(g)) /\ IsInjective(as) /\ ToSet(as) = Parts(g, s) /\ Len(as) = gsize
      /\ {g.node[n].partition : n \in Parts(g, s)} = 0 .. gsize - 1
      /\ bs \in Seq(Nodes(g)) /\ IsInjective(bs) /\ ToSet(bs) = Parts(g, l) /\ Len(bs) = gsize
      /\ {g.node[n].partition : n \in Parts(g, l)} = 0 .. gsize - 1
      /\ gsize \in Nat \ {0}
  BY <1>1, <1>2, ConnectedFacts, PartsFacts
<1> DEFINE gs == Sliced(g, as)  cut == NewNodes(g, gsize)  put == NewNodes(gs, gsize)
<1> HIDE DEF as, bs, gs, cut, put
<1>5. SlicedAt(g, gs, as, cut)
  BY <1>3, <1>4, SlicedFacts DEF gs, cut
<1>6. /\ IsGraph(gs) /\ Nodes(g) \subseteq Nodes(gs) /\ Wired(gs) /\ Complete(gs)
      /\ cut \in Seq(Nodes(gs)) /\ Len(cut) = gsize /\ IsInjective(cut) /\ Fresh(g, gs) = ToSet(cut)
      /\ \A n \in Nodes(g) : gs.node[n] = g.node[n]
      /\ g.size <= gs.size
  BY <1>3, <1>4, <1>5 DEF SlicedAt, Extends
<1>7. bs \in Seq(Nodes(gs)) /\ ToSet(bs) \subseteq Nodes(g) /\ ToSet(as) \subseteq Nodes(g)
  BY <1>4, <1>6, ListOver, ListFacts
<1>8. ConcatedAt(gs, h, cut, bs, put)
  <2>1. h = Concated(gs, cut, bs)
    BY <1>1, <1>2 DEF gs, cut
  <2> QED  BY <1>4, <1>6, <1>7, <2>1, ConcatedFacts DEF put
<1>9. /\ IsGraph(h) /\ Nodes(gs) \subseteq Nodes(h) /\ Wired(h) /\ Complete(h)
      /\ put \in Seq(Nodes(h)) /\ Len(put) = gsize /\ Fresh(gs, h) = ToSet(put)
      /\ \A n \in Nodes(gs) : h.node[n] = gs.node[n]
      /\ gs.size <= h.size
  BY <1>4, <1>6, <1>8 DEF ConcatedAt, Extends
<1>10. Extends(g, h) /\ Nodes(g) \subseteq Nodes(h) /\ \A n \in Nodes(g) : h.node[n] = g.node[n]
  <2>1. g.size \in Nat /\ gs.size \in Nat /\ h.size \in Nat
    BY <1>3, <1>6, <1>9, GraphFacts
  <2>2. g.size <= h.size
    BY <1>6, <1>9, <2>1
  <2> QED  BY <1>6, <1>9, <2>2 DEF Extends
<1>11. Fresh(g, h) = ToSet(cut) \cup ToSet(put)
  BY <1>6, <1>9 DEF Fresh
<1>12. /\ \A x : x \in ToSet(cut) <=> \E i \in 1 .. gsize : cut[i] = x
       /\ \A x : x \in ToSet(put) <=> \E i \in 1 .. gsize : put[i] = x
       /\ \A x : x \in ToSet(bs) <=> \E i \in 1 .. gsize : bs[i] = x
       /\ \A x : x \in ToSet(as) <=> \E i \in 1 .. gsize : as[i] = x
  <2>1. \A x : x \in ToSet(cut) <=> \E i \in 1 .. gsize : cut[i] = x
    BY <1>6, ListPlaces
  <2>2. \A x : x \in ToSet(put) <=> \E i \in 1 .. gsize : put[i] = x
    BY <1>9, ListPlaces
  <2>3. \A x : x \in ToSet(bs) <=> \E i \in 1 .. gsize : bs[i] = x
    BY <1>4, ListPlaces
  <2>4. \A x : x \in ToSet(as) <=> \E i \in 1 .. gsize : as[i] = x
    BY <1>4, ListPlaces
  <2> QED  BY <2>1, <2>2, <2>3, <2>4
<1>13. ToSet(cut) \subseteq Nodes(gs) /\ ToSet(cut) \cap Nodes(g) = {} /\ ToSet(put) \cap Nodes(gs) = {}
  BY <1>6, <1>9 DEF Fresh
<1>14. ASSUME NEW i \in 1 .. gsize
       PROVE  /\ Origin(h, cut[i]) = "kSlice" /\ h.node[cut[i]].partition = g.node[as[i]].partition
              /\ h.src[cut[i]] = <<as[i]>> /\ h.dst[cut[i]] = put
              /\ as[i] \in Parts(g, s)
  <2>1. /\ Origin(gs, cut[i]) = "kSlice" /\ gs.node[cut[i]].partition = g.node[as[i]].partition
        /\ gs.src[cut[i]] = <<as[i]>> /\ gs.dst[cut[i]] = << >>
    BY <1>4, <1>5 DEF SlicedAt
  <2>2. cut[i] \in ToSet(cut) /\ cut[i] \in Nodes(gs) /\ cut[i] \notin ToSet(bs) /\ as[i] \in ToSet(as)
    BY <1>7, <1>12, <1>13
  <2>3. h.src[cut[i]] = gs.src[cut[i]] /\ h.dst[cut[i]] = put
    BY <1>8, <2>1, <2>2 DEF ConcatedAt
  <2> QED  BY <1>4, <1>9, <2>1, <2>2, <2>3 DEF Origin
<1>15. ASSUME NEW i \in 1 .. gsize
       PROVE  /\ Origin(h, put[i]) = "kConcate" /\ h.node[put[i]].partition = g.node[bs[i]].partition
              /\ h.src[put[i]] = cut /\ ToSet(h.src[bs[i]]) = ToSet(g.src[bs[i]]) \cup {put[i]}
  <2>1. bs[i] \in Nodes(g)
    BY <1>7, <1>12
  <2>2. gs.src[bs[i]] = g.src[bs[i]] /\ gs.node[bs[i]] = g.node[bs[i]]
    BY <1>5, <1>6, <2>1 DEF SlicedAt
  <2> QED  BY <1>4, <1>8, <2>2 DEF ConcatedAt
<1>16. ASSUME NEW n \in Nodes(g)
       PROVE  /\ Origin(g, n) # s => h.dst[n] = g.dst[n]
              /\ Origin(g, n) # l => h.src[n] = g.src[n]
  <2>1. n \in Nodes(gs) /\ n \notin ToSet(cut)
    BY <1>6, <1>13
  <2>2. gs.src[n] = g.src[n] /\ (Origin(g, n) # s => gs.dst[n] = g.dst[n])
    BY <1>4, <1>5 DEF SlicedAt, Parts
  <2>3. h.dst[n] = gs.dst[n] /\ (Origin(g, n) # l => h.src[n] = gs.src[n])
    BY <1>4, <1>8, <2>1 DEF ConcatedAt, Parts
  <2> QED  BY <2>2, <2>3
<1>17. Evenly(h, put) /\ Evenly(h, cut)
  <2>1. {h.node[n].partition : n \in ToSet(cut)} = 0 .. gsize - 1
    <3>1. ASSUME NEW n \in ToSet(cut) PROVE h.node[n].partition \in 0 .. gsize - 1
      <4>1. PICK i \in 1 .. gsize : cut[i] = n
        BY <1>12
      <4>2. as[i] \in Parts(g, s) /\ h.node[n].partition = g.node[as[i]].partition
        BY <1>4, <1>12, <1>14, <4>1
      <4> QED  BY <1>4, <4>2
    <3>2. ASSUME NEW x \in 0 .. gsize - 1 PROVE \E n \in ToSet(cut) : h.node[n].partition = x
      <4>1. PICK m \in Parts(g, s) : g.node[m].partition = x
        BY <1>4
      <4>2. PICK i \in 1 .. gsize : as[i] = m
        BY <1>4, <1>12
      <4> QED  BY <1>12, <1>14, <4>1, <4>2
    <3> QED  BY <3>1, <3>2
  <2>2. {h.node[n].partition : n \in ToSet(put)} = 0 .. gsize - 1
    <3>1. ASSUME NEW n \in ToSet(put) PROVE h.node[n].partition \in 0 .. gsize - 1
      <4>1. PICK i \in 1 .. gsize : put[i] = n
        BY <1>12
      <4>2. bs[i] \in Parts(g, l) /\ h.node[n].partition = g.node[bs[i]].partition
        BY <1>4, <1>12, <1>15, <4>1
      <4> QED  BY <1>4, <4>2
    <3>2. ASSUME NEW x \in 0 .. gsize - 1 PROVE \E n \in ToSet(put) : h.node[n].partition = x
      <4>1. PICK m \in Parts(g, l) : g.node[m].partition = x
        BY <1>4
      <4>2. PICK i \in 1 .. gsize : bs[i] = m
        BY <1>4, <1>12
      <4> QED  BY <1>12, <1>15, <4>1, <4>2
    <3> QED  BY <3>1, <3>2
  <2> QED  BY <1>4, <1>6, <1>9, <2>1, <2>2 DEF Evenly
<1>18. ASSUME NEW n \in Fresh(g, h)
       PROVE  /\ Origin(h, n) \in {"kSlice", "kConcate", "kSplit"}
              /\ h.src[n] # << >>
              /\ Origin(h, n) = "kSlice" => Evenly(h, h.dst[n])
              /\ Origin(h, n) = "kConcate" => Evenly(h, h.src[n])
  <2>1. CASE n \in ToSet(cut)
    <3>1. PICK i \in 1 .. gsize : cut[i] = n
      BY <1>12, <2>1
    <3>2. h.src[n] = <<as[i]>> /\ Origin(h, n) = "kSlice" /\ h.dst[n] = put
      BY <1>14, <3>1
    <3> QED  BY <1>17, <3>2, EmptySeq
  <2>2. CASE n \in ToSet(put)
    <3>1. PICK i \in 1 .. gsize : put[i] = n
      BY <1>12, <2>2
    <3>2. cut # << >>
      BY <1>4, <1>6, NoList
    <3> QED  BY <1>15, <1>17, <3>1, <3>2
  <2> QED  BY <1>11, <2>1, <2>2
<1>19. \E C, lv : Carries(g, h, s, l, C, lv)
  <2> DEFINE C == [n \in Fresh(g, h) |-> IF n \in ToSet(cut) THEN ToSet(h.src[n]) ELSE Parts(g, s)]
             lv == [n \in Fresh(g, h) |-> IF n \in ToSet(cut) THEN 1 ELSE 2]
  <2>1. /\ \A n \in ToSet(cut) : C[n] = ToSet(h.src[n]) /\ lv[n] = 1 /\ Carried(g, C, n) = C[n]
        /\ \A n \in ToSet(put) : C[n] = Parts(g, s) /\ lv[n] = 2 /\ Carried(g, C, n) = C[n]
        /\ \A n \in Parts(g, s) : Carried(g, C, n) = {n}
    BY <1>6, <1>11, <1>13 DEF Carried, Parts
  <2> HIDE DEF C, lv
  <2>2. \A i \in 1 .. gsize : ToSet(h.src[cut[i]]) = {as[i]}
    BY <1>14, OneList
  <2>3. UNION {Carried(g, C, m) : m \in ToSet(cut)} = Parts(g, s)
    <3>1. \A i \in 1 .. gsize : cut[i] \in ToSet(cut) /\ Carried(g, C, cut[i]) = {as[i]}
      <4> TAKE i \in 1 .. gsize
      <4>1. cut[i] \in ToSet(cut)
        BY <1>12
      <4>2. Carried(g, C, cut[i]) = ToSet(h.src[cut[i]])
        BY <2>1, <4>1
      <4> QED  BY <2>2, <4>1, <4>2
    <3>2. ASSUME NEW x
          PROVE  x \in UNION {Carried(g, C, m) : m \in ToSet(cut)} <=> \E i \in 1 .. gsize : as[i] = x
      <4>1. ASSUME NEW m \in ToSet(cut), x \in Carried(g, C, m) PROVE \E i \in 1 .. gsize : as[i] = x
        <5>1. PICK i \in 1 .. gsize : cut[i] = m
          BY <1>12
        <5> QED  BY <3>1, <4>1, <5>1
      <4>2. ASSUME NEW i \in 1 .. gsize, as[i] = x
            PROVE  \E m \in ToSet(cut) : x \in Carried(g, C, m)
        BY <3>1, <4>2
      <4> QED  BY <4>1, <4>2
    <3> QED  BY <1>4, <1>12, <3>2
  <2>4. ASSUME NEW n \in Fresh(g, h)
        PROVE  /\ lv[n] \in 1 .. 3
               /\ C[n] = UNION {Carried(g, C, m) : m \in ToSet(h.src[n])}
               /\ \A m \in ToSet(h.src[n]) : m \in Parts(g, s) \/ (m \in Fresh(g, h) /\ lv[m] < lv[n])
    <3>1. CASE n \in ToSet(cut)
      <4>1. PICK i \in 1 .. gsize : cut[i] = n
        BY <1>12, <3>1
      <4>2. ToSet(h.src[n]) = {as[i]} /\ as[i] \in Parts(g, s)
        BY <1>14, <2>2, <4>1
      <4>3. UNION {Carried(g, C, m) : m \in {as[i]}} = {as[i]}
        <5>1. Carried(g, C, as[i]) = {as[i]}
          BY <2>1, <4>2
        <5> QED  BY <5>1
      <4>4. lv[n] \in 1 .. 3 /\ C[n] = ToSet(h.src[n])
        BY <2>1, <3>1
      <4> QED  BY <4>2, <4>3, <4>4
    <3>2. CASE n \in ToSet(put)
      <4>1. PICK i \in 1 .. gsize : put[i] = n
        BY <1>12, <3>2
      <4>2. h.src[n] = cut
        BY <1>15, <4>1
      <4>3. lv[n] = 2 /\ C[n] = Parts(g, s)
        BY <2>1, <3>2
      <4>4. \A m \in ToSet(cut) : m \in Fresh(g, h) /\ lv[m] = 1
        BY <1>11, <2>1
      <4>5. lv[n] \in 1 .. 3 /\ 1 < lv[n]
        BY <4>3
      <4> QED  BY <2>3, <4>2, <4>3, <4>4, <4>5
    <3> QED  BY <1>11, <3>1, <3>2
  <2>5. ASSUME NEW n \in Parts(g, l)
        PROVE  \E in \in SUBSET (Parts(g, s) \cup Fresh(g, h)) :
                 /\ ToSet(h.src[n]) = ToSet(g.src[n]) \cup in
                 /\ UNION {Carried(g, C, m) : m \in in} = {m \in Parts(g, s) : Suits(g, m, n)}
    <3>1. PICK i \in 1 .. gsize : bs[i] = n
      BY <1>4, <1>12
    <3>2. ToSet(h.src[n]) = ToSet(g.src[n]) \cup {put[i]} /\ put[i] \in ToSet(put)
      BY <1>12, <1>15, <3>1
    <3>3. UNION {Carried(g, C, m) : m \in {put[i]}} = Parts(g, s)
      BY <2>1, <3>2
    <3>4. {m \in Parts(g, s) : Suits(g, m, n)} = Parts(g, s)
      BY <1>3
    <3>5. {put[i]} \in SUBSET (Parts(g, s) \cup Fresh(g, h))
      BY <1>11, <3>2
    <3> QED  BY <3>2, <3>3, <3>4, <3>5
  <2>6. Carries(g, h, s, l, C, lv)
    BY <2>4, <2>5 DEF Carries
  <2> QED  BY <2>6
<1>20. LinkStep(g, h, s, l)
  BY <1>9, <1>10, <1>16, <1>18, <1>19 DEF LinkStep
<1> QED  BY <1>1, <1>2, <1>20, ConnectedFacts, LinkKeeps

----------------------------------------------------------------------------
(* Steps that lead the edges of a node over new nodes *)

\* What new nodes do to types and names.
LEMMA GrownTypes ==
  ASSUME TypeOK, NetInv, PartsInv, phase \in {"splits", "bridges"}, phase' = phase,
         UNCHANGED <<net, layers, layer2nodes>>,
         IsGraph(graph)', Extends(graph, graph'), Nodes(graph) \subseteq Nodes(graph'),
         \A x \in Fresh(graph, graph') : Origin(graph', x) \in Between,
         todo' \in Seq(Nodes(graph)),
         walk' \in Seq([at : Nodes(graph), left : Seq(Nodes(graph))])
  PROVE  TypeOK' /\ NetInv' /\ PartsInv' /\ (DistinctNames' => DistinctNames)
<1>1. /\ gsize' = gsize /\ type' = type /\ connection' = connection /\ location' = location
      /\ srclayers' = srclayers /\ layers' = layers /\ layer2nodes' = layer2nodes
  BY DEF net
<1>2. PICK h : h = graph'
  OBVIOUS
<1>3. /\ \A x \in Fresh(graph, h) : Origin(h, x) \notin Layers
      /\ \A n \in Nodes(graph) : Origin(h, n) = Origin(graph, n) /\ h.node[n] = graph.node[n]
  BY <1>2, BetweenNoLayers DEF Extends, Origin
<1>4. TypeOK'
  <2>1. Seq(Nodes(graph)) \subseteq Seq(Nodes(h))
    BY <1>2, ListOver
  <2>2. [at : Nodes(graph), left : Seq(Nodes(graph))] \subseteq [at : Nodes(h), left : Seq(Nodes(h))]
    BY <1>2, <2>1
  <2>3. walk' \in Seq([at : Nodes(h), left : Seq(Nodes(h))])
    BY <2>2, ListOver
  <2>4. layer2nodes' \in [Layers -> Seq(Nodes(h))]
    BY <1>1, <2>1 DEF TypeOK
  <2>5. Items' = Nodes(h)
    BY <1>2 DEF Items
  <2> QED  BY <1>1, <1>2, <2>1, <2>3, <2>4, <2>5 DEF TypeOK, Sorting
<1>5. NetInv'
  BY NetKept
<1>6. PartsInv'
  <2>1. \A m \in Layers : Len(layer2nodes[m]) = PartsOf(m) /\ PartsOf(m)' = PartsOf(m)
    BY <1>1 DEF PartsInv, PartsOf, Partitioned
  <2>2. ASSUME NEW m \in Layers, NEW i \in 1 .. Len(layer2nodes[m])
        PROVE  Origin(h, layer2nodes[m][i]) = m /\ h.node[layer2nodes[m][i]].partition = i - 1
    <3>1. layer2nodes[m] \in Seq(Nodes(graph))
      BY DEF TypeOK
    <3>2. layer2nodes[m][i] \in Nodes(graph)
      BY <2>2, <3>1, ListFacts
    <3>3. Origin(graph, layer2nodes[m][i]) = m /\ graph.node[layer2nodes[m][i]].partition = i - 1
      BY <2>2 DEF PartsInv
    <3> QED  BY <1>3, <3>2, <3>3
  <2>3. ASSUME NEW n \in Nodes(h), Origin(h, n) \in Layers
        PROVE  n \in ToSet(layer2nodes[Origin(h, n)])
    <3>1. n \in Nodes(graph) /\ OfNet(n)
      BY <1>3, <2>3 DEF Fresh, OfNet
    <3> QED  BY <1>3, <3>1 DEF PartsInv
  <2> QED  BY <1>1, <1>2, <2>1, <2>2, <2>3 DEF PartsInv, OfNet
<1>7. DistinctNames' => DistinctNames
  BY DEF DistinctNames, Extends, Name
<1> QED  BY <1>4, <1>5, <1>6, <1>7

\* Some edges from n now lead over new nodes, and all that comes out of these
\* is what comes out of n.
Detour(g, h, n) ==
  /\ IsGraph(h) /\ Extends(g, h) /\ Nodes(g) \subseteq Nodes(h)
  /\ \A x \in Fresh(g, h) : Origin(h, x) \in Between
  /\ \E lv : \A x \in Fresh(g, h) :
       /\ lv[x] \in 1 .. 2
       /\ \E m : /\ ToSet(h.src[x]) = {m}
                 /\ m = n \/ (m \in Fresh(g, h) /\ lv[m] < lv[x])
  /\ \A d \in Nodes(g) :
       \/ h.src[d] = g.src[d]
       \/ /\ n \in ToSet(g.src[d])
          /\ \E x \in Fresh(g, h) : ToSet(h.src[d]) = (ToSet(g.src[d]) \ {n}) \cup {x}

\* The new nodes fit in when all ranks are spread.
LEMMA DetourRanked ==
  ASSUME TypeOK, Body, phase' \notin Early, NEW n \in Nodes(graph), Detour(graph, graph', n)
  PROVE  Ranked'
<1>1. PICK f : Ascends(graph, f)
  BY DEF Body, Ranked
<1>2. PICK g, h : g = graph /\ h = graph'
  OBVIOUS
<1>3. IsGraph(g) /\ n \in Nodes(g) /\ Ascends(g, f) /\ Detour(g, h, n)
  BY <1>1, <1>2 DEF TypeOK
<1>4. PICK lv : \A x \in Fresh(g, h) :
                  /\ lv[x] \in 1 .. 2
                  /\ \E m : /\ ToSet(h.src[x]) = {m}
                            /\ m = n \/ (m \in Fresh(g, h) /\ lv[m] < lv[x])
  BY <1>3 DEF Detour
<1> DEFINE f2 == [k \in Nodes(h) |-> IF k \in Nodes(g) THEN 3 * f[k] ELSE 3 * f[n] + lv[k]]
<1>5. /\ \A k \in Nodes(g) : k \in Nodes(h) /\ f2[k] = 3 * f[k] /\ f[k] \in Nat
      /\ \A k \in Fresh(g, h) : f2[k] = 3 * f[n] + lv[k] /\ lv[k] \in 1 .. 2
  BY <1>3, <1>4 DEF Fresh, Detour, Ascends
<1>6. \A k \in Nodes(h) : k \in Nodes(g) \/ k \in Fresh(g, h)
  BY DEF Fresh
<1>7. ASSUME NEW k \in Nodes(h) PROVE f2[k] \in Nat
  <2> HIDE DEF f2
  <2>1. \A r \in Nat, y \in 1 .. 2 : 3 * r \in Nat /\ 3 * r + y \in Nat
    OBVIOUS
  <2>2. CASE k \in Nodes(g)
    <3>1. f2[k] = 3 * f[k] /\ f[k] \in Nat
      BY <1>5, <2>2
    <3> QED  BY <2>1, <3>1
  <2>3. CASE k \in Fresh(g, h)
    <3>1. f2[k] = 3 * f[n] + lv[k] /\ lv[k] \in 1 .. 2 /\ f[n] \in Nat
      BY <1>3, <1>5, <2>3
    <3> QED  BY <2>1, <3>1
  <2> QED  BY <1>6, <2>2, <2>3
<1>8. f2 \in [Nodes(h) -> Nat]
  BY <1>7
<1> HIDE DEF f2
<1>9. ASSUME NEW k \in Nodes(h), NEW m \in ToSet(h.src[k]) PROVE f2[m] < f2[k]
  <2>1. CASE k \in Fresh(g, h)
    <3>1. m = n \/ (m \in Fresh(g, h) /\ lv[m] < lv[k])
      BY <1>4, <1>9, <2>1
    <3>2. f2[k] = 3 * f[n] + lv[k] /\ lv[k] \in 1 .. 2 /\ f[n] \in Nat
      BY <1>3, <1>5, <2>1
    <3>3. CASE m = n
      BY <1>3, <1>5, <3>2, <3>3
    <3>4. CASE m \in Fresh(g, h) /\ lv[m] < lv[k]
      <4>1. f2[m] = 3 * f[n] + lv[m] /\ lv[m] \in 1 .. 2
        BY <1>5, <3>4
      <4> QED  BY <3>2, <3>4, <4>1
    <3> QED  BY <3>1, <3>3, <3>4
  <2>2. CASE k \in Nodes(g)
    <3>1. f2[k] = 3 * f[k] /\ f[k] \in Nat
      BY <1>5, <2>2
    <3>2. CASE m \in ToSet(g.src[k])
      <4>1. m \in Nodes(g) /\ f[m] < f[k]
        BY <1>3, <2>2, <3>2, GraphFacts, ListFacts DEF Ascends
      <4>2. f2[m] = 3 * f[m] /\ f[m] \in Nat
        BY <1>5, <4>1
      <4> QED  BY <3>1, <4>1, <4>2
    <3>3. CASE m \notin ToSet(g.src[k])
      <4>1. n \in ToSet(g.src[k]) /\ m \in Fresh(g, h)
        BY <1>3, <1>9, <2>2, <3>3 DEF Detour
      <4>2. f[n] < f[k] /\ f[n] \in Nat
        BY <1>3, <1>5, <2>2, <4>1 DEF Ascends
      <4>3. f2[m] = 3 * f[n] + lv[m] /\ lv[m] \in 1 .. 2
        BY <1>5, <4>1
      <4> QED  BY <3>1, <4>2, <4>3
    <3> QED  BY <3>2, <3>3
  <2> QED  BY <1>6, <2>1, <2>2
<1>10. Ascends(h, f2)
  BY <1>8, <1>9 DEF Ascends
<1> QED  BY <1>2, <1>10 DEF Ranked

\* What comes out of the new nodes is what comes out of n.
LEMMA DetourFed ==
  ASSUME TypeOK, Body, phase \in {"splits", "bridges"}, phase' = phase, UNCHANGED net,
         NEW n \in Nodes(graph), Detour(graph, graph', n)
  PROVE  Fed'
<1>1. PICK F : IsFeed(graph, F) /\ \A k \in Nodes(graph) : OfNet(k) => F[k] = Wants(k)
  BY DEF Body, Fed
<1>2. PICK g, h : g = graph /\ h = graph'
  OBVIOUS
<1>3. /\ IsGraph(g) /\ n \in Nodes(g) /\ IsFeed(g, F) /\ Detour(g, h, n)
  BY <1>1, <1>2 DEF TypeOK
<1>4. /\ \A x \in Fresh(g, h) : Origin(h, x) \notin Layers
      /\ \A k \in Nodes(g) : Origin(h, k) = Origin(g, k) /\ h.node[k] = g.node[k]
      /\ Nodes(g) \subseteq Nodes(h)
  BY <1>3, BetweenNoLayers DEF Detour, Extends, Origin
<1> DEFINE F2 == [k \in Nodes(h) |-> IF k \in Nodes(g) THEN F[k] ELSE Given(g, F, n)]
<1>5. /\ \A k \in Nodes(g) : F2[k] = F[k]
      /\ \A k \in Fresh(g, h) : F2[k] = Given(g, F, n)
      /\ F2 = [k \in Nodes(h) |-> F2[k]]
  BY <1>4 DEF Fresh
<1> HIDE DEF F2
<1>6. /\ \A k \in Nodes(g) : Given(h, F2, k) = Given(g, F, k)
      /\ \A k \in Fresh(g, h) : Given(h, F2, k) = Given(g, F, n)
  BY <1>4, <1>5 DEF Given
<1>7. ASSUME NEW k \in Nodes(h) PROVE F2[k] = UNION {Given(h, F2, m) : m \in ToSet(h.src[k])}
  <2>1. CASE k \in Fresh(g, h)
    <3>1. PICK m : ToSet(h.src[k]) = {m} /\ (m = n \/ m \in Fresh(g, h))
      BY <1>3, <2>1 DEF Detour
    <3>2. Given(h, F2, m) = Given(g, F, n)
      BY <1>3, <1>6, <3>1
    <3> QED  BY <1>5, <2>1, <3>1, <3>2
  <2>2. CASE k \in Nodes(g)
    <3>1. \A m \in ToSet(g.src[k]) : Given(h, F2, m) = Given(g, F, m)
      <4>1. \A m \in ToSet(g.src[k]) : m \in Nodes(g)
        BY <1>3, <2>2, GraphFacts, ListFacts
      <4> QED  BY <1>6, <4>1
    <3>2. F2[k] = UNION {Given(g, F, m) : m \in ToSet(g.src[k])}
      BY <1>3, <1>5, <2>2 DEF IsFeed
    <3>3. F2[k] = UNION {Given(h, F2, m) : m \in ToSet(g.src[k])}
      BY <3>1, <3>2
    <3>4. CASE h.src[k] = g.src[k]
      BY <3>3, <3>4
    <3>5. CASE h.src[k] # g.src[k]
      <4>1. PICK x \in Fresh(g, h) : /\ n \in ToSet(g.src[k])
                                     /\ ToSet(h.src[k]) = (ToSet(g.src[k]) \ {n}) \cup {x}
        BY <1>3, <2>2, <3>5 DEF Detour
      <4>2. Given(h, F2, x) = Given(h, F2, n)
        BY <1>3, <1>6
      <4>3. \A y : (\E m \in ToSet(h.src[k]) : y \in Given(h, F2, m))
                     <=> (\E m \in ToSet(g.src[k]) : y \in Given(h, F2, m))
        BY <4>1, <4>2
      <4> QED  BY <3>3, <4>3
    <3> QED  BY <3>4, <3>5
  <2> QED  BY <2>1, <2>2 DEF Fresh
<1>8. IsFeed(h, F2)
  BY <1>5, <1>7 DEF IsFeed
<1>9. ASSUME NEW k \in Nodes(h), Origin(h, k) \in Layers PROVE F2[k] = Wants(k)'
  <2>1. k \in Nodes(g) /\ Origin(h, k) = Origin(g, k) /\ OfNet(k)
    BY <1>2, <1>4, <1>9 DEF Fresh, OfNet
  <2>2. F2[k] = Wants(k)
    BY <1>1, <1>2, <1>5, <2>1
  <2>3. \A m \in Nodes(g) : Suits(graph, m, k)' <=> Suits(graph, m, k)
    BY <1>2, <1>4, <2>1 DEF Suits, OneToOne, net
  <2>4. ASSUME NEW m \in Nodes(g)
        PROVE  Linked(Origin(h, m), Origin(h, k))' <=> Linked(Origin(g, m), Origin(g, k))
    BY <1>4, <2>1 DEF Linked, Pending, net
  <2>5. ASSUME NEW m
        PROVE  m \in Wants(k)' <=> m \in Wants(k)
    <3>1. m \in Wants(k)' <=> /\ m \in Nodes(h) /\ Origin(h, m) \in Layers
                              /\ Linked(Origin(h, m), Origin(h, k))' /\ Suits(graph, m, k)'
      BY <1>2 DEF Wants, OfNet
    <3>2. m \in Wants(k) <=> /\ m \in Nodes(g) /\ Origin(g, m) \in Layers
                             /\ Linked(Origin(g, m), Origin(g, k)) /\ Suits(graph, m, k)
      BY <1>2 DEF Wants, OfNet
    <3>3. m \in Nodes(h) /\ Origin(h, m) \in Layers <=> m \in Nodes(g) /\ Origin(g, m) \in Layers
      BY <1>4 DEF Fresh
    <3> QED  BY <2>3, <2>4, <3>1, <3>2, <3>3
  <2> QED  BY <2>2, <2>5
<1> QED  BY <1>2, <1>8, <1>9 DEF Fed, OfNet

\* No new node is of a layer, and each reads one.
LEMMA DetourKinds ==
  ASSUME TypeOK, Body, phase \in {"splits", "bridges"}, phase' = phase,
         NEW n \in Nodes(graph), Detour(graph, graph', n),
         phase = "splits" => \A x \in Fresh(graph, graph') : Origin(graph', x) \notin Bridges
  PROVE  KindsInv'
<1>1. PICK g, h : g = graph /\ h = graph'
  OBVIOUS
<1>2. IsGraph(g) /\ Detour(g, h, n) /\ IsGraph(h)
  BY <1>1 DEF TypeOK, Detour
<1>3. \A k \in Nodes(g) : Origin(h, k) = Origin(g, k)
  BY <1>2 DEF Detour, Extends, Origin
<1>4. ASSUME NEW k \in Nodes(h), Origin(h, k) \notin Layers PROVE h.src[k] # << >>
  <2>1. ToSet(h.src[k]) # {}
    <3>1. CASE k \in Fresh(g, h)
      BY <1>2, <3>1 DEF Detour
    <3>2. CASE k \in Nodes(g)
      <4>1. g.src[k] # << >> /\ g.src[k] \in Seq(Nodes(g))
        BY <1>1, <1>2, <1>3, <1>4, <3>2, GraphFacts DEF Body, KindsInv, OfNet
      <4>2. ToSet(g.src[k]) # {}
        BY <4>1, NoList
      <4> QED  BY <1>2, <3>2, <4>2 DEF Detour
    <3> QED  BY <3>1, <3>2 DEF Fresh
  <2> QED  BY <2>1, NoList
<1>5. ASSUME NEW k \in Nodes(h), Origin(h, k) \in Bridges PROVE phase = "bridges"
  BY <1>1, <1>3, <1>5 DEF Body, KindsInv, Fresh
<1> QED  BY <1>1, <1>4, <1>5 DEF KindsInv, Early, OfNet

\* t is s, but that another node may stand for one of the same partition.
Replaced(s, t) ==
  \/ t = s
  \/ \E a \in ToSet(s), x \in ToSet(t) :
       /\ Len(t) = Len(s) /\ ToSet(t) = (ToSet(s) \ {a}) \cup {x}
       /\ graph'.node[Past(x)'].partition = graph.node[Past(a)].partition

\* If one node stands for another of its partition, the pieces stay whole.
LEMMA PieceKept ==
  ASSUME TypeOK, Body, gsize' = gsize, IsGraph(graph)', Extends(graph, graph'),
         \A k \in Nodes(graph) : graph'.node[Past(k)'].partition = graph.node[Past(k)].partition,
         \A m \in Nodes(graph) :
           /\ Origin(graph, m) = "kSlice" => Replaced(graph.dst[m], graph'.dst[m])
           /\ Origin(graph, m) = "kConcate" => Replaced(graph.src[m], graph'.src[m])
           /\ Origin(graph, m) = "kBridgeSrc" => graph'.dst[m] # << >>
           /\ Origin(graph, m) = "kBridgeDst" => graph'.src[m] # << >>,
         \A x \in Fresh(graph, graph') :
           /\ Origin(graph', x) \notin {"kSlice", "kConcate"}
           /\ Origin(graph', x) = "kBridgeSrc" => graph'.dst[x] # << >>
           /\ Origin(graph', x) = "kBridgeDst" => graph'.src[x] # << >>
  PROVE  PieceInv'
<1> DEFINE P(k) == graph.node[Past(k)].partition  Q(k) == graph'.node[Past(k)'].partition
<1>1. ASSUME NEW s \in Seq(Nodes(graph)), NEW t, Whole(s), Replaced(s, t) PROVE Whole(t)'
  <2>1. \A k \in ToSet(s) : Q(k) = P(k)
    BY ListFacts
  <2>2. Len(t) = gsize
    BY <1>1 DEF Replaced, Whole
  <2>3. \A y : (\E n \in ToSet(t) : y = Q(n)) <=> (\E n \in ToSet(s) : y = P(n))
    <3>1. CASE t = s
      BY <2>1, <3>1
    <3>2. CASE t # s
      <4>1. PICK a \in ToSet(s), x \in ToSet(t) :
              ToSet(t) = (ToSet(s) \ {a}) \cup {x} /\ Q(x) = P(a)
        BY <1>1, <3>2 DEF Replaced
      <4> HIDE DEF P, Q
      <4> QED  BY <2>1, <4>1
    <3> QED  BY <3>1, <3>2
  <2>4. Whole(t)' <=> Len(t) = gsize' /\ {Q(n) : n \in ToSet(t)} = 0 .. gsize' - 1
    BY DEF Whole
  <2>5. {P(n) : n \in ToSet(s)} = 0 .. gsize - 1
    BY <1>1 DEF Whole
  <2> HIDE DEF P, Q
  <2>6. {Q(n) : n \in ToSet(t)} = {P(n) : n \in ToSet(s)}
    BY <2>3
  <2> QED  BY <2>2, <2>4, <2>5, <2>6
<1>2. PICK h : h = graph'
  OBVIOUS
<1>3. \A k \in Nodes(graph) : Origin(h, k) = Origin(graph, k)
  BY <1>2 DEF Extends, Origin
<1>4. ASSUME NEW m \in Nodes(graph)
      PROVE  /\ Origin(graph, m) = "kSlice" => Whole(h.dst[m])'
             /\ Origin(graph, m) = "kConcate" => Whole(h.src[m])'
  <2>1. /\ Origin(graph, m) = "kSlice" => Whole(graph.dst[m])
        /\ Origin(graph, m) = "kConcate" => Whole(graph.src[m])
    BY DEF Body, PieceInv
  <2>2. graph.dst[m] \in Seq(Nodes(graph)) /\ graph.src[m] \in Seq(Nodes(graph))
    BY GraphFacts DEF TypeOK
  <2>3. /\ Origin(graph, m) = "kSlice" => Replaced(graph.dst[m], h.dst[m])
        /\ Origin(graph, m) = "kConcate" => Replaced(graph.src[m], h.src[m])
    BY <1>2
  <2> QED  BY <1>1, <2>1, <2>2, <2>3
<1> QED  BY <1>2, <1>3, <1>4 DEF PieceInv, Fresh

\* A node without its edges.
Cut(g, r, n) ==
  /\ SameNodes(g, r) /\ r.dst[n] = << >>
  /\ \A k \in Nodes(g) : /\ k # n => r.dst[k] = g.dst[k]
                         /\ k \notin ToSet(g.dst[n]) => r.src[k] = g.src[k]
  /\ Distinct(g) /\ Wired(g) =>
       /\ Wired(r)
       /\ \A d \in ToSet(g.dst[n]) : /\ ToSet(r.src[d]) = ToSet(g.src[d]) \ {n}
                                     /\ Len(g.src[d]) = Len(r.src[d]) + 1

\* RemoveEdgesFrom leaves n without readers and the rest alone.
LEMMA CutFacts ==
  ASSUME NEW g, IsGraph(g), NEW n \in Nodes(g)
  PROVE  Cut(g, RemoveEdgesFrom(g, n), n)
<1> DEFINE r == RemoveEdgesFrom(g, n)
<1>1. /\ r.size = g.size /\ r.node = g.node /\ r.order = g.order /\ Nodes(r) = Nodes(g)
      /\ r.dst = [g.dst EXCEPT ![n] = << >>]
      /\ r.src = [d \in Nodes(g) |-> IF d \in ToSet(g.dst[n]) THEN Without(g, g.src[d], n) ELSE g.src[d]]
      /\ r = [size |-> r.size, node |-> r.node, dst |-> r.dst, src |-> r.src, order |-> r.order]
  <2>1. r = [g EXCEPT !.dst = [g.dst EXCEPT ![n] = << >>],
                      !.src = [d \in Nodes(g) |-> IF d \in ToSet(g.dst[n]) THEN Without(g, g.src[d], n)
                                                 ELSE g.src[d]]]
    BY DEF RemoveEdgesFrom, IsGraph
  <2> QED  BY <2>1 DEF IsGraph, Nodes
<1> HIDE DEF r
<1>2. /\ g.size \in Nat /\ g.dst \in [Nodes(g) -> Seq(Nodes(g))] /\ g.src \in [Nodes(g) -> Seq(Nodes(g))]
  BY DEF IsGraph
<1>3. /\ r.dst \in [Nodes(g) -> Seq(Nodes(g))] /\ r.dst[n] = << >>
      /\ \A k \in Nodes(g) : k # n => r.dst[k] = g.dst[k]
  BY <1>1, <1>2, NoList
<1>4. ASSUME NEW d \in Nodes(g)
      PROVE  /\ r.src[d] \in Seq(Nodes(g))
             /\ d \notin ToSet(g.dst[n]) => r.src[d] = g.src[d]
             /\ d \in ToSet(g.dst[n]) => r.src[d] = Without(g, g.src[d], n)
  <2>1. g.src[d] \in Seq(Nodes(g))
    BY <1>2
  <2>2. Without(g, g.src[d], n) \in Seq(Nodes(g))
    BY <1>2, <2>1, WithoutOne
  <2> QED  BY <1>1, <2>1, <2>2
<1>5. r.src \in [Nodes(g) -> Seq(Nodes(g))]
  BY <1>1, <1>4
<1>6. SameNodes(g, r)
  <2>1. IsGraph(r)
    BY <1>1, <1>3, <1>5 DEF IsGraph, Origin
  <2> QED  BY <1>1, <2>1 DEF SameNodes
<1>7. ASSUME Distinct(g), Wired(g), NEW d \in ToSet(g.dst[n])
      PROVE  /\ d \in Nodes(g) /\ ToSet(r.src[d]) = ToSet(g.src[d]) \ {n} /\ IsInjective(r.src[d])
             /\ Len(g.src[d]) = Len(r.src[d]) + 1
  <2>1. d \in Nodes(g)
    <3>1. g.dst[n] \in Seq(Nodes(g))
      BY <1>2
    <3> QED  BY <3>1, ListFacts
  <2>2. n \in ToSet(g.src[d]) /\ IsInjective(g.src[d]) /\ g.src[d] \in Seq(Nodes(g))
    BY <1>2, <1>7, <2>1 DEF Wired
  <2>3. r.src[d] = Without(g, g.src[d], n)
    BY <1>4, <2>1
  <2>4. /\ ToSet(Without(g, g.src[d], n)) = ToSet(g.src[d]) \ {n}
        /\ IsInjective(Without(g, g.src[d], n))
        /\ Len(g.src[d]) = Len(Without(g, g.src[d], n)) + 1
    BY <1>2, <1>7, <2>2, WithoutOne
  <2> QED  BY <2>1, <2>3, <2>4
<1>8. ASSUME Distinct(g), Wired(g) PROVE Wired(r)
  <2>1. \A k \in Nodes(g) : IsInjective(r.dst[k]) /\ IsInjective(r.src[k])
    <3> TAKE k \in Nodes(g)
    <3>1. IsInjective(r.dst[k])
      BY <1>3, <1>8, NoList DEF Wired
    <3>2. IsInjective(r.src[k])
      BY <1>4, <1>7, <1>8 DEF Wired
    <3> QED  BY <3>1, <3>2
  <2>2. ASSUME NEW a \in Nodes(g), NEW b \in Nodes(g)
        PROVE  b \in ToSet(r.dst[a]) <=> a \in ToSet(r.src[b])
    <3>1. b \in ToSet(g.dst[a]) <=> a \in ToSet(g.src[b])
      BY <1>8 DEF Wired
    <3>2. b \in ToSet(g.dst[n]) <=> n \in ToSet(g.src[b])
      BY <1>8 DEF Wired
    <3>3. ToSet(<< >>) = {}
      BY NoList
    <3>4. b \in ToSet(r.dst[a]) <=> a # n /\ b \in ToSet(g.dst[a])
      BY <1>3, <3>3
    <3>5. a \in ToSet(r.src[b]) <=> a # n /\ a \in ToSet(g.src[b])
      BY <1>4, <1>7, <1>8, <3>2
    <3> QED  BY <3>1, <3>4, <3>5
  <2> QED  BY <1>1, <2>1, <2>2 DEF Wired
<1> QED  BY <1>3, <1>4, <1>6, <1>7, <1>8 DEF Cut, r

\* A split of n takes all its edges.
SplitOf(g, h, n, x) ==
  /\ IsGraph(h) /\ Extends(g, h) /\ Nodes(g) \subseteq Nodes(h)
  /\ Fresh(g, h) = {x} /\ x \notin Nodes(g) /\ Nodes(h) = Nodes(g) \cup {x}
  /\ Origin(h, x) = "kSplit" /\ h.node[x].partition = g.node[n].partition
  /\ h.dst[x] = g.dst[n] /\ h.src[x] = <<n>> /\ h.dst[n] = <<x>>
  /\ \A k \in Nodes(g) : /\ k # n => h.dst[k] = g.dst[k]
                         /\ k \notin ToSet(g.dst[n]) => h.src[k] = g.src[k]
  /\ g.order # << >> => h.order # << >> /\ Head(h.order) = Head(g.order)
  /\ Complete(g) => Complete(h)
  /\ Distinct(g) /\ Wired(g) =>
       /\ Wired(h)
       /\ \A d \in ToSet(g.dst[n]) : /\ n \in ToSet(g.src[d])
                                     /\ ToSet(h.src[d]) = (ToSet(g.src[d]) \ {n}) \cup {x}
                                     /\ Len(h.src[d]) = Len(g.src[d])

\* What InsertSplitNode makes of a node without readers.
LEMMA SplitFacts ==
  ASSUME NEW g, IsGraph(g), NEW n \in Nodes(g)
  PROVE  SplitOf(g, InsertSplitNode(RemoveEdgesFrom(g, n), n, g.dst[n]), n, g.size + 1)
<1> DEFINE r == RemoveEdgesFrom(g, n)  ds == g.dst[n]  h == InsertSplitNode(r, n, ds)  x == g.size + 1
<1> HIDE DEF r, h, x
<1>1. Cut(g, r, n)
  BY CutFacts DEF r
<1>2. /\ IsGraph(r) /\ r.size = g.size /\ r.node = g.node /\ r.order = g.order /\ Nodes(r) = Nodes(g)
      /\ r.dst[n] = << >>
  BY <1>1 DEF Cut, SameNodes, Nodes
<1>3. ds \in Seq(Nodes(r)) /\ ToSet(ds) \subseteq Nodes(g)
  BY <1>2, GraphFacts, ListFacts
<1>4. InsertedAt(r, h, n, ds, x, "split", "kSplit")
  BY <1>2, <1>3, InsertedFacts DEF h, x, InsertSplitNode, Between
<1>5. /\ IsGraph(h) /\ Extends(g, h) /\ Nodes(g) \subseteq Nodes(h)
      /\ Fresh(g, h) = {x} /\ x \notin Nodes(g) /\ Nodes(h) = Nodes(g) \cup {x}
      /\ Origin(h, x) = "kSplit" /\ h.node[x].partition = g.node[n].partition
      /\ h.dst[x] = g.dst[n] /\ h.src[x] = <<n>> /\ h.dst[n] = <<x>>
  BY <1>2, <1>4 DEF InsertedAt, Extends, Fresh, Origin, Beside
<1>6. \A k \in Nodes(g) : /\ k # n => h.dst[k] = g.dst[k]
                          /\ k \notin ToSet(g.dst[n]) => h.src[k] = g.src[k]
  BY <1>1, <1>2, <1>4 DEF InsertedAt, Cut
<1>7. /\ g.order # << >> => h.order # << >> /\ Head(h.order) = Head(g.order)
      /\ Complete(g) => Complete(h)
  BY <1>2, <1>4 DEF InsertedAt, Complete
<1>8. ASSUME Distinct(g), Wired(g) PROVE Wired(h)
  BY <1>1, <1>4, <1>8 DEF Cut, InsertedAt, Wired
<1>9. ASSUME Distinct(g), Wired(g), NEW d \in ToSet(g.dst[n])
      PROVE  /\ n \in ToSet(g.src[d])
             /\ ToSet(h.src[d]) = (ToSet(g.src[d]) \ {n}) \cup {x}
             /\ Len(h.src[d]) = Len(g.src[d])
  <2>1. d \in Nodes(g) /\ n \in ToSet(g.src[d])
    BY <1>3, <1>9 DEF Wired
  <2>2. ToSet(r.src[d]) = ToSet(g.src[d]) \ {n} /\ Len(g.src[d]) = Len(r.src[d]) + 1
    BY <1>1, <1>9 DEF Cut
  <2>3. ToSet(h.src[d]) = ToSet(r.src[d]) \cup {x} /\ h.src[d] = r.src[d] \o <<x>>
    BY <1>2, <1>4, <2>1 DEF InsertedAt
  <2>4. Len(r.src[d] \o <<x>>) = Len(r.src[d]) + 1
    <3>1. r.src[d] \in Seq(Nodes(h)) /\ <<x>> \in Seq(Nodes(h)) /\ Len(<<x>>) = 1
      <4>1. r.src[d] \in Seq(Nodes(g)) /\ x \in Nodes(h)
        BY <1>2, <1>5, <2>1, GraphFacts
      <4> QED  BY <1>5, <4>1, ListOver, OneList
    <3> QED  BY <3>1, JoinedList
  <2> QED  BY <2>1, <2>2, <2>3, <2>4
<1> QED  BY <1>5, <1>6, <1>7, <1>8, <1>9 DEF SplitOf, h, r, x

\* The fan-out of the node whose turn it is is gone, or was allowed.
LEMMA FanLessened ==
  ASSUME TypeOK, Body, phase = "splits", todo # << >>,
         phase' = phase, todo' = Tail(todo), UNCHANGED net,
         IsGraph(graph)', Extends(graph, graph'), Nodes(graph) \subseteq Nodes(graph'),
         graph.order # << >> => graph'.order # << >> /\ Head(graph'.order) = Head(graph.order),
         \A k \in Nodes(graph) : k # Head(todo) => graph'.dst[k] = graph.dst[k],
         \A x \in Fresh(graph, graph') : Origin(graph', x) = "kSplit",
         IF NeedsSplit(graph, Head(todo)) THEN Len(graph'.dst[Head(todo)]) = 1
         ELSE graph'.dst[Head(todo)] = graph.dst[Head(todo)]
  PROVE  FanInv'
<1> DEFINE n == Head(todo)
<1>1. /\ todo \in Seq(Nodes(graph)) /\ n \in Nodes(graph) /\ ToSet(todo) = {n} \cup ToSet(Tail(todo))
  BY TailList DEF TypeOK, Items
<1>2. PICK h : h = graph'
  OBVIOUS
<1>3. \A k \in Nodes(graph) : Origin(h, k) = Origin(graph, k)
  BY <1>2 DEF Extends, Origin
<1>4. graph.order # << >> /\ Head(graph.order) \in Nodes(graph)
  <2>1. graph.order \in Seq(Nodes(graph)) /\ n \in ToSet(graph.order)
    BY <1>1, GraphFacts DEF TypeOK, Body, Complete
  <2>2. graph.order # << >>
    BY <2>1, NoList
  <2> QED  BY <2>1, <2>2, TailList
<1>5. /\ Head(graph.order) \in Nodes(graph)
      /\ OfNet(Head(graph.order)) /\ IsData(Origin(graph, Head(graph.order)))
  BY <1>4 DEF Body, FanInv
<1>6. h.order # << >> /\ Head(h.order) = Head(graph.order)
  BY <1>2, <1>4
<1>7. \A l : IsData(l)' <=> IsData(l)
  BY DEF IsData, net
<1>8. OfNet(Head(h.order))' /\ IsData(Origin(h, Head(h.order)))'
  BY <1>2, <1>3, <1>5, <1>6, <1>7 DEF OfNet
<1> HIDE DEF n
<1>9. ASSUME NEW k \in Nodes(h), Len(h.dst[k]) > 1
      PROVE  \/ Origin(h, k) \in {"kSlice", "kSplit"}
             \/ Origin(h, k) \in Layers /\ IsData(Origin(h, k))
             \/ k \in ToSet(Tail(todo))
  <2>1. CASE k \in Fresh(graph, h)
    BY <1>2, <2>1
  <2>2. CASE k \in Nodes(graph) /\ k # n
    <3>1. h.dst[k] = graph.dst[k]
      BY <1>2, <2>2 DEF n
    <3>2. \/ Origin(graph, k) \in {"kSlice", "kSplit"}
          \/ OfNet(k) /\ IsData(Origin(graph, k))
          \/ k \in ToSet(todo)
      BY <1>9, <2>2, <3>1 DEF Body, FanInv
    <3> QED  BY <1>1, <1>3, <2>2, <3>2 DEF OfNet
  <2>3. CASE k = n
    <3>1. ~ NeedsSplit(graph, n)
      <4>1. ASSUME NeedsSplit(graph, n) PROVE FALSE
        <5>1. Len(h.dst[n]) = 1
          BY <1>2, <4>1 DEF n
        <5> QED  BY <1>9, <2>3, <5>1
      <4> QED  BY <4>1
    <3>2. h.dst[n] = graph.dst[n]
      BY <1>2, <3>1 DEF n
    <3>3. Origin(graph, n) \in {"kSlice", "kSplit"} \/ n = Head(graph.order)
      BY <1>9, <2>3, <3>1, <3>2 DEF NeedsSplit
    <3> QED  BY <1>1, <1>3, <1>5, <2>3, <3>3 DEF OfNet
  <2> QED  BY <2>1, <2>2, <2>3 DEF Fresh
<1>10. \A l : IsData(l)' <=> IsData(l)
  BY <1>7
<1>11. ASSUME NEW k \in Nodes(graph)', Len(graph'.dst[k]) > 1
       PROVE  \/ Origin(graph', k) \in {"kSlice", "kSplit"}
              \/ OfNet(k)' /\ IsData(Origin(h, k))'
              \/ k \in ToSet(todo')
  BY <1>2, <1>9, <1>10, <1>11 DEF OfNet
<1> QED  BY <1>2, <1>8, <1>11 DEF FanInv

\* A split is a detour of all the edges of a node.
LEMMA AddSplitKeeps == IInv /\ AddSplit => IInv'
<1> SUFFICES ASSUME IInv, AddSplit PROVE IInv'
  OBVIOUS
<1>0. PICK n, x : n = Head(todo) /\ x = graph.size + 1
  OBVIOUS
<1>1. /\ phase = "splits" /\ todo # << >> /\ phase' = phase /\ todo' = Tail(todo) /\ walk' = walk
      /\ UNCHANGED <<net, layers, layer2nodes>> /\ UNCHANGED net
      /\ graph' = IF NeedsSplit(graph, n) THEN InsertSplitNode(RemoveEdgesFrom(graph, n), n, graph.dst[n])
                  ELSE graph
      /\ gsize' = gsize
  BY <1>0 DEF AddSplit, net
<1>2. TypeOK /\ NetInv /\ PartsInv /\ IsGraph(graph)
  BY DEF IInv, TypeOK
<1>3. /\ todo \in Seq(Nodes(graph)) /\ walk \in Seq([at : Nodes(graph), left : Seq(Nodes(graph))])
      /\ n \in Nodes(graph) /\ Tail(todo) \in Seq(Nodes(graph))
      /\ IsInjective(todo) => IsInjective(Tail(todo))
  <2>1. todo \in Seq(Nodes(graph)) /\ walk \in Seq([at : Nodes(graph), left : Seq(Nodes(graph))])
    BY <1>1, <1>2 DEF TypeOK, Items
  <2> QED  BY <1>0, <1>1, <2>1, TailList
<1>4. PICK h : h = graph'
  OBVIOUS
<1>5. \/ NeedsSplit(graph, n) /\ SplitOf(graph, h, n, x)
      \/ ~ NeedsSplit(graph, n) /\ h = graph
  BY <1>0, <1>1, <1>2, <1>3, <1>4, SplitFacts
<1>6. /\ IsGraph(h) /\ Extends(graph, h) /\ Nodes(graph) \subseteq Nodes(h)
      /\ \A k \in Fresh(graph, h) : k = x /\ Origin(h, k) = "kSplit"
      /\ graph.order # << >> => h.order # << >> /\ Head(h.order) = Head(graph.order)
      /\ Complete(graph) => Complete(h)
  <2>1. CASE NeedsSplit(graph, n) /\ SplitOf(graph, h, n, x)
    BY <2>1 DEF SplitOf
  <2>2. CASE h = graph
    <3>1. graph.size \in Nat
      BY <1>2, GraphFacts
    <3> QED  BY <1>2, <2>2, <3>1 DEF Extends, Fresh
  <2> QED  BY <1>5, <2>1, <2>2
<1>7. TypeOK' /\ NetInv' /\ PartsInv' /\ (DistinctNames' => DistinctNames)
  <2>1. \A k \in Fresh(graph, h) : Origin(h, k) \in Between
    BY <1>6 DEF Between
  <2> QED  BY <1>1, <1>2, <1>3, <1>4, <1>6, <2>1, GrownTypes
<1>8. ASSUME Sane' PROVE Body'
  <2>1. Body /\ Distinct(graph) /\ Wired(graph) /\ Complete(graph)
    BY <1>1, <1>7, <1>8 DEF IInv, Sane, Early, DistinctNames, Distinct, Body
  <2>2. \A k \in Nodes(graph) : Origin(graph, k) \notin Bridges
    BY <1>1, <2>1 DEF Body, KindsInv
  <2>3. /\ Wired(h) /\ Detour(graph, h, n)
        /\ \A k \in Nodes(graph) : k # n => h.dst[k] = graph.dst[k]
        /\ IF NeedsSplit(graph, n) THEN Len(h.dst[n]) = 1 ELSE h.dst[n] = graph.dst[n]
        /\ \A m \in Nodes(graph) :
             /\ Origin(graph, m) = "kSlice" => h.dst[m] = graph.dst[m]
             /\ \/ h.src[m] = graph.src[m]
                \/ /\ Len(h.src[m]) = Len(graph.src[m]) /\ n \in ToSet(graph.src[m])
                   /\ ToSet(h.src[m]) = (ToSet(graph.src[m]) \ {n}) \cup {x}
                   /\ h.node[x].partition = graph.node[n].partition /\ x \in Fresh(graph, h)
    <3>1. CASE NeedsSplit(graph, n) /\ SplitOf(graph, h, n, x)
      <4>1. Wired(h) /\ \A k \in Nodes(graph) : k # n => h.dst[k] = graph.dst[k]
        BY <2>1, <3>1 DEF SplitOf
      <4>2. Len(h.dst[n]) = 1
        BY <3>1, OneList DEF SplitOf
      <4>3. \A m \in Nodes(graph) :
              \/ h.src[m] = graph.src[m]
              \/ /\ Len(h.src[m]) = Len(graph.src[m]) /\ n \in ToSet(graph.src[m])
                 /\ ToSet(h.src[m]) = (ToSet(graph.src[m]) \ {n}) \cup {x}
                 /\ h.node[x].partition = graph.node[n].partition /\ x \in Fresh(graph, h)
        BY <2>1, <3>1 DEF SplitOf
      <4>4. Detour(graph, h, n)
        <5> DEFINE lv == [k \in {x} |-> 1]
        <5>1. ToSet(h.src[x]) = {n} /\ lv[x] \in 1 .. 2 /\ Fresh(graph, h) = {x}
          <6>1. h.src[x] = <<n>> /\ Fresh(graph, h) = {x}
            BY <3>1 DEF SplitOf
          <6>2. lv[x] = 1 /\ ToSet(<<n>>) = {n}
            BY OneList
          <6> QED  BY <6>1, <6>2
        <5>2. \E f : \A k \in Fresh(graph, h) :
                 /\ f[k] \in 1 .. 2
                 /\ \E m : /\ ToSet(h.src[k]) = {m}
                           /\ m = n \/ (m \in Fresh(graph, h) /\ f[m] < f[k])
          <6> HIDE DEF lv
          <6> QED  BY <5>1
        <5>3. \A k \in Fresh(graph, h) : Origin(h, k) \in Between
          BY <1>6 DEF Between
        <5> QED  BY <1>6, <4>3, <5>2, <5>3 DEF Detour
      <4>5. \A m \in Nodes(graph) : Origin(graph, m) = "kSlice" => h.dst[m] = graph.dst[m]
        BY <3>1, <4>1 DEF NeedsSplit
      <4> QED  BY <3>1, <4>1, <4>2, <4>3, <4>4, <4>5
    <3>2. CASE ~ NeedsSplit(graph, n) /\ h = graph
      <4>1. Fresh(graph, h) = {}
        BY <3>2 DEF Fresh
      <4>2. Detour(graph, h, n)
        BY <1>6, <3>2, <4>1 DEF Detour
      <4> QED  BY <2>1, <3>2, <4>2
    <3> QED  BY <1>5, <3>1, <3>2
  <2>4. Detour(graph, graph', n) /\ Wired(graph)' /\ Complete(graph)'
    BY <1>4, <1>6, <2>1, <2>3
  <2>5. phase \in {"splits", "bridges"} /\ phase' \notin Early
    BY <1>1 DEF Early
  <2>6. Ranked' /\ Fed'
    BY <1>1, <1>2, <1>3, <2>1, <2>4, <2>5, DetourRanked, DetourFed
  <2>7. \A k \in Fresh(graph, graph') : Origin(graph', k) = "kSplit"
    BY <1>4, <1>6
  <2>8. KindsInv'
    BY <1>1, <1>2, <1>3, <2>1, <2>4, <2>5, <2>7, DetourKinds DEF Bridges
  <2>9. LoopInv'
    BY <1>1, <1>3, <2>1 DEF Body, LoopInv
  <2>10. FanInv'
    BY <1>0, <1>1, <1>2, <1>4, <1>6, <2>1, <2>3, <2>7, FanLessened
  <2>11. PieceInv'
    <3>1. \A k \in Nodes(h) : Origin(h, k) \notin Bridges
      BY <1>6, <2>2 DEF Fresh, Bridges, Extends, Origin
    <3>2. /\ \A k \in Nodes(graph) : Past(k) = k
          /\ \A k \in Nodes(h) : Past(k)' = k
      BY <1>4, <2>2, <3>1 DEF Past, Bridges
    <3>3. \A k \in Nodes(graph) : graph'.node[Past(k)'].partition = graph.node[Past(k)].partition
      BY <1>4, <1>6, <3>2 DEF Extends
    <3>4. ASSUME NEW m \in Nodes(graph)
          PROVE  /\ Origin(graph, m) = "kSlice" => Replaced(graph.dst[m], graph'.dst[m])
                 /\ Origin(graph, m) = "kConcate" => Replaced(graph.src[m], graph'.src[m])
      <4>1. Origin(graph, m) = "kSlice" => Replaced(graph.dst[m], h.dst[m])
        BY <2>3 DEF Replaced
      <4>2. Replaced(graph.src[m], h.src[m])
        <5>1. CASE h.src[m] = graph.src[m]
          BY <5>1 DEF Replaced
        <5>2. CASE h.src[m] # graph.src[m]
          <6>1. /\ Len(h.src[m]) = Len(graph.src[m]) /\ n \in ToSet(graph.src[m])
                /\ ToSet(h.src[m]) = (ToSet(graph.src[m]) \ {n}) \cup {x}
                /\ h.node[x].partition = graph.node[n].partition /\ x \in Fresh(graph, h)
            BY <2>3, <5>2
          <6>2. Past(x)' = x /\ Past(n) = n
            BY <1>3, <3>2, <6>1 DEF Fresh
          <6>3. graph'.node[Past(x)'].partition = graph.node[Past(n)].partition
            BY <1>4, <6>1, <6>2
          <6>4. x \in ToSet(h.src[m])
            BY <6>1
          <6> QED  BY <6>1, <6>3, <6>4 DEF Replaced
        <5> QED  BY <5>1, <5>2
      <4> QED  BY <1>4, <4>1, <4>2
    <3>5. \A m \in Nodes(graph) : /\ Origin(graph, m) # "kBridgeSrc" /\ Origin(graph, m) # "kBridgeDst"
      BY <2>2 DEF Bridges
    <3> QED  BY <1>1, <1>2, <1>4, <1>6, <2>1, <2>7, <3>3, <3>4, <3>5, PieceKept
  <2>12. BorderInv' /\ SortInv' /\ DoneInv'
    BY <1>1 DEF BorderInv, SortInv, DoneInv, Sorting, Done
  <2> QED  BY <2>4, <2>6, <2>8, <2>9, <2>10, <2>11, <2>12 DEF Body
<1> QED  BY <1>7, <1>8 DEF IInv

\* The edge from a to b is gone.
EdgeCut(g, r, a, b) ==
  /\ SameNodes(g, r)
  /\ \A k \in Nodes(g) : /\ k # a => r.dst[k] = g.dst[k]
                         /\ k # b => r.src[k] = g.src[k]
  /\ Distinct(g) /\ Wired(g) /\ b \in ToSet(g.dst[a]) =>
       /\ Wired(r)
       /\ ToSet(r.dst[a]) = ToSet(g.dst[a]) \ {b} /\ Len(g.dst[a]) = Len(r.dst[a]) + 1
       /\ ToSet(r.src[b]) = ToSet(g.src[b]) \ {a} /\ Len(g.src[b]) = Len(r.src[b]) + 1

\* RemoveEdge removes the one edge.
LEMMA EdgeCutFacts ==
  ASSUME NEW g, IsGraph(g), NEW a \in Nodes(g), NEW b \in Nodes(g)
  PROVE  EdgeCut(g, RemoveEdge(g, a, b), a, b)
<1> DEFINE r == RemoveEdge(g, a, b)  da == Without(g, g.dst[a], b)  sb == Without(g, g.src[b], a)
<1>1. /\ r.size = g.size /\ r.node = g.node /\ r.order = g.order /\ Nodes(r) = Nodes(g)
      /\ r.dst = [g.dst EXCEPT ![a] = da] /\ r.src = [g.src EXCEPT ![b] = sb]
      /\ r = [size |-> r.size, node |-> r.node, dst |-> r.dst, src |-> r.src, order |-> r.order]
  <2>1. r = [g EXCEPT !.dst = [g.dst EXCEPT ![a] = da], !.src = [g.src EXCEPT ![b] = sb]]
    BY DEF RemoveEdge, IsGraph
  <2> HIDE DEF da, sb
  <2> QED  BY <2>1 DEF IsGraph, Nodes
<1> HIDE DEF r
<1>2. /\ g.size \in Nat /\ g.dst \in [Nodes(g) -> Seq(Nodes(g))] /\ g.src \in [Nodes(g) -> Seq(Nodes(g))]
  BY DEF IsGraph
<1>3. g.dst[a] \in Seq(Nodes(g)) /\ g.src[b] \in Seq(Nodes(g))
  BY <1>2
<1>4. da \in Seq(Nodes(g)) /\ sb \in Seq(Nodes(g))
  BY <1>2, <1>3, WithoutOne
<1>5. ASSUME Distinct(g), Wired(g), b \in ToSet(g.dst[a])
      PROVE  /\ ToSet(da) = ToSet(g.dst[a]) \ {b} /\ IsInjective(da) /\ Len(g.dst[a]) = Len(da) + 1
             /\ ToSet(sb) = ToSet(g.src[b]) \ {a} /\ IsInjective(sb) /\ Len(g.src[b]) = Len(sb) + 1
  <2>1. a \in ToSet(g.src[b]) /\ IsInjective(g.dst[a]) /\ IsInjective(g.src[b])
    BY <1>5 DEF Wired
  <2>4. g.size \in Nat /\ Distinct(g) /\ g.dst[a] \in Seq(Nodes(g)) /\ g.src[b] \in Seq(Nodes(g))
    BY <1>2, <1>3, <1>5
  <2>5. b \in ToSet(g.dst[a])
    BY <1>5
  <2>2. /\ ToSet(da) = ToSet(g.dst[a]) \ {b} /\ IsInjective(da) /\ Len(g.dst[a]) = Len(da) + 1
    <3>1. /\ ToSet(Without(g, g.dst[a], b)) = ToSet(g.dst[a]) \ {b}
          /\ IsInjective(Without(g, g.dst[a], b))
          /\ Len(g.dst[a]) = Len(Without(g, g.dst[a], b)) + 1
      BY <2>1, <2>4, <2>5, WithoutOne
    <3> QED  BY <3>1
  <2>3. /\ ToSet(sb) = ToSet(g.src[b]) \ {a} /\ IsInjective(sb) /\ Len(g.src[b]) = Len(sb) + 1
    <3>1. /\ ToSet(Without(g, g.src[b], a)) = ToSet(g.src[b]) \ {a}
          /\ IsInjective(Without(g, g.src[b], a))
          /\ Len(g.src[b]) = Len(Without(g, g.src[b], a)) + 1
      BY <2>1, <2>4, WithoutOne
    <3> QED  BY <3>1
  <2> QED  BY <2>2, <2>3
<1> HIDE DEF da, sb
<1>6. /\ r.dst \in [Nodes(g) -> Seq(Nodes(g))] /\ r.src \in [Nodes(g) -> Seq(Nodes(g))]
      /\ r.dst[a] = da /\ r.src[b] = sb
      /\ \A k \in Nodes(g) : /\ k # a => r.dst[k] = g.dst[k]
                             /\ k # b => r.src[k] = g.src[k]
  BY <1>1, <1>2, <1>4
<1>7. SameNodes(g, r)
  <2>1. IsGraph(r)
    BY <1>1, <1>6 DEF IsGraph, Origin
  <2> QED  BY <1>1, <2>1 DEF SameNodes
<1>8. ASSUME Distinct(g), Wired(g), b \in ToSet(g.dst[a]) PROVE Wired(r)
  <2>1. \A k \in Nodes(g) : IsInjective(r.dst[k]) /\ IsInjective(r.src[k])
    <3> TAKE k \in Nodes(g)
    <3>1. IsInjective(r.dst[k])
      BY <1>5, <1>6, <1>8 DEF Wired
    <3>2. IsInjective(r.src[k])
      BY <1>5, <1>6, <1>8 DEF Wired
    <3> QED  BY <3>1, <3>2
  <2>2. ASSUME NEW u \in Nodes(g), NEW v \in Nodes(g)
        PROVE  v \in ToSet(r.dst[u]) <=> u \in ToSet(r.src[v])
    <3>1. v \in ToSet(g.dst[u]) <=> u \in ToSet(g.src[v])
      BY <1>8 DEF Wired
    <3>2. v \in ToSet(r.dst[u]) <=> v \in ToSet(g.dst[u]) /\ ~ (u = a /\ v = b)
      BY <1>5, <1>6, <1>8
    <3>3. u \in ToSet(r.src[v]) <=> u \in ToSet(g.src[v]) /\ ~ (u = a /\ v = b)
      BY <1>5, <1>6, <1>8
    <3> QED  BY <3>1, <3>2, <3>3
  <2> QED  BY <1>1, <2>1, <2>2 DEF Wired
<1> QED  BY <1>5, <1>6, <1>7, <1>8 DEF EdgeCut, r

\* The list of three.
LEMMA ThreeList ==
  ASSUME NEW S, NEW a \in S, NEW b \in S, NEW c \in S, NEW s, s = <<a, b, c>>
  PROVE  /\ s \in Seq(S) /\ Len(s) = 3 /\ s[1] = a /\ s[2] = b /\ s[3] = c
         /\ ToSet(s) = {a, b, c}
         /\ a # b /\ a # c /\ b # c => IsInjective(s)
<1>1. s \in Seq(S) /\ Len(s) = 3 /\ s[1] = a /\ s[2] = b /\ s[3] = c
  OBVIOUS
<1>2. DOMAIN s = 1 .. 3 /\ \A i \in 1 .. 3 : i = 1 \/ i = 2 \/ i = 3
  OBVIOUS
<1>3. ToSet(s) = {a, b, c}
  BY <1>1, <1>2 DEF ToSet
<1>4. a # b /\ a # c /\ b # c => IsInjective(s)
  BY <1>1, <1>2 DEF IsInjective
<1> QED  BY <1>1, <1>3, <1>4

\* Two bridges, x beside n and y beside d, are on the way from n to d.
BridgeOf(g, h, n, d, x, y) ==
  /\ IsGraph(h) /\ Extends(g, h) /\ Nodes(g) \subseteq Nodes(h)
  /\ Fresh(g, h) = {x, y} /\ x # y /\ x \notin Nodes(g) /\ y \notin Nodes(g)
  /\ Nodes(h) = Nodes(g) \cup {x, y}
  /\ Origin(h, x) = "kBridgeSrc" /\ Origin(h, y) = "kBridgeDst"
  /\ h.node[x].partition = g.node[n].partition /\ h.node[x].location = g.node[n].location
  /\ h.node[y].partition = g.node[d].partition /\ h.node[y].location = g.node[d].location
  /\ h.src[x] = <<n>> /\ h.dst[x] = <<y>> /\ h.src[y] = <<x>> /\ h.dst[y] = <<d>>
  /\ \A k \in Nodes(g) : /\ k # n => h.dst[k] = g.dst[k]
                         /\ k # d => h.src[k] = g.src[k]
  /\ Complete(g) => Complete(h)
  /\ Distinct(g) /\ Wired(g) /\ d \in ToSet(g.dst[n]) =>
       /\ Wired(h)
       /\ ToSet(h.dst[n]) = (ToSet(g.dst[n]) \ {d}) \cup {x} /\ Len(h.dst[n]) = Len(g.dst[n])
       /\ ToSet(h.src[d]) = (ToSet(g.src[d]) \ {n}) \cup {y} /\ Len(h.src[d]) = Len(g.src[d])

\* What InsertBridgeNode makes of the edge that was removed.
LEMMA BridgeFacts ==
  ASSUME NEW g, IsGraph(g), NEW n \in Nodes(g), NEW d \in Nodes(g)
  PROVE  BridgeOf(g, InsertBridgeNode(RemoveEdge(g, n, d), n, d), n, d, g.size + 1, g.size + 2)
<1> DEFINE r == RemoveEdge(g, n, d)
           i1 == Beside(r, n, <<"s", Name(r, n), Name(r, d)>>, "kBridgeSrc")
           i2 == Beside(r, d, <<"d", Name(r, n), Name(r, d)>>, "kBridgeDst")
           h0 == AddNodes(r, 2, <<i1, i2>>)
           x == g.size + 1
           y == g.size + 2
           as == <<n, x, y>>
           bs == <<x, y, d>>
           h == Match(h0, as, bs)
<1>1. EdgeCut(g, r, n, d)
  BY EdgeCutFacts
<1>2. r.size = g.size
  BY <1>1 DEF EdgeCut, SameNodes
<1>3. h = InsertBridgeNode(r, n, d)
  BY <1>2 DEF InsertBridgeNode
<1> HIDE DEF r
<1>4. /\ IsGraph(r) /\ r.node = g.node /\ r.order = g.order /\ Nodes(r) = Nodes(g) /\ g.size \in Nat
  BY <1>1, GraphFacts DEF EdgeCut, SameNodes, Nodes
<1>5. /\ IsInfo(i1) /\ i1.origin = "kBridgeSrc"
      /\ i1.partition = g.node[n].partition /\ i1.location = g.node[n].location
      /\ IsInfo(i2) /\ i2.origin = "kBridgeDst"
      /\ i2.partition = g.node[d].partition /\ i2.location = g.node[d].location
  <2>1. IsInfo(g.node[n]) /\ IsInfo(g.node[d])
    BY GraphFacts
  <2> QED  BY <1>4, <2>1 DEF Beside, IsInfo, Between
<1> HIDE DEF i1, i2
<1>6. /\ \A i \in 1 .. 2 : IsInfo(<<i1, i2>>[i])
      /\ <<i1, i2>>[1] = i1 /\ <<i1, i2>>[2] = i2 /\ 2 \in Nat
  BY <1>5
<1>7. NodesAdded(r, h0, 2, <<i1, i2>>)
  BY <1>4, <1>6, AddNodesFacts
<1> HIDE DEF h0
<1>8. /\ IsGraph(h0) /\ h0.size = g.size + 2 /\ Extends(r, h0) /\ Nodes(g) \subseteq Nodes(h0)
      /\ \A k \in Nodes(g) : h0.dst[k] = r.dst[k] /\ h0.src[k] = r.src[k]
      /\ x \in Nodes(h0) /\ x \notin Nodes(g) /\ h0.node[x] = i1
      /\ h0.dst[x] = << >> /\ h0.src[x] = << >>
      /\ y \in Nodes(h0) /\ y \notin Nodes(g) /\ h0.node[y] = i2
      /\ h0.dst[y] = << >> /\ h0.src[y] = << >>
      /\ \A k \in Nodes(h0) : k \in Nodes(g) \/ k = x \/ k = y
      /\ Complete(r) => Complete(h0)
      /\ Wired(r) => Wired(h0)
  <2>1. 1 \in 1 .. 2 /\ 2 \in 1 .. 2 /\ \A i \in 1 .. 2 : i = 1 \/ i = 2
    OBVIOUS
  <2>2. \A k \in Nodes(h0) \ Nodes(g) : k = x \/ k = y
    BY <1>2, <1>4, <1>7, <2>1 DEF NodesAdded
  <2> QED  BY <1>2, <1>4, <1>6, <1>7, <2>1, <2>2 DEF NodesAdded
<1>9. x # y /\ n # x /\ n # y /\ d # x /\ d # y /\ n \in Nodes(h0) /\ d \in Nodes(h0)
  <2>1. x # y
    BY <1>4
  <2> QED  BY <1>8, <2>1
<1> HIDE DEF x, y
<1>10. /\ as \in Seq(Nodes(h0)) /\ Len(as) = 3 /\ as[1] = n /\ as[2] = x /\ as[3] = y
       /\ ToSet(as) = {n, x, y} /\ IsInjective(as)
  BY <1>8, <1>9, ThreeList
<1>11. /\ bs \in Seq(Nodes(h0)) /\ Len(bs) = 3 /\ bs[1] = x /\ bs[2] = y /\ bs[3] = d
       /\ ToSet(bs) = {x, y, d} /\ IsInjective(bs)
  BY <1>8, <1>9, ThreeList
<1> HIDE DEF as, bs, h
<1>12. \A i \in 1 .. 3 : i = 1 \/ i = 2 \/ i = 3
  OBVIOUS
<1>14. Matches(h0, h, as, bs)
  BY <1>8, <1>10, <1>11, MatchFacts DEF h
<1>15. /\ IsGraph(h) /\ h.size = h0.size /\ h.node = h0.node /\ h.order = h0.order
       /\ Nodes(h) = Nodes(h0)
  BY <1>14 DEF Matches, SameNodes, Nodes
<1>16. /\ h.dst[n] = r.dst[n] \o <<x>> /\ ToSet(h.dst[n]) = ToSet(r.dst[n]) \cup {x}
       /\ h.src[x] = <<n>> /\ h.dst[x] = <<y>> /\ h.src[y] = <<x>> /\ h.dst[y] = <<d>>
       /\ h.src[d] = r.src[d] \o <<y>> /\ ToSet(h.src[d]) = ToSet(r.src[d]) \cup {y}
  <2> DEFINE M(i) ==
        /\ ToSet(h.dst[as[i]]) = ToSet(h0.dst[as[i]]) \cup {bs[i]}
        /\ h.dst[as[i]] = h0.dst[as[i]] \o <<bs[i]>>
        /\ h0.dst[as[i]] = << >> => h.dst[as[i]] = <<bs[i]>>
        /\ ToSet(h.src[bs[i]]) = ToSet(h0.src[bs[i]]) \cup {as[i]}
        /\ h.src[bs[i]] = h0.src[bs[i]] \o <<as[i]>>
        /\ h0.src[bs[i]] = << >> => h.src[bs[i]] = <<as[i]>>
  <2>1. \A i \in 1 .. 3 : M(i)
    BY <1>10, <1>14 DEF Matches
  <2> HIDE DEF M
  <2>2. M(1) /\ M(2) /\ M(3)
    BY <2>1
  <2>3. h.dst[n] = h0.dst[n] \o <<x>> /\ ToSet(h.dst[n]) = ToSet(h0.dst[n]) \cup {x} /\ h.src[x] = <<n>>
    <3>1. h0.src[x] = << >> /\ as[1] = n /\ bs[1] = x
      BY <1>8, <1>10, <1>11
    <3> QED  BY <2>2, <3>1, Zenon DEF M
  <2>4. h.dst[x] = <<y>> /\ h.src[y] = <<x>>
    <3>1. h0.dst[x] = << >> /\ h0.src[y] = << >> /\ as[2] = x /\ bs[2] = y
      BY <1>8, <1>10, <1>11
    <3> QED  BY <2>2, <3>1, Zenon DEF M
  <2>5. h.dst[y] = <<d>> /\ h.src[d] = h0.src[d] \o <<y>> /\ ToSet(h.src[d]) = ToSet(h0.src[d]) \cup {y}
    <3>1. h0.dst[y] = << >> /\ as[3] = y /\ bs[3] = d
      BY <1>8, <1>10, <1>11
    <3> QED  BY <2>2, <3>1, Zenon DEF M
  <2>6. h0.dst[n] = r.dst[n] /\ h0.src[d] = r.src[d]
    BY <1>8
  <2> QED  BY <2>3, <2>4, <2>5, <2>6, Zenon
<1>17. \A k \in Nodes(g) : /\ k # n => h.dst[k] = g.dst[k]
                           /\ k # d => h.src[k] = g.src[k]
  <2> TAKE k \in Nodes(g)
  <2>1. k \in Nodes(h0) /\ k # x /\ k # y
    BY <1>8
  <2>2. /\ k # n => h.dst[k] = h0.dst[k]
        /\ k # d => h.src[k] = h0.src[k]
    BY <1>10, <1>11, <1>14, <2>1 DEF Matches
  <2> QED  BY <1>1, <1>8, <2>2 DEF EdgeCut
<1>18. /\ Extends(g, h) /\ Fresh(g, h) = {x, y} /\ Nodes(h) = Nodes(g) \cup {x, y}
       /\ Complete(g) => Complete(h)
  <2>1. Extends(g, h)
    BY <1>2, <1>4, <1>8, <1>15 DEF Extends
  <2>2. Fresh(g, h) = {x, y} /\ Nodes(h) = Nodes(g) \cup {x, y}
    BY <1>8, <1>15 DEF Fresh
  <2>3. Complete(g) => Complete(h)
    BY <1>4, <1>8, <1>15 DEF Complete
  <2> QED  BY <2>1, <2>2, <2>3
<1>19. /\ Origin(h, x) = "kBridgeSrc" /\ Origin(h, y) = "kBridgeDst"
       /\ h.node[x].partition = g.node[n].partition /\ h.node[x].location = g.node[n].location
       /\ h.node[y].partition = g.node[d].partition /\ h.node[y].location = g.node[d].location
  BY <1>5, <1>8, <1>15 DEF Origin
<1>20. ASSUME Distinct(g), Wired(g), d \in ToSet(g.dst[n])
       PROVE  /\ Wired(h)
              /\ ToSet(h.dst[n]) = (ToSet(g.dst[n]) \ {d}) \cup {x} /\ Len(h.dst[n]) = Len(g.dst[n])
              /\ ToSet(h.src[d]) = (ToSet(g.src[d]) \ {n}) \cup {y} /\ Len(h.src[d]) = Len(g.src[d])
  <2>1. /\ Wired(r)
        /\ ToSet(r.dst[n]) = ToSet(g.dst[n]) \ {d} /\ Len(g.dst[n]) = Len(r.dst[n]) + 1
        /\ ToSet(r.src[d]) = ToSet(g.src[d]) \ {n} /\ Len(g.src[d]) = Len(r.src[d]) + 1
    BY <1>1, <1>20 DEF EdgeCut
  <2>2. r.dst[n] \in Seq(Nodes(g)) /\ r.src[d] \in Seq(Nodes(g)) /\ ToSet(r.dst[n]) \subseteq Nodes(g)
    BY <1>4, GraphFacts, ListFacts
  <2>3. Wired(h)
    <3>1. \A i \in 1 .. Len(as) : bs[i] \notin ToSet(h0.dst[as[i]])
      <4>1. ToSet(<< >>) = {} /\ x \notin ToSet(h0.dst[n])
        BY <1>8, <2>2, NoList
      <4>2. /\ bs[1] \notin ToSet(h0.dst[as[1]]) /\ bs[2] \notin ToSet(h0.dst[as[2]])
            /\ bs[3] \notin ToSet(h0.dst[as[3]])
        BY <1>8, <1>10, <1>11, <4>1
      <4> QED  BY <1>10, <1>12, <4>2
    <3> QED  BY <1>8, <1>14, <2>1, <3>1 DEF Matches
  <2>4. Len(r.dst[n] \o <<x>>) = Len(r.dst[n]) + 1 /\ Len(r.src[d] \o <<y>>) = Len(r.src[d]) + 1
    <3>1. /\ r.dst[n] \in Seq(Nodes(h0)) /\ r.src[d] \in Seq(Nodes(h0))
          /\ <<x>> \in Seq(Nodes(h0)) /\ Len(<<x>>) = 1 /\ <<y>> \in Seq(Nodes(h0)) /\ Len(<<y>>) = 1
      BY <1>8, <2>2, ListOver, OneList
    <3>2. Len(r.dst[n] \o <<x>>) = Len(r.dst[n]) + 1
      BY <3>1, JoinedList
    <3>3. Len(r.src[d] \o <<y>>) = Len(r.src[d]) + 1
      BY <3>1, JoinedList
    <3> QED  BY <3>2, <3>3
  <2> QED  BY <1>16, <2>1, <2>3, <2>4
<1> QED  BY <1>3, <1>8, <1>9, <1>15, <1>16, <1>17, <1>18, <1>19, <1>20 DEF BridgeOf, r, x, y

\* The edge from n to d as AddBridge leaves it.
Bridging(g, h, n, d, x, y) ==
  \/ Apart(g, n, d) /\ BridgeOf(g, h, n, d, x, y)
  \/ ~ Apart(g, n, d) /\ h = g

\* Bridges come to the nodes there are, which stay.
LEMMA BridgingGrows ==
  ASSUME NEW g, IsGraph(g), NEW h, NEW n, NEW d, NEW x, NEW y, Bridging(g, h, n, d, x, y)
  PROVE  /\ IsGraph(h) /\ Extends(g, h) /\ Nodes(g) \subseteq Nodes(h)
         /\ Complete(g) => Complete(h)
         /\ \A k \in Nodes(g) : /\ k # n => h.dst[k] = g.dst[k]
                                /\ k # d => h.src[k] = g.src[k]
                                /\ h.node[k] = g.node[k] /\ Origin(h, k) = Origin(g, k)
         /\ \A k \in Fresh(g, h) : /\ Origin(h, k) \in Bridges /\ Len(h.dst[k]) = 1
                                   /\ h.dst[k] # << >> /\ h.src[k] # << >>
<1>1. CASE BridgeOf(g, h, n, d, x, y)
  <2>1. h.src[x] = <<n>> /\ h.dst[x] = <<y>> /\ h.src[y] = <<x>> /\ h.dst[y] = <<d>>
    BY <1>1 DEF BridgeOf
  <2>2. \A z : Len(<<z>>) = 1 /\ <<z>> # << >>
    OBVIOUS
  <2>3. \A k \in Fresh(g, h) : /\ Origin(h, k) \in Bridges /\ Len(h.dst[k]) = 1
                               /\ h.dst[k] # << >> /\ h.src[k] # << >>
    <3>1. /\ Len(h.dst[x]) = 1 /\ h.dst[x] # << >> /\ h.src[x] # << >>
          /\ Len(h.dst[y]) = 1 /\ h.dst[y] # << >> /\ h.src[y] # << >>
      BY <2>1, <2>2, Zenon
    <3>2. Fresh(g, h) = {x, y} /\ Origin(h, x) \in Bridges /\ Origin(h, y) \in Bridges
      BY <1>1 DEF BridgeOf, Bridges
    <3> QED  BY <3>1, <3>2
  <2> QED  BY <1>1, <2>3 DEF BridgeOf, Extends, Origin
<1>2. CASE h = g
  <2>1. g.size \in Nat
    BY GraphFacts
  <2> QED  BY <1>2, <2>1 DEF Extends, Fresh
<1> QED  BY <1>1, <1>2 DEF Bridging

\* A pair of bridges is a detour of one edge.
LEMMA BridgingDetour ==
  ASSUME NEW g, IsGraph(g), Distinct(g), Wired(g), NEW h, NEW n \in Nodes(g), NEW d \in ToSet(g.dst[n]),
         NEW x, NEW y, Bridging(g, h, n, d, x, y)
  PROVE  /\ Detour(g, h, n) /\ Wired(h) /\ Len(h.dst[n]) = Len(g.dst[n])
<1>1. d \in Nodes(g) /\ n \in ToSet(g.src[d])
  <2>1. d \in Nodes(g)
    BY GraphFacts, ListFacts
  <2> QED  BY <2>1 DEF Wired
<1>2. CASE BridgeOf(g, h, n, d, x, y)
  <2>1. /\ Wired(h) /\ Len(h.dst[n]) = Len(g.dst[n])
        /\ ToSet(h.src[d]) = (ToSet(g.src[d]) \ {n}) \cup {y}
        /\ Fresh(g, h) = {x, y} /\ x # y
        /\ h.src[x] = <<n>> /\ h.src[y] = <<x>>
        /\ \A k \in Nodes(g) : k # d => h.src[k] = g.src[k]
        /\ IsGraph(h) /\ Extends(g, h) /\ Nodes(g) \subseteq Nodes(h)
    BY <1>2 DEF BridgeOf
  <2>2. \A z : ToSet(<<z>>) = {z}
    BY OneList
  <2>3. PICK lv : lv[x] = 1 /\ lv[y] = 2
    <3>1. LET lv == [k \in {x, y} |-> IF k = x THEN 1 ELSE 2] IN lv[x] = 1 /\ lv[y] = 2
      BY <2>1
    <3> QED  BY <3>1
  <2>4. \A k \in Fresh(g, h) :
          /\ lv[k] \in 1 .. 2
          /\ \E m : /\ ToSet(h.src[k]) = {m}
                    /\ m = n \/ (m \in Fresh(g, h) /\ lv[m] < lv[k])
    <3>1. ToSet(h.src[x]) = {n} /\ ToSet(h.src[y]) = {x}
      BY <2>1, <2>2
    <3>2. x \in Fresh(g, h) /\ lv[x] < lv[y] /\ lv[x] \in 1 .. 2 /\ lv[y] \in 1 .. 2
      BY <2>1, <2>3
    <3> QED  BY <2>1, <3>1, <3>2
  <2>5. \A k \in Fresh(g, h) : Origin(h, k) \in Between
    BY <1>2, BridgingGrows DEF BridgeOf, Between
  <2>6. y \in Fresh(g, h)
    BY <2>1
  <2>7. \A k \in Nodes(g) :
          \/ h.src[k] = g.src[k]
          \/ /\ n \in ToSet(g.src[k])
             /\ \E z \in Fresh(g, h) : ToSet(h.src[k]) = (ToSet(g.src[k]) \ {n}) \cup {z}
    BY <1>1, <2>1, <2>6
  <2> QED  BY <2>1, <2>4, <2>5, <2>7 DEF Detour
<1>3. CASE h = g
  <2>1. Fresh(g, h) = {} /\ Extends(g, h)
    BY <1>3, GraphFacts DEF Fresh, Extends
  <2> QED  BY <1>3, <2>1 DEF Detour
<1> QED  BY <1>2, <1>3 DEF Bridging

\* What is known of the edge whose turn it is.
LEMMA BridgeTurn ==
  ASSUME TypeOK, Body, NEW n \in Nodes(graph), NEW d \in Nodes(graph), phase = "bridges", Turn(n, d)
  PROVE  /\ walk # << >> /\ walk[1].at = n /\ walk' # << >> /\ walk'[1].at = n
         /\ walk' \in Seq([at : Nodes(graph), left : Seq(Nodes(graph))])
         /\ IsInjective(todo) /\ n \notin ToSet(todo) /\ IsInjective(walk'[1].left)
         /\ ToSet(walk[1].left) = {d} \cup ToSet(walk'[1].left) /\ d \notin ToSet(walk'[1].left)
         /\ ToSet(walk[1].left) \subseteq ToSet(graph.dst[n])
         /\ d \in ToSet(graph.dst[n])
         /\ Origin(graph, n) \notin Bridges /\ Origin(graph, d) \notin Bridges
<1>1. walk \in Seq([at : Nodes(graph), left : Seq(Nodes(graph))])
  BY DEF TypeOK, Items
<1>2. /\ walk # << >> /\ walk[1].at = n /\ n \in Nodes(graph) /\ d \in Nodes(graph)
      /\ walk[1].left \in Seq(Nodes(graph)) /\ walk[1].left # << >> /\ Head(walk[1].left) = d
      /\ walk' \in Seq([at : Nodes(graph), left : Seq(Nodes(graph))]) /\ walk' # << >>
      /\ walk'[1].at = n /\ walk'[1].left = Tail(walk[1].left)
  BY <1>1, TurnFrame
<1>3. IsInjective(todo) /\ IsInjective(walk[1].left) /\ walk[1].at \notin ToSet(todo)
  BY <1>2 DEF Body, LoopInv
<1>4. /\ ToSet(walk[1].left) = {d} \cup ToSet(Tail(walk[1].left))
      /\ IsInjective(Tail(walk[1].left)) /\ d \notin ToSet(Tail(walk[1].left))
  BY <1>2, <1>3, TailList
<1>5. /\ Origin(graph, walk[1].at) \notin Bridges
      /\ ToSet(walk[1].left) \subseteq ToSet(graph.dst[walk[1].at])
      /\ \A k \in ToSet(walk[1].left) : Origin(graph, k) \notin Bridges
  BY <1>2 DEF Body, BorderInv
<1>6. d \in ToSet(walk[1].left)
  BY <1>4
<1> QED  BY <1>2, <1>3, <1>4, <1>5, <1>6

\* Every edge between two locations is bridged or its turn is to come.
LEMMA BridgeBorder ==
  ASSUME TypeOK, Body, NEW n \in Nodes(graph), NEW d \in Nodes(graph), phase = "bridges", Turn(n, d),
         NEW x, NEW y, Bridging(graph, graph', n, d, x, y), Distinct(graph)
  PROVE  BorderInv'
<1>1. PICK g, h : g = graph /\ h = graph'
  OBVIOUS
<1>2. PICK left, rest : left = walk[1].left /\ rest = walk'[1].left
  OBVIOUS
<1>3. /\ walk # << >> /\ walk[1].at = n /\ walk' # << >> /\ walk'[1].at = n
      /\ n \notin ToSet(todo)
      /\ ToSet(left) = {d} \cup ToSet(rest) /\ d \notin ToSet(rest)
      /\ ToSet(left) \subseteq ToSet(g.dst[n]) /\ d \in ToSet(g.dst[n])
      /\ Origin(g, n) \notin Bridges /\ Origin(g, d) \notin Bridges
  BY <1>1, <1>2, BridgeTurn
<1>4. phase' = "bridges" /\ todo' = todo /\ IsGraph(g) /\ n \in Nodes(g) /\ d \in Nodes(g)
      /\ Wired(g) /\ Distinct(g) /\ Bridging(g, h, n, d, x, y) /\ todo \in Seq(Nodes(g))
  BY <1>1 DEF Turn, TypeOK, Body, Items
<1>5. \A k \in Nodes(g) : /\ k # n => h.dst[k] = g.dst[k]
                          /\ h.node[k] = g.node[k] /\ Origin(h, k) = Origin(g, k)
  BY <1>4, BridgingGrows
<1>6. \A k \in Nodes(g) : ToSet(g.dst[k]) \subseteq Nodes(g)
  BY <1>4, GraphFacts, ListFacts
<1>7. \A u, v : Unbridged(u, v) <=> u \in ToSet(todo) \/ (u = n /\ v \in ToSet(left))
  BY <1>2, <1>3 DEF Unbridged
<1>8. \A u, v : Unbridged(u, v)' <=> u \in ToSet(todo) \/ (u = n /\ v \in ToSet(rest))
  BY <1>2, <1>3, <1>4 DEF Unbridged
<1>9. \A u \in Nodes(g) : \A v \in ToSet(g.dst[u]) :
        /\ Pair(g, u, v) => Apart(g, u, v)
        /\ Apart(g, u, v) => Pair(g, u, v) \/ Unbridged(u, v)
  BY <1>1 DEF Body, BorderInv
<1>10. \A u, v \in Nodes(g) : (Pair(h, u, v) <=> Pair(g, u, v)) /\ (Apart(h, u, v) <=> Apart(g, u, v))
  BY <1>5 DEF Pair, Apart
\* The old edges but the one whose turn it is.
<1>11. ASSUME NEW u \in Nodes(g), NEW v \in ToSet(g.dst[u]), ~ (u = n /\ v = d)
       PROVE  /\ Pair(h, u, v) => Apart(h, u, v)
              /\ Apart(h, u, v) => Pair(h, u, v) \/ Unbridged(u, v)'
  <2>1. v \in Nodes(g)
    BY <1>6
  <2>2. Unbridged(u, v) => Unbridged(u, v)'
    BY <1>3, <1>7, <1>8, <1>11
  <2> QED  BY <1>9, <1>10, <2>1, <2>2
<1>12. ASSUME NEW u \in Nodes(h), NEW v \in ToSet(h.dst[u])
       PROVE  /\ Pair(h, u, v) => Apart(h, u, v)
              /\ Apart(h, u, v) => Pair(h, u, v) \/ Unbridged(u, v)'
  <2>1. CASE Apart(g, n, d) /\ BridgeOf(g, h, n, d, x, y)
    <3>1. /\ Nodes(h) = Nodes(g) \cup {x, y} /\ x # y
          /\ Origin(h, x) = "kBridgeSrc" /\ Origin(h, y) = "kBridgeDst"
          /\ h.node[x].location = g.node[n].location /\ h.node[y].location = g.node[d].location
          /\ h.dst[x] = <<y>> /\ h.dst[y] = <<d>>
          /\ ToSet(h.dst[n]) = (ToSet(g.dst[n]) \ {d}) \cup {x}
      BY <1>3, <1>4, <2>1 DEF BridgeOf
    <3>2. ToSet(h.dst[x]) = {y} /\ ToSet(h.dst[y]) = {d}
      BY <3>1, OneList
    <3>3. CASE u = x
      <4>1. v = y
        BY <1>12, <3>2, <3>3
      <4> QED  BY <2>1, <3>1, <3>3, <4>1 DEF Pair, Apart
    <3>4. CASE u = y
      <4>1. v = d
        BY <1>12, <3>2, <3>4
      <4> QED  BY <1>4, <1>5, <3>1, <3>4, <4>1 DEF Pair, Apart
    <3>5. CASE u = n /\ v = x
      BY <1>3, <1>4, <1>5, <3>1, <3>5 DEF Pair, Apart, Bridges
    <3>6. CASE u \in Nodes(g) /\ ~ (u = n /\ v = x)
      <4>1. v \in ToSet(g.dst[u]) /\ ~ (u = n /\ v = d)
        BY <1>5, <1>12, <3>1, <3>6
      <4> QED  BY <1>11, <3>6, <4>1
    <3> QED  BY <3>1, <3>3, <3>4, <3>5, <3>6
  <2>2. CASE ~ Apart(g, n, d) /\ h = g
    <3>1. CASE u = n /\ v = d
      BY <1>9, <1>12, <2>2, <3>1
    <3>2. CASE ~ (u = n /\ v = d)
      BY <1>11, <1>12, <2>2, <3>2
    <3> QED  BY <3>1, <3>2
  <2> QED  BY <1>4, <2>1, <2>2 DEF Bridging
<1>13. /\ ToSet(rest) \subseteq ToSet(h.dst[n])
       /\ \A k \in ToSet(rest) : Origin(h, k) \notin Bridges
  <2>1. ToSet(rest) \subseteq ToSet(g.dst[n]) \ {d}
    BY <1>3
  <2>2. ToSet(g.dst[n]) \ {d} \subseteq ToSet(h.dst[n])
    <3>1. CASE BridgeOf(g, h, n, d, x, y)
      BY <1>3, <1>4, <3>1 DEF BridgeOf
    <3>2. CASE h = g
      BY <3>2
    <3> QED  BY <1>4, <3>1, <3>2 DEF Bridging
  <2>3. \A k \in ToSet(left) : Origin(g, k) \notin Bridges
    BY <1>1, <1>2, <1>3 DEF Body, BorderInv
  <2>4. \A k \in ToSet(rest) : k \in Nodes(g) /\ k \in ToSet(left)
    BY <1>3, <1>4, <1>6, <2>1
  <2> QED  BY <1>5, <2>1, <2>2, <2>3, <2>4
<1>14. \A u \in ToSet(todo) : /\ Origin(h, u) \notin Bridges
                              /\ \A v \in ToSet(h.dst[u]) : Origin(h, v) \notin Bridges
  <2> TAKE u \in ToSet(todo)
  <2>1. u \in Nodes(g) /\ u # n
    BY <1>3, <1>4, ListFacts
  <2>2. h.dst[u] = g.dst[u] /\ ToSet(g.dst[u]) \subseteq Nodes(g)
    BY <1>5, <1>6, <2>1
  <2>3. Origin(g, u) \notin Bridges /\ \A v \in ToSet(g.dst[u]) : Origin(g, v) \notin Bridges
    BY <1>1 DEF Body, BorderInv
  <2> QED  BY <1>5, <2>1, <2>2, <2>3
<1>15. Origin(h, n) \notin Bridges
  BY <1>3, <1>4, <1>5
<1>16. /\ todo' = todo /\ phase' = "bridges" /\ walk'[1].at = n /\ walk'[1].left = rest /\ graph' = h
  BY <1>1, <1>2, <1>3, <1>4
<1> QED  BY <1>12, <1>13, <1>14, <1>15, <1>16 DEF BorderInv

\* Bridges stand for what they carry.
LEMMA BridgePieces ==
  ASSUME TypeOK, Body, NEW n \in Nodes(graph), NEW d \in Nodes(graph), phase = "bridges", Turn(n, d),
         NEW x, NEW y, Bridging(graph, graph', n, d, x, y), Distinct(graph)
  PROVE  PieceInv'
<1>1. PICK g, h : g = graph /\ h = graph'
  OBVIOUS
<1>2. /\ IsGraph(g) /\ Wired(g) /\ Distinct(g) /\ Bridging(g, h, n, d, x, y) /\ gsize' = gsize
      /\ n \in Nodes(g) /\ d \in Nodes(g) /\ d \in ToSet(g.dst[n])
      /\ Origin(g, n) \notin Bridges /\ Origin(g, d) \notin Bridges
  BY <1>1, BridgeTurn DEF Turn, TypeOK, Body, net
<1>3. /\ IsGraph(h) /\ Extends(g, h)
      /\ \A k \in Nodes(g) : /\ k # n => h.dst[k] = g.dst[k]
                             /\ k # d => h.src[k] = g.src[k]
                             /\ h.node[k] = g.node[k] /\ Origin(h, k) = Origin(g, k)
      /\ \A k \in Fresh(g, h) : /\ Origin(h, k) \in Bridges /\ h.dst[k] # << >> /\ h.src[k] # << >>
  BY <1>2, BridgingGrows
<1>4. \A k \in Nodes(g) : /\ Origin(g, k) = "kBridgeSrc" => h.dst[k] = g.dst[k] /\ g.dst[k] # << >>
                          /\ Origin(g, k) = "kBridgeDst" => h.src[k] = g.src[k] /\ g.src[k] # << >>
  BY <1>1, <1>2, <1>3 DEF Bridges, Body, PieceInv
<1>5. \A k : /\ Past(k) = IF Origin(g, k) = "kBridgeSrc" THEN Head(g.dst[k])
                           ELSE IF Origin(g, k) = "kBridgeDst" THEN Head(g.src[k]) ELSE k
             /\ Past(k)' = IF Origin(h, k) = "kBridgeSrc" THEN Head(h.dst[k])
                            ELSE IF Origin(h, k) = "kBridgeDst" THEN Head(h.src[k]) ELSE k
  BY <1>1 DEF Past
<1>6. \A k \in Nodes(g) : Past(k)' = Past(k) /\ Past(k) \in Nodes(g)
  <2> TAKE k \in Nodes(g)
  <2>1. Past(k)' = Past(k)
    BY <1>3, <1>4, <1>5
  <2>2. g.dst[k] \in Seq(Nodes(g)) /\ g.src[k] \in Seq(Nodes(g))
    BY <1>2, GraphFacts
  <2>3. /\ g.dst[k] # << >> => Head(g.dst[k]) \in Nodes(g)
        /\ g.src[k] # << >> => Head(g.src[k]) \in Nodes(g)
    BY <2>2, TailList
  <2> QED  BY <1>4, <1>5, <2>1, <2>3
<1>7. \A k \in Nodes(graph) : graph'.node[Past(k)'].partition = graph.node[Past(k)].partition
  BY <1>1, <1>3, <1>6
<1>8. ASSUME NEW m \in Nodes(g)
      PROVE  Replaced(g.dst[m], h.dst[m]) /\ Replaced(g.src[m], h.src[m])
  <2>1. CASE BridgeOf(g, h, n, d, x, y)
    <3>1. /\ Origin(h, x) = "kBridgeSrc" /\ Origin(h, y) = "kBridgeDst" /\ h.dst[x] = <<y>> /\ h.src[y] = <<x>>
          /\ h.node[x].partition = g.node[n].partition /\ h.node[y].partition = g.node[d].partition
          /\ ToSet(h.dst[n]) = (ToSet(g.dst[n]) \ {d}) \cup {x} /\ Len(h.dst[n]) = Len(g.dst[n])
          /\ ToSet(h.src[d]) = (ToSet(g.src[d]) \ {n}) \cup {y} /\ Len(h.src[d]) = Len(g.src[d])
      BY <1>2, <2>1 DEF BridgeOf
    <3>2. Past(x)' = y /\ Past(y)' = x
      <4>1. Head(<<y>>) = y /\ Head(<<x>>) = x
        OBVIOUS
      <4>2. Past(x)' = Head(h.dst[x]) /\ Past(y)' = Head(h.src[y])
        BY <1>5, <3>1
      <4> QED  BY <3>1, <4>1, <4>2, Zenon
    <3>3. Past(n) = n /\ Past(d) = d
      BY <1>2, <1>5 DEF Bridges
    <3>4. /\ graph'.node[Past(x)'].partition = graph.node[Past(d)].partition
          /\ graph'.node[Past(y)'].partition = graph.node[Past(n)].partition
      BY <1>1, <3>1, <3>2, <3>3
    <3>5. /\ d \in ToSet(g.dst[n]) /\ n \in ToSet(g.src[d]) /\ x \in ToSet(h.dst[n]) /\ y \in ToSet(h.src[d])
      BY <1>2, <3>1 DEF Wired
    <3>6. Replaced(g.dst[n], h.dst[n])
      BY <3>1, <3>4, <3>5 DEF Replaced
    <3>7. Replaced(g.src[d], h.src[d])
      BY <3>1, <3>4, <3>5 DEF Replaced
    <3>8. /\ m # n => Replaced(g.dst[m], h.dst[m])
          /\ m # d => Replaced(g.src[m], h.src[m])
      BY <1>3 DEF Replaced
    <3> QED  BY <3>6, <3>7, <3>8
  <2>2. CASE h = g
    BY <2>2 DEF Replaced
  <2> QED  BY <1>2, <2>1, <2>2 DEF Bridging
<1>9. \A m \in Nodes(graph) :
        /\ Origin(graph, m) = "kSlice" => Replaced(graph.dst[m], graph'.dst[m])
        /\ Origin(graph, m) = "kConcate" => Replaced(graph.src[m], graph'.src[m])
        /\ Origin(graph, m) = "kBridgeSrc" => graph'.dst[m] # << >>
        /\ Origin(graph, m) = "kBridgeDst" => graph'.src[m] # << >>
  BY <1>1, <1>4, <1>8
<1>10. \A k \in Fresh(graph, graph') :
         /\ Origin(graph', k) \notin {"kSlice", "kConcate"}
         /\ Origin(graph', k) = "kBridgeSrc" => graph'.dst[k] # << >>
         /\ Origin(graph', k) = "kBridgeDst" => graph'.src[k] # << >>
  BY <1>1, <1>3 DEF Bridges
<1> QED  BY <1>1, <1>2, <1>3, <1>7, <1>9, <1>10, PieceKept

\* A pair of bridges, or none.
LEMMA AddBridgeKeeps == \A n, d \in Nodes(graph) : IInv /\ AddBridge(n, d) => IInv'
<1> SUFFICES ASSUME NEW n \in Nodes(graph), NEW d \in Nodes(graph), IInv, AddBridge(n, d) PROVE IInv'
  OBVIOUS
<1>1. PICK x, y : x = graph.size + 1 /\ y = graph.size + 2
  OBVIOUS
<1>2. /\ phase = "bridges" /\ phase' = phase /\ todo' = todo /\ Turn(n, d)
      /\ UNCHANGED <<net, layers, layer2nodes>> /\ UNCHANGED net
      /\ graph' = IF Apart(graph, n, d) THEN InsertBridgeNode(RemoveEdge(graph, n, d), n, d) ELSE graph
  BY DEF AddBridge, Turn
<1>3. TypeOK /\ NetInv /\ PartsInv /\ IsGraph(graph) /\ todo \in Seq(Nodes(graph))
      /\ walk \in Seq([at : Nodes(graph), left : Seq(Nodes(graph))])
  BY <1>2 DEF IInv, TypeOK, Items
<1>4. Bridging(graph, graph', n, d, x, y)
  BY <1>1, <1>2, <1>3, BridgeFacts DEF Bridging
<1>5. /\ IsGraph(graph)' /\ Extends(graph, graph') /\ Nodes(graph) \subseteq Nodes(graph')
      /\ Complete(graph) => Complete(graph)'
      /\ \A k \in Nodes(graph) : /\ k # n => graph'.dst[k] = graph.dst[k]
                                 /\ Origin(graph', k) = Origin(graph, k)
      /\ \A k \in Fresh(graph, graph') : Origin(graph', k) \in Bridges /\ Len(graph'.dst[k]) = 1
  BY <1>3, <1>4, BridgingGrows
<1>6. walk' \in Seq([at : Nodes(graph), left : Seq(Nodes(graph))])
  BY <1>2, <1>3, TurnFrame
<1>7. TypeOK' /\ NetInv' /\ PartsInv' /\ (DistinctNames' => DistinctNames)
  <2>1. \A k \in Fresh(graph, graph') : Origin(graph', k) \in Between
    BY <1>5 DEF Between, Bridges
  <2> QED  BY <1>2, <1>3, <1>5, <1>6, <2>1, GrownTypes
<1>8. ASSUME Sane' PROVE Body'
  <2>1. Body /\ Distinct(graph) /\ Wired(graph) /\ Complete(graph)
    BY <1>2, <1>7, <1>8 DEF IInv, Sane, Early, DistinctNames, Distinct, Body
  <2>2. /\ walk' # << >> /\ walk'[1].at = n /\ d \in ToSet(graph.dst[n])
        /\ IsInjective(todo) /\ n \notin ToSet(todo) /\ IsInjective(walk'[1].left)
    BY <1>2, <1>3, <2>1, BridgeTurn
  <2>3. Detour(graph, graph', n) /\ Wired(graph)' /\ Len(graph'.dst[n]) = Len(graph.dst[n])
    BY <1>3, <1>4, <2>1, <2>2, BridgingDetour
  <2>4. phase \in {"splits", "bridges"} /\ phase' \notin Early
    BY <1>2 DEF Early
  <2>5. Ranked' /\ Fed'
    BY <1>2, <1>3, <2>1, <2>3, <2>4, DetourRanked, DetourFed
  <2>6. KindsInv'
    BY <1>2, <1>3, <2>1, <2>3, <2>4, DetourKinds
  <2>7. LoopInv'
    BY <1>2, <2>2 DEF LoopInv
  <2>8. FanInv'
    <3>1. \A l : IsData(l)' <=> IsData(l)
      BY <1>2 DEF IsData, net
    <3>2. PICK g, h : g = graph /\ h = graph'
      OBVIOUS
    <3>3. ASSUME NEW k \in Nodes(h), Len(h.dst[k]) > 1
          PROVE  \/ Origin(h, k) \in {"kSlice", "kSplit"}
                 \/ Origin(h, k) \in Layers /\ IsData(Origin(h, k))
      <4>1. k \in Nodes(g)
        <5>1. k \notin Fresh(g, h)
          <6>1. ASSUME k \in Fresh(g, h) PROVE FALSE
            <7>1. Len(h.dst[k]) = 1
              BY <1>5, <3>2, <6>1
            <7> QED  BY <3>3, <7>1
          <6> QED  BY <6>1
        <5> QED  BY <5>1 DEF Fresh
      <4>2. Len(g.dst[k]) > 1 /\ Origin(h, k) = Origin(g, k)
        BY <1>5, <2>3, <3>2, <3>3, <4>1
      <4> QED  BY <1>2, <2>1, <3>2, <4>1, <4>2 DEF Body, FanInv, OfNet
    <3> QED  BY <1>2, <3>1, <3>2, <3>3 DEF FanInv, OfNet
  <2>9. BorderInv' /\ PieceInv'
    BY <1>2, <1>3, <1>4, <2>1, BridgeBorder, BridgePieces
  <2>10. SortInv' /\ DoneInv'
    BY <1>2 DEF SortInv, DoneInv, Sorting, Done
  <2> QED  BY <1>5, <2>1, <2>3, <2>5, <2>6, <2>7, <2>8, <2>9, <2>10 DEF Body
<1> QED  BY <1>7, <1>8 DEF IInv

----------------------------------------------------------------------------
(* The theorems *)

\* Nothing happens.
LEMMA StutterKeeps == IInv /\ UNCHANGED vars => IInv'
<1> SUFFICES ASSUME IInv, UNCHANGED vars PROVE IInv'
  OBVIOUS
<1>1. /\ gsize' = gsize /\ type' = type /\ connection' = connection /\ location' = location
      /\ srclayers' = srclayers /\ layers' = layers /\ graph' = graph /\ layer2nodes' = layer2nodes
      /\ phase' = phase /\ todo' = todo /\ walk' = walk /\ visited' = visited /\ stack' = stack
  BY DEF vars, net, calls
<1>2. TypeOK' /\ NetInv' /\ (DistinctNames' <=> DistinctNames)
  <2>1. TypeOK'
    BY <1>1 DEF IInv, TypeOK, Items, Sorting, Names
  <2>2. NetInv'
    BY <1>1 DEF IInv, NetInv, IsRank, Rank
  <2> QED  BY <1>1, <2>1, <2>2 DEF DistinctNames
<1>3. PartsInv'
  BY <1>1 DEF IInv, PartsInv, PartsOf, Partitioned, OfNet
<1>4. ASSUME Sane' PROVE Body'
  <2>1. Body
    BY <1>1, <1>2, <1>4 DEF IInv, Sane
  <2>2. Wired(graph)' /\ Complete(graph)' /\ LoopInv' /\ KindsInv'
    BY <1>1, <2>1 DEF Body, LoopInv, KindsInv, OfNet
  <2>3. Ranked'
    BY <1>1, <2>1 DEF Body, Ranked, OfNet, Rank, IsRank
  <2>4. Fed'
    <3>1. \A n : Wants(n)' = Wants(n)
      BY <1>1 DEF Wants, OfNet, Linked, Pending, Suits, OneToOne
    <3> QED  BY <1>1, <2>1, <3>1 DEF Body, Fed, OfNet
  <2>5. FanInv' /\ BorderInv'
    BY <1>1, <2>1 DEF Body, FanInv, BorderInv, OfNet, IsData, Unbridged
  <2>6. PieceInv'
    BY <1>1, <2>1 DEF Body, PieceInv, Whole, Past
  <2>7. SortInv' /\ DoneInv'
    <3>1. Height' = Height
      BY <1>1 DEF Height
    <3>2. \A n : (Seen(n)' <=> Seen(n)) /\ (Finished(n)' <=> Finished(n))
      BY <1>1 DEF Seen, Finished
    <3>3. Sorting' => SeenInv' /\ CallInv'
      BY <1>1, <2>1, <3>2 DEF Body, SortInv, Sorting, SeenInv, CallInv
    <3>4. Sorting' => ClimbInv'
      BY <1>1, <2>1, <3>1 DEF Body, SortInv, Sorting, ClimbInv
    <3>5. Sorting' => StackInv'
      BY <1>1, <2>1, <3>2 DEF Body, SortInv, Sorting, StackInv
    <3> QED  BY <1>1, <2>1, <3>3, <3>4, <3>5 DEF Body, SortInv, DoneInv, Done
  <2> QED  BY <2>2, <2>3, <2>4, <2>5, <2>6, <2>7 DEF Body
<1> QED  BY <1>2, <1>3, <1>4 DEF IInv

\* Every step keeps the invariant.
LEMMA NextKeeps == IInv /\ [Next]_vars => IInv'
<1> SUFFICES ASSUME IInv, [Next]_vars PROVE IInv'
  OBVIOUS
<1>1. CASE Construct \/ OpenLayer \/ Close
  BY <1>1, ConstructKeeps, OpenLayerKeeps, CloseKeeps
<1>2. CASE SortLayers \/ SortConnected \/ SortBridged
  <2>1. \/ BeginSort("wire", "sortLayers")
        \/ BeginSort("edges", "sortConnected")
        \/ BeginSort("bridges", "sortBridged")
    BY <1>2 DEF SortLayers, SortConnected, SortBridged
  <2> QED  BY <2>1, BeginSortKeeps
<1>3. CASE Root \/ Descend \/ Put
  BY <1>3, RootKeeps, DescendKeeps, PutKeeps
<1>4. CASE LayersSorted \/ ConnectedSorted \/ BridgedSorted
  BY <1>4, LayersSortedKeeps, ConnectedSortedKeeps, BridgedSortedKeeps
<1>5. CASE AddPartitions \/ EndPartitions
  BY <1>5, AddPartitionsKeeps, EndPartitionsKeeps
<1>6. ASSUME NEW s \in Layers, NEW l \in Layers,
             \/ ReadSource(s, l)
             \/ ConnectWhole(s, l) \/ ConnectSliced(s, l) \/ ConnectSplit(s, l)
             \/ ConnectConcated(s, l) \/ ConnectResliced(s, l) \/ ConnectPairs(s, l)
      PROVE  IInv'
  <2>1. CASE ReadSource(s, l)
    BY <2>1, ReadSourceKeeps
  <2>2. CASE ConnectWhole(s, l)
    BY <2>2, ConnectWholeKeeps
  <2>3. CASE ConnectSliced(s, l)
    BY <2>3, ConnectSlicedKeeps
  <2>4. CASE ConnectSplit(s, l)
    BY <2>4, ConnectSplitKeeps
  <2>5. CASE ConnectConcated(s, l)
    BY <2>5, ConnectConcatedKeeps
  <2>6. CASE ConnectResliced(s, l)
    BY <2>6, ConnectReslicedKeeps
  <2>7. CASE ConnectPairs(s, l)
    BY <2>7, ConnectPairsKeeps
  <2> QED  BY <1>6, <2>1, <2>2, <2>3, <2>4, <2>5, <2>6, <2>7
<1>7. CASE AddSplit \/ EndSplits \/ OpenNode
  BY <1>7, AddSplitKeeps, EndSplitsKeeps, OpenNodeKeeps
<1>8. ASSUME NEW n \in Nodes(graph), NEW d \in Nodes(graph), AddBridge(n, d) PROVE IInv'
  BY <1>8, AddBridgeKeeps
<1>9. CASE UNCHANGED vars
  BY <1>9, StutterKeeps
<1> QED  BY <1>1, <1>2, <1>3, <1>4, <1>5, <1>6, <1>7, <1>8, <1>9 DEF Next

\* The invariant holds in every reachable state.
LEMMA Inductive == Spec => []IInv
BY InitIInv, NextKeeps, PTL DEF Spec

\* Every list of the construction holds nodes that are there, or layers, and
\* the sort keeps names of nodes only (graph.cc:66-101, neuralnet.cc:208-330).
THEOREM NetGraphTypes == Spec => []TypeOK
<1>1. IInv => TypeOK
  BY DEF IInv
<1> QED  BY <1>1, Inductive, PTL

\* After the partition every part of a layer still reads the parts of its
\* sources it depends on and no others, for every net, every mix of partition
\* types and connections and every group size (CreatePartitonedGraph).
THEOREM DependenciesAreKept == Spec => []DependenciesKept
BY Inductive, DoneProperties, PTL

\* The order in which a worker computes the layers has each once, behind all
\* that it reads (Graph::Sort).
THEOREM SourcesComeFirst == Spec => []SourcesFirst
BY Inductive, DoneProperties, PTL

\* An edge crosses locations if and only if a pair of bridges stands at its
\* ends (the last loop of CreatePartitonedGraph).
THEOREM BordersAreBridged == Spec => []BridgedAtBorders
BY Inductive, DoneProperties, PTL

\* Slices and concatenations keep one piece of each partition, whatever splits
\* and bridges come between (InsertSliceNode, InsertConcateNode).
THEOREM PiecesAreWhole == Spec => []OnePieceEach
BY Inductive, DoneProperties, PTL

\* Nothing but a slice, a split or a data layer has several readers (the loop
\* over the nodes that inserts splits).
THEOREM FanOutsAreSplit == Spec => []FanOutIsSplit
BY Inductive, DoneProperties, PTL

=============================================================================
