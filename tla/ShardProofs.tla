---------------------------- MODULE ShardProofs ----------------------------
(***************************************************************************)
(* Proofs about DataShard: its types, that no session but a kCreate        *)
(* changes what was flushed, and that the walk over the file finds all of  *)
(* it.                                                                     *)
(*                                                                         *)
(* Scan is a recursive function of the offset.  That it is defined, and    *)
(* what it finds, is proved by descent on the distance to the end of the   *)
(* file: a set of numbers has a least one (LeastOf), so a set that holds   *)
(* every number from the end on, and what the walk leads to it from, holds *)
(* them all (DownFrom).  "The walk reaches offset o after n tuples" and    *)
(* "these cells spell these tuples" are defined as membership in every set *)
(* closed under one step, so that an induction is a choice of such a set.  *)
(***************************************************************************)
EXTENDS DataShard, SequenceTheorems, WellFoundedInduction, TLAPS

----------------------------------------------------------------------------
(* Induction *)

\* A set of numbers has a least one.
LEMMA LeastOf ==
  ASSUME NEW T \in SUBSET Nat, T # {}
  PROVE  \E x \in T : \A y \in T : x <= y
<1>1. PICK R : R = {ss \in Nat \X Nat : ss[1] < ss[2]}
  OBVIOUS
<1>2. R = OpToRel(<, Nat)
  BY <1>1 DEF OpToRel
<1>3. IsWellFoundedOn(R, Nat)
  BY <1>2, NatLessThanWellFounded
<1>4. PICK x \in T : \A y \in T : ~ (<<y, x>> \in R)
  BY <1>3, WFMin
<1>5. ASSUME NEW y \in T PROVE x <= y
  <2>1. <<y, x>> \notin R
    BY <1>4
  <2>2. y \in Nat /\ x \in Nat
    OBVIOUS
  <2>3. <<y, x>> \in Nat \X Nat /\ <<y, x>>[1] = y /\ <<y, x>>[2] = x
    BY <2>2
  <2> QED  BY <1>1, <2>1, <2>2, <2>3
<1> QED  BY <1>5

\* A set that holds what every number below n needs holds n, seen from n.
LEMMA DownFrom ==
  ASSUME NEW n \in Nat, NEW T \in SUBSET Nat,
         \A o \in Nat : o >= n \/ (\A x \in Nat : x > o => x \in T) => o \in T
  PROVE  T = Nat
<1> DEFINE B == {k \in Nat : \E o \in Nat : o \notin T /\ k = n - o}
<1> SUFFICES ASSUME NEW z \in Nat, z \notin T PROVE FALSE
  OBVIOUS
<1>1. \A o \in Nat : o \notin T => o < n
  OBVIOUS
<1>2. n - z \in B
  BY <1>1
<1>3. PICK k \in B : \A j \in B : k <= j
  BY <1>2, LeastOf
<1>4. PICK o \in Nat : o \notin T /\ k = n - o
  BY <1>3
<1>5. ASSUME NEW x \in Nat, x > o, x \notin T PROVE FALSE
  <2>1. n - x \in B
    BY <1>1, <1>5
  <2>2. k <= n - x
    BY <1>3, <2>1
  <2> QED  BY <1>4, <1>5, <2>2
<1> QED  BY <1>4, <1>5

----------------------------------------------------------------------------
(* The walk over a file *)

\* What the cells at offset o are for the walk.
LEMMA HeaderCells ==
  ASSUME NEW f \in Seq(Nat), NEW o \in Nat, HeaderAt(f, o)
  PROVE  /\ o + 1 \in 1 .. Len(f) /\ f[o + 1] \in Nat
         /\ o + f[o + 1] + 2 \in 1 .. Len(f) /\ f[o + f[o + 1] + 2] \in Nat
         /\ EndAt(f, o) \in Nat /\ EndAt(f, o) >= o + f[o + 1] + 2
<1>1. Len(f) \in Nat /\ \A i \in 1 .. Len(f) : f[i] \in Nat
  OBVIOUS
<1>2. o + 1 \in 1 .. Len(f) /\ f[o + 1] \in Nat
  BY <1>1 DEF HeaderAt
<1>3. o + f[o + 1] + 2 \in 1 .. Len(f) /\ f[o + f[o + 1] + 2] \in Nat
  BY <1>1, <1>2 DEF HeaderAt
<1>4. PICK k \in Nat, v \in Nat : k = f[o + 1] /\ v = f[o + f[o + 1] + 2]
  BY <1>2, <1>3
<1>5. EndAt(f, o) = o + 2 + k + v
  BY <1>4 DEF EndAt
<1>6. EndAt(f, o) \in Nat /\ EndAt(f, o) >= o + k + 2
  BY <1>5
<1> QED  BY <1>2, <1>3, <1>4, <1>6

\* The two words at offset o, by name.
Words(f, o, k, v) ==
  /\ o + 1 \in 1 .. Len(f) /\ f[o + 1] = k
  /\ o + k + 2 \in 1 .. Len(f) /\ f[o + k + 2] = v

\* What the walk takes for a tuple has two words.
LEMMA WordsOfHeader ==
  ASSUME NEW f \in Seq(Nat), NEW o \in Nat, HeaderAt(f, o)
  PROVE  \E k, v \in Nat : Words(f, o, k, v)
<1>1. PICK k \in Nat : k = f[o + 1]
  BY HeaderCells
<1>2. PICK v \in Nat : v = f[o + f[o + 1] + 2]
  BY HeaderCells
<1>3. o + 1 \in 1 .. Len(f) /\ o + f[o + 1] + 2 \in 1 .. Len(f)
  BY HeaderCells
<1>4. Words(f, o, k, v)
  BY <1>1, <1>2, <1>3 DEF Words
<1> QED  BY <1>4

\* Two words make the walk take what is there for a tuple.
LEMMA HeaderOfWords ==
  ASSUME NEW f \in Seq(Nat), NEW o \in Nat, NEW k \in Nat, NEW v \in Nat, Words(f, o, k, v)
  PROVE  HeaderAt(f, o) /\ EndAt(f, o) = o + 2 + k + v
         /\ (DOMAIN f = 1 .. Len(f)) /\ Len(f) \in Nat
<1>1. Len(f) \in Nat /\ o + 1 <= Len(f) /\ o + k + 2 <= Len(f) /\ DOMAIN f = 1 .. Len(f)
  BY DEF Words
<1>2. f[o + 1] = k /\ f[o + k + 2] = v
  BY DEF Words
<1>3. o + f[o + 1] + 2 = o + k + 2
  BY <1>2
<1> QED  BY <1>1, <1>2, <1>3 DEF HeaderAt, EndAt

\* What a walk from offset o finds, when h tells what one from further on does.
Found(f, h, o) ==
  IF HeaderAt(f, o)
  THEN [keys  |-> h[EndAt(f, o)].keys \cup {SubSeq(f, o + 2, o + 1 + f[o + 1])},
        count |-> h[EndAt(f, o)].count + 1,
        last  |-> h[EndAt(f, o)].last]
  ELSE [keys |-> {}, count |-> 0, last |-> o]

\* The recursion of Scan ends: there is a function it defines.
LEMMA ScanDefined ==
  ASSUME NEW f \in Seq(Nat)
  PROVE  \E h : h = [o \in Nat |-> Found(f, h, o)] /\ Scan(f) = h[0]
<1> DEFINE Good(h, n) == DOMAIN h = Nat /\ h = [o \in Nat |-> h[o]]
                         /\ \A o \in Nat : o >= n => h[o] = Found(f, h, o)
           T == {n \in Nat : \E h : Good(h, n)}
<1>1. Len(f) \in Nat
  OBVIOUS
<1>2. ASSUME NEW n \in Nat, n >= Len(f) PROVE n \in T
  <2> DEFINE h == [o \in Nat |-> [keys |-> {}, count |-> 0, last |-> o]]
  <2>1. \A o \in Nat : o >= n => ~ HeaderAt(f, o)
    BY <1>1, <1>2 DEF HeaderAt
  <2>2. Good(h, n)
    BY <2>1 DEF Found
  <2> HIDE DEF Good
  <2> QED  BY <2>2
<1>3. ASSUME NEW n \in Nat, n + 1 \in T PROVE n \in T
  <2>1. PICK h : Good(h, n + 1)
    BY <1>3
  <2> DEFINE g == [o \in Nat |-> IF o = n THEN Found(f, h, n) ELSE h[o]]
  <2>2. ASSUME NEW o \in Nat, o >= n PROVE g[o] = Found(f, g, o)
    <3>1. HeaderAt(f, o) => g[EndAt(f, o)] = h[EndAt(f, o)]
      <4>1. HeaderAt(f, o) => EndAt(f, o) \in Nat /\ EndAt(f, o) > n
        BY <2>2, HeaderCells
      <4> QED  BY <4>1
    <3>2. Found(f, g, o) = Found(f, h, o)
      BY <3>1 DEF Found
    <3>3. g[o] = Found(f, h, o)
      <4>1. CASE o = n
        BY <4>1
      <4>2. CASE o # n
        BY <2>1, <2>2, <4>2
      <4> QED  BY <4>1, <4>2
    <3> QED  BY <3>2, <3>3
  <2>3. DOMAIN g = Nat /\ g = [o \in Nat |-> g[o]]
    OBVIOUS
  <2> HIDE DEF g
  <2> QED  BY <2>2, <2>3
<1>4. T = Nat
  <2> HIDE DEF T
  <2>1. T \in SUBSET Nat
    BY DEF T
  <2>2. ASSUME NEW o \in Nat, o >= Len(f) \/ (\A x \in Nat : x > o => x \in T) PROVE o \in T
    BY <1>2, <1>3, <2>2
  <2> QED  BY <1>1, <2>1, <2>2, DownFrom
<1>5. PICK h : Good(h, 0)
  <2>1. 0 \in T
    BY <1>4
  <2> QED  BY <2>1
<1>6. h = [o \in Nat |-> Found(f, h, o)]
  BY <1>5
<1> DEFINE s == CHOOSE s : s = [o \in Nat |-> Found(f, s, o)]
<1>7. s = [o \in Nat |-> Found(f, s, o)]
  BY <1>6
<1>8. Scan(f) = s[0]
  BY DEF Scan, Found
<1> HIDE DEF s
<1> QED  BY <1>7, <1>8

\* The walk over f comes to offset o after n tuples: induction along the walk.
Follows(f, B) ==
  /\ <<0, 0>> \in B
  /\ \A n, o \in Nat : <<n, o>> \in B /\ HeaderAt(f, o) => <<n + 1, EndAt(f, o)>> \in B

Reaches(f, n, o) == \A B \in SUBSET (Nat \X Nat) : Follows(f, B) => <<n, o>> \in B

\* The key of the tuple at offset o.
KeyAt(f, o) == SubSeq(f, o + 2, o + 1 + f[o + 1])

\* The walk starts at offset 0, and comes from each tuple to its end.
LEMMA WalkOn ==
  ASSUME NEW f \in Seq(Nat)
  PROVE  /\ Reaches(f, 0, 0)
         /\ \A n, o \in Nat :
              Reaches(f, n, o) /\ HeaderAt(f, o) => Reaches(f, n + 1, EndAt(f, o))
  BY DEF Reaches, Follows

\* Scan has seen all that the walk comes to, and stops on the walk.
LEMMA ScanWalks ==
  ASSUME NEW f \in Seq(Nat)
  PROVE  /\ Scan(f).last \in Nat /\ Scan(f).count \in Nat /\ Scan(f).keys \in SUBSET Seq(Nat)
         /\ Reaches(f, Scan(f).count, Scan(f).last)
         /\ \A n, o \in Nat : Reaches(f, n, o) =>
              /\ o <= Scan(f).last /\ n <= Scan(f).count
              /\ HeaderAt(f, o) => KeyAt(f, o) \in Scan(f).keys
<1>1. PICK h : h = [o \in Nat |-> Found(f, h, o)] /\ Scan(f) = h[0]
  BY ScanDefined
<1>2. \A o \in Nat : h[o] = Found(f, h, o)
  BY <1>1
<1>3. ASSUME NEW o \in Nat, ~ HeaderAt(f, o)
      PROVE  h[o].keys = {} /\ h[o].count = 0 /\ h[o].last = o
  <2>1. h[o] = Found(f, h, o)
    BY <1>2
  <2>2. h[o] = [keys |-> {}, count |-> 0, last |-> o]
    BY <1>3, <2>1 DEF Found
  <2> QED  BY <2>2
<1>4. ASSUME NEW o \in Nat, HeaderAt(f, o)
      PROVE  /\ h[o].keys = h[EndAt(f, o)].keys \cup {KeyAt(f, o)}
             /\ h[o].count = h[EndAt(f, o)].count + 1
             /\ h[o].last = h[EndAt(f, o)].last
             /\ EndAt(f, o) \in Nat /\ EndAt(f, o) > o /\ KeyAt(f, o) \in Seq(Nat)
  <2>1. /\ h[o].keys = h[EndAt(f, o)].keys \cup {KeyAt(f, o)}
        /\ h[o].count = h[EndAt(f, o)].count + 1
        /\ h[o].last = h[EndAt(f, o)].last
    <3>1. h[o] = Found(f, h, o)
      BY <1>2
    <3>2. h[o] = [keys  |-> h[EndAt(f, o)].keys \cup {KeyAt(f, o)},
                  count |-> h[EndAt(f, o)].count + 1,
                  last  |-> h[EndAt(f, o)].last]
      BY <1>4, <3>1 DEF Found, KeyAt
    <3> QED  BY <3>2
  <2>2. PICK k \in Nat : k = f[o + 1]
    BY <1>4, HeaderCells
  <2>3. o + k + 2 \in 1 .. Len(f) /\ EndAt(f, o) \in Nat /\ EndAt(f, o) >= o + k + 2
    BY <1>4, <2>2, HeaderCells
  <2>4. \A i \in o + 2 .. o + 1 + k : f[i] \in Nat
    BY <2>3
  <2>5. SubSeq(f, o + 2, o + 1 + k) \in Seq(Nat)
    BY <2>4, SubSeqProperties
  <2>6. KeyAt(f, o) \in Seq(Nat)
    BY <2>2, <2>5 DEF KeyAt
  <2>7. EndAt(f, o) > o
    BY <2>3
  <2> QED  BY <2>1, <2>3, <2>6, <2>7
<1>5. \A o \in Nat : /\ h[o].last \in Nat /\ h[o].last >= o
                     /\ h[o].count \in Nat /\ h[o].keys \in SUBSET Seq(Nat)
                     /\ \A n \in Nat : Reaches(f, n, o) => Reaches(f, n + h[o].count, h[o].last)
  <2> DEFINE T == {o \in Nat : /\ h[o].last \in Nat /\ h[o].last >= o
                               /\ h[o].count \in Nat /\ h[o].keys \in SUBSET Seq(Nat)
                               /\ \A n \in Nat : Reaches(f, n, o)
                                                   => Reaches(f, n + h[o].count, h[o].last)}
  <2>1. ASSUME NEW o \in Nat, ~ HeaderAt(f, o) PROVE o \in T
    BY <1>3, <2>1
  <2>2. ASSUME NEW o \in Nat, HeaderAt(f, o), EndAt(f, o) \in T PROVE o \in T
    <3>1. PICK e \in Nat : e = EndAt(f, o) /\ e > o
      BY <1>4, <2>2
    <3>2. /\ h[o].keys = h[e].keys \cup {KeyAt(f, o)} /\ KeyAt(f, o) \in Seq(Nat)
          /\ h[o].count = h[e].count + 1 /\ h[o].last = h[e].last
      BY <1>4, <2>2, <3>1
    <3>3. /\ h[e].last \in Nat /\ h[e].last >= e
          /\ h[e].count \in Nat /\ h[e].keys \in SUBSET Seq(Nat)
          /\ \A n \in Nat : Reaches(f, n, e) => Reaches(f, n + h[e].count, h[e].last)
      BY <2>2, <3>1
    <3>0. PICK c \in Nat, l \in Nat : /\ c = h[e].count /\ l = h[e].last
                                      /\ h[o].count = c + 1 /\ h[o].last = l
      BY <3>2, <3>3
    <3>4. ASSUME NEW n \in Nat, Reaches(f, n, o) PROVE Reaches(f, n + h[o].count, h[o].last)
      <4>1. Reaches(f, n + 1, e) /\ n + 1 \in Nat
        BY <2>2, <3>1, <3>4, WalkOn
      <4>2. Reaches(f, (n + 1) + c, l)
        BY <3>0, <3>3, <4>1
      <4>3. (n + 1) + c = n + (c + 1)
        OBVIOUS
      <4> QED  BY <3>0, <4>2, <4>3
    <3>5. /\ h[o].last \in Nat /\ h[o].last >= o
          /\ h[o].count \in Nat /\ h[o].keys \in SUBSET Seq(Nat)
      <4>1. c + 1 \in Nat /\ l >= o
        BY <3>0, <3>1, <3>3
      <4>2. h[o].keys \in SUBSET Seq(Nat)
        BY <3>2, <3>3
      <4> QED  BY <3>0, <4>1, <4>2
    <3> QED  BY <3>4, <3>5
  <2>3. T \in SUBSET Nat /\ Len(f) \in Nat /\ \A o \in Nat : o >= Len(f) => ~ HeaderAt(f, o)
    BY DEF HeaderAt
  <2> HIDE DEF T
  <2>4. ASSUME NEW o \in Nat, o >= Len(f) \/ (\A x \in Nat : x > o => x \in T) PROVE o \in T
    BY <1>4, <2>1, <2>2, <2>3, <2>4
  <2>5. T = Nat
    BY <2>3, <2>4, DownFrom
  <2> QED  BY <2>5 DEF T
<1>6. ASSUME NEW n \in Nat, NEW o \in Nat, Reaches(f, n, o)
      PROVE  h[o].last = h[0].last /\ n + h[o].count = h[0].count /\ h[o].keys \subseteq h[0].keys
  <2> DEFINE B == {x \in Nat \X Nat : /\ h[x[2]].last = h[0].last
                                      /\ x[1] + h[x[2]].count = h[0].count
                                      /\ h[x[2]].keys \subseteq h[0].keys}
  <2>1. <<0, 0>> \in B
    BY <1>5
  <2>2. ASSUME NEW m \in Nat, NEW q \in Nat, <<m, q>> \in B, HeaderAt(f, q)
        PROVE  <<m + 1, EndAt(f, q)>> \in B
    <3>1. PICK e \in Nat : e = EndAt(f, q)
      BY <1>4, <2>2
    <3>2. /\ h[q].keys = h[e].keys \cup {KeyAt(f, q)}
          /\ h[q].count = h[e].count + 1 /\ h[q].last = h[e].last /\ h[e].count \in Nat
      BY <1>4, <1>5, <2>2, <3>1
    <3>3. h[q].last = h[0].last /\ m + h[q].count = h[0].count /\ h[q].keys \subseteq h[0].keys
      BY <2>2
    <3>4. PICK c \in Nat : c = h[e].count /\ h[q].count = c + 1 /\ m + (c + 1) = h[0].count
      BY <3>2, <3>3
    <3>5. (m + 1) + c = h[0].count
      BY <3>4
    <3>6. h[e].last = h[0].last /\ h[e].keys \subseteq h[0].keys
      BY <3>2, <3>3
    <3> QED  BY <3>1, <3>4, <3>5, <3>6
  <2>3. B \in SUBSET (Nat \X Nat) /\ Follows(f, B)
    BY <2>1, <2>2 DEF Follows
  <2>4. <<n, o>> \in B
    BY <1>6, <2>3 DEF Reaches
  <2> QED  BY <2>4
<1>7. /\ h[0].last \in Nat /\ h[0].count \in Nat /\ h[0].keys \in SUBSET Seq(Nat)
      /\ Reaches(f, h[0].count, h[0].last)
  <2>1. Reaches(f, 0 + h[0].count, h[0].last) /\ h[0].count \in Nat
    BY <1>5, WalkOn
  <2>2. 0 + h[0].count = h[0].count
    BY <2>1
  <2> QED  BY <1>5, <2>1, <2>2
<1>8. ASSUME NEW n \in Nat, NEW o \in Nat, Reaches(f, n, o)
      PROVE  /\ o <= h[0].last /\ n <= h[0].count
             /\ HeaderAt(f, o) => KeyAt(f, o) \in h[0].keys
  <2>1. PICK c \in Nat, l \in Nat : c = h[o].count /\ l = h[o].last /\ l >= o
    BY <1>5
  <2>2. h[0].last = l /\ h[0].count = n + c /\ h[o].keys \subseteq h[0].keys
    BY <1>6, <1>8, <2>1
  <2>3. o <= h[0].last /\ n <= h[0].count
    BY <2>1, <2>2
  <2> QED  BY <1>4, <2>2, <2>3
<1> QED  BY <1>1, <1>7, <1>8

----------------------------------------------------------------------------
(* Writing *)

\* Cells up to offset p that f has, g has.
Keeps(f, g, p) ==
  /\ Len(f) <= Len(g)
  /\ \A i \in 1 .. Len(f) : i <= p => g[i] = f[i]

\* A write at offset p keeps the cells before it and puts its own behind.
LEMMA WrittenCells ==
  ASSUME NEW f \in Seq(Nat), NEW p \in Nat, NEW b \in Seq(Nat)
  PROVE  /\ Written(f, p, b) \in Seq(Nat) /\ Keeps(f, Written(f, p, b), p)
         /\ b # << >> => p + Len(b) <= Len(Written(f, p, b))
         /\ \A j \in 1 .. Len(b) : Written(f, p, b)[p + j] = b[j]
<1>1. Len(f) \in Nat /\ Len(b) \in Nat /\ (b = << >> => Len(b) = 0)
  OBVIOUS
<1>2. CASE b = << >>
  BY <1>1, <1>2 DEF Written, Keeps
<1>3. CASE b # << >>
  <2>1. PICK n \in Nat : n = Max({Len(f), p + Len(b)}) /\ n >= Len(f) /\ n >= p + Len(b)
    <3>1. PICK y \in {Len(f), p + Len(b)} : \A x \in {Len(f), p + Len(b)} : y >= x
      BY <1>1
    <3> QED  BY <1>1, <3>1 DEF Max
  <2> DEFINE e(i) == IF i > p /\ i <= p + Len(b) THEN b[i - p]
                     ELSE IF i <= Len(f) THEN f[i] ELSE 0
             g == [i \in 1 .. n |-> e(i)]
  <2>2. Written(f, p, b) = g
    BY <1>3, <2>1 DEF Written
  <2>3. \A i \in 1 .. n : e(i) \in Nat
    <3>1. \A i \in 1 .. n : i > p /\ i <= p + Len(b) => i - p \in 1 .. Len(b)
      BY <1>1
    <3> QED  BY <1>1, <3>1
  <2>4. g \in Seq(Nat) /\ Len(g) = n /\ \A i \in 1 .. n : g[i] = e(i)
    <3>1. g \in [1 .. n -> Nat]
      BY <2>3
    <3> QED  BY <3>1
  <2>5. \A i \in 1 .. Len(f) : i <= p => g[i] = f[i]
    BY <1>1, <2>1, <2>4
  <2>6. ASSUME NEW j \in 1 .. Len(b) PROVE g[p + j] = b[j]
    <3>1. p + j \in 1 .. n /\ p + j > p /\ p + j <= p + Len(b) /\ (p + j) - p = j
      BY <1>1, <2>1
    <3> QED  BY <2>4, <3>1
  <2> HIDE DEF g, e
  <2> QED  BY <1>3, <2>1, <2>2, <2>4, <2>5, <2>6 DEF Keeps
<1> QED  BY <1>2, <1>3

\* The cells from one place to another, the same in two files, are one sequence.
LEMMA SameCells ==
  ASSUME NEW f \in Seq(Nat), NEW g \in Seq(Nat), NEW a \in Nat \ {0}, NEW k \in Nat,
         a + k - 1 <= Len(f), a + k - 1 <= Len(g),
         NEW d \in Int, NEW h \in Seq(Nat), a + d \in Nat \ {0}, a + d + k - 1 <= Len(h),
         \A i \in 1 .. Len(f) : i >= a /\ i <= a + k - 1 => h[i + d] = f[i]
  PROVE  /\ SubSeq(h, a + d, a + d + k - 1) = SubSeq(f, a, a + k - 1)
         /\ SubSeq(f, a, a + k - 1) \in Seq(Nat)
         /\ Len(SubSeq(f, a, a + k - 1)) = k
         /\ \A i \in 1 .. k : SubSeq(f, a, a + k - 1)[i] = f[a + i - 1]
<1>1. PICK b \in Nat \ {0} : b = a + d
  OBVIOUS
<1>2. \A i \in a .. a + k - 1 : i \in 1 .. Len(f) /\ f[i] \in Nat
  OBVIOUS
<1>3. \A i \in b .. b + k - 1 : i \in 1 .. Len(h) /\ h[i] \in Nat
  BY <1>1
<1> DEFINE s == SubSeq(f, a, a + k - 1)  t == SubSeq(h, b, b + k - 1)
<1>4. /\ s \in Seq(Nat) /\ Len(s) = k
      /\ \A i \in 1 .. k : s[i] = f[a + i - 1]
  <2>1. /\ s \in Seq(Nat) /\ Len(s) = IF a <= a + k - 1 THEN a + k - 1 - a + 1 ELSE 0
        /\ \A i \in 1 .. a + k - 1 - a + 1 : s[i] = f[a + i - 1]
    BY <1>2, SubSeqProperties
  <2>2. a + k - 1 - a + 1 = k
    OBVIOUS
  <2> HIDE DEF s
  <2> QED  BY <2>1, <2>2
<1>5. /\ t \in Seq(Nat) /\ Len(t) = k
      /\ \A i \in 1 .. k : t[i] = h[b + i - 1]
  <2>1. /\ t \in Seq(Nat) /\ Len(t) = IF b <= b + k - 1 THEN b + k - 1 - b + 1 ELSE 0
        /\ \A i \in 1 .. b + k - 1 - b + 1 : t[i] = h[b + i - 1]
    BY <1>3, SubSeqProperties
  <2>2. b + k - 1 - b + 1 = k
    OBVIOUS
  <2> HIDE DEF t
  <2> QED  BY <2>1, <2>2
<1>6. ASSUME NEW i \in 1 .. k PROVE s[i] = t[i]
  <2>1. PICK j \in Int : j = a + i - 1
    OBVIOUS
  <2>0. i \in Nat /\ i >= 1 /\ i <= k /\ Len(f) \in Nat
    OBVIOUS
  <2>2. j \in 1 .. Len(f) /\ j >= a /\ j <= a + k - 1 /\ j + d = b + i - 1
    <3>1. j >= a /\ j <= a + k - 1 /\ j + d = b + i - 1
      BY <1>1, <2>1, <2>0
    <3>2. j >= 1 /\ j <= Len(f)
      BY <2>0, <3>1
    <3> QED  BY <2>0, <3>1, <3>2
  <2>3. h[j + d] = f[j]
    BY <2>2
  <2>4. s[i] = f[j]
    BY <1>4, <2>1
  <2>5. t[i] = h[j + d]
    BY <1>5, <2>2
  <2> QED  BY <2>3, <2>4, <2>5
<1>7. s = t
  <2> HIDE DEF s, t
  <2> QED  BY <1>4, <1>5, <1>6, SeqEqual
<1> QED  BY <1>1, <1>4, <1>7

\* A tuple that ends in what is kept is read as before.
LEMMA HeaderKept ==
  ASSUME NEW f \in Seq(Nat), NEW g \in Seq(Nat), NEW p \in Nat, Keeps(f, g, p),
         NEW o \in Nat, HeaderAt(f, o), EndAt(f, o) <= p
  PROVE  HeaderAt(g, o) /\ EndAt(g, o) = EndAt(f, o) /\ KeyAt(g, o) = KeyAt(f, o)
<1>1. PICK k, v \in Nat : Words(f, o, k, v)
  BY WordsOfHeader
<1>2. EndAt(f, o) = o + 2 + k + v
  BY <1>1, HeaderOfWords
<1>3. o + 1 <= p /\ o + k + 2 <= p /\ Len(f) \in Nat /\ Len(g) \in Nat /\ Len(f) <= Len(g)
  BY <1>2 DEF Keeps
<1>4. g[o + 1] = f[o + 1] /\ g[o + k + 2] = f[o + k + 2]
  BY <1>1, <1>3 DEF Keeps, Words
<1>5. Words(g, o, k, v)
  <2>1. o + 1 <= Len(f) /\ o + k + 2 <= Len(f) /\ f[o + 1] = k /\ f[o + k + 2] = v
    BY <1>1, <1>3 DEF Words
  <2>2. o + 1 \in 1 .. Len(g) /\ o + k + 2 \in 1 .. Len(g)
    BY <1>3, <2>1
  <2> QED  BY <1>4, <2>1, <2>2 DEF Words
<1>6. HeaderAt(g, o) /\ EndAt(g, o) = EndAt(f, o)
  BY <1>2, <1>5, HeaderOfWords
<1>7. SubSeq(g, o + 2, o + 1 + k) = SubSeq(f, o + 2, o + 1 + k)
  <2>1. PICK a \in Nat \ {0} : a = o + 2
    OBVIOUS
  <2>2. a + k - 1 <= Len(f) /\ a + k - 1 <= Len(g) /\ a + k - 1 <= p /\ a + k - 1 = o + 1 + k
    <3>1. o + k + 2 <= Len(f)
      BY <1>1, <1>3 DEF Words
    <3>2. a + k - 1 = o + 1 + k
      BY <2>1
    <3> QED  BY <1>3, <3>1, <3>2
  <2>3. \A i \in 1 .. Len(f) : i >= a /\ i <= a + k - 1 => g[i + 0] = f[i]
    BY <1>3, <2>2 DEF Keeps
  <2>4. a + 0 = a /\ a + 0 + k - 1 = a + k - 1
    OBVIOUS
  <2>5. SubSeq(g, a + 0, a + 0 + k - 1) = SubSeq(f, a, a + k - 1)
    BY <2>2, <2>3, <2>4, SameCells
  <2> QED  BY <2>1, <2>2, <2>4, <2>5
<1>8. KeyAt(g, o) = KeyAt(f, o)
  BY <1>1, <1>5, <1>7 DEF KeyAt, Words
<1> QED  BY <1>6, <1>8

\* The walk comes as far in a file that has been written to further on.
LEMMA WalkKept ==
  ASSUME NEW f \in Seq(Nat), NEW g \in Seq(Nat), NEW p \in Nat, Keeps(f, g, p),
         NEW n \in Nat, NEW o \in Nat, o <= p, Reaches(f, n, o)
  PROVE  Reaches(g, n, o)
<1> SUFFICES ASSUME NEW B \in SUBSET (Nat \X Nat), Follows(g, B) PROVE <<n, o>> \in B
  BY DEF Reaches
<1> DEFINE C == {x \in Nat \X Nat : x[2] > p \/ x \in B}
<1>1. <<0, 0>> \in C
  BY DEF Follows
<1>2. ASSUME NEW m \in Nat, NEW q \in Nat, <<m, q>> \in C, HeaderAt(f, q)
      PROVE  <<m + 1, EndAt(f, q)>> \in C
  <2>1. PICK e \in Nat : e = EndAt(f, q) /\ e > q
    <3>1. PICK k, v \in Nat : Words(f, q, k, v)
      BY <1>2, WordsOfHeader
    <3>2. EndAt(f, q) = q + 2 + k + v
      BY <3>1, HeaderOfWords
    <3> QED  BY <3>2
  <2>2. CASE e > p
    BY <2>1, <2>2
  <2>3. CASE e <= p
    <3>1. HeaderAt(g, q) /\ EndAt(g, q) = e
      BY <1>2, <2>1, <2>3, HeaderKept
    <3>2. <<m, q>> \in B
      BY <1>2, <2>1, <2>3
    <3>3. <<m + 1, e>> \in B
      BY <3>1, <3>2 DEF Follows
    <3> QED  BY <2>1, <3>3
  <2> QED  BY <2>1, <2>2, <2>3
<1>3. C \in SUBSET (Nat \X Nat) /\ Follows(f, C)
  BY <1>1, <1>2 DEF Follows
<1>4. <<n, o>> \in C
  BY <1>3 DEF Reaches
<1> QED  BY <1>4

----------------------------------------------------------------------------
(* Tuples and their cells *)

Pairs == Seq(Nat) \X Seq(Nat)

\* One sequence behind another: where the cells of both are.
LEMMA Joined ==
  ASSUME NEW S, NEW a \in Seq(S), NEW b \in Seq(S), NEW n \in Nat, n = Len(a),
         NEW m \in Nat, m = Len(b)
  PROVE  /\ a \o b \in Seq(S) /\ Len(a \o b) = n + m
         /\ \A i \in 1 .. n : (a \o b)[i] = a[i]
         /\ \A j \in 1 .. m : (a \o b)[n + j] = b[j]
<1>1. PICK c : c = a \o b
  OBVIOUS
<1>2. /\ c \in Seq(S) /\ Len(c) = n + m
      /\ \A i \in 1 .. n + m : c[i] = IF i <= n THEN a[i] ELSE b[i - n]
  BY <1>1, ConcatProperties
<1>3. \A i \in 1 .. n : c[i] = a[i]
  BY <1>2
<1>4. ASSUME NEW j \in 1 .. m PROVE c[n + j] = b[j]
  <2>1. PICK i \in Nat : i = n + j
    OBVIOUS
  <2>2. i \in 1 .. n + m /\ ~ (i <= n) /\ i - n = j
    BY <2>1
  <2> QED  BY <1>2, <2>1, <2>2
<1> QED  BY <1>1, <1>2, <1>3, <1>4

\* A tuple as cells: the key behind its length, the value behind its own.
LEMMA EncodeCells ==
  ASSUME NEW t \in Pairs
  PROVE  \E k, v \in Nat, e \in Seq(Nat) :
           /\ e = Encode(t) /\ k = Len(Key(t)) /\ v = Len(Val(t)) /\ Key(t) \in Seq(Nat)
           /\ Len(e) = k + v + 2 /\ e # << >>
           /\ e[1] = k /\ e[k + 2] = v
           /\ \A i \in 1 .. k : e[i + 1] = Key(t)[i]
<1>1. PICK x \in Seq(Nat), y \in Seq(Nat), k \in Nat, v \in Nat :
        x = Key(t) /\ y = Val(t) /\ Len(x) = k /\ Len(y) = v
  BY DEF Pairs, Key, Val
<1>2. PICK r \in Seq(Nat), w \in Seq(Nat) :
        r = <<k>> /\ Len(r) = 1 /\ r[1] = k /\ w = <<v>> /\ Len(w) = 1 /\ w[1] = v
  <2>1. <<k>> \in Seq(Nat) /\ Len(<<k>>) = 1 /\ <<k>>[1] = k
    OBVIOUS
  <2>2. <<v>> \in Seq(Nat) /\ Len(<<v>>) = 1 /\ <<v>>[1] = v
    OBVIOUS
  <2> QED  BY <2>1, <2>2
<1>n. PICK n \in Nat, m \in Nat : n = 1 + k /\ m = n + 1 /\ 1 \in 1 .. 1 /\ 1 \in Nat
  OBVIOUS
<1>3. PICK a \in Seq(Nat) : a = r \o x /\ Len(a) = n /\ a[1] = k
                            /\ \A i \in 1 .. k : a[1 + i] = x[i]
  <2>0. PICK l \in Nat : l = 1
    OBVIOUS
  <2>1. l = Len(r) /\ k = Len(x)
    BY <1>1, <1>2, <2>0
  <2>2. /\ r \o x \in Seq(Nat) /\ Len(r \o x) = l + k
        /\ \A i \in 1 .. l : (r \o x)[i] = r[i]
        /\ \A i \in 1 .. k : (r \o x)[l + i] = x[i]
    BY <2>1, Joined
  <2>3. (r \o x)[l] = k
    <3>1. l \in 1 .. l
      BY <2>0
    <3> QED  BY <1>2, <2>0, <2>2, <3>1
  <2> QED  BY <1>n, <2>0, <2>2, <2>3
<1>4. PICK b \in Seq(Nat) : b = a \o w /\ Len(b) = m /\ b[m] = v
                            /\ \A i \in 1 .. n : b[i] = a[i]
  <2>0. PICK l \in Nat : l = 1
    OBVIOUS
  <2>1. n = Len(a) /\ l = Len(w)
    BY <1>2, <1>3, <2>0
  <2>2. /\ a \o w \in Seq(Nat) /\ Len(a \o w) = n + l
        /\ \A i \in 1 .. n : (a \o w)[i] = a[i]
        /\ \A i \in 1 .. l : (a \o w)[n + i] = w[i]
    BY <2>1, Joined
  <2>3. (a \o w)[n + l] = v
    BY <1>2, <1>n, <2>0, <2>2
  <2> QED  BY <1>n, <2>0, <2>2, <2>3
<1>5. PICK c \in Seq(Nat) : c = b \o y /\ Len(c) = m + v
                            /\ \A i \in 1 .. m : c[i] = b[i]
  <2>0. m = Len(b) /\ v = Len(y)
    BY <1>1, <1>4
  <2>1. /\ b \o y \in Seq(Nat) /\ Len(b \o y) = m + v
        /\ \A i \in 1 .. m : (b \o y)[i] = b[i]
    BY <2>0, Joined
  <2> QED  BY <2>1
<1>6. Encode(t) = c
  BY <1>1, <1>2, <1>3, <1>4, <1>5 DEF Encode
<1>7. c[1] = k
  <2>1. 1 \in 1 .. n /\ 1 \in 1 .. m
    BY <1>n
  <2> QED  BY <1>3, <1>4, <1>5, <2>1
<1>8. c[k + 2] = v
  <2>1. k + 2 = m /\ m \in 1 .. m
    BY <1>n
  <2> QED  BY <1>4, <1>5, <2>1
<1>9. ASSUME NEW i \in 1 .. k PROVE c[i + 1] = x[i]
  <2>1. PICK j \in Nat : j = 1 + i /\ j = i + 1
    OBVIOUS
  <2>2. j \in 1 .. n /\ j \in 1 .. m
    BY <1>n, <2>1
  <2>3. c[j] = b[j] /\ b[j] = a[j]
    BY <1>4, <1>5, <2>2
  <2>4. a[j] = x[i]
    BY <1>3, <2>1
  <2> QED  BY <2>1, <2>3, <2>4
<1>10. Len(c) = k + v + 2 /\ c # << >>
  BY <1>5, <1>n
<1> QED  BY <1>1, <1>6, <1>7, <1>8, <1>9, <1>10

\* The cells b are in the file from offset p on.
Lies(f, p, b) ==
  /\ b # << >> => p + Len(b) <= Len(f)
  /\ \A j \in 1 .. Len(b) : f[p + j] = b[j]

\* The walk reads a tuple that is in the file: its length and its key.
LEMMA TupleRead ==
  ASSUME NEW f \in Seq(Nat), NEW p \in Nat, NEW t \in Pairs, Lies(f, p, Encode(t))
  PROVE  HeaderAt(f, p) /\ EndAt(f, p) = p + Len(Encode(t)) /\ KeyAt(f, p) = Key(t)
<1>2. PICK k, v \in Nat, b \in Seq(Nat) :
        /\ b = Encode(t) /\ k = Len(Key(t)) /\ v = Len(Val(t)) /\ Key(t) \in Seq(Nat)
        /\ Len(b) = k + v + 2 /\ b # << >>
        /\ b[1] = k /\ b[k + 2] = v
        /\ \A i \in 1 .. k : b[i + 1] = Key(t)[i]
  BY EncodeCells
<1>3. p + (k + v + 2) <= Len(f) /\ \A j \in 1 .. k + v + 2 : f[p + j] = b[j]
  BY <1>2 DEF Lies
<1>4. Words(f, p, k, v)
  <2>1. 1 \in 1 .. k + v + 2 /\ k + 2 \in 1 .. k + v + 2
    OBVIOUS
  <2>2. f[p + 1] = k /\ f[p + (k + 2)] = v
    BY <1>2, <1>3, <2>1
  <2>3. p + (k + 2) = p + k + 2
    OBVIOUS
  <2>4. p + 1 \in 1 .. Len(f) /\ p + k + 2 \in 1 .. Len(f)
    BY <1>3
  <2> QED  BY <2>2, <2>3, <2>4 DEF Words
<1>5. HeaderAt(f, p) /\ EndAt(f, p) = p + Len(b)
  <2>1. p + 2 + k + v = p + (k + v + 2)
    OBVIOUS
  <2>2. HeaderAt(f, p) /\ EndAt(f, p) = p + 2 + k + v
    BY <1>4, HeaderOfWords
  <2>3. p + (k + v + 2) = p + Len(b)
    BY <1>2
  <2> QED  BY <2>1, <2>2, <2>3
<1>6. SubSeq(f, p + 2, p + 1 + k) = Key(t)
  <2>1. PICK x \in Seq(Nat) : x = Key(t) /\ Len(x) = k
    BY <1>2
  <2>2. PICK a \in Nat \ {0} : a = p + 2
    OBVIOUS
  <2>3. a + k - 1 <= Len(f) /\ a + k - 1 = p + 1 + k
    BY <1>3, <2>2
  <2>4. /\ SubSeq(f, a, a + k - 1) \in Seq(Nat) /\ Len(SubSeq(f, a, a + k - 1)) = k
        /\ \A i \in 1 .. k : SubSeq(f, a, a + k - 1)[i] = f[a + i - 1]
    <3>1. \A i \in 1 .. Len(f) : i >= a /\ i <= a + k - 1 => f[i + 0] = f[i]
      OBVIOUS
    <3>2. a + 0 \in Nat \ {0} /\ a + 0 + k - 1 <= Len(f)
      BY <2>3
    <3> QED  BY <2>3, <3>1, <3>2, SameCells
  <2>5. ASSUME NEW i \in 1 .. k PROVE f[a + i - 1] = x[i]
    <3>1. i + 1 \in 1 .. k + v + 2 /\ a + i - 1 = p + (i + 1)
      BY <2>2
    <3>2. f[p + (i + 1)] = b[i + 1]
      BY <1>3, <3>1
    <3> QED  BY <1>2, <2>1, <3>1, <3>2
  <2>6. SubSeq(f, a, a + k - 1) = x
    BY <2>1, <2>4, <2>5, SeqEqual
  <2> QED  BY <2>1, <2>2, <2>3, <2>6
<1>7. KeyAt(f, p) = Key(t)
  BY <1>4, <1>6 DEF KeyAt, Words
<1> QED  BY <1>2, <1>5, <1>7

\* The cells b are the tuples ts, one behind the other: induction over ts.
Lengthens(R) ==
  /\ << << >>, << >> >> \in R
  /\ \A ts \in Seq(Pairs), b \in Seq(Nat), t \in Pairs :
       <<ts, b>> \in R => <<Append(ts, t), b \o Encode(t)>> \in R

Spells(ts, b) == \A R \in SUBSET (Seq(Pairs) \X Seq(Nat)) : Lengthens(R) => <<ts, b>> \in R

\* No cells spell no tuple, and the cells of one more tuple spell one more.
LEMMA SpellsOn ==
  /\ Spells(<< >>, << >>)
  /\ \A ts \in Seq(Pairs), b \in Seq(Nat), t \in Pairs :
       Spells(ts, b) => Spells(Append(ts, t), b \o Encode(t))
  BY DEF Spells, Lengthens

\* Every tuple of ts is on the walk over f, and ends by offset d.
OnWalk(f, d, ts) ==
  \A t \in ToSet(ts) : \E n, o \in Nat :
    Reaches(f, n, o) /\ HeaderAt(f, o) /\ EndAt(f, o) <= d /\ KeyAt(f, o) = Key(t)

\* The walk reads tuples that are in the file one behind the other.
LEMMA TuplesRead ==
  ASSUME NEW f \in Seq(Nat), NEW p \in Nat, NEW m \in Nat, Reaches(f, m, p),
         NEW ts \in Seq(Pairs), NEW b \in Seq(Nat), Spells(ts, b), Lies(f, p, b)
  PROVE  Reaches(f, m + Len(ts), p + Len(b)) /\ OnWalk(f, p + Len(b), ts)
<1> DEFINE Read(us, c) == Reaches(f, m + Len(us), p + Len(c)) /\ OnWalk(f, p + Len(c), us)
           R == {x \in Seq(Pairs) \X Seq(Nat) : Lies(f, p, x[2]) => Read(x[1], x[2])}
<1>1. << << >>, << >> >> \in R
  <2>1. m + Len(<< >>) = m /\ p + Len(<< >>) = p
    OBVIOUS
  <2>2. OnWalk(f, p + Len(<< >>), << >>)
    BY DEF OnWalk, ToSet
  <2>3. << >> \in Seq(Pairs) /\ << >> \in Seq(Nat)
    OBVIOUS
  <2> QED  BY <2>1, <2>2, <2>3
<1>2. ASSUME NEW us \in Seq(Pairs), NEW c \in Seq(Nat), NEW t \in Pairs, <<us, c>> \in R,
             Lies(f, p, c \o Encode(t))
      PROVE  Read(Append(us, t), c \o Encode(t))
  <2>1. PICK e \in Seq(Nat), l \in Nat : e = Encode(t) /\ l = Len(e) /\ l >= 2
    <3>1. PICK k, v \in Nat, e \in Seq(Nat) : e = Encode(t) /\ Len(e) = k + v + 2
      BY EncodeCells
    <3> QED  BY <3>1
  <2>2. PICK q \in Nat : q = p + Len(c)
    OBVIOUS
  <2>3. PICK g \in Seq(Nat) : /\ g = c \o e /\ Len(g) = Len(c) + l /\ g # << >>
                              /\ \A j \in 1 .. Len(c) : g[j] = c[j]
                              /\ \A j \in 1 .. l : g[Len(c) + j] = e[j]
    <3>1. Len(c) \in Nat
      OBVIOUS
    <3>2. /\ c \o e \in Seq(Nat) /\ Len(c \o e) = Len(c) + l
          /\ \A j \in 1 .. Len(c) : (c \o e)[j] = c[j]
          /\ \A j \in 1 .. l : (c \o e)[Len(c) + j] = e[j]
      BY <2>1, <3>1, Joined
    <3>3. c \o e # << >>
      BY <2>1, <3>1, <3>2
    <3> QED  BY <3>2, <3>3
  <2>4. p + Len(g) <= Len(f) /\ \A j \in 1 .. Len(g) : f[p + j] = g[j]
    BY <1>2, <2>1, <2>3 DEF Lies
  <2>5. Lies(f, p, c)
    <3>1. \A j \in 1 .. Len(c) : j \in 1 .. Len(g) /\ g[j] = c[j]
      BY <2>1, <2>3
    <3>2. p + Len(c) <= Len(f)
      BY <2>3, <2>4
    <3> QED  BY <2>4, <3>1, <3>2 DEF Lies
  <2>6. Lies(f, q, e)
    <3>1. ASSUME NEW j \in 1 .. l PROVE f[q + j] = e[j]
      <4>1. Len(c) + j \in 1 .. Len(g) /\ g[Len(c) + j] = e[j]
        BY <2>1, <2>3
      <4>2. p + (Len(c) + j) = q + j
        BY <2>2
      <4> QED  BY <2>4, <4>1, <4>2
    <3>2. q + l <= Len(f)
      BY <2>2, <2>3, <2>4
    <3> QED  BY <2>1, <3>1, <3>2 DEF Lies
  <2>7. Reaches(f, m + Len(us), q) /\ OnWalk(f, q, us)
    BY <1>2, <2>2, <2>5
  <2>8. HeaderAt(f, q) /\ EndAt(f, q) = q + l /\ KeyAt(f, q) = Key(t)
    BY <2>1, <2>6, TupleRead
  <2>9. PICK z \in Nat : z = q + l /\ z = p + Len(g)
    BY <2>2, <2>3
  <2>10. Reaches(f, m + Len(Append(us, t)), z)
    <3>1. PICK n \in Nat : n = m + Len(us) /\ n + 1 = m + Len(Append(us, t))
      <4>1. Len(Append(us, t)) = Len(us) + 1 /\ Len(us) \in Nat
        OBVIOUS
      <4> QED  BY <4>1
    <3> QED  BY <2>7, <2>8, <2>9, <3>1, WalkOn
  <2>11. OnWalk(f, z, Append(us, t))
    <3> SUFFICES ASSUME NEW w \in ToSet(Append(us, t))
                 PROVE  \E n, o \in Nat : Reaches(f, n, o) /\ HeaderAt(f, o)
                                          /\ EndAt(f, o) <= z /\ KeyAt(f, o) = Key(w)
      BY DEF OnWalk
    <3>1. w \in ToSet(us) \/ w = t
      BY DEF ToSet
    <3>2. CASE w = t
      <4>1. m + Len(us) \in Nat
        OBVIOUS
      <4> QED  BY <2>7, <2>8, <2>9, <3>2, <4>1
    <3>3. CASE w \in ToSet(us)
      <4>1. PICK n, o \in Nat : Reaches(f, n, o) /\ HeaderAt(f, o)
                                /\ EndAt(f, o) <= q /\ KeyAt(f, o) = Key(w)
        BY <2>7, <3>3 DEF OnWalk
      <4>2. EndAt(f, o) \in Nat
        BY <4>1, HeaderCells
      <4>3. EndAt(f, o) <= z
        BY <2>9, <4>1, <4>2
      <4> QED  BY <4>1, <4>3
    <3> QED  BY <3>1, <3>2, <3>3
  <2> QED  BY <2>1, <2>3, <2>9, <2>10, <2>11
<1>3. R \in SUBSET (Seq(Pairs) \X Seq(Nat)) /\ Lengthens(R)
  <2>1. ASSUME NEW us \in Seq(Pairs), NEW c \in Seq(Nat), NEW t \in Pairs, <<us, c>> \in R
        PROVE  <<Append(us, t), c \o Encode(t)>> \in R
    <3>1. Encode(t) \in Seq(Nat)
      BY EncodeCells
    <3>2. Append(us, t) \in Seq(Pairs) /\ c \o Encode(t) \in Seq(Nat)
      BY <3>1
    <3> HIDE DEF Read
    <3> QED  BY <1>2, <2>1, <3>2
  <2> HIDE DEF Read
  <2> QED  BY <1>1, <2>1 DEF Lengthens
<1>4. <<ts, b>> \in R
  <2> HIDE DEF R
  <2> QED  BY <1>3 DEF Spells
<1> QED  BY <1>4

\* Cells that spell no tuple are none, and none spell no tuple.
LEMMA SpellsNothing ==
  ASSUME NEW ts \in Seq(Pairs), NEW b \in Seq(Nat), Spells(ts, b)
  PROVE  b = << >> => ts = << >>
<1> DEFINE R == {x \in Seq(Pairs) \X Seq(Nat) : x[2] = << >> => x[1] = << >>}
<1>1. << << >>, << >> >> \in R
  <2>1. << >> \in Seq(Pairs) /\ << >> \in Seq(Nat)
    OBVIOUS
  <2> QED  BY <2>1
<1>2. ASSUME NEW us \in Seq(Pairs), NEW c \in Seq(Nat), NEW t \in Pairs
      PROVE  <<Append(us, t), c \o Encode(t)>> \in R
  <2>2. PICK e \in Seq(Nat) : e = Encode(t) /\ e # << >>
    BY EncodeCells
  <2>3. c \o e \in Seq(Nat) /\ c \o e # << >>
    BY <2>2, ConcatEqualIffEmpty, ConcatProperties
  <2>4. Append(us, t) \in Seq(Pairs)
    OBVIOUS
  <2> QED  BY <2>2, <2>3, <2>4
<1>3. R \in SUBSET (Seq(Pairs) \X Seq(Nat)) /\ Lengthens(R)
  BY <1>1, <1>2 DEF Lengthens
<1>4. <<ts, b>> \in R
  <2> HIDE DEF R
  <2> QED  BY <1>3 DEF Spells
<1> QED  BY <1>4

\* What is on the walk up to offset d stays there under a write further on.
LEMMA OnWalkKept ==
  ASSUME NEW f \in Seq(Nat), NEW g \in Seq(Nat), NEW p \in Nat, Keeps(f, g, p),
         NEW d \in Nat, d <= p, NEW ts, OnWalk(f, d, ts)
  PROVE  OnWalk(g, d, ts)
<1> SUFFICES ASSUME NEW w \in ToSet(ts)
             PROVE  \E n, o \in Nat : Reaches(g, n, o) /\ HeaderAt(g, o)
                                      /\ EndAt(g, o) <= d /\ KeyAt(g, o) = Key(w)
  BY DEF OnWalk
<1>1. PICK n, o \in Nat : Reaches(f, n, o) /\ HeaderAt(f, o)
                          /\ EndAt(f, o) <= d /\ KeyAt(f, o) = Key(w)
  BY DEF OnWalk
<1>2. PICK k, v \in Nat : Words(f, o, k, v)
  BY <1>1, WordsOfHeader
<1>3. PICK e \in Nat : e = EndAt(f, o) /\ e = o + 2 + k + v
  BY <1>2, HeaderOfWords
<1>4. e <= p /\ o <= p
  BY <1>1, <1>3
<1>5. Reaches(g, n, o)
  BY <1>1, <1>4, WalkKept
<1>6. HeaderAt(g, o) /\ EndAt(g, o) = EndAt(f, o) /\ KeyAt(g, o) = KeyAt(f, o)
  <2>1. EndAt(f, o) <= p
    BY <1>3, <1>4
  <2> QED  BY <1>1, <2>1, HeaderKept
<1> QED  BY <1>1, <1>5, <1>6

----------------------------------------------------------------------------
(* Reading *)

Readers == [buf : Seq(Nat), off : Nat, fpos : Nat, eof : BOOLEAN,
            out : {"ok", "end", "aborted"}, field : Seq(Nat)]

Reading(r, f) ==
  r \in Readers /\ r.off <= Len(r.buf) /\ Len(r.buf) <= ReadCap /\ r.fpos <= Len(f)

\* What is left in the buffer, and how much.
LEMMA LeftOver ==
  ASSUME NEW r \in Readers, r.off <= Len(r.buf)
  PROVE  Left(r) \in Seq(Nat) /\ Len(Left(r)) = Len(r.buf) - r.off
<1>1. PICK b \in Seq(Nat), o \in Nat, n \in Nat : b = r.buf /\ o = r.off /\ n = Len(b) /\ o <= n
  BY DEF Readers
<1>2. \A i \in o + 1 .. n : b[i] \in Nat
  BY <1>1
<1>3. /\ SubSeq(b, o + 1, n) \in Seq(Nat)
      /\ Len(SubSeq(b, o + 1, n)) = IF o + 1 <= n THEN n - (o + 1) + 1 ELSE 0
  BY <1>2, SubSeqProperties
<1>4. (IF o + 1 <= n THEN n - (o + 1) + 1 ELSE 0) = n - o
  BY <1>1
<1> QED  BY <1>1, <1>3, <1>4 DEF Left

\* A refill keeps within the capacity and the file.
LEMMA Refills ==
  ASSUME file \in Seq(Nat), NEW r, Reading(r, file)
  PROVE  Reading(Refilled(r), file) /\ Reading(Shifted(r), file)
<1>1. PICK b \in Seq(Nat), o \in Nat, x \in Nat, l \in Seq(Nat), m \in Nat :
        /\ b = r.buf /\ o = r.off /\ x = r.fpos /\ l = Left(r) /\ m = Len(l)
        /\ m = Len(b) - o /\ o <= Len(b) /\ Len(b) <= ReadCap /\ x <= Len(file)
  <2>1. r \in Readers /\ r.off <= Len(r.buf)
    BY DEF Reading
  <2>2. Left(r) \in Seq(Nat) /\ Len(Left(r)) = Len(r.buf) - r.off /\ Len(Left(r)) \in Nat
    BY <2>1, LeftOver
  <2> QED  BY <2>1, <2>2 DEF Reading, Readers
<1>2. m <= ReadCap /\ Len(b) \in Nat /\ ReadCap \in Nat /\ Len(file) \in Nat
  BY <1>1, Assumption
<1>3. PICK w \in Nat : w = ReadCap - m
  BY <1>2
<1>4. PICK c \in Nat : c = Min({w, Len(file) - x}) /\ c <= w /\ x + c <= Len(file)
  <2>1. PICK a \in Nat : a = Len(file) - x
    BY <1>1, <1>2
  <2>2. PICK y \in {w, a} : \A z \in {w, a} : y <= z
    BY <2>1
  <2>3. Min({w, a}) \in {w, a} /\ \A z \in {w, a} : Min({w, a}) <= z
    BY <2>2 DEF Min
  <2> QED  BY <1>1, <1>2, <2>1, <2>3
<1>5. PICK s \in Seq(Nat) : s = SubSeq(file, x + 1, x + c) /\ Len(s) = c
  <2>1. \A i \in x + 1 .. x + c : file[i] \in Nat
    BY <1>4
  <2>2. /\ SubSeq(file, x + 1, x + c) \in Seq(Nat)
        /\ Len(SubSeq(file, x + 1, x + c)) = IF x + 1 <= x + c THEN x + c - (x + 1) + 1 ELSE 0
    BY <2>1, SubSeqProperties
  <2>3. (IF x + 1 <= x + c THEN x + c - (x + 1) + 1 ELSE 0) = c
    OBVIOUS
  <2> QED  BY <2>2, <2>3
<1>6. PICK d \in Seq(Nat) : d = l \o s /\ Len(d) = m + c /\ Len(d) <= ReadCap
  <2>1. l \o s \in Seq(Nat) /\ Len(l \o s) = m + c
    <3>1. m = Len(l) /\ c = Len(s)
      BY <1>1, <1>5
    <3> QED  BY <3>1, Joined
  <2>2. m + c <= ReadCap
    BY <1>2, <1>3, <1>4
  <2> QED  BY <2>1, <2>2
<1>7. Shifted(r) = [r EXCEPT !.buf = l, !.off = 0] /\ Shifted(r).buf = l
      /\ Shifted(r).fpos = x /\ Shifted(r) \in Readers /\ Shifted(r).off = 0
  BY <1>1 DEF Shifted, Reading, Readers
<1>8. Refilled(r) = [Shifted(r) EXCEPT !.buf = d, !.fpos = x + c, !.eof = c < w]
  BY <1>1, <1>3, <1>4, <1>5, <1>6, <1>7 DEF Refilled
<1>9. Reading(Shifted(r), file)
  <2>1. 0 <= m /\ m <= ReadCap /\ x <= Len(file) /\ Len(l) = m
    BY <1>1, <1>2
  <2> QED  BY <1>7, <2>1 DEF Reading
<1>10. Refilled(r) \in Readers /\ Refilled(r).buf = d /\ Refilled(r).fpos = x + c
       /\ Refilled(r).off = 0
  <2>0. (c < w) \in BOOLEAN
    OBVIOUS
  <2>1. PICK q \in Readers, y \in Nat : q = Shifted(r) /\ y = x + c
    BY <1>7
  <2>2. Refilled(r) = [q EXCEPT !.buf = d, !.fpos = y, !.eof = c < w]
    BY <1>8, <2>1
  <2>3. q.off = 0
    BY <1>7, <2>1
  <2> QED  BY <2>0, <2>1, <2>2, <2>3 DEF Readers
<1>11. Reading(Refilled(r), file)
  BY <1>4, <1>6, <1>10 DEF Reading
<1> QED  BY <1>9, <1>11

\* A field that is taken has its length, and the reader stays within bounds.
LEMMA TakesField ==
  ASSUME file \in Seq(Nat), NEW r, Reading(r, file), NEW n \in Nat
  PROVE  /\ Reading(TakeField(r, n), file)
         /\ TakeField(r, n).out = "ok" => Len(TakeField(r, n).field) = n
<1> DEFINE p == IF r.out = "ok" THEN Prepared(r, n) ELSE r
<1>2. Reading(p, file)
  <2>1. Reading([r EXCEPT !.out = "aborted"], file)
    BY DEF Reading, Readers
  <2>2. Reading([Shifted(r) EXCEPT !.out = "end"], file)
    BY Refills DEF Reading, Readers
  <2>3. Reading(Prepared(r, n), file)
    BY <2>1, <2>2, Refills DEF Prepared
  <2> QED  BY <2>3
<1>3. /\ p.out # "ok" => TakeField(r, n) = p
      /\ p.out = "ok" /\ p.off + n > Len(p.buf)
           => TakeField(r, n) = [p EXCEPT !.out = "aborted"]
      /\ p.out = "ok" /\ ~ (p.off + n > Len(p.buf))
           => TakeField(r, n) = [p EXCEPT !.off = p.off + n,
                                          !.field = SubSeq(p.buf, p.off + 1, p.off + n)]
  BY DEF TakeField
<1> HIDE DEF p
<1>4. CASE p.out # "ok"
  BY <1>2, <1>3, <1>4
<1>5. CASE p.out = "ok" /\ p.off + n > Len(p.buf)
  <2>1. TakeField(r, n) = [p EXCEPT !.out = "aborted"]
    BY <1>3, <1>5
  <2> QED  BY <1>2, <2>1 DEF Reading, Readers
<1>6. CASE p.out = "ok" /\ ~ (p.off + n > Len(p.buf))
  <2>1. PICK b \in Seq(Nat), o \in Nat : b = p.buf /\ o = p.off /\ o + n <= Len(b)
    BY <1>2, <1>6 DEF Reading, Readers
  <2>2. PICK s \in Seq(Nat) : s = SubSeq(b, o + 1, o + n) /\ Len(s) = n
    <3>1. \A i \in o + 1 .. o + n : b[i] \in Nat
      BY <2>1
    <3>2. /\ SubSeq(b, o + 1, o + n) \in Seq(Nat)
          /\ Len(SubSeq(b, o + 1, o + n)) = IF o + 1 <= o + n THEN o + n - (o + 1) + 1 ELSE 0
      BY <3>1, SubSeqProperties
    <3>3. (IF o + 1 <= o + n THEN o + n - (o + 1) + 1 ELSE 0) = n
      OBVIOUS
    <3> QED  BY <3>2, <3>3
  <2>3. PICK y \in Nat : y = o + n /\ y <= Len(b)
    BY <2>1
  <2>4. TakeField(r, n) = [p EXCEPT !.off = y, !.field = s]
    BY <1>3, <1>6, <2>1, <2>2, <2>3
  <2>5. PICK q : q = TakeField(r, n)
    OBVIOUS
  <2>6. q \in Readers /\ q.off = y /\ q.buf = b /\ q.fpos = p.fpos /\ q.field = s
    BY <1>2, <2>1, <2>4, <2>5 DEF Reading, Readers
  <2>7. Reading(q, file)
    BY <1>2, <2>1, <2>3, <2>6 DEF Reading
  <2> QED  BY <2>2, <2>5, <2>6, <2>7
<1> QED  BY <1>4, <1>5, <1>6

\* A length word that was taken is a number.
LEMMA WordIsNumber ==
  ASSUME NEW r \in Readers, r.out = "ok" => Len(r.field) = 1
  PROVE  Word(r) \in Nat
  BY DEF Word, Readers

----------------------------------------------------------------------------
(* The invariant *)

\* Up to offset d the file is complete tuples, and ts are among them.
Complete(f, d, ts) ==
  /\ \E n \in Nat : n >= Len(ts) /\ Reaches(f, n, d)
  /\ OnWalk(f, d, ts)

TypeInv ==
  /\ file \in Seq(Nat) /\ buf \in Seq(Nat) /\ pending \in Seq(Nat)
  /\ mode \in {"closed", "write", "read", "end", "aborted"}
  /\ keys \in SUBSET Seq(Nat)
  /\ pos \in Nat /\ durable \in Nat /\ durable <= Len(file)
  /\ Reading(rd, file)
  /\ Len(buf) <= WriteCap
  /\ queued \in Seq(Pairs) /\ sent \in Seq(Pairs) /\ flushed \in Seq(Pairs)

\* What is not in the file yet is complete tuples.
UnwrittenInv ==
  Spells(sent, pending) /\ Spells(sent \o queued, pending \o buf)

\* The put pointer is where a tuple ends, and behind the flushed ones.
PointerInv ==
  mode = "write" => /\ durable <= pos
                    /\ \E n \in Nat : n >= Len(flushed) /\ Reaches(file, n, pos)

ShardInv == TypeInv /\ UnwrittenInv /\ Complete(file, durable, flushed) /\ PointerInv

\* Complete tuples stay complete under a write behind them.
LEMMA CompleteKept ==
  ASSUME NEW f \in Seq(Nat), NEW g \in Seq(Nat), NEW p \in Nat, Keeps(f, g, p),
         NEW d \in Nat, d <= p, NEW ts, Complete(f, d, ts)
  PROVE  Complete(g, d, ts)
<1>1. PICK n \in Nat : n >= Len(ts) /\ Reaches(f, n, d)
  BY DEF Complete
<1>2. Reaches(g, n, d)
  BY <1>1, WalkKept
<1>3. OnWalk(g, d, ts)
  BY OnWalkKept DEF Complete
<1> QED  BY <1>1, <1>2, <1>3 DEF Complete

\* What Settle writes where a tuple ends is complete with what was before it.
LEMMA CompleteSettled ==
  ASSUME NEW f \in Seq(Nat), NEW d \in Nat, NEW p \in Nat, d <= p, d <= Len(f),
         NEW fl \in Seq(Pairs), Complete(f, d, fl),
         NEW n \in Nat, n >= Len(fl), Reaches(f, n, p),
         NEW ts \in Seq(Pairs), NEW b \in Seq(Nat), Spells(ts, b),
         NEW e, e = IF b = << >> THEN d ELSE p + Len(b)
  PROVE  /\ Complete(Written(f, p, b), e, fl \o ts)
         /\ e \in Nat /\ e <= Len(Written(f, p, b))
<1>1. PICK g \in Seq(Nat) : /\ g = Written(f, p, b) /\ Keeps(f, g, p) /\ Lies(g, p, b)
                            /\ Len(f) \in Nat /\ Len(g) \in Nat /\ Len(f) <= Len(g)
  <2>1. Len(f) \in Nat /\ Len(Written(f, p, b)) \in Nat
    BY WrittenCells
  <2> QED  BY <2>1, WrittenCells DEF Lies, Keeps
<1>2. CASE b = << >>
  <2>1. fl \o ts = fl
    BY <1>2, SpellsNothing, ConcatEmptySeq
  <2>2. Complete(g, d, fl)
    BY <1>1, CompleteKept
  <2>3. d <= Len(g)
    BY <1>1
  <2> QED  BY <1>1, <1>2, <2>1, <2>2, <2>3
<1>3. CASE b # << >>
  <2>1. PICK z \in Nat : z = p + Len(b) /\ z = e /\ z >= d
    BY <1>3
  <2>2. Reaches(g, n, p)
    BY <1>1, WalkKept
  <2>3. Reaches(g, n + Len(ts), z) /\ OnWalk(g, z, ts)
    BY <1>1, <2>1, <2>2, TuplesRead
  <2>4. OnWalk(g, d, fl)
    BY <1>1, OnWalkKept DEF Complete
  <2>5. OnWalk(g, z, fl \o ts)
    <3> SUFFICES ASSUME NEW w \in ToSet(fl \o ts)
                 PROVE  \E m, o \in Nat : Reaches(g, m, o) /\ HeaderAt(g, o)
                                          /\ EndAt(g, o) <= z /\ KeyAt(g, o) = Key(w)
      BY DEF OnWalk
    <3>1. w \in ToSet(fl) \/ w \in ToSet(ts)
      BY DEF ToSet
    <3>2. CASE w \in ToSet(ts)
      BY <2>3, <3>2 DEF OnWalk
    <3>3. CASE w \in ToSet(fl)
      <4>1. PICK m, o \in Nat : Reaches(g, m, o) /\ HeaderAt(g, o)
                                /\ EndAt(g, o) <= d /\ KeyAt(g, o) = Key(w)
        BY <2>4, <3>3 DEF OnWalk
      <4>2. EndAt(g, o) \in Nat
        BY <4>1, HeaderCells
      <4>3. EndAt(g, o) <= z
        BY <2>1, <4>1, <4>2
      <4> QED  BY <4>1, <4>3
    <3> QED  BY <3>1, <3>2, <3>3
  <2>6. n + Len(ts) \in Nat /\ n + Len(ts) >= Len(fl \o ts)
    <3>1. Len(fl \o ts) = Len(fl) + Len(ts) /\ Len(fl) \in Nat /\ Len(ts) \in Nat
      BY ConcatProperties
    <3> QED  BY <3>1
  <2>7. z <= Len(g)
    BY <1>1, <1>3, <2>1 DEF Lies
  <2>8. Complete(g, z, fl \o ts)
    BY <2>3, <2>5, <2>6 DEF Complete
  <2> QED  BY <1>1, <2>1, <2>7, <2>8
<1> QED  BY <1>2, <1>3

----------------------------------------------------------------------------
(* The steps *)

\* The tuples of the source are pairs of a key and a value.
LEMMA TypesOfTuples == Tuples \subseteq Pairs
  BY Assumption DEF Pairs

\* A new reader stands at the start of any file.
LEMMA NewReads ==
  ASSUME NEW f \in Seq(Nat)
  PROVE  Reading(NewReader, f)
<1>1. Len(f) \in Nat /\ Len(<< >>) = 0 /\ ReadCap \in Nat /\ << >> \in Seq(Nat)
  BY Assumption
<1>2. NewReader \in Readers /\ NewReader.off = 0 /\ NewReader.buf = << >> /\ NewReader.fpos = 0
  BY <1>1 DEF NewReader, Readers
<1> QED  BY <1>1, <1>2 DEF Reading

\* A reader stays within a file that has grown.
LEMMA ReadsOn ==
  ASSUME NEW f \in Seq(Nat), NEW g \in Seq(Nat), Len(f) <= Len(g), NEW r, Reading(r, f)
  PROVE  Reading(r, g)
<1>1. r.fpos \in Nat /\ r.fpos <= Len(f) /\ Len(f) \in Nat /\ Len(g) \in Nat
  BY DEF Reading, Readers
<1> QED  BY <1>1 DEF Reading

\* Nothing is on the way when the buffers are empty.
LEMMA NothingUnwritten == Spells(<< >>, << >>) /\ Spells(<< >> \o << >>, << >> \o << >>)
<1>1. (<< >> \o << >>) = << >>
  OBVIOUS
<1> QED  BY <1>1, SpellsOn

\* An empty file, and nothing flushed.
LEMMA CompleteEmpty ==
  ASSUME NEW f \in Seq(Nat)
  PROVE  Complete(f, 0, << >>) /\ Reaches(f, 0, 0)
<1>1. OnWalk(f, 0, << >>)
  BY DEF OnWalk, ToSet
<1> QED  BY <1>1, WalkOn DEF Complete

\* An absent file is a shard.
LEMMA InitInv == Init => ShardInv
<1> SUFFICES ASSUME Init PROVE ShardInv
  OBVIOUS
<1>1. << >> \in Seq(Nat) /\ Len(<< >>) = 0 /\ << >> \in Seq(Pairs) /\ WriteCap \in Nat
      /\ {} \in SUBSET Seq(Nat)
  BY Assumption
<1>2. Reading(NewReader, << >>)
  BY <1>1, NewReads
<1>3. TypeInv
  BY <1>1, <1>2 DEF Init, TypeInv
<1>4. UnwrittenInv
  BY NothingUnwritten DEF Init, UnwrittenInv
<1>5. Complete(file, durable, flushed)
  BY <1>1, CompleteEmpty DEF Init
<1>6. PointerInv
  BY DEF Init, PointerInv
<1> QED  BY <1>3, <1>4, <1>5, <1>6 DEF ShardInv

\* kCreate truncates: nothing is flushed any more.
LEMMA CreateStep == ShardInv /\ OpenCreate => ShardInv'
<1> SUFFICES ASSUME ShardInv, OpenCreate PROVE ShardInv'
  OBVIOUS
<1>1. << >> \in Seq(Nat) /\ Len(<< >>) = 0 /\ << >> \in Seq(Pairs) /\ WriteCap \in Nat
      /\ {} \in SUBSET Seq(Nat)
  BY Assumption
<1>2. /\ file' = << >> /\ mode' = "write" /\ keys' = {} /\ buf' = << >> /\ pending' = << >>
      /\ pos' = 0 /\ queued' = << >> /\ sent' = << >> /\ flushed' = << >> /\ durable' = 0
      /\ rd' = NewReader
  BY DEF OpenCreate, StartWriting
<1>3. Reading(NewReader, << >>)
  BY <1>1, NewReads
<1>4. TypeInv'
  BY <1>1, <1>2, <1>3 DEF TypeInv
<1>5. UnwrittenInv'
  BY <1>2, NothingUnwritten DEF UnwrittenInv
<1>6. Complete(<< >>, 0, << >>) /\ Reaches(<< >>, 0, 0)
  BY <1>1, CompleteEmpty
<1>7. PointerInv'
  BY <1>1, <1>2, <1>6 DEF PointerInv
<1>8. Complete(file, durable, flushed)'
  BY <1>2, <1>6
<1> QED  BY <1>4, <1>5, <1>7, <1>8 DEF ShardInv

\* The walk of kAppend ends behind all that was flushed.
LEMMA AppendStep == ShardInv /\ OpenAppend => ShardInv'
<1> SUFFICES ASSUME ShardInv, OpenAppend PROVE ShardInv'
  OBVIOUS
<1>1. << >> \in Seq(Nat) /\ Len(<< >>) = 0 /\ << >> \in Seq(Pairs) /\ WriteCap \in Nat
  BY Assumption
<1>2. /\ file' = file /\ mode' = "write" /\ keys' = Scan(file).keys /\ buf' = << >>
      /\ pending' = << >> /\ pos' = Scan(file).last /\ queued' = << >> /\ sent' = << >>
      /\ flushed' = flushed /\ durable' = durable /\ rd' = NewReader
  BY DEF OpenAppend, StartWriting, PutPointer
<1>3. TypeInv /\ Complete(file, durable, flushed)
  BY DEF ShardInv
<1>4. file \in Seq(Nat) /\ durable \in Nat /\ Len(flushed) \in Nat
  BY <1>3 DEF TypeInv
<1>5. PICK n \in Nat : n >= Len(flushed) /\ Reaches(file, n, durable)
  BY <1>3 DEF Complete
<1>6. PICK c \in Nat, l \in Nat : /\ c = Scan(file).count /\ l = Scan(file).last
                                  /\ Scan(file).keys \in SUBSET Seq(Nat)
                                  /\ Reaches(file, c, l) /\ durable <= l /\ n <= c
  BY <1>4, <1>5, ScanWalks
<1>7. Reading(NewReader, file)
  BY <1>4, NewReads
<1>8. TypeInv'
  BY <1>1, <1>2, <1>3, <1>6, <1>7 DEF TypeInv
<1>9. UnwrittenInv'
  BY <1>2, NothingUnwritten DEF UnwrittenInv
<1>10. PointerInv'
  <2>1. c >= Len(flushed)
    BY <1>4, <1>5, <1>6
  <2> QED  BY <1>2, <1>6, <2>1 DEF PointerInv
<1>11. Complete(file, durable, flushed)'
  BY <1>2, <1>3
<1> QED  BY <1>8, <1>9, <1>10, <1>11 DEF ShardInv

\* Steps of a reader, and the opening of one.
LEMMA ReaderStep ==
  ShardInv /\ (OpenRead \/ ReadNext \/ SeekToFirst \/ CloseReader) => ShardInv'
<1> SUFFICES ASSUME ShardInv, OpenRead \/ ReadNext \/ SeekToFirst \/ CloseReader
             PROVE  ShardInv'
  OBVIOUS
<1>1. UNCHANGED <<file, keys, buf, pending, pos, queued, sent, flushed, durable>>
  BY DEF OpenRead, ReadNext, SeekToFirst, CloseReader, writervars
<1>2. mode' \in {"closed", "read", "end", "aborted"}
  BY DEF OpenRead, ReadNext, SeekToFirst, CloseReader
<1>3. TypeInv /\ file \in Seq(Nat)
  BY DEF ShardInv, TypeInv
<1>4. Reading(rd', file)
  <2>1. CASE OpenRead \/ SeekToFirst \/ CloseReader
    BY <1>3, <2>1, NewReads DEF OpenRead, SeekToFirst, CloseReader
  <2>2. CASE ReadNext
    <3>1. PICK r : r = [rd EXCEPT !.out = "ok"]
      OBVIOUS
    <3>2. PICK keylen : keylen = TakeWord(r)
      OBVIOUS
    <3>3. PICK key : key = TakeData(keylen)
      OBVIOUS
    <3>4. PICK vallen : vallen = TakeWord(key)
      OBVIOUS
    <3>5. PICK val : val = TakeData(vallen)
      OBVIOUS
    <3>6. rd' = [val EXCEPT !.field = << >>]
      BY <2>2, <3>1, <3>2, <3>3, <3>4, <3>5 DEF ReadNext
    <3>7. Reading(r, file)
      BY <1>3, <3>1 DEF TypeInv, Reading, Readers
    <3>8. Reading(keylen, file) /\ Word(keylen) \in Nat
      <4>1. 1 \in Nat
        OBVIOUS
      <4>2. Reading(keylen, file) /\ (keylen.out = "ok" => Len(keylen.field) = 1)
        BY <1>3, <3>2, <3>7, <4>1, TakesField DEF TakeWord
      <4> QED  BY <4>2, WordIsNumber DEF Reading
    <3>9. Reading(key, file)
      BY <1>3, <3>3, <3>8, TakesField DEF TakeData
    <3>10. Reading(vallen, file) /\ Word(vallen) \in Nat
      <4>1. 1 \in Nat
        OBVIOUS
      <4>2. Reading(vallen, file) /\ (vallen.out = "ok" => Len(vallen.field) = 1)
        BY <1>3, <3>4, <3>9, <4>1, TakesField DEF TakeWord
      <4> QED  BY <4>2, WordIsNumber DEF Reading
    <3>11. Reading(val, file)
      BY <1>3, <3>5, <3>10, TakesField DEF TakeData
    <3>12. << >> \in Seq(Nat)
      OBVIOUS
    <3> QED  BY <3>6, <3>11, <3>12 DEF Reading, Readers
  <2> QED  BY <2>1, <2>2
<1>5. TypeInv'
  BY <1>1, <1>2, <1>3, <1>4 DEF TypeInv
<1>6. UnwrittenInv'
  BY <1>1 DEF ShardInv, UnwrittenInv
<1>7. PointerInv'
  BY <1>2 DEF PointerInv
<1>8. Complete(file, durable, flushed)'
  BY <1>1 DEF ShardInv
<1> QED  BY <1>5, <1>6, <1>7, <1>8 DEF ShardInv

\* Insert, when the process lives: the tuple goes behind what is not written yet.
LEMMA InsertStep ==
  ASSUME ShardInv, NEW t \in Tuples, Insert(t)
  PROVE  mode' = "closed" \/ ShardInv'
<1>1. TypeInv /\ UnwrittenInv /\ PointerInv /\ Complete(file, durable, flushed)
  BY DEF ShardInv
<1>2. PICK e \in Seq(Nat) : e = Encode(t) /\ t \in Pairs
  BY TypesOfTuples, EncodeCells
<1>3. /\ buf \in Seq(Nat) /\ pending \in Seq(Nat) /\ sent \in Seq(Pairs) /\ queued \in Seq(Pairs)
      /\ pending \o buf \in Seq(Nat) /\ sent \o queued \in Seq(Pairs)
      /\ Len(buf) \in Nat /\ Len(e) \in Nat /\ WriteCap \in Nat
  BY <1>1, Assumption, ConcatProperties DEF TypeInv
<1>4. Spells(Append(sent \o queued, t), (pending \o buf) \o e)
  BY <1>1, <1>2, <1>3, SpellsOn DEF UnwrittenInv
<1>5. CASE ~ NoRoom(t)
  <2>1. /\ buf' = buf \o e /\ queued' = Append(queued, t)
        /\ UNCHANGED <<file, mode, keys, pending, pos, sent, rd, flushed, durable>>
    BY <1>2, <1>5 DEF Insert
  <2>2. buf \o e \in Seq(Nat) /\ Len(buf \o e) <= WriteCap
    <3>1. Len(buf) + Len(e) <= WriteCap
      BY <1>2, <1>3, <1>5 DEF NoRoom
    <3> QED  BY <1>3, <3>1, ConcatProperties
  <2>3. Append(queued, t) \in Seq(Pairs)
    BY <1>2, <1>3
  <2>4. TypeInv'
    BY <1>1, <2>1, <2>2, <2>3 DEF TypeInv
  <2>5. (pending \o buf) \o e = pending \o (buf \o e)
    <3>1. PICK x \in Seq(Nat), y \in Seq(Nat) : x = pending /\ y = buf
      BY <1>3
    <3>2. (x \o y) \o e = x \o (y \o e)
      BY ConcatAssociative
    <3> QED  BY <3>1, <3>2
  <2>6. Append(sent \o queued, t) = sent \o Append(queued, t)
    <3>1. Append(sent \o queued, t) = (sent \o queued) \o <<t>>
      BY <1>2, <1>3, AppendIsConcat
    <3>2. Append(queued, t) = queued \o <<t>>
      BY <1>2, <1>3, AppendIsConcat
    <3>3. <<t>> \in Seq(Pairs)
      BY <1>2
    <3> QED  BY <1>3, <3>1, <3>2, <3>3, ConcatAssociative
  <2>7. UnwrittenInv'
    BY <1>1, <1>4, <2>1, <2>5, <2>6 DEF UnwrittenInv
  <2>8. PointerInv'
    BY <1>1, <2>1 DEF PointerInv
  <2> QED  BY <1>1, <2>1, <2>4, <2>7, <2>8 DEF ShardInv
<1>6. CASE NoRoom(t) /\ Len(Encode(t)) <= WriteCap
  <2>1. /\ pending' = pending \o buf /\ sent' = sent \o queued /\ buf' = e /\ queued' = <<t>>
        /\ UNCHANGED <<file, mode, keys, pos, rd, flushed, durable>>
    BY <1>2, <1>6 DEF Insert
  <2>2. <<t>> \in Seq(Pairs) /\ Len(e) <= WriteCap
    BY <1>2, <1>6
  <2>3. TypeInv'
    BY <1>1, <1>3, <2>1, <2>2 DEF TypeInv
  <2>4. Append(sent \o queued, t) = (sent \o queued) \o <<t>>
    BY <1>2, <1>3, AppendIsConcat
  <2>5. UnwrittenInv'
    BY <1>1, <1>4, <2>1, <2>4 DEF UnwrittenInv
  <2>6. PointerInv'
    BY <1>1, <2>1 DEF PointerInv
  <2> QED  BY <1>1, <2>1, <2>3, <2>5, <2>6 DEF ShardInv
<1>7. CASE NoRoom(t) /\ ~ (Len(Encode(t)) <= WriteCap)
  BY <1>7 DEF Insert, Die
<1> QED  BY <1>5, <1>6, <1>7

\* The process dies: what comes into the file comes behind what was flushed.
LEMMA DieStep ==
  ASSUME ShardInv, mode = "write", NEW given \in Seq(Nat), Die(given)
  PROVE  ShardInv' /\ Keeps(file, file', pos)
<1>1. TypeInv /\ PointerInv /\ Complete(file, durable, flushed)
  BY DEF ShardInv
<1>2. file \in Seq(Nat) /\ pos \in Nat /\ durable \in Nat /\ durable <= pos
      /\ durable <= Len(file) /\ Len(file) \in Nat
  BY <1>1 DEF TypeInv, PointerInv
<1>3. PICK n \in 0 .. Len(given) : file' = Written(file, pos, SubSeq(given, 1, n))
  BY DEF Die
<1>4. PICK b \in Seq(Nat) : b = SubSeq(given, 1, n)
  <2>1. \A i \in 1 .. n : given[i] \in Nat
    BY <1>3
  <2>2. SubSeq(given, 1, n) \in Seq(Nat)
    BY <1>3, <2>1, SubSeqProperties
  <2> QED  BY <2>2
<1>5. file' = Written(file, pos, b)
  BY <1>3, <1>4
<1>6. file' \in Seq(Nat) /\ Keeps(file, file', pos) /\ Len(file) <= Len(file') /\ Len(file') \in Nat
  <2>1. file' \in Seq(Nat) /\ Keeps(file, file', pos)
    BY <1>2, <1>5, WrittenCells
  <2> QED  BY <2>1 DEF Keeps
<1>7. /\ mode' = "closed" /\ keys' = {} /\ buf' = << >> /\ pending' = << >> /\ pos' = 0
      /\ queued' = << >> /\ sent' = << >> /\ UNCHANGED <<rd, flushed, durable>>
  BY DEF Die
<1>8. << >> \in Seq(Nat) /\ Len(<< >>) = 0 /\ << >> \in Seq(Pairs) /\ WriteCap \in Nat
      /\ {} \in SUBSET Seq(Nat)
  BY Assumption
<1>9. Reading(rd, file')
  BY <1>1, <1>2, <1>6, ReadsOn DEF TypeInv
<1>10. durable <= Len(file')
  BY <1>2, <1>6
<1>11. TypeInv'
  BY <1>1, <1>6, <1>7, <1>8, <1>9, <1>10 DEF TypeInv
<1>12. UnwrittenInv'
  BY <1>7, NothingUnwritten DEF UnwrittenInv
<1>13. PointerInv'
  BY <1>7 DEF PointerInv
<1>14. Complete(file', durable, flushed)
  BY <1>1, <1>2, <1>6, CompleteKept
<1>15. Complete(file, durable, flushed)'
  BY <1>7, <1>14
<1> QED  BY <1>6, <1>11, <1>12, <1>13, <1>15 DEF ShardInv

\* What is given to the file gets there: the flushed tuples are more by those.
LEMMA SettleStep ==
  ASSUME ShardInv, mode = "write", NEW b \in Seq(Nat), NEW ts \in Seq(Pairs), Spells(ts, b),
         Settle(b, ts), mode' \in {"write", "closed"}, keys' \in SUBSET Seq(Nat),
         buf' = << >>, queued' = << >>, rd' = rd
  PROVE  ShardInv' /\ Keeps(file, file', pos)
<1>1. TypeInv /\ PointerInv /\ Complete(file, durable, flushed)
  BY DEF ShardInv
<1>2. /\ file \in Seq(Nat) /\ pos \in Nat /\ durable \in Nat /\ durable <= pos
      /\ durable <= Len(file) /\ Len(file) \in Nat /\ flushed \in Seq(Pairs)
      /\ Len(flushed) \in Nat /\ Len(b) \in Nat /\ Len(ts) \in Nat
  BY <1>1 DEF TypeInv, PointerInv
<1>3. PICK n \in Nat : n >= Len(flushed) /\ Reaches(file, n, pos)
  BY <1>1 DEF PointerInv
<1>4. /\ file' = Written(file, pos, b) /\ pos' = pos + Len(b) /\ pending' = << >> /\ sent' = << >>
      /\ flushed' = flushed \o ts
  BY DEF Settle
<1>5. durable' = IF b = << >> THEN durable ELSE pos + Len(b)
  BY DEF Settle
<1>6. /\ Complete(file', durable', flushed') /\ durable' \in Nat /\ durable' <= Len(file')
  BY <1>1, <1>2, <1>3, <1>4, <1>5, CompleteSettled
<1>7. file' \in Seq(Nat) /\ Keeps(file, file', pos) /\ Len(file) <= Len(file')
      /\ Len(file') \in Nat /\ Lies(file', pos, b)
  <2>1. file' \in Seq(Nat) /\ Keeps(file, file', pos) /\ Lies(file', pos, b)
    <3>1. PICK f \in Seq(Nat), p \in Nat : f = file /\ p = pos
      BY <1>2
    <3>2. Written(f, p, b) \in Seq(Nat) /\ Keeps(f, Written(f, p, b), p)
          /\ Lies(Written(f, p, b), p, b)
      BY WrittenCells DEF Lies
    <3> QED  BY <1>4, <3>1, <3>2
  <2> QED  BY <2>1 DEF Keeps
<1>8. << >> \in Seq(Nat) /\ Len(<< >>) = 0 /\ << >> \in Seq(Pairs) /\ WriteCap \in Nat
  BY Assumption
<1>9. pos' \in Nat /\ durable' <= pos' /\ flushed' \in Seq(Pairs)
      /\ Len(flushed') = Len(flushed) + Len(ts)
  <2>1. flushed \o ts \in Seq(Pairs) /\ Len(flushed \o ts) = Len(flushed) + Len(ts)
    BY <1>2, ConcatProperties
  <2>2. pos + Len(b) \in Nat /\ durable' <= pos + Len(b)
    BY <1>2, <1>5
  <2> QED  BY <1>4, <2>1, <2>2
<1>10. Reading(rd, file')
  BY <1>1, <1>2, <1>7, ReadsOn DEF TypeInv
<1>11. TypeInv'
  BY <1>1, <1>4, <1>6, <1>7, <1>8, <1>9, <1>10 DEF TypeInv
<1>12. UnwrittenInv'
  BY <1>4, NothingUnwritten DEF UnwrittenInv
<1>13. Reaches(file', n + Len(ts), pos') /\ n + Len(ts) \in Nat /\ n + Len(ts) >= Len(flushed')
  <2>1. Reaches(file', n, pos)
    BY <1>2, <1>3, <1>7, WalkKept
  <2>2. Reaches(file', n + Len(ts), pos + Len(b))
    BY <1>2, <1>7, <2>1, TuplesRead
  <2> QED  BY <1>2, <1>3, <1>4, <1>9, <2>2
<1>14. PointerInv'
  BY <1>9, <1>13 DEF PointerInv
<1>15. Complete(file, durable, flushed)'
  BY <1>6
<1> QED  BY <1>7, <1>11, <1>12, <1>14, <1>15 DEF ShardInv

\* The steps of a writer: they write to the file behind the put pointer only.
WritingStep == (\E t \in Tuples : Insert(t)) \/ Flush \/ Close \/ Crash

\* A writer's step keeps the invariant and the cells before the put pointer.
LEMMA WritersStep ==
  ASSUME ShardInv, WritingStep
  PROVE  ShardInv' /\ mode = "write" /\ (file' = file \/ Keeps(file, file', pos))
<1>1. TypeInv /\ UnwrittenInv
  BY DEF ShardInv
<1>2. /\ buf \in Seq(Nat) /\ pending \in Seq(Nat) /\ sent \in Seq(Pairs) /\ queued \in Seq(Pairs)
      /\ pending \o buf \in Seq(Nat) /\ sent \o queued \in Seq(Pairs)
      /\ << >> \in Seq(Nat) /\ keys \in SUBSET Seq(Nat) /\ {} \in SUBSET Seq(Nat)
  BY <1>1, ConcatProperties DEF TypeInv
<1>3. CASE Flush
  <2>1. /\ mode = "write" /\ Settle(pending \o buf, sent \o queued) /\ mode' = mode /\ keys' = keys
        /\ buf' = << >> /\ queued' = << >> /\ rd' = rd
    BY <1>3 DEF Flush
  <2>2. Spells(sent \o queued, pending \o buf)
    BY <1>1 DEF UnwrittenInv
  <2> QED  BY <1>2, <2>1, <2>2, SettleStep
<1>4. CASE Close
  <2>1. /\ mode = "write" /\ Settle(pending, sent) /\ mode' = "closed" /\ keys' = {}
        /\ buf' = << >> /\ queued' = << >> /\ rd' = rd
    BY <1>4 DEF Close
  <2>2. Spells(sent, pending)
    BY <1>1 DEF UnwrittenInv
  <2> QED  BY <1>2, <2>1, <2>2, SettleStep
<1>5. CASE Crash
  BY <1>2, <1>5, DieStep DEF Crash
<1>6. CASE \E t \in Tuples : Insert(t)
  <2>1. PICK t \in Tuples : Insert(t)
    BY <1>6
  <2>2. mode = "write"
    BY <2>1 DEF Insert
  <2>3. CASE Die(pending \o buf)
    BY <1>2, <2>2, <2>3, DieStep
  <2>4. CASE mode' = mode /\ file' = file
    BY <2>1, <2>2, <2>4, InsertStep
  <2>5. Die(pending \o buf) \/ (mode' = mode /\ file' = file)
    BY <2>1 DEF Insert
  <2> QED  BY <2>3, <2>4, <2>5
<1> QED  BY <1>3, <1>4, <1>5, <1>6 DEF WritingStep

\* Every step keeps the invariant.
LEMMA NextInv == ShardInv /\ [Next]_vars => ShardInv'
<1> SUFFICES ASSUME ShardInv, [Next]_vars PROVE ShardInv'
  OBVIOUS
<1>1. CASE OpenCreate
  BY <1>1, CreateStep
<1>2. CASE OpenAppend
  BY <1>2, AppendStep
<1>3. CASE OpenRead \/ ReadNext \/ SeekToFirst \/ CloseReader
  BY <1>3, ReaderStep
<1>4. CASE WritingStep
  BY <1>4, WritersStep
<1>5. CASE UNCHANGED vars
  BY <1>5 DEF ShardInv, TypeInv, UnwrittenInv, PointerInv, vars, writervars
<1> QED  BY <1>1, <1>2, <1>3, <1>4, <1>5 DEF Next, WritingStep

\* The invariant holds in every reachable state.
LEMMA ShardInductive == Spec => []ShardInv
<1>1. Init => ShardInv
  BY InitInv
<1>2. ShardInv /\ [Next]_vars => ShardInv'
  BY NextInv
<1> QED  BY <1>1, <1>2, PTL DEF Spec

----------------------------------------------------------------------------
(* What holds of every shard *)

\* Every variable has its type in every reachable state; above all the reader
\* never stands outside its buffer, nor the buffer or the file (data_shard.cc,
\* PrepareNextField and Next), and the writer's buffer keeps its capacity.
THEOREM ShardTypes == Spec => []TypeOK
<1>1. ShardInv => TypeOK
  <2> SUFFICES ASSUME ShardInv PROVE TypeOK
    OBVIOUS
  <2>1. TypeInv
    BY DEF ShardInv
  <2>2. /\ rd.off \in Nat /\ rd.off <= Len(rd.buf) /\ Len(rd.buf) <= ReadCap
        /\ rd.fpos \in Nat /\ rd.fpos <= Len(file) /\ rd.buf \in Seq(Nat)
    BY <2>1 DEF TypeInv, Reading, Readers
  <2>3. rd.off \in 0 .. Len(rd.buf) /\ rd.fpos \in 0 .. Len(file) /\ durable \in 0 .. Len(file)
    <3>1. Len(rd.buf) \in Nat /\ Len(file) \in Nat /\ durable \in Nat /\ durable <= Len(file)
      BY <2>1, <2>2 DEF TypeInv
    <3> QED  BY <2>2, <3>1
  <2> QED  BY <2>1, <2>2, <2>3 DEF TypeInv, TypeOK
<1> QED  BY <1>1, ShardInductive, PTL

\* Whatever a crash left in the file, the walk of kAppend and Count comes past
\* every tuple that a session flushed: each key is refused when its tuple comes
\* again, and each tuple is counted (data_shard.cc, PrepareForAppend, Count).
THEOREM FlushedAreFound == Spec => []FlushedFound
<1>1. ShardInv => FlushedFound
  <2> SUFFICES ASSUME ShardInv PROVE FlushedFound
    OBVIOUS
  <2>1. file \in Seq(Nat) /\ durable \in Nat /\ Complete(file, durable, flushed)
        /\ Len(flushed) \in Nat
    BY DEF ShardInv, TypeInv
  <2>2. ASSUME NEW t \in ToSet(flushed) PROVE Key(t) \in Scan(file).keys
    <3>1. PICK n, o \in Nat : Reaches(file, n, o) /\ HeaderAt(file, o) /\ KeyAt(file, o) = Key(t)
      BY <2>1, <2>2 DEF Complete, OnWalk
    <3> QED  BY <2>1, <3>1, ScanWalks
  <2>3. Len(flushed) <= Count(file)
    <3>1. PICK n \in Nat : n >= Len(flushed) /\ Reaches(file, n, durable)
      BY <2>1 DEF Complete
    <3>2. PICK c \in Nat : c = Scan(file).count /\ n <= c
      BY <2>1, <3>1, ScanWalks
    <3> QED  BY <2>1, <3>1, <3>2 DEF Count
  <2> QED  BY <2>2, <2>3 DEF FlushedFound
<1> QED  BY <1>1, ShardInductive, PTL

\* No step but a kCreate, a crash in the middle of a write included, changes a
\* cell of what was flushed (data_shard.cc, Insert, Flush and the seekp to
\* PrepareForAppend's last tuple).
THEOREM FlushedStays == Spec => FlushedUntouched
<1>1. ShardInv /\ [Next]_vars
        => [~ OpenCreate => SubSeq(file', 1, durable) = SubSeq(file, 1, durable)]_vars
  <2> SUFFICES ASSUME ShardInv, Next, ~ OpenCreate
               PROVE  SubSeq(file', 1, durable) = SubSeq(file, 1, durable)
    OBVIOUS
  <2>1. CASE file' = file
    BY <2>1
  <2>2. CASE WritingStep /\ file' # file
    <3>1. file' \in Seq(Nat) /\ Keeps(file, file', pos) /\ mode = "write"
      BY <2>2, WritersStep DEF ShardInv, TypeInv
    <3>2. /\ file \in Seq(Nat) /\ durable \in Nat /\ durable <= Len(file) /\ durable <= pos
          /\ pos \in Nat /\ Len(file) \in Nat
      BY <3>1 DEF ShardInv, TypeInv, PointerInv
    <3>3. PICK f \in Seq(Nat), g \in Seq(Nat), d \in Nat, p \in Nat :
            f = file /\ g = file' /\ d = durable /\ p = pos
      BY <3>1, <3>2
    <3>4. /\ Len(f) \in Nat /\ Len(g) \in Nat /\ Len(f) <= Len(g) /\ d <= Len(f) /\ d <= p
          /\ \A i \in 1 .. Len(f) : i <= p => g[i] = f[i]
      BY <3>1, <3>2, <3>3 DEF Keeps
    <3>5. PICK a \in Nat \ {0}, z \in Int : a = 1 /\ z = 0
      OBVIOUS
    <3>6. \A i \in 1 .. Len(f) : i >= a /\ i <= a + d - 1 => g[i + z] = f[i]
      BY <3>4, <3>5
    <3>7. SubSeq(g, a + z, a + z + d - 1) = SubSeq(f, a, a + d - 1)
      <4>1. a + d - 1 <= Len(f) /\ a + d - 1 <= Len(g) /\ a + z + d - 1 <= Len(g)
            /\ a + z \in Nat \ {0}
        BY <3>4, <3>5
      <4> QED  BY <3>6, <4>1, SameCells
    <3>8. SubSeq(g, 1, d) = SubSeq(f, 1, d)
      <4>1. a + z = 1 /\ a + z + d - 1 = d /\ a = 1 /\ a + d - 1 = d
        BY <3>5
      <4> QED  BY <3>7, <4>1
    <3> QED  BY <3>3, <3>8
  <2>3. file' = file \/ WritingStep
    BY DEF Next, WritingStep, OpenAppend, OpenRead, ReadNext, SeekToFirst, CloseReader
  <2> QED  BY <2>1, <2>2, <2>3
<1> QED  BY <1>1, ShardInductive, PTL DEF Spec, FlushedUntouched
=============================================================================
