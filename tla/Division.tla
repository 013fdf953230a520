------------------------------- MODULE Division -------------------------------
(***************************************************************************)
(* Facts about the division of natural numbers, for the proofs about       *)
(* cluster shapes and batches.                                             *)
(***************************************************************************)
EXTENDS Integers, TLAPS

\* What \div and % are.
LEMMA DivFacts ==
  ASSUME NEW a \in Nat, NEW b \in Nat \ {0}
  PROVE  /\ a \div b \in Nat
         /\ a % b \in Nat
         /\ a % b < b
         /\ a = b * (a \div b) + (a % b)
  OBVIOUS

\* Products of natural numbers grow with each factor.
LEMMA Monotone ==
  ASSUME NEW a \in Nat, NEW b \in Nat, NEW m \in Nat, a <= b
  PROVE  m * a <= m * b /\ m * a \in Nat /\ m * b \in Nat
  OBVIOUS

\* A positive factor can be dropped.
LEMMA Cancel ==
  ASSUME NEW a \in Nat, NEW b \in Nat, NEW m \in Nat \ {0}
  PROVE  /\ m * a < m * b => a < b
         /\ m * a = m * b => a = b
<1>1. CASE b <= a
  <2>1. m * b <= m * a
    BY <1>1, Monotone
  <2>2. ASSUME m * a = m * b, a > b  PROVE FALSE
    <3>1. b + 1 <= a
      BY <2>2
    <3>2. m * (b + 1) <= m * a
      BY <3>1, Monotone
    <3>3. m * (b + 1) = m * b + m
      OBVIOUS
    <3> QED  BY <2>2, <3>2, <3>3
  <2> QED  BY <1>1, <2>1, <2>2
<1>2. CASE a < b
  <2>1. a + 1 <= b
    BY <1>2
  <2>2. m * (a + 1) <= m * b
    BY <2>1, Monotone
  <2>3. m * (a + 1) = m * a + m
    OBVIOUS
  <2> QED  BY <1>2, <2>2, <2>3
<1> QED  BY <1>1, <1>2

\* Quotient and remainder are unique.
LEMMA DivUnique ==
  ASSUME NEW b \in Nat \ {0}, NEW q \in Nat, NEW r \in Nat, r < b,
         NEW a \in Nat, a = b * q + r
  PROVE  a \div b = q /\ a % b = r
<1> DEFINE d == a \div b
<1>1. d \in Nat /\ a % b \in Nat /\ a % b < b /\ a = b * d + (a % b)
  BY DivFacts
<1> HIDE DEF d
<1>2. b * q \in Nat /\ b * d \in Nat
  BY <1>1
<1>3. ~ q < d
  <2>1. SUFFICES ASSUME q + 1 <= d  PROVE FALSE
    BY <1>1
  <2>2. b * (q + 1) <= b * d
    BY <1>1, <2>1, Monotone
  <2>3. b * (q + 1) = b * q + b
    OBVIOUS
  <2> QED  BY <1>1, <1>2, <2>2, <2>3
<1>4. ~ d < q
  <2>1. SUFFICES ASSUME d + 1 <= q  PROVE FALSE
    BY <1>1
  <2>2. b * (d + 1) <= b * q
    BY <1>1, <2>1, Monotone
  <2>3. b * (d + 1) = b * d + b
    BY <1>1
  <2> QED  BY <1>1, <1>2, <2>2, <2>3
<1>5. d = q
  BY <1>1, <1>3, <1>4
<1> QED  BY <1>1, <1>2, <1>5 DEF d

\* A number below the divisor is its own remainder.
LEMMA DivSmall ==
  ASSUME NEW b \in Nat \ {0}, NEW r \in Nat, r < b
  PROVE  r \div b = 0 /\ r % b = r
  OBVIOUS

\* Counting modulo b: one further, or from zero again.
LEMMA ModStep ==
  ASSUME NEW a \in Nat, NEW b \in Nat \ {0}
  PROVE  (a + 1) % b = IF a % b < b - 1 THEN (a % b) + 1 ELSE 0
<1> DEFINE q == a \div b
           r == a % b
<1>1. q \in Nat /\ r \in Nat /\ r < b /\ a = b * q + r
  BY DivFacts
<1> HIDE DEF q, r
<1>2. b * q \in Nat
  BY <1>1
<1>3. CASE r < b - 1
  <2>1. a + 1 \in Nat /\ r + 1 \in Nat /\ r + 1 < b /\ a + 1 = b * q + (r + 1)
    BY <1>1, <1>2, <1>3
  <2>2. (a + 1) % b = r + 1
    BY <1>1, <2>1, DivUnique
  <2> QED  BY <1>3, <2>2 DEF r
<1>4. CASE ~ r < b - 1
  <2>1. a + 1 \in Nat /\ b * (q + 1) = b * q + b /\ a + 1 = b * (q + 1) + 0
    BY <1>1, <1>2, <1>4
  <2>2. (a + 1) % b = 0
    <3> DEFINE c == a + 1
               d == q + 1
    <3>1. c \in Nat /\ d \in Nat /\ c = b * d + 0 /\ 0 \in Nat /\ 0 < b
      BY <1>1, <2>1
    <3> HIDE DEF c, d
    <3>2. c % b = 0
      BY <3>1, DivUnique
    <3> QED  BY <3>2 DEF c
  <2> QED  BY <1>4, <2>2 DEF r
<1> QED  BY <1>3, <1>4
=============================================================================
