------------------------------ MODULE Counting ------------------------------
(***************************************************************************)
(* Lemmas about counting up naturals, for the modules that add (the total  *)
(* of an evaluation, the tokens of a benchmark).                           *)
(*                                                                         *)
(* The library's induction theorems take an operator and cannot be cited,  *)
(* but that a set of naturals has a least element can: with it a set that  *)
(* is closed under +1 is all of Nat (CountingUp), and a function defined   *)
(* by recursion along 0..N exists and is what its equation says.           *)
(***************************************************************************)
EXTENDS Integers, WellFoundedInduction, TLAPS

\* A non-empty set of naturals has a least element.
LEMMA LeastNat ==
  ASSUME NEW T \in SUBSET Nat, T # {}
  PROVE  \E x \in T : \A y \in T : x <= y
<1> DEFINE R == OpToRel(<, Nat)
<1>1. IsWellFoundedOn(R, Nat)
  BY NatLessThanWellFounded
<1>2. \A x, y \in Nat : y < x => <<y, x>> \in R
  BY DEF OpToRel
<1> HIDE DEF R
<1>3. T \subseteq Nat
  OBVIOUS
<1>4. PICK x \in T : \A y \in T : ~ (<<y, x>> \in R)
  BY <1>1, <1>3, WFMin
<1>5. ASSUME NEW y \in T PROVE x <= y
  <2>1. ~ (y < x)
    BY <1>2, <1>4
  <2> QED BY <2>1
<1> QED BY <1>5

\* A set that has 0, and with every number the next one, has every number.
LEMMA CountingUp ==
  ASSUME NEW S, 0 \in S, \A n \in Nat : n \in S => n + 1 \in S
  PROVE  Nat \subseteq S
<1> DEFINE T == Nat \ S
<1>1. SUFFICES ASSUME T # {} PROVE FALSE
  OBVIOUS
<1>2. PICK x \in T : \A y \in T : x <= y
  BY <1>1, LeastNat
<1>3. x # 0 /\ x \in Nat /\ x \notin S
  BY <1>2
<1>4. x - 1 \in Nat /\ x - 1 + 1 = x
  BY <1>3
<1>5. x - 1 \in S
  BY <1>2, <1>4
<1> QED BY <1>3, <1>4, <1>5

\* A non-empty set of naturals with a bound has a greatest element.
LEMMA GreatestNat ==
  ASSUME NEW T \in SUBSET Nat, T # {}, NEW b \in Nat, \A y \in T : y <= b
  PROVE  \E x \in T : \A y \in T : y <= x
<1> DEFINE B == {n \in Nat : \A y \in T : y <= n}
<1>1. PICK m \in B : \A n \in B : m <= n
  <2>1. b \in B /\ B \in SUBSET Nat
    OBVIOUS
  <2> QED BY <2>1, LeastNat
<1>2. CASE m \in T
  BY <1>1, <1>2
<1>3. CASE m \notin T
  <2>1. \A y \in T : y < m
    BY <1>1, <1>3
  <2>2. m - 1 \in B
    <3>1. PICK y \in T : TRUE
      OBVIOUS
    <3>2. m \in Nat /\ m # 0
      BY <1>1, <2>1, <3>1
    <3>3. \A z \in T : z <= m - 1
      BY <2>1, <3>2
    <3> QED BY <3>2, <3>3
  <2> QED BY <1>1, <2>2
<1> QED BY <1>2, <1>3

-----------------------------------------------------------------------------
(* Sums.                                                                   *)

\* g counts up the first N values of d.
Sums(g, d, N) == /\ g \in [0..N -> Nat] /\ g[0] = 0
                 /\ \A n \in 1..N : g[n] = g[n - 1] + d[n]

LEMMA SumsExist ==
  ASSUME NEW N \in Nat, NEW d, \A n \in 1..N : d[n] \in Nat
  PROVE  \E g : Sums(g, d, N)
<1> DEFINE S == {n \in Nat : n <= N => \E g : Sums(g, d, n)}
<1>1. 0 \in S
  <2>1. Sums([n \in 0..0 |-> 0], d, 0)
    BY DEF Sums
  <2> QED BY <2>1
<1>2. ASSUME NEW n \in Nat, n \in S PROVE n + 1 \in S
  <2>1. SUFFICES ASSUME n + 1 <= N PROVE \E g : Sums(g, d, n + 1)
    OBVIOUS
  <2>2. PICK g : Sums(g, d, n)
    <3>1. n <= N
      BY <2>1
    <3> QED BY <1>2, <3>1
  <2> DEFINE h == [k \in 0..(n + 1) |->
                     IF k = n + 1 THEN g[n] + d[n + 1] ELSE g[k]]
  <2>3. g[n] \in Nat /\ d[n + 1] \in Nat
    BY <2>1, <2>2 DEF Sums
  <2>4. /\ DOMAIN h = 0..(n + 1) /\ h = [k \in 0..(n + 1) |-> h[k]]
        /\ h[n + 1] = g[n] + d[n + 1]
        /\ \A k \in 0..n : h[k] = g[k]
    OBVIOUS
  <2> HIDE DEF h
  <2>5. \A k \in 0..(n + 1) : h[k] \in Nat
    <3>1. \A k \in 0..n : g[k] \in Nat
      BY <2>2 DEF Sums
    <3>2. \A k \in 0..(n + 1) : k = n + 1 \/ k \in 0..n
      OBVIOUS
    <3>3. h[n + 1] \in Nat
      BY <2>3, <2>4
    <3> QED BY <2>4, <3>1, <3>2, <3>3
  <2>6. h \in [0..(n + 1) -> Nat]
    BY <2>4, <2>5
  <2>7. h[0] = 0
    <3>1. 0 \in 0..n /\ g[0] = 0
      BY <2>2 DEF Sums
    <3> QED BY <2>4, <3>1
  <2>8. ASSUME NEW k \in 1..(n + 1)
        PROVE  h[k] = h[k - 1] + d[k]
    <3>1. CASE k = n + 1
      <4>1. k - 1 = n /\ n \in 0..n
        BY <3>1
      <4> QED BY <2>4, <3>1, <4>1
    <3>2. CASE k # n + 1
      <4>1. k \in 1..n /\ k \in 0..n /\ k - 1 \in 0..n
        BY <3>2
      <4>2. g[k] = g[k - 1] + d[k]
        BY <2>2, <4>1 DEF Sums
      <4> QED BY <2>4, <4>1, <4>2
    <3> QED BY <3>1, <3>2
  <2>9. Sums(h, d, n + 1)
    BY <2>6, <2>7, <2>8 DEF Sums
  <2> QED BY <2>9
<1>3. N \in S
  <2> HIDE DEF S
  <2> QED BY <1>1, <1>2, CountingUp
<1> QED BY <1>3

\* A function with the recursive equation of a sum is that sum.
LEMMA SumsOf ==
  ASSUME NEW N \in Nat, NEW d, \A n \in 1..N : d[n] \in Nat,
         NEW f, f = [n \in 0..N |-> IF n = 0 THEN 0 ELSE f[n - 1] + d[n]]
  PROVE  Sums(f, d, N)
<1>1. f[0] = 0
  OBVIOUS
<1>2. ASSUME NEW n \in 1..N
      PROVE  f[n] = f[n - 1] + d[n]
  <2>1. n \in 0..N /\ n # 0
    OBVIOUS
  <2> QED BY <2>1
<1> DEFINE S == {n \in Nat : n <= N => f[n] \in Nat}
<1>3. 0 \in S
  BY <1>1
<1>4. ASSUME NEW n \in Nat, n \in S PROVE n + 1 \in S
  <2>1. SUFFICES ASSUME n + 1 <= N PROVE f[n + 1] \in Nat
    OBVIOUS
  <2>2. n + 1 \in 1..N /\ n + 1 - 1 = n /\ n <= N
    BY <2>1
  <2>3. f[n + 1] = f[n] + d[n + 1]
    BY <1>2, <2>2
  <2>4. f[n] \in Nat
    BY <1>4, <2>2
  <2>5. d[n + 1] \in Nat
    BY <2>2
  <2> QED BY <2>3, <2>4, <2>5
<1> HIDE DEF S
<1>5. \A n \in Nat : n \in S
  BY <1>3, <1>4, CountingUp
<1>6. f \in [0..N -> Nat]
  <2>1. \A n \in 0..N : f[n] \in Nat
    BY <1>5 DEF S
  <2>2. f = [n \in 0..N |-> f[n]]
    OBVIOUS
  <2> QED BY <2>1, <2>2
<1> QED BY <1>1, <1>2, <1>6 DEF Sums

\* A sum of naturals is 0 exactly when each of them is.
LEMMA SumZero ==
  ASSUME NEW N \in Nat, NEW d, \A n \in 1..N : d[n] \in Nat,
         NEW g, Sums(g, d, N)
  PROVE  g[N] = 0 <=> \A n \in 1..N : d[n] = 0
<1> DEFINE S == {m \in Nat : m <= N => (g[m] = 0 <=> \A n \in 1..m : d[n] = 0)}
<1>1. 0 \in S
  BY DEF Sums
<1>2. ASSUME NEW m \in Nat, m \in S PROVE m + 1 \in S
  <2>1. SUFFICES ASSUME m + 1 <= N
                 PROVE  g[m + 1] = 0 <=> \A n \in 1..(m + 1) : d[n] = 0
    OBVIOUS
  <2>2. m + 1 \in 1..N /\ m + 1 - 1 = m /\ m <= N /\ m \in 0..N
    BY <2>1
  <2>3. g[m + 1] = g[m] + d[m + 1] /\ g[m] \in Nat /\ d[m + 1] \in Nat
    BY <2>2 DEF Sums
  <2>4. g[m] = 0 <=> \A n \in 1..m : d[n] = 0
    BY <1>2, <2>2
  <2>5. (\A n \in 1..(m + 1) : d[n] = 0) <=> (\A n \in 1..m : d[n] = 0) /\ d[m + 1] = 0
    <3>1. \A n : n \in 1..(m + 1) <=> n \in 1..m \/ n = m + 1
      OBVIOUS
    <3> QED BY <3>1
  <2> QED BY <2>3, <2>4, <2>5
<1> HIDE DEF S
<1>3. N \in S
  BY <1>1, <1>2, CountingUp
<1> QED BY <1>3 DEF S
=============================================================================
