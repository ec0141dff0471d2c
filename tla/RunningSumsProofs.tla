------------------------- MODULE RunningSumsProofs -------------------------
(***************************************************************************)
(* What a running sum is, proved for every column c \in [Nat -> Int]: it   *)
(* exists and satisfies its recursion, it depends only on the entries it   *)
(* adds, a change of one entry changes it by the difference, and a sum of  *)
(* entries that are not negative is at least each of them.                 *)
(*                                                                         *)
(* Induction is done with sets of numbers: the least element of the set of *)
(* counterexamples (WFMin of the library) would have a predecessor that is *)
(* no counterexample.                                                      *)
(***************************************************************************)
EXTENDS RunningSums, WellFoundedInduction, TLAPS

(* A nonempty set of natural numbers has a least element. *)
LEMMA LeastElement ==
  ASSUME NEW T \in SUBSET Nat, T # {}
  PROVE  \E m \in T : \A k \in T : m <= k
<1>1. \E x \in T : \A y \in T : ~ (<<y, x>> \in OpToRel(<, Nat))
  BY NatLessThanWellFounded, WFMin
<1>2. ASSUME NEW x \in T, NEW y \in T, <<y, x>> \notin OpToRel(<, Nat)
      PROVE  x <= y
  BY <1>2 DEF OpToRel
<1> QED BY <1>1, <1>2

(* A set of numbers that contains 0 and every successor contains them all.  *)
LEMMA InductiveSet ==
  ASSUME NEW S, S \subseteq Nat, 0 \in S, \A n \in S : n + 1 \in S
  PROVE  S = Nat
<1>1. SUFFICES ASSUME Nat \ S # {} PROVE FALSE
  OBVIOUS
<1>2. PICK m \in Nat \ S : \A k \in Nat \ S : m <= k
  BY <1>1, LeastElement
<1>3. m # 0 /\ m - 1 \in Nat
  BY <1>2
<1>4. m - 1 \in S
  BY <1>2, <1>3
<1>5. (m - 1) + 1 \in S
  BY <1>4
<1> QED BY <1>2, <1>5

(* The recursion of RunningSum has a solution: the sums up to n exist for   *)
(* every n, and they agree where they overlap.                              *)
LEMMA RunningSumExists ==
  ASSUME NEW c \in [Nat -> Int]
  PROVE  \E s \in [Nat -> Int] : s = [k \in Nat |-> IF k = 0 THEN 0 ELSE s[k-1] + c[k]]
<1> DEFINE Upto(n, h) == /\ h \in [0..n -> Int]
                         /\ h[0] = 0
                         /\ \A k \in 1..n : h[k] = h[k-1] + c[k]
           S == {n \in Nat : \E h \in [0..n -> Int] : Upto(n, h)}
<1>1. 0 \in S
  <2>1. Upto(0, [k \in 0..0 |-> 0])
    OBVIOUS
  <2> QED BY <2>1
<1>2. ASSUME NEW n \in S PROVE n + 1 \in S
  <2>1. PICK h \in [0..n -> Int] : Upto(n, h)
    OBVIOUS
  <2> DEFINE g == [k \in 0..(n+1) |-> IF k = n + 1 THEN h[n] + c[n+1] ELSE h[k]]
  <2>2. Upto(n + 1, g)
    BY <2>1
  <2>3. g \in [0..(n+1) -> Int]
    BY <2>1
  <2> HIDE DEF Upto, g
  <2> QED BY <2>2, <2>3
<1>3. S = Nat
  <2> HIDE DEF S
  <2>1. S \subseteq Nat BY DEF S
  <2> QED BY <1>1, <1>2, <2>1, InductiveSet
<1>4. \A n \in Nat : \E h : Upto(n, h)
  BY <1>3
<1> DEFINE H(n) == CHOOSE h : Upto(n, h)
           s == [n \in Nat |-> H(n)[n]]
<1>5. \A n \in Nat : Upto(n, H(n))
  BY <1>4
<1> HIDE DEF H
<1>6. ASSUME NEW n \in Nat, NEW m \in Nat, m <= n
      PROVE  H(n)[m] = H(m)[m]
  <2> DEFINE A == {k \in Nat : k <= m => H(n)[k] = H(m)[k]}
  <2>1. 0 \in A
    BY <1>5
  <2>2. ASSUME NEW k \in A PROVE k + 1 \in A
    <3>1. CASE k + 1 <= m
      <4>1. k + 1 \in 1..n /\ k + 1 \in 1..m /\ k \in 0..m /\ (k + 1) - 1 = k
        BY <3>1, <1>6
      <4>2. H(n)[k+1] = H(n)[k] + c[k+1]
        BY <4>1, <1>5
      <4>3. H(m)[k+1] = H(m)[k] + c[k+1]
        BY <4>1, <1>5
      <4> QED BY <4>1, <4>2, <4>3
    <3> QED BY <3>1
  <2>3. A = Nat
    <3> HIDE DEF A
    <3>1. A \subseteq Nat BY DEF A
    <3> QED BY <2>1, <2>2, <3>1, InductiveSet
  <2>4. m \in A
    BY <2>3
  <2> QED BY <2>4
<1>7. s \in [Nat -> Int]
  BY <1>5
<1>8. \A k \in Nat : s[k] = IF k = 0 THEN 0 ELSE s[k-1] + c[k]
  <2>1. s[0] = 0 BY <1>5
  <2>2. ASSUME NEW k \in Nat, k # 0 PROVE s[k] = s[k-1] + c[k]
    <3>1. k \in 1..k /\ k - 1 \in Nat /\ k-1 <= k
      BY <2>2
    <3>2. H(k)[k] = H(k)[k-1] + c[k]
      BY <3>1, <1>5
    <3>3. H(k)[k-1] = H(k-1)[k-1]
      BY <3>1, <1>6
    <3> QED BY <3>1, <3>2, <3>3
  <2> QED BY <2>1, <2>2
<1> QED BY <1>7, <1>8

(* The recursion equations of RunningSum, and its type.                     *)
LEMMA RunningSumDef ==
  ASSUME NEW c \in [Nat -> Int]
  PROVE  /\ RunningSum(c) \in [Nat -> Int]
         /\ RunningSum(c)[0] = 0
         /\ \A k \in Nat : RunningSum(c)[k + 1] = RunningSum(c)[k] + c[k + 1]
<1> DEFINE s == RunningSum(c)
<1>1. PICK g \in [Nat -> Int] : g = [k \in Nat |-> IF k = 0 THEN 0 ELSE g[k-1] + c[k]]
  BY RunningSumExists
<1>2. s = CHOOSE h : h = [k \in Nat |-> IF k = 0 THEN 0 ELSE h[k-1] + c[k]]
  BY DEF RunningSum
<1>3. s = [k \in Nat |-> IF k = 0 THEN 0 ELSE s[k-1] + c[k]]
  BY <1>1, <1>2
<1> HIDE DEF s
<1>4. \A k \in Nat : s[k] = IF k = 0 THEN 0 ELSE s[k-1] + c[k]
  BY <1>3
<1>5. s[0] = 0 BY <1>4
<1>6. \A k \in Nat : s[k+1] = s[k] + c[k+1]
  BY <1>4
<1> DEFINE A == {k \in Nat : s[k] \in Int}
<1>7. A = Nat
  <2>1. 0 \in A BY <1>5
  <2>2. ASSUME NEW k \in A PROVE k + 1 \in A
    BY <1>6
  <2> HIDE DEF A
  <2>3. A \subseteq Nat BY DEF A
  <2> QED BY <2>1, <2>2, <2>3, InductiveSet
<1>8. s \in [Nat -> Int]
  <2>1. DOMAIN s = Nat /\ s = [k \in DOMAIN s |-> s[k]] BY <1>3
  <2> QED BY <1>7, <2>1
<1> QED BY <1>5, <1>6, <1>8 DEF s

(* A change of entry j changes the sums from j on by the difference.        *)
LEMMA RunningSumChange ==
  ASSUME NEW c \in [Nat -> Int], NEW d \in [Nat -> Int], NEW n \in Nat, NEW j \in 1..n,
         \A k \in 1..n : k # j => d[k] = c[k]
  PROVE  RunningSum(d)[n] = RunningSum(c)[n] + d[j] - c[j]
<1> DEFINE s == RunningSum(c)
           t == RunningSum(d)
           A == {k \in Nat : k <= n => t[k] = s[k] + (IF k >= j THEN d[j] - c[j] ELSE 0)}
<1>1. /\ s \in [Nat -> Int] /\ s[0] = 0 /\ \A k \in Nat : s[k+1] = s[k] + c[k+1]
      /\ t \in [Nat -> Int] /\ t[0] = 0 /\ \A k \in Nat : t[k+1] = t[k] + d[k+1]
  BY RunningSumDef
<1> HIDE DEF s, t
<1>2. 0 \in A
  BY <1>1
<1>3. ASSUME NEW k \in A PROVE k + 1 \in A
  <2>1. CASE k + 1 <= n
    <3>1. t[k] = s[k] + (IF k >= j THEN d[j] - c[j] ELSE 0) BY <2>1
    <3>2. t[k+1] = t[k] + d[k+1] /\ s[k+1] = s[k] + c[k+1] BY <1>1
    <3>3. k + 1 # j => d[k+1] = c[k+1] BY <2>1
    <3>4. s[k] \in Int /\ t[k] \in Int /\ c[k+1] \in Int /\ d[k+1] \in Int BY <1>1
    <3> QED BY <3>1, <3>2, <3>3, <3>4
  <2> QED BY <2>1
<1>4. A = Nat
  <2> HIDE DEF A
  <2>1. A \subseteq Nat BY DEF A
  <2> QED BY <1>2, <1>3, <2>1, InductiveSet
<1>5. n \in A BY <1>4
<1>6. t[n] = s[n] + (d[j] - c[j]) BY <1>5
<1>7. s[n] \in Int /\ t[n] \in Int /\ c[j] \in Int /\ d[j] \in Int BY <1>1
<1> QED BY <1>6, <1>7 DEF s, t

(* The sum of the first n entries depends on nothing else.                  *)
LEMMA RunningSumSame ==
  ASSUME NEW c \in [Nat -> Int], NEW d \in [Nat -> Int], NEW n \in Nat,
         \A k \in 1..n : d[k] = c[k]
  PROVE  RunningSum(d)[n] = RunningSum(c)[n]
<1>1. CASE n = 0
  BY <1>1, RunningSumDef
<1>2. CASE n # 0
  <2>1. n \in 1..n BY <1>2
  <2>2. RunningSum(d)[n] = RunningSum(c)[n] + d[n] - c[n]
    BY <2>1, RunningSumChange
  <2>3. RunningSum(d)[n] \in Int /\ RunningSum(c)[n] \in Int
    BY RunningSumDef
  <2>4. d[n] = c[n] /\ c[n] \in Int BY <2>1
  <2> QED BY <2>2, <2>3, <2>4
<1> QED BY <1>1, <1>2

(* A sum without negative entries is at least each of its entries.          *)
LEMMA RunningSumAtLeast ==
  ASSUME NEW c \in [Nat -> Int], NEW n \in Nat, \A k \in 1..n : c[k] >= 0
  PROVE  RunningSum(c)[n] >= 0 /\ \A j \in 1..n : RunningSum(c)[n] >= c[j]
<1> DEFINE s == RunningSum(c)
           A == {k \in Nat : k <= n => s[k] >= 0 /\ \A j \in 1..k : s[k] >= c[j]}
<1>1. s \in [Nat -> Int] /\ s[0] = 0 /\ \A k \in Nat : s[k+1] = s[k] + c[k+1]
  BY RunningSumDef
<1> HIDE DEF s
<1>2. 0 \in A
  BY <1>1
<1>3. ASSUME NEW k \in A PROVE k + 1 \in A
  <2>1. CASE k + 1 <= n
    <3>1. s[k] >= 0 /\ \A j \in 1..k : s[k] >= c[j] BY <2>1
    <3>2. s[k+1] = s[k] + c[k+1] /\ c[k+1] >= 0 BY <1>1, <2>1
    <3>3. s[k] \in Int /\ \A j \in 1..(k+1) : c[j] \in Int BY <1>1
    <3>4. ASSUME NEW j \in 1..(k+1) PROVE s[k+1] >= c[j]
      <4>1. j = k + 1 \/ j \in 1..k OBVIOUS
      <4> QED BY <4>1, <3>1, <3>2, <3>3
    <3>5. s[k+1] >= 0 BY <3>1, <3>2, <3>3
    <3> QED BY <3>4, <3>5
  <2> QED BY <2>1
<1>4. A = Nat
  <2> HIDE DEF A
  <2>1. A \subseteq Nat BY DEF A
  <2> QED BY <1>2, <1>3, <2>1, InductiveSet
<1>5. n \in A BY <1>4
<1> QED BY <1>5 DEF s

(* A sum of zeros is zero.                                                  *)
LEMMA RunningSumZero ==
  ASSUME NEW c \in [Nat -> Int], NEW n \in Nat, \A k \in 1..n : c[k] = 0
  PROVE  RunningSum(c)[n] = 0
<1> DEFINE s == RunningSum(c)
           A == {k \in Nat : k <= n => s[k] = 0}
<1>1. s \in [Nat -> Int] /\ s[0] = 0 /\ \A k \in Nat : s[k+1] = s[k] + c[k+1]
  BY RunningSumDef
<1> HIDE DEF s
<1>2. 0 \in A
  BY <1>1
<1>3. ASSUME NEW k \in A PROVE k + 1 \in A
  BY <1>1
<1>4. A = Nat
  <2> HIDE DEF A
  <2>1. A \subseteq Nat BY DEF A
  <2> QED BY <1>2, <1>3, <2>1, InductiveSet
<1>5. n \in A BY <1>4
<1> QED BY <1>5 DEF s
=============================================================================
