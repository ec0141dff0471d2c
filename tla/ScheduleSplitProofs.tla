------------------------ MODULE ScheduleSplitProofs ------------------------
(***************************************************************************)
(* The loop of GenerateSchedule splits every total into any number of      *)
(* installments exactly and evenly.                                        *)
(***************************************************************************)
EXTENDS ScheduleSplit, RunningSumsProofs, TLAPS

(* Whole cents: what n equal installments leave over is less than n cents.  *)
LEMMA BaseAmountBounds ==
  ASSUME NEW t \in Nat, NEW m \in Nat \ {0}
  PROVE  /\ BaseAmount(t, m) \in Nat
         /\ m * BaseAmount(t, m) <= t
         /\ t - m * BaseAmount(t, m) < m
BY DEF BaseAmount

(* The same, said of the last installment and of the others.                *)
LEMMA LastTakesRemainder ==
  ASSUME NEW t \in Nat, NEW m \in Nat \ {0}
  PROVE  LET base == BaseAmount(t, m)
             last == t - (m - 1) * base
         IN  last \in Nat /\ last - base \in 0 .. m - 1
<1> DEFINE base == BaseAmount(t, m)
<1>1. base \in Nat /\ m * base <= t /\ t - m * base < m
  BY BaseAmountBounds
<1> HIDE DEF base
<1>2. (m - 1) * base = m * base - base /\ m * base \in Nat
  BY <1>1
<1>3. t - (m - 1) * base = (t - m * base) + base
  BY <1>1, <1>2
<1>4. t - m * base \in 0 .. m - 1
  BY <1>1, <1>2
<1> QED BY <1>1, <1>3, <1>4 DEF base

LEMMA DuesType ==
  ASSUME TypeOK
  PROVE  Dues \in [Nat -> Int]
BY DEF TypeOK, Dues

LEMMA InitLoopInv ==
  ASSUME Init
  PROVE  LoopInv
<1>1. total \in Nat /\ n \in Nat \ {0}
  BY TotalsAssumption, CountsAssumption DEF Init
<1>2. TypeOK
  BY <1>1 DEF Init, TypeOK
<1>3. RunningSum(Dues)[0] = 0
  BY <1>2, DuesType, RunningSumDef
<1>4. BaseAmount(total, n) \in Nat
  BY <1>1, BaseAmountBounds
<1> QED BY <1>1, <1>2, <1>3, <1>4 DEF Init, LoopInv, SumsExactly, EvenSplit

(* The amount of iteration i is that of Split.                              *)
LEMMA AmountOfIsSplit ==
  ASSUME LoopInv, i <= n
  PROVE  AmountOf(i) = Split(total, n)[i] /\ AmountOf(i) \in Nat
<1>1. total \in Nat /\ n \in Nat \ {0} /\ i \in 1 .. n
  BY TotalsAssumption, CountsAssumption DEF LoopInv, TypeOK
<1>2. runningTotal = (i - 1) * BaseAmount(total, n)
  BY DEF LoopInv
<1>3. BaseAmount(total, n) \in Nat /\ total - (n - 1) * BaseAmount(total, n) \in Nat
  BY <1>1, BaseAmountBounds, LastTakesRemainder
<1> QED BY <1>1, <1>2, <1>3 DEF AmountOf, Split

LEMMA IterateKeepsLoopInv ==
  ASSUME LoopInv, Iterate
  PROVE  LoopInv'
<1> DEFINE base == BaseAmount(total, n)
<1>0. total \in Nat /\ n \in Nat \ {0} /\ i \in 1 .. n /\ runningTotal \in Nat
      /\ schedules \in [1 .. i - 1 -> Nat]
  BY TotalsAssumption, CountsAssumption DEF LoopInv, TypeOK, Iterate
<1>a. base \in Nat
  BY <1>0, BaseAmountBounds
<1>1. total \in Nat /\ n \in Nat \ {0} /\ i \in 1 .. n /\ runningTotal \in Nat
      /\ schedules \in [1 .. i - 1 -> Nat] /\ base \in Nat
  BY <1>0, <1>a
<1>2. AmountOf(i) = Split(total, n)[i] /\ AmountOf(i) \in Nat
  BY AmountOfIsSplit DEF Iterate
<1>3. /\ i' = i + 1 /\ total' = total /\ n' = n
      /\ runningTotal' = runningTotal + AmountOf(i)
      /\ schedules' = [k \in 1 .. i |-> IF k = i THEN AmountOf(i) ELSE schedules[k]]
  BY DEF Iterate
<1>4. TypeOK'
  BY <1>1, <1>2, <1>3 DEF LoopInv, TypeOK
<1>5. Split(total, n)' = Split(total, n) /\ BaseAmount(total, n)' = base
  BY <1>3
<1>6. \A k \in 1 .. i : schedules'[k] = Split(total, n)[k]
  BY <1>1, <1>2, <1>3 DEF LoopInv
<1>7. runningTotal = (i - 1) * base
  BY <1>1 DEF LoopInv
<1>8. i + 1 <= n => runningTotal' = i * base
  BY <1>1, <1>2, <1>3, <1>7 DEF AmountOf
<1>9. i = n => runningTotal' = total
  BY <1>1, <1>3 DEF AmountOf
<1>10. runningTotal' = RunningSum(Dues')[i]
  <2>1. Dues \in [Nat -> Int] /\ Dues' \in [Nat -> Int]
    <3>1. Dues \in [Nat -> Int]
      BY DuesType DEF LoopInv
    <3>2. schedules' \in [1 .. i -> Nat]
      BY <1>1, <1>2, <1>3
    <3> QED BY <3>1, <3>2 DEF Dues
  <2>2. \A k \in 1 .. i - 1 : Dues'[k] = Dues[k]
    BY <1>1, <1>3 DEF Dues
  <2>a. Dues' \in [Nat -> Int] /\ i - 1 \in Nat
    BY <1>1, <2>1
  <2>3. RunningSum(Dues')[i - 1] = RunningSum(Dues)[i - 1]
    BY <2>a, <2>1, <2>2, RunningSumSame
  <2>4. RunningSum(Dues')[(i - 1) + 1] = RunningSum(Dues')[i - 1] + Dues'[(i - 1) + 1]
    BY <2>a, RunningSumDef
  <2>5. Dues'[i] = AmountOf(i)
    BY <1>1, <1>3 DEF Dues
  <2> QED BY <1>1, <1>3, <2>3, <2>4, <2>5 DEF LoopInv, SumsExactly
<1>11. SumsExactly'
  BY <1>1, <1>3, <1>9, <1>10 DEF SumsExactly
<1>12. EvenSplit'
  <2>a. ASSUME i = n => /\ schedules' = Split(total, n)
                        /\ \A k \in 1 .. n - 1 : schedules'[n] - schedules'[k] \in 0 .. n - 1
        PROVE  EvenSplit'
    <3>1. i' = n' + 1 => i = n
      BY <1>1, <1>3
    <3>2. n' = n /\ Split(total, n)' = Split(total, n)
      BY <1>3, <1>5
    <3> QED BY <2>a, <3>1, <3>2 DEF EvenSplit
  <2>1. SUFFICES ASSUME i = n
                 PROVE  /\ schedules' = Split(total, n)
                        /\ \A k \in 1 .. n - 1 : schedules'[n] - schedules'[k] \in 0 .. n - 1
    BY <2>a
  <2>2. schedules' = Split(total, n)
    BY <1>1, <1>3, <1>6, <2>1 DEF Split
  <2>3. total - (n - 1) * base - base \in 0 .. n - 1
    BY <1>1, LastTakesRemainder
  <2>4. Split(total, n)[n] = total - (n - 1) * base
        /\ \A k \in 1 .. n - 1 : Split(total, n)[k] = base
    BY <1>1 DEF Split
  <2> QED BY <2>2, <2>3, <2>4
<1>13. /\ (i <= n => runningTotal = (i - 1) * BaseAmount(total, n))'
       /\ (\A k \in 1 .. i - 1 : schedules[k] = Split(total, n)[k])'
  BY <1>1, <1>3, <1>5, <1>6, <1>8
<1> QED BY <1>4, <1>11, <1>12, <1>13 DEF LoopInv

(* LoopInv is inductive: it holds of the loop for every total and count.    *)
THEOREM LoopInvariance == Spec => []LoopInv
<1>1. Init => LoopInv
  BY InitLoopInv
<1>2. LoopInv /\ [Next]_vars => LoopInv'
  <2>1. SUFFICES ASSUME LoopInv, [Next]_vars PROVE LoopInv'
    OBVIOUS
  <2>2. CASE Iterate
    BY <2>1, <2>2, IterateKeepsLoopInv
  <2>3. CASE UNCHANGED vars
    BY <2>1, <2>3 DEF vars, LoopInv, TypeOK, SumsExactly, EvenSplit, Dues
  <2> QED BY <2>1, <2>2, <2>3 DEF Next
<1> QED BY <1>1, <1>2, PTL DEF Spec

(* The schedule of every plan sums exactly to its total.                    *)
THEOREM ScheduleSumsExactly == Spec => []SumsExactly
<1>1. LoopInv => SumsExactly BY DEF LoopInv
<1> QED BY <1>1, LoopInvariance, PTL

(* The schedule of every plan is even up to the remainder of the last row.  *)
THEOREM ScheduleIsEven == Spec => []EvenSplit
<1>1. LoopInv => EvenSplit BY DEF LoopInv
<1> QED BY <1>1, LoopInvariance, PTL
=============================================================================
