--------------------------- MODULE ScheduleSplit ---------------------------
(***************************************************************************)
(* InstallmentPlanService.GenerateSchedule: how the amount of a plan is    *)
(* split into installments.  Amounts are in cents.                         *)
(*                                                                         *)
(* Split is what the loop computes; the state machine is the loop, one     *)
(* iteration per step, and its properties say that it computes Split.      *)
(***************************************************************************)
EXTENDS Integers, RunningSums, InstallmentAmounts

CONSTANTS
    Totals,     \* TotalInstallmentAmount of the plans that are split
    Counts      \* NumberOfInstallments

ASSUME TotalsAssumption == Totals \subseteq Nat \ {0}
ASSUME CountsAssumption == Counts \subseteq Nat \ {0}

VARIABLES total, n, i, runningTotal, schedules

vars == <<total, n, i, runningTotal, schedules>>

Init ==
    /\ total \in Totals
    /\ n \in Counts
    /\ i = 1
    /\ runningTotal = 0
    /\ schedules = [k \in {} |-> 0]

AmountOf_faulty(k) == BaseAmount(total, n)

(* The last installment takes the rounding remainder. *)
AmountOf(k) == IF k = n THEN total - runningTotal ELSE BaseAmount(total, n)

Iterate ==
    /\ i <= n
    /\ runningTotal' = runningTotal + AmountOf(i)
    /\ schedules' = [k \in 1 .. i |-> IF k = i THEN AmountOf(i) ELSE schedules[k]]
    /\ i' = i + 1
    /\ UNCHANGED <<total, n>>

Next == Iterate

Spec == Init /\ [][Next]_vars

-----------------------------------------------------------------------------
TypeOK ==
    /\ total \in Totals /\ n \in Counts
    /\ i \in 1 .. n + 1
    /\ runningTotal \in Nat
    /\ schedules \in [1 .. i - 1 -> Nat]

(* AmountDue of the installments made so far. *)
Dues == [k \in Nat |-> IF k \in DOMAIN schedules THEN schedules[k] ELSE 0]

(* runningTotal is the sum of the installments so far, and the finished     *)
(* schedule adds up to the plan's total exactly, whatever the rounding (the *)
(* doc comment of GenerateSchedule).                                        *)
SumsExactly ==
    /\ runningTotal = RunningSum(Dues)[i - 1]
    /\ i = n + 1 => runningTotal = total

(* The split is even: the installments are those of Split, no two of them   *)
(* differ by as much as n cents, and only the last one may be larger.       *)
EvenSplit ==
    i = n + 1 =>
        /\ schedules = Split(total, n)
        /\ \A k \in 1 .. n - 1 : schedules[n] - schedules[k] \in 0 .. n - 1

(* What the loop keeps: before the last installment all are equal, and what *)
(* is left for the last one is at least as much and less than n cents more. *)
LoopInv ==
    /\ TypeOK
    /\ SumsExactly
    /\ EvenSplit
    /\ i <= n => runningTotal = (i - 1) * BaseAmount(total, n)
    /\ \A k \in 1 .. i - 1 : schedules[k] = Split(total, n)[k]
=============================================================================
