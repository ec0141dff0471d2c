------------------------- MODULE InstallmentAmounts -------------------------
(***************************************************************************)
(* The amounts InstallmentPlanService.GenerateSchedule gives to the        *)
(* installments of a plan, in cents.                                       *)
(***************************************************************************)
EXTENDS Integers

(* Math.Round(total / n, 2, MidpointRounding.ToZero) *)
BaseAmount(total, n) == total \div n

(* Equal installments; the last one takes the rounding remainder.           *)
Split(total, n) ==
    [k \in 1 .. n |-> IF k = n THEN total - (n - 1) * BaseAmount(total, n)
                               ELSE BaseAmount(total, n)]
=============================================================================
