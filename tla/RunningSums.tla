---------------------------- MODULE RunningSums ----------------------------
(***************************************************************************)
(* Sums over table rows numbered 1, 2, 3, ...: the SumAsync queries of the *)
(* ledger (over the invoices of a customer, over the payments of an        *)
(* invoice) are sums of a column over row numbers.                         *)
(*                                                                         *)
(* A column is a function c \in [Nat -> Int]; RunningSum(c)[n] is          *)
(* c[1] + ... + c[n].  The definition is a recursive function and not a    *)
(* RECURSIVE operator, so that RunningSumsProofs can reason about it.      *)
(***************************************************************************)
EXTENDS Integers

RunningSum(c) ==
    LET s[k \in Nat] == IF k = 0 THEN 0 ELSE s[k - 1] + c[k]
    IN  s
=============================================================================
