--------------------------- MODULE SettlementBook ---------------------------
(***************************************************************************)
(* What the ledger promises about money, one indivisible step at a time:   *)
(* invoices are issued for a fixed amount, payments settle them without    *)
(* ever exceeding that amount, a payment is undone at most once and in     *)
(* full, and an invoice is voided only while no payment stands against it. *)
(* Nobody reads anything stale, waits, or fails.                           *)
(*                                                                         *)
(* LedgerRefinement shows that LedgerTransactions, with its stale copies,  *)
(* locks, tokens and rollbacks, implements this book.                      *)
(***************************************************************************)
EXTENDS Integers

CONSTANTS Invoices, Customers, CustomerOf, Amounts

VARIABLES
    stage,      \* "Unissued", "Open" or "Void"
    due,        \* what an open invoice was issued for
    settled,    \* what has been paid on an invoice and not undone
    collected,  \* what a customer has paid and not undone
    standing,   \* the payments in force: records [id, invoice, amount]
    undone,     \* ids of the payments that were undone
    posted      \* number of journal entries, the last id handed out

bookVars == <<stage, due, settled, collected, standing, undone, posted>>

Payment == [id : Nat, invoice : Invoices, amount : Amounts]

Init ==
    /\ stage = [i \in Invoices |-> "Unissued"]
    /\ due = [i \in Invoices |-> 0]
    /\ settled = [i \in Invoices |-> 0]
    /\ collected = [c \in Customers |-> 0]
    /\ standing = {}
    /\ undone = {}
    /\ posted = 0

Issue(i) ==
    /\ stage[i] = "Unissued"
    /\ stage' = [stage EXCEPT ![i] = "Open"]
    /\ due'[i] \in Nat
    /\ due' = [due EXCEPT ![i] = due'[i]]
    /\ UNCHANGED <<settled, collected, standing, undone, posted>>

Void(i) ==
    /\ stage[i] \in {"Unissued", "Open"}
    /\ \A p \in standing : p.invoice # i
    /\ stage' = [stage EXCEPT ![i] = "Void"]
    /\ due' = [due EXCEPT ![i] = 0]
    /\ UNCHANGED <<settled, collected, standing, undone, posted>>

Move(i, amount) ==
    /\ settled' = [settled EXCEPT ![i] = @ + amount]
    /\ collected' = [collected EXCEPT ![CustomerOf[i]] = @ + amount]
    /\ posted' = posted + 1
    /\ UNCHANGED <<stage, due>>

Settle(i, amount) ==
    /\ stage[i] = "Open"
    /\ 0 < amount /\ amount <= due[i] - settled[i]
    /\ Move(i, amount)
    /\ standing' = standing \cup {[id |-> posted + 1, invoice |-> i, amount |-> amount]}
    /\ undone' = undone

Undo(p) ==
    /\ Move(p.invoice, -p.amount)
    /\ standing' = standing \ {p}
    /\ undone' = undone \cup {p.id}

Next ==
    \/ \E i \in Invoices : \/ Issue(i)
                           \/ Void(i)
                           \/ \E amount \in Amounts : Settle(i, amount)
    \/ \E p \in standing : Undo(p)

Spec == Init /\ [][Next]_bookVars
=============================================================================
