-------------------------- MODULE LedgerRefinement --------------------------
(***************************************************************************)
(* LedgerTransactions implements SettlementBook: the committed tables, read *)
(* through the mapping below, only ever make the steps of the book.        *)
(***************************************************************************)
EXTENDS LedgerTransactions

Stage ==
    [i \in Invoices |-> IF invoice[i].status \in {"Absent", "Draft"} THEN "Unissued"
                        ELSE IF invoice[i].status = "Active" THEN "Open" ELSE "Void"]

Due == [i \in Invoices |-> IF invoice[i].status = "Active" THEN invoice[i].total ELSE 0]

Settled == [i \in Invoices |-> invoice[i].paid]

Collected == [c \in Customers |-> account[c].paid]

Standing ==
    {[id |-> k, invoice |-> payments[k].invoice, amount |-> payments[k].amount] :
        k \in {n \in DOMAIN payments : IsCompleted(n)}}

Undone == {k \in DOMAIN payments : payments[k].reverses = 0 /\ ~IsCompleted(k)}

Posted == Len(payments)

Book == INSTANCE SettlementBook WITH
    stage <- Stage, due <- Due, settled <- Settled, collected <- Collected,
    standing <- Standing, undone <- Undone, posted <- Posted

(* Every commit of a request is one atomic step of the book, and every other *)
(* step leaves the book alone: interleaved payments, reversals, activations *)
(* and cancellations are as good as done one after the other.               *)
ImplementsBook == Book!Spec
=============================================================================
