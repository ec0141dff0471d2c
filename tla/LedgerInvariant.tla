-------------------------- MODULE LedgerInvariant --------------------------
(***************************************************************************)
(* The inductive invariant behind the theorems of LedgerProofs.            *)
(*                                                                         *)
(* Its heart is what a version number guarantees: as long as a row still   *)
(* has the version that a request read, the row still has the content that *)
(* was read (except the total of a draft, whose edits bump no version), and*)
(* no payment of the row's invoice or customer has been posted or reversed.*)
(* A save that passes its token check therefore acts on current data.      *)
(***************************************************************************)
EXTENDS LedgerRefinement

(* The columns of one invoice row agree with each other. *)
RowConsistent(row) ==
    /\ row.status = "Absent" => row.version = 0
    /\ row.status \in {"Absent", "Draft"} =>
           row.paid = 0 /\ row.payStatus = "Unpaid"
    /\ row.status = "Cancelled" => row.paid = 0
    /\ 0 <= row.paid /\ row.paid <= row.total
    /\ row.outstanding = row.total - row.paid
    /\ row.payStatus = "Unpaid" <=> row.paid = 0
    /\ row.payStatus = "Paid" <=> row.paid > 0 /\ row.outstanding = 0

RowsConsistent == \A i \in Invoices : RowConsistent(invoice[i])

(* Every payment row: a positive amount on an invoice that was issued, and a*)
(* reversal row points at a payment that is marked Reversed.                *)
PaymentsConsistent ==
    \A k \in DOMAIN payments :
        /\ payments[k].amount > 0
        /\ invoice[payments[k].invoice].status \in {"Active", "Cancelled"}
        /\ payments[k].reverses # 0 =>
              /\ payments[k].reverses \in DOMAIN payments
              /\ payments[k].status = "Reversed"
              /\ payments[payments[k].reverses].status = "Reversed"
              /\ payments[payments[k].reverses].reverses = 0

(* What is read and kept: a copy of the same version has the same content.  *)
SameRow(copy, row) ==
    /\ copy.status = row.status
    /\ copy.paid = row.paid
    /\ copy.payStatus = row.payStatus
    /\ copy.status # "Draft" =>
           copy.total = row.total /\ copy.outstanding = row.outstanding

InvoiceCopy(r) ==
    LET row == invoice[req[r].inv]
    IN  /\ req[r].row.status # "Absent"
        /\ RowConsistent(req[r].row)
        /\ req[r].row.version <= row.version
        /\ req[r].row.version = row.version => SameRow(req[r].row, row)

AccountCopy(r) ==
    LET acct == account[req[r].cust]
    IN  /\ req[r].acct.version <= acct.version
        /\ req[r].acct.version = acct.version => req[r].acct = acct

OnInvoice == {"Record", "Installment", "Reverse", "Activate", "Cancel",
              "AddItem", "RemoveItem"}

HasRow(r) == req[r].op \in OnInvoice /\ ~At(r, {"Reverse"}, "loaded")

HasAccount(r) ==
    \/ At(r, {"Reverse"}, "loaded")
    \/ At(r, {"Record", "Installment", "Reverse", "Activate", "Reconcile"}, "ready")
    \/ At(r, {"Cancel"}, "ready") /\ WasActive(r)

Holds(r) == At(r, {"Record", "Installment"}, "locked")
         \/ At(r, {"Record", "Installment", "Reverse"}, "ready")

(* Where each request is, per operation.                                    *)
RequestInv(r) ==
    /\ req[r].op = "None" <=> req[r].at = "idle"
    /\ req[r].op \in OnInvoice =>
           req[r].inv \in Invoices /\ req[r].cust = CustomerOf[req[r].inv]
    /\ HasRow(r) => InvoiceCopy(r)
    /\ HasAccount(r) => AccountCopy(r)
    /\ req[r].op \in {"Record", "Installment"} =>
           /\ req[r].amount \in Amounts
           /\ req[r].amount > 0
           /\ req[r].number \in Numbers
           /\ req[r].at # "loaded" => Payable(req[r].row, req[r].amount)
           /\ req[r].op = "Record" => req[r].at # "loaded"
    /\ req[r].op = "Reverse" =>
           /\ req[r].at \in {"loaded", "ready"}
           /\ req[r].pay \in DOMAIN payments
           /\ payments[req[r].pay].invoice = req[r].inv
           /\ payments[req[r].pay].amount = req[r].amount
           /\ req[r].acct.version = account[req[r].cust].version => IsCompleted(req[r].pay)
    /\ req[r].op = "Activate" =>
           req[r].at \in {"loaded", "ready"} /\ req[r].row.status = "Draft"
    /\ req[r].op = "Cancel" =>
           /\ req[r].at \in {"loaded", "ready"}
           /\ req[r].row.status # "Absent"
           /\ req[r].at = "loaded" => req[r].row.status = "Active"
           /\ InvoiceUnchanged(r) =>
                 \A k \in DOMAIN payments :
                     payments[k].invoice = req[r].inv => ~IsCompleted(k)
    /\ req[r].op \in {"AddItem", "RemoveItem"} =>
           /\ req[r].at = "ready"
           /\ req[r].line \in Lines
           /\ req[r].row.status = "Draft"
    /\ req[r].op = "Reconcile" =>
           /\ req[r].at = "ready"
           /\ req[r].cust \in Customers
           /\ AccountUnchanged(r) =>
                 req[r].billed = BilledTo(req[r].cust) /\ req[r].paid = PaidBy(req[r].cust)

RequestsInv == \A r \in Requests : RequestInv(r)

(* A row lock is held by the request that took it, for as long as it works  *)
(* with the row, and by nobody else.                                        *)
LockInv ==
    /\ \A i \in Invoices, r \in Requests :
         lock[i] = r <=> Holds(r) /\ req[r].inv = i

(* TLC checks the conjunction; LedgerProofs proves it inductive.            *)
IInv ==
    /\ TypeOK
    /\ RowsConsistent
    /\ PaymentsConsistent
    /\ InvoicePaidIsExact
    /\ AccountPaidIsExact
    /\ CancelledHoldsNoPayment
    /\ ReversedAtMostOnce
    /\ RequestsInv
    /\ LockInv
    /\ LockedRowIsCurrent
=============================================================================
