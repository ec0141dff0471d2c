---------------------------- MODULE Installments ----------------------------
(***************************************************************************)
(* Installment plans: InstallmentPlanService, InstallmentScheduleService   *)
(* and the hourly sweep of OverdueInstallmentBackgroundService, on one     *)
(* invoice and its (only) plan.                                            *)
(*                                                                         *)
(* Paying an installment is three transactions that are not tied together: *)
(* the payment (PaymentService.RecordPaymentAsync), the row of the         *)
(* schedule, and the completion of the plan.  Plans and schedule rows have *)
(* no version and no lock: every UPDATE writes the changed columns of a    *)
(* copy that was read before.  Only the payment itself is guarded, by the  *)
(* version of the invoice.                                                 *)
(*                                                                         *)
(* A payment, a reversal and the cancellation of the invoice are single    *)
(* steps here, as LedgerRefinement shows them to be; the customer account  *)
(* is left out, and a payment that its version refuses is an Abort.        *)
(***************************************************************************)
EXTENDS Integers, Sequences, FiniteSets, RunningSums, InstallmentAmounts

CONSTANTS
    InvoiceTotal,   \* TotalAmount of the invoice, in cents
    Counts,         \* numbers of installments a user may ask for
    DownPayments,   \* down payments a user may enter
    Amounts,        \* amounts a user may pay
    Requests,       \* request slots
    MaxRequests,    \* bound: requests begun in a behaviour
    MaxPayments     \* bound: rows of Payments

ASSUME InvoiceTotalAssumption == InvoiceTotal \in Nat
ASSUME CountsAssumption       == Counts \subseteq Nat \ {0}
ASSUME DownPaymentsAssumption == DownPayments \subseteq Nat
ASSUME AmountsAssumption      == Amounts \subseteq Nat \ {0}
ASSUME BoundsAssumption       == MaxRequests \in Nat /\ MaxPayments \in Nat

VARIABLES
    invoice,    \* status, paid amount and version of the invoice
    payments,   \* its payments in the order of their ids; row 0: not an installment
    plan,       \* status and TotalInstallmentAmount
    schedule,   \* the rows of the plan
    elapsed,    \* how many installments are past their due date
    sweep,      \* the rows the overdue sweep has read, {} when it waits
    req,        \* what each request has read and where it is
    begun       \* number of requests begun, bounded by MaxRequests

vars == <<invoice, payments, plan, schedule, elapsed, sweep, req, begun>>
tables == <<invoice, payments, plan, schedule>>

PlanStatus == {"None", "PendingApproval", "Active", "Completed", "Cancelled"}
RowStatus == {"Pending", "Paid", "Overdue", "Cancelled"}

InvoiceRow == [status : {"Active", "Cancelled"}, paid : Nat, version : Nat]
PaymentRow == [row : Nat, amount : Amounts, completed : BOOLEAN]
ScheduleRow == [due : Nat, paid : Nat, status : RowStatus]

NewInvoice == [status |-> "Active", paid |-> 0, version |-> 0]
NewRow(due) == [due |-> due, paid |-> 0, status |-> "Pending"]

Request == [op : {"None", "Create", "Approve", "Cancel", "Pay"},
            at : {"idle", "loaded", "posted", "saved", "settled"},
            invoice : InvoiceRow, status : PlanStatus, count : Nat,
            amount : Int, row : Nat, copy : ScheduleRow]

Idle == [op |-> "None", at |-> "idle", invoice |-> NewInvoice, status |-> "None",
         count |-> 0, amount |-> 0, row |-> 0, copy |-> NewRow(0)]

(* A request that has read what it checks.                                  *)
Loaded(op, row, status, n, amount, k, copy) ==
    [op |-> op, at |-> "loaded", invoice |-> row, status |-> status,
     count |-> n, amount |-> amount, row |-> k, copy |-> copy]

Init ==
    /\ invoice = NewInvoice
    /\ payments = <<>>
    /\ plan = [status |-> "None", total |-> 0]
    /\ schedule = <<>>
    /\ elapsed = 0
    /\ sweep = {}
    /\ req = [r \in Requests |-> Idle]
    /\ begun = 0

RowNumbers == UNION {1 .. n : n \in Counts}
Rows == DOMAIN schedule

Begin(r, request) ==
    /\ req[r].at = "idle"
    /\ begun < MaxRequests
    /\ begun' = begun + 1
    /\ req' = [req EXCEPT ![r] = request]

Proceed(r, place) == req' = [req EXCEPT ![r].at = place] /\ begun' = begun

End(r) == req' = [req EXCEPT ![r] = Idle] /\ begun' = begun

At(r, op, place) == req[r].op = op /\ req[r].at = place

-----------------------------------------------------------------------------
(* The invoice: what PaymentService and InvoiceService commit *)

Outstanding(row) == InvoiceTotal - row.paid

Payable(row, amount) == row.status = "Active" /\ amount <= Outstanding(row)

(* Bound: a payment is asked for while Payments has a row left for it.      *)
Room == Len(payments) + Cardinality({r \in Requests : At(r, "Pay", "loaded")}) < MaxPayments

(* RecordPaymentAsync: one payment, on the row as it is. *)
Post(amount, row) ==
    /\ payments' = Append(payments, [row |-> row, amount |-> amount, completed |-> TRUE])
    /\ invoice' = [invoice EXCEPT !.paid = @ + amount, !.version = @ + 1]

(* A payment that is not for an installment. *)
DirectPayment(amount) ==
    /\ Room
    /\ Payable(invoice, amount)
    /\ Post(amount, 0)
    /\ UNCHANGED <<plan, schedule, elapsed, sweep, req, begun>>

Reversible_faulty(k) == TRUE

Reversible(k) == payments[k].completed

(* ReverseAsync, of any payment: the schedule is not told. *)
ReversePayment(k) ==
    /\ Reversible(k)
    /\ payments' = [payments EXCEPT ![k].completed = FALSE]
    /\ invoice' = [invoice EXCEPT !.paid = @ - payments[k].amount, !.version = @ + 1]
    /\ UNCHANGED <<plan, schedule, elapsed, sweep, req, begun>>

CancelInvoice ==
    /\ invoice.status = "Active"
    /\ \A k \in DOMAIN payments : ~payments[k].completed
    /\ invoice' = [invoice EXCEPT !.status = "Cancelled", !.version = @ + 1]
    /\ UNCHANGED <<payments, plan, schedule, elapsed, sweep, req, begun>>

-----------------------------------------------------------------------------
(* InstallmentPlanService *)

(* One row per installment; ScheduleSplit models the loop. *)
GenerateSchedule(total, n) == [k \in 1 .. n |-> NewRow(Split(total, n)[k])]

(* CreateAsync reads and checks the invoice *)
CreateLoad(r, n, down) ==
    /\ invoice.status = "Active"
    /\ plan.status = "None"
    /\ Outstanding(invoice) - down > 0
    /\ Begin(r, Loaded("Create", invoice, "None", n, Outstanding(invoice) - down, 0, NewRow(0)))
    /\ UNCHANGED <<tables, elapsed, sweep>>

(* and inserts the plan with its rows; one plan per invoice is a unique     *)
(* index, the invoice is not looked at again.                               *)
CreateSave(r) ==
    /\ At(r, "Create", "loaded")
    /\ plan.status = "None"
    /\ plan' = [status |-> "PendingApproval", total |-> req[r].amount]
    /\ schedule' = GenerateSchedule(req[r].amount, req[r].count)
    /\ End(r)
    /\ UNCHANGED <<invoice, payments, elapsed, sweep>>

CreateFails(r) ==
    /\ At(r, "Create", "loaded")
    /\ plan.status # "None"
    /\ End(r)
    /\ UNCHANGED <<tables, elapsed, sweep>>

(* ApproveAsync and CancelAsync load the plan and set its status, whatever  *)
(* the status was.                                                          *)
PlanLoad(r, op) ==
    /\ plan.status # "None"
    /\ Begin(r, Loaded(op, NewInvoice, plan.status, 0, 0, 0, NewRow(0)))
    /\ UNCHANGED <<tables, elapsed, sweep>>

(* Change tracking: the column is written if it differs from the copy.      *)
WriteStatus(copy, status) ==
    plan' = IF copy = status THEN plan ELSE [plan EXCEPT !.status = status]

ApproveSave(r) ==
    /\ At(r, "Approve", "loaded")
    /\ WriteStatus(req[r].status, "Active")
    /\ End(r)
    /\ UNCHANGED <<invoice, payments, schedule, elapsed, sweep>>

CancelSave(r) ==
    /\ At(r, "Cancel", "loaded")
    /\ WriteStatus(req[r].status, "Cancelled")
    /\ End(r)
    /\ UNCHANGED <<invoice, payments, schedule, elapsed, sweep>>

-----------------------------------------------------------------------------
(* InstallmentScheduleService.PayInstallmentAsync *)

(* Loads the row with its plan and invoice, and checks.                     *)
PayLoad(r, k, amount) ==
    /\ Room
    /\ plan.status = "Active"
    /\ schedule[k].status # "Cancelled"
    /\ amount <= schedule[k].due - schedule[k].paid
    /\ Begin(r, Loaded("Pay", invoice, plan.status, 0, amount, k, schedule[k]))
    /\ UNCHANGED <<tables, elapsed, sweep>>

InvoiceUnchanged_faulty(r) == TRUE

(* The invoice was loaded with the row and is validated as it was then; the *)
(* payment commits only if its version is still the same.                   *)
InvoiceUnchanged(r) == invoice.version = req[r].invoice.version

PayPost(r) ==
    /\ At(r, "Pay", "loaded")
    /\ Payable(req[r].invoice, req[r].amount)
    /\ InvoiceUnchanged(r)
    /\ Post(req[r].amount, req[r].row)
    /\ Proceed(r, "posted")
    /\ UNCHANGED <<plan, schedule, elapsed, sweep>>

(* The request goes on, unless the checks refuse or SaveChanges throws.     *)
MayPost(r) == Payable(req[r].invoice, req[r].amount) /\ InvoiceUnchanged(r)

PayRefuse(r) ==
    /\ At(r, "Pay", "loaded")
    /\ ~MayPost(r)
    /\ End(r)
    /\ UNCHANGED <<tables, elapsed, sweep>>

CreditedAmount_faulty(r) == req[r].copy.due

CreditedAmount(r) == req[r].copy.paid + req[r].amount

FullyPaid_faulty(r) == CreditedAmount(r) > 0

FullyPaid(r) == CreditedAmount(r) >= req[r].copy.due

(* The second transaction: AmountPaid and, if complete, Status of the row,  *)
(* computed from the copy.                                                  *)
PaySaveRow(r) ==
    LET k == req[r].row
    IN  /\ At(r, "Pay", "posted")
        /\ schedule' = [schedule EXCEPT ![k] =
              [due |-> schedule[k].due, paid |-> CreditedAmount(r),
               status |-> IF FullyPaid(r) /\ req[r].copy.status # "Paid" THEN "Paid"
                          ELSE schedule[k].status]]
        /\ Proceed(r, "saved")
        /\ UNCHANGED <<invoice, payments, plan, elapsed, sweep>>

AllSettled_faulty == \A k \in Rows : schedule[k].status # "Pending"

AllSettled == \A k \in Rows : schedule[k].status \in {"Paid", "Cancelled"}

(* AllAsync over the rows as they are now,                                  *)
PayCheck(r) ==
    /\ At(r, "Pay", "saved")
    /\ IF AllSettled THEN Proceed(r, "settled") ELSE End(r)
    /\ UNCHANGED <<tables, elapsed, sweep>>

(* and the third transaction: the status of the plan.                       *)
PayComplete(r) ==
    /\ At(r, "Pay", "settled")
    /\ WriteStatus(req[r].status, "Completed")
    /\ End(r)
    /\ UNCHANGED <<invoice, payments, schedule, elapsed, sweep>>

(* A request can be cut off anywhere; what it has committed stays.          *)
Abort(r) ==
    /\ req[r].at # "idle"
    /\ End(r)
    /\ UNCHANGED <<tables, elapsed, sweep>>

-----------------------------------------------------------------------------
(* OverdueInstallmentBackgroundService *)

(* The due date of the next installment passes (they are in order). *)
DueDatePasses ==
    /\ elapsed < Len(schedule)
    /\ elapsed' = elapsed + 1
    /\ UNCHANGED <<tables, sweep, req, begun>>

OverdueRows_faulty == {k \in Rows : k <= elapsed}
OverdueRows_late_faulty == {k \in Rows : k < elapsed /\ schedule[k].status = "Pending"}

(* MarkOverdueInstallmentsAsync reads the rows that are pending and past due*)
OverdueRows == {k \in Rows : k <= elapsed /\ schedule[k].status = "Pending"}

SweepRead ==
    /\ sweep = {}
    /\ OverdueRows # {}
    /\ sweep' = OverdueRows
    /\ UNCHANGED <<tables, elapsed, req, begun>>

(* and marks them in one SaveChanges, whatever they have become.            *)
SweepSave ==
    /\ sweep # {}
    /\ schedule' = [k \in Rows |-> IF k \in sweep THEN [schedule[k] EXCEPT !.status = "Overdue"]
                                                  ELSE schedule[k]]
    /\ sweep' = {}
    /\ UNCHANGED <<invoice, payments, plan, elapsed, req, begun>>

(* An exception is caught and logged, or the process restarts; the next     *)
(* sweep comes an hour later.                                               *)
SweepFails ==
    /\ sweep # {}
    /\ sweep' = {}
    /\ UNCHANGED <<tables, elapsed, req, begun>>

-----------------------------------------------------------------------------
BeginRequest(r) ==
    \/ \E n \in Counts, down \in DownPayments : CreateLoad(r, n, down)
    \/ PlanLoad(r, "Approve")
    \/ PlanLoad(r, "Cancel")
    \/ \E k \in Rows, amount \in Amounts : PayLoad(r, k, amount)

Progress(r) ==
    \/ CreateSave(r)
    \/ CreateFails(r)
    \/ ApproveSave(r)
    \/ CancelSave(r)
    \/ PayPost(r)
    \/ PayRefuse(r)
    \/ PaySaveRow(r)
    \/ PayCheck(r)
    \/ PayComplete(r)

Others ==
    \/ \E amount \in Amounts : DirectPayment(amount)
    \/ \E k \in DOMAIN payments : ReversePayment(k)
    \/ CancelInvoice
    \/ DueDatePasses

Sweep == SweepRead \/ SweepSave

(* Nobody has to ask for anything.                                          *)
AllServed ==
    /\ \A r \in Requests : req[r].at = "idle"
    /\ UNCHANGED vars

Next ==
    \/ \E r \in Requests : BeginRequest(r) \/ Progress(r) \/ Abort(r)
    \/ Others
    \/ Sweep \/ SweepFails
    \/ AllServed

Spec == Init /\ [][Next]_vars

(* The sweep comes back every hour for as long as the server runs, so that  *)
(* one failing save does not stop it; only if every save failed would it    *)
(* achieve nothing: strong fairness.  Nothing is asked of the requests.     *)
FairSpec == Spec /\ WF_vars(SweepRead) /\ SF_vars(SweepSave)

-----------------------------------------------------------------------------
(* What the invoice and its installments have collected *)

Kept(p) == p \in DOMAIN payments /\ payments[p].completed
ForRow(p, k) == p \in DOMAIN payments /\ payments[p].row = k

KeptAmounts == [p \in Nat |-> IF Kept(p) THEN payments[p].amount ELSE 0]
AmountsFor(k) == [p \in Nat |-> IF ForRow(p, k) THEN payments[p].amount ELSE 0]
KeptAmountsFor(k) == [p \in Nat |-> IF Kept(p) /\ ForRow(p, k) THEN payments[p].amount ELSE 0]

Collected == RunningSum(KeptAmounts)[Len(payments)]

(* Everything ever paid for row k, and what has not been reversed since.    *)
GrossPaid(k) == RunningSum(AmountsFor(k))[Len(payments)]
NetPaid(k) == RunningSum(KeptAmountsFor(k))[Len(payments)]

RowIs(k, status) == k \in Rows /\ schedule[k].status = status

-----------------------------------------------------------------------------
(* Properties that hold *)

TypeOK ==
    /\ invoice \in InvoiceRow
    /\ payments \in Seq(PaymentRow)
    /\ plan \in [status : PlanStatus, total : Int]
    /\ schedule \in Seq(ScheduleRow) /\ Len(schedule) \in Counts \cup {0}
    /\ elapsed \in 0 .. Len(schedule)
    /\ sweep \subseteq Rows
    /\ req \in [Requests -> Request]
    /\ begun \in 0 .. MaxRequests

(* However installments, other payments and reversals interleave, the       *)
(* invoice never collects more than its total, and its PaidAmount is the    *)
(* sum of its completed payments: the version of the invoice is enough to   *)
(* guard the posting of an installment from a stale copy.                   *)
InvoiceNeverOvercollected ==
    /\ invoice.paid = Collected
    /\ invoice.paid \in 0 .. InvoiceTotal

(* AmountPaid of a row may lag behind, because concurrent saves lose        *)
(* updates, but it never claims money that was not paid for the row, nor    *)
(* more than AmountDue.                                                     *)
ScheduleNeverOverstates ==
    \A k \in Rows : /\ schedule[k].paid <= GrossPaid(k)
                    /\ schedule[k].paid \in 0 .. schedule[k].due

(* A row that is marked Paid was paid for in full.                          *)
PaidRowWasCollected ==
    \A k \in Rows : schedule[k].status = "Paid" => GrossPaid(k) >= schedule[k].due

(* PayInstallmentAsync completes a plan only if every installment was paid  *)
(* for in full, although it checks the rows and writes the plan in          *)
(* different transactions.                                                  *)
CompletedOnlyWhenCollected ==
    [][plan.status # "Completed" /\ plan'.status = "Completed"
         => \A k \in Rows : GrossPaid(k) >= schedule[k].due]_vars

(* The inductive invariant of the proofs.  What it adds: rows come with the *)
(* plan, none is ever cancelled, and what a payment under way has read is   *)
(* still good for what it does next (the AmountDue of its row, a balance    *)
(* that only grows, and the invoice if the version is still the same).      *)
CreateInv(x) == x.at = "loaded" /\ x.amount \in Nat \ {0} /\ x.count \in Counts

PayInv(x) ==
    /\ x.at # "idle"
    /\ x.row \in Rows /\ x.amount \in Amounts
    /\ x.copy.due = schedule[x.row].due
    /\ x.copy.paid + x.amount <= x.copy.due
    /\ IF x.at = "loaded"
       THEN /\ x.copy.paid <= GrossPaid(x.row)
            /\ x.invoice.version <= invoice.version
            /\ x.invoice.version = invoice.version => x.invoice = invoice
       ELSE x.copy.paid + x.amount <= GrossPaid(x.row)
    /\ x.at = "settled" => \A k \in Rows : GrossPaid(k) >= schedule[k].due

RequestInv(x) ==
    /\ x.op = "Create" => CreateInv(x)
    /\ x.op = "Pay" => PayInv(x)

RowsComeWithPlan == plan.status = "None" => schedule = <<>>
NoRowCancelled == \A k \in Rows : schedule[k].status # "Cancelled"

IInv ==
    /\ TypeOK
    /\ InvoiceNeverOvercollected
    /\ ScheduleNeverOverstates
    /\ PaidRowWasCollected
    /\ RowsComeWithPlan
    /\ NoRowCancelled
    /\ \A r \in Requests : RequestInv(req[r])

(* A row that is Paid while no sweep is under way stays Paid: the stale     *)
(* copies of other requests never take the status back, and neither does a  *)
(* sweep that starts later.                                                 *)
PaidIsFinalOutsideSweeps ==
    \A k \in RowNumbers :
        [](RowIs(k, "Paid") /\ sweep = {} => []RowIs(k, "Paid"))

(* An installment that is past its due date does not stay Pending: the      *)
(* sweep marks it, or it is paid.                                           *)
OverdueIsNoticed ==
    \A k \in RowNumbers :
        (RowIs(k, "Pending") /\ k <= elapsed) ~> ~RowIs(k, "Pending")

-----------------------------------------------------------------------------
(* What the documentation says and the code does not do (README, Findings) *)

(* "Payment amount cannot exceed this installment's remaining balance."     *)
(* (InstallmentScheduleService.PayInstallmentAsync)                         *)
InstallmentNotOverpaid == \A k \in Rows : NetPaid(k) <= schedule[k].due
=============================================================================
