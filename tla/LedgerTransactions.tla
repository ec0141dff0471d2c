------------------------- MODULE LedgerTransactions -------------------------
(***************************************************************************)
(* The money core of the ledger: the database transactions with which      *)
(* PaymentService, InvoiceService and ReconciliationService change the     *)
(* tables Invoices, InvoiceItems, Payments and CustomerAccounts, run by    *)
(* concurrent web requests.                                                *)
(*                                                                         *)
(* What a request reads from the database and keeps in its DbContext is a  *)
(* copy that goes stale while other requests commit.  Three mechanisms of  *)
(* the code stand against that, and all three are modelled:                *)
(*   - SELECT ... FOR UPDATE on the invoice row (payments and reversals),  *)
(*     the variable lock: everybody else who writes the row waits;         *)
(*   - the ConcurrencyVersion token of Invoices and CustomerAccounts: an   *)
(*     UPDATE of a row whose version is not the one that was read matches  *)
(*     no row, SaveChanges throws and the transaction rolls back (Fail);   *)
(*   - the unique index on Payments.PaymentNumber.                         *)
(* The isolation level is MySQL's default, REPEATABLE READ: the plain      *)
(* SELECTs of one transaction read the snapshot of its first one, FOR      *)
(* UPDATE and UPDATE read the current rows.                                *)
(*                                                                         *)
(* One action is one database round trip that reads, and the SaveChanges,  *)
(* audit insert and commit that end a request: between the first UPDATE    *)
(* and the commit the written rows are locked, so nobody sees them half    *)
(* done.  A request that a guard refuses changes nothing and is not begun; *)
(* Abort is every other way to end without a commit (deadlock victim,      *)
(* dropped connection, crash of the web process).                          *)
(***************************************************************************)
EXTENDS Integers, Sequences, FiniteSets, RunningSums

CONSTANTS
    NumInvoices,    \* invoices have the ids 1 .. NumInvoices
    Customers,
    CustomerOf,     \* [Invoices -> Customers], Invoice.CustomerId
    Lines,          \* ids of invoice items
    TotalOf,        \* [SUBSET Lines -> Nat], RecalculateInvoiceTotals, in cents
    Amounts,        \* amounts a user may enter, in cents
    Numbers,        \* payment numbers
    RevOf,          \* [Numbers -> Numbers \cup {TooLong}], number + "-REV"
    TooLong,        \* a number that no longer fits the column (30 characters)
    Requests,       \* request slots: the requests being served at one time
    NoRequest,
    MaxRequests     \* bound: requests begun in a behaviour

Invoices == 1 .. NumInvoices

ASSUME NumInvoicesAssumption == NumInvoices \in Nat
ASSUME CustomerOfAssumption  == CustomerOf \in [Invoices -> Customers]
ASSUME TotalOfAssumption     == TotalOf \in [SUBSET Lines -> Nat]
ASSUME AmountsAssumption     == Amounts \subseteq Int
ASSUME NumbersAssumption     == RevOf \in [Numbers -> Numbers \cup {TooLong}]
                                /\ TooLong \notin Numbers
ASSUME NoRequestAssumption   == NoRequest \notin Requests
ASSUME MaxRequestsAssumption == MaxRequests \in Nat

VARIABLES
    invoice,    \* Invoices: the row of each invoice
    items,      \* InvoiceItems: the ids of the lines of each invoice
    minted,     \* the line ids handed out so far (AUTO_INCREMENT)
    account,    \* CustomerAccounts: the row of each customer
    payments,   \* Payments, in the order of their ids
    lock,       \* the request whose FOR UPDATE holds the invoice row
    req,        \* what each request has read and where it is
    begun       \* number of requests begun, bounded by MaxRequests

tables == <<invoice, items, minted, account, payments>>
vars   == <<invoice, items, minted, account, payments, lock, req, begun>>

-----------------------------------------------------------------------------
(* Rows *)

InvoiceStatus == {"Absent", "Draft", "Active", "Cancelled"}
SettlementStatus == {"Unpaid", "PartiallyPaid", "Paid"}

InvoiceRow == [status : InvoiceStatus, total : Nat, paid : Int,
               outstanding : Int, payStatus : SettlementStatus, version : Nat]

AccountRow == [billed : Int, paid : Int, balance : Int, version : Nat]

PaymentRow == [invoice : Invoices, amount : Int,
               status : {"Completed", "Reversed"},
               reverses : Nat,      \* ReversedPaymentId, 0 for null
               number : Numbers]

NoInvoiceRow == [status |-> "Absent", total |-> 0, paid |-> 0,
                 outstanding |-> 0, payStatus |-> "Unpaid", version |-> 0]

NewAccountRow == [billed |-> 0, paid |-> 0, balance |-> 0, version |-> 0]

Operations == {"None", "Record", "Installment", "Reverse", "Activate",
               "Cancel", "AddItem", "RemoveItem", "Reconcile"}

(* "loaded": has read its rows, holds no lock; "locked": holds the invoice  *)
(* row; "ready": has read the account too, SaveChanges is next.             *)
Request == [op : Operations, at : {"idle", "loaded", "locked", "ready"},
            inv : Invoices \cup {0}, pay : Nat, amount : Int,
            number : Numbers \cup {TooLong}, line : Lines \cup {0},
            row : InvoiceRow, lines : SUBSET Lines,
            cust : Customers \cup {0}, acct : AccountRow,
            billed : Int, paid : Int]

Idle == [op |-> "None", at |-> "idle", inv |-> 0, pay |-> 0, amount |-> 0,
         number |-> TooLong, line |-> 0, row |-> NoInvoiceRow, lines |-> {},
         cust |-> 0, acct |-> NewAccountRow, billed |-> 0, paid |-> 0]

Init ==
    /\ invoice  = [i \in Invoices |-> NoInvoiceRow]
    /\ items    = [i \in Invoices |-> {}]
    /\ minted   = {}
    /\ account  = [c \in Customers |-> NewAccountRow]
    /\ payments = <<>>
    /\ lock     = [i \in Invoices |-> NoRequest]
    /\ req      = [r \in Requests |-> Idle]
    /\ begun    = 0

-----------------------------------------------------------------------------
(* Queries *)

IsCompleted(k) == payments[k].status = "Completed"

(* Sums of source rows, one column entry per row number (SumAsync). *)
CompletedOn(i) ==
    [k \in Nat |-> IF k \in DOMAIN payments /\ payments[k].invoice = i
                                            /\ IsCompleted(k)
                   THEN payments[k].amount ELSE 0]
CompletedBy(c) ==
    [k \in Nat |-> IF k \in DOMAIN payments /\ CustomerOf[payments[k].invoice] = c
                                            /\ IsCompleted(k)
                   THEN payments[k].amount ELSE 0]
ActiveOf(c) ==
    [i \in Nat |-> IF i \in Invoices /\ CustomerOf[i] = c
                                     /\ invoice[i].status = "Active"
                   THEN invoice[i].total ELSE 0]

PaidOn(i)   == RunningSum(CompletedOn(i))[Len(payments)]
PaidBy(c)   == RunningSum(CompletedBy(c))[Len(payments)]
BilledTo(c) == RunningSum(ActiveOf(c))[NumInvoices]

(* The definitions called ..._faulty are not part of the model: each is a   *)
(* plausible mistake in the definition that follows it, put in its place by *)
(* a mutant of PROJECT.json to show that a property notices.                *)

(* The unique index on PaymentNumber, and the column's length. *)
NumberFree(n) == n \in Numbers /\ \A k \in DOMAIN payments : payments[k].number # n

(* Nobody but r holds the invoice row: an UPDATE of it need not wait. *)
RowFree(r, i) == lock[i] \in {NoRequest, r}

InvoiceUnchanged_faulty(r) == TRUE
AccountUnchanged_faulty(r) == TRUE

(* WHERE ConcurrencyVersion = <the version that was read> matches a row. *)
InvoiceUnchanged(r) == invoice[req[r].inv].version = req[r].row.version
AccountUnchanged(r) == account[req[r].cust].version = req[r].acct.version

-----------------------------------------------------------------------------
(* How a request begins, moves on and ends *)

Begin(r, request) ==
    /\ req[r].at = "idle"
    /\ begun < MaxRequests
    /\ begun' = begun + 1
    /\ req' = [req EXCEPT ![r] = request]

Release_faulty(r) == lock' = lock

Release(r) == lock' = [i \in Invoices |-> IF lock[i] = r THEN NoRequest ELSE lock[i]]

End(r) ==
    /\ req' = [req EXCEPT ![r] = Idle]
    /\ Release(r)
    /\ begun' = begun

At(r, ops, place) == req[r].op \in ops /\ req[r].at = place

(* The second query of a payment, an activation, and the cancellation of an *)
(* active invoice: CustomerAccounts.FirstOrDefaultAsync, no lock.           *)
ReadAccount(r) ==
    /\ \/ At(r, {"Record", "Installment"}, "locked")
       \/ At(r, {"Activate", "Cancel"}, "loaded")
    /\ req' = [req EXCEPT ![r].acct = account[req[r].cust], ![r].at = "ready"]
    /\ UNCHANGED <<tables, lock, begun>>

-----------------------------------------------------------------------------
(* InvoiceService *)

(* CreateDraftAsync.  The invoice number is the identity i, so the check    *)
(* that the number is unused and the unique index behind it are one guard.  *)
CreateDraft(i, S) ==
    /\ invoice[i].status = "Absent"
    /\ S \subseteq Lines \ minted
    /\ invoice' = [invoice EXCEPT ![i] =
                     [NoInvoiceRow EXCEPT !.status = "Draft", !.total = TotalOf[S],
                                          !.outstanding = TotalOf[S]]]
    /\ items' = [items EXCEPT ![i] = S]
    /\ minted' = minted \cup S
    /\ UNCHANGED <<account, payments, lock, req, begun>>

(* LoadEditableDraftAsync: the tracked invoice with its lines; it is not in *)
(* the transaction that follows and takes no lock.                          *)
LoadDraft(r, op, i, l, place) ==
    /\ invoice[i].status = "Draft"
    /\ Begin(r, [Idle EXCEPT !.op = op, !.at = place, !.inv = i, !.line = l,
                             !.row = invoice[i], !.lines = items[i],
                             !.cust = CustomerOf[i]])
    /\ UNCHANGED <<invoice, items, account, payments, lock>>

AddItemLoad(r, i, l) ==
    /\ l \in Lines \ minted
    /\ minted' = minted \cup {l}
    /\ LoadDraft(r, "AddItem", i, l, "ready")

RemoveItemLoad(r, i, l) ==
    /\ l \in items[i]
    /\ minted' = minted
    /\ LoadDraft(r, "RemoveItem", i, l, "ready")

(* The lines as this request sees them once it has edited its copy. *)
EditedLines(r) == IF req[r].op = "AddItem" THEN req[r].lines \cup {req[r].line}
                                           ELSE req[r].lines \ {req[r].line}

(* Change tracking: the invoice row is updated, and its token compared,     *)
(* only when the recalculated total differs from the one that was read.     *)
TotalChanges(r) == TotalOf[EditedLines(r)] # req[r].row.total

(* SaveChanges of AddItemAsync and RemoveItemAsync.  The insert of a line   *)
(* waits for the row lock too (foreign key), its delete does not.  Neither  *)
(* increments the invoice's version.                                        *)
EditSave(r) ==
    LET i == req[r].inv
        total == TotalOf[EditedLines(r)]
    IN  /\ At(r, {"AddItem", "RemoveItem"}, "ready")
        /\ (req[r].op = "AddItem" \/ TotalChanges(r)) => RowFree(r, i)
        /\ TotalChanges(r) => InvoiceUnchanged(r)
        /\ IF req[r].op = "AddItem"
           THEN items' = [items EXCEPT ![i] = @ \cup {req[r].line}]
           ELSE /\ req[r].line \in items[i]
                /\ items' = [items EXCEPT ![i] = @ \ {req[r].line}]
        /\ invoice' = IF TotalChanges(r)
                      THEN [invoice EXCEPT ![i].total = total,
                                           ![i].outstanding = total - req[r].row.paid]
                      ELSE invoice
        /\ End(r)
        /\ UNCHANGED <<minted, account, payments>>

(* ActivateAsync: load and check the lines, read the account, save.         *)
ActivateLoad(r, i) ==
    /\ items[i] # {}
    /\ minted' = minted
    /\ LoadDraft(r, "Activate", i, 0, "loaded")

(* TotalBilled grows by the total that was read, not by the one stored now. *)
ActivateSave(r) ==
    LET i == req[r].inv
        c == req[r].cust
        billed == req[r].acct.billed + req[r].row.total
    IN  /\ At(r, {"Activate"}, "ready")
        /\ RowFree(r, i)
        /\ InvoiceUnchanged(r)
        /\ AccountUnchanged(r)
        /\ invoice' = [invoice EXCEPT ![i].status = "Active",
                                      ![i].version = req[r].row.version + 1]
        /\ account' = [account EXCEPT ![c].billed = billed,
                                      ![c].balance = billed - req[r].acct.paid,
                                      ![c].version = req[r].acct.version + 1]
        /\ End(r)
        /\ UNCHANGED <<items, minted, payments>>

(* CancelAsync: the invoice with its payments in one query, outside the     *)
(* transaction.  Any status is accepted; only an active invoice touches the *)
(* account.                                                                 *)
CancelLoad(r, i) ==
    /\ invoice[i].status # "Absent"
    /\ \A k \in DOMAIN payments : payments[k].invoice = i => ~IsCompleted(k)
    /\ Begin(r, [Idle EXCEPT !.op = "Cancel", !.inv = i, !.row = invoice[i],
                             !.at = IF invoice[i].status = "Active" THEN "loaded" ELSE "ready",
                             !.cust = CustomerOf[i]])
    /\ UNCHANGED <<tables, lock>>

WasActive_faulty(r) == TRUE

WasActive(r) == req[r].row.status = "Active"

CancelSave(r) ==
    LET i == req[r].inv
        c == req[r].cust
        billed == req[r].acct.billed - req[r].row.total
    IN  /\ At(r, {"Cancel"}, "ready")
        /\ RowFree(r, i)
        /\ InvoiceUnchanged(r)
        /\ WasActive(r) => AccountUnchanged(r)
        /\ invoice' = [invoice EXCEPT ![i].status = "Cancelled",
                                      ![i].version = req[r].row.version + 1]
        /\ account' = IF WasActive(r)
                      THEN [account EXCEPT ![c].billed = billed,
                                           ![c].balance = billed - req[r].acct.paid,
                                           ![c].version = req[r].acct.version + 1]
                      ELSE account
        /\ End(r)
        /\ UNCHANGED <<items, minted, payments>>

-----------------------------------------------------------------------------
(* PaymentService *)

Payable_faulty(row, amount) ==
    /\ row.status = "Active"
    /\ row.outstanding > 0
    /\ amount <= row.total

(* The three checks of RecordPaymentAsync on the invoice it works with.     *)
Payable(row, amount) ==
    /\ row.status = "Active"
    /\ row.outstanding > 0
    /\ amount <= row.outstanding

(* RecordPaymentAsync up to the lock: FOR UPDATE reads the current row.     *)
RecordLock(r, i, amount, number) ==
    /\ amount > 0
    /\ lock[i] = NoRequest
    /\ Payable(invoice[i], amount)
    /\ Begin(r, [Idle EXCEPT !.op = "Record", !.at = "locked", !.inv = i,
                             !.amount = amount, !.number = number,
                             !.row = invoice[i], !.cust = CustomerOf[i]])
    /\ lock' = [lock EXCEPT ![i] = r]
    /\ UNCHANGED tables

(* PayInstallmentAsync has already loaded the invoice, tracked, with the    *)
(* schedule of its plan (plans exist only for invoices that were activated),*)
InstallmentLoad(r, i, amount, number) ==
    /\ amount > 0
    /\ invoice[i].status \in {"Active", "Cancelled"}
    /\ Begin(r, [Idle EXCEPT !.op = "Installment", !.at = "loaded", !.inv = i,
                             !.amount = amount, !.number = number,
                             !.row = invoice[i], !.cust = CustomerOf[i]])
    /\ UNCHANGED <<tables, lock>>

(* so the FOR UPDATE query of RecordPaymentAsync locks the row but returns  *)
(* the tracked copy: the checks see the values read before the lock.        *)
InstallmentLock(r) ==
    LET i == req[r].inv
    IN  /\ At(r, {"Installment"}, "loaded")
        /\ lock[i] = NoRequest
        /\ Payable(req[r].row, req[r].amount)
        /\ req' = [req EXCEPT ![r].at = "locked"]
        /\ lock' = [lock EXCEPT ![i] = r]
        /\ UNCHANGED <<tables, begun>>

InstallmentRefuse(r) ==
    /\ At(r, {"Installment"}, "loaded")
    /\ ~Payable(req[r].row, req[r].amount)
    /\ End(r)
    /\ UNCHANGED tables

PostedInvoice_faulty(i, row, paid, payStatus) ==
    [invoice EXCEPT ![i].paid = paid,
                    ![i].outstanding = row.total - paid,
                    ![i].payStatus = payStatus]

(* What a posting writes to the invoice and to the account.                 *)
PostedInvoice(i, row, paid, payStatus) ==
    [invoice EXCEPT ![i].paid = paid,
                    ![i].outstanding = row.total - paid,
                    ![i].payStatus = payStatus,
                    ![i].version = row.version + 1]

PostedAccount(c, acct, amount) ==
    [account EXCEPT ![c].paid = acct.paid + amount,
                    ![c].balance = acct.billed - (acct.paid + amount),
                    ![c].version = acct.version + 1]

NewPayment(i, amount, status, reverses, number) ==
    [invoice |-> i, amount |-> amount, status |-> status,
     reverses |-> reverses, number |-> number]

RecordSave(r) ==
    LET i == req[r].inv
        paid == req[r].row.paid + req[r].amount
    IN  /\ At(r, {"Record", "Installment"}, "ready")
        /\ InvoiceUnchanged(r)
        /\ AccountUnchanged(r)
        /\ NumberFree(req[r].number)
        /\ invoice' = PostedInvoice(i, req[r].row, paid,
                         IF req[r].row.total - paid <= 0 THEN "Paid" ELSE "PartiallyPaid")
        /\ account' = PostedAccount(req[r].cust, req[r].acct, req[r].amount)
        /\ payments' = Append(payments,
                         NewPayment(i, req[r].amount, "Completed", 0, req[r].number))
        /\ End(r)
        /\ UNCHANGED <<items, minted>>

(* ReverseAsync reads the payment first, which fixes the snapshot of the    *)
(* transaction: the account it reads later is the account as of now.        *)
ReverseRead(r, k) ==
    LET i == payments[k].invoice
    IN  /\ IsCompleted(k)
        /\ \A j \in DOMAIN payments : payments[j].reverses # k
        /\ Begin(r, [Idle EXCEPT !.op = "Reverse", !.at = "loaded", !.inv = i,
                                 !.pay = k, !.amount = payments[k].amount,
                                 !.number = RevOf[payments[k].number],
                                 !.cust = CustomerOf[i],
                                 !.acct = account[CustomerOf[i]]])
        /\ UNCHANGED <<tables, lock>>

(* The invoice is locked and read as it is now, the payment is not re-read. *)
ReverseLock(r) ==
    LET i == req[r].inv
    IN  /\ At(r, {"Reverse"}, "loaded")
        /\ lock[i] = NoRequest
        /\ req' = [req EXCEPT ![r].at = "ready", ![r].row = invoice[i]]
        /\ lock' = [lock EXCEPT ![i] = r]
        /\ UNCHANGED <<tables, begun>>

Marked_faulty(k) == payments

(* The original payment, marked.                                            *)
Marked(k) == [payments EXCEPT ![k].status = "Reversed"]

ReverseSave(r) ==
    LET i == req[r].inv
        paid == req[r].row.paid - req[r].amount
    IN  /\ At(r, {"Reverse"}, "ready")
        /\ InvoiceUnchanged(r)
        /\ AccountUnchanged(r)
        /\ NumberFree(req[r].number)
        /\ invoice' = PostedInvoice(i, req[r].row, paid,
                         IF paid <= 0 THEN "Unpaid" ELSE "PartiallyPaid")
        /\ account' = PostedAccount(req[r].cust, req[r].acct, -req[r].amount)
        /\ payments' = Append(Marked(req[r].pay),
                         NewPayment(i, req[r].amount, "Reversed", req[r].pay, req[r].number))
        /\ End(r)
        /\ UNCHANGED <<items, minted>>

-----------------------------------------------------------------------------
(* ReconciliationService *)

(* HadMismatch of the report. *)
Mismatch(acct, billed, paid) ==
    \/ acct.billed # billed
    \/ acct.paid # paid
    \/ acct.balance # billed - paid

(* The account and both sums are read from one snapshot.  Without a         *)
(* mismatch nothing is written and the request leaves no trace.             *)
ReconcileRead(r, c) ==
    /\ Mismatch(account[c], BilledTo(c), PaidBy(c))
    /\ Begin(r, [Idle EXCEPT !.op = "Reconcile", !.at = "ready", !.cust = c,
                             !.acct = account[c], !.billed = BilledTo(c),
                             !.paid = PaidBy(c)])
    /\ UNCHANGED <<tables, lock>>

ReconcileSave(r) ==
    /\ At(r, {"Reconcile"}, "ready")
    /\ AccountUnchanged(r)
    /\ account' = [account EXCEPT ![req[r].cust] =
                     [billed |-> req[r].billed, paid |-> req[r].paid,
                      balance |-> req[r].billed - req[r].paid,
                      version |-> req[r].acct.version + 1]]
    /\ End(r)
    /\ UNCHANGED <<invoice, items, minted, payments>>

-----------------------------------------------------------------------------
(* Requests that end without a commit *)

WritesInvoice(r) ==
    \/ req[r].op \in {"Record", "Installment", "Reverse", "Activate", "Cancel"}
    \/ req[r].op \in {"AddItem", "RemoveItem"} /\ TotalChanges(r)

WritesAccount(r) ==
    \/ req[r].op \in {"Record", "Installment", "Reverse", "Activate", "Reconcile"}
    \/ req[r].op = "Cancel" /\ WasActive(r)

(* SaveChanges throws: an UPDATE or DELETE matched no row, or a payment     *)
(* number is taken or too long.  The transaction rolls back; there is no    *)
(* retry.                                                                   *)
SaveFails(r) ==
    LET op == req[r].op
    IN  /\ req[r].at = "ready"
        /\ \/ WritesInvoice(r) /\ ~InvoiceUnchanged(r)
           \/ WritesAccount(r) /\ ~AccountUnchanged(r)
           \/ op \in {"Record", "Installment", "Reverse"} /\ ~NumberFree(req[r].number)
           \/ op = "RemoveItem" /\ req[r].line \notin items[req[r].inv]

Fail(r) == SaveFails(r) /\ End(r) /\ UNCHANGED tables

Abort(r) == req[r].at # "idle" /\ End(r) /\ UNCHANGED tables

-----------------------------------------------------------------------------
BeginRequest(r) ==
    \/ \E i \in Invoices :
        \/ \E a \in Amounts, n \in Numbers :
            RecordLock(r, i, a, n) \/ InstallmentLoad(r, i, a, n)
        \/ \E l \in Lines : AddItemLoad(r, i, l) \/ RemoveItemLoad(r, i, l)
        \/ ActivateLoad(r, i)
        \/ CancelLoad(r, i)
    \/ \E k \in DOMAIN payments : ReverseRead(r, k)
    \/ \E c \in Customers : ReconcileRead(r, c)

Save(r) ==
    \/ EditSave(r)
    \/ ActivateSave(r)
    \/ CancelSave(r)
    \/ RecordSave(r)
    \/ ReverseSave(r)
    \/ ReconcileSave(r)

Progress(r) ==
    \/ ReadAccount(r)
    \/ InstallmentLock(r)
    \/ InstallmentRefuse(r)
    \/ ReverseLock(r)
    \/ Save(r)
    \/ Fail(r)

(* All the requests of the behaviour have been served. *)
AllServed ==
    /\ begun = MaxRequests
    /\ \A r \in Requests : req[r].at = "idle"
    /\ UNCHANGED vars

Next ==
    \/ \E i \in Invoices, S \in SUBSET Lines : CreateDraft(i, S)
    \/ \E r \in Requests : BeginRequest(r) \/ Progress(r) \/ Abort(r)
    \/ AllServed

Spec == Init /\ [][Next]_vars

(* A request that has begun is carried through by its thread; a new request *)
(* need never arrive and an abort need never happen.                        *)
FairSpec == Spec /\ \A r \in Requests : WF_vars(Progress(r))

-----------------------------------------------------------------------------
(* Properties *)

TypeOK ==
    /\ invoice \in [Invoices -> InvoiceRow]
    /\ items \in [Invoices -> SUBSET Lines]
    /\ minted \in SUBSET Lines
    /\ account \in [Customers -> AccountRow]
    /\ payments \in Seq(PaymentRow)
    /\ lock \in [Invoices -> Requests \cup {NoRequest}]
    /\ req \in [Requests -> Request]
    /\ begun \in 0 .. MaxRequests

(* An invoice that was issued is never paid beyond its total nor below      *)
(* zero, and its outstanding amount and payment status say the same as its  *)
(* paid amount, however payments, installments, reversals and edits of the  *)
(* draft interleave (the promise of PaymentService's class comment).        *)
NoOverpayment ==
    \A i \in Invoices :
        invoice[i].status \in {"Active", "Cancelled"} =>
            /\ 0 <= invoice[i].paid /\ invoice[i].paid <= invoice[i].total
            /\ invoice[i].outstanding = invoice[i].total - invoice[i].paid
            /\ invoice[i].payStatus = "Unpaid" <=> invoice[i].paid = 0
            /\ invoice[i].payStatus = "Paid" <=>
                   invoice[i].paid > 0 /\ invoice[i].outstanding = 0

(* The PaidAmount column of every invoice is the sum of its completed       *)
(* payments: no posting or reversal is lost or applied twice.               *)
InvoicePaidIsExact == \A i \in Invoices : invoice[i].paid = PaidOn(i)

(* TotalPaid of every account is the sum of the customer's completed        *)
(* payments, over all the customer's invoices, and the balance follows the  *)
(* two totals: no lost update between requests on different invoices of one *)
(* customer, which do not wait for each other's row locks.                  *)
AccountPaidIsExact ==
    \A c \in Customers : /\ account[c].paid = PaidBy(c)
                         /\ account[c].balance = account[c].billed - account[c].paid

(* A payment is reversed at most once, and it is marked Reversed exactly    *)
(* when a reversal row points at it (two reversals of one payment both read *)
(* it as Completed before either takes the lock).                           *)
ReversedAtMostOnce ==
    /\ \A j, k \in DOMAIN payments :
         payments[j].reverses # 0 /\ payments[j].reverses = payments[k].reverses => j = k
    /\ \A k \in DOMAIN payments :
         payments[k].status = "Reversed" /\ payments[k].reverses = 0
             <=> \E j \in DOMAIN payments : payments[j].reverses = k

(* A payment or reversal that waited for FOR UPDATE works on the balance as *)
(* it is, and as it stays until the request ends: nobody writes the row in  *)
(* between.  Installment payments are the exception (see Findings).         *)
LockedRowIsCurrent ==
    \A r \in Requests :
        At(r, {"Record"}, "locked") \/ At(r, {"Record", "Reverse"}, "ready")
            => req[r].row = invoice[req[r].inv]

(* A cancelled invoice holds no completed payment: a payment cannot slip in *)
(* between the check of CancelAsync and its save.                           *)
CancelledHoldsNoPayment ==
    \A k \in DOMAIN payments :
        IsCompleted(k) => invoice[payments[k].invoice].status = "Active"

(* Once an invoice has left Draft its total is frozen, although an edit that*)
(* loaded the draft may save later; and Cancelled is final, although an     *)
(* activation that loaded the draft may save later.                         *)
IssuedTotalIsFrozen ==
    [][\A i \in Invoices :
         invoice[i].status \in {"Active", "Cancelled"} =>
             /\ invoice'[i].total = invoice[i].total
             /\ invoice'[i].status \in {invoice[i].status, "Cancelled"}]_vars

(* How far TotalBilled of an account is from the invoices it stands for.    *)
Drift(c) == account[c].billed - BilledTo(c)

(* TotalBilled of an account drifts away from the customer's active         *)
(* invoices in one way only: an activation that bills a total which an edit *)
(* of the draft has meanwhile replaced.  Only a reconciliation changes the  *)
(* drift otherwise.                                                         *)
DriftOnlyByStaleActivation ==
    [][\A c \in Customers : Drift(c)' # Drift(c) =>
         \E r \in Requests :
             /\ req[r].cust = c
             /\ \/ ReconcileSave(r)
                \/ /\ ActivateSave(r)
                   /\ req[r].row.total # invoice[req[r].inv].total]_vars

(* A reconciliation that commits leaves the account equal to the source     *)
(* rows as they are at that moment, although it summed them earlier.        *)
ReconciliationSettles ==
    [][\A r \in Requests, c \in Customers :
         ReconcileSave(r) /\ req[r].cust = c =>
             /\ account'[c].billed = BilledTo(c)'
             /\ account'[c].paid = PaidBy(c)']_vars

(* Every request that has begun ends: the row locks and tokens leave no     *)
(* request waiting for ever.                                                *)
EveryRequestEnds == \A r \in Requests : req[r].at # "idle" ~> req[r].at = "idle"

(* What the project's documents and messages say, and the code does not     *)
(* keep (see README, Findings).                                             *)

(* The total of a draft is recalculated from its lines.                     *)
TotalMatchesLines ==
    \A i \in Invoices : invoice[i].status = "Draft" => invoice[i].total = TotalOf[items[i]]
=============================================================================
