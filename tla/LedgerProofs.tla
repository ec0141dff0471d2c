---------------------------- MODULE LedgerProofs ----------------------------
(***************************************************************************)
(* LedgerTransactions keeps its invariants, its action properties and the  *)
(* promises of SettlementBook for every number of invoices, customers,     *)
(* lines and concurrent requests.                                          *)
(*                                                                         *)
(*   Part A  how the sums of source rows respond to a write                *)
(*   Part B  the effects a commit can have on the tables, and what each    *)
(*           preserves                                                     *)
(*   Part C  every commit is one of the effects; the inductive invariant   *)
(*   Part D  every effect is a step of the book; the action properties     *)
(***************************************************************************)
EXTENDS LedgerInvariant, RunningSumsProofs

-----------------------------------------------------------------------------
(***************************************************************************)
(* PART A. SUMS                                                            *)
(*                                                                         *)
(* How the sums that ReconciliationService computes from source rows       *)
(* respond to the writes of the ledger: appending a payment, marking one   *)
(* as reversed, issuing and cancelling an invoice.                         *)
(***************************************************************************)

(* The completed amounts on a set I of invoices in a payments table P.      *)
Completed(P, I) ==
    [k \in Nat |-> IF k \in DOMAIN P /\ P[k].invoice \in I /\ P[k].status = "Completed"
                   THEN P[k].amount ELSE 0]

Paid(P, I) == RunningSum(Completed(P, I))[Len(P)]

InvoicesOf(c) == {i \in Invoices : CustomerOf[i] = c}

(* The billed amounts of a customer in an invoices table T.                 *)
Billed(T, c) ==
    [i \in Nat |-> IF i \in Invoices /\ CustomerOf[i] = c /\ T[i].status = "Active"
                   THEN T[i].total ELSE 0]

(* What a payments table holds, column by column.                           *)
LEMMA RowOfPayments ==
  ASSUME NEW P \in Seq(PaymentRow)
  PROVE  \A k \in DOMAIN P : /\ P[k] \in PaymentRow
                             /\ P[k].invoice \in Invoices
                             /\ P[k].amount \in Int
<1>1. \A k \in DOMAIN P : P[k] \in PaymentRow
  OBVIOUS
<1> QED BY <1>1 DEF PaymentRow

(* The columns these sums add up are numbers.                               *)
LEMMA CompletedType ==
  ASSUME NEW P \in Seq(PaymentRow), NEW I
  PROVE  Completed(P, I) \in [Nat -> Int]
<1>1. \A k \in DOMAIN P : P[k].amount \in Int
  BY RowOfPayments
<1> QED BY <1>1 DEF Completed

(* What is paid on a set of invoices is a number.                           *)
LEMMA PaidType ==
  ASSUME NEW P \in Seq(PaymentRow), NEW I
  PROVE  Paid(P, I) \in Int
BY CompletedType, RunningSumDef DEF Paid

(* The sums of the model are these sums, before a step and after it.        *)
LEMMA PaidIsPaid ==
  /\ payments \in Seq(PaymentRow) =>
        /\ \A i \in Invoices : PaidOn(i) = Paid(payments, {i}) /\ PaidOn(i) \in Int
        /\ \A c \in Customers : PaidBy(c) = Paid(payments, InvoicesOf(c)) /\ PaidBy(c) \in Int
  /\ payments' \in Seq(PaymentRow) =>
        /\ \A i \in Invoices : PaidOn(i)' = Paid(payments', {i}) /\ PaidOn(i)' \in Int
        /\ \A c \in Customers : PaidBy(c)' = Paid(payments', InvoicesOf(c)) /\ PaidBy(c)' \in Int
<1>1. \A i \in Invoices : /\ CompletedOn(i) = Completed(payments, {i})
                         /\ CompletedOn(i)' = Completed(payments', {i})
  BY DEF CompletedOn, Completed, IsCompleted
<1>2. ASSUME NEW c \in Customers, payments \in Seq(PaymentRow)
      PROVE  CompletedBy(c) = Completed(payments, InvoicesOf(c))
  BY <1>2, RowOfPayments DEF CompletedBy, Completed, IsCompleted, InvoicesOf
<1>3. ASSUME NEW c \in Customers, payments' \in Seq(PaymentRow)
      PROVE  CompletedBy(c)' = Completed(payments', InvoicesOf(c))
  BY <1>3, RowOfPayments DEF CompletedBy, Completed, IsCompleted, InvoicesOf
<1>4. /\ payments \in Seq(PaymentRow) => \A I : Paid(payments, I) \in Int
      /\ payments' \in Seq(PaymentRow) => \A I : Paid(payments', I) \in Int
  BY PaidType
<1> QED BY <1>1, <1>2, <1>3, <1>4 DEF PaidOn, PaidBy, Paid

(* A payment appended to the table adds its amount where it is completed.   *)
LEMMA PaidAppend ==
  ASSUME NEW P \in Seq(PaymentRow), NEW e \in PaymentRow, NEW I
  PROVE  Paid(Append(P, e), I) =
           Paid(P, I) + (IF e.invoice \in I /\ e.status = "Completed" THEN e.amount ELSE 0)
<1> DEFINE n == Len(P)
           Q == Append(P, e)
           c == Completed(P, I)
           d == Completed(Q, I)
<1>1. n \in Nat /\ Q \in Seq(PaymentRow) /\ Len(Q) = n + 1
  OBVIOUS
<1>2. c \in [Nat -> Int] /\ d \in [Nat -> Int]
  BY <1>1, CompletedType
<1>3. \A k \in 1..n : d[k] = c[k]
  BY <1>1 DEF Completed
<1>4. d[n + 1] = IF e.invoice \in I /\ e.status = "Completed" THEN e.amount ELSE 0
  BY <1>1 DEF Completed
<1> HIDE DEF c, d, Q, n
<1>5. RunningSum(d)[n] = RunningSum(c)[n]
  BY <1>1, <1>2, <1>3, RunningSumSame
<1>6. RunningSum(d)[n + 1] = RunningSum(d)[n] + d[n + 1]
  BY <1>1, <1>2, RunningSumDef
<1> QED BY <1>1, <1>4, <1>5, <1>6 DEF Paid, c, d, Q, n

(* Marking a completed payment as reversed takes its amount away.           *)
LEMMA PaidMark ==
  ASSUME NEW P \in Seq(PaymentRow), NEW m \in DOMAIN P, P[m].status = "Completed", NEW I
  PROVE  LET Q == [P EXCEPT ![m].status = "Reversed"]
         IN  /\ Q \in Seq(PaymentRow)
             /\ Len(Q) = Len(P)
             /\ Paid(Q, I) = Paid(P, I) - (IF P[m].invoice \in I THEN P[m].amount ELSE 0)
<1> DEFINE n == Len(P)
           Q == [P EXCEPT ![m].status = "Reversed"]
           c == Completed(P, I)
           d == Completed(Q, I)
<1>1. n \in Nat /\ m \in 1..n /\ DOMAIN P = 1..n
  OBVIOUS
<1>2. Q \in [1..n -> PaymentRow]
  <2>1. P \in [1..n -> PaymentRow]
    BY <1>1
  <2>2. [P[m] EXCEPT !.status = "Reversed"] \in PaymentRow
    BY <1>1, <2>1 DEF PaymentRow
  <2> QED BY <1>1, <2>1, <2>2
<1>3. Q \in Seq(PaymentRow) /\ Len(Q) = n
  BY <1>1, <1>2
<1>4. c \in [Nat -> Int] /\ d \in [Nat -> Int]
  BY <1>3, CompletedType
<1>5. \A k \in 1..n : k # m => d[k] = c[k]
  BY <1>1 DEF Completed
<1>6. d[m] = 0 /\ c[m] = IF P[m].invoice \in I THEN P[m].amount ELSE 0
  BY <1>1 DEF Completed
<1> HIDE DEF c, d, Q, n
<1>7. RunningSum(d)[n] = RunningSum(c)[n] + d[m] - c[m]
  BY <1>1, <1>4, <1>5, RunningSumChange
<1>8. RunningSum(c)[n] \in Int /\ c[m] \in Int
  BY <1>1, <1>4, RunningSumDef
<1> QED BY <1>3, <1>6, <1>7, <1>8 DEF Paid, c, d, Q, n

(* What is paid on a set of invoices covers each of its completed payments, *)
(* and is nothing when there is none.                                       *)
LEMMA PaidCovers ==
  ASSUME NEW P \in Seq(PaymentRow), \A k \in DOMAIN P : P[k].amount > 0, NEW I
  PROVE  /\ Paid(P, I) >= 0
         /\ \A k \in DOMAIN P :
              P[k].invoice \in I /\ P[k].status = "Completed" => Paid(P, I) >= P[k].amount
<1> DEFINE n == Len(P)
           c == Completed(P, I)
<1>1. n \in Nat /\ DOMAIN P = 1..n /\ c \in [Nat -> Int]
  BY CompletedType
<1>2. \A k \in 1..n : c[k] >= 0
  <2>1. \A k \in 1..n : P[k].amount \in Int /\ P[k].amount > 0
    BY <1>1, RowOfPayments
  <2> QED BY <1>1, <2>1 DEF Completed
<1>3. \A k \in 1..n : P[k].invoice \in I /\ P[k].status = "Completed" => c[k] = P[k].amount
  BY <1>1 DEF Completed
<1> HIDE DEF c, n
<1>4. RunningSum(c)[n] >= 0 /\ \A k \in 1..n : RunningSum(c)[n] >= c[k]
  BY <1>1, <1>2, RunningSumAtLeast
<1> QED BY <1>1, <1>3, <1>4 DEF Paid, c, n

(* Without a completed payment nothing is paid.                             *)
LEMMA PaidNothing ==
  ASSUME NEW P \in Seq(PaymentRow), NEW I,
         \A k \in DOMAIN P : P[k].invoice \in I => P[k].status # "Completed"
  PROVE  Paid(P, I) = 0
<1> DEFINE n == Len(P)
           c == Completed(P, I)
<1>1. n \in Nat /\ DOMAIN P = 1..n /\ c \in [Nat -> Int]
  BY CompletedType
<1>2. \A k \in 1..n : c[k] = 0
  BY <1>1 DEF Completed
<1> HIDE DEF c, n
<1> QED BY <1>1, <1>2, RunningSumZero DEF Paid, c, n

-----------------------------------------------------------------------------
(* The totals of a customer's active invoices are numbers.                  *)
LEMMA BilledType ==
  ASSUME NEW T \in [Invoices -> InvoiceRow], NEW c
  PROVE  Billed(T, c) \in [Nat -> Int]
BY DEF Billed, InvoiceRow, Invoices

(* BilledTo of the model adds up this column, before a step and after it.   *)
LEMMA BilledToIsBilled ==
  \A c \in Customers :
      /\ BilledTo(c) = RunningSum(Billed(invoice, c))[NumInvoices]
      /\ BilledTo(c)' = RunningSum(Billed(invoice', c))[NumInvoices]
BY DEF BilledTo, ActiveOf, Billed

(* Replacing one invoice row changes what is billed to its customer by the  *)
(* difference of the two rows, and nothing for anybody else.                *)
LEMMA BilledChange ==
  ASSUME NEW T \in [Invoices -> InvoiceRow], NEW U \in [Invoices -> InvoiceRow],
         NEW i \in Invoices, \A j \in Invoices : j # i => U[j] = T[j],
         NEW c
  PROVE  RunningSum(Billed(U, c))[NumInvoices] =
           RunningSum(Billed(T, c))[NumInvoices] + Billed(U, c)[i] - Billed(T, c)[i]
<1>1. Billed(T, c) \in [Nat -> Int] /\ Billed(U, c) \in [Nat -> Int]
  BY BilledType
<1>2. NumInvoices \in Nat /\ i \in 1..NumInvoices
  BY NumInvoicesAssumption DEF Invoices
<1>3. \A k \in 1..NumInvoices : k # i => Billed(U, c)[k] = Billed(T, c)[k]
  BY <1>2 DEF Billed, Invoices
<1> QED BY <1>1, <1>2, <1>3, RunningSumChange

-----------------------------------------------------------------------------
(***************************************************************************)
(* PART B. EFFECTS                                                         *)
(*                                                                         *)
(* What a commit does to the tables, said in terms of the rows as they are *)
(* at that moment instead of the copies a request has read, and what every *)
(* commit preserves: the invariants of the tables (TablesInv), and what    *)
(* the copies in other requests rely on (TablesMove).                      *)
(***************************************************************************)

TablesType ==
    /\ invoice \in [Invoices -> InvoiceRow]
    /\ items \in [Invoices -> SUBSET Lines]
    /\ minted \in SUBSET Lines
    /\ account \in [Customers -> AccountRow]
    /\ payments \in Seq(PaymentRow)

TablesInv ==
    /\ TablesType
    /\ RowsConsistent
    /\ PaymentsConsistent
    /\ InvoicePaidIsExact
    /\ AccountPaidIsExact
    /\ CancelledHoldsNoPayment
    /\ ReversedAtMostOnce

(* A version never decreases, and a row whose version stays keeps what      *)
(* depends on it: for an invoice its status and money and that no payment   *)
(* of it becomes completed, for an account all its columns, the sums they   *)
(* stand for, and the status of the customer's payments.                    *)
InvoicesMove ==
    \A i \in Invoices :
        /\ invoice[i].version <= invoice'[i].version
        /\ invoice[i].status # "Absent" /\ invoice'[i].version = invoice[i].version
               => SameRow(invoice[i], invoice'[i])

AccountsMove ==
    \A c \in Customers :
        /\ account[c].version <= account'[c].version
        /\ account'[c].version = account[c].version =>
               /\ account'[c] = account[c]
               /\ BilledTo(c)' = BilledTo(c)
               /\ PaidBy(c)' = PaidBy(c)

PaymentsMove ==
    /\ \A k \in DOMAIN payments :
         LET c == CustomerOf[payments[k].invoice]
         IN  /\ k \in DOMAIN payments'
             /\ payments'[k].invoice = payments[k].invoice
             /\ payments'[k].amount = payments[k].amount
             /\ account'[c].version = account[c].version =>
                    payments'[k].status = payments[k].status
    /\ \A k \in DOMAIN payments' :
         LET i == payments'[k].invoice
         IN  payments'[k].status = "Completed" =>
                 \/ k \in DOMAIN payments /\ payments[k].status = "Completed"
                 \/ invoice'[i].version # invoice[i].version

TablesMove == InvoicesMove /\ AccountsMove /\ PaymentsMove

(* The columns that the steps compute with.                                 *)
Columns(inv, acc, pay) ==
    /\ inv \in [Invoices -> InvoiceRow] /\ acc \in [Customers -> AccountRow]
    /\ \A i \in Invoices :
         /\ inv[i] \in InvoiceRow
         /\ inv[i].status \in InvoiceStatus /\ inv[i].payStatus \in SettlementStatus
         /\ inv[i].total \in Nat /\ inv[i].paid \in Int
         /\ inv[i].outstanding \in Int /\ inv[i].version \in Nat
         /\ CustomerOf[i] \in Customers
    /\ \A c \in Customers :
         /\ acc[c] \in AccountRow
         /\ acc[c].billed \in Int /\ acc[c].paid \in Int
         /\ acc[c].balance \in Int /\ acc[c].version \in Nat
    /\ pay \in Seq(PaymentRow)
    /\ DOMAIN pay = 1 .. Len(pay) /\ Len(pay) \in Nat
    /\ \A k \in DOMAIN pay :
         /\ pay[k] \in PaymentRow
         /\ pay[k].invoice \in Invoices /\ pay[k].amount \in Int
         /\ pay[k].reverses \in Nat /\ pay[k].number \in Numbers
         /\ pay[k].status \in {"Completed", "Reversed"}

(* Well-typed tables have well-typed columns, before a step and after it.   *)
LEMMA ColumnTypes ==
  /\ TablesType => Columns(invoice, account, payments)
  /\ TablesType' => Columns(invoice', account', payments')
<1>1. ASSUME NEW inv \in [Invoices -> InvoiceRow]
      PROVE  \A i \in Invoices :
               /\ inv[i] \in InvoiceRow
               /\ inv[i].status \in InvoiceStatus /\ inv[i].payStatus \in SettlementStatus
               /\ inv[i].total \in Nat /\ inv[i].paid \in Int
               /\ inv[i].outstanding \in Int /\ inv[i].version \in Nat
               /\ CustomerOf[i] \in Customers
  BY CustomerOfAssumption DEF InvoiceRow
<1>2. ASSUME NEW acc \in [Customers -> AccountRow]
      PROVE  \A c \in Customers :
               /\ acc[c] \in AccountRow
               /\ acc[c].billed \in Int /\ acc[c].paid \in Int
               /\ acc[c].balance \in Int /\ acc[c].version \in Nat
  BY DEF AccountRow
<1>3. ASSUME NEW pay \in Seq(PaymentRow)
      PROVE  /\ DOMAIN pay = 1 .. Len(pay) /\ Len(pay) \in Nat
             /\ \A k \in DOMAIN pay :
                  /\ pay[k] \in PaymentRow
                  /\ pay[k].invoice \in Invoices /\ pay[k].amount \in Int
                  /\ pay[k].reverses \in Nat /\ pay[k].number \in Numbers
                  /\ pay[k].status \in {"Completed", "Reversed"}
  <2>1. \A k \in DOMAIN pay : pay[k] \in PaymentRow
    OBVIOUS
  <2> QED BY <2>1 DEF PaymentRow
<1> QED BY <1>1, <1>2, <1>3 DEF TablesType, Columns

(* Writing the columns of a posting to an account row gives an account row. *)
LEMMA AccountWrite ==
  ASSUME NEW acct \in AccountRow, NEW x \in Int, NEW y \in Int, NEW v \in Nat
  PROVE  /\ [acct EXCEPT !.paid = x, !.balance = y, !.version = v] \in AccountRow
         /\ [acct EXCEPT !.billed = x, !.balance = y, !.version = v] \in AccountRow
BY DEF AccountRow

(* Without a write to Payments the paid sums stay.                          *)
LEMMA PaidSame ==
  ASSUME payments' = payments
  PROVE  /\ \A i \in Invoices : PaidOn(i)' = PaidOn(i)
         /\ \A c \in Customers : PaidBy(c)' = PaidBy(c)
<1>1. \A i \in Invoices : CompletedOn(i)' = CompletedOn(i)
  BY DEF CompletedOn, IsCompleted
<1>2. \A c \in Customers : CompletedBy(c)' = CompletedBy(c)
  BY DEF CompletedBy, IsCompleted
<1> QED BY <1>1, <1>2 DEF PaidOn, PaidBy

(* What an invoice contributes to its customer's TotalBilled.               *)
Charge(row) == IF row.status = "Active" THEN row.total ELSE 0

(* While no invoice of a customer changes its charge, the billed sum stays. *)
LEMMA BilledSame ==
  ASSUME NEW c \in Customers,
         \A i \in Invoices : CustomerOf[i] = c => Charge(invoice'[i]) = Charge(invoice[i])
  PROVE  BilledTo(c)' = BilledTo(c)
<1>1. Billed(invoice', c) = Billed(invoice, c)
  BY DEF Billed, Charge
<1> QED BY <1>1, BilledToIsBilled

-----------------------------------------------------------------------------
(* A payment of a cents is posted on invoice i.                             *)
PaymentPosted(i, a, n) ==
    /\ invoice[i].status = "Active" /\ 0 < a /\ a <= invoice[i].outstanding
    /\ invoice' = [invoice EXCEPT ![i] =
         [status |-> "Active", total |-> invoice[i].total, paid |-> invoice[i].paid + a,
          outstanding |-> invoice[i].outstanding - a,
          payStatus |-> IF a = invoice[i].outstanding THEN "Paid" ELSE "PartiallyPaid",
          version |-> invoice[i].version + 1]]
    /\ account' = PostedAccount(CustomerOf[i], account[CustomerOf[i]], a)
    /\ payments' = Append(payments, NewPayment(i, a, "Completed", 0, n))
    /\ UNCHANGED <<items, minted>>

(* Posting a payment keeps the rows of all tables well formed.              *)
LEMMA PostedRows ==
  ASSUME TablesInv, NEW i \in Invoices, NEW a \in Int, NEW n \in Numbers,
         PaymentPosted(i, a, n)
  PROVE  TablesType' /\ RowsConsistent'
<1>1. Columns(invoice, account, payments)
  BY ColumnTypes DEF TablesInv
<1>2. invoice'[i] \in InvoiceRow /\ RowConsistent(invoice'[i])
  BY <1>1 DEF Columns, PaymentPosted, TablesInv, RowsConsistent, RowConsistent,
              InvoiceRow, InvoiceStatus, SettlementStatus
<1>3. \A j \in Invoices : j # i => invoice'[j] = invoice[j]
  BY <1>1 DEF Columns, PaymentPosted
<1>4. invoice' \in [Invoices -> InvoiceRow]
  BY <1>1, <1>2, <1>3 DEF Columns, PaymentPosted
<1>5. account' \in [Customers -> AccountRow]
  <2> DEFINE acct == account[CustomerOf[i]]
             new == [acct EXCEPT !.paid = acct.paid + a,
                                 !.balance = acct.billed - (acct.paid + a),
                                 !.version = acct.version + 1]
  <2>1. new \in AccountRow
    <3>1. /\ acct \in AccountRow /\ acct.paid + a \in Int
          /\ acct.billed - (acct.paid + a) \in Int /\ acct.version + 1 \in Nat
      BY <1>1 DEF Columns
    <3> HIDE DEF acct
    <3> QED BY <3>1, AccountWrite
  <2>2. account' = [account EXCEPT ![CustomerOf[i]] = new]
    BY <1>1 DEF Columns, PaymentPosted, PostedAccount
  <2> HIDE DEF new
  <2> QED BY <1>1, <2>1, <2>2 DEF Columns
<1>6. NewPayment(i, a, "Completed", 0, n) \in PaymentRow
  BY DEF NewPayment, PaymentRow
<1>7. payments' \in Seq(PaymentRow)
  BY <1>1, <1>6 DEF Columns, PaymentPosted
<1>8. UNCHANGED <<items, minted>>
  BY DEF PaymentPosted
<1> QED BY <1>2, <1>3, <1>4, <1>5, <1>7, <1>8 DEF TablesInv, TablesType, RowsConsistent

(* Posting a payment keeps the sums exact and the reversals linked, and     *)
(* moves every version that other requests must notice.                     *)
LEMMA PostedKeepsTables ==
  ASSUME TablesInv, NEW i \in Invoices, NEW a \in Int, NEW n \in Numbers,
         PaymentPosted(i, a, n)
  PROVE  TablesInv' /\ TablesMove
<1> DEFINE e == NewPayment(i, a, "Completed", 0, n)
           ci == CustomerOf[i]
<1>1. TablesType' /\ RowsConsistent'
  BY PostedRows
<1>2. Columns(invoice, account, payments) /\ Columns(invoice', account', payments')
  BY <1>1, ColumnTypes DEF TablesInv
<1>3. e \in PaymentRow /\ e.invoice = i /\ e.status = "Completed" /\ e.amount = a /\ e.reverses = 0
  BY DEF NewPayment, PaymentRow
<1>4. /\ \A j \in Invoices : j # i => invoice'[j] = invoice[j]
      /\ invoice[i].status = "Active" /\ 0 < a
      /\ invoice'[i].status = "Active" /\ invoice'[i].total = invoice[i].total
      /\ invoice'[i].paid = invoice[i].paid + a
      /\ invoice'[i].version = invoice[i].version + 1
  BY <1>2 DEF Columns, PaymentPosted
<1>5. /\ ci \in Customers
      /\ \A c \in Customers : c # ci => account'[c] = account[c]
      /\ account'[ci].paid = account[ci].paid + a
      /\ account'[ci].billed = account[ci].billed
      /\ account'[ci].balance = account[ci].billed - (account[ci].paid + a)
      /\ account'[ci].version = account[ci].version + 1
  BY <1>2 DEF Columns, PaymentPosted, PostedAccount, AccountRow
<1>6. /\ payments' = Append(payments, e)
      /\ Len(payments') = Len(payments) + 1
      /\ \A k \in DOMAIN payments : payments'[k] = payments[k]
      /\ payments'[Len(payments) + 1] = e
  BY <1>2, <1>3 DEF Columns, PaymentPosted
<1> HIDE DEF e
<1>7. /\ \A j \in Invoices : PaidOn(j)' = PaidOn(j) + (IF j = i THEN a ELSE 0)
      /\ \A c \in Customers : PaidBy(c)' = PaidBy(c) + (IF c = ci THEN a ELSE 0)
  <2>1. \A I : Paid(payments', I) = Paid(payments, I) + (IF i \in I THEN a ELSE 0)
    BY <1>2, <1>3, <1>6, PaidAppend DEF Columns
  <2>2. \A c \in Customers : i \in InvoicesOf(c) <=> c = ci
    BY DEF InvoicesOf
  <2>3. /\ \A j \in Invoices : PaidOn(j) = Paid(payments, {j}) /\ PaidOn(j)' = Paid(payments', {j})
        /\ \A c \in Customers : /\ PaidBy(c) = Paid(payments, InvoicesOf(c))
                               /\ PaidBy(c)' = Paid(payments', InvoicesOf(c))
    BY <1>2, PaidIsPaid DEF Columns
  <2>4. \A j \in Invoices : PaidOn(j)' = PaidOn(j) + (IF j = i THEN a ELSE 0)
    BY <2>1, <2>3
  <2>5. \A c \in Customers : PaidBy(c)' = PaidBy(c) + (IF c = ci THEN a ELSE 0)
    BY <2>1, <2>2, <2>3
  <2> QED BY <2>4, <2>5
<1>8. \A c \in Customers : c # ci => BilledTo(c)' = BilledTo(c)
  <2> SUFFICES ASSUME NEW c \in Customers, c # ci PROVE BilledTo(c)' = BilledTo(c)
    OBVIOUS
  <2>1. \A j \in Invoices : CustomerOf[j] = c => invoice'[j] = invoice[j]
    BY <1>4
  <2> QED BY <2>1, BilledSame
<1>9. PaymentsConsistent'
  <2>1. DOMAIN payments' = DOMAIN payments \cup {Len(payments) + 1}
    BY <1>2, <1>6 DEF Columns
  <2>2. \A j \in Invoices : invoice'[j].status = invoice[j].status
    BY <1>4
  <2>3. \A k \in DOMAIN payments : payments[k].invoice \in Invoices
    BY <1>2 DEF Columns
  <2> QED BY <1>3, <1>4, <1>6, <2>1, <2>2, <2>3 DEF TablesInv, PaymentsConsistent
<1>10. InvoicePaidIsExact'
  <2> SUFFICES ASSUME NEW j \in Invoices
               PROVE  invoice'[j].paid = PaidOn(j)'
    BY DEF InvoicePaidIsExact
  <2>1. invoice[j].paid = PaidOn(j)
    BY DEF TablesInv, InvoicePaidIsExact
  <2>2. PaidOn(j)' = PaidOn(j) + (IF j = i THEN a ELSE 0)
    BY <1>7
  <2>3. CASE j = i
    BY <2>1, <2>2, <2>3, <1>4
  <2>4. CASE j # i
    <3>1. invoice'[j].paid = invoice[j].paid /\ invoice[j].paid \in Int
      BY <1>2, <1>4, <2>4 DEF Columns
    <3> QED BY <2>1, <2>2, <2>4, <3>1
  <2> QED BY <2>3, <2>4
<1>11. AccountPaidIsExact'
  <2> SUFFICES ASSUME NEW c \in Customers
               PROVE  /\ account'[c].paid = PaidBy(c)'
                      /\ account'[c].balance = account'[c].billed - account'[c].paid
    BY DEF AccountPaidIsExact
  <2>1. account[c].paid = PaidBy(c) /\ account[c].balance = account[c].billed - account[c].paid
    BY DEF TablesInv, AccountPaidIsExact
  <2>2. CASE c = ci
    BY <1>5, <1>7, <2>1, <2>2
  <2>3. CASE c # ci
    <3>1. account'[c] = account[c] /\ PaidBy(c)' = PaidBy(c) + 0
      BY <1>5, <1>7, <2>3
    <3> QED BY <1>2, <2>1, <3>1, PaidIsPaid DEF Columns
  <2> QED BY <2>2, <2>3
<1>12. CancelledHoldsNoPayment'
  <2>1. DOMAIN payments' = DOMAIN payments \cup {Len(payments) + 1}
    BY <1>2, <1>6 DEF Columns
  <2>2. \A j \in Invoices : invoice'[j].status = invoice[j].status
    BY <1>4
  <2>3. \A k \in DOMAIN payments : payments[k].invoice \in Invoices
    BY <1>2 DEF Columns
  <2> QED BY <1>3, <1>4, <1>6, <2>1, <2>2, <2>3
          DEF TablesInv, CancelledHoldsNoPayment, IsCompleted
<1>13. ReversedAtMostOnce'
  BY <1>2, <1>3, <1>6 DEF Columns, TablesInv, ReversedAtMostOnce, PaymentsConsistent
<1>14. InvoicesMove
  <2> SUFFICES ASSUME NEW j \in Invoices
               PROVE  /\ invoice[j].version <= invoice'[j].version
                      /\ invoice'[j].version = invoice[j].version
                           => SameRow(invoice[j], invoice'[j])
    BY DEF InvoicesMove
  <2>1. invoice[j].version \in Nat
    BY <1>2 DEF Columns
  <2> QED BY <1>4, <2>1 DEF SameRow
<1>15. AccountsMove
  <2>1. \A c \in Customers : c # ci => PaidBy(c)' = PaidBy(c)
    <3>1. \A c \in Customers : PaidBy(c) \in Int
      BY <1>2, PaidIsPaid DEF Columns
    <3> QED BY <1>7, <3>1
  <2> QED BY <1>2, <1>5, <1>8, <2>1 DEF Columns, AccountsMove
<1>16. PaymentsMove
  BY <1>2, <1>3, <1>4, <1>6 DEF Columns, PaymentsMove
<1> QED BY <1>1, <1>9, <1>10, <1>11, <1>12, <1>13, <1>14, <1>15, <1>16 DEF TablesInv, TablesMove

-----------------------------------------------------------------------------
(* Payment k is reversed, under the number n.                               *)
PaymentUndone(k, n) ==
    LET i == payments[k].invoice
        a == payments[k].amount
    IN  /\ payments[k].status = "Completed"
        /\ invoice' = [invoice EXCEPT ![i] =
             [status |-> invoice[i].status, total |-> invoice[i].total,
              paid |-> invoice[i].paid - a, outstanding |-> invoice[i].outstanding + a,
              payStatus |-> IF invoice[i].paid = a THEN "Unpaid" ELSE "PartiallyPaid",
              version |-> invoice[i].version + 1]]
        /\ account' = PostedAccount(CustomerOf[i], account[CustomerOf[i]], -a)
        /\ payments' = Append(Marked(k), NewPayment(i, a, "Reversed", k, n))
        /\ UNCHANGED <<items, minted>>

(* What a payment that can be reversed stands for: its invoice is active and*)
(* has been paid at least its amount, and it is not itself a reversal.      *)
LEMMA Undoable ==
  ASSUME TablesInv, NEW k \in DOMAIN payments, payments[k].status = "Completed"
  PROVE  LET i == payments[k].invoice
             a == payments[k].amount
         IN  /\ invoice[i].status = "Active"
             /\ 0 < a /\ a <= invoice[i].paid
             /\ payments[k].reverses = 0
<1> DEFINE i == payments[k].invoice
           a == payments[k].amount
<1>1. Columns(invoice, account, payments)
  BY ColumnTypes DEF TablesInv
<1>2. i \in Invoices /\ \A j \in DOMAIN payments : payments[j].amount > 0
  BY <1>1 DEF Columns, TablesInv, PaymentsConsistent
<1>3. Paid(payments, {i}) >= a
  BY <1>1, <1>2, PaidCovers DEF Columns
<1>4. invoice[i].paid = Paid(payments, {i})
  BY <1>1, <1>2, PaidIsPaid DEF Columns, TablesInv, InvoicePaidIsExact
<1> HIDE DEF i
<1>5. invoice[i].status = "Active"
  BY DEF TablesInv, CancelledHoldsNoPayment, IsCompleted, i
<1>6. payments[k].reverses = 0
  BY DEF TablesInv, PaymentsConsistent
<1>7. a <= invoice[i].paid
  <2>1. a \in Int /\ invoice[i].paid \in Int
    BY <1>1, <1>2 DEF Columns
  <2> QED BY <1>3, <1>4, <2>1
<1> QED BY <1>2, <1>5, <1>6, <1>7 DEF i

(* Reversing a payment keeps the rows of all tables well formed.            *)
LEMMA UndoneRows ==
  ASSUME TablesInv, NEW k \in DOMAIN payments, NEW n \in Numbers, PaymentUndone(k, n)
  PROVE  TablesType' /\ RowsConsistent'
<1> DEFINE i == payments[k].invoice
           a == payments[k].amount
<1>1. Columns(invoice, account, payments)
  BY ColumnTypes DEF TablesInv
<1>2. /\ i \in Invoices /\ a \in Int
      /\ invoice[i].status = "Active" /\ 0 < a /\ a <= invoice[i].paid
  BY <1>1, Undoable DEF Columns, PaymentUndone
<1>3. invoice' = [invoice EXCEPT ![i] =
             [status |-> invoice[i].status, total |-> invoice[i].total,
              paid |-> invoice[i].paid - a, outstanding |-> invoice[i].outstanding + a,
              payStatus |-> IF invoice[i].paid = a THEN "Unpaid" ELSE "PartiallyPaid",
              version |-> invoice[i].version + 1]]
  BY DEF PaymentUndone
<1>4. account' = PostedAccount(CustomerOf[i], account[CustomerOf[i]], -a)
  BY DEF PaymentUndone
<1>5. payments' = Append(Marked(k), NewPayment(i, a, "Reversed", k, n)) /\ UNCHANGED <<items, minted>>
  BY DEF PaymentUndone
<1> HIDE DEF i, a
<1>6. invoice'[i] \in InvoiceRow /\ RowConsistent(invoice'[i])
  BY <1>1, <1>2, <1>3 DEF Columns, TablesInv, RowsConsistent, RowConsistent,
              InvoiceRow, InvoiceStatus, SettlementStatus
<1>7. \A j \in Invoices : j # i => invoice'[j] = invoice[j]
  BY <1>1, <1>3 DEF Columns
<1>8. invoice' \in [Invoices -> InvoiceRow]
  BY <1>1, <1>3, <1>6, <1>7 DEF Columns
<1>9. account' \in [Customers -> AccountRow]
  <2> DEFINE acct == account[CustomerOf[i]]
             new == [acct EXCEPT !.paid = acct.paid + (-a),
                                 !.balance = acct.billed - (acct.paid + (-a)),
                                 !.version = acct.version + 1]
  <2>1. new \in AccountRow
    <3>1. /\ acct \in AccountRow /\ acct.paid + (-a) \in Int
          /\ acct.billed - (acct.paid + (-a)) \in Int /\ acct.version + 1 \in Nat
      BY <1>1, <1>2 DEF Columns
    <3> HIDE DEF acct
    <3> QED BY <3>1, AccountWrite
  <2>2. account' = [account EXCEPT ![CustomerOf[i]] = new]
    BY <1>1, <1>2, <1>4 DEF Columns, PostedAccount
  <2> HIDE DEF new
  <2> QED BY <1>1, <2>1, <2>2 DEF Columns
<1>10. NewPayment(i, a, "Reversed", k, n) \in PaymentRow
  BY <1>1, <1>2 DEF Columns, NewPayment, PaymentRow
<1>11. Marked(k) \in Seq(PaymentRow)
  BY <1>1, PaidMark DEF Columns, Marked, PaymentUndone
<1>12. payments' \in Seq(PaymentRow)
  BY <1>5, <1>10, <1>11
<1> QED BY <1>5, <1>6, <1>7, <1>8, <1>9, <1>12 DEF TablesInv, TablesType, RowsConsistent

(* Reversing a payment keeps the sums exact and the reversals linked, and   *)
(* moves every version that other requests must notice.                     *)
LEMMA UndoneKeepsTables ==
  ASSUME TablesInv, NEW k \in DOMAIN payments, NEW n \in Numbers, PaymentUndone(k, n)
  PROVE  TablesInv' /\ TablesMove
<1> DEFINE i == payments[k].invoice
           a == payments[k].amount
           e == NewPayment(i, a, "Reversed", k, n)
           ci == CustomerOf[i]
           m == Len(payments) + 1
<1>1. TablesType' /\ RowsConsistent'
  BY UndoneRows
<1>2. Columns(invoice, account, payments) /\ Columns(invoice', account', payments')
  BY <1>1, ColumnTypes DEF TablesInv
<1>3. /\ i \in Invoices /\ a \in Int /\ ci \in Customers /\ k \in Nat /\ k < m /\ k # 0 /\ m \in Nat
      /\ invoice[i].status = "Active" /\ 0 < a
      /\ payments[k].status = "Completed" /\ payments[k].reverses = 0
  <2>1. i \in Invoices /\ a \in Int /\ ci \in Customers
    BY <1>2 DEF Columns
  <2>2. k \in Nat /\ k < m /\ k # 0 /\ m \in Nat
    BY <1>2 DEF Columns
  <2>3. payments[k].status = "Completed"
    BY DEF PaymentUndone
  <2>4. invoice[i].status = "Active" /\ 0 < a /\ payments[k].reverses = 0
    BY <2>3, Undoable
  <2> QED BY <2>1, <2>2, <2>3, <2>4
<1>4. e \in PaymentRow /\ e.invoice = i /\ e.status = "Reversed" /\ e.amount = a /\ e.reverses = k
  BY <1>3 DEF NewPayment, PaymentRow
<1>5. /\ \A j \in Invoices : j # i => invoice'[j] = invoice[j]
      /\ invoice'[i].status = "Active" /\ invoice'[i].total = invoice[i].total
      /\ invoice'[i].paid = invoice[i].paid - a
      /\ invoice'[i].version = invoice[i].version + 1
  BY <1>2, <1>3 DEF Columns, PaymentUndone
<1>6. /\ \A c \in Customers : c # ci => account'[c] = account[c]
      /\ account'[ci].paid = account[ci].paid - a
      /\ account'[ci].billed = account[ci].billed
      /\ account'[ci].balance = account[ci].billed - (account[ci].paid - a)
      /\ account'[ci].version = account[ci].version + 1
  <2>1. account' = PostedAccount(ci, account[ci], -a)
    BY DEF PaymentUndone
  <2> HIDE DEF a, ci
  <2>2. account[ci].paid + (-a) = account[ci].paid - a
    BY <1>2, <1>3 DEF Columns
  <2> QED BY <1>2, <1>3, <2>1, <2>2 DEF Columns, PostedAccount, AccountRow
<1>7. /\ Marked(k) \in Seq(PaymentRow) /\ Len(Marked(k)) = Len(payments)
      /\ \A I : Paid(Marked(k), I) = Paid(payments, I) - (IF i \in I THEN a ELSE 0)
  <2>1. payments \in Seq(PaymentRow) /\ payments[k].status = "Completed"
    BY <1>2, <1>3 DEF Columns
  <2> QED BY <2>1, PaidMark, Zenon DEF Marked
<1>8. /\ Marked(k)[k].status = "Reversed" /\ Marked(k)[k].reverses = 0
      /\ Marked(k)[k].invoice = i /\ Marked(k)[k].amount = a
      /\ \A j \in DOMAIN payments : j # k => Marked(k)[j] = payments[j]
  BY <1>2, <1>3 DEF Columns, Marked, PaymentRow
<1>9. /\ payments' = Append(Marked(k), e)
      /\ DOMAIN payments' = DOMAIN payments \cup {m} /\ m \notin DOMAIN payments
      /\ \A j \in DOMAIN payments : payments'[j] = Marked(k)[j]
      /\ payments'[m] = e
  <2>1. payments' = Append(Marked(k), e)
    BY DEF PaymentUndone
  <2>2. DOMAIN payments = 1 .. Len(payments) /\ Len(payments) \in Nat
    BY <1>2 DEF Columns
  <2> HIDE DEF e
  <2> QED BY <1>4, <1>7, <2>1, <2>2
<1>10. /\ payments'[k].status = "Reversed" /\ payments'[k].reverses = 0
       /\ payments'[k].invoice = i /\ payments'[k].amount = a
       /\ \A j \in DOMAIN payments : j # k => payments'[j] = payments[j]
  BY <1>8, <1>9
<1> HIDE DEF e, m, i, a
<1>11. /\ \A j \in Invoices : PaidOn(j)' = PaidOn(j) - (IF j = i THEN a ELSE 0)
       /\ \A c \in Customers : PaidBy(c)' = PaidBy(c) - (IF c = ci THEN a ELSE 0)
  <2>1. \A I : Paid(payments', I) = Paid(Marked(k), I) + 0
    BY <1>4, <1>7, <1>9, PaidAppend
  <2>2. \A I : Paid(Marked(k), I) \in Int
    BY <1>7, PaidType
  <2>3. \A I : Paid(payments', I) = Paid(payments, I) - (IF i \in I THEN a ELSE 0)
    BY <1>7, <2>1, <2>2
  <2>4. \A c \in Customers : i \in InvoicesOf(c) <=> c = ci
    BY <1>3 DEF InvoicesOf
  <2>5. /\ \A j \in Invoices : PaidOn(j) = Paid(payments, {j}) /\ PaidOn(j)' = Paid(payments', {j})
        /\ \A c \in Customers : /\ PaidBy(c) = Paid(payments, InvoicesOf(c))
                               /\ PaidBy(c)' = Paid(payments', InvoicesOf(c))
    BY <1>2, PaidIsPaid DEF Columns
  <2>6. \A j \in Invoices : PaidOn(j)' = PaidOn(j) - (IF j = i THEN a ELSE 0)
    BY <2>3, <2>5
  <2>7. \A c \in Customers : PaidBy(c)' = PaidBy(c) - (IF c = ci THEN a ELSE 0)
    BY <2>3, <2>4, <2>5
  <2> QED BY <2>6, <2>7
<1>12. /\ \A j \in Invoices : PaidOn(j) \in Int
       /\ \A c \in Customers : PaidBy(c) \in Int
  BY <1>2, PaidIsPaid DEF Columns
<1>13. \A c \in Customers : c # ci => BilledTo(c)' = BilledTo(c)
  <2> SUFFICES ASSUME NEW c \in Customers, c # ci PROVE BilledTo(c)' = BilledTo(c)
    OBVIOUS
  <2>1. \A j \in Invoices : CustomerOf[j] = c => invoice'[j] = invoice[j]
    BY <1>5
  <2> QED BY <2>1, BilledSame
<1>14. \A j \in Invoices : invoice'[j].status = invoice[j].status
  BY <1>3, <1>5
<1>15. \A j \in DOMAIN payments : payments[j].invoice \in Invoices
  BY <1>2 DEF Columns
<1>16. PaymentsConsistent'
  <2> SUFFICES ASSUME NEW j \in DOMAIN payments'
               PROVE  /\ payments'[j].amount > 0
                      /\ invoice'[payments'[j].invoice].status \in {"Active", "Cancelled"}
                      /\ payments'[j].reverses # 0 =>
                            /\ payments'[j].reverses \in DOMAIN payments'
                            /\ payments'[j].status = "Reversed"
                            /\ payments'[payments'[j].reverses].status = "Reversed"
                            /\ payments'[payments'[j].reverses].reverses = 0
    BY DEF PaymentsConsistent
  <2>1. CASE j = m
    BY <1>3, <1>4, <1>5, <1>9, <1>10, <2>1
  <2>2. CASE j = k
    BY <1>3, <1>5, <1>10, <2>2
  <2>3. CASE j \in DOMAIN payments /\ j # k
    <3>1. payments'[j] = payments[j] /\ payments[j].invoice \in Invoices
      BY <1>10, <1>15, <2>3
    <3>2. /\ payments[j].amount > 0
          /\ invoice[payments[j].invoice].status \in {"Active", "Cancelled"}
          /\ payments[j].reverses # 0 =>
               /\ payments[j].reverses \in DOMAIN payments
               /\ payments[j].status = "Reversed"
               /\ payments[payments[j].reverses].status = "Reversed"
               /\ payments[payments[j].reverses].reverses = 0
      BY <2>3 DEF TablesInv, PaymentsConsistent
    <3>3. payments[j].reverses # 0 => payments'[payments[j].reverses] = payments[payments[j].reverses]
      BY <1>3, <1>10, <3>2
    <3> QED BY <1>9, <1>14, <3>1, <3>2, <3>3
  <2> QED BY <1>9, <2>1, <2>2, <2>3
<1>17. InvoicePaidIsExact'
  <2> SUFFICES ASSUME NEW j \in Invoices PROVE invoice'[j].paid = PaidOn(j)'
    BY DEF InvoicePaidIsExact
  <2>1. invoice[j].paid = PaidOn(j)
    BY DEF TablesInv, InvoicePaidIsExact
  <2> QED BY <1>5, <1>11, <1>12, <2>1
<1>18. AccountPaidIsExact'
  <2> SUFFICES ASSUME NEW c \in Customers
               PROVE  /\ account'[c].paid = PaidBy(c)'
                      /\ account'[c].balance = account'[c].billed - account'[c].paid
    BY DEF AccountPaidIsExact
  <2>1. account[c].paid = PaidBy(c) /\ account[c].balance = account[c].billed - account[c].paid
    BY DEF TablesInv, AccountPaidIsExact
  <2>2. CASE c = ci
    BY <1>6, <1>11, <2>1, <2>2
  <2>3. CASE c # ci
    BY <1>6, <1>11, <1>12, <2>1, <2>3
  <2> QED BY <2>2, <2>3
<1>19. CancelledHoldsNoPayment'
  BY <1>3, <1>4, <1>9, <1>10, <1>14, <1>15 DEF TablesInv, CancelledHoldsNoPayment, IsCompleted
<1>20. ReversedAtMostOnce'
  <2>1. \A j \in DOMAIN payments : payments[j].reverses # k
    BY <1>3 DEF TablesInv, ReversedAtMostOnce
  <2>2. \A j \in DOMAIN payments : payments'[j].reverses = payments[j].reverses
    BY <1>3, <1>10
  <2>3. \A j \in DOMAIN payments : payments[j].reverses # 0 => payments[j].reverses \in DOMAIN payments
    BY DEF TablesInv, PaymentsConsistent
  <2>4. \A j, l \in DOMAIN payments' :
          payments'[j].reverses # 0 /\ payments'[j].reverses = payments'[l].reverses => j = l
    BY <1>4, <1>9, <2>1, <2>2 DEF TablesInv, ReversedAtMostOnce
  <2>5. \A l \in DOMAIN payments' :
          payments'[l].status = "Reversed" /\ payments'[l].reverses = 0
            <=> \E j \in DOMAIN payments' : payments'[j].reverses = l
    <3> SUFFICES ASSUME NEW l \in DOMAIN payments'
                 PROVE  payments'[l].status = "Reversed" /\ payments'[l].reverses = 0
                          <=> \E j \in DOMAIN payments' : payments'[j].reverses = l
      OBVIOUS
    <3>1. CASE l = m
      BY <1>3, <1>4, <1>9, <2>2, <2>3, <3>1
    <3>2. CASE l = k
      BY <1>4, <1>9, <1>10, <3>2
    <3>3. CASE l \in DOMAIN payments /\ l # k
      BY <1>4, <1>9, <1>10, <2>2, <3>3 DEF TablesInv, ReversedAtMostOnce
    <3> QED BY <1>9, <3>1, <3>2, <3>3
  <2> QED BY <2>4, <2>5 DEF ReversedAtMostOnce
<1>21. InvoicesMove
  <2> SUFFICES ASSUME NEW j \in Invoices
               PROVE  /\ invoice[j].version <= invoice'[j].version
                      /\ invoice'[j].version = invoice[j].version
                           => SameRow(invoice[j], invoice'[j])
    BY DEF InvoicesMove
  <2>1. invoice[j].version \in Nat
    BY <1>2 DEF Columns
  <2> QED BY <1>5, <2>1 DEF SameRow
<1>22. AccountsMove
  <2>1. \A c \in Customers : c # ci => PaidBy(c)' = PaidBy(c)
    BY <1>11, <1>12
  <2> QED BY <1>2, <1>3, <1>6, <1>13, <2>1 DEF Columns, AccountsMove
<1>23. PaymentsMove
  <2>1. account'[ci].version # account[ci].version
    BY <1>2, <1>3, <1>6 DEF Columns
  <2> QED BY <1>3, <1>4, <1>9, <1>10, <2>1 DEF PaymentsMove, i, a
<1> QED BY <1>1, <1>16, <1>17, <1>18, <1>19, <1>20, <1>21, <1>22, <1>23 DEF TablesInv, TablesMove

-----------------------------------------------------------------------------
(* The steps below do not touch Payments.                                   *)

(* Invoice i takes the row given; it keeps its customer's paid sum.         *)
RowWritten(i, row) ==
    /\ invoice' = [invoice EXCEPT ![i] = row]
    /\ row \in InvoiceRow /\ RowConsistent(row)
    /\ row.paid = invoice[i].paid
    /\ payments' = payments

(* Customer c takes the TotalBilled given, or all the accounts stay.        *)
AccountBilled(c, billed) ==
    account' = [account EXCEPT ![c].billed = billed,
                               ![c].balance = billed - account[c].paid,
                               ![c].version = account[c].version + 1]

(* What writing a TotalBilled leaves in the accounts.                       *)
LEMMA BilledRows ==
  ASSUME NEW c \in Customers, NEW billed \in Int, AccountBilled(c, billed),
         Columns(invoice, account, payments)
  PROVE  /\ account' \in [Customers -> AccountRow]
         /\ \A d \in Customers : d # c => account'[d] = account[d]
         /\ account'[c].billed = billed
         /\ account'[c].paid = account[c].paid
         /\ account'[c].balance = billed - account[c].paid
         /\ account'[c].version = account[c].version + 1
<1> DEFINE acct == account[c]
           new == [acct EXCEPT !.billed = billed, !.balance = billed - acct.paid,
                               !.version = acct.version + 1]
<1>1. new \in AccountRow
  <2>1. acct \in AccountRow /\ billed - acct.paid \in Int /\ acct.version + 1 \in Nat
    BY DEF Columns
  <2> HIDE DEF acct
  <2> QED BY <2>1, AccountWrite
<1>2. account' = [account EXCEPT ![c] = new]
  BY DEF Columns, AccountBilled
<1>3. /\ new.billed = billed /\ new.paid = acct.paid
      /\ new.balance = billed - acct.paid /\ new.version = acct.version + 1
  <2>1. acct \in AccountRow
    BY DEF Columns
  <2> HIDE DEF acct
  <2> QED BY <2>1 DEF AccountRow
<1> HIDE DEF new
<1> QED BY <1>1, <1>2, <1>3 DEF Columns

(* Writing an invoice row keeps the tables' invariants while no issued      *)
(* invoice goes back to Draft and none with a completed payment is          *)
(* cancelled, if the accounts are left consistent.                          *)
LEMMA RowWrittenKeepsTables ==
  ASSUME TablesInv, NEW i \in Invoices, NEW row, RowWritten(i, row),
         account' \in [Customers -> AccountRow],
         items' \in [Invoices -> SUBSET Lines], minted' \in SUBSET Lines,
         \A c \in Customers : /\ account'[c].paid = account[c].paid
                             /\ account'[c].balance = account'[c].billed - account'[c].paid,
         invoice[i].status \in {"Active", "Cancelled"} => row.status \in {"Active", "Cancelled"},
         \A k \in DOMAIN payments :
             payments[k].invoice = i /\ IsCompleted(k) => row.status = "Active"
  PROVE  TablesInv' /\ PaymentsMove
<1>1. Columns(invoice, account, payments)
  BY ColumnTypes DEF TablesInv
<1>2. /\ invoice' \in [Invoices -> InvoiceRow]
      /\ \A j \in Invoices : j # i => invoice'[j] = invoice[j]
      /\ invoice'[i] = row
  BY <1>1 DEF Columns, RowWritten
<1>3. payments' = payments
  BY DEF RowWritten
<1>4. TablesType'
  BY <1>1, <1>2, <1>3 DEF Columns, TablesType
<1>5. RowsConsistent'
  BY <1>2 DEF TablesInv, RowsConsistent, RowWritten
<1>6. PaymentsConsistent'
  BY <1>1, <1>2, <1>3 DEF Columns, TablesInv, PaymentsConsistent
<1>7. InvoicePaidIsExact'
  BY <1>2, <1>3, PaidSame DEF TablesInv, InvoicePaidIsExact, RowWritten
<1>8. AccountPaidIsExact'
  BY <1>3, PaidSame DEF TablesInv, AccountPaidIsExact
<1>9. CancelledHoldsNoPayment'
  BY <1>1, <1>2, <1>3 DEF Columns, TablesInv, CancelledHoldsNoPayment, IsCompleted
<1>10. ReversedAtMostOnce'
  BY <1>3 DEF TablesInv, ReversedAtMostOnce
<1>11. PaymentsMove
  BY <1>3 DEF PaymentsMove
<1> QED BY <1>4, <1>5, <1>6, <1>7, <1>8, <1>9, <1>10, <1>11 DEF TablesInv

(* Draft i is issued, and its customer billed the amount given.             *)
InvoiceIssued(i, amount) ==
    LET c == CustomerOf[i]
    IN  /\ invoice[i].status = "Draft"
        /\ invoice' = [invoice EXCEPT ![i] =
             [status |-> "Active", total |-> invoice[i].total, paid |-> invoice[i].paid,
              outstanding |-> invoice[i].outstanding, payStatus |-> invoice[i].payStatus,
              version |-> invoice[i].version + 1]]
        /\ AccountBilled(c, account[c].billed + amount)
        /\ UNCHANGED <<items, minted, payments>>

(* Issuing an invoice keeps the tables' invariants.                         *)
LEMMA IssuedKeepsTables ==
  ASSUME TablesInv, NEW i \in Invoices, NEW amount \in Int, InvoiceIssued(i, amount)
  PROVE  TablesInv' /\ TablesMove
<1> DEFINE row == [status |-> "Active", total |-> invoice[i].total, paid |-> invoice[i].paid,
                   outstanding |-> invoice[i].outstanding, payStatus |-> invoice[i].payStatus,
                   version |-> invoice[i].version + 1]
           c == CustomerOf[i]
<1>1. Columns(invoice, account, payments)
  BY ColumnTypes DEF TablesInv
<1>2. row \in InvoiceRow /\ row.paid = invoice[i].paid /\ row.status = "Active"
  BY <1>1 DEF Columns, InvoiceRow, InvoiceStatus
<1>3. RowConsistent(row)
  BY <1>1 DEF Columns, TablesInv, RowsConsistent, RowConsistent, InvoiceIssued
<1>4. /\ \A j \in Invoices : j # i => invoice'[j] = invoice[j]
      /\ invoice'[i].version = invoice[i].version + 1
      /\ UNCHANGED <<items, minted, payments>>
  BY <1>1 DEF Columns, InvoiceIssued
<1>5. RowWritten(i, row)
  BY <1>2, <1>3 DEF RowWritten, InvoiceIssued
<1> HIDE DEF row
<1>6. /\ c \in Customers
      /\ account' \in [Customers -> AccountRow]
      /\ \A d \in Customers : d # c => account'[d] = account[d]
      /\ account'[c].billed = account[c].billed + amount
      /\ account'[c].paid = account[c].paid
      /\ account'[c].balance = account'[c].billed - account[c].paid
      /\ account'[c].version = account[c].version + 1
  <2> DEFINE billed == account[c].billed + amount
  <2>1. c \in Customers /\ billed \in Int
    BY <1>1 DEF Columns
  <2>2. AccountBilled(c, billed)
    BY DEF InvoiceIssued
  <2> HIDE DEF billed, c
  <2>3. /\ account' \in [Customers -> AccountRow]
        /\ \A d \in Customers : d # c => account'[d] = account[d]
        /\ account'[c].billed = billed
        /\ account'[c].paid = account[c].paid
        /\ account'[c].balance = billed - account[c].paid
        /\ account'[c].version = account[c].version + 1
    BY <1>1, <2>1, <2>2, BilledRows
  <2> QED BY <2>1, <2>3 DEF billed
<1>7. \A d \in Customers : /\ account'[d].paid = account[d].paid
                          /\ account'[d].balance = account'[d].billed - account'[d].paid
  BY <1>6 DEF TablesInv, AccountPaidIsExact
<1>8. items' \in [Invoices -> SUBSET Lines] /\ minted' \in SUBSET Lines
  BY <1>4 DEF TablesInv, TablesType
<1>9. TablesInv' /\ PaymentsMove
  BY <1>2, <1>5, <1>6, <1>7, <1>8, RowWrittenKeepsTables
<1>10. InvoicesMove
  <2>1. \A j \in Invoices : invoice[j].version \in Nat
    BY <1>1 DEF Columns
  <2> QED BY <1>4, <2>1 DEF InvoicesMove, SameRow
<1>11. AccountsMove
  <2> SUFFICES ASSUME NEW d \in Customers
               PROVE  /\ account[d].version <= account'[d].version
                      /\ account'[d].version = account[d].version =>
                           /\ account'[d] = account[d]
                           /\ BilledTo(d)' = BilledTo(d)
                           /\ PaidBy(d)' = PaidBy(d)
    BY DEF AccountsMove
  <2>1. account[d].version \in Nat
    BY <1>1 DEF Columns
  <2>2. d # c => BilledTo(d)' = BilledTo(d)
    BY <1>4, BilledSame
  <2>3. PaidBy(d)' = PaidBy(d)
    BY <1>4, PaidSame
  <2> QED BY <1>6, <2>1, <2>2, <2>3
<1> QED BY <1>9, <1>10, <1>11 DEF TablesMove

-----------------------------------------------------------------------------
(* Invoice i, which holds no completed payment, is cancelled; if it was     *)
(* active, its total is taken off its customer's account.                   *)
InvoiceVoided(i) ==
    LET c == CustomerOf[i]
    IN  /\ invoice[i].status # "Absent"
        /\ \A k \in DOMAIN payments : payments[k].invoice = i => ~IsCompleted(k)
        /\ invoice' = [invoice EXCEPT ![i] =
             [status |-> "Cancelled", total |-> invoice[i].total, paid |-> invoice[i].paid,
              outstanding |-> invoice[i].outstanding, payStatus |-> invoice[i].payStatus,
              version |-> invoice[i].version + 1]]
        /\ IF invoice[i].status = "Active"
           THEN AccountBilled(c, account[c].billed - invoice[i].total)
           ELSE account' = account
        /\ UNCHANGED <<items, minted, payments>>

(* Without a completed payment an invoice has nothing paid.                 *)
LEMMA NothingPaid ==
  ASSUME TablesInv, NEW i \in Invoices,
         \A k \in DOMAIN payments : payments[k].invoice = i => ~IsCompleted(k)
  PROVE  invoice[i].paid = 0
<1>1. Columns(invoice, account, payments)
  BY ColumnTypes DEF TablesInv
<1>2. Paid(payments, {i}) = 0
  BY <1>1, PaidNothing DEF Columns, IsCompleted
<1> QED BY <1>1, <1>2, PaidIsPaid DEF Columns, TablesInv, InvoicePaidIsExact

(* Cancelling an invoice keeps the tables' invariants.                      *)
LEMMA VoidedKeepsTables ==
  ASSUME TablesInv, NEW i \in Invoices, InvoiceVoided(i)
  PROVE  TablesInv' /\ TablesMove
<1> DEFINE row == [status |-> "Cancelled", total |-> invoice[i].total, paid |-> invoice[i].paid,
                   outstanding |-> invoice[i].outstanding, payStatus |-> invoice[i].payStatus,
                   version |-> invoice[i].version + 1]
           c == CustomerOf[i]
<1>1. Columns(invoice, account, payments)
  BY ColumnTypes DEF TablesInv
<1>2. row \in InvoiceRow /\ row.paid = invoice[i].paid /\ row.status = "Cancelled"
  BY <1>1 DEF Columns, InvoiceRow, InvoiceStatus
<1>3. invoice[i].paid = 0
  BY NothingPaid DEF InvoiceVoided
<1>4. RowConsistent(row)
  BY <1>1, <1>3 DEF Columns, TablesInv, RowsConsistent, RowConsistent
<1>5. /\ \A j \in Invoices : j # i => invoice'[j] = invoice[j]
      /\ invoice'[i].version = invoice[i].version + 1 /\ invoice'[i].status = "Cancelled"
      /\ UNCHANGED <<items, minted, payments>>
  BY <1>1 DEF Columns, InvoiceVoided
<1>6. RowWritten(i, row)
  BY <1>2, <1>4 DEF RowWritten, InvoiceVoided
<1> HIDE DEF row
<1>7. /\ c \in Customers
      /\ account' \in [Customers -> AccountRow]
      /\ \A d \in Customers : d # c => account'[d] = account[d]
      /\ account'[c].paid = account[c].paid
      /\ account'[c].balance = account'[c].billed - account[c].paid
      /\ account[c].version <= account'[c].version
      /\ account'[c].version = account[c].version =>
            account' = account /\ invoice[i].status # "Active"
  <2>1. c \in Customers /\ account[c].billed - invoice[i].total \in Int /\ account[c].version \in Nat
    BY <1>1 DEF Columns
  <2>2. CASE invoice[i].status = "Active"
    <3>1. AccountBilled(c, account[c].billed - invoice[i].total)
      BY <2>2 DEF InvoiceVoided
    <3> QED BY <1>1, <2>1, <3>1, BilledRows
  <2>3. CASE invoice[i].status # "Active"
    <3>1. account' = account
      BY <2>3 DEF InvoiceVoided
    <3>2. account[c].balance = account[c].billed - account[c].paid
      BY <2>1 DEF TablesInv, AccountPaidIsExact
    <3>3. account \in [Customers -> AccountRow]
      BY <1>1 DEF Columns
    <3> HIDE DEF c
    <3> QED BY <2>1, <2>3, <3>1, <3>2, <3>3
  <2> QED BY <2>2, <2>3
<1>8. \A d \in Customers : /\ account'[d].paid = account[d].paid
                          /\ account'[d].balance = account'[d].billed - account'[d].paid
  BY <1>7 DEF TablesInv, AccountPaidIsExact
<1>9. items' \in [Invoices -> SUBSET Lines] /\ minted' \in SUBSET Lines
  BY <1>5 DEF TablesInv, TablesType
<1>10. TablesInv' /\ PaymentsMove
  BY <1>2, <1>6, <1>7, <1>8, <1>9, RowWrittenKeepsTables DEF InvoiceVoided
<1>11. InvoicesMove
  <2>1. \A j \in Invoices : invoice[j].version \in Nat
    BY <1>1 DEF Columns
  <2> QED BY <1>5, <2>1 DEF InvoicesMove, SameRow
<1>12. AccountsMove
  <2> SUFFICES ASSUME NEW d \in Customers
               PROVE  /\ account[d].version <= account'[d].version
                      /\ account'[d].version = account[d].version =>
                           /\ account'[d] = account[d]
                           /\ BilledTo(d)' = BilledTo(d)
                           /\ PaidBy(d)' = PaidBy(d)
    BY DEF AccountsMove
  <2>1. account[d].version \in Nat
    BY <1>1 DEF Columns
  <2>2. account'[d].version = account[d].version => BilledTo(d)' = BilledTo(d)
    <3> SUFFICES ASSUME account'[d].version = account[d].version
                 PROVE  \A j \in Invoices : CustomerOf[j] = d => Charge(invoice'[j]) = Charge(invoice[j])
      BY BilledSame
    <3> QED BY <1>5, <1>7 DEF Charge
  <2>3. PaidBy(d)' = PaidBy(d)
    BY <1>5, PaidSame
  <2> QED BY <1>7, <2>1, <2>2, <2>3
<1> QED BY <1>10, <1>11, <1>12 DEF TablesMove

-----------------------------------------------------------------------------
(* The row of draft i is created or changed, with its lines.                *)
DraftWritten(i, row) ==
    /\ invoice[i].status \in {"Absent", "Draft"}
    /\ RowWritten(i, row)
    /\ row.status = "Draft"
    /\ row.version = invoice[i].version
    /\ items' \in [Invoices -> SUBSET Lines] /\ minted' \in SUBSET Lines
    /\ account' = account

(* Writing a draft keeps the tables' invariants: nobody is billed for it.   *)
LEMMA DraftKeepsTables ==
  ASSUME TablesInv, NEW i \in Invoices, NEW row, DraftWritten(i, row)
  PROVE  TablesInv' /\ TablesMove
<1>1. Columns(invoice, account, payments)
  BY ColumnTypes DEF TablesInv
<1>2. /\ \A j \in Invoices : j # i => invoice'[j] = invoice[j]
      /\ invoice'[i] = row /\ payments' = payments /\ account' = account
  BY <1>1 DEF Columns, DraftWritten, RowWritten
<1>3. \A k \in DOMAIN payments : payments[k].invoice = i => ~IsCompleted(k)
  BY DEF TablesInv, CancelledHoldsNoPayment, DraftWritten
<1>4. /\ account' \in [Customers -> AccountRow]
      /\ \A c \in Customers : /\ account'[c].paid = account[c].paid
                              /\ account'[c].balance = account'[c].billed - account'[c].paid
  BY <1>1, <1>2 DEF Columns, TablesInv, AccountPaidIsExact
<1>5. TablesInv' /\ PaymentsMove
  BY <1>3, <1>4, RowWrittenKeepsTables DEF DraftWritten
<1>6. InvoicesMove
  <2> SUFFICES ASSUME NEW j \in Invoices
               PROVE  /\ invoice[j].version <= invoice'[j].version
                      /\ invoice[j].status # "Absent" /\ invoice'[j].version = invoice[j].version
                           => SameRow(invoice[j], invoice'[j])
    BY DEF InvoicesMove
  <2>1. invoice[j].version \in Nat
    BY <1>1 DEF Columns
  <2>2. CASE j = i
    <3>1. RowConsistent(row) /\ RowConsistent(invoice[i])
      BY DEF DraftWritten, RowWritten, TablesInv, RowsConsistent
    <3> QED BY <1>2, <2>1, <2>2, <3>1 DEF DraftWritten, RowWritten, SameRow, RowConsistent
  <2>3. CASE j # i
    BY <1>2, <2>1, <2>3 DEF SameRow
  <2> QED BY <2>2, <2>3
<1>7. AccountsMove
  <2>1. \A j \in Invoices : Charge(invoice'[j]) = Charge(invoice[j])
    BY <1>2 DEF Charge, DraftWritten
  <2>2. \A c \in Customers : BilledTo(c)' = BilledTo(c) /\ PaidBy(c)' = PaidBy(c)
    BY <1>2, <2>1, BilledSame, PaidSame
  <2>3. \A c \in Customers : account[c].version \in Nat
    BY <1>1 DEF Columns
  <2> QED BY <1>2, <2>2, <2>3 DEF AccountsMove
<1> QED BY <1>5, <1>6, <1>7 DEF TablesMove

-----------------------------------------------------------------------------
(* Only lines are written (or nothing).                                     *)
LinesWritten ==
    /\ UNCHANGED <<invoice, account, payments>>
    /\ items' \in [Invoices -> SUBSET Lines] /\ minted' \in SUBSET Lines

(* Lines alone disturb nothing.                                             *)
LEMMA LinesKeepTables ==
  ASSUME TablesInv, LinesWritten
  PROVE  TablesInv' /\ TablesMove
<1>1. Columns(invoice, account, payments)
  BY ColumnTypes DEF TablesInv
<1>2. UNCHANGED <<invoice, account, payments>>
  BY DEF LinesWritten
<1>3. TablesType'
  BY <1>2 DEF TablesInv, TablesType, LinesWritten
<1>4. RowsConsistent' /\ PaymentsConsistent' /\ CancelledHoldsNoPayment' /\ ReversedAtMostOnce'
  BY <1>2 DEF TablesInv, RowsConsistent, PaymentsConsistent, CancelledHoldsNoPayment,
              ReversedAtMostOnce, IsCompleted
<1>5. InvoicePaidIsExact' /\ AccountPaidIsExact'
  BY <1>2, PaidSame DEF TablesInv, InvoicePaidIsExact, AccountPaidIsExact
<1>6. InvoicesMove
  <2>1. \A j \in Invoices : invoice[j].version \in Nat
    BY <1>1 DEF Columns
  <2> QED BY <1>2, <2>1 DEF InvoicesMove, SameRow
<1>7. AccountsMove
  <2>1. \A c \in Customers : BilledTo(c)' = BilledTo(c) /\ PaidBy(c)' = PaidBy(c)
    BY <1>2, BilledSame, PaidSame
  <2>2. \A c \in Customers : account[c].version \in Nat
    BY <1>1 DEF Columns
  <2> QED BY <1>2, <2>1, <2>2 DEF AccountsMove
<1>8. PaymentsMove
  BY <1>2 DEF PaymentsMove
<1> QED BY <1>3, <1>4, <1>5, <1>6, <1>7, <1>8 DEF TablesInv, TablesMove

-----------------------------------------------------------------------------
(* Account c is set to the billed sum given and to what is paid.            *)
AccountCorrected(c, billed) ==
    /\ account' = [account EXCEPT ![c] =
         [billed |-> billed, paid |-> PaidBy(c), balance |-> billed - PaidBy(c),
          version |-> account[c].version + 1]]
    /\ UNCHANGED <<invoice, items, minted, payments>>

(* Correcting an account keeps the tables' invariants.                      *)
LEMMA CorrectedKeepsTables ==
  ASSUME TablesInv, NEW c \in Customers, NEW billed \in Int, AccountCorrected(c, billed)
  PROVE  TablesInv' /\ TablesMove
<1> DEFINE new == [billed |-> billed, paid |-> PaidBy(c), balance |-> billed - PaidBy(c),
                   version |-> account[c].version + 1]
<1>1. Columns(invoice, account, payments)
  BY ColumnTypes DEF TablesInv
<1>2. UNCHANGED <<invoice, items, minted, payments>>
  BY DEF AccountCorrected
<1>3. new \in AccountRow
  <2>1. PaidBy(c) \in Int /\ account[c].version \in Nat
    BY <1>1, PaidIsPaid DEF Columns
  <2> QED BY <2>1 DEF AccountRow
<1>4. /\ account' \in [Customers -> AccountRow]
      /\ \A d \in Customers : d # c => account'[d] = account[d]
      /\ account'[c] = new
  <2> HIDE DEF new
  <2> QED BY <1>1, <1>3 DEF Columns, AccountCorrected, new
<1>5. TablesType'
  BY <1>2, <1>4 DEF TablesInv, TablesType
<1>6. RowsConsistent' /\ PaymentsConsistent' /\ CancelledHoldsNoPayment' /\ ReversedAtMostOnce'
  BY <1>2 DEF TablesInv, RowsConsistent, PaymentsConsistent, CancelledHoldsNoPayment,
              ReversedAtMostOnce, IsCompleted
<1>7. InvoicePaidIsExact'
  BY <1>2, PaidSame DEF TablesInv, InvoicePaidIsExact
<1>8. AccountPaidIsExact'
  BY <1>2, <1>4, PaidSame DEF TablesInv, AccountPaidIsExact
<1>9. InvoicesMove
  <2>1. \A j \in Invoices : invoice[j].version \in Nat
    BY <1>1 DEF Columns
  <2> QED BY <1>2, <2>1 DEF InvoicesMove, SameRow
<1>10. AccountsMove
  <2>1. \A d \in Customers : BilledTo(d)' = BilledTo(d) /\ PaidBy(d)' = PaidBy(d)
    BY <1>2, BilledSame, PaidSame
  <2>2. \A d \in Customers : account[d].version \in Nat
    BY <1>1 DEF Columns
  <2> QED BY <1>4, <2>1, <2>2 DEF AccountsMove
<1>11. PaymentsMove
  BY <1>2 DEF PaymentsMove
<1> QED BY <1>5, <1>6, <1>7, <1>8, <1>9, <1>10, <1>11 DEF TablesInv, TablesMove

-----------------------------------------------------------------------------
(***************************************************************************)
(* PART C. THE INVARIANT                                                   *)
(*                                                                         *)
(* A save that passes its token checks has current copies, so what it      *)
(* writes is an effect of part B, which keeps the tables' invariants and   *)
(* moves a version whenever another request must notice (section 1). What  *)
(* the other requests rely on survives such a step (section 2), what a     *)
(* request relies on is true when it reads (section 3), and the row locks  *)
(* keep everybody else from the row they hold (section 4).                 *)
(***************************************************************************)

(* The invariant of the tables is part of the inductive invariant.          *)
LEMMA InvTables == IInv => TablesInv
BY DEF IInv, TypeOK, TablesInv, TablesType

-----------------------------------------------------------------------------
(* 1. Every commit is an effect of part B *)

(* A row is the record of its columns.                                      *)
LEMMA RowIsRecord ==
  ASSUME NEW rec \in InvoiceRow
  PROVE  rec = [status |-> rec.status, total |-> rec.total, paid |-> rec.paid,
                outstanding |-> rec.outstanding, payStatus |-> rec.payStatus,
                version |-> rec.version]
BY DEF InvoiceRow

(* The three ways to write columns of an invoice row, and the rows they give: *)
(* a posting,                                                               *)
Posting(old, x, y, payStatus, v) ==
    [old EXCEPT !.paid = x, !.outstanding = y, !.payStatus = payStatus, !.version = v]

PostedRow(old, x, y, payStatus, v) ==
    [status |-> old.status, total |-> old.total, paid |-> x, outstanding |-> y,
     payStatus |-> payStatus, version |-> v]

(* an activation or cancellation,                                           *)
Moving(old, status, v) == [old EXCEPT !.status = status, !.version = v]

MovedRow(old, status, v) ==
    [status |-> status, total |-> old.total, paid |-> old.paid,
     outstanding |-> old.outstanding, payStatus |-> old.payStatus, version |-> v]

(* and an edit of the lines.                                                *)
Editing(old, n, y) == [old EXCEPT !.total = n, !.outstanding = y]

(* The columns that a posting names are the ones that change.               *)
LEMMA RowPosted ==
  ASSUME NEW old \in InvoiceRow, NEW x \in Int, NEW y \in Int, NEW v \in Nat,
         NEW payStatus \in SettlementStatus
  PROVE  Posting(old, x, y, payStatus, v) = PostedRow(old, x, y, payStatus, v)
<1> DEFINE new == Posting(old, x, y, payStatus, v)
<1>1. /\ new \in InvoiceRow
      /\ new.status = old.status /\ new.total = old.total /\ new.paid = x
      /\ new.outstanding = y /\ new.payStatus = payStatus /\ new.version = v
  BY DEF InvoiceRow, Posting
<1> HIDE DEF new
<1>2. new = [status |-> new.status, total |-> new.total, paid |-> new.paid,
             outstanding |-> new.outstanding, payStatus |-> new.payStatus,
             version |-> new.version]
  BY <1>1, RowIsRecord
<1>3. new = PostedRow(old, x, y, payStatus, v)
  BY <1>1, <1>2 DEF PostedRow
<1> QED BY <1>3 DEF new

(* The same for an activation or cancellation.                              *)
LEMMA RowMoved ==
  ASSUME NEW old \in InvoiceRow, NEW status \in InvoiceStatus, NEW v \in Nat
  PROVE  Moving(old, status, v) = MovedRow(old, status, v)
<1> DEFINE new == Moving(old, status, v)
<1>1. /\ new \in InvoiceRow
      /\ new.status = status /\ new.total = old.total /\ new.paid = old.paid
      /\ new.outstanding = old.outstanding /\ new.payStatus = old.payStatus /\ new.version = v
  BY DEF InvoiceRow, Moving
<1> HIDE DEF new
<1>2. new = [status |-> new.status, total |-> new.total, paid |-> new.paid,
             outstanding |-> new.outstanding, payStatus |-> new.payStatus,
             version |-> new.version]
  BY <1>1, RowIsRecord
<1>3. new = MovedRow(old, status, v)
  BY <1>1, <1>2 DEF MovedRow
<1> QED BY <1>3 DEF new

(* The same for an edit, column by column.                                  *)
LEMMA RowEdited ==
  ASSUME NEW old \in InvoiceRow, NEW n \in Nat, NEW y \in Int
  PROVE  LET new == Editing(old, n, y)
         IN  /\ new \in InvoiceRow
             /\ new.status = old.status /\ new.total = n /\ new.paid = old.paid
             /\ new.outstanding = y /\ new.payStatus = old.payStatus
             /\ new.version = old.version
BY DEF InvoiceRow, Editing

(* The row that a posting writes, as a record.                              *)
LEMMA PostedInvoiceRow ==
  ASSUME NEW i \in Invoices, NEW row, NEW paid \in Int, NEW payStatus \in SettlementStatus,
         invoice \in [Invoices -> InvoiceRow], row.total - paid \in Int, row.version + 1 \in Nat
  PROVE  PostedInvoice(i, row, paid, payStatus) =
           [invoice EXCEPT ![i] = PostedRow(invoice[i], paid, row.total - paid, payStatus,
                                            row.version + 1)]
<1> DEFINE old == invoice[i]
           y == row.total - paid
           v == row.version + 1
<1>1. PostedInvoice(i, row, paid, payStatus) =
           [invoice EXCEPT ![i] = Posting(old, paid, y, payStatus, v)]
  BY DEF PostedInvoice, Posting
<1>2. old \in InvoiceRow /\ y \in Int /\ v \in Nat
  OBVIOUS
<1> HIDE DEF old, y, v
<1>3. paid \in Int /\ payStatus \in SettlementStatus
  OBVIOUS
<1>4. Posting(old, paid, y, payStatus, v) = PostedRow(old, paid, y, payStatus, v)
  BY <1>2, <1>3, RowPosted
<1> QED BY <1>1, <1>4 DEF old, y, v

(* A copy whose version is still the row's has the row's content.           *)
LEMMA CurrentRow ==
  ASSUME IInv, NEW r \in Requests, HasRow(r), InvoiceUnchanged(r)
  PROVE  LET row == req[r].row
             i == req[r].inv
         IN  /\ i \in Invoices /\ req[r].cust = CustomerOf[i]
             /\ RowConsistent(row) /\ row.status # "Absent"
             /\ row.version = invoice[i].version
             /\ row.status = invoice[i].status
             /\ row.paid = invoice[i].paid
             /\ row.payStatus = invoice[i].payStatus
             /\ row.status # "Draft" =>
                  row.total = invoice[i].total /\ row.outstanding = invoice[i].outstanding
BY DEF IInv, RequestsInv, RequestInv, HasRow, InvoiceCopy, SameRow, InvoiceUnchanged

(* The same for the account.                                                *)
LEMMA CurrentAccount ==
  ASSUME IInv, NEW r \in Requests, HasAccount(r), AccountUnchanged(r)
  PROVE  req[r].acct = account[req[r].cust]
BY DEF IInv, RequestsInv, RequestInv, AccountCopy, AccountUnchanged

(* A payment that commits is posted on the rows as they are.                *)
LEMMA RecordCommits ==
  ASSUME IInv, NEW r \in Requests, RecordSave(r)
  PROVE  PaymentPosted(req[r].inv, req[r].amount, req[r].number)
<1> DEFINE i == req[r].inv
           a == req[r].amount
           row == req[r].row
<1>1. Columns(invoice, account, payments)
  BY InvTables, ColumnTypes DEF TablesInv
<1>2. HasRow(r) /\ HasAccount(r) /\ InvoiceUnchanged(r) /\ AccountUnchanged(r)
  BY DEF RecordSave, HasRow, HasAccount, At, OnInvoice
<1>3. /\ i \in Invoices /\ req[r].cust = CustomerOf[i]
      /\ RowConsistent(row) /\ row.version = invoice[i].version
      /\ row.status = invoice[i].status /\ row.paid = invoice[i].paid
      /\ row.status # "Draft" =>
           row.total = invoice[i].total /\ row.outstanding = invoice[i].outstanding
  BY <1>2, CurrentRow
<1>4. req[r].acct = account[CustomerOf[i]]
  BY <1>2, <1>3, CurrentAccount
<1>5. Payable(row, a) /\ a > 0 /\ a \in Int
  BY AmountsAssumption DEF RecordSave, At, IInv, RequestsInv, RequestInv
<1>6. /\ row.status = "Active" /\ row.total = invoice[i].total
      /\ row.outstanding = invoice[i].outstanding /\ a <= invoice[i].outstanding
  BY <1>3, <1>5 DEF Payable
<1>7. row.total - (row.paid + a) = invoice[i].outstanding - a
  BY <1>1, <1>3, <1>5, <1>6 DEF Columns, RowConsistent
<1>8. /\ invoice' = PostedInvoice(i, row, row.paid + a,
                       IF row.total - (row.paid + a) <= 0 THEN "Paid" ELSE "PartiallyPaid")
      /\ account' = PostedAccount(req[r].cust, req[r].acct, a)
      /\ payments' = Append(payments, NewPayment(i, a, "Completed", 0, req[r].number))
      /\ UNCHANGED <<items, minted>>
  BY DEF RecordSave
<1> HIDE DEF i, a, row
<1>9. invoice[i].outstanding - a <= 0 <=> a = invoice[i].outstanding
  BY <1>1, <1>3, <1>5, <1>6 DEF Columns
<1>10. invoice' = [invoice EXCEPT ![i] =
             [status |-> invoice[i].status, total |-> invoice[i].total, paid |-> row.paid + a,
              outstanding |-> row.total - (row.paid + a),
              payStatus |-> IF row.total - (row.paid + a) <= 0 THEN "Paid" ELSE "PartiallyPaid",
              version |-> row.version + 1]]
  <2> DEFINE paid == row.paid + a
             payStatus == IF row.total - paid <= 0 THEN "Paid" ELSE "PartiallyPaid"
  <2>1. /\ paid \in Int /\ row.total - paid \in Int
        /\ row.version + 1 \in Nat /\ payStatus \in SettlementStatus
        /\ invoice \in [Invoices -> InvoiceRow]
    BY <1>1, <1>3, <1>5, <1>6 DEF Columns, SettlementStatus
  <2>2. invoice' = PostedInvoice(i, row, paid, payStatus)
    BY <1>8
  <2> HIDE DEF payStatus, paid
  <2>3. PostedInvoice(i, row, paid, payStatus) =
          [invoice EXCEPT ![i] = PostedRow(invoice[i], paid, row.total - paid, payStatus,
                                           row.version + 1)]
    BY <1>3, <2>1, PostedInvoiceRow
  <2> QED BY <2>2, <2>3 DEF payStatus, paid, PostedRow
<1>11. invoice' = [invoice EXCEPT ![i] =
         [status |-> "Active", total |-> invoice[i].total, paid |-> invoice[i].paid + a,
          outstanding |-> invoice[i].outstanding - a,
          payStatus |-> IF a = invoice[i].outstanding THEN "Paid" ELSE "PartiallyPaid",
          version |-> invoice[i].version + 1]]
  BY <1>3, <1>6, <1>7, <1>9, <1>10
<1>12. account' = PostedAccount(CustomerOf[i], account[CustomerOf[i]], a)
  BY <1>3, <1>4, <1>8
<1>13. PaymentPosted(i, a, req[r].number)
  BY <1>3, <1>5, <1>6, <1>8, <1>11, <1>12 DEF PaymentPosted
<1> QED BY <1>13 DEF i, a

(* A reversal that commits undoes a payment that is still completed.        *)
LEMMA ReverseCommits ==
  ASSUME IInv, NEW r \in Requests, ReverseSave(r)
  PROVE  /\ req[r].pay \in DOMAIN payments
         /\ req[r].number \in Numbers
         /\ PaymentUndone(req[r].pay, req[r].number)
<1> DEFINE i == req[r].inv
           a == req[r].amount
           k == req[r].pay
           row == req[r].row
<1>1. Columns(invoice, account, payments)
  BY InvTables, ColumnTypes DEF TablesInv
<1>2. HasRow(r) /\ HasAccount(r) /\ InvoiceUnchanged(r) /\ AccountUnchanged(r) /\ NumberFree(req[r].number)
  BY DEF ReverseSave, HasRow, HasAccount, At, OnInvoice
<1>3. /\ i \in Invoices /\ req[r].cust = CustomerOf[i]
      /\ row.version = invoice[i].version
      /\ row.status = invoice[i].status /\ row.paid = invoice[i].paid
      /\ row.status # "Draft" =>
           row.total = invoice[i].total /\ row.outstanding = invoice[i].outstanding
  BY <1>2, CurrentRow
<1>4. req[r].acct = account[CustomerOf[i]]
  BY <1>2, <1>3, CurrentAccount
<1>5. /\ k \in DOMAIN payments /\ payments[k].invoice = i /\ payments[k].amount = a
      /\ payments[k].status = "Completed"
  BY <1>2 DEF ReverseSave, At, IInv, RequestsInv, RequestInv, AccountUnchanged, IsCompleted
<1>6. invoice[i].status = "Active" /\ 0 < a /\ a <= invoice[i].paid /\ a \in Int
  BY <1>1, <1>5, InvTables, Undoable DEF Columns
<1>7. /\ invoice' = PostedInvoice(i, row, row.paid - a,
                       IF row.paid - a <= 0 THEN "Unpaid" ELSE "PartiallyPaid")
      /\ account' = PostedAccount(req[r].cust, req[r].acct, -a)
      /\ payments' = Append(Marked(k), NewPayment(i, a, "Reversed", k, req[r].number))
      /\ UNCHANGED <<items, minted>>
  BY DEF ReverseSave
<1> HIDE DEF i, a, row, k
<1>8. /\ invoice[i].paid - a <= 0 <=> invoice[i].paid = a
      /\ invoice[i].total - (invoice[i].paid - a) = invoice[i].outstanding + a
  <2>1. invoice[i].outstanding = invoice[i].total - invoice[i].paid
    BY <1>3 DEF IInv, RowsConsistent, RowConsistent
  <2> QED BY <1>1, <1>3, <1>6, <2>1 DEF Columns
<1>9. invoice' = [invoice EXCEPT ![i] =
             [status |-> invoice[i].status, total |-> invoice[i].total, paid |-> row.paid - a,
              outstanding |-> row.total - (row.paid - a),
              payStatus |-> IF row.paid - a <= 0 THEN "Unpaid" ELSE "PartiallyPaid",
              version |-> row.version + 1]]
  <2> DEFINE paid == row.paid - a
             payStatus == IF paid <= 0 THEN "Unpaid" ELSE "PartiallyPaid"
  <2>1. /\ paid \in Int /\ row.total - paid \in Int
        /\ row.version + 1 \in Nat /\ payStatus \in SettlementStatus
        /\ invoice \in [Invoices -> InvoiceRow]
    BY <1>1, <1>3, <1>6 DEF Columns, SettlementStatus
  <2>2. invoice' = PostedInvoice(i, row, paid, payStatus)
    BY <1>7
  <2> HIDE DEF payStatus, paid
  <2>3. PostedInvoice(i, row, paid, payStatus) =
          [invoice EXCEPT ![i] = PostedRow(invoice[i], paid, row.total - paid, payStatus,
                                           row.version + 1)]
    BY <1>3, <2>1, PostedInvoiceRow
  <2> QED BY <2>2, <2>3 DEF payStatus, paid, PostedRow
<1>10. invoice' = [invoice EXCEPT ![i] =
             [status |-> invoice[i].status, total |-> invoice[i].total,
              paid |-> invoice[i].paid - a, outstanding |-> invoice[i].outstanding + a,
              payStatus |-> IF invoice[i].paid = a THEN "Unpaid" ELSE "PartiallyPaid",
              version |-> invoice[i].version + 1]]
  BY <1>3, <1>6, <1>8, <1>9
<1>11. account' = PostedAccount(CustomerOf[i], account[CustomerOf[i]], -a)
  BY <1>3, <1>4, <1>7
<1>12. PaymentUndone(k, req[r].number)
  BY <1>5, <1>7, <1>10, <1>11 DEF PaymentUndone
<1> QED BY <1>2, <1>5, <1>12 DEF NumberFree, k

(* The columns of a request's copies.                                       *)
LEMMA RequestColumns ==
  ASSUME TypeOK, NEW r \in Requests
  PROVE  /\ req[r] \in Request
         /\ req[r].row \in InvoiceRow /\ req[r].acct \in AccountRow
         /\ req[r].row.total \in Nat /\ req[r].row.paid \in Int
         /\ req[r].row.outstanding \in Int /\ req[r].row.version \in Nat
         /\ req[r].acct.version \in Nat
         /\ req[r].lines \in SUBSET Lines
         /\ req[r].billed \in Int /\ req[r].paid \in Int
<1>1. req[r] \in Request
  BY DEF TypeOK
<1>2. /\ req[r].row \in InvoiceRow /\ req[r].acct \in AccountRow /\ req[r].lines \in SUBSET Lines
      /\ req[r].billed \in Int /\ req[r].paid \in Int
  BY <1>1 DEF Request
<1>3. \A rec \in InvoiceRow : /\ rec.total \in Nat /\ rec.paid \in Int
                             /\ rec.outstanding \in Int /\ rec.version \in Nat
  BY DEF InvoiceRow
<1>4. \A acct \in AccountRow : acct.version \in Nat
  BY DEF AccountRow
<1> QED BY <1>1, <1>2, <1>3, <1>4

(* An activation that commits issues a draft; what it bills is the total it *)
(* has read.                                                                *)
LEMMA ActivateCommits ==
  ASSUME IInv, NEW r \in Requests, ActivateSave(r)
  PROVE  /\ req[r].inv \in Invoices
         /\ InvoiceIssued(req[r].inv, req[r].row.total)
<1> DEFINE i == req[r].inv
           row == req[r].row
           v == row.version + 1
<1>1. Columns(invoice, account, payments)
  BY InvTables, ColumnTypes DEF TablesInv
<1>2. HasRow(r) /\ HasAccount(r) /\ InvoiceUnchanged(r) /\ AccountUnchanged(r)
  BY DEF ActivateSave, HasRow, HasAccount, At, OnInvoice
<1>3. /\ i \in Invoices /\ req[r].cust = CustomerOf[i]
      /\ row.version = invoice[i].version /\ row.status = invoice[i].status
  BY <1>2, CurrentRow
<1>4. req[r].acct = account[CustomerOf[i]]
  BY <1>2, <1>3, CurrentAccount
<1>5. row.status = "Draft"
  BY DEF ActivateSave, At, IInv, RequestsInv, RequestInv
<1>6. invoice' = [invoice EXCEPT ![i] = Moving(invoice[i], "Active", v)]
  BY DEF ActivateSave, Moving
<1>7. v \in Nat /\ invoice[i] \in InvoiceRow /\ "Active" \in InvoiceStatus
  BY <1>1, <1>3 DEF Columns, InvoiceStatus
<1> HIDE DEF v
<1>8. invoice' = [invoice EXCEPT ![i] = MovedRow(invoice[i], "Active", v)]
  BY <1>6, <1>7, RowMoved
<1>9. AccountBilled(CustomerOf[i], account[CustomerOf[i]].billed + row.total)
  BY <1>3, <1>4 DEF ActivateSave, AccountBilled
<1>10. UNCHANGED <<items, minted, payments>>
  BY DEF ActivateSave
<1>11. InvoiceIssued(i, row.total)
  BY <1>3, <1>5, <1>8, <1>9, <1>10 DEF InvoiceIssued, MovedRow, v
<1> QED BY <1>3, <1>11

(* A cancellation that commits voids an invoice without completed payments. *)
LEMMA CancelCommits ==
  ASSUME IInv, NEW r \in Requests, CancelSave(r)
  PROVE  req[r].inv \in Invoices /\ InvoiceVoided(req[r].inv)
<1> DEFINE i == req[r].inv
           row == req[r].row
           v == row.version + 1
           c == CustomerOf[i]
<1>1. Columns(invoice, account, payments)
  BY InvTables, ColumnTypes DEF TablesInv
<1>2. HasRow(r) /\ InvoiceUnchanged(r) /\ (WasActive(r) => HasAccount(r) /\ AccountUnchanged(r))
  BY DEF CancelSave, HasRow, HasAccount, At, OnInvoice
<1>3. /\ i \in Invoices /\ req[r].cust = c
      /\ row.version = invoice[i].version /\ row.status = invoice[i].status
      /\ row.status # "Absent"
      /\ row.status # "Draft" => row.total = invoice[i].total
  BY <1>2, CurrentRow
<1>4. WasActive(r) => req[r].acct = account[c]
  BY <1>2, <1>3, CurrentAccount
<1>5. \A k \in DOMAIN payments : payments[k].invoice = i => ~IsCompleted(k)
  BY <1>2 DEF CancelSave, At, IInv, RequestsInv, RequestInv
<1>6. invoice' = [invoice EXCEPT ![i] = Moving(invoice[i], "Cancelled", v)]
  BY DEF CancelSave, Moving
<1>7. v \in Nat /\ invoice[i] \in InvoiceRow /\ "Cancelled" \in InvoiceStatus
  BY <1>1, <1>3 DEF Columns, InvoiceStatus
<1> HIDE DEF v
<1>8. invoice' = [invoice EXCEPT ![i] = MovedRow(invoice[i], "Cancelled", v)]
  BY <1>6, <1>7, RowMoved
<1>9. IF invoice[i].status = "Active"
      THEN AccountBilled(c, account[c].billed - invoice[i].total)
      ELSE account' = account
  BY <1>3, <1>4 DEF CancelSave, WasActive, AccountBilled
<1>10. UNCHANGED <<items, minted, payments>>
  BY DEF CancelSave
<1>11. InvoiceVoided(i)
  BY <1>3, <1>5, <1>8, <1>9, <1>10 DEF InvoiceVoided, MovedRow, v
<1> QED BY <1>3, <1>11

(* An edit that commits writes lines, and the row only of a draft.          *)
LEMMA EditCommits ==
  ASSUME IInv, NEW r \in Requests, EditSave(r)
  PROVE  LinesWritten \/ \E i \in Invoices, row \in InvoiceRow : DraftWritten(i, row)
<1> DEFINE i == req[r].inv
           copy == req[r].row
           total == TotalOf[EditedLines(r)]
           y == total - copy.paid
           row == Editing(invoice[i], total, y)
<1>1. Columns(invoice, account, payments) /\ TypeOK
  BY InvTables, ColumnTypes DEF TablesInv, IInv
<1>2. HasRow(r) /\ req[r].op \in {"AddItem", "RemoveItem"}
  BY DEF EditSave, HasRow, At, OnInvoice
<1>3. i \in Invoices /\ req[r].line \in Lines /\ copy.status = "Draft"
  BY <1>2 DEF IInv, RequestsInv, RequestInv, OnInvoice
<1>4. items' \in [Invoices -> SUBSET Lines] /\ minted' \in SUBSET Lines
      /\ UNCHANGED <<account, payments>>
  BY <1>1, <1>3 DEF EditSave, TypeOK
<1>5. CASE ~TotalChanges(r)
  <2>1. invoice' = invoice
    BY <1>5 DEF EditSave
  <2> QED BY <1>4, <2>1 DEF LinesWritten
<1>6. CASE TotalChanges(r)
  <2>1. InvoiceUnchanged(r)
    BY <1>6 DEF EditSave
  <2>2. /\ copy.version = invoice[i].version /\ invoice[i].status = "Draft"
        /\ copy.paid = invoice[i].paid /\ RowConsistent(copy)
    BY <1>2, <1>3, <2>1, CurrentRow
  <2>3. RowConsistent(invoice[i])
    BY <1>3 DEF IInv, RowsConsistent
  <2>4. invoice[i].paid = 0 /\ copy.paid = 0 /\ invoice[i].payStatus = "Unpaid"
    BY <2>2, <2>3 DEF RowConsistent
  <2>5. total \in Nat
    <3>1. EditedLines(r) \in SUBSET Lines
      BY <1>1, <1>3, RequestColumns DEF EditedLines
    <3> QED BY <3>1, TotalOfAssumption
  <2>6. y = total /\ y \in Int
    BY <2>4, <2>5
  <2>7. invoice' = [invoice EXCEPT ![i] = row]
    BY <1>6 DEF EditSave, Editing
  <2>8. invoice[i] \in InvoiceRow
    BY <1>1, <1>3 DEF Columns
  <2> HIDE DEF total, y
  <2>9. /\ row \in InvoiceRow
        /\ row.status = "Draft" /\ row.total = total /\ row.paid = 0
        /\ row.outstanding = total /\ row.payStatus = "Unpaid"
        /\ row.version = invoice[i].version
    BY <2>2, <2>4, <2>5, <2>6, <2>8, RowEdited
  <2> HIDE DEF row
  <2>10. RowConsistent(row)
    BY <2>5, <2>9 DEF RowConsistent
  <2>11. DraftWritten(i, row)
    BY <1>4, <2>2, <2>4, <2>7, <2>9, <2>10 DEF DraftWritten, RowWritten
  <2> QED BY <1>3, <2>9, <2>11
<1> QED BY <1>5, <1>6

(* The row of a new draft, column by column.                                *)
Opening(old, status, n) == [old EXCEPT !.status = status, !.total = n, !.outstanding = n]

LEMMA RowOpened ==
  ASSUME NEW old \in InvoiceRow, NEW status \in InvoiceStatus, NEW n \in Nat, n \in Int
  PROVE  LET new == Opening(old, status, n)
         IN  /\ new \in InvoiceRow
             /\ new.status = status /\ new.total = n /\ new.paid = old.paid
             /\ new.outstanding = n /\ new.payStatus = old.payStatus
             /\ new.version = old.version
BY DEF InvoiceRow, Opening

(* Creating a draft writes its row for the first time.                      *)
LEMMA CreateCommits ==
  ASSUME IInv, NEW i \in Invoices, NEW S \in SUBSET Lines, CreateDraft(i, S)
  PROVE  \E row \in InvoiceRow : DraftWritten(i, row)
<1> DEFINE total == TotalOf[S]
           row == Opening(NoInvoiceRow, "Draft", total)
<1>1. Columns(invoice, account, payments) /\ TypeOK
  BY InvTables, ColumnTypes DEF TablesInv, IInv
<1>2. total \in Nat
  BY TotalOfAssumption
<1>3. /\ invoice[i].status = "Absent"
      /\ invoice' = [invoice EXCEPT ![i] = row]
      /\ items' = [items EXCEPT ![i] = S] /\ minted' = minted \cup S
      /\ UNCHANGED <<account, payments>>
  BY DEF CreateDraft, Opening
<1> HIDE DEF total
<1>4. /\ row \in InvoiceRow
      /\ row.status = "Draft" /\ row.total = total /\ row.paid = 0
      /\ row.outstanding = total /\ row.payStatus = "Unpaid" /\ row.version = 0
  <2>1. /\ NoInvoiceRow \in InvoiceRow /\ NoInvoiceRow.paid = 0
        /\ NoInvoiceRow.payStatus = "Unpaid" /\ NoInvoiceRow.version = 0
    BY DEF InvoiceRow, NoInvoiceRow, InvoiceStatus, SettlementStatus
  <2>2. "Draft" \in InvoiceStatus /\ total \in Int
    BY <1>2 DEF InvoiceStatus
  <2> QED BY <1>2, <2>1, <2>2, RowOpened
<1> HIDE DEF row
<1>5. invoice[i].version = 0 /\ invoice[i].paid = 0
  BY <1>3 DEF IInv, RowsConsistent, RowConsistent
<1>6. RowConsistent(row)
  BY <1>2, <1>4 DEF RowConsistent
<1>7. items' \in [Invoices -> SUBSET Lines] /\ minted' \in SUBSET Lines
  BY <1>1, <1>3 DEF TypeOK
<1>8. DraftWritten(i, row)
  BY <1>3, <1>4, <1>5, <1>6, <1>7 DEF DraftWritten, RowWritten
<1> QED BY <1>4, <1>8

(* A reconciliation that commits corrects an account to the sums as they    *)
(* are, although it added them up earlier.                                  *)
LEMMA ReconcileCommits ==
  ASSUME IInv, NEW r \in Requests, ReconcileSave(r)
  PROVE  /\ req[r].cust \in Customers
         /\ req[r].billed = BilledTo(req[r].cust)
         /\ AccountCorrected(req[r].cust, req[r].billed)
<1>1. HasAccount(r) /\ AccountUnchanged(r)
  BY DEF ReconcileSave, HasAccount, At
<1>2. req[r].acct = account[req[r].cust]
  BY <1>1, CurrentAccount
<1>3. /\ req[r].cust \in Customers
      /\ req[r].billed = BilledTo(req[r].cust) /\ req[r].paid = PaidBy(req[r].cust)
  BY <1>1 DEF ReconcileSave, At, IInv, RequestsInv, RequestInv
<1> QED BY <1>2, <1>3 DEF ReconcileSave, AccountCorrected

(* Hence every commit keeps what all requests rely on.                      *)
LEMMA SaveKeepsTables ==
  ASSUME IInv, NEW r \in Requests, Save(r)
  PROVE  TablesInv' /\ TablesMove
<1>1. TablesInv /\ TypeOK
  BY InvTables DEF IInv
<1>2. CASE EditSave(r)
  BY <1>1, <1>2, EditCommits, LinesKeepTables, DraftKeepsTables
<1>3. CASE ActivateSave(r)
  <2>1. req[r].row.total \in Int
    BY <1>1, RequestColumns
  <2> QED BY <1>1, <1>3, <2>1, ActivateCommits, IssuedKeepsTables
<1>4. CASE CancelSave(r)
  BY <1>1, <1>4, CancelCommits, VoidedKeepsTables
<1>5. CASE RecordSave(r)
  <2>1. req[r].amount \in Int /\ req[r].inv \in Invoices /\ req[r].number \in Numbers
    BY <1>5, AmountsAssumption DEF RecordSave, At, IInv, RequestsInv, RequestInv, OnInvoice
  <2> QED BY <1>1, <1>5, <2>1, RecordCommits, PostedKeepsTables
<1>6. CASE ReverseSave(r)
  BY <1>1, <1>6, ReverseCommits, UndoneKeepsTables
<1>7. CASE ReconcileSave(r)
  <2>1. req[r].billed \in Int
    BY <1>1, RequestColumns
  <2> QED BY <1>1, <1>7, <2>1, ReconcileCommits, CorrectedKeepsTables
<1> QED BY <1>2, <1>3, <1>4, <1>5, <1>6, <1>7 DEF Save
-----------------------------------------------------------------------------
(* 2. What other requests rely on survives a step *)

(* Versions before and after a step are numbers that can be compared.       *)
LEMMA VersionsMove ==
  ASSUME TablesType, TablesType', TablesMove
  PROVE  /\ \A i \in Invoices : \A n \in Nat :
              /\ n <= invoice[i].version => n <= invoice'[i].version
              /\ n <= invoice[i].version /\ n = invoice'[i].version => n = invoice[i].version
         /\ \A c \in Customers : \A n \in Nat :
              /\ n <= account[c].version => n <= account'[c].version
              /\ n <= account[c].version /\ n = account'[c].version => n = account[c].version
<1>1. Columns(invoice, account, payments) /\ Columns(invoice', account', payments')
  BY ColumnTypes
<1>2. ASSUME NEW i \in Invoices, NEW n \in Nat
      PROVE  /\ n <= invoice[i].version => n <= invoice'[i].version
             /\ n <= invoice[i].version /\ n = invoice'[i].version => n = invoice[i].version
  <2>1. /\ invoice[i].version \in Nat /\ invoice'[i].version \in Nat
        /\ invoice[i].version <= invoice'[i].version
    BY <1>1 DEF Columns, TablesMove, InvoicesMove
  <2> QED BY <2>1
<1>3. ASSUME NEW c \in Customers, NEW n \in Nat
      PROVE  /\ n <= account[c].version => n <= account'[c].version
             /\ n <= account[c].version /\ n = account'[c].version => n = account[c].version
  <2>1. /\ account[c].version \in Nat /\ account'[c].version \in Nat
        /\ account[c].version <= account'[c].version
    BY <1>1 DEF Columns, TablesMove, AccountsMove
  <2> QED BY <2>1
<1> QED BY <1>2, <1>3

(* A copy of an invoice row stays a good copy.                              *)
LEMMA InvoiceCopySurvives ==
  ASSUME TypeOK, TablesType', TablesMove, NEW q \in Requests, req'[q] = req[q],
         req[q].inv \in Invoices, InvoiceCopy(q)
  PROVE  InvoiceCopy(q)'
<1> DEFINE i == req[q].inv
           copy == req[q].row
<1>1. copy.version \in Nat
  BY RequestColumns
<1>2. TablesType
  BY DEF TypeOK, TablesType
<1>3. copy.version <= invoice'[i].version
  BY <1>1, <1>2, VersionsMove DEF InvoiceCopy
<1>4. ASSUME copy.version = invoice'[i].version
      PROVE  SameRow(copy, invoice'[i])
  <2>1. copy.version = invoice[i].version
    BY <1>1, <1>2, <1>4, VersionsMove DEF InvoiceCopy
  <2>2. SameRow(copy, invoice[i]) /\ copy.status # "Absent"
    BY <2>1 DEF InvoiceCopy
  <2>3. SameRow(invoice[i], invoice'[i])
    BY <1>4, <2>1, <2>2 DEF TablesMove, InvoicesMove, SameRow
  <2> QED BY <2>2, <2>3 DEF SameRow
<1> QED BY <1>3, <1>4 DEF InvoiceCopy

(* A copy of an account stays a good copy.                                  *)
LEMMA AccountCopySurvives ==
  ASSUME TypeOK, TablesType', TablesMove, NEW q \in Requests, req'[q] = req[q],
         req[q].cust \in Customers, AccountCopy(q)
  PROVE  /\ AccountCopy(q)'
         /\ req[q].acct.version = account'[req[q].cust].version
              => /\ req[q].acct.version = account[req[q].cust].version
                 /\ account'[req[q].cust].version = account[req[q].cust].version
<1> DEFINE c == req[q].cust
           copy == req[q].acct
<1>1. copy.version \in Nat
  BY RequestColumns
<1>2. TablesType
  BY DEF TypeOK, TablesType
<1>3. copy.version <= account'[c].version
  BY <1>1, <1>2, VersionsMove DEF AccountCopy
<1>4. ASSUME copy.version = account'[c].version
      PROVE  copy = account'[c] /\ copy.version = account[c].version
                                /\ account'[c].version = account[c].version
  <2>1. copy.version = account[c].version
    BY <1>1, <1>2, <1>4, VersionsMove DEF AccountCopy
  <2>2. copy = account[c]
    BY <2>1 DEF AccountCopy
  <2> QED BY <1>4, <2>1, <2>2 DEF TablesMove, AccountsMove
<1> QED BY <1>3, <1>4 DEF AccountCopy

(* The operations are told apart by what they have read.                    *)
LEMMA Copies ==
  ASSUME NEW r \in Requests, RequestInv(r)
  PROVE  /\ req[r].op \in {"Record", "Installment", "Activate", "Cancel", "AddItem", "RemoveItem"}
              => HasRow(r) /\ InvoiceCopy(r)
         /\ req[r].op = "Reverse" => HasAccount(r) /\ AccountCopy(r)
         /\ req[r].op = "Reconcile" => HasAccount(r) /\ AccountCopy(r)
         /\ req[r].op \in OnInvoice =>
              /\ req[r].inv \in Invoices /\ req[r].cust = CustomerOf[req[r].inv]
              /\ req[r].cust \in Customers
<1>1. \A i \in Invoices : CustomerOf[i] \in Customers
  BY CustomerOfAssumption
<1>2. req[r].op \in {"Record", "Installment", "Activate", "Cancel", "AddItem", "RemoveItem"}
        => HasRow(r)
  BY DEF HasRow, At, OnInvoice
<1>3. req[r].op \in {"Reverse", "Reconcile"} => HasAccount(r)
  BY DEF HasAccount, At, RequestInv
<1> QED BY <1>1, <1>2, <1>3 DEF RequestInv

(* What a request relies on survives the steps of others.                   *)
LEMMA RequestSurvives ==
  ASSUME IInv, TablesType', TablesMove, NEW q \in Requests, req'[q] = req[q]
  PROVE  RequestInv(q)'
<1>1. TypeOK /\ RequestInv(q)
  BY DEF IInv, RequestsInv
<1>2. Columns(invoice, account, payments) /\ Columns(invoice', account', payments')
  BY InvTables, ColumnTypes DEF TablesInv
<1>3. (HasRow(q) <=> HasRow(q)') /\ (HasAccount(q) <=> HasAccount(q)')
  BY DEF HasRow, HasAccount, At, WasActive
<1>4. HasRow(q)' => InvoiceCopy(q)'
  <2>1. HasRow(q) => InvoiceCopy(q) /\ req[q].inv \in Invoices
    BY <1>1 DEF RequestInv, HasRow
  <2> QED BY <1>1, <1>3, <2>1, InvoiceCopySurvives
<1>5. HasAccount(q) => req[q].cust \in Customers
  BY <1>1, Copies DEF HasAccount, At, OnInvoice, RequestInv
<1>6. HasAccount(q)' => AccountCopy(q)'
  <2>1. HasAccount(q) => AccountCopy(q)
    BY <1>1 DEF RequestInv
  <2> QED BY <1>1, <1>3, <1>5, <2>1, AccountCopySurvives
<1>7. ASSUME req[q].op = "Reverse"
      PROVE  /\ req[q].pay \in DOMAIN payments'
             /\ payments'[req[q].pay].invoice = req[q].inv
             /\ payments'[req[q].pay].amount = req[q].amount
             /\ req[q].acct.version = account'[req[q].cust].version => IsCompleted(req[q].pay)'
  <2> DEFINE k == req[q].pay
  <2>1. /\ k \in DOMAIN payments /\ payments[k].invoice = req[q].inv
        /\ payments[k].amount = req[q].amount
        /\ req[q].acct.version = account[req[q].cust].version => IsCompleted(k)
    BY <1>1, <1>7 DEF RequestInv
  <2>2. /\ AccountCopy(q) /\ req[q].cust \in Customers
        /\ req[q].cust = CustomerOf[payments[k].invoice]
    BY <1>1, <1>7, <2>1, Copies DEF OnInvoice
  <2>3. /\ k \in DOMAIN payments' /\ payments'[k].invoice = payments[k].invoice
        /\ payments'[k].amount = payments[k].amount
        /\ account'[req[q].cust].version = account[req[q].cust].version =>
             payments'[k].status = payments[k].status
    BY <2>1, <2>2 DEF TablesMove, PaymentsMove
  <2>4. ASSUME req[q].acct.version = account'[req[q].cust].version
        PROVE  IsCompleted(k)'
    <3>1. /\ req[q].acct.version = account[req[q].cust].version
          /\ account'[req[q].cust].version = account[req[q].cust].version
      BY <1>1, <2>2, <2>4, AccountCopySurvives
    <3> QED BY <2>1, <2>3, <3>1 DEF IsCompleted
  <2> QED BY <2>1, <2>3, <2>4
<1>8. ASSUME req[q].op = "Cancel", InvoiceUnchanged(q)'
      PROVE  \A k \in DOMAIN payments' : payments'[k].invoice = req[q].inv => ~IsCompleted(k)'
  <2> DEFINE i == req[q].inv
  <2>1. InvoiceCopy(q) /\ i \in Invoices
    BY <1>1, <1>8, Copies DEF OnInvoice
  <2>2. req[q].row.version = invoice'[i].version
    BY <1>8 DEF InvoiceUnchanged
  <2>3. req[q].row.version = invoice[i].version
    <3>1. req[q].row.version \in Nat /\ req[q].row.version <= invoice[i].version
      BY <1>1, <2>1, RequestColumns DEF InvoiceCopy
    <3> QED BY <2>1, <2>2, <3>1, InvTables, VersionsMove DEF TablesInv
  <2>4. \A k \in DOMAIN payments : payments[k].invoice = i => payments[k].status # "Completed"
    BY <1>1, <1>8, <2>3 DEF RequestInv, InvoiceUnchanged, IsCompleted
  <2>5. SUFFICES ASSUME NEW k \in DOMAIN payments', payments'[k].invoice = i,
                        payments'[k].status = "Completed"
                 PROVE  FALSE
    BY DEF IsCompleted
  <2>6. k \in DOMAIN payments /\ payments[k].status = "Completed"
    BY <2>2, <2>3, <2>5 DEF TablesMove, PaymentsMove
  <2>7. payments[k].invoice = i
    BY <2>5, <2>6 DEF TablesMove, PaymentsMove
  <2> QED BY <2>4, <2>6, <2>7
<1>9. ASSUME req[q].op = "Reconcile", AccountUnchanged(q)'
      PROVE  req[q].billed = BilledTo(req[q].cust)' /\ req[q].paid = PaidBy(req[q].cust)'
  <2>1. AccountCopy(q) /\ req[q].cust \in Customers
    BY <1>1, <1>9, Copies DEF RequestInv
  <2>2. /\ req[q].acct.version = account[req[q].cust].version
        /\ account'[req[q].cust].version = account[req[q].cust].version
    BY <1>1, <1>9, <2>1, AccountCopySurvives DEF AccountUnchanged
  <2>3. req[q].billed = BilledTo(req[q].cust) /\ req[q].paid = PaidBy(req[q].cust)
    BY <1>1, <1>9, <2>2 DEF RequestInv, AccountUnchanged
  <2> QED BY <2>1, <2>2, <2>3 DEF TablesMove, AccountsMove
<1> QED
  BY <1>1, <1>3, <1>4, <1>6, <1>7, <1>8, <1>9 DEF RequestInv, Payable, OnInvoice
-----------------------------------------------------------------------------
(* 3. What a request has read is so when it reads *)

(* A step of request r leaves the records of the others alone.              *)
Turns(r) ==
    /\ req' \in [Requests -> Request]
    /\ \A q \in Requests : q # r => req'[q] = req[q]

(* The ways in which a request records what it has read; the columns that   *)
(* are named change and the record stays well typed.                        *)
PaymentRequest(op, at, i, a, n, row, c) ==
    [Idle EXCEPT !.op = op, !.at = at, !.inv = i, !.amount = a, !.number = n,
                !.row = row, !.cust = c]

DraftRequest(op, at, i, l, row, lines, c) ==
    [Idle EXCEPT !.op = op, !.at = at, !.inv = i, !.line = l, !.row = row,
                !.lines = lines, !.cust = c]

CancelRequest(i, row, at, c) ==
    [Idle EXCEPT !.op = "Cancel", !.inv = i, !.row = row, !.at = at, !.cust = c]

ReverseRequest(i, k, a, n, c, acct) ==
    [Idle EXCEPT !.op = "Reverse", !.at = "loaded", !.inv = i, !.pay = k, !.amount = a,
                !.number = n, !.cust = c, !.acct = acct]

ReconcileRequest(c, acct, billed, paid) ==
    [Idle EXCEPT !.op = "Reconcile", !.at = "ready", !.cust = c, !.acct = acct,
                !.billed = billed, !.paid = paid]

(* A request before it begins is well typed.                                *)
LEMMA IdleIsRequest == Idle \in Request
BY DEF Idle, Request, Operations, NoInvoiceRow, NewAccountRow, InvoiceRow, AccountRow,
       InvoiceStatus, SettlementStatus

(* A payment request holds what it was begun with.                          *)
LEMMA PaymentRequestFields ==
  ASSUME NEW op \in Operations,
         NEW at \in {"idle", "loaded", "locked", "ready"}, NEW i \in Invoices,
         NEW a \in Int, NEW n \in Numbers, NEW row \in InvoiceRow, NEW c \in Customers
  PROVE  LET x == PaymentRequest(op, at, i, a, n, row, c)
         IN  /\ x \in Request
             /\ x.op = op /\ x.at = at /\ x.inv = i /\ x.amount = a /\ x.number = n
             /\ x.row = row /\ x.cust = c
BY IdleIsRequest DEF Request, PaymentRequest

(* A request on a draft holds what it was begun with.                       *)
LEMMA DraftRequestFields ==
  ASSUME NEW op \in Operations,
         NEW at \in {"idle", "loaded", "locked", "ready"}, NEW i \in Invoices,
         NEW l \in Lines \cup {0}, NEW row \in InvoiceRow, NEW lines \in SUBSET Lines,
         NEW c \in Customers
  PROVE  LET x == DraftRequest(op, at, i, l, row, lines, c)
         IN  /\ x \in Request
             /\ x.op = op /\ x.at = at /\ x.inv = i /\ x.line = l /\ x.row = row /\ x.cust = c
BY IdleIsRequest DEF Request, DraftRequest

(* A cancellation holds what it was begun with.                             *)
LEMMA CancelRequestFields ==
  ASSUME NEW i \in Invoices, NEW row \in InvoiceRow,
         NEW at \in {"idle", "loaded", "locked", "ready"}, NEW c \in Customers
  PROVE  LET x == CancelRequest(i, row, at, c)
         IN  /\ x \in Request
             /\ x.op = "Cancel" /\ x.at = at /\ x.inv = i /\ x.row = row /\ x.cust = c
BY IdleIsRequest DEF Request, CancelRequest, Operations

(* A reversal holds what it was begun with.                                 *)
LEMMA ReverseRequestFields ==
  ASSUME NEW i \in Invoices, NEW k \in Nat, NEW a \in Int,
         NEW n \in Numbers \cup {TooLong}, NEW c \in Customers, NEW acct \in AccountRow
  PROVE  LET x == ReverseRequest(i, k, a, n, c, acct)
         IN  /\ x \in Request
             /\ x.op = "Reverse" /\ x.at = "loaded" /\ x.inv = i /\ x.pay = k
             /\ x.amount = a /\ x.cust = c /\ x.acct = acct
BY IdleIsRequest DEF Request, ReverseRequest, Operations

(* A reconciliation holds what it was begun with.                           *)
LEMMA ReconcileRequestFields ==
  ASSUME NEW c \in Customers, NEW acct \in AccountRow,
         NEW billed \in Int, NEW paid \in Int
  PROVE  LET x == ReconcileRequest(c, acct, billed, paid)
         IN  /\ x \in Request
             /\ x.op = "Reconcile" /\ x.at = "ready" /\ x.cust = c /\ x.acct = acct
             /\ x.billed = billed /\ x.paid = paid
BY IdleIsRequest DEF Request, ReconcileRequest, Operations

(* Writing one request's record.                                            *)
LEMMA RecordWritten ==
  ASSUME TypeOK, NEW r \in Requests, NEW x \in Request, req' = [req EXCEPT ![r] = x]
  PROVE  Turns(r) /\ req'[r] = x
BY DEF TypeOK, Turns

(* Beginning a request.                                                     *)
LEMMA BeginWrites ==
  ASSUME TypeOK, NEW r \in Requests, NEW x \in Request, Begin(r, x)
  PROVE  /\ Turns(r) /\ req'[r] = x
         /\ req[r].at = "idle" /\ begun' \in 0 .. MaxRequests
<1>1. req' = [req EXCEPT ![r] = x]
  BY DEF Begin
<1>2. begun' \in 0 .. MaxRequests
  BY MaxRequestsAssumption DEF Begin, TypeOK
<1> QED BY <1>1, <1>2, RecordWritten DEF Begin

(* A row that has just been read is a good copy.                            *)
LEMMA FreshRow ==
  ASSUME IInv, NEW r \in Requests, NEW i \in Invoices, invoice' = invoice,
         req'[r].inv = i, req'[r].row = invoice[i], invoice[i].status # "Absent"
  PROVE  InvoiceCopy(r)'
<1>1. Columns(invoice, account, payments)
  BY InvTables, ColumnTypes DEF TablesInv
<1>2. invoice[i].version \in Nat /\ RowConsistent(invoice[i])
  BY <1>1 DEF Columns, IInv, RowsConsistent
<1>3. invoice[i].version <= invoice[i].version
  BY <1>2
<1> QED BY <1>2, <1>3 DEF InvoiceCopy, SameRow

(* An account that has just been read is a good copy.                       *)
LEMMA FreshAccount ==
  ASSUME IInv, NEW r \in Requests, NEW c \in Customers, account' = account,
         req'[r].cust = c, req'[r].acct = account[c]
  PROVE  AccountCopy(r)'
<1>1. Columns(invoice, account, payments)
  BY InvTables, ColumnTypes DEF TablesInv
<1>2. account[c].version <= account[c].version
  BY <1>1 DEF Columns
<1> QED BY <1>2 DEF AccountCopy

(* What a step of r does to the row locks: nothing that concerns r,         *)
LockKept(r) ==
    /\ lock' = lock
    /\ Holds(r)' <=> Holds(r)
    /\ Holds(r) => req'[r].inv = req[r].inv

(* or r takes the free lock of the invoice it works with.                   *)
LockTaken(r) ==
    /\ ~Holds(r) /\ Holds(r)'
    /\ req'[r].inv \in Invoices
    /\ lock[req'[r].inv] = NoRequest
    /\ lock' = [lock EXCEPT ![req'[r].inv] = r]

WorksOnRow(r) == At(r, {"Record"}, "locked") \/ At(r, {"Record", "Reverse"}, "ready")

(* A step with which a request reads, and maybe takes a row lock.           *)
Reads(r) ==
    /\ LinesWritten
    /\ Turns(r)
    /\ RequestInv(r)'
    /\ LockKept(r) \/ LockTaken(r)
    /\ WorksOnRow(r)' => req'[r].row = invoice[req'[r].inv]
    /\ begun' \in 0 .. MaxRequests

(* Nothing but a request's record and a lock changes.                       *)
LEMMA StillTables ==
  ASSUME TypeOK, UNCHANGED tables
  PROVE  LinesWritten
BY DEF TypeOK, tables, LinesWritten

(* A payment begins with the row lock and the current row.                  *)
LEMMA RecordLockReads ==
  ASSUME IInv, NEW r \in Requests, NEW i \in Invoices, NEW a \in Amounts, NEW n \in Numbers,
         RecordLock(r, i, a, n)
  PROVE  Reads(r)
<1> DEFINE x == PaymentRequest("Record", "locked", i, a, n, invoice[i], CustomerOf[i])
<1>1. TypeOK /\ Columns(invoice, account, payments)
  BY InvTables, ColumnTypes DEF TablesInv, IInv
<1>2. /\ x \in Request
      /\ x.op = "Record" /\ x.at = "locked" /\ x.inv = i /\ x.amount = a /\ x.number = n
      /\ x.row = invoice[i] /\ x.cust = CustomerOf[i]
  <2>1. invoice[i] \in InvoiceRow /\ CustomerOf[i] \in Customers /\ a \in Int
    BY <1>1, AmountsAssumption DEF Columns
  <2>2. "Record" \in Operations /\ "locked" \in {"idle", "loaded", "locked", "ready"}
    BY DEF Operations
  <2> QED BY <2>1, <2>2, PaymentRequestFields
<1>3. Begin(r, x)
  BY DEF RecordLock, PaymentRequest
<1> HIDE DEF x
<1>4. Turns(r) /\ req'[r] = x /\ req[r].at = "idle" /\ begun' \in 0 .. MaxRequests
  BY <1>1, <1>2, <1>3, BeginWrites
<1>5. LinesWritten /\ invoice' = invoice
  BY <1>1, StillTables DEF RecordLock, LinesWritten
<1>6. Payable(invoice[i], a) /\ a > 0 /\ lock[i] = NoRequest /\ lock' = [lock EXCEPT ![i] = r]
  BY DEF RecordLock
<1>7. InvoiceCopy(r)'
  BY <1>2, <1>4, <1>5, <1>6, FreshRow DEF Payable
<1>8. RequestInv(r)'
  BY <1>2, <1>4, <1>6, <1>7 DEF RequestInv, OnInvoice, HasAccount, At
<1>9. LockTaken(r)
  BY <1>2, <1>4, <1>6 DEF LockTaken, Holds, At
<1> QED BY <1>2, <1>4, <1>5, <1>8, <1>9 DEF Reads
(* An installment payment begins with a copy of the row and no lock.        *)
LEMMA InstallmentLoadReads ==
  ASSUME IInv, NEW r \in Requests, NEW i \in Invoices, NEW a \in Amounts, NEW n \in Numbers,
         InstallmentLoad(r, i, a, n)
  PROVE  Reads(r)
<1> DEFINE x == PaymentRequest("Installment", "loaded", i, a, n, invoice[i], CustomerOf[i])
<1>1. TypeOK /\ Columns(invoice, account, payments)
  BY InvTables, ColumnTypes DEF TablesInv, IInv
<1>2. /\ x \in Request
      /\ x.op = "Installment" /\ x.at = "loaded" /\ x.inv = i /\ x.amount = a /\ x.number = n
      /\ x.row = invoice[i] /\ x.cust = CustomerOf[i]
  <2>1. invoice[i] \in InvoiceRow /\ CustomerOf[i] \in Customers /\ a \in Int
    BY <1>1, AmountsAssumption DEF Columns
  <2>2. "Installment" \in Operations /\ "loaded" \in {"idle", "loaded", "locked", "ready"}
    BY DEF Operations
  <2> QED BY <2>1, <2>2, PaymentRequestFields
<1>3. Begin(r, x)
  BY DEF InstallmentLoad, PaymentRequest
<1> HIDE DEF x
<1>4. Turns(r) /\ req'[r] = x /\ req[r].at = "idle" /\ begun' \in 0 .. MaxRequests
  BY <1>1, <1>2, <1>3, BeginWrites
<1>5. LinesWritten /\ invoice' = invoice /\ lock' = lock
  BY <1>1, StillTables DEF InstallmentLoad, LinesWritten
<1>6. invoice[i].status \in {"Active", "Cancelled"} /\ a > 0
  BY DEF InstallmentLoad
<1>7. InvoiceCopy(r)'
  BY <1>2, <1>4, <1>5, <1>6, FreshRow
<1>8. RequestInv(r)'
  BY <1>2, <1>4, <1>6, <1>7 DEF RequestInv, OnInvoice, HasAccount, At
<1>9. LockKept(r) /\ ~WorksOnRow(r)'
  BY <1>2, <1>4, <1>5 DEF LockKept, Holds, WorksOnRow, At
<1> QED BY <1>4, <1>5, <1>8, <1>9 DEF Reads

(* A request on a draft begins with a copy of the row and of its lines.     *)
LEMMA LoadDraftReads ==
  ASSUME IInv, NEW r \in Requests, NEW i \in Invoices, NEW l \in Lines \cup {0},
         NEW op \in {"AddItem", "RemoveItem", "Activate"}, NEW place \in {"loaded", "ready"},
         op \in {"AddItem", "RemoveItem"} => l \in Lines /\ place = "ready",
         op = "Activate" => place = "loaded",
         minted' \in SUBSET Lines, LoadDraft(r, op, i, l, place)
  PROVE  Reads(r)
<1> DEFINE x == DraftRequest(op, place, i, l, invoice[i], items[i], CustomerOf[i])
<1>1. TypeOK /\ Columns(invoice, account, payments)
  BY InvTables, ColumnTypes DEF TablesInv, IInv
<1>2. /\ x \in Request
      /\ x.op = op /\ x.at = place /\ x.inv = i /\ x.line = l
      /\ x.row = invoice[i] /\ x.cust = CustomerOf[i]
  <2>1. invoice[i] \in InvoiceRow /\ CustomerOf[i] \in Customers /\ items[i] \in SUBSET Lines
    BY <1>1 DEF Columns, TypeOK
  <2>2. op \in Operations /\ place \in {"idle", "loaded", "locked", "ready"}
    BY DEF Operations
  <2> QED BY <2>1, <2>2, DraftRequestFields
<1>3. Begin(r, x)
  BY DEF LoadDraft, DraftRequest
<1> HIDE DEF x
<1>4. Turns(r) /\ req'[r] = x /\ req[r].at = "idle" /\ begun' \in 0 .. MaxRequests
  BY <1>1, <1>2, <1>3, BeginWrites
<1>5. LinesWritten /\ invoice' = invoice /\ lock' = lock
  BY <1>1 DEF LoadDraft, LinesWritten, TypeOK
<1>6. invoice[i].status = "Draft"
  BY DEF LoadDraft
<1>7. InvoiceCopy(r)'
  BY <1>2, <1>4, <1>5, <1>6, FreshRow
<1>8. RequestInv(r)'
  BY <1>2, <1>4, <1>6, <1>7 DEF RequestInv, OnInvoice, HasAccount, At
<1>9. LockKept(r) /\ ~WorksOnRow(r)'
  BY <1>2, <1>4, <1>5 DEF LockKept, Holds, WorksOnRow, At
<1> QED BY <1>4, <1>5, <1>8, <1>9 DEF Reads

(* The three requests that load a draft.                                    *)
LEMMA DraftLoadsRead ==
  ASSUME IInv, NEW r \in Requests, NEW i \in Invoices
  PROVE  /\ ActivateLoad(r, i) => Reads(r)
         /\ \A l \in Lines : AddItemLoad(r, i, l) \/ RemoveItemLoad(r, i, l) => Reads(r)
<1>1. minted \in SUBSET Lines
  BY DEF IInv, TypeOK
<1>2. ASSUME ActivateLoad(r, i) PROVE Reads(r)
  BY <1>1, <1>2, LoadDraftReads DEF ActivateLoad
<1>3. ASSUME NEW l \in Lines, AddItemLoad(r, i, l) PROVE Reads(r)
  BY <1>1, <1>3, LoadDraftReads DEF AddItemLoad
<1>4. ASSUME NEW l \in Lines, RemoveItemLoad(r, i, l) PROVE Reads(r)
  BY <1>1, <1>4, LoadDraftReads DEF RemoveItemLoad
<1> QED BY <1>2, <1>3, <1>4

(* A cancellation begins with the row and its payments.                     *)
LEMMA CancelLoadReads ==
  ASSUME IInv, NEW r \in Requests, NEW i \in Invoices, CancelLoad(r, i)
  PROVE  Reads(r)
<1> DEFINE at == IF invoice[i].status = "Active" THEN "loaded" ELSE "ready"
           x == CancelRequest(i, invoice[i], at, CustomerOf[i])
<1>1. TypeOK /\ Columns(invoice, account, payments)
  BY InvTables, ColumnTypes DEF TablesInv, IInv
<1>2. /\ x \in Request
      /\ x.op = "Cancel" /\ x.at = at /\ x.inv = i
      /\ x.row = invoice[i] /\ x.cust = CustomerOf[i]
  <2>1. invoice[i] \in InvoiceRow /\ CustomerOf[i] \in Customers
    BY <1>1 DEF Columns
  <2>2. at \in {"idle", "loaded", "locked", "ready"}
    OBVIOUS
  <2> QED BY <2>1, <2>2, CancelRequestFields
<1>3. Begin(r, x)
  BY DEF CancelLoad, CancelRequest
<1> HIDE DEF x
<1>4. Turns(r) /\ req'[r] = x /\ req[r].at = "idle" /\ begun' \in 0 .. MaxRequests
  BY <1>1, <1>2, <1>3, BeginWrites
<1>5. LinesWritten /\ invoice' = invoice /\ payments' = payments /\ lock' = lock
  BY <1>1, StillTables DEF CancelLoad, LinesWritten
<1>6. /\ invoice[i].status # "Absent"
      /\ \A k \in DOMAIN payments : payments[k].invoice = i => ~IsCompleted(k)
  BY DEF CancelLoad
<1>7. InvoiceCopy(r)'
  BY <1>2, <1>4, <1>5, <1>6, FreshRow
<1>8. ~HasAccount(r)'
  BY <1>2, <1>4 DEF HasAccount, At, WasActive
<1>9. RequestInv(r)'
  BY <1>2, <1>4, <1>5, <1>6, <1>7, <1>8 DEF RequestInv, OnInvoice, IsCompleted
<1>10. LockKept(r) /\ ~WorksOnRow(r)'
  BY <1>2, <1>4, <1>5 DEF LockKept, Holds, WorksOnRow, At
<1> QED BY <1>4, <1>5, <1>9, <1>10 DEF Reads

(* A reversal begins with the payment and the account of its snapshot.      *)
LEMMA ReverseReadReads ==
  ASSUME IInv, NEW r \in Requests, NEW k \in DOMAIN payments, ReverseRead(r, k)
  PROVE  Reads(r)
<1> DEFINE i == payments[k].invoice
           a == payments[k].amount
           c == CustomerOf[i]
           n == RevOf[payments[k].number]
           x == ReverseRequest(i, k, a, n, c, account[c])
<1>1. TypeOK /\ Columns(invoice, account, payments)
  BY InvTables, ColumnTypes DEF TablesInv, IInv
<1>2. /\ i \in Invoices /\ k \in Nat /\ a \in Int /\ c \in Customers
      /\ n \in Numbers \cup {TooLong} /\ account[c] \in AccountRow
  BY <1>1, NumbersAssumption DEF Columns
<1>3. Begin(r, x)
  BY DEF ReverseRead, ReverseRequest
<1>4. LinesWritten /\ account' = account /\ payments' = payments /\ lock' = lock
  BY <1>1, StillTables DEF ReverseRead, LinesWritten
<1>5. payments[k].status = "Completed"
  BY DEF ReverseRead, IsCompleted
<1> HIDE DEF i, a, c, n
<1>6. /\ x \in Request
      /\ x.op = "Reverse" /\ x.at = "loaded" /\ x.inv = i /\ x.pay = k
      /\ x.amount = a /\ x.cust = c /\ x.acct = account[c]
  BY <1>2, ReverseRequestFields
<1> HIDE DEF x
<1>7. Turns(r) /\ req'[r] = x /\ req[r].at = "idle" /\ begun' \in 0 .. MaxRequests
  BY <1>1, <1>3, <1>6, BeginWrites
<1>8. AccountCopy(r)'
  BY <1>2, <1>4, <1>6, <1>7, FreshAccount
<1>9. ~HasRow(r)'
  BY <1>6, <1>7 DEF HasRow, At
<1>10. /\ k \in DOMAIN payments' /\ payments'[k].invoice = i /\ payments'[k].amount = a
       /\ IsCompleted(k)' /\ c = CustomerOf[i]
  BY <1>4, <1>5 DEF IsCompleted, i, a, c
<1>11. RequestInv(r)'
  BY <1>2, <1>6, <1>7, <1>8, <1>9, <1>10 DEF RequestInv, OnInvoice
<1>12. LockKept(r) /\ ~WorksOnRow(r)'
  BY <1>4, <1>6, <1>7 DEF LockKept, Holds, WorksOnRow, At
<1> QED BY <1>4, <1>7, <1>11, <1>12 DEF Reads

(* A reconciliation begins with the account and the sums of one snapshot.   *)
LEMMA ReconcileReadReads ==
  ASSUME IInv, NEW r \in Requests, NEW c \in Customers, ReconcileRead(r, c)
  PROVE  Reads(r)
<1> DEFINE billed == BilledTo(c)
           paid == PaidBy(c)
           x == ReconcileRequest(c, account[c], billed, paid)
<1>1. TypeOK /\ Columns(invoice, account, payments)
  BY InvTables, ColumnTypes DEF TablesInv, IInv
<1>2. account[c] \in AccountRow /\ billed \in Int /\ paid \in Int
  <2>1. BilledTo(c) = RunningSum(Billed(invoice, c))[NumInvoices]
    BY BilledToIsBilled
  <2>2. Billed(invoice, c) \in [Nat -> Int]
    BY <1>1, BilledType DEF Columns
  <2>3. billed \in Int
    BY <2>1, <2>2, RunningSumDef, NumInvoicesAssumption
  <2> QED BY <1>1, <2>3, PaidIsPaid DEF Columns
<1>3. Begin(r, x)
  BY DEF ReconcileRead, ReconcileRequest
<1>4. LinesWritten /\ account' = account /\ lock' = lock
  BY <1>1, StillTables DEF ReconcileRead, LinesWritten
<1>5. billed = BilledTo(c)' /\ paid = PaidBy(c)'
  BY <1>4, BilledSame, PaidSame DEF LinesWritten
<1> HIDE DEF billed, paid
<1>6. /\ x \in Request
      /\ x.op = "Reconcile" /\ x.at = "ready" /\ x.cust = c /\ x.acct = account[c]
      /\ x.billed = billed /\ x.paid = paid
  BY <1>2, ReconcileRequestFields
<1> HIDE DEF x
<1>7. Turns(r) /\ req'[r] = x /\ req[r].at = "idle" /\ begun' \in 0 .. MaxRequests
  BY <1>1, <1>3, <1>6, BeginWrites
<1>8. AccountCopy(r)'
  BY <1>4, <1>6, <1>7, FreshAccount
<1>9. RequestInv(r)'
  BY <1>5, <1>6, <1>7, <1>8 DEF RequestInv, OnInvoice, HasRow
<1>10. LockKept(r) /\ ~WorksOnRow(r)'
  BY <1>4, <1>6, <1>7 DEF LockKept, Holds, WorksOnRow, At
<1> QED BY <1>4, <1>7, <1>9, <1>10 DEF Reads
(* The later reads replace the columns they name.                           *)
AccountReadBy(old, acct) == [old EXCEPT !.acct = acct, !.at = "ready"]
LockedBy(old) == [old EXCEPT !.at = "locked"]
RowReadBy(old, row) == [old EXCEPT !.at = "ready", !.row = row]

(* and keep the others.                                                     *)
LEMMA LaterReads ==
  ASSUME NEW old \in Request
  PROVE  /\ \A acct \in AccountRow :
              LET x == AccountReadBy(old, acct)
              IN  /\ x \in Request /\ x.acct = acct /\ x.at = "ready"
                  /\ x.op = old.op /\ x.inv = old.inv /\ x.pay = old.pay /\ x.line = old.line
                  /\ x.amount = old.amount /\ x.number = old.number /\ x.row = old.row
                  /\ x.cust = old.cust
         /\ LET x == LockedBy(old)
            IN  /\ x \in Request /\ x.at = "locked"
                /\ x.op = old.op /\ x.inv = old.inv /\ x.amount = old.amount
                /\ x.number = old.number /\ x.row = old.row /\ x.cust = old.cust
         /\ \A row \in InvoiceRow :
              LET x == RowReadBy(old, row)
              IN  /\ x \in Request /\ x.row = row /\ x.at = "ready"
                  /\ x.op = old.op /\ x.inv = old.inv /\ x.pay = old.pay
                  /\ x.amount = old.amount /\ x.cust = old.cust /\ x.acct = old.acct
<1>1. ASSUME NEW acct \in AccountRow
      PROVE  LET x == AccountReadBy(old, acct)
             IN  /\ x \in Request /\ x.acct = acct /\ x.at = "ready"
                 /\ x.op = old.op /\ x.inv = old.inv /\ x.pay = old.pay /\ x.line = old.line
                 /\ x.amount = old.amount /\ x.number = old.number /\ x.row = old.row
                 /\ x.cust = old.cust
  BY DEF AccountReadBy, Request
<1>2. LET x == LockedBy(old)
      IN  /\ x \in Request /\ x.at = "locked"
          /\ x.op = old.op /\ x.inv = old.inv /\ x.amount = old.amount
          /\ x.number = old.number /\ x.row = old.row /\ x.cust = old.cust
  BY DEF LockedBy, Request
<1>3. ASSUME NEW row \in InvoiceRow
      PROVE  LET x == RowReadBy(old, row)
             IN  /\ x \in Request /\ x.row = row /\ x.at = "ready"
                 /\ x.op = old.op /\ x.inv = old.inv /\ x.pay = old.pay
                 /\ x.amount = old.amount /\ x.cust = old.cust /\ x.acct = old.acct
  BY DEF RowReadBy, Request
<1> QED BY <1>1, <1>2, <1>3

(* A copy of the row is as good in the record that replaces the old one.    *)
LEMMA SameCopy ==
  ASSUME NEW r \in Requests, InvoiceCopy(r), invoice' = invoice,
         req'[r].inv = req[r].inv, req'[r].row = req[r].row
  PROVE  InvoiceCopy(r)'
BY DEF InvoiceCopy

(* A request reads the account.                                             *)
LEMMA ReadAccountReads ==
  ASSUME IInv, NEW r \in Requests, ReadAccount(r)
  PROVE  Reads(r)
<1> DEFINE x == AccountReadBy(req[r], account[req[r].cust])
<1>1. TypeOK /\ Columns(invoice, account, payments) /\ RequestInv(r)
  BY InvTables, ColumnTypes DEF TablesInv, IInv, RequestsInv
<1>2. /\ req[r].op \in {"Record", "Installment", "Activate", "Cancel"}
      /\ req[r].at = IF req[r].op \in {"Record", "Installment"} THEN "locked" ELSE "loaded"
  BY DEF ReadAccount, At
<1>3. /\ req[r].inv \in Invoices /\ req[r].cust = CustomerOf[req[r].inv]
      /\ req[r].cust \in Customers /\ InvoiceCopy(r)
  BY <1>1, <1>2, Copies DEF OnInvoice
<1>4. req' = [req EXCEPT ![r] = x]
  BY DEF ReadAccount, AccountReadBy
<1>5. /\ x \in Request /\ x.acct = account[req[r].cust] /\ x.at = "ready"
      /\ x.op = req[r].op /\ x.inv = req[r].inv /\ x.pay = req[r].pay /\ x.line = req[r].line
      /\ x.amount = req[r].amount /\ x.number = req[r].number /\ x.row = req[r].row
      /\ x.cust = req[r].cust
  <2>1. req[r] \in Request /\ account[req[r].cust] \in AccountRow
    BY <1>1, <1>3, RequestColumns DEF Columns
  <2> QED BY <2>1, LaterReads
<1> HIDE DEF x
<1>6. Turns(r) /\ req'[r] = x
  BY <1>1, <1>4, <1>5, RecordWritten
<1>7. /\ LinesWritten /\ invoice' = invoice /\ account' = account /\ payments' = payments
      /\ lock' = lock /\ begun' = begun
  BY <1>1, StillTables DEF ReadAccount, LinesWritten
<1>8. InvoiceCopy(r)'
  BY <1>3, <1>5, <1>6, <1>7, SameCopy
<1>9. AccountCopy(r)'
  BY <1>3, <1>5, <1>6, <1>7, FreshAccount
<1>10. RequestInv(r)'
  <2>1. CASE req[r].op \in {"Record", "Installment"}
    BY <1>1, <1>2, <1>3, <1>5, <1>6, <1>8, <1>9, <2>1 DEF RequestInv, OnInvoice
  <2>2. CASE req[r].op = "Activate"
    BY <1>1, <1>2, <1>3, <1>5, <1>6, <1>8, <1>9, <2>2 DEF RequestInv, OnInvoice
  <2>3. CASE req[r].op = "Cancel"
    BY <1>1, <1>2, <1>3, <1>5, <1>6, <1>7, <1>8, <1>9, <2>3
       DEF RequestInv, OnInvoice, InvoiceUnchanged, IsCompleted
  <2> QED BY <1>2, <2>1, <2>2, <2>3
<1>11. LockKept(r)
  BY <1>2, <1>5, <1>6, <1>7 DEF LockKept, Holds, At
<1>12. WorksOnRow(r)' => req'[r].row = invoice[req'[r].inv]
  <2>1. WorksOnRow(r)' => At(r, {"Record"}, "locked")
    BY <1>2, <1>5, <1>6 DEF WorksOnRow, At
  <2> QED BY <1>5, <1>6, <2>1 DEF IInv, LockedRowIsCurrent
<1> QED BY <1>1, <1>6, <1>7, <1>10, <1>11, <1>12 DEF Reads, TypeOK

(* An installment payment takes the lock and validates its copy.            *)
LEMMA InstallmentLockReads ==
  ASSUME IInv, NEW r \in Requests, InstallmentLock(r)
  PROVE  Reads(r)
<1> DEFINE x == LockedBy(req[r])
<1>1. TypeOK /\ RequestInv(r)
  BY DEF IInv, RequestsInv
<1>2. req[r].op = "Installment" /\ req[r].at = "loaded"
  BY DEF InstallmentLock, At
<1>3. /\ req[r].inv \in Invoices /\ req[r].cust = CustomerOf[req[r].inv]
      /\ InvoiceCopy(r)
  BY <1>1, <1>2, Copies DEF OnInvoice
<1>4. req' = [req EXCEPT ![r] = x]
  BY DEF InstallmentLock, LockedBy
<1>5. /\ x \in Request /\ x.at = "locked"
      /\ x.op = req[r].op /\ x.inv = req[r].inv /\ x.amount = req[r].amount
      /\ x.number = req[r].number /\ x.row = req[r].row /\ x.cust = req[r].cust
  BY <1>1, RequestColumns, LaterReads
<1> HIDE DEF x
<1>6. Turns(r) /\ req'[r] = x
  BY <1>1, <1>4, <1>5, RecordWritten
<1>7. /\ LinesWritten /\ invoice' = invoice /\ begun' = begun
      /\ Payable(req[r].row, req[r].amount)
      /\ lock[req[r].inv] = NoRequest /\ lock' = [lock EXCEPT ![req[r].inv] = r]
  BY <1>1, StillTables DEF InstallmentLock, LinesWritten
<1>8. InvoiceCopy(r)'
  BY <1>3, <1>5, <1>6, <1>7, SameCopy
<1>9. RequestInv(r)'
  BY <1>1, <1>2, <1>3, <1>5, <1>6, <1>7, <1>8 DEF RequestInv, OnInvoice, HasAccount, At
<1>10. LockTaken(r) /\ ~WorksOnRow(r)'
  BY <1>2, <1>3, <1>5, <1>6, <1>7 DEF LockTaken, Holds, WorksOnRow, At
<1> QED BY <1>1, <1>6, <1>7, <1>9, <1>10 DEF Reads, TypeOK

(* A reversal takes the lock and reads the current row.                     *)
LEMMA ReverseLockReads ==
  ASSUME IInv, NEW r \in Requests, ReverseLock(r)
  PROVE  Reads(r)
<1> DEFINE i == req[r].inv
           k == req[r].pay
           x == RowReadBy(req[r], invoice[i])
<1>1. TypeOK /\ Columns(invoice, account, payments) /\ RequestInv(r)
  BY InvTables, ColumnTypes DEF TablesInv, IInv, RequestsInv
<1>2. req[r].op = "Reverse" /\ req[r].at = "loaded"
  BY DEF ReverseLock, At
<1>3. /\ i \in Invoices /\ req[r].cust = CustomerOf[i] /\ AccountCopy(r)
      /\ k \in DOMAIN payments /\ payments[k].invoice = i /\ payments[k].amount = req[r].amount
      /\ req[r].acct.version = account[req[r].cust].version => IsCompleted(k)
  BY <1>1, <1>2, Copies DEF OnInvoice, RequestInv
<1>4. req' = [req EXCEPT ![r] = x]
  BY DEF ReverseLock, RowReadBy
<1>5. /\ x \in Request /\ x.row = invoice[i] /\ x.at = "ready"
      /\ x.op = req[r].op /\ x.inv = i /\ x.pay = k
      /\ x.amount = req[r].amount /\ x.cust = req[r].cust /\ x.acct = req[r].acct
  <2>1. req[r] \in Request /\ invoice[i] \in InvoiceRow
    BY <1>1, <1>3, RequestColumns DEF Columns
  <2> QED BY <2>1, LaterReads
<1> HIDE DEF x
<1>6. Turns(r) /\ req'[r] = x
  BY <1>1, <1>4, <1>5, RecordWritten
<1>7. /\ LinesWritten /\ invoice' = invoice /\ account' = account /\ payments' = payments
      /\ begun' = begun
      /\ lock[i] = NoRequest /\ lock' = [lock EXCEPT ![i] = r]
  BY <1>1, StillTables DEF ReverseLock, LinesWritten
<1>8. invoice[i].status # "Absent"
  BY <1>3 DEF IInv, PaymentsConsistent
<1>9. InvoiceCopy(r)'
  BY <1>3, <1>5, <1>6, <1>7, <1>8, FreshRow
<1>10. AccountCopy(r)'
  BY <1>3, <1>5, <1>6, <1>7 DEF AccountCopy
<1>11. RequestInv(r)'
  BY <1>2, <1>3, <1>5, <1>6, <1>7, <1>9, <1>10 DEF RequestInv, OnInvoice, IsCompleted
<1>12. LockTaken(r)
  BY <1>2, <1>3, <1>5, <1>6, <1>7 DEF LockTaken, Holds, At
<1> QED BY <1>1, <1>5, <1>6, <1>7, <1>11, <1>12 DEF Reads, TypeOK
-----------------------------------------------------------------------------
(* 4. Locks, and the invariant *)

(* The parts of the invariant after a step.                                 *)
LEMMA InvParts ==
  ASSUME TablesInv', req' \in [Requests -> Request], begun' \in 0 .. MaxRequests,
         lock' \in [Invoices -> Requests \cup {NoRequest}],
         RequestsInv', LockInv', LockedRowIsCurrent'
  PROVE  IInv'
BY DEF IInv, TypeOK, TablesInv, TablesType

(* What the requests rely on, after a step of one of them.                  *)
LEMMA StepKeepsRequests ==
  ASSUME IInv, TablesInv', TablesMove, NEW r \in Requests, Turns(r), RequestInv(r)'
  PROVE  RequestsInv'
<1>1. \A q \in Requests : q # r => RequestInv(q)'
  BY RequestSurvives DEF Turns, TablesInv
<1> QED BY <1>1 DEF RequestsInv

(* Who holds which lock stays true when r takes a lock or none.             *)
LEMMA ReadsKeepLocks ==
  ASSUME IInv, NEW r \in Requests, Turns(r), LockKept(r) \/ LockTaken(r)
  PROVE  /\ lock' \in [Invoices -> Requests \cup {NoRequest}]
         /\ LockInv'
<1>1. lock \in [Invoices -> Requests \cup {NoRequest}] /\ LockInv
  BY DEF IInv, TypeOK
<1>2. ASSUME NEW q \in Requests, q # r
      PROVE  (Holds(q)' <=> Holds(q)) /\ req'[q] = req[q]
  BY <1>2 DEF Turns, Holds, At
<1>3. CASE LockKept(r)
  <2>1. lock' = lock
    BY <1>3 DEF LockKept
  <2>2. ASSUME NEW i \in Invoices, NEW q \in Requests
        PROVE  lock[i] = q <=> Holds(q)' /\ req'[q].inv = i
    <3>1. lock[i] = q <=> Holds(q) /\ req[q].inv = i
      BY <1>1 DEF LockInv
    <3>2. CASE q = r
      BY <1>3, <3>1, <3>2 DEF LockKept
    <3>3. CASE q # r
      BY <1>2, <3>1, <3>3
    <3> QED BY <3>2, <3>3
  <2> QED BY <1>1, <2>1, <2>2 DEF LockInv
<1>4. CASE LockTaken(r)
  <2> DEFINE j == req'[r].inv
  <2>1. /\ j \in Invoices /\ lock[j] = NoRequest /\ lock' = [lock EXCEPT ![j] = r]
        /\ ~Holds(r) /\ Holds(r)'
    BY <1>4 DEF LockTaken
  <2>2. lock'[j] = r /\ \A i \in Invoices : i # j => lock'[i] = lock[i]
    BY <1>1, <2>1
  <2>3. ASSUME NEW i \in Invoices, NEW q \in Requests
        PROVE  lock'[i] = q <=> Holds(q)' /\ req'[q].inv = i
    <3>1. lock[i] = q <=> Holds(q) /\ req[q].inv = i
      BY <1>1 DEF LockInv
    <3>2. CASE q = r
      BY <2>1, <2>2, <3>1, <3>2
    <3>3. CASE q # r
      <4>1. Holds(q)' /\ req'[q].inv = i <=> lock[i] = q
        BY <1>2, <3>1, <3>3
      <4>2. CASE i = j
        BY <2>1, <2>2, <3>3, <4>1, <4>2, NoRequestAssumption
      <4>3. CASE i # j
        BY <2>2, <4>1, <4>3
      <4> QED BY <4>2, <4>3
    <3> QED BY <3>2, <3>3
  <2>4. lock' \in [Invoices -> Requests \cup {NoRequest}]
    BY <1>1, <2>1
  <2> QED BY <2>3, <2>4 DEF LockInv
<1> QED BY <1>3, <1>4

(* A step with which a request reads keeps the invariant.                   *)
LEMMA ReadsKeepInv ==
  ASSUME IInv, NEW r \in Requests, Reads(r)
  PROVE  IInv'
<1>1. TablesInv' /\ TablesMove
  BY InvTables, LinesKeepTables DEF Reads
<1>2. Turns(r) /\ RequestInv(r)' /\ invoice' = invoice /\ (LockKept(r) \/ LockTaken(r))
  BY DEF Reads, LinesWritten
<1>3. RequestsInv'
  BY <1>1, <1>2, StepKeepsRequests
<1>4. lock' \in [Invoices -> Requests \cup {NoRequest}] /\ LockInv'
  BY <1>2, ReadsKeepLocks
<1>5. LockedRowIsCurrent'
  <2>1. ASSUME NEW q \in Requests, WorksOnRow(q)'
        PROVE  req'[q].row = invoice'[req'[q].inv]
    <3>1. CASE q = r
      BY <1>2, <2>1, <3>1 DEF Reads
    <3>2. CASE q # r
      BY <1>2, <2>1, <3>2 DEF Turns, WorksOnRow, At, IInv, LockedRowIsCurrent
    <3> QED BY <3>1, <3>2
  <2> QED BY <2>1 DEF LockedRowIsCurrent, WorksOnRow
<1>6. req' \in [Requests -> Request] /\ begun' \in 0 .. MaxRequests
  BY DEF Reads, Turns
<1> QED BY <1>1, <1>3, <1>4, <1>5, <1>6, InvParts

(* A request that ends is idle and holds no lock.                           *)
LEMMA EndWrites ==
  ASSUME TypeOK, LockInv, NEW r \in Requests, End(r)
  PROVE  /\ Turns(r) /\ RequestInv(r)'
         /\ ~Holds(r)'
         /\ begun' \in 0 .. MaxRequests
         /\ lock' \in [Invoices -> Requests \cup {NoRequest}]
         /\ LockInv'
<1>1. Turns(r) /\ req'[r] = Idle
  BY IdleIsRequest, RecordWritten DEF End
<1>2. Idle.op = "None" /\ Idle.at = "idle"
  BY DEF Idle
<1>3. RequestInv(r)' /\ ~Holds(r)'
  BY <1>1, <1>2 DEF RequestInv, HasRow, HasAccount, Holds, At, OnInvoice
<1>4. lock' = [i \in Invoices |-> IF lock[i] = r THEN NoRequest ELSE lock[i]]
  BY DEF End, Release
<1>5. lock \in [Invoices -> Requests \cup {NoRequest}] /\ begun' \in 0 .. MaxRequests
  BY DEF TypeOK, End
<1>6. ASSUME NEW i \in Invoices, NEW q \in Requests
      PROVE  lock'[i] = q <=> Holds(q)' /\ req'[q].inv = i
  <2>1. lock[i] = q <=> Holds(q) /\ req[q].inv = i
    BY DEF LockInv
  <2>2. CASE q = r
    BY <1>3, <1>4, <2>2, NoRequestAssumption
  <2>3. CASE q # r
    <3>1. (Holds(q)' <=> Holds(q)) /\ req'[q] = req[q]
      BY <1>1, <2>3 DEF Turns, Holds, At
    <3> QED BY <1>4, <2>1, <2>3, <3>1, NoRequestAssumption
  <2> QED BY <2>2, <2>3
<1> QED BY <1>1, <1>3, <1>4, <1>5, <1>6 DEF LockInv

(* A request that ends keeps the invariant, if it wrote only rows that      *)
(* nobody else holds.                                                       *)
LEMMA EndKeepsInv ==
  ASSUME IInv, NEW r \in Requests, End(r), TablesInv', TablesMove,
         \A i \in Invoices : invoice'[i] # invoice[i] => RowFree(r, i)
  PROVE  IInv'
<1>1. TypeOK /\ LockInv /\ LockedRowIsCurrent /\ RequestsInv
  BY DEF IInv
<1>2. /\ Turns(r) /\ RequestInv(r)' /\ ~Holds(r)'
      /\ begun' \in 0 .. MaxRequests
      /\ lock' \in [Invoices -> Requests \cup {NoRequest}] /\ LockInv'
  BY <1>1, EndWrites
<1>3. RequestsInv'
  BY <1>2, StepKeepsRequests
<1>4. LockedRowIsCurrent'
  <2>1. ASSUME NEW q \in Requests, WorksOnRow(q)'
        PROVE  req'[q].row = invoice'[req'[q].inv]
    <3>1. q # r
      BY <1>2, <2>1 DEF WorksOnRow, Holds, At
    <3>2. req'[q] = req[q] /\ WorksOnRow(q) /\ Holds(q)
      BY <1>2, <2>1, <3>1 DEF Turns, WorksOnRow, Holds, At
    <3>3. req[q].row = invoice[req[q].inv]
      BY <1>1, <3>2 DEF LockedRowIsCurrent, WorksOnRow
    <3>4. req[q].inv \in Invoices
      BY <1>1, <3>2 DEF RequestsInv, RequestInv, WorksOnRow, At, OnInvoice
    <3>5. lock[req[q].inv] = q
      BY <1>1, <3>2, <3>4 DEF LockInv
    <3>6. ~RowFree(r, req[q].inv)
      BY <3>1, <3>5, NoRequestAssumption DEF RowFree
    <3> QED BY <3>2, <3>3, <3>4, <3>6
  <2> QED BY <2>1 DEF LockedRowIsCurrent, WorksOnRow
<1> QED BY <1>2, <1>3, <1>4, InvParts DEF Turns

(* A commit writes one invoice row at most, and that row is not locked by   *)
(* somebody else.                                                           *)
LEMMA SaveWritesFreeRow ==
  ASSUME IInv, NEW r \in Requests, Save(r)
  PROVE  End(r) /\ \A i \in Invoices : invoice'[i] # invoice[i] => RowFree(r, i)
<1>1. invoice \in [Invoices -> InvoiceRow]
  BY DEF IInv, TypeOK
<1>2. CASE EditSave(r)
  <2>1. CASE TotalChanges(r)
    BY <1>1, <1>2, <2>1 DEF EditSave
  <2>2. CASE ~TotalChanges(r)
    BY <1>2, <2>2 DEF EditSave
  <2> QED BY <2>1, <2>2
<1>3. CASE ActivateSave(r)
  BY <1>1, <1>3 DEF ActivateSave
<1>4. CASE CancelSave(r)
  BY <1>1, <1>4 DEF CancelSave
<1>5. CASE RecordSave(r) \/ ReverseSave(r)
  <2>1. Holds(r)
    BY <1>5 DEF RecordSave, ReverseSave, Holds, At
  <2>2. req[r].inv \in Invoices
    BY <1>5 DEF RecordSave, ReverseSave, At, IInv, RequestsInv, RequestInv, OnInvoice
  <2>3. RowFree(r, req[r].inv)
    BY <2>1, <2>2 DEF IInv, LockInv, RowFree
  <2>4. \A i \in Invoices : i # req[r].inv => invoice'[i] = invoice[i]
    BY <1>1, <1>5 DEF RecordSave, ReverseSave, PostedInvoice
  <2>5. End(r)
    BY <1>5 DEF RecordSave, ReverseSave
  <2> QED BY <2>3, <2>4, <2>5
<1>6. CASE ReconcileSave(r)
  BY <1>6 DEF ReconcileSave
<1> QED BY <1>2, <1>3, <1>4, <1>5, <1>6 DEF Save

(* A new draft keeps the invariant: nobody works with a row that is not     *)
(* there yet.                                                               *)
LEMMA CreateKeepsInv ==
  ASSUME IInv, NEW i \in Invoices, NEW S \in SUBSET Lines, CreateDraft(i, S)
  PROVE  IInv'
<1>1. TablesInv' /\ TablesMove
  BY InvTables, CreateCommits, DraftKeepsTables
<1>2. /\ invoice[i].status = "Absent" /\ UNCHANGED <<lock, req, begun>>
      /\ \A j \in Invoices : j # i => invoice'[j] = invoice[j]
  BY DEF CreateDraft, IInv, TypeOK
<1>3. RequestsInv'
  <2>1. \A q \in Requests : RequestInv(q)'
    BY <1>1, <1>2, RequestSurvives DEF TablesInv
  <2> QED BY <2>1 DEF RequestsInv
<1>4. LockInv'
  BY <1>2 DEF IInv, LockInv, Holds, At
<1>5. LockedRowIsCurrent'
  <2>1. ASSUME NEW q \in Requests, WorksOnRow(q)
        PROVE  req[q].row = invoice'[req[q].inv]
    <3>1. req[q].row = invoice[req[q].inv]
      BY <2>1 DEF IInv, LockedRowIsCurrent, WorksOnRow
    <3>2. req[q].inv \in Invoices /\ req[q].row.status # "Absent"
      BY <2>1 DEF IInv, RequestsInv, RequestInv, InvoiceCopy, HasRow, WorksOnRow, At, OnInvoice
    <3> QED BY <1>2, <3>1, <3>2
  <2> QED BY <1>2, <2>1 DEF LockedRowIsCurrent, WorksOnRow, At
<1> QED BY <1>1, <1>2, <1>3, <1>4, <1>5, InvParts DEF IInv, TypeOK
-----------------------------------------------------------------------------
(* 5. The theorems *)

(* The empty ledger satisfies the invariant.                                *)
LEMMA InitInv == Init => IInv
<1> SUFFICES ASSUME Init PROVE IInv
  OBVIOUS
<1>1. /\ NoInvoiceRow \in InvoiceRow /\ NewAccountRow \in AccountRow
      /\ RowConsistent(NoInvoiceRow)
  BY DEF NoInvoiceRow, NewAccountRow, InvoiceRow, AccountRow, InvoiceStatus,
         SettlementStatus, RowConsistent
<1>2. payments = <<>> /\ payments \in Seq(PaymentRow) /\ DOMAIN payments = {} /\ Len(payments) = 0
  BY DEF Init
<1>3. TypeOK
  BY <1>1, <1>2, IdleIsRequest, MaxRequestsAssumption DEF Init, TypeOK
<1>4. RowsConsistent
  BY <1>1 DEF Init, RowsConsistent
<1>5. PaymentsConsistent /\ CancelledHoldsNoPayment /\ ReversedAtMostOnce
  BY <1>2 DEF PaymentsConsistent, CancelledHoldsNoPayment, ReversedAtMostOnce
<1>6. \A I : Paid(payments, I) = 0
  BY <1>2, PaidNothing
<1>7. InvoicePaidIsExact
  <2>1. \A i \in Invoices : invoice[i].paid = 0
    BY DEF Init, NoInvoiceRow
  <2> QED BY <1>2, <1>6, <2>1, PaidIsPaid DEF InvoicePaidIsExact
<1>8. AccountPaidIsExact
  <2>1. \A c \in Customers : account[c].paid = 0 /\ account[c].balance = 0 /\ account[c].billed = 0
    BY DEF Init, NewAccountRow
  <2> QED BY <1>2, <1>6, <2>1, PaidIsPaid DEF AccountPaidIsExact
<1>9. \A r \in Requests : req[r].op = "None" /\ req[r].at = "idle"
  BY DEF Init, Idle
<1>10. RequestsInv
  BY <1>9 DEF RequestsInv, RequestInv, HasRow, HasAccount, At, OnInvoice
<1>11. LockInv /\ LockedRowIsCurrent
  BY <1>9, NoRequestAssumption DEF Init, LockInv, LockedRowIsCurrent, Holds, At
<1> QED BY <1>3, <1>4, <1>5, <1>7, <1>8, <1>10, <1>11 DEF IInv

(* Every step keeps it.                                                     *)
LEMMA StepInv == IInv /\ [Next]_vars => IInv'
<1> SUFFICES ASSUME IInv, [Next]_vars PROVE IInv'
  OBVIOUS
<1>1. CASE \E i \in Invoices, S \in SUBSET Lines : CreateDraft(i, S)
  BY <1>1, CreateKeepsInv
<1>2. CASE \E r \in Requests : BeginRequest(r)
  <2>1. PICK r \in Requests : BeginRequest(r)
    BY <1>2
  <2>2. Reads(r)
    BY <2>1, RecordLockReads, InstallmentLoadReads, DraftLoadsRead, CancelLoadReads,
       ReverseReadReads, ReconcileReadReads DEF BeginRequest
  <2> QED BY <2>2, ReadsKeepInv
<1>3. CASE \E r \in Requests : Progress(r)
  <2>1. PICK r \in Requests : Progress(r)
    BY <1>3
  <2>2. CASE ReadAccount(r) \/ InstallmentLock(r) \/ ReverseLock(r)
    BY <2>2, ReadAccountReads, InstallmentLockReads, ReverseLockReads, ReadsKeepInv
  <2>3. CASE Save(r)
    BY <2>3, SaveKeepsTables, SaveWritesFreeRow, EndKeepsInv
  <2>4. CASE InstallmentRefuse(r) \/ Fail(r)
    <3>1. End(r) /\ UNCHANGED tables
      BY <2>4 DEF InstallmentRefuse, Fail
    <3>2. TablesInv' /\ TablesMove /\ invoice' = invoice
      BY <3>1, InvTables, StillTables, LinesKeepTables DEF IInv, LinesWritten
    <3> QED BY <3>1, <3>2, EndKeepsInv
  <2> QED BY <2>1, <2>2, <2>3, <2>4 DEF Progress
<1>4. CASE \E r \in Requests : Abort(r)
  <2>1. PICK r \in Requests : Abort(r)
    BY <1>4
  <2>2. End(r) /\ UNCHANGED tables
    BY <2>1 DEF Abort
  <2>3. TablesInv' /\ TablesMove /\ invoice' = invoice
    BY <2>2, InvTables, StillTables, LinesKeepTables DEF IInv, LinesWritten
  <2> QED BY <2>2, <2>3, EndKeepsInv
<1>5. CASE UNCHANGED vars
  <2>1. /\ UNCHANGED <<invoice, items, minted, account, payments, lock, req, begun>>
    BY <1>5 DEF vars
  <2>2. LinesWritten
    BY <2>1 DEF IInv, TypeOK, LinesWritten
  <2>3. TablesInv' /\ TablesMove
    BY <2>2, InvTables, LinesKeepTables
  <2>4. RequestsInv'
    <3>1. \A q \in Requests : RequestInv(q)'
      BY <2>1, <2>3, RequestSurvives DEF TablesInv
    <3> QED BY <3>1 DEF RequestsInv
  <2>5. LockInv' /\ LockedRowIsCurrent'
    BY <2>1 DEF IInv, LockInv, LockedRowIsCurrent, Holds, At
  <2> QED BY <2>1, <2>3, <2>4, <2>5, InvParts DEF IInv, TypeOK
<1> QED BY <1>1, <1>2, <1>3, <1>4, <1>5 DEF Next, AllServed

(* The inductive invariant holds in every state of every behaviour.         *)
THEOREM Invariance == Spec => []IInv
<1>1. Init => IInv
  BY InitInv
<1>2. IInv /\ [Next]_vars => IInv'
  BY StepInv
<1> QED BY <1>1, <1>2, PTL DEF Spec

(* Tables, locks and requests stay well typed.                              *)
THEOREM TypeCorrect == Spec => []TypeOK
<1>1. IInv => TypeOK
  BY DEF IInv
<1> QED BY <1>1, Invariance, PTL

(* No issued invoice is ever overpaid or paid below zero.                   *)
THEOREM NeverOverpaid == Spec => []NoOverpayment
<1>1. IInv => NoOverpayment
  BY DEF IInv, RowsConsistent, RowConsistent, NoOverpayment
<1> QED BY <1>1, Invariance, PTL

(* No payment is lost from or counted twice in an invoice.                  *)
THEOREM InvoicePaidExact == Spec => []InvoicePaidIsExact
<1>1. IInv => InvoicePaidIsExact
  BY DEF IInv
<1> QED BY <1>1, Invariance, PTL

(* No payment is lost from or counted twice in a customer's account.        *)
THEOREM AccountPaidExact == Spec => []AccountPaidIsExact
<1>1. IInv => AccountPaidIsExact
  BY DEF IInv
<1> QED BY <1>1, Invariance, PTL

(* A payment is reversed at most once.                                      *)
THEOREM ReversedOnce == Spec => []ReversedAtMostOnce
<1>1. IInv => ReversedAtMostOnce
  BY DEF IInv
<1> QED BY <1>1, Invariance, PTL

(* No payment remains on an invoice that is cancelled.                      *)
THEOREM CancelledUnpaid == Spec => []CancelledHoldsNoPayment
<1>1. IInv => CancelledHoldsNoPayment
  BY DEF IInv
<1> QED BY <1>1, Invariance, PTL

(* A payment or reversal that holds the row lock works on the current row.  *)
THEOREM LockedCurrent == Spec => []LockedRowIsCurrent
<1>1. IInv => LockedRowIsCurrent
  BY DEF IInv
<1> QED BY <1>1, Invariance, PTL

-----------------------------------------------------------------------------
(***************************************************************************)
(* PART D. THE BOOK                                                        *)
(*                                                                         *)
(* Every step leaves the money alone or is one of the effects of part B    *)
(* (StepIsEffect). Each effect is one step of SettlementBook, or none      *)
(* (section 1); issued rows keep their totals, and the drift of an account *)
(* changes only where DriftOnlyByStaleActivation says (section 2).         *)
(***************************************************************************)

-----------------------------------------------------------------------------
(* 1. Every effect is a step of the book *)

(* The books are read off the rows of the tables, before and after a step.  *)
LEMMA BookColumns ==
  /\ \A i \in Invoices :
       /\ Stage[i] = IF invoice[i].status \in {"Absent", "Draft"} THEN "Unissued"
                     ELSE IF invoice[i].status = "Active" THEN "Open" ELSE "Void"
       /\ Due[i] = IF invoice[i].status = "Active" THEN invoice[i].total ELSE 0
       /\ Settled[i] = invoice[i].paid
  /\ \A i \in Invoices :
       /\ Stage'[i] = IF invoice'[i].status \in {"Absent", "Draft"} THEN "Unissued"
                      ELSE IF invoice'[i].status = "Active" THEN "Open" ELSE "Void"
       /\ Due'[i] = IF invoice'[i].status = "Active" THEN invoice'[i].total ELSE 0
       /\ Settled'[i] = invoice'[i].paid
  /\ \A c \in Customers : Collected[c] = account[c].paid /\ Collected'[c] = account'[c].paid
BY DEF Stage, Due, Settled, Collected

(* The books are functions on the invoices and on the customers.            *)
LEMMA BookFunctions ==
  /\ Stage = [i \in Invoices |-> Stage[i]] /\ Stage' = [i \in Invoices |-> Stage'[i]]
  /\ Due = [i \in Invoices |-> Due[i]] /\ Due' = [i \in Invoices |-> Due'[i]]
  /\ Settled = [i \in Invoices |-> Settled[i]] /\ Settled' = [i \in Invoices |-> Settled'[i]]
  /\ Collected = [c \in Customers |-> Collected[c]]
  /\ Collected' = [c \in Customers |-> Collected'[c]]
BY DEF Stage, Due, Settled, Collected

(* A step writes lines, a draft, or nothing of the tables but one of the    *)
(* effects that move money.                                                 *)
LEMMA StepIsEffect ==
  ASSUME IInv, [Next]_vars
  PROVE  \/ UNCHANGED <<invoice, account, payments>>
         \/ \E i \in Invoices, row \in InvoiceRow : DraftWritten(i, row)
         \/ \E r \in Requests : /\ ActivateSave(r) /\ req[r].cust = CustomerOf[req[r].inv]
                                /\ \E i \in Invoices, amount \in Int :
                                     /\ i = req[r].inv /\ amount = req[r].row.total
                                     /\ InvoiceIssued(i, amount)
         \/ \E i \in Invoices : InvoiceVoided(i)
         \/ \E i \in Invoices, a \in Amounts, n \in Numbers : PaymentPosted(i, a, n)
         \/ \E k \in DOMAIN payments, n \in Numbers : PaymentUndone(k, n)
         \/ \E r \in Requests : /\ ReconcileSave(r)
                                /\ \E c \in Customers :
                                     c = req[r].cust /\ AccountCorrected(c, BilledTo(c))
<1>1. CASE \E i \in Invoices, S \in SUBSET Lines : CreateDraft(i, S)
  BY <1>1, CreateCommits
<1>2. CASE \E r \in Requests : BeginRequest(r)
  <2>1. PICK r \in Requests : BeginRequest(r)
    BY <1>2
  <2>2. Reads(r)
    BY <2>1, RecordLockReads, InstallmentLoadReads, DraftLoadsRead, CancelLoadReads,
       ReverseReadReads, ReconcileReadReads DEF BeginRequest
  <2> QED BY <2>2 DEF Reads, LinesWritten
<1>3. CASE \E r \in Requests : Progress(r)
  <2>1. PICK r \in Requests : Progress(r)
    BY <1>3
  <2>2. CASE ReadAccount(r) \/ InstallmentLock(r) \/ ReverseLock(r)
    <3>1. Reads(r)
      BY <2>2, ReadAccountReads, InstallmentLockReads, ReverseLockReads
    <3> QED BY <3>1 DEF Reads, LinesWritten
  <2>3. CASE InstallmentRefuse(r) \/ Fail(r)
    BY <2>3 DEF InstallmentRefuse, Fail, tables
  <2>4. CASE EditSave(r)
    BY <2>4, EditCommits DEF LinesWritten
  <2>5. CASE ActivateSave(r)
    <3>1. req[r].row.total \in Int
      BY RequestColumns DEF IInv
    <3>2. req[r].cust = CustomerOf[req[r].inv]
      BY <2>5 DEF ActivateSave, At, OnInvoice, IInv, RequestsInv, RequestInv
    <3> QED BY <2>5, <3>1, <3>2, ActivateCommits
  <2>6. CASE CancelSave(r)
    BY <2>6, CancelCommits
  <2>7. CASE RecordSave(r)
    <3>1. req[r].amount \in Amounts /\ req[r].inv \in Invoices /\ req[r].number \in Numbers
      BY <2>7 DEF RecordSave, At, IInv, RequestsInv, RequestInv, OnInvoice
    <3> QED BY <2>7, <3>1, RecordCommits
  <2>8. CASE ReverseSave(r)
    BY <2>8, ReverseCommits
  <2>9. CASE ReconcileSave(r)
    BY <2>9, ReconcileCommits
  <2> QED BY <2>1, <2>2, <2>3, <2>4, <2>5, <2>6, <2>7, <2>8, <2>9 DEF Progress, Save
<1>4. CASE \E r \in Requests : Abort(r)
  BY <1>4 DEF Abort, tables
<1>5. CASE UNCHANGED vars
  BY <1>5 DEF vars
<1> QED BY <1>1, <1>2, <1>3, <1>4, <1>5 DEF Next, AllServed

(* Rows and payments that stay leave the book where it is.                  *)
LEMMA SameBook ==
  ASSUME \A i \in Invoices : Stage'[i] = Stage[i] /\ Due'[i] = Due[i] /\ Settled'[i] = Settled[i],
         \A c \in Customers : Collected'[c] = Collected[c],
         payments' = payments
  PROVE  UNCHANGED Book!bookVars
<1>1. Stage' = Stage /\ Due' = Due /\ Settled' = Settled /\ Collected' = Collected
  BY BookFunctions
<1>2. Standing' = Standing /\ Undone' = Undone /\ Posted' = Posted
  BY DEF Standing, Undone, Posted, IsCompleted
<1> QED BY <1>1, <1>2 DEF Book!bookVars

(* Drafts are nothing to the book.                                          *)
LEMMA DraftIsNoStep ==
  ASSUME TablesInv, NEW i \in Invoices, NEW row \in InvoiceRow, DraftWritten(i, row)
  PROVE  UNCHANGED Book!bookVars
<1>1. Columns(invoice, account, payments)
  BY ColumnTypes DEF TablesInv
<1>2. /\ \A j \in Invoices : j # i => invoice'[j] = invoice[j]
      /\ invoice'[i] = row /\ payments' = payments /\ account' = account
      /\ row.status = "Draft" /\ row.paid = invoice[i].paid
      /\ invoice[i].status \in {"Absent", "Draft"}
  BY <1>1 DEF Columns, DraftWritten, RowWritten
<1>3. \A j \in Invoices : Stage'[j] = Stage[j] /\ Due'[j] = Due[j] /\ Settled'[j] = Settled[j]
  <2> SUFFICES ASSUME NEW j \in Invoices
               PROVE  Stage'[j] = Stage[j] /\ Due'[j] = Due[j] /\ Settled'[j] = Settled[j]
    OBVIOUS
  <2>1. CASE j = i
    BY <2>1, <1>2, BookColumns
  <2>2. CASE j # i
    <3>1. invoice'[j] = invoice[j]
      BY <1>2, <2>2
    <3> QED BY <3>1, BookColumns
  <2> QED BY <2>1, <2>2
<1>4. \A c \in Customers : Collected'[c] = Collected[c]
  BY <1>2, BookColumns
<1> QED BY <1>2, <1>3, <1>4, SameBook

(* A corrected account has the same TotalPaid, which was exact already.     *)
LEMMA CorrectionIsNoStep ==
  ASSUME TablesInv, NEW c \in Customers, AccountCorrected(c, BilledTo(c))
  PROVE  UNCHANGED Book!bookVars
<1>1. Columns(invoice, account, payments)
  BY ColumnTypes DEF TablesInv
<1>2. /\ invoice' = invoice /\ payments' = payments
      /\ \A d \in Customers : d # c => account'[d] = account[d]
      /\ account'[c].paid = PaidBy(c)
  BY <1>1 DEF AccountCorrected, Columns
<1>3. account[c].paid = PaidBy(c)
  BY DEF TablesInv, AccountPaidIsExact
<1>4. \A d \in Customers : Collected'[d] = Collected[d]
  BY <1>2, <1>3, BookColumns
<1>5. \A j \in Invoices : Stage'[j] = Stage[j] /\ Due'[j] = Due[j] /\ Settled'[j] = Settled[j]
  BY <1>2, BookColumns
<1> QED BY <1>2, <1>4, <1>5, SameBook

(* Writing TotalBilled leaves what was collected.                           *)
LEMMA BilledCollectsNothing ==
  ASSUME TablesInv, NEW c \in Customers, NEW billed \in Int,
         AccountBilled(c, billed) \/ account' = account
  PROVE  Collected' = Collected
<1>1. Columns(invoice, account, payments)
  BY ColumnTypes DEF TablesInv
<1>2. \A d \in Customers : account'[d].paid = account[d].paid
  <2>1. CASE AccountBilled(c, billed)
    BY <1>1, <2>1, BilledRows
  <2>2. CASE account' = account
    BY <2>2
  <2> QED BY <2>1, <2>2
<1> QED BY <1>2, BookColumns, BookFunctions

(* An activation issues the invoice.                                        *)
LEMMA IssueIsStep ==
  ASSUME TablesInv, NEW i \in Invoices, NEW amount \in Int, InvoiceIssued(i, amount)
  PROVE  Book!Issue(i)
<1>1. Columns(invoice, account, payments)
  BY ColumnTypes DEF TablesInv
<1>2. /\ \A j \in Invoices : j # i => invoice'[j] = invoice[j]
      /\ invoice[i].status = "Draft" /\ invoice'[i].status = "Active"
      /\ invoice'[i].total = invoice[i].total /\ invoice'[i].paid = invoice[i].paid
      /\ payments' = payments
  BY <1>1 DEF Columns, InvoiceIssued
<1>3. Collected' = Collected
  <2>1. CustomerOf[i] \in Customers /\ account[CustomerOf[i]].billed + amount \in Int
    BY <1>1 DEF Columns
  <2>2. AccountBilled(CustomerOf[i], account[CustomerOf[i]].billed + amount)
    BY DEF InvoiceIssued
  <2> QED BY <2>1, <2>2, BilledCollectsNothing
<1>4. /\ \A j \in Invoices : j # i => Stage'[j] = Stage[j] /\ Due'[j] = Due[j]
      /\ \A j \in Invoices : Settled'[j] = Settled[j]
      /\ Stage[i] = "Unissued" /\ Stage'[i] = "Open" /\ Due'[i] = invoice[i].total
  BY <1>2, BookColumns
<1>5. Stage' = [Stage EXCEPT ![i] = "Open"]
  BY <1>4, BookFunctions
<1>6. Due' = [Due EXCEPT ![i] = Due'[i]] /\ Due'[i] \in Nat
  BY <1>1, <1>4, BookFunctions DEF Columns
<1>7. Settled' = Settled
  BY <1>4, BookFunctions
<1>8. Standing' = Standing /\ Undone' = Undone /\ Posted' = Posted
  BY <1>2 DEF Standing, Undone, Posted, IsCompleted
<1> QED BY <1>3, <1>4, <1>5, <1>6, <1>7, <1>8 DEF Book!Issue

(* A cancellation voids the invoice, or finds it cancelled already.         *)
LEMMA VoidIsStep ==
  ASSUME TablesInv, NEW i \in Invoices, InvoiceVoided(i)
  PROVE  Book!Void(i) \/ UNCHANGED Book!bookVars
<1>1. Columns(invoice, account, payments)
  BY ColumnTypes DEF TablesInv
<1>2. /\ \A j \in Invoices : j # i => invoice'[j] = invoice[j]
      /\ invoice[i].status # "Absent" /\ invoice'[i].status = "Cancelled"
      /\ invoice'[i].paid = invoice[i].paid
      /\ payments' = payments
  BY <1>1 DEF Columns, InvoiceVoided
<1>3. Collected' = Collected
  <2>1. /\ CustomerOf[i] \in Customers
        /\ account[CustomerOf[i]].billed - invoice[i].total \in Int
    BY <1>1 DEF Columns
  <2>2. \/ AccountBilled(CustomerOf[i], account[CustomerOf[i]].billed - invoice[i].total)
        \/ account' = account
    BY DEF InvoiceVoided
  <2> QED BY <2>1, <2>2, BilledCollectsNothing
<1>4. /\ \A j \in Invoices : j # i => Stage'[j] = Stage[j] /\ Due'[j] = Due[j]
      /\ \A j \in Invoices : Settled'[j] = Settled[j]
      /\ Stage'[i] = "Void" /\ Due'[i] = 0
  BY <1>2, BookColumns
<1>5. Stage' = [Stage EXCEPT ![i] = "Void"] /\ Due' = [Due EXCEPT ![i] = 0]
  BY <1>4, BookFunctions
<1>6. Settled' = Settled
  BY <1>4, BookFunctions
<1>7. Standing' = Standing /\ Undone' = Undone /\ Posted' = Posted
  BY <1>2 DEF Standing, Undone, Posted, IsCompleted
<1>8. \A p \in Standing : p.invoice # i
  BY DEF InvoiceVoided, Standing
<1>9. CASE invoice[i].status = "Cancelled"
  <2>1. Stage[i] = "Void" /\ Due[i] = 0
    BY <1>9, BookColumns
  <2>2. Stage' = Stage /\ Due' = Due
    BY <1>4, <2>1, BookFunctions
  <2> QED BY <1>3, <1>6, <1>7, <2>2 DEF Book!bookVars
<1>10. CASE invoice[i].status # "Cancelled"
  <2>1. Stage[i] \in {"Unissued", "Open"}
    BY <1>1, <1>10, BookColumns DEF Columns, InvoiceStatus
  <2> QED BY <1>3, <1>5, <1>6, <1>7, <1>8, <2>1 DEF Book!Void
<1> QED BY <1>9, <1>10

(* Money moves on one invoice and on its customer's account.                *)
LEMMA MoveIsMove ==
  ASSUME NEW i \in Invoices, NEW a \in Int, CustomerOf[i] \in Customers,
         \A j \in Invoices : j # i => invoice'[j] = invoice[j],
         invoice'[i].status = invoice[i].status, invoice'[i].total = invoice[i].total,
         invoice'[i].paid = invoice[i].paid + a,
         \A c \in Customers : c # CustomerOf[i] => account'[c] = account[c],
         account'[CustomerOf[i]].paid = account[CustomerOf[i]].paid + a,
         Len(payments') = Len(payments) + 1
  PROVE  Book!Move(i, a)
<1>1. /\ \A j \in Invoices : Stage'[j] = Stage[j] /\ Due'[j] = Due[j]
      /\ \A j \in Invoices : j # i => Settled'[j] = Settled[j]
      /\ Settled'[i] = Settled[i] + a
  BY BookColumns
<1>2. /\ \A c \in Customers : c # CustomerOf[i] => Collected'[c] = Collected[c]
      /\ Collected'[CustomerOf[i]] = Collected[CustomerOf[i]] + a
  BY BookColumns
<1>3. Stage' = Stage /\ Due' = Due
  BY <1>1, BookFunctions
<1>4. Settled' = [Settled EXCEPT ![i] = Settled[i] + a]
  BY <1>1, BookFunctions
<1>5. Collected' = [Collected EXCEPT ![CustomerOf[i]] = Collected[CustomerOf[i]] + a]
  BY <1>2, BookFunctions
<1>6. Posted' = Posted + 1
  BY DEF Posted
<1> QED BY <1>3, <1>4, <1>5, <1>6 DEF Book!Move

(* The payment in force with the given id.                                  *)
InForce(k, row) == [id |-> k, invoice |-> row.invoice, amount |-> row.amount]

(* The payments in force and the ones undone, row by row.                   *)
LEMMA BookPayments ==
  /\ \A p : p \in Standing <=> \E k \in DOMAIN payments :
               payments[k].status = "Completed" /\ p = InForce(k, payments[k])
  /\ \A p : p \in Standing' <=> \E k \in DOMAIN payments' :
               payments'[k].status = "Completed" /\ p = InForce(k, payments'[k])
  /\ \A k : k \in Undone <=> k \in DOMAIN payments /\ payments[k].reverses = 0
                                /\ payments[k].status # "Completed"
  /\ \A k : k \in Undone' <=> k \in DOMAIN payments' /\ payments'[k].reverses = 0
                                 /\ payments'[k].status # "Completed"
BY DEF Standing, Undone, IsCompleted, InForce

(* A payment that commits settles its amount, which the invoice still owes. *)
LEMMA SettleIsStep ==
  ASSUME TablesInv, NEW i \in Invoices, NEW a \in Amounts, NEW n \in Numbers,
         PaymentPosted(i, a, n)
  PROVE  Book!Settle(i, a)
<1> DEFINE e == NewPayment(i, a, "Completed", 0, n)
           ci == CustomerOf[i]
           m == Len(payments) + 1
<1>1. Columns(invoice, account, payments) /\ a \in Int
  BY ColumnTypes, AmountsAssumption DEF TablesInv
<1>2. e.invoice = i /\ e.status = "Completed" /\ e.amount = a /\ e.reverses = 0
  BY DEF NewPayment
<1>3. /\ \A j \in Invoices : j # i => invoice'[j] = invoice[j]
      /\ invoice[i].status = "Active" /\ 0 < a /\ a <= invoice[i].outstanding
      /\ invoice'[i].status = invoice[i].status /\ invoice'[i].total = invoice[i].total
      /\ invoice'[i].paid = invoice[i].paid + a
  BY <1>1 DEF Columns, PaymentPosted
<1>4. /\ ci \in Customers
      /\ \A c \in Customers : c # ci => account'[c] = account[c]
      /\ account'[ci].paid = account[ci].paid + a
  BY <1>1 DEF Columns, PaymentPosted, PostedAccount, AccountRow
<1>5. payments' = Append(payments, e)
  BY DEF PaymentPosted
<1> HIDE DEF e
<1>6. /\ Len(payments') = m /\ m \in Nat
      /\ DOMAIN payments' = DOMAIN payments \cup {m} /\ m \notin DOMAIN payments
      /\ \A k \in DOMAIN payments : payments'[k] = payments[k]
      /\ payments'[m] = e
  BY <1>1, <1>5 DEF Columns
<1>7. Book!Move(i, a)
  BY <1>1, <1>3, <1>4, <1>6, MoveIsMove
<1>8. Stage[i] = "Open" /\ a <= Due[i] - Settled[i]
  <2>1. invoice[i].outstanding = invoice[i].total - invoice[i].paid
    BY DEF TablesInv, RowsConsistent, RowConsistent
  <2>2. Stage[i] = "Open" /\ Due[i] = invoice[i].total /\ Settled[i] = invoice[i].paid
    BY <1>3, BookColumns
  <2> QED BY <1>3, <2>1, <2>2
<1> HIDE DEF m
<1>9. InForce(m, e) = [id |-> m, invoice |-> i, amount |-> a]
  BY <1>2 DEF InForce
<1>10. Standing' = Standing \cup {InForce(m, e)}
  <2>1. \A p : p \in Standing' <=> p \in Standing \/ p = InForce(m, e)
    BY <1>2, <1>6, BookPayments
  <2> QED BY <2>1
<1>11. Undone' = Undone
  <2>1. \A k : k \in Undone' <=> k \in Undone
    BY <1>2, <1>6, BookPayments
  <2> QED BY <2>1
<1> QED BY <1>3, <1>7, <1>8, <1>9, <1>10, <1>11 DEF Book!Settle, Posted, m

(* A reversal that commits undoes a payment in force, and only that one.    *)
LEMMA UndoIsStep ==
  ASSUME TablesInv, NEW k \in DOMAIN payments, NEW n \in Numbers, PaymentUndone(k, n)
  PROVE  \E p \in Standing : Book!Undo(p)
<1> DEFINE i == payments[k].invoice
           a == payments[k].amount
           e == NewPayment(i, a, "Reversed", k, n)
           ci == CustomerOf[i]
           m == Len(payments) + 1
<1>1. Columns(invoice, account, payments)
  BY ColumnTypes DEF TablesInv
<1>2. /\ i \in Invoices /\ a \in Int /\ -a \in Int /\ ci \in Customers /\ k # 0 /\ m \in Nat
      /\ invoice[i].status = "Active"
      /\ payments[k].status = "Completed" /\ payments[k].reverses = 0
  BY <1>1, Undoable DEF Columns, PaymentUndone
<1>3. e.invoice = i /\ e.status = "Reversed" /\ e.amount = a /\ e.reverses = k
  BY DEF NewPayment
<1>4. /\ \A j \in Invoices : j # i => invoice'[j] = invoice[j]
      /\ invoice'[i].status = invoice[i].status /\ invoice'[i].total = invoice[i].total
      /\ invoice'[i].paid = invoice[i].paid + (-a)
  BY <1>1, <1>2 DEF Columns, PaymentUndone
<1>5. /\ \A c \in Customers : c # ci => account'[c] = account[c]
      /\ account'[ci].paid = account[ci].paid + (-a)
  <2>1. account' = PostedAccount(ci, account[ci], -a)
    BY DEF PaymentUndone
  <2> HIDE DEF a, ci
  <2> QED BY <1>1, <1>2, <2>1 DEF Columns, PostedAccount, AccountRow
<1>6. payments' = Append(Marked(k), e) /\ Marked(k) \in Seq(PaymentRow)
      /\ Len(Marked(k)) = Len(payments)
  <2>1. payments \in Seq(PaymentRow) /\ payments[k].status = "Completed"
    BY <1>1, <1>2 DEF Columns
  <2>2. Marked(k) \in Seq(PaymentRow) /\ Len(Marked(k)) = Len(payments)
    BY <2>1, PaidMark, Zenon DEF Marked
  <2> QED BY <2>2 DEF PaymentUndone
<1>7. /\ Marked(k)[k].status = "Reversed" /\ Marked(k)[k].reverses = 0
      /\ \A j \in DOMAIN payments : j # k => Marked(k)[j] = payments[j]
  BY <1>1, <1>2 DEF Columns, Marked, PaymentRow
<1> HIDE DEF e
<1>8. /\ Len(payments') = m
      /\ DOMAIN payments' = DOMAIN payments \cup {m} /\ m \notin DOMAIN payments
      /\ \A j \in DOMAIN payments : payments'[j] = Marked(k)[j]
      /\ payments'[m] = e
  BY <1>1, <1>6 DEF Columns
<1>9. Book!Move(i, -a)
  <2> HIDE DEF i, a
  <2> QED BY <1>2, <1>4, <1>5, <1>8, MoveIsMove
<1> DEFINE p == InForce(k, payments[k])
<1> HIDE DEF i, a, m, ci
<1>10. Standing' = Standing \ {p}
  <2>1. \A j, row : InForce(j, row).id = j
    BY DEF InForce
  <2>2. ASSUME NEW q
        PROVE  q \in Standing' <=> q \in Standing /\ q # p
    BY <1>2, <1>3, <1>7, <1>8, <2>1, BookPayments
  <2> QED BY <2>2
<1>11. Undone' = Undone \cup {k}
  <2>1. \A j : j \in Undone' <=> j \in Undone \/ j = k
    BY <1>2, <1>3, <1>7, <1>8, BookPayments
  <2> QED BY <2>1
<1>12. p \in Standing
  BY <1>2, BookPayments
<1>13. p.id = k /\ p.invoice = i /\ p.amount = a
  BY DEF InForce, i, a
<1> HIDE DEF p
<1> QED BY <1>9, <1>10, <1>11, <1>12, <1>13 DEF Book!Undo

(* The empty ledger is the empty book.                                      *)
LEMMA InitIsInit == Init => Book!Init
<1> SUFFICES ASSUME Init PROVE Book!Init
  OBVIOUS
<1>1. /\ \A i \in Invoices : invoice[i].status = "Absent" /\ invoice[i].paid = 0
      /\ \A c \in Customers : account[c].paid = 0
      /\ payments = <<>>
  BY DEF Init, NoInvoiceRow, NewAccountRow
<1>2. Standing = {} /\ Undone = {} /\ Posted = 0
  BY <1>1 DEF Standing, Undone, Posted
<1> QED BY <1>1, <1>2 DEF Book!Init, Stage, Due, Settled, Collected

(* Every step is a step of the book or leaves it alone.                     *)
LEMMA StepIsStep == IInv /\ [Next]_vars => [Book!Next]_(Book!bookVars)
<1> SUFFICES ASSUME IInv, [Next]_vars PROVE [Book!Next]_(Book!bookVars)
  OBVIOUS
<1>1. TablesInv
  BY InvTables
<1>2. CASE UNCHANGED <<invoice, account, payments>>
  <2>1. /\ \A i \in Invoices : Stage'[i] = Stage[i] /\ Due'[i] = Due[i] /\ Settled'[i] = Settled[i]
        /\ \A c \in Customers : Collected'[c] = Collected[c]
    BY <1>2, BookColumns
  <2> QED BY <1>2, <2>1, SameBook
<1>3. CASE \E i \in Invoices, row \in InvoiceRow : DraftWritten(i, row)
  BY <1>1, <1>3, DraftIsNoStep
<1>4. CASE \E i \in Invoices, amount \in Int : InvoiceIssued(i, amount)
  BY <1>1, <1>4, IssueIsStep DEF Book!Next
<1>5. CASE \E i \in Invoices : InvoiceVoided(i)
  BY <1>1, <1>5, VoidIsStep DEF Book!Next
<1>6. CASE \E i \in Invoices, a \in Amounts, n \in Numbers : PaymentPosted(i, a, n)
  BY <1>1, <1>6, SettleIsStep DEF Book!Next
<1>7. CASE \E k \in DOMAIN payments, n \in Numbers : PaymentUndone(k, n)
  BY <1>1, <1>7, UndoIsStep DEF Book!Next
<1>8. CASE \E r \in Requests, c \in Customers : AccountCorrected(c, BilledTo(c))
  BY <1>1, <1>8, CorrectionIsNoStep
<1> QED BY <1>2, <1>3, <1>4, <1>5, <1>6, <1>7, <1>8, StepIsEffect

(* Concurrent payments, reversals, activations and cancellations change the *)
(* tables as if each were done at once, on current rows, one after another. *)
THEOREM BookImplemented == Spec => ImplementsBook
<1>1. Init => Book!Init
  BY InitIsInit
<1>2. IInv /\ [Next]_vars => [Book!Next]_(Book!bookVars)
  BY StepIsStep
<1> QED BY <1>1, <1>2, Invariance, PTL DEF Spec, ImplementsBook, Book!Spec

-----------------------------------------------------------------------------
(* 2. The action properties *)

(* An effect that changes an issued invoice keeps its total, and its status *)
(* unless it cancels it.                                                    *)
LEMMA StepFreezes ==
  IInv /\ [Next]_vars =>
    \A i \in Invoices :
      invoice[i].status \in {"Active", "Cancelled"} =>
        /\ invoice'[i].total = invoice[i].total
        /\ invoice'[i].status \in {invoice[i].status, "Cancelled"}
<1> SUFFICES ASSUME IInv, [Next]_vars,
                    NEW j \in Invoices, invoice[j].status \in {"Active", "Cancelled"}
             PROVE  /\ invoice'[j].total = invoice[j].total
                    /\ invoice'[j].status \in {invoice[j].status, "Cancelled"}
  OBVIOUS
<1>1. TablesInv /\ Columns(invoice, account, payments)
  BY InvTables, ColumnTypes DEF TablesInv
<1>2. CASE UNCHANGED <<invoice, account, payments>>
  BY <1>2
<1>3. CASE \E i \in Invoices, row \in InvoiceRow : DraftWritten(i, row)
  BY <1>1, <1>3 DEF Columns, DraftWritten, RowWritten
<1>4. CASE \E i \in Invoices, amount \in Int : InvoiceIssued(i, amount)
  BY <1>1, <1>4 DEF Columns, InvoiceIssued
<1>5. CASE \E i \in Invoices : InvoiceVoided(i)
  BY <1>1, <1>5 DEF Columns, InvoiceVoided
<1>6. CASE \E i \in Invoices, a \in Amounts, n \in Numbers : PaymentPosted(i, a, n)
  BY <1>1, <1>6 DEF Columns, PaymentPosted
<1>7. CASE \E k \in DOMAIN payments, n \in Numbers : PaymentUndone(k, n)
  BY <1>1, <1>7 DEF Columns, PaymentUndone
<1>8. CASE \E r \in Requests, c \in Customers : AccountCorrected(c, BilledTo(c))
  BY <1>8 DEF AccountCorrected
<1> QED BY <1>2, <1>3, <1>4, <1>5, <1>6, <1>7, <1>8, StepIsEffect

(* An issued invoice keeps its total, and a cancelled one stays cancelled.  *)
THEOREM TotalFrozen == Spec => IssuedTotalIsFrozen
<1>1. IInv /\ [Next]_vars =>
        [\A i \in Invoices :
           invoice[i].status \in {"Active", "Cancelled"} =>
             /\ invoice'[i].total = invoice[i].total
             /\ invoice'[i].status \in {invoice[i].status, "Cancelled"}]_vars
  BY StepFreezes
<1> QED BY <1>1, Invariance, PTL DEF Spec, IssuedTotalIsFrozen

(* What a reconciliation summed earlier is what the rows sum to when it     *)
(* commits, for the account it commits to.                                  *)
LEMMA StepSettles ==
  IInv /\ [Next]_vars =>
    \A r \in Requests, c \in Customers :
      ReconcileSave(r) /\ req[r].cust = c =>
        /\ account'[c].billed = BilledTo(c)'
        /\ account'[c].paid = PaidBy(c)'
<1> SUFFICES ASSUME IInv, NEW r \in Requests, NEW c \in Customers,
                    ReconcileSave(r), req[r].cust = c
             PROVE  account'[c].billed = BilledTo(c)' /\ account'[c].paid = PaidBy(c)'
  OBVIOUS
<1>1. Columns(invoice, account, payments)
  BY InvTables, ColumnTypes DEF TablesInv
<1>2. AccountCorrected(c, BilledTo(c))
  BY ReconcileCommits
<1>3. /\ account'[c].billed = BilledTo(c) /\ account'[c].paid = PaidBy(c)
      /\ invoice' = invoice /\ payments' = payments
  BY <1>1, <1>2 DEF Columns, AccountCorrected
<1>4. BilledTo(c)' = BilledTo(c) /\ PaidBy(c)' = PaidBy(c)
  BY <1>3, BilledSame, PaidSame
<1> QED BY <1>3, <1>4

(* A reconciliation that commits leaves the account as the rows have it.    *)
THEOREM ReconciliationExact == Spec => ReconciliationSettles
<1>1. IInv /\ [Next]_vars =>
        [\A r \in Requests, c \in Customers :
           ReconcileSave(r) /\ req[r].cust = c =>
             /\ account'[c].billed = BilledTo(c)'
             /\ account'[c].paid = PaidBy(c)']_vars
  BY StepSettles
<1> QED BY <1>1, Invariance, PTL DEF Spec, ReconciliationSettles

(* Accounts and billed sums that stay keep the drift.                       *)
LEMMA SameDrift ==
  ASSUME NEW c \in Customers, account'[c].billed = account[c].billed,
         \A i \in Invoices : CustomerOf[i] = c => Charge(invoice'[i]) = Charge(invoice[i])
  PROVE  Drift(c)' = Drift(c)
<1>1. BilledTo(c)' = BilledTo(c)
  BY BilledSame
<1> QED BY <1>1 DEF Drift

(* An account that is billed what its invoice's charge changes by keeps the *)
(* drift.                                                                   *)
LEMMA BilledDrift ==
  ASSUME TablesInv, NEW i \in Invoices, NEW x \in Int, NEW row \in InvoiceRow,
         invoice' = [invoice EXCEPT ![i] = row],
         Charge(row) = Charge(invoice[i]) + x,
         account'[CustomerOf[i]].billed = account[CustomerOf[i]].billed + x
  PROVE  Drift(CustomerOf[i])' = Drift(CustomerOf[i])
<1> DEFINE c == CustomerOf[i]
<1>1. Columns(invoice, account, payments)
  BY ColumnTypes DEF TablesInv
<1>2. /\ c \in Customers /\ account[c].billed \in Int /\ i \in Nat
      /\ invoice \in [Invoices -> InvoiceRow] /\ invoice' \in [Invoices -> InvoiceRow]
      /\ invoice'[i] = row /\ \A j \in Invoices : j # i => invoice'[j] = invoice[j]
      /\ invoice[i].total \in Nat /\ row.total \in Nat
  BY <1>1 DEF Columns, InvoiceRow, Invoices
<1> HIDE DEF c
<1>3. Billed(invoice, c)[i] = Charge(invoice[i]) /\ Billed(invoice', c)[i] = Charge(invoice'[i])
  BY <1>2 DEF Billed, Charge, c
<1>4. RunningSum(Billed(invoice', c))[NumInvoices] =
        RunningSum(Billed(invoice, c))[NumInvoices] + Billed(invoice', c)[i] - Billed(invoice, c)[i]
  <2>1. /\ invoice \in [Invoices -> InvoiceRow] /\ invoice' \in [Invoices -> InvoiceRow]
        /\ i \in Invoices /\ \A j \in Invoices : j # i => invoice'[j] = invoice[j]
    BY <1>2
  <2> DEFINE T == invoice
             U == invoice'
  <2>2. /\ T \in [Invoices -> InvoiceRow] /\ U \in [Invoices -> InvoiceRow]
        /\ \A j \in Invoices : j # i => U[j] = T[j]
    BY <2>1
  <2> HIDE DEF T, U
  <2>3. RunningSum(Billed(U, c))[NumInvoices] =
          RunningSum(Billed(T, c))[NumInvoices] + Billed(U, c)[i] - Billed(T, c)[i]
    BY <2>1, <2>2, BilledChange
  <2> QED BY <2>3 DEF T, U
<1>5. RunningSum(Billed(invoice, c))[NumInvoices] \in Int
  <2>1. Billed(invoice, c) \in [Nat -> Int]
    BY <1>2, BilledType
  <2> HIDE DEF Billed
  <2> QED BY <2>1, RunningSumDef, NumInvoicesAssumption
<1>6. /\ BilledTo(c) = RunningSum(Billed(invoice, c))[NumInvoices]
      /\ BilledTo(c)' = RunningSum(Billed(invoice', c))[NumInvoices]
  BY <1>2, BilledToIsBilled
<1>7. Charge(invoice[i]) \in Int
  BY <1>2 DEF Charge
<1>8. BilledTo(c)' = BilledTo(c) + x
  BY <1>2, <1>3, <1>4, <1>5, <1>6, <1>7
<1>9. account'[c].billed = account[c].billed + x
  BY DEF c
<1> QED BY <1>2, <1>5, <1>6, <1>8, <1>9 DEF Drift, c

(* Drafts and payments bill nothing.                                        *)
LEMMA DraftDrift ==
  ASSUME TablesInv, NEW i \in Invoices, NEW row \in InvoiceRow, DraftWritten(i, row),
         NEW c \in Customers
  PROVE  Drift(c)' = Drift(c)
<1>1. Columns(invoice, account, payments)
  BY ColumnTypes DEF TablesInv
<1> QED BY <1>1, SameDrift DEF Columns, DraftWritten, RowWritten, Charge

(* A payment charges and bills what it found.                               *)
LEMMA PostedDrift ==
  ASSUME TablesInv, NEW i \in Invoices, NEW a \in Amounts, NEW n \in Numbers,
         PaymentPosted(i, a, n), NEW c \in Customers
  PROVE  Drift(c)' = Drift(c)
<1>1. Columns(invoice, account, payments)
  BY ColumnTypes DEF TablesInv
<1>2. \A j \in Invoices : Charge(invoice'[j]) = Charge(invoice[j])
  BY <1>1 DEF Columns, PaymentPosted, Charge
<1>3. account'[c].billed = account[c].billed
  BY <1>1 DEF Columns, PaymentPosted, PostedAccount, AccountRow
<1> QED BY <1>2, <1>3, SameDrift

(* So does a reversal.                                                      *)
LEMMA UndoneDrift ==
  ASSUME TablesInv, NEW k \in DOMAIN payments, NEW n \in Numbers, PaymentUndone(k, n),
         NEW c \in Customers
  PROVE  Drift(c)' = Drift(c)
<1>1. Columns(invoice, account, payments)
  BY ColumnTypes DEF TablesInv
<1>2. \A j \in Invoices : Charge(invoice'[j]) = Charge(invoice[j])
  BY <1>1 DEF Columns, PaymentUndone, Charge
<1>3. account'[c].billed = account[c].billed
  BY <1>1 DEF Columns, PaymentUndone, PostedAccount, AccountRow
<1> QED BY <1>2, <1>3, SameDrift

(* An activation bills its customer what the invoice charges from now on,   *)
(* if it read the total as it is.                                           *)
LEMMA IssuedDrift ==
  ASSUME TablesInv, NEW i \in Invoices, NEW amount \in Int, InvoiceIssued(i, amount),
         NEW c \in Customers, c # CustomerOf[i] \/ amount = invoice[i].total
  PROVE  Drift(c)' = Drift(c)
<1> DEFINE row == [status |-> "Active", total |-> invoice[i].total, paid |-> invoice[i].paid,
                   outstanding |-> invoice[i].outstanding, payStatus |-> invoice[i].payStatus,
                   version |-> invoice[i].version + 1]
           ci == CustomerOf[i]
<1>1. Columns(invoice, account, payments)
  BY ColumnTypes DEF TablesInv
<1>2. /\ invoice' = [invoice EXCEPT ![i] = row] /\ row \in InvoiceRow
      /\ \A j \in Invoices : j # i => invoice'[j] = invoice[j]
  BY <1>1 DEF Columns, InvoiceIssued, InvoiceRow, InvoiceStatus
<1>3. Charge(invoice[i]) = 0 /\ Charge(row) = invoice[i].total
  BY DEF Charge, InvoiceIssued
<1> HIDE DEF row
<1>4. /\ ci \in Customers
      /\ \A d \in Customers : d # ci => account'[d] = account[d]
      /\ account'[ci].billed = account[ci].billed + amount
  <2>1. ci \in Customers /\ account[ci].billed + amount \in Int
    BY <1>1 DEF Columns
  <2>2. AccountBilled(ci, account[ci].billed + amount)
    BY DEF InvoiceIssued
  <2> HIDE DEF ci
  <2> QED BY <1>1, <2>1, <2>2, BilledRows
<1>5. CASE c # ci
  BY <1>2, <1>4, <1>5, SameDrift
<1>6. CASE c = ci
  <2>1. amount = invoice[i].total
    BY <1>6
  <2>2. Charge(row) = Charge(invoice[i]) + amount
    BY <1>3, <2>1
  <2>3. Drift(CustomerOf[i])' = Drift(CustomerOf[i])
    BY <1>2, <1>4, <2>2, BilledDrift
  <2> QED BY <1>6, <2>3
<1> QED BY <1>5, <1>6

(* A cancellation takes off its customer's account what the invoice charged.*)
LEMMA VoidedDrift ==
  ASSUME TablesInv, NEW i \in Invoices, InvoiceVoided(i), NEW c \in Customers
  PROVE  Drift(c)' = Drift(c)
<1> DEFINE row == [status |-> "Cancelled", total |-> invoice[i].total, paid |-> invoice[i].paid,
                   outstanding |-> invoice[i].outstanding, payStatus |-> invoice[i].payStatus,
                   version |-> invoice[i].version + 1]
           ci == CustomerOf[i]
           x == -Charge(invoice[i])
<1>1. Columns(invoice, account, payments)
  BY ColumnTypes DEF TablesInv
<1>2. /\ invoice' = [invoice EXCEPT ![i] = row] /\ row \in InvoiceRow
      /\ \A j \in Invoices : j # i => invoice'[j] = invoice[j]
  BY <1>1 DEF Columns, InvoiceVoided, InvoiceRow, InvoiceStatus
<1>3. Charge(row) = 0
  BY DEF Charge
<1> HIDE DEF row
<1>4. /\ ci \in Customers
      /\ \A d \in Customers : d # ci => account'[d] = account[d]
      /\ account'[ci].billed = account[ci].billed + x
  <2>1. /\ ci \in Customers /\ account[ci].billed \in Int
        /\ invoice[i].total \in Int /\ account[ci].billed - invoice[i].total \in Int
    BY <1>1 DEF Columns
  <2>2. CASE invoice[i].status = "Active"
    <3>1. AccountBilled(ci, account[ci].billed - invoice[i].total)
      BY <2>2 DEF InvoiceVoided
    <3>2. account[ci].billed + x = account[ci].billed - invoice[i].total
      BY <2>1, <2>2 DEF Charge
    <3> HIDE DEF ci, x
    <3> QED BY <1>1, <2>1, <3>1, <3>2, BilledRows
  <2>3. CASE invoice[i].status # "Active"
    <3>1. account' = account
      BY <2>3 DEF InvoiceVoided
    <3>2. account[ci].billed + x = account[ci].billed
      BY <2>1, <2>3 DEF Charge
    <3> QED BY <2>1, <3>1, <3>2
  <2> QED BY <2>2, <2>3
<1>5. x \in Int /\ Charge(row) = Charge(invoice[i]) + x
  <2>1. Charge(invoice[i]) \in Int
    BY <1>1 DEF Columns, Charge
  <2> QED BY <1>3, <2>1
<1> HIDE DEF x
<1>6. CASE c # ci
  BY <1>2, <1>4, <1>6, SameDrift
<1>7. CASE c = ci
  <2>1. Drift(CustomerOf[i])' = Drift(CustomerOf[i])
    BY <1>2, <1>4, <1>5, BilledDrift
  <2> QED BY <1>7, <2>1
<1> QED BY <1>6, <1>7

(* Only a reconciliation, or an activation with a replaced total, changes   *)
(* the drift of an account.                                                 *)
LEMMA StepDrifts ==
  IInv /\ [Next]_vars =>
    \A c \in Customers : Drift(c)' # Drift(c) =>
      \E r \in Requests :
        /\ req[r].cust = c
        /\ \/ ReconcileSave(r)
           \/ ActivateSave(r) /\ req[r].row.total # invoice[req[r].inv].total
<1> SUFFICES ASSUME IInv, [Next]_vars, NEW c \in Customers, Drift(c)' # Drift(c)
             PROVE  \E r \in Requests :
                      /\ req[r].cust = c
                      /\ \/ ReconcileSave(r)
                         \/ ActivateSave(r) /\ req[r].row.total # invoice[req[r].inv].total
  OBVIOUS
<1>1. TablesInv /\ Columns(invoice, account, payments)
  BY InvTables, ColumnTypes DEF TablesInv
<1>2. ~UNCHANGED <<invoice, account, payments>>
  BY SameDrift
<1>3. ~\E i \in Invoices, row \in InvoiceRow : DraftWritten(i, row)
  BY <1>1, DraftDrift
<1>4. ~\E i \in Invoices : InvoiceVoided(i)
  BY <1>1, VoidedDrift
<1>5. ~\E i \in Invoices, a \in Amounts, n \in Numbers : PaymentPosted(i, a, n)
  BY <1>1, PostedDrift
<1>6. ~\E k \in DOMAIN payments, n \in Numbers : PaymentUndone(k, n)
  BY <1>1, UndoneDrift
<1>7. CASE \E r \in Requests : /\ ActivateSave(r) /\ req[r].cust = CustomerOf[req[r].inv]
                               /\ \E i \in Invoices, amount \in Int :
                                    /\ i = req[r].inv /\ amount = req[r].row.total
                                    /\ InvoiceIssued(i, amount)
  <2>1. PICK r \in Requests : /\ ActivateSave(r) /\ req[r].cust = CustomerOf[req[r].inv]
                               /\ \E i \in Invoices, amount \in Int :
                                    /\ i = req[r].inv /\ amount = req[r].row.total
                                    /\ InvoiceIssued(i, amount)
    BY <1>7
  <2>2. PICK i \in Invoices, amount \in Int :
          i = req[r].inv /\ amount = req[r].row.total /\ InvoiceIssued(i, amount)
    BY <2>1
  <2>3. c = CustomerOf[i] /\ amount # invoice[i].total
    BY <1>1, <2>2, IssuedDrift
  <2> QED BY <2>1, <2>2, <2>3
<1>8. CASE \E r \in Requests : /\ ReconcileSave(r)
                               /\ \E d \in Customers :
                                    d = req[r].cust /\ AccountCorrected(d, BilledTo(d))
  <2>1. PICK r \in Requests : /\ ReconcileSave(r)
                               /\ \E d \in Customers :
                                    d = req[r].cust /\ AccountCorrected(d, BilledTo(d))
    BY <1>8
  <2>2. PICK d \in Customers : d = req[r].cust /\ AccountCorrected(d, BilledTo(d))
    BY <2>1
  <2>3. d = c
    <3>1. invoice' = invoice /\ \A b \in Customers : b # d => account'[b] = account[b]
      BY <1>1, <2>2 DEF Columns, AccountCorrected
    <3> QED BY <3>1, SameDrift
  <2> QED BY <2>1, <2>2, <2>3
<1> QED BY <1>2, <1>3, <1>4, <1>5, <1>6, <1>7, <1>8, StepIsEffect

(* TotalBilled leaves the active invoices behind in one way only.           *)
THEOREM DriftOnlyStale == Spec => DriftOnlyByStaleActivation
<1>1. IInv /\ [Next]_vars =>
        [\A c \in Customers : Drift(c)' # Drift(c) =>
           \E r \in Requests :
             /\ req[r].cust = c
             /\ \/ ReconcileSave(r)
                \/ /\ ActivateSave(r)
                   /\ req[r].row.total # invoice[req[r].inv].total]_vars
  BY StepDrifts
<1> QED BY <1>1, Invariance, PTL DEF Spec, DriftOnlyByStaleActivation
=============================================================================
