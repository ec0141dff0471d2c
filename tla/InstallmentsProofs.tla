------------------------- MODULE InstallmentsProofs -------------------------
(***************************************************************************)
(* Installment plans for every total, count, amount and number of requests:*)
(* the invoice never collects more than its total, and what the schedule   *)
(* and the plan say was paid has been paid.                                *)
(*                                                                         *)
(* The sums over a payments table come first, then what every step keeps   *)
(* of the requests under way, then the steps.                              *)
(***************************************************************************)
EXTENDS Installments, RunningSumsProofs, TLAPS

KeptIn(P) == [p \in Nat |-> IF p \in DOMAIN P /\ P[p].completed THEN P[p].amount ELSE 0]
ForIn(P, k) == [p \in Nat |-> IF p \in DOMAIN P /\ P[p].row = k THEN P[p].amount ELSE 0]

SumKept(P) == RunningSum(KeptIn(P))[Len(P)]
SumFor(P, k) == RunningSum(ForIn(P, k))[Len(P)]

\* The sums of the model are these sums, before a step and after it.
LEMMA SumsOfModel ==
  /\ Collected = SumKept(payments) /\ Collected' = SumKept(payments')
  /\ \A k : GrossPaid(k) = SumFor(payments, k) /\ GrossPaid(k)' = SumFor(payments', k)
BY DEF Collected, GrossPaid, SumKept, SumFor, KeptAmounts, AmountsFor, KeptIn, ForIn, Kept, ForRow

\* What a payments table holds, column by column.
LEMMA PaymentColumns ==
  ASSUME NEW P \in Seq(PaymentRow)
  PROVE  \A p \in DOMAIN P : /\ P[p] \in PaymentRow
                             /\ P[p].amount \in Amounts
                             /\ P[p].amount \in Nat \ {0}
<1>1. \A p \in DOMAIN P : P[p] \in PaymentRow
  OBVIOUS
<1> QED BY <1>1, AmountsAssumption DEF PaymentRow

LEMMA ColumnsAreNumbers ==
  ASSUME NEW P \in Seq(PaymentRow), NEW k
  PROVE  /\ KeptIn(P) \in [Nat -> Int] /\ \A p \in Nat : KeptIn(P)[p] >= 0
         /\ ForIn(P, k) \in [Nat -> Int] /\ \A p \in Nat : ForIn(P, k)[p] >= 0
<1>1. \A p \in DOMAIN P : P[p].amount \in Int /\ P[p].amount >= 0
  BY PaymentColumns
<1> QED BY <1>1 DEF KeptIn, ForIn

LEMMA SumsAreNumbers ==
  ASSUME NEW P \in Seq(PaymentRow), NEW k
  PROVE  SumKept(P) \in Nat /\ SumFor(P, k) \in Nat
<1>1. Len(P) \in Nat
  OBVIOUS
<1>2. SumKept(P) \in Int /\ SumFor(P, k) \in Int
  BY <1>1, ColumnsAreNumbers, RunningSumDef DEF SumKept, SumFor
<1>3. SumKept(P) >= 0
  <2> DEFINE c == KeptIn(P)
  <2>1. c \in [Nat -> Int] /\ \A p \in 1 .. Len(P) : c[p] >= 0
    BY <1>1, ColumnsAreNumbers
  <2> HIDE DEF c
  <2> QED BY <1>1, <2>1, RunningSumAtLeast DEF SumKept, c
<1>4. SumFor(P, k) >= 0
  <2> DEFINE c == ForIn(P, k)
  <2>1. c \in [Nat -> Int] /\ \A p \in 1 .. Len(P) : c[p] >= 0
    BY <1>1, ColumnsAreNumbers
  <2> HIDE DEF c
  <2> QED BY <1>1, <2>1, RunningSumAtLeast DEF SumFor, c
<1> QED BY <1>2, <1>3, <1>4

LEMMA NothingCollected == SumKept(<<>>) = 0
<1>1. <<>> \in Seq(PaymentRow) /\ Len(<<>>) = 0
  OBVIOUS
<1> QED BY <1>1, ColumnsAreNumbers, RunningSumDef DEF SumKept

\* A payment adds its amount to the invoice and to its row.
LEMMA SumsAppend ==
  ASSUME NEW P \in Seq(PaymentRow), NEW e \in PaymentRow, NEW k
  PROVE  /\ Append(P, e) \in Seq(PaymentRow)
         /\ e.completed => SumKept(Append(P, e)) = SumKept(P) + e.amount
         /\ SumFor(Append(P, e), k) = SumFor(P, k) + (IF e.row = k THEN e.amount ELSE 0)
<1> DEFINE n == Len(P)
           Q == Append(P, e)
<1>1. n \in Nat /\ Q \in Seq(PaymentRow) /\ Len(Q) = n + 1 /\ DOMAIN P = 1 .. n
      /\ DOMAIN Q = 1 .. n + 1 /\ Q[n + 1] = e /\ \A p \in 1 .. n : Q[p] = P[p]
  OBVIOUS
<1>2. e.completed => SumKept(Q) = SumKept(P) + e.amount
  <2> DEFINE c == KeptIn(P)
             d == KeptIn(Q)
  <2>1. c \in [Nat -> Int] /\ d \in [Nat -> Int]
    BY <1>1, ColumnsAreNumbers
  <2>2. \A p \in 1 .. n : d[p] = c[p]
    BY <1>1 DEF KeptIn
  <2>3. e.completed => d[n + 1] = e.amount
    BY <1>1 DEF KeptIn
  <2> HIDE DEF c, d, Q, n
  <2>4. RunningSum(d)[n] = RunningSum(c)[n]
    BY <1>1, <2>1, <2>2, RunningSumSame
  <2>5. RunningSum(d)[n + 1] = RunningSum(d)[n] + d[n + 1]
    BY <1>1, <2>1, RunningSumDef
  <2> QED BY <1>1, <2>3, <2>4, <2>5 DEF SumKept, c, d, n
<1>3. SumFor(Q, k) = SumFor(P, k) + (IF e.row = k THEN e.amount ELSE 0)
  <2> DEFINE c == ForIn(P, k)
             d == ForIn(Q, k)
  <2>1. c \in [Nat -> Int] /\ d \in [Nat -> Int]
    BY <1>1, ColumnsAreNumbers
  <2>2. \A p \in 1 .. n : d[p] = c[p]
    BY <1>1 DEF ForIn
  <2>3. d[n + 1] = IF e.row = k THEN e.amount ELSE 0
    BY <1>1 DEF ForIn
  <2> HIDE DEF c, d, Q, n
  <2>4. RunningSum(d)[n] = RunningSum(c)[n]
    BY <1>1, <2>1, <2>2, RunningSumSame
  <2>5. RunningSum(d)[n + 1] = RunningSum(d)[n] + d[n + 1]
    BY <1>1, <2>1, RunningSumDef
  <2> QED BY <1>1, <2>3, <2>4, <2>5 DEF SumFor, c, d, n
<1> QED BY <1>1, <1>2, <1>3

\* A reversal takes its amount from the invoice, and nothing from what was ever
\* paid for a row.
LEMMA SumsMark ==
  ASSUME NEW P \in Seq(PaymentRow), NEW m \in DOMAIN P, P[m].completed, NEW k
  PROVE  LET Q == [P EXCEPT ![m].completed = FALSE]
         IN  /\ Q \in Seq(PaymentRow) /\ Len(Q) = Len(P)
             /\ SumKept(Q) = SumKept(P) - P[m].amount
             /\ SumFor(Q, k) = SumFor(P, k)
<1> DEFINE n == Len(P)
           Q == [P EXCEPT ![m].completed = FALSE]
<1>1. n \in Nat /\ m \in 1 .. n /\ DOMAIN P = 1 .. n
  OBVIOUS
<1>2. Q \in [1 .. n -> PaymentRow]
  <2>1. P \in [1 .. n -> PaymentRow]
    BY <1>1
  <2>2. [P[m] EXCEPT !.completed = FALSE] \in PaymentRow
    BY <1>1, <2>1 DEF PaymentRow
  <2> QED BY <1>1, <2>1, <2>2
<1>3. Q \in Seq(PaymentRow) /\ Len(Q) = n /\ DOMAIN Q = 1 .. n
  BY <1>1, <1>2
<1>4. /\ Q[m].completed = FALSE /\ Q[m].row = P[m].row /\ Q[m].amount = P[m].amount
      /\ \A p \in 1 .. n : p # m => Q[p] = P[p]
  <2>1. P[m] \in PaymentRow
    BY <1>1, PaymentColumns
  <2> QED BY <1>1, <2>1 DEF PaymentRow
<1>5. P[m].amount \in Int
  BY PaymentColumns
<1> HIDE DEF Q
<1>6. SumKept(Q) = SumKept(P) - P[m].amount
  <2> DEFINE c == KeptIn(P)
             d == KeptIn(Q)
  <2>1. c \in [Nat -> Int] /\ d \in [Nat -> Int]
    BY <1>3, ColumnsAreNumbers
  <2>2. \A p \in 1 .. n : p # m => d[p] = c[p]
    BY <1>1, <1>3, <1>4 DEF KeptIn
  <2>3. d[m] = 0 /\ c[m] = P[m].amount
    BY <1>1, <1>3, <1>4 DEF KeptIn
  <2> HIDE DEF c, d, n
  <2>4. RunningSum(d)[n] = RunningSum(c)[n] + d[m] - c[m]
    BY <1>1, <2>1, <2>2, RunningSumChange
  <2>5. RunningSum(c)[n] \in Int
    BY <1>1, <2>1, RunningSumDef
  <2> QED BY <1>3, <1>5, <2>3, <2>4, <2>5 DEF SumKept, c, d, n
<1>7. SumFor(Q, k) = SumFor(P, k)
  <2> DEFINE c == ForIn(P, k)
             d == ForIn(Q, k)
  <2>1. c \in [Nat -> Int] /\ d \in [Nat -> Int]
    BY <1>3, ColumnsAreNumbers
  <2>2. \A p \in 1 .. n : d[p] = c[p]
    BY <1>1, <1>3, <1>4 DEF ForIn
  <2> HIDE DEF c, d, n
  <2> QED BY <1>1, <1>3, <2>1, <2>2, RunningSumSame DEF SumFor, c, d, n
<1> QED BY <1>3, <1>6, <1>7 DEF Q

-----------------------------------------------------------------------------
(* The parts of the invariant *)

\* The tables, without the requests.
TablesType ==
    /\ invoice \in InvoiceRow
    /\ payments \in Seq(PaymentRow)
    /\ plan \in [status : PlanStatus, total : Int]
    /\ schedule \in Seq(ScheduleRow) /\ Len(schedule) \in Counts \cup {0}

TablesInv ==
    /\ TablesType
    /\ InvoiceNeverOvercollected
    /\ ScheduleNeverOverstates
    /\ PaidRowWasCollected
    /\ RowsComeWithPlan
    /\ NoRowCancelled

ClockType == elapsed \in 0 .. Len(schedule) /\ sweep \subseteq Rows
RequestsType == req \in [Requests -> Request] /\ begun \in 0 .. MaxRequests

LEMMA Parts ==
  /\ IInv <=> TablesInv /\ ClockType /\ RequestsType /\ \A r \in Requests : RequestInv(req[r])
  /\ IInv' <=> TablesInv' /\ ClockType' /\ RequestsType' /\ \A r \in Requests : RequestInv(req[r])'
<1>1. IInv <=> TablesInv /\ ClockType /\ RequestsType /\ \A r \in Requests : RequestInv(req[r])
  BY DEF IInv, TypeOK, TablesInv, TablesType, ClockType, RequestsType
<1>2. IInv' <=> TablesInv' /\ ClockType' /\ RequestsType' /\ \A r \in Requests : RequestInv(req[r])'
  BY DEF IInv, TypeOK, TablesInv, TablesType, ClockType, RequestsType
<1> QED BY <1>1, <1>2

\* What a schedule holds, column by column.
LEMMA ScheduleColumns ==
  ASSUME NEW S \in Seq(ScheduleRow)
  PROVE  \A k \in DOMAIN S : /\ S[k] \in ScheduleRow
                             /\ S[k].due \in Nat /\ S[k].paid \in Nat /\ S[k].status \in RowStatus
<1>1. \A k \in DOMAIN S : S[k] \in ScheduleRow
  OBVIOUS
<1> QED BY <1>1 DEF ScheduleRow

\* What a request holds, field by field.
LEMMA RequestFields ==
  ASSUME NEW x \in Request
  PROVE  /\ x.invoice \in InvoiceRow /\ x.invoice.version \in Nat /\ x.invoice.paid \in Nat
         /\ x.status \in PlanStatus /\ x.count \in Nat /\ x.amount \in Int /\ x.row \in Nat
         /\ x.copy \in ScheduleRow /\ x.copy.due \in Nat /\ x.copy.paid \in Nat
BY DEF Request, InvoiceRow, ScheduleRow

\* An invoice row with new columns.
LEMMA InvoiceWritten ==
  ASSUME NEW status \in {"Active", "Cancelled"}, NEW paid \in Nat, NEW version \in Nat,
         invoice' = [status |-> status, paid |-> paid, version |-> version]
  PROVE  invoice' \in InvoiceRow /\ invoice'.paid = paid /\ invoice'.version = version
BY DEF InvoiceRow

LEMMA GrossIsNumber ==
  ASSUME TablesType, NEW k
  PROVE  GrossPaid(k) \in Nat
BY SumsOfModel, SumsAreNumbers DEF TablesType

LEMMA GrossIsNumberNext ==
  ASSUME TablesType', NEW k
  PROVE  GrossPaid(k)' \in Nat
BY SumsOfModel, SumsAreNumbers DEF TablesType

\* The requests after a step of request r.
LEMMA RequestsAfter ==
  ASSUME RequestsType, NEW r \in Requests, NEW x, req' = [req EXCEPT ![r] = x]
  PROVE  /\ req'[r] = x /\ \A s \in Requests : s # r => req'[s] = req[s]
         /\ x \in Request => req' \in [Requests -> Request]
BY DEF RequestsType

LEMMA IdleIsOK == Idle \in Request /\ RequestInv(Idle) /\ RequestInv(Idle)'
BY DEF Idle, Request, NewInvoice, InvoiceRow, PlanStatus, NewRow, ScheduleRow, RowStatus, RequestInv

\* What every step keeps of the tables for the requests under way: rows stay and
\* keep their AmountDue, what was paid for them grows, and the invoice is not
\* written without a new version.
Growth ==
    /\ Rows' = Rows
    /\ \A k \in Rows : /\ schedule'[k].due = schedule[k].due
                        /\ GrossPaid(k) \in Nat /\ GrossPaid(k)' \in Nat
                        /\ GrossPaid(k) <= GrossPaid(k)'
    /\ invoice' = invoice \/ invoice'.version = invoice.version + 1

LEMMA RequestKept ==
  ASSUME TablesType, NEW x \in Request, RequestInv(x), Growth
  PROVE  RequestInv(x)'
<1>1. /\ x.copy.due \in Nat /\ x.copy.paid \in Nat /\ x.amount \in Int /\ x.invoice.version \in Nat
      /\ invoice.version \in Nat
  BY RequestFields DEF TablesType, InvoiceRow
<1>2. CASE x.op = "Pay"
  <2>1. PayInv(x)
    BY <1>2 DEF RequestInv
  <2>2. x.row \in Rows /\ x.row \in Rows' /\ schedule'[x.row].due = schedule[x.row].due
    BY <2>1 DEF PayInv, Growth
  <2>3. /\ GrossPaid(x.row) \in Nat /\ GrossPaid(x.row)' \in Nat
        /\ GrossPaid(x.row) <= GrossPaid(x.row)'
    BY <2>2 DEF Growth
  <2>4. CASE x.at = "loaded"
    <3>1. x.copy.paid <= GrossPaid(x.row)'
      BY <1>1, <2>1, <2>3, <2>4 DEF PayInv
    <3>2. x.invoice.version <= invoice'.version /\ (x.invoice.version = invoice'.version => x.invoice = invoice')
      BY <1>1, <2>1, <2>4 DEF PayInv, Growth
    <3> QED BY <1>2, <2>1, <2>2, <2>4, <3>1, <3>2 DEF PayInv, RequestInv
  <2>5. CASE x.at # "loaded"
    <3>1. x.copy.paid + x.amount <= GrossPaid(x.row)'
      BY <1>1, <2>1, <2>3, <2>5 DEF PayInv
    <3>2. x.at = "settled" => \A k \in Rows' : GrossPaid(k)' >= schedule'[k].due
      <4> SUFFICES ASSUME x.at = "settled", NEW k \in Rows
                   PROVE  GrossPaid(k)' >= schedule'[k].due
        BY DEF Growth
      <4>1. GrossPaid(k) >= schedule[k].due /\ schedule'[k].due = schedule[k].due
        BY <2>1 DEF PayInv, Growth
      <4>2. schedule[k].due \in Nat
        BY ScheduleColumns DEF TablesType, Rows
      <4>3. GrossPaid(k) \in Nat /\ GrossPaid(k)' \in Nat /\ GrossPaid(k) <= GrossPaid(k)'
        BY DEF Growth
      <4> QED BY <4>1, <4>2, <4>3
    <3> QED BY <1>2, <2>1, <2>2, <2>5, <3>1, <3>2 DEF PayInv, RequestInv
  <2> QED BY <2>4, <2>5
<1>3. CASE x.op # "Pay"
  BY <1>3 DEF RequestInv, CreateInv
<1> QED BY <1>2, <1>3

\* The requests that take no step keep their part of the invariant.
LEMMA OthersKept ==
  ASSUME IInv, Growth, NEW s \in Requests, req'[s] = req[s]
  PROVE  RequestInv(req[s])'
<1>1. TablesType /\ RequestsType /\ RequestInv(req[s])
  BY Parts DEF TablesInv
<1>2. ASSUME NEW y, y = req[s] PROVE RequestInv(y)'
  <2>1. y \in Request /\ RequestInv(y)
    BY <1>1, <1>2 DEF RequestsType
  <2> QED BY <1>1, <2>1, RequestKept
<1> QED BY <1>2

\* A step of request r that leaves it in state x,
LEMMA StepOfRequest ==
  ASSUME IInv, TablesInv', ClockType', Growth,
         NEW r \in Requests, NEW x \in Request, req' = [req EXCEPT ![r] = x],
         RequestInv(x)', begun' \in 0 .. MaxRequests
  PROVE  IInv'
<1>1. RequestsType
  BY Parts
<1>2. req'[r] = x /\ req' \in [Requests -> Request] /\ \A s \in Requests : s # r => req'[s] = req[s]
  BY <1>1, RequestsAfter
<1>3. \A s \in Requests : RequestInv(req[s])'
  <2> SUFFICES ASSUME NEW s \in Requests PROVE RequestInv(req[s])'
    OBVIOUS
  <2>1. CASE s = r
    BY <1>2, <2>1
  <2>2. CASE s # r
    BY <1>2, <2>2, OthersKept
  <2> QED BY <2>1, <2>2
<1> QED BY <1>2, <1>3, Parts DEF RequestsType

\* and a step of nobody's request.
LEMMA StepOfOthers ==
  ASSUME IInv, TablesInv', ClockType', Growth, UNCHANGED <<req, begun>>
  PROVE  IInv'
<1>1. \A s \in Requests : RequestInv(req[s])'
  BY OthersKept
<1>2. RequestsType'
  BY Parts DEF RequestsType
<1> QED BY <1>1, <1>2, Parts

\* The tables and sums of a step that writes none of them.
LEMMA TablesKept ==
  ASSUME TablesInv, UNCHANGED tables
  PROVE  TablesInv' /\ Growth
<1>1. invoice' = invoice /\ payments' = payments /\ plan' = plan /\ schedule' = schedule
  BY DEF tables
<1>2. Collected' = Collected /\ \A k : GrossPaid(k)' = GrossPaid(k)
  BY <1>1, SumsOfModel
<1>3. \A k : GrossPaid(k) \in Nat
  BY GrossIsNumber DEF TablesInv
<1>4. Growth
  BY <1>1, <1>2, <1>3 DEF Growth, Rows
<1> QED BY <1>1, <1>2, <1>4
        DEF TablesInv, TablesType, InvoiceNeverOvercollected, ScheduleNeverOverstates,
            PaidRowWasCollected, RowsComeWithPlan, NoRowCancelled, Rows

\* A request that only reads, waits or ends.
LEMMA QuietStep ==
  ASSUME IInv, NEW r \in Requests, NEW x \in Request, req' = [req EXCEPT ![r] = x],
         RequestInv(x), begun' \in 0 .. MaxRequests, UNCHANGED <<tables, elapsed, sweep>>
  PROVE  IInv'
<1>1. TablesInv /\ ClockType
  BY Parts
<1>2. TablesInv' /\ Growth
  BY <1>1, TablesKept
<1>3. ClockType'
  BY <1>1 DEF ClockType, tables, Rows
<1>4. RequestInv(x)'
  BY <1>1, <1>2, RequestKept DEF TablesInv
<1> QED BY <1>2, <1>3, <1>4, StepOfRequest

-----------------------------------------------------------------------------
(* What the steps do to the tables *)

\* A payment within the balance of the invoice.
LEMMA PostStep ==
  ASSUME TablesInv, NEW amount \in Amounts, NEW row \in Nat, invoice.paid + amount <= InvoiceTotal,
         Post(amount, row), UNCHANGED <<plan, schedule>>
  PROVE  /\ TablesInv' /\ Growth
         /\ GrossPaid(row)' = GrossPaid(row) + amount
<1> DEFINE e == [row |-> row, amount |-> amount, completed |-> TRUE]
<1>1. amount \in Nat \ {0} /\ InvoiceTotal \in Nat
  BY AmountsAssumption, InvoiceTotalAssumption
<1>2. /\ invoice \in InvoiceRow /\ payments \in Seq(PaymentRow)
      /\ invoice.paid \in Nat /\ invoice.version \in Nat
  BY DEF TablesInv, TablesType, InvoiceRow
<1>3. e \in PaymentRow /\ e.row = row /\ e.amount = amount /\ e.completed = TRUE
  BY DEF PaymentRow
<1>4. payments' = Append(payments, e)
  BY DEF Post
<1>5. /\ invoice' = [invoice EXCEPT !.paid = @ + amount, !.version = @ + 1]
      /\ plan' = plan /\ schedule' = schedule /\ Rows' = Rows
  BY DEF Post, Rows
<1> HIDE DEF e
<1>6. /\ invoice' \in InvoiceRow /\ invoice'.paid = invoice.paid + amount
      /\ invoice'.version = invoice.version + 1
  <2>1. invoice.status \in {"Active", "Cancelled"} /\ invoice.paid + amount \in Nat
    BY <1>1, <1>2 DEF InvoiceRow
  <2>2. invoice' = [status |-> invoice.status, paid |-> invoice.paid + amount,
                    version |-> invoice.version + 1]
    BY <1>2, <1>5 DEF InvoiceRow
  <2>3. invoice.version + 1 \in Nat
    BY <1>2
  <2> QED BY <2>1, <2>2, <2>3, InvoiceWritten
<1>7. /\ payments' \in Seq(PaymentRow) /\ Collected' = Collected + amount
      /\ \A k : GrossPaid(k)' = GrossPaid(k) + (IF row = k THEN amount ELSE 0)
  <2>1. /\ Append(payments, e) \in Seq(PaymentRow)
        /\ SumKept(Append(payments, e)) = SumKept(payments) + amount
        /\ \A k : SumFor(Append(payments, e), k) = SumFor(payments, k) + (IF row = k THEN amount ELSE 0)
    BY <1>2, <1>3, SumsAppend
  <2> QED BY <1>4, <2>1, SumsOfModel
<1>8. \A k : GrossPaid(k) \in Nat /\ GrossPaid(k)' \in Nat /\ GrossPaid(k) <= GrossPaid(k)'
  <2> SUFFICES ASSUME NEW k
               PROVE  GrossPaid(k) \in Nat /\ GrossPaid(k)' \in Nat /\ GrossPaid(k) <= GrossPaid(k)'
    OBVIOUS
  <2>1. GrossPaid(k) \in Nat
    BY GrossIsNumber DEF TablesInv
  <2>2. GrossPaid(k)' = GrossPaid(k) + amount \/ GrossPaid(k)' = GrossPaid(k)
    BY <1>1, <1>7, <2>1
  <2> QED BY <1>1, <2>1, <2>2
<1>9. Growth
  BY <1>5, <1>6, <1>8 DEF Growth
<1>10. TablesType'
  BY <1>5, <1>6, <1>7 DEF TablesInv, TablesType
<1>11. InvoiceNeverOvercollected'
  BY <1>1, <1>2, <1>6, <1>7 DEF TablesInv, InvoiceNeverOvercollected
<1>12. ScheduleNeverOverstates' /\ PaidRowWasCollected'
  <2> SUFFICES ASSUME NEW k \in Rows
               PROVE  /\ schedule[k].paid <= GrossPaid(k)'
                      /\ schedule[k].paid \in 0 .. schedule[k].due
                      /\ schedule[k].status = "Paid" => GrossPaid(k)' >= schedule[k].due
    BY <1>5 DEF ScheduleNeverOverstates, PaidRowWasCollected
  <2>1. schedule[k].due \in Nat /\ schedule[k].paid \in Nat
    BY ScheduleColumns DEF TablesInv, TablesType, Rows
  <2> QED BY <1>8, <2>1 DEF TablesInv, ScheduleNeverOverstates, PaidRowWasCollected
<1>13. RowsComeWithPlan' /\ NoRowCancelled'
  BY <1>5 DEF TablesInv, RowsComeWithPlan, NoRowCancelled
<1>14. GrossPaid(row)' = GrossPaid(row) + amount
  BY <1>7
<1> QED BY <1>9, <1>10, <1>11, <1>12, <1>13, <1>14 DEF TablesInv

\* A step that leaves plan, schedule and everything ever paid for a row as they
\* were, and gives the invoice a new version.
LEMMA InvoiceStep ==
  ASSUME TablesInv, invoice' \in InvoiceRow, invoice'.version = invoice.version + 1,
         payments' \in Seq(PaymentRow), \A k : GrossPaid(k)' = GrossPaid(k),
         UNCHANGED <<plan, schedule>>, InvoiceNeverOvercollected'
  PROVE  TablesInv' /\ Growth
<1>1. plan' = plan /\ schedule' = schedule /\ Rows' = Rows
  BY DEF Rows
<1>2. \A k : GrossPaid(k) \in Nat
  BY GrossIsNumber DEF TablesInv
<1>3. Growth
  BY <1>1, <1>2 DEF Growth
<1> QED BY <1>1, <1>3
        DEF TablesInv, TablesType, ScheduleNeverOverstates, PaidRowWasCollected,
            RowsComeWithPlan, NoRowCancelled

\* A reversal.
LEMMA ReverseStep ==
  ASSUME TablesInv, NEW m \in DOMAIN payments, ReversePayment(m)
  PROVE  TablesInv' /\ Growth
<1>1. /\ invoice \in InvoiceRow /\ payments \in Seq(PaymentRow)
      /\ invoice.paid \in Nat /\ invoice.version \in Nat /\ InvoiceTotal \in Nat
  BY InvoiceTotalAssumption DEF TablesInv, TablesType, InvoiceRow
<1>2. /\ payments[m].completed
      /\ payments' = [payments EXCEPT ![m].completed = FALSE]
      /\ invoice' = [invoice EXCEPT !.paid = @ - payments[m].amount, !.version = @ + 1]
      /\ plan' = plan /\ schedule' = schedule
  BY DEF ReversePayment, Reversible
<1>3. payments[m].amount \in Nat
  BY <1>1, PaymentColumns
<1>4. /\ payments' \in Seq(PaymentRow) /\ Collected' = Collected - payments[m].amount
      /\ \A k : GrossPaid(k)' = GrossPaid(k)
  <2>1. /\ payments' \in Seq(PaymentRow)
        /\ SumKept(payments') = SumKept(payments) - payments[m].amount
        /\ \A k : SumFor(payments', k) = SumFor(payments, k)
    BY <1>1, <1>2, SumsMark
  <2> QED BY <2>1, SumsOfModel
<1>5. Collected' \in Nat
  BY <1>4, SumsOfModel, SumsAreNumbers
<1>6. invoice.paid = Collected /\ invoice.paid <= InvoiceTotal
  BY <1>1 DEF TablesInv, InvoiceNeverOvercollected
<1>7. invoice.paid - payments[m].amount \in 0 .. InvoiceTotal
  BY <1>1, <1>3, <1>4, <1>5, <1>6
<1>8. /\ invoice' \in InvoiceRow /\ invoice'.paid = invoice.paid - payments[m].amount
      /\ invoice'.version = invoice.version + 1
  <2>1. invoice.status \in {"Active", "Cancelled"} /\ invoice.paid - payments[m].amount \in Nat
    BY <1>1, <1>7 DEF InvoiceRow
  <2>2. invoice' = [status |-> invoice.status, paid |-> invoice.paid - payments[m].amount,
                    version |-> invoice.version + 1]
    BY <1>1, <1>2 DEF InvoiceRow
  <2>3. invoice.version + 1 \in Nat
    BY <1>1
  <2> QED BY <2>1, <2>2, <2>3, InvoiceWritten
<1>9. InvoiceNeverOvercollected'
  BY <1>4, <1>6, <1>7, <1>8 DEF InvoiceNeverOvercollected
<1> QED BY <1>2, <1>4, <1>8, <1>9, InvoiceStep

\* The cancellation of the invoice.
LEMMA CancelInvoiceStep ==
  ASSUME TablesInv, CancelInvoice
  PROVE  TablesInv' /\ Growth
<1>1. /\ invoice \in InvoiceRow /\ invoice.version \in Nat /\ payments \in Seq(PaymentRow)
  BY DEF TablesInv, TablesType, InvoiceRow
<1>2. /\ invoice' = [invoice EXCEPT !.status = "Cancelled", !.version = @ + 1]
      /\ payments' = payments /\ plan' = plan /\ schedule' = schedule
  BY DEF CancelInvoice
<1>3. Collected' = Collected /\ \A k : GrossPaid(k)' = GrossPaid(k)
  BY <1>2, SumsOfModel
<1>4. invoice' \in InvoiceRow /\ invoice'.paid = invoice.paid /\ invoice'.version = invoice.version + 1
  <2>1. invoice' = [status |-> "Cancelled", paid |-> invoice.paid, version |-> invoice.version + 1]
    BY <1>1, <1>2 DEF InvoiceRow
  <2>2. invoice.paid \in Nat /\ invoice.version + 1 \in Nat
    BY <1>1 DEF InvoiceRow
  <2> QED BY <2>1, <2>2, InvoiceWritten
<1>5. InvoiceNeverOvercollected'
  BY <1>3, <1>4 DEF TablesInv, InvoiceNeverOvercollected
<1> QED BY <1>1, <1>2, <1>3, <1>4, <1>5, InvoiceStep

\* The status of the plan is written.
LEMMA PlanStep ==
  ASSUME TablesInv, NEW copy, NEW status \in PlanStatus \ {"None"}, WriteStatus(copy, status),
         UNCHANGED <<invoice, payments, schedule>>
  PROVE  TablesInv' /\ Growth
<1>1. invoice' = invoice /\ payments' = payments /\ schedule' = schedule /\ Rows' = Rows
  BY DEF Rows
<1>2. plan' = plan \/ plan' = [plan EXCEPT !.status = status]
  BY DEF WriteStatus
<1>3. plan' \in [status : PlanStatus, total : Int] /\ (plan'.status = "None" => plan.status = "None")
  BY <1>2 DEF TablesInv, TablesType
<1>4. Collected' = Collected /\ \A k : GrossPaid(k)' = GrossPaid(k)
  BY <1>1, SumsOfModel
<1>5. \A k : GrossPaid(k) \in Nat
  BY GrossIsNumber DEF TablesInv
<1>6. Growth
  BY <1>1, <1>4, <1>5 DEF Growth
<1> QED BY <1>1, <1>3, <1>4, <1>6
        DEF TablesInv, TablesType, InvoiceNeverOvercollected, ScheduleNeverOverstates,
            PaidRowWasCollected, RowsComeWithPlan, NoRowCancelled

\* The schedule is written: AmountDue stays, and what the new rows say was paid.
LEMMA ScheduleStep ==
  ASSUME TablesInv, UNCHANGED <<invoice, payments, plan>>,
         schedule' \in Seq(ScheduleRow), Len(schedule') = Len(schedule),
         \A k \in Rows : /\ schedule'[k].due = schedule[k].due
                         /\ schedule'[k].paid <= GrossPaid(k)
                         /\ schedule'[k].paid <= schedule[k].due
                         /\ schedule'[k].status = "Paid" => GrossPaid(k) >= schedule[k].due
                         /\ schedule'[k].status # "Cancelled"
  PROVE  TablesInv' /\ Growth
<1>1. /\ invoice' = invoice /\ payments' = payments /\ plan' = plan
      /\ Rows' = Rows /\ schedule \in Seq(ScheduleRow)
  BY DEF TablesInv, TablesType, Rows
<1>2. Collected' = Collected /\ \A k : GrossPaid(k)' = GrossPaid(k)
  BY <1>1, SumsOfModel
<1>3. \A k : GrossPaid(k) \in Nat
  BY GrossIsNumber DEF TablesInv
<1>4. Growth
  BY <1>1, <1>2, <1>3 DEF Growth
<1>5. TablesType'
  BY <1>1 DEF TablesInv, TablesType
<1>6. InvoiceNeverOvercollected'
  BY <1>1, <1>2 DEF TablesInv, InvoiceNeverOvercollected
<1>7. ScheduleNeverOverstates' /\ PaidRowWasCollected' /\ NoRowCancelled'
  <2> SUFFICES ASSUME NEW k \in Rows
               PROVE  /\ schedule'[k].paid <= GrossPaid(k)'
                      /\ schedule'[k].paid \in 0 .. schedule'[k].due
                      /\ schedule'[k].status = "Paid" => GrossPaid(k)' >= schedule'[k].due
                      /\ schedule'[k].status # "Cancelled"
    BY <1>1 DEF ScheduleNeverOverstates, PaidRowWasCollected, NoRowCancelled
  <2>1. schedule'[k].due \in Nat /\ schedule'[k].paid \in Nat
    BY <1>1, ScheduleColumns DEF Rows
  <2> QED BY <1>2, <2>1
<1>8. RowsComeWithPlan'
  <2>1. plan.status = "None" => schedule' = <<>>
    <3>1. plan.status = "None" => Len(schedule) = 0
      BY <1>1 DEF TablesInv, RowsComeWithPlan
    <3>2. Len(schedule') = 0 => schedule' = <<>>
      OBVIOUS
    <3> QED BY <3>1, <3>2
  <2> QED BY <1>1, <2>1 DEF RowsComeWithPlan
<1> QED BY <1>4, <1>5, <1>6, <1>7, <1>8 DEF TablesInv

-----------------------------------------------------------------------------
(* The steps of requests that only read *)

LEMMA LoadedFields ==
  ASSUME NEW op \in {"Create", "Approve", "Cancel", "Pay"}, NEW row \in InvoiceRow,
         NEW status \in PlanStatus, NEW n \in Nat, NEW amount \in Int, NEW k \in Nat,
         NEW copy \in ScheduleRow
  PROVE  Loaded(op, row, status, n, amount, k, copy) \in Request
BY DEF Loaded, Request

LEMMA BlankFields ==
  NewRow(0) \in ScheduleRow /\ NewInvoice \in InvoiceRow /\ "None" \in PlanStatus
BY DEF NewRow, ScheduleRow, RowStatus, NewInvoice, InvoiceRow, PlanStatus

\* A request begins: it has read what the invariant asks of it.
LEMMA BeginStep ==
  ASSUME IInv, NEW r \in Requests, NEW x \in Request, Begin(r, x), RequestInv(x),
         UNCHANGED <<tables, elapsed, sweep>>
  PROVE  IInv'
<1>1. begun \in 0 .. MaxRequests /\ MaxRequests \in Nat
  BY Parts, BoundsAssumption DEF RequestsType
<1>2. begun' \in 0 .. MaxRequests /\ req' = [req EXCEPT ![r] = x]
  BY <1>1 DEF Begin
<1> QED BY <1>2, QuietStep

LEMMA EndStep ==
  ASSUME IInv, NEW r \in Requests, End(r), UNCHANGED <<tables, elapsed, sweep>>
  PROVE  IInv'
<1>1. begun' \in 0 .. MaxRequests /\ req' = [req EXCEPT ![r] = Idle]
  BY Parts DEF RequestsType, End
<1> QED BY <1>1, IdleIsOK, QuietStep

LEMMA CreateLoadInv ==
  ASSUME IInv, NEW r \in Requests, NEW n \in Counts, NEW down \in DownPayments,
         CreateLoad(r, n, down)
  PROVE  IInv'
<1> DEFINE x == Loaded("Create", invoice, "None", n, Outstanding(invoice) - down, 0, NewRow(0))
<1>1. invoice \in InvoiceRow /\ invoice.paid \in Nat
  BY Parts DEF TablesInv, TablesType, InvoiceRow
<1>2. n \in Nat /\ down \in Nat
  BY CountsAssumption, DownPaymentsAssumption
<1>3. Outstanding(invoice) - down \in Nat \ {0}
  BY <1>1, <1>2, InvoiceTotalAssumption DEF CreateLoad, Outstanding
<1>4. /\ x \in Request /\ x.op = "Create" /\ x.at = "loaded" /\ x.count = n
      /\ x.amount = Outstanding(invoice) - down
  <2>1. Outstanding(invoice) - down \in Int /\ 0 \in Nat
    BY <1>3
  <2>2. x \in Request
    BY <1>1, <1>2, <2>1, BlankFields, LoadedFields
  <2> QED BY <2>2 DEF Loaded
<1>5. Begin(r, x) /\ UNCHANGED <<tables, elapsed, sweep>>
  BY DEF CreateLoad
<1> HIDE DEF x
<1>6. RequestInv(x)
  BY <1>3, <1>4 DEF RequestInv, CreateInv
<1> QED BY <1>4, <1>5, <1>6, BeginStep

LEMMA PlanLoadInv ==
  ASSUME IInv, NEW r \in Requests, NEW op \in {"Approve", "Cancel"}, PlanLoad(r, op)
  PROVE  IInv'
<1> DEFINE x == Loaded(op, NewInvoice, plan.status, 0, 0, 0, NewRow(0))
<1>1. plan.status \in PlanStatus
  BY Parts DEF TablesInv, TablesType
<1>2. x \in Request /\ x.op = op
  <2>1. x \in Request
    BY <1>1, BlankFields, LoadedFields
  <2> QED BY <2>1 DEF Loaded
<1>3. Begin(r, x) /\ UNCHANGED <<tables, elapsed, sweep>>
  BY DEF PlanLoad
<1> HIDE DEF x
<1>4. RequestInv(x)
  BY <1>2 DEF RequestInv
<1> QED BY <1>2, <1>3, <1>4, BeginStep

LEMMA PayLoadInv ==
  ASSUME IInv, NEW r \in Requests, NEW k \in Rows, NEW amount \in Amounts, PayLoad(r, k, amount)
  PROVE  IInv'
<1> DEFINE x == Loaded("Pay", invoice, plan.status, 0, amount, k, schedule[k])
<1>1. /\ invoice \in InvoiceRow /\ invoice.version \in Nat /\ plan.status \in PlanStatus
      /\ schedule \in Seq(ScheduleRow)
  BY Parts DEF TablesInv, TablesType, InvoiceRow
<1>2. /\ schedule[k] \in ScheduleRow /\ schedule[k].due \in Nat /\ schedule[k].paid \in Nat
      /\ k \in Nat /\ amount \in Nat
  BY <1>1, ScheduleColumns, AmountsAssumption DEF Rows
<1>3. /\ x \in Request /\ x.op = "Pay" /\ x.at = "loaded" /\ x.invoice = invoice
      /\ x.amount = amount /\ x.row = k /\ x.copy = schedule[k]
  <2>1. amount \in Int /\ 0 \in Nat
    BY <1>2
  <2>2. x \in Request
    BY <1>1, <1>2, <2>1, LoadedFields
  <2> QED BY <2>2 DEF Loaded
<1>4. schedule[k].paid <= GrossPaid(k)
  BY Parts DEF TablesInv, ScheduleNeverOverstates
<1>5. schedule[k].paid + amount <= schedule[k].due
  BY <1>2 DEF PayLoad
<1>6. Begin(r, x) /\ UNCHANGED <<tables, elapsed, sweep>>
  BY DEF PayLoad
<1> HIDE DEF x
<1>7. RequestInv(x)
  BY <1>1, <1>3, <1>4, <1>5 DEF RequestInv, PayInv
<1> QED BY <1>3, <1>6, <1>7, BeginStep

\* A request goes on from one place to another.
MovedTo(x, place) == [x EXCEPT !.at = place]

LEMMA ProceedFields ==
  ASSUME NEW x \in Request, NEW place \in {"posted", "saved", "settled"}, NEW y, y = MovedTo(x, place)
  PROVE  /\ y \in Request /\ y.at = place /\ y.op = x.op
         /\ y.row = x.row /\ y.amount = x.amount /\ y.copy = x.copy
BY DEF Request, MovedTo

LEMMA PayCheckInv ==
  ASSUME IInv, NEW r \in Requests, PayCheck(r)
  PROVE  IInv'
<1>1. CASE ~AllSettled
  BY <1>1, EndStep DEF PayCheck
<1>2. CASE AllSettled
  <2> DEFINE x == req[r]
             y == MovedTo(x, "settled")
  <2>1. x \in Request /\ x.op = "Pay" /\ x.at = "saved" /\ PayInv(x)
    BY Parts DEF RequestsType, RequestInv, PayCheck, At
  <2>2. y \in Request /\ y.at = "settled" /\ y.op = "Pay" /\ y.row = x.row /\ y.amount = x.amount
        /\ y.copy = x.copy
    BY <2>1, ProceedFields
  <2>3. \A k \in Rows : GrossPaid(k) >= schedule[k].due
    BY <1>2, Parts DEF AllSettled, TablesInv, NoRowCancelled, PaidRowWasCollected
  <2>4. req' = [req EXCEPT ![r] = y] /\ begun' = begun /\ UNCHANGED <<tables, elapsed, sweep>>
    BY <1>2 DEF PayCheck, Proceed, MovedTo
  <2>5. RequestInv(y)
    <3> HIDE DEF x, y
    <3> QED BY <2>1, <2>2, <2>3 DEF RequestInv, PayInv
  <2>6. begun' \in 0 .. MaxRequests
    BY <2>4, Parts DEF RequestsType
  <2> HIDE DEF y
  <2> QED BY <2>2, <2>4, <2>5, <2>6, QuietStep
<1> QED BY <1>1, <1>2

-----------------------------------------------------------------------------
(* The steps of requests that write *)

\* The columns a payment under way relies on are numbers.
LEMMA PayingFields ==
  ASSUME IInv, NEW r \in Requests, req[r].op = "Pay"
  PROVE  /\ req[r] \in Request /\ PayInv(req[r])
         /\ req[r].row \in Rows /\ req[r].row \in Nat
         /\ req[r].amount \in Amounts /\ req[r].amount \in Nat \ {0}
         /\ req[r].copy.paid \in Nat /\ req[r].copy.due \in Nat
<1>1. req[r] \in Request /\ PayInv(req[r])
  BY Parts DEF RequestsType, RequestInv
<1>2. req[r].row \in Rows /\ req[r].amount \in Amounts
  BY <1>1 DEF PayInv
<1>3. req[r].amount \in Nat \ {0}
  BY <1>2, AmountsAssumption
<1> QED BY <1>1, <1>2, <1>3, RequestFields

\* A paying request x goes on after a write, its payment being posted.
LEMMA PostedGoesOn ==
  ASSUME IInv, TablesInv', Growth, UNCHANGED <<elapsed, sweep>>,
         NEW r \in Requests, NEW x, x = req[r], x.op = "Pay", NEW place \in {"posted", "saved"},
         Proceed(r, place), x.copy.paid + x.amount <= GrossPaid(x.row)'
  PROVE  IInv'
<1>1. x \in Request /\ PayInv(x)
  BY PayingFields
<1>2. PICK y : y = MovedTo(x, place)
  OBVIOUS
<1>3. /\ y \in Request /\ y.at = place /\ y.op = "Pay" /\ y.row = x.row /\ y.amount = x.amount
      /\ y.copy = x.copy
  <2>1. place \in {"posted", "saved", "settled"}
    OBVIOUS
  <2> QED BY <1>1, <1>2, <2>1, ProceedFields
<1>4. req' = [req EXCEPT ![r] = y] /\ begun' = begun
  BY <1>2 DEF Proceed, MovedTo
<1>5. begun' \in 0 .. MaxRequests
  BY <1>4, Parts DEF RequestsType
<1>6. ClockType'
  <2>1. ClockType /\ TablesType /\ TablesType' /\ Rows' = Rows
    BY Parts DEF TablesInv, Growth
  <2>2. Len(schedule') = Len(schedule)
    BY <2>1 DEF Rows, TablesType
  <2> QED BY <2>1, <2>2 DEF ClockType
<1>7. RequestInv(y)'
  <2>1. y.row \in Rows' /\ y.amount \in Amounts /\ y.copy.due = schedule'[y.row].due
        /\ y.copy.paid + y.amount <= y.copy.due
    BY <1>1, <1>3 DEF PayInv, Growth
  <2>2. y.copy.paid + y.amount <= GrossPaid(y.row)'
    BY <1>3
  <2>3. y.at # "idle" /\ y.at # "loaded" /\ y.at # "settled"
    BY <1>3
  <2> QED BY <1>3, <2>1, <2>2, <2>3 DEF PayInv, RequestInv
<1> QED BY <1>3, <1>4, <1>5, <1>6, <1>7, StepOfRequest

LEMMA PayPostInv ==
  ASSUME IInv, NEW r \in Requests, PayPost(r)
  PROVE  IInv'
<1>0. PICK x : x = req[r]
  OBVIOUS
<1>1. x.op = "Pay" /\ x.at = "loaded"
  BY <1>0 DEF PayPost, At
<1>2. /\ x \in Request /\ PayInv(x) /\ x.row \in Rows /\ x.row \in Nat /\ x.amount \in Amounts
      /\ x.amount \in Nat \ {0} /\ x.copy.paid \in Nat /\ x.copy.due \in Nat
  BY <1>0, <1>1, PayingFields
<1>3. x.invoice = invoice /\ x.copy.paid <= GrossPaid(x.row)
  BY <1>0, <1>1, <1>2 DEF PayPost, InvoiceUnchanged, PayInv
<1>4. TablesInv /\ TablesType /\ invoice.paid \in Nat /\ InvoiceTotal \in Nat
  BY Parts, InvoiceTotalAssumption DEF TablesInv, TablesType, InvoiceRow
<1>5. invoice.paid + x.amount <= InvoiceTotal
  <2>1. x.amount <= InvoiceTotal - invoice.paid
    BY <1>0, <1>3 DEF PayPost, Payable, Outstanding
  <2> QED BY <1>2, <1>4, <2>1
<1>6. Post(x.amount, x.row) /\ UNCHANGED <<plan, schedule, elapsed, sweep>> /\ Proceed(r, "posted")
  BY <1>0 DEF PayPost
<1>7. TablesInv' /\ Growth /\ GrossPaid(x.row)' = GrossPaid(x.row) + x.amount
  <2>1. Post(x.amount, x.row) /\ plan' = plan /\ schedule' = schedule
    BY <1>6
  <2> QED BY <1>2, <1>4, <1>5, <2>1, PostStep
<1>8. x.copy.paid + x.amount <= GrossPaid(x.row)'
  <2>1. GrossPaid(x.row) \in Nat
    BY <1>4, GrossIsNumber
  <2> QED BY <1>2, <1>3, <1>7, <2>1
<1> QED BY <1>0, <1>1, <1>6, <1>7, <1>8, PostedGoesOn

LEMMA PaySaveRowInv ==
  ASSUME IInv, NEW r \in Requests, PaySaveRow(r)
  PROVE  IInv'
<1>0. PICK x : x = req[r]
  OBVIOUS
<1> DEFINE k == x.row
<1>1. x.op = "Pay" /\ x.at = "posted"
  BY <1>0 DEF PaySaveRow, At
<1>2. /\ x \in Request /\ PayInv(x) /\ x.row \in Rows /\ x.row \in Nat /\ x.amount \in Amounts
      /\ x.amount \in Nat \ {0} /\ x.copy.paid \in Nat /\ x.copy.due \in Nat
  BY <1>0, <1>1, PayingFields
<1>3. /\ x.copy.paid + x.amount <= GrossPaid(k) /\ x.copy.due = schedule[k].due
      /\ x.copy.paid + x.amount <= x.copy.due
  BY <1>1, <1>2 DEF PayInv
<1>4. TablesInv /\ schedule \in Seq(ScheduleRow)
  BY Parts DEF TablesInv, TablesType
<1>5. UNCHANGED <<invoice, payments, plan, elapsed, sweep>> /\ Proceed(r, "saved")
  BY DEF PaySaveRow
<1>6. PICK status \in {"Paid", schedule[k].status} :
        /\ schedule' = [schedule EXCEPT ![k] =
                          [due |-> schedule[k].due, paid |-> x.copy.paid + x.amount, status |-> status]]
        /\ status = "Paid" => x.copy.paid + x.amount >= x.copy.due \/ schedule[k].status = "Paid"
  <2> DEFINE new == IF FullyPaid(r) /\ req[r].copy.status # "Paid" THEN "Paid" ELSE schedule[k].status
  <2>1. new = "Paid" => x.copy.paid + x.amount >= x.copy.due \/ schedule[k].status = "Paid"
    BY <1>0 DEF FullyPaid, CreditedAmount
  <2>2. new \in {"Paid", schedule[k].status}
    OBVIOUS
  <2>3. schedule' = [schedule EXCEPT ![k] =
                       [due |-> schedule[k].due, paid |-> x.copy.paid + x.amount, status |-> new]]
    BY <1>0 DEF PaySaveRow, CreditedAmount
  <2> HIDE DEF new
  <2> QED BY <2>1, <2>2, <2>3
<1>7. /\ schedule' \in Seq(ScheduleRow) /\ Len(schedule') = Len(schedule)
      /\ schedule'[k].due = schedule[k].due /\ schedule'[k].paid = x.copy.paid + x.amount
      /\ schedule'[k].status = status
      /\ \A j \in Rows : j # k => schedule'[j] = schedule[j]
  <2> DEFINE row == [due |-> schedule[k].due, paid |-> x.copy.paid + x.amount, status |-> status]
  <2>1. schedule[k].due \in Nat /\ status \in RowStatus
    BY <1>2, <1>4, ScheduleColumns DEF Rows, RowStatus
  <2>2. x.copy.paid + x.amount \in Nat
    BY <1>2
  <2>3. row \in ScheduleRow /\ row.due = schedule[k].due /\ row.paid = x.copy.paid + x.amount
        /\ row.status = status
    BY <2>1, <2>2 DEF ScheduleRow
  <2>4. schedule' = [schedule EXCEPT ![k] = row]
    BY <1>6
  <2> HIDE DEF row
  <2> QED BY <1>2, <1>4, <2>3, <2>4 DEF Rows
<1>8. \A j \in Rows : /\ schedule'[j].due = schedule[j].due
                      /\ schedule'[j].paid <= GrossPaid(j)
                      /\ schedule'[j].paid <= schedule[j].due
                      /\ schedule'[j].status = "Paid" => GrossPaid(j) >= schedule[j].due
                      /\ schedule'[j].status # "Cancelled"
  <2> SUFFICES ASSUME NEW j \in Rows
               PROVE  /\ schedule'[j].due = schedule[j].due
                      /\ schedule'[j].paid <= GrossPaid(j)
                      /\ schedule'[j].paid <= schedule[j].due
                      /\ schedule'[j].status = "Paid" => GrossPaid(j) >= schedule[j].due
                      /\ schedule'[j].status # "Cancelled"
    OBVIOUS
  <2>1. /\ schedule[j].paid <= GrossPaid(j) /\ schedule[j].paid \in 0 .. schedule[j].due
        /\ schedule[j].status = "Paid" => GrossPaid(j) >= schedule[j].due
        /\ schedule[j].status # "Cancelled"
    BY <1>4 DEF TablesInv, ScheduleNeverOverstates, PaidRowWasCollected, NoRowCancelled
  <2>2. GrossPaid(j) \in Nat /\ schedule[j].due \in Nat
    BY <1>4, GrossIsNumber, ScheduleColumns DEF TablesInv, Rows
  <2>3. CASE j = k
    <3>1. schedule'[j].due = schedule[j].due /\ schedule'[j].paid <= GrossPaid(j)
          /\ schedule'[j].paid <= schedule[j].due
      BY <1>3, <1>7, <2>3
    <3>2. schedule'[j].status = "Paid" => GrossPaid(j) >= schedule[j].due
      BY <1>2, <1>3, <1>6, <1>7, <2>1, <2>2, <2>3
    <3>3. schedule'[j].status # "Cancelled"
      BY <1>6, <1>7, <2>1, <2>3
    <3> QED BY <3>1, <3>2, <3>3
  <2>4. CASE j # k
    <3>1. schedule'[j] = schedule[j]
      BY <1>7, <2>4
    <3> QED BY <2>1, <2>2, <3>1
  <2> QED BY <2>3, <2>4
<1>9. TablesInv' /\ Growth
  BY <1>4, <1>5, <1>7, <1>8, ScheduleStep
<1>10. x.copy.paid + x.amount <= GrossPaid(x.row)'
  <2>1. GrossPaid(k) \in Nat /\ GrossPaid(k)' \in Nat /\ GrossPaid(k) <= GrossPaid(k)'
    BY <1>2, <1>9 DEF Growth
  <2> QED BY <1>2, <1>3, <2>1
<1> QED BY <1>0, <1>1, <1>5, <1>9, <1>10, PostedGoesOn

\* The status of the plan is written, and the request ends.
LEMMA PlanWritten ==
  ASSUME IInv, NEW r \in Requests, NEW copy, NEW status \in PlanStatus \ {"None"},
         WriteStatus(copy, status), End(r), UNCHANGED <<invoice, payments, schedule, elapsed, sweep>>
  PROVE  IInv'
<1>1. TablesInv /\ ClockType
  BY Parts
<1>2. TablesInv' /\ Growth
  BY <1>1, PlanStep
<1>3. ClockType'
  BY <1>1 DEF ClockType, Rows
<1>4. begun' \in 0 .. MaxRequests /\ req' = [req EXCEPT ![r] = Idle]
  BY Parts DEF End, RequestsType
<1> QED BY <1>2, <1>3, <1>4, IdleIsOK, StepOfRequest

\* The amounts of a new schedule: no installment is negative.
LEMMA SplitIsNat ==
  ASSUME NEW t \in Nat, NEW n \in Nat \ {0}
  PROVE  \A k \in 1 .. n : Split(t, n)[k] \in Nat
<1> DEFINE base == BaseAmount(t, n)
<1>1. base \in Nat /\ n * base <= t
  BY DEF BaseAmount
<1> HIDE DEF base
<1>2. (n - 1) * base = n * base - base /\ n * base \in Nat
  BY <1>1
<1>3. t - (n - 1) * base \in Nat
  BY <1>1, <1>2
<1> QED BY <1>1, <1>3 DEF Split, base

LEMMA ScheduleGenerated ==
  ASSUME NEW t \in Nat, NEW n \in Counts
  PROVE  /\ GenerateSchedule(t, n) \in Seq(ScheduleRow)
         /\ Len(GenerateSchedule(t, n)) = n
         /\ \A k \in 1 .. n : /\ GenerateSchedule(t, n)[k].paid = 0
                              /\ GenerateSchedule(t, n)[k].status = "Pending"
<1> DEFINE S == GenerateSchedule(t, n)
<1>1. n \in Nat \ {0}
  BY CountsAssumption
<1>2. \A k \in 1 .. n : Split(t, n)[k] \in Nat
  BY <1>1, SplitIsNat
<1>3. ASSUME NEW due \in Nat
      PROVE  NewRow(due) \in ScheduleRow /\ NewRow(due).paid = 0 /\ NewRow(due).status = "Pending"
  BY DEF NewRow, ScheduleRow, RowStatus
<1>4. S = [k \in 1 .. n |-> NewRow(Split(t, n)[k])]
  BY DEF GenerateSchedule
<1> HIDE DEF S
<1>5. S \in [1 .. n -> ScheduleRow] /\ \A k \in 1 .. n : S[k].paid = 0 /\ S[k].status = "Pending"
  BY <1>2, <1>3, <1>4
<1>6. S \in Seq(ScheduleRow) /\ Len(S) = n
  BY <1>1, <1>5
<1> QED BY <1>5, <1>6 DEF S

\* A plan is created with its rows: nobody can be paying an installment yet.
LEMMA CreateSaveInv ==
  ASSUME IInv, NEW r \in Requests, CreateSave(r)
  PROVE  IInv'
<1>0. PICK x : x = req[r]
  OBVIOUS
<1>1. TablesInv /\ TablesType /\ ClockType /\ RequestsType /\ schedule = <<>>
  BY Parts DEF TablesInv, RowsComeWithPlan, CreateSave
<1>2. x \in Request /\ CreateInv(x)
  BY <1>0, Parts DEF RequestsType, RequestInv, CreateSave, At
<1>3. x.amount \in Nat /\ x.count \in Counts
  BY <1>2 DEF CreateInv
<1>4. /\ plan' = [status |-> "PendingApproval", total |-> x.amount]
      /\ schedule' = GenerateSchedule(x.amount, x.count)
      /\ invoice' = invoice /\ payments' = payments /\ elapsed' = elapsed /\ sweep' = sweep
      /\ req' = [req EXCEPT ![r] = Idle] /\ begun' = begun
  BY <1>0 DEF CreateSave, End
<1>5. /\ schedule' \in Seq(ScheduleRow) /\ Len(schedule') = x.count /\ x.count \in Nat
      /\ Rows' = 1 .. x.count
      /\ \A k \in Rows' : schedule'[k].paid = 0 /\ schedule'[k].status = "Pending"
                          /\ schedule'[k].due \in Nat
  <2>1. schedule' \in Seq(ScheduleRow) /\ Len(schedule') = x.count
        /\ \A k \in 1 .. x.count : schedule'[k].paid = 0 /\ schedule'[k].status = "Pending"
    BY <1>3, <1>4, ScheduleGenerated
  <2>2. x.count \in Nat
    BY <1>3, CountsAssumption
  <2>3. Rows' = 1 .. x.count
    BY <2>1, <2>2 DEF Rows
  <2>4. \A k \in Rows' : schedule'[k].due \in Nat
    BY <2>1, ScheduleColumns DEF Rows
  <2> QED BY <2>1, <2>2, <2>3, <2>4
<1>6. TablesType'
  <2>1. plan' \in [status : PlanStatus, total : Int]
    BY <1>3, <1>4 DEF PlanStatus
  <2> QED BY <1>1, <1>3, <1>4, <1>5, <2>1 DEF TablesType
<1>7. TablesInv'
  <2>1. Collected' = Collected /\ \A k : GrossPaid(k)' \in Nat
    BY <1>4, <1>6, SumsOfModel, GrossIsNumberNext
  <2>2. InvoiceNeverOvercollected'
    BY <1>1, <1>4, <2>1 DEF TablesInv, InvoiceNeverOvercollected
  <2>3. ScheduleNeverOverstates' /\ PaidRowWasCollected' /\ NoRowCancelled'
    BY <1>5, <2>1 DEF ScheduleNeverOverstates, PaidRowWasCollected, NoRowCancelled
  <2>4. RowsComeWithPlan'
    BY <1>4 DEF RowsComeWithPlan
  <2> QED BY <1>6, <2>2, <2>3, <2>4 DEF TablesInv
<1>8. ClockType'
  <2>1. Len(schedule) = 0 /\ Rows = {}
    BY <1>1 DEF Rows
  <2>2. elapsed = 0 /\ sweep = {}
    BY <1>1, <2>1 DEF ClockType
  <2> QED BY <1>4, <1>5, <2>2 DEF ClockType
<1>9. req' \in [Requests -> Request] /\ req'[r] = Idle /\ \A s \in Requests : s # r => req'[s] = req[s]
  BY <1>1, <1>4, IdleIsOK, RequestsAfter
<1>10. \A s \in Requests : RequestInv(req[s])'
  <2> SUFFICES ASSUME NEW s \in Requests PROVE RequestInv(req[s])'
    OBVIOUS
  <2>1. CASE s = r
    <3>1. req'[s] = Idle
      BY <1>9, <2>1
    <3> QED BY <3>1 DEF RequestInv, Idle
  <2>2. CASE s # r
    <3>1. req'[s] = req[s] /\ RequestInv(req[s])
      BY <1>9, <2>2, Parts
    <3>2. req[s].op # "Pay"
      BY <1>1, <3>1 DEF RequestInv, PayInv, Rows
    <3> QED BY <3>1, <3>2 DEF RequestInv, CreateInv
  <2> QED BY <2>1, <2>2
<1> QED BY <1>1, <1>4, <1>7, <1>8, <1>9, <1>10, Parts DEF RequestsType

-----------------------------------------------------------------------------
(* The steps of everybody else *)

\* A step on the invoice by somebody else.
LEMMA InvoiceOnly ==
  ASSUME IInv, TablesInv', Growth, UNCHANGED <<schedule, elapsed, sweep, req, begun>>
  PROVE  IInv'
<1>1. ClockType'
  BY Parts DEF ClockType, Rows
<1> QED BY <1>1, StepOfOthers

LEMMA DirectPaymentInv ==
  ASSUME IInv, NEW amount \in Amounts, DirectPayment(amount)
  PROVE  IInv'
<1>1. TablesInv /\ invoice.paid \in Nat /\ InvoiceTotal \in Nat /\ amount \in Nat
  BY Parts, InvoiceTotalAssumption, AmountsAssumption DEF TablesInv, TablesType, InvoiceRow
<1>2. invoice.paid + amount <= InvoiceTotal
  BY <1>1 DEF DirectPayment, Payable, Outstanding
<1>3. /\ Post(amount, 0) /\ UNCHANGED <<plan, schedule>>
      /\ UNCHANGED <<schedule, elapsed, sweep, req, begun>>
  BY DEF DirectPayment
<1>4. TablesInv' /\ Growth
  BY <1>1, <1>2, <1>3, PostStep
<1> QED BY <1>3, <1>4, InvoiceOnly

LEMMA ReversePaymentInv ==
  ASSUME IInv, NEW m \in DOMAIN payments, ReversePayment(m)
  PROVE  IInv'
<1>1. TablesInv' /\ Growth
  BY Parts, ReverseStep
<1>2. UNCHANGED <<schedule, elapsed, sweep, req, begun>>
  BY DEF ReversePayment
<1> QED BY <1>1, <1>2, InvoiceOnly

LEMMA CancelInvoiceInv ==
  ASSUME IInv, CancelInvoice
  PROVE  IInv'
<1>1. TablesInv' /\ Growth
  BY Parts, CancelInvoiceStep
<1>2. UNCHANGED <<schedule, elapsed, sweep, req, begun>>
  BY DEF CancelInvoice
<1> QED BY <1>1, <1>2, InvoiceOnly

\* The clock and the sweep: the tables stay, the requests stay.
LEMMA ClockStep ==
  ASSUME IInv, ClockType', UNCHANGED <<tables, req, begun>>
  PROVE  IInv'
<1>1. TablesInv' /\ Growth
  BY Parts, TablesKept
<1> QED BY <1>1, StepOfOthers

LEMMA DueDatePassesInv ==
  ASSUME IInv, DueDatePasses
  PROVE  IInv'
<1>1. ClockType /\ schedule \in Seq(ScheduleRow)
  BY Parts DEF TablesInv, TablesType
<1>2. ClockType'
  BY <1>1 DEF ClockType, DueDatePasses, tables, Rows
<1> QED BY <1>2, ClockStep DEF DueDatePasses

LEMMA SweepReadInv ==
  ASSUME IInv, SweepRead
  PROVE  IInv'
<1>1. ClockType'
  BY Parts DEF ClockType, SweepRead, OverdueRows, tables, Rows
<1> QED BY <1>1, ClockStep DEF SweepRead

LEMMA SweepFailsInv ==
  ASSUME IInv, SweepFails
  PROVE  IInv'
<1>1. ClockType'
  BY Parts DEF ClockType, SweepFails, tables, Rows
<1> QED BY <1>1, ClockStep DEF SweepFails

\* The sweep marks its rows: amounts stay, and no row becomes Paid or Cancelled.
LEMMA SweepSaveInv ==
  ASSUME IInv, SweepSave
  PROVE  IInv'
<1>1. TablesInv /\ ClockType /\ schedule \in Seq(ScheduleRow)
  BY Parts DEF TablesInv, TablesType
<1>2. /\ schedule' = [k \in Rows |-> IF k \in sweep THEN [schedule[k] EXCEPT !.status = "Overdue"]
                                                    ELSE schedule[k]]
      /\ sweep' = {} /\ UNCHANGED <<invoice, payments, plan, elapsed, req, begun>>
  BY DEF SweepSave
<1>3. ASSUME NEW row \in ScheduleRow
      PROVE  LET o == [row EXCEPT !.status = "Overdue"]
             IN  o \in ScheduleRow /\ o.due = row.due /\ o.paid = row.paid /\ o.status = "Overdue"
  BY DEF ScheduleRow, RowStatus
<1>4. \A k \in Rows : schedule[k] \in ScheduleRow
  BY <1>1, ScheduleColumns DEF Rows
<1>5. \A k \in Rows : /\ schedule'[k] \in ScheduleRow
                      /\ schedule'[k].due = schedule[k].due /\ schedule'[k].paid = schedule[k].paid
                      /\ schedule'[k].status = "Overdue" \/ schedule'[k] = schedule[k]
  BY <1>2, <1>3, <1>4
<1>6. schedule' \in Seq(ScheduleRow) /\ Len(schedule') = Len(schedule)
  <2>1. Rows = 1 .. Len(schedule) /\ Len(schedule) \in Nat
    BY <1>1 DEF Rows
  <2>2. DOMAIN schedule' = Rows /\ schedule' = [k \in Rows |-> schedule'[k]]
    BY <1>2
  <2>3. schedule' \in [1 .. Len(schedule) -> ScheduleRow]
    BY <1>5, <2>1, <2>2
  <2> QED BY <2>1, <2>3
<1>7. \A k \in Rows : /\ schedule'[k].paid <= GrossPaid(k)
                      /\ schedule'[k].paid <= schedule[k].due
                      /\ schedule'[k].status = "Paid" => GrossPaid(k) >= schedule[k].due
                      /\ schedule'[k].status # "Cancelled"
  <2> SUFFICES ASSUME NEW k \in Rows
               PROVE  /\ schedule'[k].paid <= GrossPaid(k)
                      /\ schedule'[k].paid <= schedule[k].due
                      /\ schedule'[k].status = "Paid" => GrossPaid(k) >= schedule[k].due
                      /\ schedule'[k].status # "Cancelled"
    OBVIOUS
  <2>1. /\ schedule[k].paid <= GrossPaid(k) /\ schedule[k].paid \in 0 .. schedule[k].due
        /\ schedule[k].status = "Paid" => GrossPaid(k) >= schedule[k].due
        /\ schedule[k].status # "Cancelled"
    BY <1>1 DEF TablesInv, ScheduleNeverOverstates, PaidRowWasCollected, NoRowCancelled
  <2>2. GrossPaid(k) \in Nat /\ schedule[k].due \in Nat
    BY <1>1, GrossIsNumber, ScheduleColumns DEF TablesInv, Rows
  <2> QED BY <1>5, <2>1, <2>2
<1>8. TablesInv' /\ Growth
  BY <1>1, <1>2, <1>5, <1>6, <1>7, ScheduleStep
<1>9. ClockType'
  BY <1>1, <1>2, <1>6 DEF ClockType
<1> QED BY <1>2, <1>8, <1>9, StepOfOthers

-----------------------------------------------------------------------------
(* Theorems *)

LEMMA InitIInv == Init => IInv
<1> SUFFICES ASSUME Init PROVE IInv
  OBVIOUS
<1>1. /\ invoice = NewInvoice /\ payments = <<>> /\ plan = [status |-> "None", total |-> 0]
      /\ schedule = <<>> /\ elapsed = 0 /\ sweep = {} /\ begun = 0
      /\ req = [r \in Requests |-> Idle]
  BY DEF Init
<1>2. invoice \in InvoiceRow /\ invoice.paid = 0
  BY <1>1, BlankFields DEF NewInvoice
<1>3. payments \in Seq(PaymentRow) /\ schedule \in Seq(ScheduleRow) /\ Len(schedule) = 0 /\ Rows = {}
  BY <1>1 DEF Rows
<1>4. plan \in [status : PlanStatus, total : Int]
  BY <1>1 DEF PlanStatus
<1>5. InvoiceNeverOvercollected
  BY <1>1, <1>2, SumsOfModel, NothingCollected, InvoiceTotalAssumption DEF InvoiceNeverOvercollected
<1>6. TablesInv
  BY <1>1, <1>2, <1>3, <1>4, <1>5
     DEF TablesInv, TablesType, ScheduleNeverOverstates, PaidRowWasCollected, RowsComeWithPlan,
         NoRowCancelled
<1>7. ClockType
  BY <1>1, <1>3 DEF ClockType
<1>8. RequestsType /\ \A r \in Requests : RequestInv(req[r])
  BY <1>1, IdleIsOK, BoundsAssumption DEF RequestsType
<1> QED BY <1>6, <1>7, <1>8, Parts

LEMMA StatusesOfPlan ==
  /\ "Active" \in PlanStatus \ {"None"} /\ "Cancelled" \in PlanStatus \ {"None"}
  /\ "Completed" \in PlanStatus \ {"None"}
BY DEF PlanStatus

LEMMA BeginRequestInv ==
  ASSUME IInv, NEW r \in Requests, BeginRequest(r)
  PROVE  IInv'
<1>1. "Approve" \in {"Approve", "Cancel"} /\ "Cancel" \in {"Approve", "Cancel"}
  OBVIOUS
<1> QED BY <1>1, CreateLoadInv, PlanLoadInv, PayLoadInv DEF BeginRequest

LEMMA ProgressInv ==
  ASSUME IInv, NEW r \in Requests, Progress(r)
  PROVE  IInv'
<1>1. CASE CreateSave(r)
  BY <1>1, CreateSaveInv
<1>2. CASE CreateFails(r)
  BY <1>2, EndStep DEF CreateFails
<1>3. CASE ApproveSave(r)
  BY <1>3, StatusesOfPlan, PlanWritten DEF ApproveSave
<1>4. CASE CancelSave(r)
  BY <1>4, StatusesOfPlan, PlanWritten DEF CancelSave
<1>5. CASE PayPost(r)
  BY <1>5, PayPostInv
<1>6. CASE PayRefuse(r)
  BY <1>6, EndStep DEF PayRefuse
<1>7. CASE PaySaveRow(r)
  BY <1>7, PaySaveRowInv
<1>8. CASE PayCheck(r)
  BY <1>8, PayCheckInv
<1>9. CASE PayComplete(r)
  BY <1>9, StatusesOfPlan, PlanWritten DEF PayComplete
<1> QED BY <1>1, <1>2, <1>3, <1>4, <1>5, <1>6, <1>7, <1>8, <1>9 DEF Progress

LEMMA StutterInv ==
  ASSUME IInv, UNCHANGED vars
  PROVE  IInv'
<1>1. UNCHANGED <<tables, req, begun, elapsed, sweep>>
  BY DEF vars, tables
<1>2. ClockType'
  BY <1>1, Parts DEF ClockType, tables, Rows
<1> QED BY <1>1, <1>2, ClockStep

LEMMA NextIInv == IInv /\ [Next]_vars => IInv'
<1> SUFFICES ASSUME IInv, [Next]_vars PROVE IInv'
  OBVIOUS
<1>1. CASE UNCHANGED vars
  BY <1>1, StutterInv
<1>2. ASSUME NEW r \in Requests, BeginRequest(r) \/ Progress(r) \/ Abort(r) PROVE IInv'
  BY <1>2, BeginRequestInv, ProgressInv, EndStep DEF Abort
<1>3. CASE Others
  BY <1>3, DirectPaymentInv, ReversePaymentInv, CancelInvoiceInv, DueDatePassesInv DEF Others
<1>4. CASE Sweep \/ SweepFails
  BY <1>4, SweepReadInv, SweepSaveInv, SweepFailsInv DEF Sweep
<1>5. CASE AllServed
  BY <1>5, StutterInv DEF AllServed
<1> QED BY <1>1, <1>2, <1>3, <1>4, <1>5 DEF Next

\* IInv is inductive: it holds whatever the total, the counts, the amounts and the
\* number of concurrent requests.
THEOREM InstallmentsInvariance == Spec => []IInv
BY InitIInv, NextIInv, PTL DEF Spec

\* Installments, other payments and reversals in any order never collect more
\* than the invoice total, and PaidAmount is what has been collected.
THEOREM NeverOvercollected == Spec => []InvoiceNeverOvercollected
<1>1. IInv => InvoiceNeverOvercollected
  BY DEF IInv
<1> QED BY <1>1, InstallmentsInvariance, PTL

\* However many saves of a row are lost, it never claims money that was not paid.
THEOREM ScheduleIsHonest == Spec => []ScheduleNeverOverstates
<1>1. IInv => ScheduleNeverOverstates
  BY DEF IInv
<1> QED BY <1>1, InstallmentsInvariance, PTL

\* A row marked Paid was paid for in full, whoever wrote it last.
THEOREM PaidRowsWereCollected == Spec => []PaidRowWasCollected
<1>1. IInv => PaidRowWasCollected
  BY DEF IInv
<1> QED BY <1>1, InstallmentsInvariance, PTL

\* Only a paying request that found every row settled completes the plan.
LEMMA OnlyPayCompletes ==
  ASSUME IInv, [Next]_vars, plan.status # "Completed", plan'.status = "Completed"
  PROVE  \E r \in Requests : PayComplete(r)
<1>1. plan \in [status : PlanStatus, total : Int] /\ plan' # plan
  BY Parts DEF TablesInv, TablesType
<1>2. ASSUME NEW r \in Requests, BeginRequest(r) \/ Abort(r) PROVE FALSE
  BY <1>1, <1>2 DEF BeginRequest, CreateLoad, PlanLoad, PayLoad, Abort, tables
<1>3. ASSUME NEW r \in Requests, Progress(r), ~PayComplete(r) PROVE FALSE
  <2>1. CASE CreateSave(r)
    BY <2>1 DEF CreateSave
  <2>2. CASE ApproveSave(r) \/ CancelSave(r)
    BY <1>1, <2>2 DEF ApproveSave, CancelSave, WriteStatus
  <2>3. CASE CreateFails(r) \/ PayPost(r) \/ PayRefuse(r) \/ PaySaveRow(r) \/ PayCheck(r)
    BY <1>1, <2>3 DEF CreateFails, PayPost, PayRefuse, PaySaveRow, PayCheck, tables
  <2> QED BY <1>3, <2>1, <2>2, <2>3 DEF Progress
<1>4. ~Others /\ ~Sweep /\ ~SweepFails
  BY <1>1 DEF Others, DirectPayment, ReversePayment, CancelInvoice, DueDatePasses, Sweep, SweepRead,
              SweepSave, SweepFails, tables
<1>5. ~AllServed /\ ~UNCHANGED vars
  BY <1>1 DEF AllServed, vars
<1> QED BY <1>2, <1>3, <1>4, <1>5 DEF Next

\* A plan is completed only when each of its installments was paid for in full.
THEOREM CompletedPlansWereCollected == Spec => CompletedOnlyWhenCollected
<1>1. IInv /\ [Next]_vars =>
        (plan.status # "Completed" /\ plan'.status = "Completed"
           => \A k \in Rows : GrossPaid(k) >= schedule[k].due)
  <2> SUFFICES ASSUME IInv, [Next]_vars, plan.status # "Completed", plan'.status = "Completed"
               PROVE  \A k \in Rows : GrossPaid(k) >= schedule[k].due
    OBVIOUS
  <2>1. PICK r \in Requests : PayComplete(r)
    BY OnlyPayCompletes
  <2>2. req[r].op = "Pay" /\ req[r].at = "settled"
    BY <2>1 DEF PayComplete, At
  <2>3. PayInv(req[r])
    BY <2>2, PayingFields
  <2> QED BY <2>2, <2>3 DEF PayInv
<1> QED BY <1>1, InstallmentsInvariance, PTL DEF Spec, CompletedOnlyWhenCollected

-----------------------------------------------------------------------------
(* Who may take Paid back *)

\* Row k is Paid, and the sweep that is under way, if any, has not read it.
Safe(k) == RowIs(k, "Paid") /\ k \notin sweep

\* A request writes another status over Paid in no case: a payment keeps what the
\* row has, and a plan is created only while there are no rows.
LEMMA RequestsKeepSafe ==
  ASSUME IInv, NEW r \in Requests, BeginRequest(r) \/ Progress(r) \/ Abort(r), NEW k, Safe(k)
  PROVE  Safe(k)'
<1>1. /\ k \in Rows /\ schedule[k].status = "Paid" /\ k \notin sweep
      /\ plan.status = "None" => schedule = <<>>
  BY Parts DEF Safe, RowIs, TablesInv, RowsComeWithPlan
<1>2. ASSUME UNCHANGED <<schedule, sweep>> PROVE Safe(k)'
  BY <1>1, <1>2 DEF Safe, RowIs, Rows
<1>3. CASE BeginRequest(r) \/ Abort(r)
  BY <1>2, <1>3 DEF BeginRequest, CreateLoad, PlanLoad, PayLoad, Abort, tables
<1>4. CASE CreateSave(r)
  <2>1. plan.status = "None"
    BY <1>4 DEF CreateSave
  <2>2. schedule = <<>>
    BY <1>1, <2>1
  <2>3. k \in DOMAIN schedule
    BY <1>1 DEF Rows
  <2> QED BY <2>2, <2>3
<1>5. CASE PaySaveRow(r)
  <2>1. DOMAIN schedule' = DOMAIN schedule /\ sweep' = sweep
    BY <1>5 DEF PaySaveRow
  <2>2. schedule'[k].status = "Paid"
    BY <1>1, <1>5 DEF PaySaveRow, Rows
  <2> QED BY <1>1, <2>1, <2>2 DEF Safe, RowIs, Rows
<1>6. CASE CreateFails(r) \/ ApproveSave(r) \/ CancelSave(r) \/ PayPost(r) \/ PayRefuse(r)
           \/ PayCheck(r) \/ PayComplete(r)
  BY <1>2, <1>6 DEF CreateFails, ApproveSave, CancelSave, PayPost, PayRefuse, PayCheck, PayComplete,
                    tables
<1> QED BY <1>3, <1>4, <1>5, <1>6 DEF Progress

\* A sweep reads rows that are Pending, and marks only those it has read.
LEMMA NextKeepsSafe ==
  ASSUME IInv, [Next]_vars, NEW k, Safe(k)
  PROVE  Safe(k)'
<1>1. k \in Rows /\ schedule[k].status = "Paid" /\ k \notin sweep
  BY DEF Safe, RowIs
<1>2. ASSUME UNCHANGED schedule, k \notin sweep' PROVE Safe(k)'
  BY <1>1, <1>2 DEF Safe, RowIs, Rows
<1>3. ASSUME NEW r \in Requests, BeginRequest(r) \/ Progress(r) \/ Abort(r) PROVE Safe(k)'
  BY <1>3, RequestsKeepSafe
<1>4. CASE Others
  BY <1>1, <1>2, <1>4
     DEF Others, DirectPayment, ReversePayment, CancelInvoice, DueDatePasses, tables
<1>5. CASE SweepRead
  <2>1. k \notin OverdueRows
    BY <1>1 DEF OverdueRows
  <2> QED BY <1>2, <1>5, <2>1 DEF SweepRead, tables
<1>6. CASE SweepSave
  <2>1. DOMAIN schedule' = Rows /\ schedule'[k] = schedule[k] /\ k \notin sweep'
    BY <1>1, <1>6 DEF SweepSave
  <2> QED BY <1>1, <2>1 DEF Safe, RowIs, Rows
<1>7. CASE SweepFails
  BY <1>2, <1>7 DEF SweepFails, tables
<1>8. CASE AllServed \/ UNCHANGED vars
  BY <1>1, <1>2, <1>8 DEF AllServed, vars
<1> QED BY <1>3, <1>4, <1>5, <1>6, <1>7, <1>8 DEF Next, Sweep

\* Of all the stale copies of a Paid row, only those of a sweep that is under way
\* can take the status back: without one the row stays Paid for ever.
THEOREM PaidIsFinal == Spec => PaidIsFinalOutsideSweeps
<1>1. ASSUME NEW k \in RowNumbers
      PROVE  Spec => [](RowIs(k, "Paid") /\ sweep = {} => []RowIs(k, "Paid"))
  <2>1. RowIs(k, "Paid") /\ sweep = {} => Safe(k)
    BY DEF Safe
  <2>2. Safe(k) => RowIs(k, "Paid")
    BY DEF Safe
  <2>3. IInv /\ [Next]_vars /\ Safe(k) => Safe(k)'
    BY NextKeepsSafe
  <2> QED BY <2>1, <2>2, <2>3, InstallmentsInvariance, PTL DEF Spec
<1> QED BY <1>1 DEF PaidIsFinalOutsideSweeps
=============================================================================
