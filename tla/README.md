# A TLA+ specification of Smart Customer Ledger

Smart Customer Ledger is an ASP.NET Core application (EF Core on MySQL) in which staff of
several branches bill customers, record and reverse payments, and agree on installment plans.
These modules specify what the services do to the database when requests, a background sweep,
failures and time interleave, what the backups, the reports over several servers and the scripts of
the pages do; the TLC configurations check it on small instances, and the proof modules prove
every safety and action property of the modelled parts for every instance.

Amounts are whole cents. Paths below are relative to the root of the repository;
`Services/` is `src/CustomerLedger.Infrastructure/Services/`.

## 1. The system

| Part | State it keeps | Operations | Interacts with |
|---|---|---|---|
| Payments (`PaymentService`) | `Payments`, append-only but for the status | RecordPayment, Reverse | locks and updates the invoice, updates the account |
| Invoices (`InvoiceService`, `InvoiceCalculationService`) | `Invoices`, `InvoiceItems` | CreateDraft, AddItem, RemoveItem, Activate, Cancel | updates the account |
| Customer accounts (`CustomerAccountService`, `CustomerService`) | `CustomerAccounts`, `Customers` | register, update, credit limit, deactivate | one account per customer, written by all the above |
| Reconciliation (`ReconciliationService`) | – | recompute an account from its invoices and payments | reads all, corrects the account |
| Installment plans (`InstallmentPlanService`) | `InstallmentPlans` | Create (with the schedule), Approve, Cancel | reads the invoice |
| Installment schedules (`InstallmentScheduleService`) | `InstallmentSchedules` | PayInstallment, MarkOverdue | calls RecordPayment on the same `DbContext`, completes the plan |
| Overdue sweep (`OverdueInstallmentBackgroundService`) | – | hourly MarkOverdue | writes the schedule without a request |
| Import/export (`ImportService`, `ExportService`) | – | preview, import, export | inserts customers and accounts in one transaction |
| Backup/restore (`MySqlBackupService`, `MySqlRestoreService`) | `BackupHistories`, the backup directory | create, restore | runs `mysqldump`/`mysql`; a restore overwrites every table, its own history included |
| Sharded reporting (`ShardResolver`, `CrossShardReportingService`) | – | resolve a shard, aggregate | one database per shard |
| Replica-aware reporting (`ReplicaAwareReportingService`, `ReplicaHealthService`) | – | check, read, fall back | replica and primary |
| Page scripts (`wwwroot/js/site.js`) | the page, `localStorage` | theme, search, filter, counters, copy | every page; other tabs |
| Form validation (`jquery.validate.js`, `jquery.validate.unobtrusive.js`) | rules, messages, what the validator remembers | parse, check, submit, reset | decides which forms reach the services |
| Analytics | – | RFM segments, risk scores | read-only |
| Branches, interactions, audit, identity, web | their tables | single-row edits | – |
| SQL scripts and triggers (`database/`) | – | validation, audit, demonstrations of the transactions | same tables |

Every web request has a `DbContext` of its own: the rows it has read are *copies*, an UPDATE
writes the columns that differ from the copy, and it is conditional on the version the copy
had where a version is configured as concurrency token (`Invoices`, `CustomerAccounts`). A failed
condition is a `DbUpdateConcurrencyException`: the transaction is rolled back and the request
ends; nothing retries. Payments and reversals also take the row lock of the invoice
(`SELECT ... FOR UPDATE`), under MySQL's default isolation level, REPEATABLE READ: a plain read
sees the snapshot of the transaction's first read, a locking read sees the current row.

What is hard here, and what the properties are about:

* a balance is checked on one read and written after another (payments, reversals, cancellation);
* an entity that is tracked already is not refreshed by the locking query (installments);
* edits of a draft change lines and total without incrementing the version, and race with the
  activation that bills the total;
* several invoices share one account row that nobody locks;
* an installment payment is three transactions that are not tied together; plans and schedules have no
  versions at all, and the sweep writes them as well;
* any request can be cut off between two of its transactions;
* customers are registered in two saves while imports insert the same codes in one long transaction;
* a restore overwrites the table it was chosen from, and files are named by the second;
* servers go away between a check and a read, and in the middle of a read;
* a page is left, reloaded and shared with another tab while timers, frames and promises are under way.

`PROJECT.json` lists the hazards at their lines with the properties that stand for them.

## 2. Modules

| Module | What it is |
|---|---|
| `RunningSums` | sums of a column over row numbers (the `SumAsync` queries) |
| `LedgerTransactions` | **the core**: payments, invoices, reconciliation, the account and the locks, one action per database interaction of a request |
| `LedgerInvariant` | the inductive invariant of the core |
| `SettlementBook` | abstract specification: what the ledger promises about money, one indivisible step at a time |
| `LedgerRefinement` | the refinement mapping from the core to the book |
| `InstallmentAmounts`, `ScheduleSplit` | how a plan's amount is split; the loop of `GenerateSchedule` |
| `Installments` | plans, schedules, the payment of installments, the sweep, crashes, on one invoice |
| `Registration` | customers with their accounts, imports, deactivation, the unique index of the codes |
| `Backups` | backup and restore with their processes, files and history |
| `Reporting` | the report over the shards and the page of the replica |
| `PageScripts`, `FormValidation` | the scripts of a page; the validation of its forms |
| `BrowserPage` | the two composed: one tab, whose page is left and rendered again by the server |
| `MCLedgerTransactions`, `MCInstallments`, `MCRegistration`, `MCBackups`, `MCReporting`, `MCBrowserPage` | instances for TLC |
| `RunningSumsProofs`, `LedgerProofs` | proofs about the core |
| `ScheduleSplitProofs`, `InstallmentsProofs`, `RegistrationProofs` | proofs about the split, the installments, the registration |
| `BackupsProofs`, `ReportingProofs`, `BrowserPageProofs` | proofs about backup and restore, the reports, the pages |

### LedgerTransactions

State: the committed tables (`invoice`, `items`, `account`, `payments`; `minted` are the line
ids already used), the row locks (`lock`), and per request slot `req` the operation, the place
where it is (`at`) and the copies it holds. A service call becomes its reads and its save:

| Code | Actions |
|---|---|
| `CreateDraftAsync` | `CreateDraft` (one insert) |
| `AddItemAsync`, `RemoveItemAsync` | `AddItemLoad` / `RemoveItemLoad`, `EditSave` |
| `ActivateAsync` | `ActivateLoad`, `ReadAccount`, `ActivateSave` |
| `CancelAsync` | `CancelLoad`, `ReadAccount` (only of an active invoice), `CancelSave` |
| `RecordPaymentAsync` | `RecordLock`, `ReadAccount`, `RecordSave` |
| the same from `PayInstallmentAsync` | `InstallmentLoad`, `InstallmentLock` or `InstallmentRefuse`, `ReadAccount`, `RecordSave` |
| `ReverseAsync` | `ReverseRead`, `ReverseLock`, `ReadAccount`, `ReverseSave` |
| `ReconcileCustomerAccountAsync` | `ReconcileRead` (a snapshot), `ReconcileSave` |
| failed condition of an UPDATE, or a taken number | `Fail` |
| deadlock victim, lost connection, cancelled request, crash | `Abort`, anywhere |

A save, the audit row and the commit are one step: nothing of a transaction is visible before its
commit, and everything it wrote is locked until then. `Lines` are ids of lines with a price
each (`TotalOf` gives the total of a set of lines); quantities, discounts and taxes are in the
price. Payment numbers are abstract; `RevOf` says which number "-REV" makes of one, `TooLong`
stands for a number the 30 characters of the column cannot hold.

### Installments

One invoice, its only plan (the unique index on `InvoiceId`) and the rows of the schedule. A
payment, a reversal and the cancellation of the invoice are single steps, which
`LedgerRefinement` justifies; the account is left out. `PayInstallmentAsync` is `PayLoad`, `PayPost` (first
transaction) or `PayRefuse`, `PaySaveRow` (second), `PayCheck` and `PayComplete` (third);
the sweep is `SweepRead` and `SweepSave` or `SweepFails`. Time is the number of installments past due.

### Registration

`CreateAsync` is `CreateCheck`, `CreateInsert` (or `CreateRefused`) and `CreateAccount`, each a transaction of its
own. An import is `ImportValidate`, one `ImportInsert` per row, and `ImportCommit`, or `ImportFails`, which rolls everything
back. The rows of an open import are in its request, not in `customers`; they hold their entries in the unique index, for which other inserts
wait (`WaitsFor`), and InnoDB rolls back one of two that wait for each other. `KeyOf` maps a code to the key the index
compares: two codes that differ in an accent are one key for MySQL's collation and two for the services.

### Backups

A backup is `BackupBegin` (the row), `DumpBegins` (the process starts, the file is created or truncated), `DumpEnds` or
`DumpFails`, and `BackupSave`; a restore is `RestoreBegin`, `FeedFirst` (the tables up to `BackupHistories`, in
the alphabetical order of a dump), `FeedSecond` (those after it), `Answer`, with `FeedFails` where a row collides and
`FeedShort` where the file is not whole. `dumped` and `orphaned` are history variables, and so are the marks `alone` of a
request (nobody else has touched what it works on since it began) and `sound` of a file: what a dump does that overlaps a
restore, and what two processes do that write one file, is left open, and such a file is not `sound`.

### Reporting

The report asks one active shard after the other (`OpenShard`, `ReadRow`, `ShardRead`, `ShardFails`); the page of the
replica checks, reads and shows. Servers fail and return at any time, up to `MaxOutages`. The content of a row is
its branch, that of the replica's report a version.

### BrowserPage

One action per event the browser delivers. In `PageScripts` a table is a set of rows, a search term the rows that
contain it, a badge the statuses it contains as a substring; a counter has the tick of its last frame; a copy button
has the captions its timers will restore. In `FormValidation` a value is what is wrong with it. The adapters make rules of the
`data-val-*` attributes when jQuery is ready (`StaticRules`); for each check the plugin adds those of the element's classes, HTML attributes and
type (`NativeRules`), which is all that the items of an invoice have (`Views/Invoices/Create.cshtml:45-49`). Before that the browser
checks the latter itself (`BrowserRefuses`), until the validator switches it off. `FormsOn` says which forms a page has; the server may refuse what was
posted, for some fields or with a rule that names none. Both libraries are vendored, but which forms
reach the services is decided there, by the merged rules and the order in which they are attached.

## 3. Runs

| Run | Checks | Instance | Distinct states |
|---|---|---|---|
| `core_one_invoice` | `NoOverpayment`, `InvoicePaidIsExact`, `ReversedAtMostOnce`, `CancelledHoldsNoPayment`, `IInv`, `IssuedTotalIsFrozen`, `ImplementsBook` | 1 invoice, 2 slots, 6 requests | 323 751 |
| `core_two_invoices` | `AccountPaidIsExact`, `DriftOnlyByStaleActivation`, `ReconciliationSettles` | 2 invoices of one customer | 326 561 |
| `core_liveness` | `EveryRequestEnds` | fairness, no symmetry | 24 950 |
| `schedule_split` | `SumsExactly`, `EvenSplit` | 11 totals, 1 to 7 rows | 385 |
| `installments` | `IInv`, `InvoiceNeverOvercollected`, `ScheduleNeverOverstates`, `PaidRowWasCollected`, `CompletedOnlyWhenCollected`, `PaidIsFinalOutsideSweeps`, `OverdueIsNoticed` | invoice of 3 cents, 2 rows, 2 slots, 4 requests | 255 576 |
| `registration` | `AccountlessOnlyWhenCutOff`, `ImportIsAllOrNothing`, `RequestsEnd` | 2 slots, 3 requests, 2 branches, 3 codes of which two are one key, files with duplicate and incomplete rows | 42 128 |
| `backups` | `DataOnlyIsNeverRestored`, `RestoreGivesItBack`, `UnfinishedIsExplained`, `IInv`, `OwnRowComesBackUnfinished` | 2 slots, all three types | 371 940 |
| `reporting` | `EveryBranchIsAccountedFor`, `UnlabelledIsCurrent`, `IInv`, `ReportsEnd` | active, inactive and unconfigured shards | 119 872 |
| `browser_page` | `ThemePersists`, `OneControlDecides`, `CaptionComesBack`, `MessageFollowsCheck`, `IInv`, `CounterSettles`, `PostsExactlyTheAcceptable`, `RefusalIsExplained` | 5 pages, 2 tables, 2 counters, 1 copy button, 2 forms of 5 fields | 37 494 |

The other runs, `lost_line_total`, `installment_overpaid` and `reporting_failed_shard`, are the findings of section 5.

What the less obvious properties say:

* `DriftOnlyByStaleActivation` and `UnfinishedIsExplained` name the only way a known inconsistency comes about: a bug that
  opens another way breaks them.
* `PaidIsFinalOutsideSweeps`: of all stale copies of a row, only those of a sweep already under way can take `Paid` back.
* `DataOnlyIsNeverRestored` and `OwnRowComesBackUnfinished` state consequences nobody designed but every restore has:
  the history is part of what is dumped and overwritten.
* `CounterSettles` holds for every time a frame may carry, before the start and long after the end.
* `PostsExactlyTheAcceptable` compares what is sent with what `data-val-*`, HTML attributes, types and classes ask for, read without rules
  and adapters. It speaks of forms with a validator: before jQuery is ready only the browser's own checks hold a form back, and
  those know nothing of `data-val-*`.

Bounds. `MaxRequests` bounds the requests begun in a behaviour, the slots in `Requests` how many
run at once. Every race of section 5 needs two concurrent requests; before a payment can be reversed
twice an invoice must be drafted, activated and paid, which with the two reversals makes five of the six requests. Three requests
at once were run for `CancelledHoldsNoPayment` and showed nothing new; the proofs are for any number. Amounts
are 1 and 2 cents (1 cent in `core_two_invoices`) against lines of 1 and 2 cents: a balance can be left over, met exactly, or
exceeded. In `Installments` four requests are creation, approval and two installment payments,
next to any number of reversals and up to two payments (`MaxPayments`; a payment is only begun
while `Room` is left, so that the bound never strands a request). In `Backups` the bounds are two backups, two restores, one change of the
ledger and one tick: a second backup in the same second or the next, and a restore that brings back what another one reads. In `Registration` three
requests are two that race and one that finds what they left. In `Reporting` two
reports and one outage let a server fail during or between reports and return. In `BrowserPage` an animation
has three ticks and a clock that runs past it, and two copies can overlap. Theme and form share no state:
the constraint `FirstVisit` explores the pages with a form with one theme only. Symmetry is used for request slots where no liveness
is checked. `CHECK_DEADLOCK` is off for the split, whose loop ends, and for `Registration`, `Backups` and `Reporting`, where
nothing may be left to do once the bounds are used up. In the ledger and the installments a state in which no request is under way
may stay as it is, and a request under way can always be cut off; a page can always be left.

Fairness. Only what the code's scheduling does by itself. For the core, `WF` of each request's own next step
(`Progress`); no fairness makes requests begin or be cut off. A request that waits for a row lock
is not enabled to go on, and `EveryRequestEnds` needs the argument that a holder never waits.
For the sweep, `WF` of reading and `SF` of saving, and nothing of the requests: it returns every hour as long as the server runs, and only a
save that fails *every* time would keep it from ever succeeding. In `Registration`, `WF` of a request's steps and of InnoDB's deadlock
detection: without the latter two imports would wait for each other for ever. In `Reporting`, `WF` of the report's steps, among them
the failure after ten seconds; nothing is assumed of the servers. In `BrowserPage`, `WF` of drawing frames while the page is shown.

## 4. Proofs

TLAPS checks every safety invariant and every action property of the passing runs for all values of the constants, under the
assumptions on constants that the component's module names. Each proof has the same shape: an inductive invariant (`IInv`, which a
run checks as well, except for the registration and the split), a step for each action, and theorems that follow from it.

### The ledger (`LedgerProofs`)

For every number of invoices, customers, requests, every set of amounts and lines and every
assignment of numbers (`NumInvoicesAssumption` to `MaxRequestsAssumption`):

| Theorem | States |
|---|---|
| `Invariance` | `Spec => []IInv` |
| `TypeCorrect`, `NeverOverpaid`, `InvoicePaidExact`, `AccountPaidExact`, `ReversedOnce`, `CancelledUnpaid`, `LockedCurrent` | the safety properties |
| `BookImplemented` | `Spec => ImplementsBook`, the refinement |
| `TotalFrozen`, `ReconciliationExact`, `DriftOnlyStale` | the action properties `IssuedTotalIsFrozen`, `ReconciliationSettles`, `DriftOnlyByStaleActivation` |

Why the properties are not inductive: `NoOverpayment` holds after a payment is saved because the
copy that was checked *is* the row that is written, and that is known only from the version. `IInv` therefore
adds, for every request under way, that a copy is never newer than its row, and that a copy
with the row's version has the row's columns (`RequestInv`). For an
invoice in Draft this is weaker, because the edits of a draft do not increment the version: status and
payment columns agree, the total need not. A reversal
is the one save whose *payment* is not versioned: that it is still Completed follows from the version of the *account*,
which every reversal increments, or from the unique number of the reversing row. `LockInv` ties `lock` to the places where a request holds it.

The argument follows the database. `RunningSumsProofs` proves what changing, adding or keeping
an entry does to a running sum (recursive functions, with induction over a least element). Parts A and B of `LedgerProofs`
define the *effects* a commit can have on the tables (a payment posted, a payment undone, an
invoice issued, voided, a draft written, lines written, an account corrected) and prove that each of them preserves the
part of the invariant about tables. Part C shows that each commit has one of these effects,
that copies of other requests survive it (versions only grow), and that reads and locks keep the rest.
Part D then needs each effect only: an undone payment is a member of `standing` that leaves it, a draft and a
corrected account are no step of the book (what was collected was exact before the correction), an activation moves
the drift by the difference between the total it read and the total it issues.

### Installments (`ScheduleSplitProofs`, `InstallmentsProofs`)

`ScheduleSplitProofs` proves that the loop of `GenerateSchedule` splits every total into any number of installments
exactly and evenly, from `LoopInv`: before the last iteration `runningTotal` is `(i-1)` times the base amount.

`InstallmentsProofs` proves for every invoice total, set of counts, amounts and requests:

| Theorem | States |
|---|---|
| `InstallmentsInvariance` | `Spec => []IInv` |
| `NeverOvercollected`, `ScheduleIsHonest`, `PaidRowsWereCollected` | the safety properties of the run |
| `CompletedPlansWereCollected` | the action property `CompletedOnlyWhenCollected` |
| `PaidIsFinal` | the temporal property `PaidIsFinalOutsideSweeps` |

Rows and plans have no versions, so `IInv` cannot say that a copy is current. What it says instead is that what a request has read
is *still good for what it does next*: the copy's `AmountDue` is the row's, because no step changes it; before the payment is posted the
copied `AmountPaid` is at most what was paid for the row, and after it the copied amount plus the payment is, because payments for a row are never taken
away (`GrossPaid` counts reversed ones). A lost update can then only make the schedule say less than was paid, never more; that every row was
settled stays true between the check and the completion for the same reason. `InvoiceNeverOvercollected`
rests on the version of the invoice, as in the core. `PaidIsFinal` follows row `k` from a moment without sweep: "Paid, and not among
the rows a sweep has read" (`Safe`) is kept by every step, since a sweep reads only Pending rows and
a payment that does not complete the row leaves its status as it is in the table.

### Registration (`RegistrationProofs`)

`RegistrationTypeCorrect`, `CodesStayUnique`, `OnlyCutOffRegistrationsLackAccounts` and
`ImportsAreAllOrNothing`, for every number of requests and branches and every set of codes and files. Uniqueness needs the
rows that are only pending: an import and a registration may both have passed their checks for the same code, and only the index keeps
the second out.

### Backup and restore (`BackupsProofs`)

For every number of requests, backups and restores:

| Theorem | States |
|---|---|
| `Invariance` | `Spec => []IInv` |
| `DataOnlyCollides`, `FullRestore`, `UnfinishedRowsExplained` | `DataOnlyIsNeverRestored`, `RestoreGivesItBack`, `UnfinishedIsExplained` |
| `OwnRowUnfinished` | the action property `OwnRowComesBackUnfinished` |

The properties look at the end of a restore only, so `IInv` says what each earlier point contributes: a file is whole once the process
that wrote it has ended, whichever backup named it first (`FileOK`); a backup that nobody has disturbed has its row as it was inserted
(`BackupOK`), so that a sound dump contains that row as InProgress; an undisturbed restore of the data alone starts with
users in the tables, and never gets past them (`RestoreOK`); the row of an unfinished backup has the id it will save
(`UnfinishedOK`, stronger than the property, which names only the backup). Every step that touches what
another request works on clears its `alone`, so what a request relies on while it is alone is kept by the others.

The proof corrected the model. `OwnRowComesBackUnfinished` was first stated of any restored full backup, and TLC agreed with two backups. It is
not inductive, and false with three: a restore, or the late save of a backup whose id a restore has given out again, may rewrite the
row between its insertion and the dump. The property now speaks of sound files, and backups carry `alone` as restores do.

### Reports (`ReportingProofs`)

For every registry of shards with distinct ids of which at least one is active (without one `ResolveForBranch`
throws), any set of branch ids and any number of outages and reports:

| Theorem | States |
|---|---|
| `SortedById` | the list the resolver computes has each active shard once, by increasing id |
| `EveryBranchHasAHome` | every integer, also a negative one, is routed to an active shard |
| `Invariance` | `Spec => []IInv` |
| `BranchesAccountedFor`, `UnlabelledCurrency` | `EveryBranchIsAccountedFor`, `UnlabelledIsCurrent` |

`EveryBranchIsAccountedFor` speaks of finished reports. `ReadSoFar` adds what is true on the way: of each shard that is done with all
rows are in the report or its failure is noted, of the one being read those that are not in `unread`, and each row
comes from the home of its branch. That a branch has *one* home, and that its shard is among those asked, is a matter of the resolver
(a remainder that may be negative) and comes first.

### The pages (`BrowserPageProofs`)

For all pages, tables, counters, buttons, forms, fields and attributes:

| Theorem | States |
|---|---|
| `Invariance` | `Spec => []IInv` |
| `StoredThemeShown`, `LastControlDecides`, `CaptionRestored` | `ThemePersists`, `OneControlDecides`, `CaptionComesBack` |
| `CountersStopAtTarget` | a counter without a frame to come shows its target: the safety part of `CounterSettles` |
| `MessagesAreCurrent` | `MessageFollowsCheck` |
| `FormsPostTheAcceptable`, `RefusalsExplained` | the action properties `PostsExactlyTheAcceptable`, `RefusalIsExplained` |

`CaptionComesBack` says nothing of a button with timers; `CopyOK` adds that without overlap such a button has exactly one, and that
it holds the original caption. A counter needs its last frame to be before the end of the animation (`CounterOK`), and that the text of a
frame at or after the end is the target, which is integer arithmetic with a division (`TextOfCounter`). For the forms, `FormIInv` says that an attached
validator has for each field all rules its `data-val-*` ask for (`RulesAreParsed`); the lemma
`NativeRulesReject` does the same for classes, attributes and types, and `RulesAreDemands` compares both, adapter by
adapter, with what the element demands. The equivalence needs `AttributesAssumption`. A maximum given with `minlength` adds no rule,
a minimum given with `maxlength` one nobody asked for; ASP.NET renders neither. And a rule without a method (`accept`, `extension`, `creditcard`, which are
in `additional-methods.js`) throws out of the submit handler, so that the form is sent unchecked; no page loads that file, and no view
asks for such a rule. `RefusalsExplained` needs `MessagesAssumption`: a field without message element is in a form with a summary,
but for the login's check box, which no rule can refuse. `ThemePersists` became stronger: a page that
reads the stored theme is no longer excused by what another tab stored before (`otherTab` is reset when the page is loaded).

### Only model-checked

Liveness under fairness is out of the prover's reach: `EveryRequestEnds`, `RequestsEnd`, `ReportsEnd`, `CounterSettles`
and `OverdueIsNoticed` are checked by TLC alone. The three violations of section 5 need no proof: each is a
behaviour TLC shows.

## 5. Findings

Runs that violate what a document, a comment or a message of the project says:

| Run | What happens |
|---|---|
| `lost_line_total` | Two concurrent edits of a draft: the later save stores a total without the other's line. |
| `installment_overpaid` | Two payments for one installment are accepted, the second because the first is not yet written into the schedule. |
| `reporting_failed_shard` | A shard fails after some of its rows were read: it is listed as failed, and the rows are in the report and its totals. |

Seen in the same models, without a run of their own:

* an activation bills the total of the draft it loaded, while another clerk adds a line: `TotalBilled` is not the
  "Sum of Active invoice totals" (`docs/database/Tables-and-Columns.md:61`) until a reconciliation (`DriftOnlyByStaleActivation` says that this is the only way);
* an edit that does not change the total (a line without a price) updates no column of the invoice, so no version is compared: a line of
  an invoice that became active meanwhile comes or goes (`InvoiceService.cs:275`);
* approving or cancelling a plan ignores its status: a cancelled or completed plan becomes active again
  (`docs/database/Database-Dictionary.md:30`);
* the sweep overwrites `Paid` with `Overdue` on a row it read before; nothing can be paid on the row any more, so its plan never completes
  (`docs/diagrams/Installment-Flow.md:21`);
* the last line of a draft can be removed between the check of its activation and the save, so that an invoice without lines
  becomes active (`InvoiceService.cs:168` says it must have one);
* an installment payment that waited for the lock validates the balance read before it, because the locking query does not refresh an entity
  that is already tracked, whereas `PaymentService.cs:15` says that it "re-validates against the now-current balance". The version
  still prevents the overpayment (`NoOverpayment` covers this path); the request fails with a concurrency error instead of a message;
* a request cut off before its third transaction leaves a settled plan active for ever (`docs/testing/Test-Plan.md:50`: "plan
  auto-completes once every row is settled");
* a plan is created from a balance that a concurrent payment has reduced, or for an invoice that was cancelled meanwhile
  (`docs/database/Tables-and-Columns.md:124`);
* a plan with more installments than cents has rows of 0.00, which can never become Paid
  (`docs/database/Tables-and-Columns.md:140`: AmountDue "CHECK > 0", in `database/schema/03_AlterTables.mysql:30` but not in the EF migrations);
* a reversal does not touch the schedule of the installment it undoes;
* a payment whose number has 27 to 30 characters, or whose "-REV" number a user has taken, can never be reversed;
* a registration cut off between its two saves leaves a customer without account, although `CustomerService.cs:113` says that every customer
  gets exactly one; nothing creates the account later;
* `ImportService.cs:13` says that accepted rows are validated again inside the transaction; they are not. A code of another branch is found
  only by the index, and `ConfirmImport` catches business exceptions only, so that such a file ends in an error page;
* a backup under way during a restore saves its outcome into the row that has its id afterwards, which may be another backup's:
  `Completed` for a dump that did not end (`docs/diagrams/Backup-Restore-Flow.md:52`);
* the history of the backups is a "Permanent audit trail — never deleted" (`docs/database/Delete-Behaviors.md:33`), and every
  restore replaces it with that of the dump; restoring a `SchemaOnly` backup empties every table, the users included;
* `RunProcessAsync` reads all of standard output before standard error: a `mysqldump` that fills the pipe of the latter
  waits for ever (the same for the restore, which writes all of the input first); the model's `BackupCutOff` is the only way out;
* without a `ReplicaConnection` the primary answers, labelled as the replica; a replica lost between the check and the read
  is an exception, not a fallback (`docs/releases/v5.0.0.md:35`); the page checks the health twice, and the two answers may differ;
* a shard that is deactivated takes its branches to other shards, whose databases do not have their rows; only the report uses the routing;
* no present view carries a status filter or a copy button, and none of the forms has a reset button: `StatusClick`,
  the copy actions and `Reset` model what the scripts do where they are used;
* a status that is part of another ("active" of "inactive") selects both; after overlapping copies the button keeps "✓ Copied!";
  after a reset the texts of the messages stay.

## 6. Not modelled

* Of the modelled parts: who may see which branch (a refusal has no effect), dates, notes, audit rows, the arithmetic of a line,
  `UpdateAsync` of a customer (contact data) and `UpdateCreditLimitAsync` (without a caller), the CSV reader.
* Of the pages: the rows that the inline script of `Views/Invoices/Create.cshtml` adds to the items and removes from them, and their renumbering;
  the `remote` adapter and `data-rule-*`, which no view uses; rules without a method (above: no view has one); the message element of a
  field without `data-val` but with a type (`FollowUpDate` of an interaction: a date picker enters dates only).
* An edit whose total stays the same but whose subtotal, discount or tax changes is checked against the version as well
  (`InvoiceCalculationService.cs:43-47`); in the core the total stands for all four, which allows a save the code would refuse, so
  the properties hold of more than the code does.
* Which branches a shard's view has (`database/views/CreateViews.mysql:93-114`) is what was inserted into its database; `RowsOf` takes the
  rule of `database/sharding/Shard01Schema.mysql:24-26` and `Shard02Schema.mysql:17`.
* `ReconcileBranchAsync` is a sequence of the modelled reconciliations; one that fails stops it.
* Analytics: read-only floating-point arithmetic, which TLC does not compute.
* Branches, interactions, dashboard, exports: single-row updates and queries, no coordination between steps.
* Audit log: written in the transactions that are modelled. Identity: framework configuration.
* SQL scripts and triggers: validation and demonstrations; the application relies on none of them for a total.
* The copies of the scripts under `publish/` are build output of the ones modelled. The pages load the minified form of the libraries.
