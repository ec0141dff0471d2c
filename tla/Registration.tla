---------------------------- MODULE Registration ----------------------------
(* How customers and their accounts come to be: registration of one        *)
(* customer (CustomerService.CreateAsync, two saves) and import of a file    *)
(* (ImportService.ImportCustomersAsync, validation and then one transaction) *)
(* by concurrent requests, any of which can be cut off between two steps.    *)
(* The unique index on the customer code is MySQL's: an insert waits for an  *)
(* uncommitted one of the same key, and of requests that wait for each other *)
(* one is rolled back.                                                       *)
EXTENDS Naturals, FiniteSets, Sequences

CONSTANTS
    Requests,       \* slots for concurrent requests
    MaxRequests,    \* bound of the requests begun in a behaviour
    Branches,
    Codes,          \* customer codes as the services compare them (ordinal, no case)
    KeyOf,          \* what the index makes of a code (the collation ignores more)
    Files           \* files to import: sequences of rows

Row == [code : Codes, complete : BOOLEAN]

ASSUME RequestsAssumption == IsFiniteSet(Requests) /\ MaxRequests \in Nat
ASSUME FilesAssumption == Files \subseteq Seq(Row)

VARIABLES
    customers,  \* committed rows of Customers
    accounts,   \* ids of the customers that have an account
    nextId,     \* AUTO_INCREMENT of Customers
    req,        \* the request in each slot
    begun,      \* number of requests begun
    cutOff      \* history: customers whose registration was cut off before the account

vars == <<customers, accounts, nextId, req, begun, cutOff>>

Customer == [id : Nat, branch : Branches, code : Codes, status : {"Active", "Inactive"}]

(***************************************************************************)
(* Requests                                                                *)
(***************************************************************************)

Idle == [op |-> "none"]
Creating(branch, code) == [op |-> "create", at |-> "insert", branch |-> branch, code |-> code]
Opening(id) == [op |-> "create", at |-> "account", id |-> id]
\* An import inside its transaction: the accepted rows still to insert, each
\* with its number in the file, and the customers inserted but not committed.
Importing(branch, todo, rows) ==
    [op |-> "import", at |-> "insert", branch |-> branch, todo |-> todo, rows |-> rows]

IsCreating(x) == x.op = "create" /\ x.at = "insert"
IsOpening(x) == x.op = "create" /\ x.at = "account"
IsImporting(x) == x.op = "import"

RequestOK(x) ==
    \/ x = Idle
    \/ \E b \in Branches, k \in Codes : x = Creating(b, k)
    \/ \E i \in {c.id : c \in customers} : x = Opening(i)
    \/ /\ IsImporting(x) /\ x = Importing(x.branch, x.todo, x.rows)
       /\ x.branch \in Branches /\ x.todo \subseteq Nat \X Codes
       /\ x.rows \subseteq Customer
       /\ \A c \in x.rows : c.id < nextId /\ c.branch = x.branch

TypeOK ==
    /\ customers \subseteq Customer
    /\ accounts \subseteq {c.id : c \in customers}
    /\ cutOff \subseteq {c.id : c \in customers}
    /\ nextId \in Nat \ {0} /\ begun \in 0 .. MaxRequests
    /\ \A c \in customers : c.id < nextId
    /\ req = [r \in Requests |-> req[r]] /\ \A r \in Requests : RequestOK(req[r])

(***************************************************************************)
(* The table and its unique index                                          *)
(***************************************************************************)

Committed(code) == \E c \in customers : KeyOf[c.code] = KeyOf[code]
\* The rows a request has inserted in a transaction that is not committed.
Pending(r) == IF IsImporting(req[r]) THEN req[r].rows ELSE {}
HeldBy(code, s) == \E c \in Pending(s) : KeyOf[c.code] = KeyOf[code]
\* Accepted rows are inserted in the order of the file.
IsFirst(row, rows) == row \in rows /\ \A other \in rows : row[1] <= other[1]
\* The code a request is about to insert.
Wants(r, code) ==
    \/ IsCreating(req[r]) /\ code = req[r].code
    \/ IsImporting(req[r]) /\ \E row \in req[r].todo : IsFirst(row, req[r].todo) /\ code = row[2]
WaitsFor(r, s) == r # s /\ \E k \in Codes : Wants(r, k) /\ HeldBy(k, s)
Waiting(r) == \E s \in Requests : WaitsFor(r, s)
\* The key is taken: a row is committed, or the request inserted it itself.
Taken(r) == \E k \in Codes : Wants(r, k) /\ (Committed(k) \/ HeldBy(k, r))
Deadlocked(r) ==
    \E group \in SUBSET Requests :
        /\ r \in group
        /\ \A s \in group : (\E t \in group : WaitsFor(s, t)) /\ (\E t \in group : WaitsFor(t, s))

NewCustomer(branch, code) ==
    [id |-> nextId, branch |-> branch, code |-> code, status |-> "Active"]

Ends(r) == req' = [req EXCEPT ![r] = Idle]
Goes(r, next) == req' = [req EXCEPT ![r] = next]
Begins(r) == req[r] = Idle /\ begun < MaxRequests /\ begun' = begun + 1

Init ==
    /\ customers = {} /\ accounts = {} /\ nextId = 1
    /\ req = [r \in Requests |-> Idle] /\ begun = 0 /\ cutOff = {}

(***************************************************************************)
(* CustomerService.CreateAsync                                             *)
(***************************************************************************)

\* The check for an existing code sees committed rows, of every branch.
CreateCheck(r, branch, code) ==
    /\ Begins(r)
    /\ IF Committed(code) THEN UNCHANGED req ELSE Goes(r, Creating(branch, code))
    /\ UNCHANGED <<customers, accounts, nextId, cutOff>>

\* First save: the customer is committed.
CreateInsert(r) ==
    /\ IsCreating(req[r]) /\ ~Waiting(r) /\ ~Taken(r)
    /\ customers' = customers \cup {NewCustomer(req[r].branch, req[r].code)}
    /\ nextId' = nextId + 1
    /\ Goes(r, Opening(nextId))
    /\ UNCHANGED <<accounts, begun, cutOff>>

CreateRefused(r) ==
    /\ IsCreating(req[r]) /\ ~Waiting(r) /\ Taken(r)
    /\ Ends(r)
    /\ nextId' = nextId + 1
    /\ UNCHANGED <<customers, accounts, begun, cutOff>>

\* Second save: CreateForCustomerAsync. (A negative limit, which the form does
\* not let through, would end here as CutOff does.)
CreateAccount(r) ==
    /\ IsOpening(req[r])
    /\ accounts' = accounts \cup {req[r].id}
    /\ Ends(r)
    /\ UNCHANGED <<customers, nextId, begun, cutOff>>

(***************************************************************************)
(* ImportService                                                           *)
(***************************************************************************)

\* ValidateAsync: complete rows whose code no customer of this branch has and no
\* earlier accepted row of the file.
ExistingCodes(branch) == {c.code : c \in {x \in customers : x.branch = branch}}
Accepted(branch, file, i) ==
    /\ file[i].complete
    /\ file[i].code \notin ExistingCodes(branch)
    /\ \A j \in 1 .. i - 1 : ~(file[j].complete /\ file[j].code = file[i].code)
AcceptedRows(branch, file) ==
    {<<i, file[i].code>> : i \in {j \in DOMAIN file : Accepted(branch, file, j)}}

ImportValidate(r, branch, file) ==
    /\ Begins(r)
    /\ LET todo == AcceptedRows(branch, file)
       IN IF todo = {} THEN UNCHANGED req ELSE Goes(r, Importing(branch, todo, {}))
    /\ UNCHANGED <<customers, accounts, nextId, cutOff>>

\* The next customer and its account are inserted, uncommitted.
ImportInsert_faulty(r) ==
    /\ IsImporting(req[r]) /\ ~Waiting(r) /\ ~Taken(r)
    /\ nextId' = nextId + 1
    /\ \E row \in req[r].todo :
          /\ IsFirst(row, req[r].todo)
          /\ customers' = customers \cup {NewCustomer(req[r].branch, row[2])}
          /\ accounts' = accounts \cup {nextId}
          /\ Goes(r, Importing(req[r].branch, req[r].todo \ {row}, {}))
    /\ UNCHANGED <<begun, cutOff>>
ImportInsert(r) ==
    /\ IsImporting(req[r]) /\ ~Waiting(r) /\ ~Taken(r)
    /\ nextId' = nextId + 1
    /\ \E row \in req[r].todo :
          /\ IsFirst(row, req[r].todo)
          /\ Goes(r, Importing(req[r].branch, req[r].todo \ {row},
                               req[r].rows \cup {NewCustomer(req[r].branch, row[2])}))
    /\ UNCHANGED <<customers, accounts, begun, cutOff>>

\* A code that is taken (in another branch, since the validation, or equal for
\* the index to one of the file) fails the transaction: everything is rolled back.
ImportFails_faulty(r) ==
    IsImporting(req[r]) /\ ~Waiting(r) /\ Taken(r) /\ UNCHANGED vars
ImportFails(r) ==
    /\ IsImporting(req[r]) /\ ~Waiting(r) /\ Taken(r)
    /\ Ends(r)
    /\ nextId' = nextId + 1
    /\ UNCHANGED <<customers, accounts, begun, cutOff>>

ImportCommit_faulty(r) ==
    /\ IsImporting(req[r]) /\ req[r].todo = {}
    /\ customers' = customers \cup req[r].rows
    /\ accounts' = accounts \cup {c.id : c \in {x \in req[r].rows : x.id + 1 < nextId}}
    /\ Ends(r)
    /\ UNCHANGED <<nextId, begun, cutOff>>
ImportCommit(r) ==
    /\ IsImporting(req[r]) /\ req[r].todo = {}
    /\ customers' = customers \cup req[r].rows
    /\ accounts' = accounts \cup {c.id : c \in req[r].rows}
    /\ Ends(r)
    /\ UNCHANGED <<nextId, begun, cutOff>>

(***************************************************************************)
(* Deactivation, failures                                                  *)
(***************************************************************************)

\* DeactivateAsync: the code stays taken.
Deactivate(c) ==
    /\ customers' = (customers \ {c}) \cup {[c EXCEPT !.status = "Inactive"]}
    /\ UNCHANGED <<accounts, nextId, req, begun, cutOff>>

\* InnoDB rolls back one of the transactions that wait for each other.
DeadlockVictim(r) ==
    /\ Deadlocked(r)
    /\ Ends(r)
    /\ UNCHANGED <<customers, accounts, nextId, begun, cutOff>>

\* The process stops, the connection is lost, or the browser goes away (the
\* requests carry a cancellation token): an open transaction is rolled back.
CutOff(r) ==
    /\ req[r] # Idle
    /\ Ends(r)
    /\ cutOff' = IF IsOpening(req[r]) THEN cutOff \cup {req[r].id} ELSE cutOff
    /\ UNCHANGED <<customers, accounts, nextId, begun>>

\* What a request does by itself once it has begun.
Step(r) ==
    \/ CreateInsert(r) \/ CreateRefused(r) \/ CreateAccount(r)
    \/ ImportInsert(r) \/ ImportFails(r) \/ ImportCommit(r)

Next ==
    \/ \E r \in Requests, b \in Branches :
          \/ \E k \in Codes : CreateCheck(r, b, k)
          \/ \E f \in Files : ImportValidate(r, b, f)
    \/ \E r \in Requests : Step(r) \/ DeadlockVictim(r) \/ CutOff(r)
    \/ \E c \in customers : Deactivate(c)

Spec == Init /\ [][Next]_vars
\* Threads go on, and InnoDB detects deadlocks; a request need not be cut off.
FairSpec == Spec /\ \A r \in Requests : WF_vars(Step(r)) /\ WF_vars(DeadlockVictim(r))

(***************************************************************************)
(* Properties                                                              *)
(***************************************************************************)

\* No two customers have the same code for the index, whichever branches,
\* registrations and imports they come from, committed or about to be.
AllRows == customers \cup UNION {Pending(r) : r \in Requests}
CodesUnique ==
    \A c, d \in AllRows : KeyOf[c.code] = KeyOf[d.code] => c.id = d.id

\* A customer without an account is one whose registration is between its two
\* saves, or was cut off there: an import never leaves one.
AccountlessOnlyWhenCutOff ==
    \A c \in customers :
        \/ c.id \in accounts
        \/ c.id \in cutOff
        \/ \E r \in Requests : req[r] = Opening(c.id)

\* A file is imported whole or not at all: no step of an import changes the
\* tables but the last, which makes every row it accepted a customer with an account.
ImportIsAllOrNothing ==
    [][\A r \in Requests : IsImporting(req[r]) /\ req'[r] # req[r] =>
          \/ UNCHANGED <<customers, accounts>>
          \/ /\ req'[r] = Idle /\ req[r].todo = {}
             /\ customers' = customers \cup req[r].rows
             /\ \A c \in req[r].rows : c.id \in accounts']_vars

\* Every request ends although inserts wait for each other's transactions.
RequestsEnd == \A r \in Requests : req[r] # Idle ~> req[r] = Idle
=============================================================================
