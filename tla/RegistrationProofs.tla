------------------------- MODULE RegistrationProofs -------------------------
(* Registration for any number of requests, branches, codes and files.      *)
(* Inv is inductive: the uniqueness of the codes needs that an insert waits  *)
(* for what other transactions hold, and the accounts need that only a       *)
(* registration is ever between its two saves.                               *)
EXTENDS Registration, TLAPS

Inv == TypeOK /\ CodesUnique /\ AccountlessOnlyWhenCutOff

Ids == {c.id : c \in customers}

(***************************************************************************)
(* Requests                                                                *)
(***************************************************************************)

\* A step that ends a request, or moves it to a valid state, leaves every other
\* request as it is.
LEMMA RequestsAfter ==
    ASSUME TypeOK, NEW r \in Requests, NEW x, req' = [req EXCEPT ![r] = x]
    PROVE  /\ req' = [s \in Requests |-> req'[s]]
           /\ req'[r] = x
           /\ \A s \in Requests : s # r => req'[s] = req[s]
  BY DEF TypeOK

\* The kinds of request exclude each other.
LEMMA Kinds ==
    /\ ~IsCreating(Idle) /\ ~IsImporting(Idle) /\ ~IsOpening(Idle)
    /\ \A b, k : /\ IsCreating(Creating(b, k)) /\ ~IsOpening(Creating(b, k))
                 /\ ~IsImporting(Creating(b, k))
    /\ \A i : IsOpening(Opening(i)) /\ ~IsCreating(Opening(i)) /\ ~IsImporting(Opening(i))
    /\ \A b, t, w : /\ IsImporting(Importing(b, t, w)) /\ ~IsCreating(Importing(b, t, w))
                    /\ ~IsOpening(Importing(b, t, w))
    /\ \A b, k, i : Creating(b, k) # Opening(i)
    /\ \A b, t, w, i : Importing(b, t, w) # Opening(i)
    /\ \A i : Idle # Opening(i)
  BY DEF IsCreating, IsOpening, IsImporting, Idle, Creating, Opening, Importing

\* A valid request stays valid when the customers grow, keep their ids and
\* AUTO_INCREMENT goes on.
LEMMA RequestOKGrows ==
    ASSUME NEW x, RequestOK(x),
           Ids \subseteq {c.id : c \in customers'},
           nextId \in Nat, nextId' \in Nat, nextId <= nextId'
    PROVE  RequestOK(x)'
<1>1. CASE x = Idle
  BY <1>1 DEF RequestOK
<1>2. CASE \E b \in Branches, k \in Codes : x = Creating(b, k)
  BY <1>2 DEF RequestOK
<1>3. CASE \E i \in Ids : x = Opening(i)
  BY <1>3 DEF RequestOK, Ids
<1>4. CASE /\ IsImporting(x) /\ x = Importing(x.branch, x.todo, x.rows)
           /\ x.branch \in Branches /\ x.todo \subseteq Nat \X Codes
           /\ x.rows \subseteq Customer
           /\ \A c \in x.rows : c.id < nextId /\ c.branch = x.branch
  <2>1. \A c \in x.rows : c.id < nextId'
    BY <1>4 DEF Customer
  <2> QED BY <1>4, <2>1 DEF RequestOK
<1> QED BY <1>1, <1>2, <1>3, <1>4 DEF RequestOK, Ids

(***************************************************************************)
(* Facts the actions share                                                 *)
(***************************************************************************)

\* What TypeOK needs of a step of request r that leaves it in state x.
LEMMA TypeStep ==
    ASSUME TypeOK, NEW r \in Requests, NEW x, req' = [req EXCEPT ![r] = x],
           RequestOK(x)',
           Ids \subseteq {c.id : c \in customers'},
           customers' \subseteq Customer, \A c \in customers' : c.id < nextId',
           nextId' \in Nat, nextId <= nextId',
           accounts' \subseteq {c.id : c \in customers'},
           cutOff' \subseteq {c.id : c \in customers'},
           begun' \in 0 .. MaxRequests
    PROVE  TypeOK'
<1>1. req' = [s \in Requests |-> req'[s]] /\ req'[r] = x /\ \A s \in Requests : s # r => req'[s] = req[s]
  BY RequestsAfter
<1>2. nextId \in Nat /\ nextId' \in Nat \ {0}
  BY DEF TypeOK
<1>3. \A s \in Requests : RequestOK(req[s])'
  <2> SUFFICES ASSUME NEW s \in Requests PROVE RequestOK(req[s])'
    OBVIOUS
  <2>1. CASE s = r
    BY <2>1, <1>1
  <2>2. CASE s # r
    <3>1. ASSUME NEW y, y = req[s] PROVE RequestOK(y)'
      <4>1. RequestOK(y)
        BY <3>1 DEF TypeOK
      <4> QED BY <4>1, <1>2, RequestOKGrows
    <3>2. req'[s] = req[s]
      BY <2>2, <1>1
    <3> QED BY <3>1, <3>2
  <2> QED BY <2>1, <2>2
<1> QED BY <1>1, <1>2, <1>3 DEF TypeOK

\* The rows pending after a step of request r.
LEMMA PendingAfter ==
    ASSUME TypeOK, NEW r \in Requests, NEW x, req' = [req EXCEPT ![r] = x]
    PROVE  /\ \A s \in Requests : s # r => Pending(s)' = Pending(s)
           /\ IsImporting(x) => Pending(r)' = x.rows
           /\ ~IsImporting(x) => Pending(r)' = {}
  BY RequestsAfter DEF Pending

LEMMA NoNewRow ==
    ASSUME CodesUnique, AllRows' \subseteq AllRows
    PROVE  CodesUnique'
  BY DEF CodesUnique

LEMMA OneNewRow ==
    ASSUME CodesUnique, NEW n, AllRows' \subseteq AllRows \cup {n},
           \A c \in AllRows : KeyOf[c.code] # KeyOf[n.code]
    PROVE  CodesUnique'
  BY DEF CodesUnique

\* An insert that neither waits nor is refused brings a key no row has.
LEMMA FreeKey ==
    ASSUME NEW r \in Requests, NEW k \in Codes, Wants(r, k), ~Waiting(r), ~Taken(r)
    PROVE  \A c \in AllRows : KeyOf[c.code] # KeyOf[k]
<1>1. ~Committed(k) /\ ~HeldBy(k, r)
  BY DEF Taken
<1>2. \A s \in Requests : s # r => ~HeldBy(k, s)
  BY DEF Waiting, WaitsFor
<1>3. \A c \in customers : KeyOf[c.code] # KeyOf[k]
  BY <1>1 DEF Committed
<1>4. \A s \in Requests : \A c \in Pending(s) : KeyOf[c.code] # KeyOf[k]
  BY <1>1, <1>2 DEF HeldBy
<1> QED BY <1>3, <1>4 DEF AllRows

\* The accounts stay complete when no customer comes and no request is, or was,
\* between its two saves that does not account for it.
LEMMA AccountsStep ==
    ASSUME TypeOK, AccountlessOnlyWhenCutOff,
           NEW r \in Requests, NEW x, req' = [req EXCEPT ![r] = x],
           {c.id : c \in customers'} \subseteq Ids \cup accounts' \cup
                                                {i \in Nat : x = Opening(i)},
           accounts \subseteq accounts', cutOff \subseteq cutOff',
           \A i \in Ids : req[r] = Opening(i) => i \in accounts' \cup cutOff'
    PROVE  AccountlessOnlyWhenCutOff'
<1>1. req'[r] = x /\ \A s \in Requests : s # r => req'[s] = req[s]
  BY RequestsAfter
<1> SUFFICES ASSUME NEW c \in customers'
             PROVE  \/ c.id \in accounts' \/ c.id \in cutOff'
                    \/ \E s \in Requests : req'[s] = Opening(c.id)
  BY DEF AccountlessOnlyWhenCutOff
<1>2. CASE c.id \in accounts'
  BY <1>2
<1>3. CASE x = Opening(c.id)
  BY <1>3, <1>1
<1>4. CASE c.id \in Ids
  <2>1. PICK d \in customers : d.id = c.id
    BY <1>4 DEF Ids
  <2>2. \/ d.id \in accounts \/ d.id \in cutOff
        \/ \E s \in Requests : req[s] = Opening(d.id)
    BY DEF AccountlessOnlyWhenCutOff
  <2>3. CASE \E s \in Requests : req[s] = Opening(d.id)
    BY <2>1, <2>3, <1>1, <1>4
  <2> QED BY <2>1, <2>2, <2>3
<1> QED BY <1>2, <1>3, <1>4

(***************************************************************************)
(* The steps                                                               *)
(***************************************************************************)

\* A step of r that changes only requests and counters: it comes to a valid
\* state with no new pending rows, and was not between its two saves.
LEMMA QuietStep ==
    ASSUME Inv, NEW r \in Requests, NEW x, req' = [req EXCEPT ![r] = x],
           UNCHANGED <<customers, accounts>>,
           RequestOK(x)', ~IsImporting(x),
           nextId' \in Nat, nextId <= nextId', begun' \in 0 .. MaxRequests,
           cutOff \subseteq cutOff', cutOff' \subseteq Ids,
           \A i \in Ids : req[r] = Opening(i) => i \in cutOff'
    PROVE  Inv'
<1>1. TypeOK'
  <2>1. \A c \in customers : c.id < nextId'
    BY DEF Inv, TypeOK, Customer
  <2> QED BY <2>1, TypeStep DEF Inv, TypeOK, Ids
<1>2. CodesUnique'
  <2>1. \A s \in Requests : Pending(s)' \subseteq Pending(s)
    BY PendingAfter DEF Inv
  <2> QED BY <2>1, NoNewRow DEF Inv, AllRows
<1>3. AccountlessOnlyWhenCutOff'
  BY AccountsStep DEF Inv, Ids
<1> QED BY <1>1, <1>2, <1>3 DEF Inv

LEMMA IdleIsOK == RequestOK(Idle)'
  BY DEF RequestOK

\* CreateAsync's check: the request goes on to its insert, or ends at once.
LEMMA CreateCheckInv ==
    ASSUME Inv, NEW r \in Requests, NEW b \in Branches, NEW k \in Codes, CreateCheck(r, b, k)
    PROVE  Inv'
<1>1. PICK x : /\ x = Creating(b, k) \/ x = Idle
               /\ req' = [req EXCEPT ![r] = x]
  <2>1. CASE Committed(k)
    <3>1. req' = req /\ req[r] = Idle
      BY <2>1 DEF CreateCheck, Begins
    <3>2. req' = [req EXCEPT ![r] = Idle]
      BY <3>1 DEF Inv, TypeOK, Idle
    <3> QED BY <3>2
  <2>2. CASE ~Committed(k)
    BY <2>2 DEF CreateCheck, Goes
  <2> QED BY <2>1, <2>2
<1>2. RequestOK(x)'
  BY <1>1 DEF RequestOK
<1>3. ~IsImporting(x) /\ \A i : req[r] # Opening(i)
  BY <1>1, Kinds DEF CreateCheck, Begins
<1>4. UNCHANGED <<customers, accounts>> /\ begun' \in 0 .. MaxRequests
  BY RequestsAssumption DEF CreateCheck, Begins, Inv, TypeOK
<1>5. nextId' \in Nat /\ nextId <= nextId' /\ cutOff \subseteq cutOff' /\ cutOff' \subseteq Ids
  BY DEF CreateCheck, Inv, TypeOK, Ids
<1>6. \A i \in Ids : req[r] = Opening(i) => i \in cutOff'
  BY <1>3
<1>7. req' = [req EXCEPT ![r] = x]
  BY <1>1
<1> QED BY <1>2, <1>3, <1>4, <1>5, <1>6, <1>7, QuietStep

\* A request that ends without having changed the tables.
LEMMA EndsInv ==
    ASSUME Inv, NEW r \in Requests, Ends(r), ~IsOpening(req[r]),
           UNCHANGED <<customers, accounts, begun, cutOff>>,
           nextId' = nextId \/ nextId' = nextId + 1
    PROVE  Inv'
<1>1. \A i : req[r] # Opening(i)
  BY Kinds
<1>2. nextId \in Nat /\ nextId' \in Nat /\ nextId <= nextId'
  BY DEF Inv, TypeOK
<1>3. req' = [req EXCEPT ![r] = Idle]
  BY DEF Ends
<1>4. RequestOK(Idle)' /\ ~IsImporting(Idle)
  BY IdleIsOK, Kinds
<1>5. begun' \in 0 .. MaxRequests /\ cutOff \subseteq cutOff' /\ cutOff' \subseteq Ids
  BY DEF Inv, TypeOK, Ids
<1> QED BY <1>1, <1>2, <1>3, <1>4, <1>5, QuietStep

\* CutOff: a registration that has its customer is remembered.
LEMMA CutOffInv ==
    ASSUME Inv, NEW r \in Requests, CutOff(r)
    PROVE  Inv'
<1>1. CASE IsOpening(req[r])
  <2>1. PICK i \in Ids : req[r] = Opening(i)
    BY <1>1, Kinds DEF Inv, TypeOK, RequestOK, Ids
  <2>2. cutOff' = cutOff \cup {i}
    BY <1>1, <2>1 DEF CutOff, Opening
  <2>3. \A j \in Ids : req[r] = Opening(j) => j \in cutOff'
    BY <2>1, <2>2 DEF Opening
  <2>4. RequestOK(Idle)' /\ ~IsImporting(Idle) /\ req' = [req EXCEPT ![r] = Idle]
    BY IdleIsOK, Kinds DEF CutOff, Ends
  <2>5. UNCHANGED <<customers, accounts, nextId, begun>> /\ nextId \in Nat
        /\ nextId <= nextId /\ begun' \in 0 .. MaxRequests
        /\ cutOff \subseteq cutOff' /\ cutOff' \subseteq Ids
    BY <2>2 DEF CutOff, Inv, TypeOK, Ids
  <2> QED BY <2>3, <2>4, <2>5, QuietStep
<1>2. CASE ~IsOpening(req[r])
  BY <1>2, EndsInv DEF CutOff
<1> QED BY <1>1, <1>2

\* A deadlock's victim is a request that wants to insert.
LEMMA DeadlockVictimInv ==
    ASSUME Inv, NEW r \in Requests, DeadlockVictim(r)
    PROVE  Inv'
<1>1. PICK s \in Requests : WaitsFor(r, s)
  BY DEF DeadlockVictim, Deadlocked
<1>2. ~IsOpening(req[r])
  BY <1>1 DEF WaitsFor, Wants, IsCreating, IsImporting, IsOpening
<1> QED BY <1>2, EndsInv DEF DeadlockVictim

LEMMA RefusedInv ==
    ASSUME Inv, NEW r \in Requests, CreateRefused(r) \/ ImportFails(r)
    PROVE  Inv'
<1>1. ~IsOpening(req[r])
  BY DEF CreateRefused, ImportFails, IsCreating, IsImporting, IsOpening
<1> QED BY <1>1, EndsInv DEF CreateRefused, ImportFails

\* The accepted rows of a file are rows of codes.
LEMMA AcceptedRowsType ==
    ASSUME NEW b \in Branches, NEW f \in Files
    PROVE  AcceptedRows(b, f) \subseteq Nat \X Codes
<1>1. f \in Seq(Row)
  BY FilesAssumption
<1>2. DOMAIN f = 1 .. Len(f) /\ \A i \in 1 .. Len(f) : f[i] \in Row
  BY <1>1
<1>3. \A i \in DOMAIN f : i \in Nat
  BY <1>1, <1>2
<1>4. \A i \in DOMAIN f : f[i].code \in Codes
  BY <1>2 DEF Row
<1> QED BY <1>3, <1>4 DEF AcceptedRows

\* An import begins with nothing inserted.
LEMMA ImportValidateInv ==
    ASSUME Inv, NEW r \in Requests, NEW b \in Branches, NEW f \in Files,
           ImportValidate(r, b, f)
    PROVE  Inv'
<1>1. req[r] = Idle /\ begun' \in 0 .. MaxRequests
  BY RequestsAssumption DEF ImportValidate, Begins, Inv, TypeOK
<1>2. UNCHANGED <<customers, accounts, nextId, cutOff>>
  BY DEF ImportValidate
<1>3. PICK todo : todo = AcceptedRows(b, f)
  OBVIOUS
<1>4. todo \subseteq Nat \X Codes
  BY <1>3, AcceptedRowsType
<1>5. PICK x : /\ x = Importing(b, todo, {}) \/ x = Idle
               /\ req' = [req EXCEPT ![r] = x]
  <2>1. CASE todo = {}
    <3>1. req' = req
      BY <2>1, <1>3 DEF ImportValidate
    <3>2. req' = [req EXCEPT ![r] = Idle]
      BY <3>1, <1>1 DEF Inv, TypeOK, Idle
    <3> QED BY <3>2
  <2>2. CASE todo # {}
    BY <2>2, <1>3 DEF ImportValidate, Goes
  <2> QED BY <2>1, <2>2
<1>6. RequestOK(x)'
  <2>1. CASE x = Idle
    BY <2>1 DEF RequestOK
  <2>2. CASE x = Importing(b, todo, {})
    BY <2>2, <1>4 DEF RequestOK, Importing, IsImporting
  <2> QED BY <1>5, <2>1, <2>2
<1>7. TypeOK'
  <2>1. \A c \in customers : c.id < nextId'
    BY <1>2 DEF Inv, TypeOK
  <2>2. nextId' \in Nat /\ nextId <= nextId'
    BY <1>2 DEF Inv, TypeOK
  <2> QED BY <2>1, <2>2, <1>1, <1>2, <1>5, <1>6, TypeStep DEF Inv, TypeOK, Ids
<1>8. CodesUnique'
  <2>1. Pending(r)' = {}
    <3>1. CASE x = Idle
      BY <3>1, <1>5, Kinds, PendingAfter DEF Inv
    <3>2. CASE x = Importing(b, todo, {})
      <4>1. IsImporting(x) /\ x.rows = {}
        BY <3>2 DEF IsImporting, Importing
      <4> QED BY <4>1, <1>5, PendingAfter DEF Inv
    <3> QED BY <3>1, <3>2, <1>5
  <2>2. \A s \in Requests : Pending(s)' \subseteq Pending(s)
    BY <2>1, <1>5, PendingAfter DEF Inv
  <2> QED BY <1>2, <2>2, NoNewRow DEF Inv, AllRows
<1>9. AccountlessOnlyWhenCutOff'
  <2>1. \A i \in Ids : req[r] = Opening(i) => i \in accounts' \cup cutOff'
    BY <1>1, Kinds
  <2> QED BY <2>1, <1>2, <1>5, AccountsStep DEF Inv, Ids
<1> QED BY <1>7, <1>8, <1>9 DEF Inv

\* The first save of a registration: a new row with a free key.
LEMMA CreateInsertInv ==
    ASSUME Inv, NEW r \in Requests, CreateInsert(r)
    PROVE  Inv'
<1>1. PICK b \in Branches, k \in Codes : req[r] = Creating(b, k)
  BY Kinds DEF CreateInsert, Inv, TypeOK, RequestOK, IsOpening, IsCreating, IsImporting
<1>2. PICK n : n = NewCustomer(b, k)
  OBVIOUS
<1>3. PICK x : x = Opening(nextId)
  OBVIOUS
<1>4. /\ customers' = customers \cup {n}
      /\ nextId' = nextId + 1
      /\ req' = [req EXCEPT ![r] = x]
      /\ UNCHANGED <<accounts, begun, cutOff>>
  BY <1>1, <1>2, <1>3 DEF CreateInsert, Creating, Goes
<1>5. nextId \in Nat /\ nextId' \in Nat /\ nextId <= nextId' /\ nextId < nextId'
  BY <1>4 DEF Inv, TypeOK
<1>6. n \in Customer /\ n.id = nextId /\ n.code = k
  BY <1>2, <1>5 DEF NewCustomer, Customer
<1>7. TypeOK'
  <2>1. customers' \subseteq Customer /\ \A c \in customers' : c.id < nextId'
    BY <1>4, <1>5, <1>6 DEF Inv, TypeOK, Customer
  <2>2. Ids \subseteq {c.id : c \in customers'}
    BY <1>4 DEF Ids
  <2>3. nextId \in {c.id : c \in customers'}
    BY <1>4, <1>6
  <2>4. RequestOK(x)'
    BY <2>3, <1>3 DEF RequestOK
  <2>5. /\ accounts' \subseteq {c.id : c \in customers'}
        /\ cutOff' \subseteq {c.id : c \in customers'}
        /\ begun' \in 0 .. MaxRequests
    BY <2>2, <1>4 DEF Inv, TypeOK, Ids
  <2> QED BY <2>1, <2>2, <2>4, <2>5, <1>4, <1>5, TypeStep DEF Inv
<1>8. CodesUnique'
  <2>1. Wants(r, k)
    BY <1>1, Kinds DEF Wants, Creating
  <2>2. \A c \in AllRows : KeyOf[c.code] # KeyOf[n.code]
    BY <2>1, <1>6, FreeKey DEF CreateInsert
  <2>3. \A s \in Requests : Pending(s)' \subseteq Pending(s)
    BY <1>3, <1>4, Kinds, PendingAfter DEF Inv
  <2>4. AllRows' \subseteq AllRows \cup {n}
    BY <2>3, <1>4 DEF AllRows
  <2> QED BY <2>2, <2>4, OneNewRow DEF Inv
<1>9. AccountlessOnlyWhenCutOff'
  <2>1. \A i \in Ids : req[r] = Opening(i) => i \in accounts' \cup cutOff'
    BY <1>1, Kinds
  <2>2. {c.id : c \in customers'} \subseteq Ids \cup accounts' \cup {i \in Nat : x = Opening(i)}
    BY <1>3, <1>4, <1>5, <1>6 DEF Ids
  <2> QED BY <2>1, <2>2, <1>4, AccountsStep DEF Inv
<1> QED BY <1>7, <1>8, <1>9 DEF Inv

\* The second save: the customer of the registration has its account.
LEMMA CreateAccountInv ==
    ASSUME Inv, NEW r \in Requests, CreateAccount(r)
    PROVE  Inv'
<1>1. PICK i \in Ids : req[r] = Opening(i)
  BY Kinds DEF CreateAccount, Inv, TypeOK, RequestOK, IsOpening, IsCreating, IsImporting, Ids
<1>2. /\ accounts' = accounts \cup {i}
      /\ req' = [req EXCEPT ![r] = Idle]
      /\ UNCHANGED <<customers, nextId, begun, cutOff>>
  BY <1>1 DEF CreateAccount, Opening, Ends
<1>3. TypeOK'
  <2>1. RequestOK(Idle)'
    BY IdleIsOK
  <2>2. nextId' \in Nat /\ nextId <= nextId' /\ accounts' \subseteq Ids
    BY <1>1, <1>2 DEF Inv, TypeOK, Ids
  <2> QED BY <2>1, <2>2, <1>2, TypeStep DEF Inv, TypeOK, Ids
<1>4. CodesUnique'
  <2>1. \A s \in Requests : Pending(s)' \subseteq Pending(s)
    BY <1>2, Kinds, PendingAfter DEF Inv
  <2> QED BY <1>2, <2>1, NoNewRow DEF Inv, AllRows
<1>5. AccountlessOnlyWhenCutOff'
  <2>1. \A j \in Ids : req[r] = Opening(j) => j \in accounts' \cup cutOff'
    BY <1>1, <1>2 DEF Opening
  <2> QED BY <2>1, <1>2, AccountsStep DEF Inv, Ids
<1> QED BY <1>3, <1>4, <1>5 DEF Inv

\* An insert of an import: a new pending row with a free key.
LEMMA ImportInsertInv ==
    ASSUME Inv, NEW r \in Requests, ImportInsert(r)
    PROVE  Inv'
<1>1. /\ req[r] = Importing(req[r].branch, req[r].todo, req[r].rows)
      /\ req[r].branch \in Branches /\ req[r].todo \subseteq Nat \X Codes
      /\ req[r].rows \subseteq Customer
      /\ \A c \in req[r].rows : c.id < nextId /\ c.branch = req[r].branch
  BY Kinds DEF ImportInsert, Inv, TypeOK, RequestOK
<1>2. PICK row \in req[r].todo :
          /\ IsFirst(row, req[r].todo)
          /\ Goes(r, Importing(req[r].branch, req[r].todo \ {row},
                               req[r].rows \cup {NewCustomer(req[r].branch, row[2])}))
  BY DEF ImportInsert
<1>3. PICK n : n = NewCustomer(req[r].branch, row[2])
  OBVIOUS
<1>4. PICK x : x = Importing(req[r].branch, req[r].todo \ {row}, req[r].rows \cup {n})
  OBVIOUS
<1>5. /\ req' = [req EXCEPT ![r] = x]
      /\ nextId' = nextId + 1
      /\ UNCHANGED <<customers, accounts, begun, cutOff>>
  BY <1>2, <1>3, <1>4 DEF ImportInsert, Goes
<1>6. nextId \in Nat /\ nextId' \in Nat /\ nextId <= nextId' /\ nextId < nextId'
  BY <1>5 DEF Inv, TypeOK
<1>7. row[2] \in Codes
  BY <1>1, <1>2
<1>8. n \in Customer /\ n.id = nextId /\ n.code = row[2] /\ n.branch = req[r].branch
  BY <1>1, <1>3, <1>6, <1>7 DEF NewCustomer, Customer
<1>9. IsImporting(req[r]) /\ IsImporting(x)
  BY <1>4 DEF ImportInsert, Importing, IsImporting
<1>10. TypeOK'
  <2>1. x.branch = req[r].branch /\ x.todo = req[r].todo \ {row} /\ x.rows = req[r].rows \cup {n}
    BY <1>4 DEF Importing
  <2>2. \A c \in x.rows : c.id < nextId' /\ c.branch = x.branch
    BY <2>1, <1>1, <1>5, <1>6, <1>8 DEF Customer
  <2>3. x = Importing(x.branch, x.todo, x.rows)
    BY <2>1, <1>4
  <2>4. x.branch \in Branches /\ x.todo \subseteq Nat \X Codes /\ x.rows \subseteq Customer
    BY <2>1, <1>1, <1>8
  <2>5. RequestOK(x)'
    BY <2>2, <2>3, <2>4, <1>9 DEF RequestOK
  <2>6. \A c \in customers' : c.id < nextId'
    BY <1>5, <1>6 DEF Inv, TypeOK, Customer
  <2> QED BY <2>5, <2>6, <1>5, <1>6, TypeStep DEF Inv, TypeOK, Ids
<1>11. CodesUnique'
  <2>1. Wants(r, row[2])
    BY <1>2, <1>9 DEF Wants
  <2>2. \A c \in AllRows : KeyOf[c.code] # KeyOf[n.code]
    BY <2>1, <1>7, <1>8, FreeKey DEF ImportInsert
  <2>3. Pending(r)' = Pending(r) \cup {n}
    <3>1. Pending(r)' = x.rows
      BY <1>5, <1>9, PendingAfter DEF Inv
    <3>2. x.rows = req[r].rows \cup {n}
      BY <1>4 DEF Importing
    <3>3. Pending(r) = req[r].rows
      BY <1>9 DEF Pending
    <3> QED BY <3>1, <3>2, <3>3
  <2>4. \A s \in Requests : Pending(s)' \subseteq Pending(s) \cup {n}
    BY <2>3, <1>5, PendingAfter DEF Inv
  <2>5. AllRows' \subseteq AllRows \cup {n}
    BY <2>4, <1>5 DEF AllRows
  <2> QED BY <2>2, <2>5, OneNewRow DEF Inv
<1>12. AccountlessOnlyWhenCutOff'
  <2>1. \A i \in Ids : req[r] = Opening(i) => i \in accounts' \cup cutOff'
    BY <1>9, Kinds
  <2> QED BY <2>1, <1>5, AccountsStep DEF Inv, Ids
<1> QED BY <1>10, <1>11, <1>12 DEF Inv

\* The commit of an import: its pending rows become customers with accounts.
LEMMA ImportCommitInv ==
    ASSUME Inv, NEW r \in Requests, ImportCommit(r)
    PROVE  Inv'
<1>1. /\ req[r].rows \subseteq Customer
      /\ \A c \in req[r].rows : c.id < nextId
  BY Kinds DEF ImportCommit, Inv, TypeOK, RequestOK
<1>2. PICK rows : rows = req[r].rows
  OBVIOUS
<1>3. /\ customers' = customers \cup rows
      /\ accounts' = accounts \cup {c.id : c \in rows}
      /\ req' = [req EXCEPT ![r] = Idle]
      /\ UNCHANGED <<nextId, begun, cutOff>>
  BY <1>2 DEF ImportCommit, Ends
<1>4. IsImporting(req[r])
  BY DEF ImportCommit
<1>5. TypeOK'
  <2>1. Ids \subseteq {c.id : c \in customers'} /\ {c.id : c \in rows} \subseteq {c.id : c \in customers'}
    BY <1>3 DEF Ids
  <2>2. /\ accounts' \subseteq {c.id : c \in customers'}
        /\ cutOff' \subseteq {c.id : c \in customers'}
    BY <2>1, <1>3 DEF Inv, TypeOK, Ids
  <2>3. customers' \subseteq Customer /\ \A c \in customers' : c.id < nextId'
    BY <1>1, <1>2, <1>3 DEF Inv, TypeOK
  <2>4. nextId' \in Nat /\ nextId <= nextId' /\ begun' \in 0 .. MaxRequests
    BY <1>3 DEF Inv, TypeOK
  <2>5. RequestOK(Idle)'
    BY IdleIsOK
  <2> QED BY <2>1, <2>2, <2>3, <2>4, <2>5, <1>3, TypeStep DEF Inv
<1>6. CodesUnique'
  <2>1. \A s \in Requests : Pending(s)' \subseteq Pending(s)
    BY <1>3, Kinds, PendingAfter DEF Inv
  <2>2. rows \subseteq Pending(r)
    BY <1>2, <1>4 DEF Pending
  <2> QED BY <2>1, <2>2, <1>3, NoNewRow DEF Inv, AllRows
<1>7. AccountlessOnlyWhenCutOff'
  <2>1. \A i \in Ids : req[r] = Opening(i) => i \in accounts' \cup cutOff'
    BY <1>4, Kinds
  <2>2. {c.id : c \in customers'} \subseteq Ids \cup accounts' \cup {i \in Nat : Idle = Opening(i)}
    BY <1>3 DEF Ids
  <2> QED BY <2>1, <2>2, <1>3, AccountsStep DEF Inv
<1> QED BY <1>5, <1>6, <1>7 DEF Inv

\* Deactivation keeps the id and the code.
LEMMA DeactivateInv ==
    ASSUME Inv, NEW c \in customers, Deactivate(c)
    PROVE  Inv'
<1>1. PICK d : d = [c EXCEPT !.status = "Inactive"]
  OBVIOUS
<1>2. customers' = (customers \ {c}) \cup {d} /\ UNCHANGED <<accounts, nextId, req, begun, cutOff>>
  BY <1>1 DEF Deactivate
<1>3. c \in Customer
  BY DEF Inv, TypeOK
<1>4. d \in Customer /\ d.id = c.id /\ d.code = c.code
  BY <1>1, <1>3 DEF Customer
<1>5. {x.id : x \in customers'} = Ids
  BY <1>2, <1>4 DEF Ids
<1>6. TypeOK'
  <2>1. customers' \subseteq Customer /\ \A x \in customers' : x.id < nextId
    BY <1>2, <1>4 DEF Inv, TypeOK
  <2>2. ASSUME NEW r \in Requests PROVE RequestOK(req[r])'
    <3>1. ASSUME NEW y, y = req[r] PROVE RequestOK(y)'
      <4>1. RequestOK(y)
        BY <3>1 DEF Inv, TypeOK
      <4> QED BY <4>1, <1>2, <1>5, RequestOKGrows DEF Inv, TypeOK
    <3> QED BY <3>1, <1>2
  <2> QED BY <2>1, <2>2, <1>2, <1>5 DEF Inv, TypeOK, Ids
<1>7. CodesUnique'
  <2>1. \A r \in Requests : Pending(r)' = Pending(r)
    BY <1>2 DEF Pending
  <2>2. \A x \in AllRows' : \E y \in AllRows : y.id = x.id /\ y.code = x.code
    BY <2>1, <1>2, <1>4 DEF AllRows
  <2> QED BY <2>2 DEF Inv, CodesUnique
<1>8. AccountlessOnlyWhenCutOff'
  <2>1. \A x \in customers' : \E y \in customers : y.id = x.id
    BY <1>2, <1>4
  <2> QED BY <2>1, <1>2 DEF Inv, AccountlessOnlyWhenCutOff
<1> QED BY <1>6, <1>7, <1>8 DEF Inv

(***************************************************************************)
(* Theorems                                                                *)
(***************************************************************************)

LEMMA NextInv == Inv /\ [Next]_vars => Inv'
<1> SUFFICES ASSUME Inv, [Next]_vars PROVE Inv'
  OBVIOUS
<1>1. CASE UNCHANGED vars
  <2>1. UNCHANGED <<customers, accounts, nextId, req, begun, cutOff>>
    BY <1>1 DEF vars
  <2>2. TypeOK'
    <3>1. ASSUME NEW r \in Requests PROVE RequestOK(req[r])'
      <4>1. ASSUME NEW y, y = req[r] PROVE RequestOK(y)'
        <5>1. RequestOK(y)
          BY <4>1 DEF Inv, TypeOK
        <5> QED BY <5>1, <2>1, RequestOKGrows DEF Inv, TypeOK, Ids
      <4> QED BY <4>1, <2>1
    <3> QED BY <3>1, <2>1 DEF Inv, TypeOK
  <2>3. CodesUnique' /\ AccountlessOnlyWhenCutOff'
    BY <2>1 DEF Inv, CodesUnique, AllRows, Pending, AccountlessOnlyWhenCutOff
  <2> QED BY <2>2, <2>3 DEF Inv
<1>2. ASSUME NEW r \in Requests, NEW b \in Branches, NEW k \in Codes, CreateCheck(r, b, k)
      PROVE  Inv'
  BY <1>2, CreateCheckInv
<1>3. ASSUME NEW r \in Requests, NEW b \in Branches, NEW f \in Files, ImportValidate(r, b, f)
      PROVE  Inv'
  BY <1>3, ImportValidateInv
<1>4. ASSUME NEW r \in Requests, Step(r) PROVE Inv'
  BY <1>4, CreateInsertInv, RefusedInv, CreateAccountInv, ImportInsertInv, ImportCommitInv DEF Step
<1>5. ASSUME NEW r \in Requests, DeadlockVictim(r) \/ CutOff(r) PROVE Inv'
  BY <1>5, DeadlockVictimInv, CutOffInv
<1>6. ASSUME NEW c \in customers, Deactivate(c) PROVE Inv'
  BY <1>6, DeactivateInv
<1> QED BY <1>1, <1>2, <1>3, <1>4, <1>5, <1>6 DEF Next

LEMMA InitInv == Init => Inv
<1> SUFFICES ASSUME Init PROVE Inv
  OBVIOUS
<1>1. TypeOK
  BY RequestsAssumption DEF Init, TypeOK, RequestOK
<1>2. AllRows = {}
  BY Kinds DEF Init, AllRows, Pending
<1>3. CodesUnique /\ AccountlessOnlyWhenCutOff
  BY <1>2 DEF Init, CodesUnique, AccountlessOnlyWhenCutOff
<1> QED BY <1>1, <1>3 DEF Inv

\* The state of registrations and imports is always well formed.
THEOREM RegistrationTypeCorrect == Spec => []TypeOK
<1>1. Inv => TypeOK
  BY DEF Inv
<1> QED BY <1>1, InitInv, NextInv, PTL DEF Spec

\* However registrations and imports of any branches interleave, are cut off or
\* are rolled back, no code of the index is given twice.
THEOREM CodesStayUnique == Spec => []CodesUnique
<1>1. Inv => CodesUnique
  BY DEF Inv
<1> QED BY <1>1, InitInv, NextInv, PTL DEF Spec

\* The only way to a customer without an account is a registration cut off
\* between its two saves.
THEOREM OnlyCutOffRegistrationsLackAccounts == Spec => []AccountlessOnlyWhenCutOff
<1>1. Inv => AccountlessOnlyWhenCutOff
  BY DEF Inv
<1> QED BY <1>1, InitInv, NextInv, PTL DEF Spec

\* A request only changes by its own steps.
LEMMA OwnSteps ==
    ASSUME TypeOK, [Next]_vars, NEW r \in Requests, req'[r] # req[r]
    PROVE  \/ \E b \in Branches, k \in Codes : CreateCheck(r, b, k)
           \/ \E b \in Branches, f \in Files : ImportValidate(r, b, f)
           \/ Step(r) \/ DeadlockVictim(r) \/ CutOff(r)
<1>1. ASSUME NEW s \in Requests, NEW x, req' = [req EXCEPT ![s] = x] PROVE s = r
  BY <1>1, RequestsAfter
<1>2. ~UNCHANGED vars /\ ~UNCHANGED req
  BY DEF vars
<1>3. ASSUME NEW c \in customers PROVE ~Deactivate(c)
  BY <1>2 DEF Deactivate
<1>4. ASSUME NEW s \in Requests, NEW b \in Branches, NEW k \in Codes, CreateCheck(s, b, k)
      PROVE  s = r
  BY <1>1, <1>2, <1>4 DEF CreateCheck, Goes
<1>5. ASSUME NEW s \in Requests, NEW b \in Branches, NEW f \in Files, ImportValidate(s, b, f)
      PROVE  s = r
  BY <1>1, <1>2, <1>5 DEF ImportValidate, Goes
<1>6. ASSUME NEW s \in Requests, Step(s) \/ DeadlockVictim(s) \/ CutOff(s) PROVE s = r
  BY <1>1, <1>6 DEF Step, DeadlockVictim, CutOff, CreateInsert, CreateRefused, CreateAccount,
                    ImportInsert, ImportFails, ImportCommit, Goes, Ends
<1> QED BY <1>2, <1>3, <1>4, <1>5, <1>6 DEF Next

\* A file of any length is imported whole or not at all.
THEOREM ImportsAreAllOrNothing == Spec => ImportIsAllOrNothing
<1>1. TypeOK /\ [Next]_vars =>
        \A r \in Requests : IsImporting(req[r]) /\ req'[r] # req[r] =>
          \/ UNCHANGED <<customers, accounts>>
          \/ /\ req'[r] = Idle /\ req[r].todo = {}
             /\ customers' = customers \cup req[r].rows
             /\ \A c \in req[r].rows : c.id \in accounts'
  <2> SUFFICES ASSUME TypeOK, [Next]_vars, NEW r \in Requests,
                      IsImporting(req[r]), req'[r] # req[r]
               PROVE  \/ UNCHANGED <<customers, accounts>>
                      \/ /\ req'[r] = Idle /\ req[r].todo = {}
                         /\ customers' = customers \cup req[r].rows
                         /\ \A c \in req[r].rows : c.id \in accounts'
    OBVIOUS
  <2>1. ~IsCreating(req[r]) /\ ~IsOpening(req[r]) /\ req[r] # Idle
    BY Kinds DEF IsCreating, IsOpening, IsImporting
  <2>2. ImportInsert(r) \/ ImportFails(r) \/ ImportCommit(r) \/ DeadlockVictim(r) \/ CutOff(r)
    BY <2>1, OwnSteps DEF CreateCheck, ImportValidate, Begins, Step, CreateInsert,
                          CreateRefused, CreateAccount
  <2>3. CASE ImportCommit(r)
    <3>1. req' = [req EXCEPT ![r] = Idle]
      BY <2>3 DEF ImportCommit, Ends
    <3>2. req'[r] = Idle
      BY <3>1, RequestsAfter
    <3> QED BY <2>3, <3>2 DEF ImportCommit
  <2>4. CASE ~ImportCommit(r)
    BY <2>2, <2>4 DEF ImportInsert, ImportFails, DeadlockVictim, CutOff
  <2> QED BY <2>3, <2>4
<1> QED BY <1>1, RegistrationTypeCorrect, PTL DEF Spec, ImportIsAllOrNothing

=============================================================================
