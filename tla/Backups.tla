------------------------------ MODULE Backups ------------------------------
(* Backup and restore: BackupHistoriesController, MySqlBackupService and     *)
(* MySqlRestoreService, with the mysqldump and mysql processes they start    *)
(* and the backup directory. The history of the backups is a table of the    *)
(* database that is dumped and overwritten: `first` stands for the tables a  *)
(* dump holds up to BackupHistories (users and history), `ledger` for those  *)
(* after it.                                                                 *)
EXTENDS Naturals, FiniteSets

CONSTANTS
    Requests,       \* slots for concurrent requests of administrators
    Types,          \* the backup types asked for
    MaxRuns,        \* bound of the backups begun in a behaviour
    MaxRestores,    \* bound of the restores begun in a behaviour
    MaxWork,        \* bound of the changes of the ledger in a behaviour
    MaxClock        \* bound of the seconds that pass in a behaviour

ASSUME TypesAssumption == Types \subseteq {"Full", "SchemaOnly", "DataOnly"}
ASSUME BoundsAssumption == {MaxRuns, MaxRestores, MaxWork, MaxClock} \subseteq Nat

VARIABLES
    history,    \* BackupHistories: its rows by id
    nextId,     \* AUTO_INCREMENT of BackupHistories
    users,      \* the users are there (a history row refers to its user)
    ledger,     \* version of the other data, 0 when the tables are empty
    files,      \* the backup directory: what each file holds, by name
    clock,      \* the second the clock shows
    req,        \* the request in each slot
    runs, restores, works,  \* how many of each there have been
    dumped,     \* history variable: backups whose process exited with 0
    orphaned    \* history variable: backups nobody will finish the row of

database == <<history, nextId, users, ledger>>
counters == <<clock, runs, restores, works>>
vars == <<database, files, req, counters, dumped, orphaned>>

(***************************************************************************)
(* Rows, dumps, requests                                                   *)
(***************************************************************************)

\* `run` names the backup a row was inserted for, which its id does not.
HistoryRow_faulty(type, name, run) ==
    [type |-> type, name |-> name, status |-> "Completed", run |-> run]
HistoryRow(type, name, run) == [type |-> type, name |-> name, status |-> "InProgress", run |-> run]
\* The file name has the type and the second.
FileName_faulty(type) == <<"Full", clock>>
FileName(type) == <<type, clock>>
\* What mysqldump reads in one transaction.
Snapshot(type, run) ==
    [type |-> type, run |-> run, history |-> history, nextId |-> nextId, users |-> users,
     ledger |-> ledger]

Idle == [op |-> "none", at |-> "none"]
\* `alone` says that nobody else has disturbed the request since it began: for a
\* backup, no restore and no other backup has touched its row; for a restore,
\* nobody has changed the ledger, the tables or the file.
Backup(id, run, name) ==
    [op |-> "backup", at |-> "start", id |-> id, run |-> run, name |-> name, alone |-> TRUE,
     ok |-> FALSE]
\* `run` is the backup of the row read.
Restore(run, name) ==
    [op |-> "restore", at |-> "first", run |-> run, name |-> name, alone |-> TRUE, ok |-> FALSE]

Backing(r, at) == req[r].op = "backup" /\ req[r].at = at
Restoring(r, at) == req[r].op = "restore" /\ req[r].at = at
Writing(r, name) == Backing(r, "dump") /\ req[r].name = name

Reading(name) == {s \in Requests : req[s].op = "restore" /\ req[s].name = name}
Saving(id) == {s \in Requests : req[s].op = "backup" /\ req[s].id = id}
Restores == {s \in Requests : req[s].op = "restore"}
Busy == {s \in Requests : req[s] # Idle}
\* Request r goes on to x, which disturbs some of the others.
Goes(r, x, disturbed) ==
    req' = [s \in Requests |-> IF s = r THEN x
                               ELSE IF s \in disturbed THEN [req[s] EXCEPT !.alone = FALSE]
                               ELSE req[s]]
\* A statement of a restore makes what a dump reads meanwhile unreliable.
Disturbed ==
    [n \in DOMAIN files |->
        [files[n] EXCEPT !.sound = @ /\ ~\E s \in Requests : Writing(s, n)]]

Init ==
    /\ history = <<>> /\ nextId = 1 /\ users = TRUE /\ ledger = 1
    /\ files = <<>> /\ clock = 0
    /\ req = [r \in Requests |-> Idle]
    /\ runs = 0 /\ restores = 0 /\ works = 0
    /\ dumped = {} /\ orphaned = {}

(***************************************************************************)
(* CreateBackupAsync                                                       *)
(***************************************************************************)

\* The row is saved; without its user the insert fails and the request ends.
BackupBegin(r, type) ==
    /\ req[r] = Idle /\ runs < MaxRuns /\ users
    /\ runs' = runs + 1
    /\ history' = [i \in DOMAIN history \cup {nextId} |->
                      IF i = nextId THEN HistoryRow(type, FileName(type), runs + 1) ELSE history[i]]
    /\ nextId' = nextId + 1
    /\ Goes(r, Backup(nextId, runs + 1, FileName(type)), {})
    /\ UNCHANGED <<users, ledger, files, clock, restores, works, dumped, orphaned>>

\* The process starts and the file is created, or truncated when there is one of
\* that name; a file that is being written is not sound any more.
DumpBegins(r) ==
    /\ Backing(r, "start")
    /\ LET name == req[r].name
           file == [dump  |-> Snapshot(name[1], req[r].run), whole |-> FALSE,
                    sound |-> req[r].alone /\ ~\E s \in Requests : Writing(s, name)]
       IN /\ files' = [n \in DOMAIN files \cup {name} |-> IF n = name THEN file ELSE files[n]]
          /\ Goes(r, [req[r] EXCEPT !.at = "dump"], Reading(name))
    /\ UNCHANGED <<database, counters, dumped, orphaned>>

\* Its output has been copied to the file and it exits with 0.
DumpEnds_faulty(r) ==
    /\ Backing(r, "dump")
    /\ dumped' = dumped \cup {req[r].run}
    /\ Goes(r, [req[r] EXCEPT !.at = "save", !.ok = TRUE], Reading(req[r].name))
    /\ UNCHANGED <<database, files, counters, orphaned>>
DumpEnds(r) ==
    /\ Backing(r, "dump")
    /\ files' = [files EXCEPT ![req[r].name].whole = @ \/ files[req[r].name].dump.run = req[r].run]
    /\ dumped' = dumped \cup {req[r].run}
    /\ Goes(r, [req[r] EXCEPT !.at = "save", !.ok = TRUE], Reading(req[r].name))
    /\ UNCHANGED <<database, counters, orphaned>>

\* No such program, a file somebody else has open (on Windows), another exit
\* code, an exception: recorded as a failure.
DumpFails(r) ==
    /\ Backing(r, "start") \/ Backing(r, "dump")
    /\ Goes(r, [req[r] EXCEPT !.at = "save"], {})
    /\ UNCHANGED <<database, files, counters, dumped, orphaned>>

\* The row of that id is updated, whichever it is; when there is none the save
\* throws.
BackupSave_faulty(r) ==
    /\ Backing(r, "save")
    /\ history' = IF req[r].id \in DOMAIN history /\ req[r].ok
                  THEN [history EXCEPT ![req[r].id].status = "Completed"]
                  ELSE history
    /\ Goes(r, Idle, Saving(req[r].id))
    /\ UNCHANGED <<nextId, users, ledger, files, counters, dumped, orphaned>>
BackupSave(r) ==
    /\ Backing(r, "save")
    /\ history' = IF req[r].id \in DOMAIN history
                  THEN [history EXCEPT ![req[r].id].status = IF req[r].ok THEN "Completed" ELSE "Failed"]
                  ELSE history
    /\ Goes(r, Idle, Saving(req[r].id))
    /\ UNCHANGED <<nextId, users, ledger, files, counters, dumped, orphaned>>

(***************************************************************************)
(* RestoreAsync                                                            *)
(***************************************************************************)

RestoreBegin(r, id) ==
    /\ req[r] = Idle /\ restores < MaxRestores
    /\ history[id].status = "Completed" /\ history[id].name \in DOMAIN files
    /\ restores' = restores + 1
    /\ Goes(r, Restore(history[id].run, history[id].name), {})
    /\ UNCHANGED <<database, files, clock, runs, works, dumped, orphaned>>

File(r) == files[req[r].name]
Dump(r) == File(r).dump
\* The rows a dump has of BackupHistories.
DumpedRows(d) == IF d.type = "SchemaOnly" THEN <<>> ELSE d.history
Unfinished(rows) == {rows[i].run : i \in {j \in DOMAIN rows : rows[j].status = "InProgress"}}
\* A dump of the data alone inserts into tables that may have rows of the same keys.
Collides_faulty(r) == FALSE
Collides(r) ==
    /\ Dump(r).type = "DataOnly"
    /\ \/ Restoring(r, "first") /\ (users \/ DOMAIN history \cap DOMAIN Dump(r).history # {})
       \/ Restoring(r, "second") /\ ledger # 0

Answers(r, ok, disturbed) == Goes(r, [req[r] EXCEPT !.at = "answer", !.ok = ok], disturbed)

\* mysql replaces, or fills, the first tables.
FeedFirst(r) ==
    /\ Restoring(r, "first") /\ ~Collides(r)
    /\ LET d == Dump(r)
           data == d.type = "DataOnly"
       IN /\ history' = IF data THEN [i \in DOMAIN history \cup DOMAIN d.history |->
                                         IF i \in DOMAIN history THEN history[i] ELSE d.history[i]]
                        ELSE DumpedRows(d)
          /\ nextId' = IF data /\ nextId > d.nextId THEN nextId ELSE d.nextId
          /\ users' = (d.type # "SchemaOnly" /\ (d.users \/ (data /\ users)))
          /\ orphaned' = orphaned \cup Unfinished(DumpedRows(d))
    /\ files' = Disturbed
    /\ Goes(r, [req[r] EXCEPT !.at = "second"], Busy)
    /\ UNCHANGED <<ledger, counters, dumped>>

\* mysql replaces, or fills, the other tables and exits with 0.
FeedSecond(r) ==
    /\ Restoring(r, "second") /\ ~Collides(r)
    /\ ledger' = IF Dump(r).type = "SchemaOnly" THEN 0 ELSE Dump(r).ledger
    /\ files' = Disturbed
    /\ Answers(r, TRUE, Busy)
    /\ UNCHANGED <<history, nextId, users, counters, dumped, orphaned>>

\* mysql stops at the first row that is there already: false, or an exception
\* when it no longer reads what is written to it.
FeedFails(r) ==
    /\ req[r].op = "restore" /\ Collides(r)
    /\ Answers(r, FALSE, {})
    /\ UNCHANGED <<database, files, counters, dumped, orphaned>>

\* The statements come to an end early: before the tables, or after they were
\* made and before they were filled.
Stopped(r) ==
    LET made == Dump(r).type # "DataOnly" IN
    \/ UNCHANGED database
    \/ /\ Restoring(r, "first") /\ made
       /\ history' = <<>> /\ nextId' = Dump(r).nextId /\ users' = FALSE
       /\ UNCHANGED ledger
    \/ /\ Restoring(r, "second") /\ made
       /\ ledger' = 0 /\ UNCHANGED <<history, nextId, users>>

\* A file that is not whole is fed as far as it goes, and mysql exits with 0.
FeedShort(r) ==
    /\ Restoring(r, "first") \/ Restoring(r, "second")
    /\ ~File(r).whole
    /\ Stopped(r)
    /\ files' = Disturbed
    /\ Answers(r, TRUE, Busy)
    /\ UNCHANGED <<counters, dumped, orphaned>>

Answer(r) ==
    /\ Restoring(r, "answer")
    /\ Goes(r, Idle, {})
    /\ UNCHANGED <<database, files, counters, dumped, orphaned>>

(***************************************************************************)
(* Failures and the rest of the application                                *)
(***************************************************************************)

\* The application stops or the browser goes away: the last save of a backup is
\* not made, for it has the token of the request.
BackupCutOff(r) ==
    /\ req[r].op = "backup"
    /\ orphaned' = orphaned \cup {req[r].run}
    /\ Goes(r, Idle, {})
    /\ UNCHANGED <<database, files, counters, dumped>>

RestoreCutOff(r) ==
    /\ Restoring(r, "first") \/ Restoring(r, "second")
    /\ Stopped(r)
    /\ files' = Disturbed
    /\ Goes(r, Idle, Busy)
    /\ UNCHANGED <<counters, dumped, orphaned>>

\* Somebody works with the ledger.
Work ==
    /\ works < MaxWork /\ users
    /\ works' = works + 1
    /\ ledger' = works + 2
    /\ req' = [s \in Requests |->
                  IF s \in Restores THEN [req[s] EXCEPT !.alone = FALSE] ELSE req[s]]
    /\ UNCHANGED <<history, nextId, users, files, clock, runs, restores, dumped, orphaned>>

Tick ==
    /\ clock < MaxClock
    /\ clock' = clock + 1
    /\ UNCHANGED <<database, files, req, runs, restores, works, dumped, orphaned>>

Step(r) ==
    \/ DumpBegins(r) \/ DumpEnds(r) \/ DumpFails(r) \/ BackupSave(r)
    \/ FeedFirst(r) \/ FeedSecond(r) \/ FeedFails(r) \/ FeedShort(r) \/ Answer(r)

Next ==
    \/ \E r \in Requests :
          \/ \E type \in Types : BackupBegin(r, type)
          \/ \E id \in DOMAIN history : RestoreBegin(r, id)
          \/ Step(r) \/ BackupCutOff(r) \/ RestoreCutOff(r)
    \/ Work \/ Tick

Spec == Init /\ [][Next]_vars

(***************************************************************************)
(* Properties                                                              *)
(***************************************************************************)

Status == {"InProgress", "Completed", "Failed"}
Name == Types \X (0 .. MaxClock)
Row == {row \in [type : Types, name : Name, status : Status, run : 1 .. MaxRuns] :
           row.name[1] = row.type}
Table == UNION {[ids -> Row] : ids \in SUBSET (1 .. MaxRuns)}
DumpType == [type : Types, run : 1 .. MaxRuns, history : Table, nextId : 1 .. MaxRuns + 1,
             users : BOOLEAN, ledger : 0 .. MaxWork + 1]
BackupType == [op : {"backup"}, at : {"start", "dump", "save"}, id : 1 .. MaxRuns,
               run : 1 .. MaxRuns, name : Name, alone : BOOLEAN, ok : BOOLEAN]
RestoreType == [op : {"restore"}, at : {"first", "second", "answer"}, run : 1 .. MaxRuns,
                name : Name, alone : BOOLEAN, ok : BOOLEAN]
TypeOK ==
    /\ history \in Table /\ nextId \in 1 .. MaxRuns + 1 /\ users \in BOOLEAN
    /\ ledger \in 0 .. MaxWork + 1
    /\ DOMAIN files \subseteq Name
    /\ files \in [DOMAIN files -> [dump : DumpType, whole : BOOLEAN, sound : BOOLEAN]]
    /\ clock \in 0 .. MaxClock
    /\ runs \in 0 .. MaxRuns /\ restores \in 0 .. MaxRestores /\ works \in 0 .. MaxWork
    /\ req \in [Requests -> {Idle} \cup BackupType \cup RestoreType]
    /\ dumped \subseteq 1 .. runs /\ orphaned \subseteq 1 .. MaxRuns

\* A backup of the data alone cannot be restored: its own row was saved before
\* the dump, so the dump collides with the table the restore is chosen from.
DataOnlyIsNeverRestored ==
    \A r \in Requests :
        Restoring(r, "answer") /\ req[r].name[1] = "DataOnly" /\ File(r).whole /\ req[r].alone
        => ~req[r].ok

\* When a full backup whose process ended is restored with success, its file is
\* still its own and no other request touched the data or the file meanwhile, the
\* ledger is as it was at the backup and not what a part of a dump leaves.
RestoreGivesItBack ==
    \A r \in Requests :
        /\ Restoring(r, "answer") /\ req[r].ok /\ req[r].alone
        /\ Dump(r).type = "Full" /\ Dump(r).run = req[r].run
        /\ req[r].run \in dumped /\ File(r).sound
        => ledger = Dump(r).ledger /\ File(r).whole

\* A row is InProgress while its backup runs; else the request was cut off, or a
\* restore has brought the row back as it was.
UnfinishedIsExplained ==
    \A run \in Unfinished(history) :
        run \in orphaned \/ \E r \in Requests : req[r].op = "backup" /\ req[r].run = run

\* Why these hold. Ids are given out once, up to a restore, and a history has users.
TableOK(rows, next, hasUsers) ==
    /\ DOMAIN rows \subseteq 1 .. next - 1 /\ next <= runs + 1
    /\ DOMAIN rows # {} => hasUsers
\* A file is whole once the process of its dump has ended, and a dump that nothing
\* has disturbed has the row of its own backup, unfinished.
FileOK(n) ==
    LET d == files[n].dump IN
    /\ d.type = n[1] /\ d.run <= runs /\ TableOK(d.history, d.nextId, d.users)
    /\ d.run \in dumped => files[n].whole
    /\ files[n].sound => d.run \in Unfinished(d.history)
\* A backup writes its file alone of all, and its row is as it was inserted until
\* something disturbs it.
BackupOK(r) ==
    /\ req[r].run <= runs /\ req[r].id <= runs
    /\ Backing(r, "dump") => req[r].name \in DOMAIN files
    /\ req[r].at # "save" => req[r].run \notin dumped
    /\ \A s \in Requests \ {r} : req[s].op = "backup" => req[s].run # req[r].run
    /\ \A n \in DOMAIN files :
          files[n].dump.run = req[r].run => n = req[r].name /\ req[r].at # "start"
    /\ Backing(r, "start") /\ req[r].alone =>
          /\ req[r].id \in DOMAIN history
          /\ history[req[r].id].run = req[r].run
          /\ history[req[r].id].status = "InProgress"
\* An undisturbed restore begins with users, gets over them only with the tables it
\* makes itself, and ends with the ledger of its dump if that is whole.
RestoreOK(r) ==
    /\ req[r].name \in DOMAIN files
    /\ req[r].alone =>
          /\ Restoring(r, "first") => users
          /\ Restoring(r, "second") => req[r].name[1] # "DataOnly"
          /\ Restoring(r, "answer") /\ req[r].ok /\ File(r).whole =>
                /\ req[r].name[1] # "DataOnly"
                /\ req[r].name[1] = "Full" => ledger = Dump(r).ledger
\* An unfinished row nobody has abandoned has the id its backup will save.
UnfinishedOK ==
    \A i \in DOMAIN history :
        history[i].status = "InProgress" =>
            \/ history[i].run \in orphaned
            \/ \E r \in Requests : /\ req[r].op = "backup"
                                   /\ req[r].run = history[i].run /\ req[r].id = i

IInv ==
    /\ TypeOK
    /\ TableOK(history, nextId, users)
    /\ \A n \in DOMAIN files : FileOK(n)
    /\ \A r \in Requests : /\ req[r].op = "backup" => BackupOK(r)
                           /\ req[r].op = "restore" => RestoreOK(r)
    /\ UnfinishedOK

\* A restore brings the row of its own backup back as unfinished: the same
\* backup cannot be restored again. (Unless the backup was disturbed: its row may
\* have been overwritten by a restore, or by the save of a backup that had the
\* same id before one, and then the dump does not have it as it was.)
OwnRowComesBackUnfinished ==
    [][\A r \in Requests :
          /\ Restoring(r, "first") /\ req'[r].at = "second"
          /\ Dump(r).type = "Full" /\ File(r).sound
          => Dump(r).run \in Unfinished(history')]_vars
=============================================================================
