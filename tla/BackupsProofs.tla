--------------------------- MODULE BackupsProofs ---------------------------
(***************************************************************************)
(* Backup and restore keep their promises for every number of concurrent   *)
(* requests, backups and restores.                                         *)
(*                                                                         *)
(* The argument: requests disturb each other only through the tables and   *)
(* the files, and the flag `alone` of a request is cleared whenever one    *)
(* does. What a request relies on while it is alone (BackupOK, RestoreOK)  *)
(* therefore survives the steps of others (section 2), and each of its own *)
(* steps establishes what the next one relies on (sections 3 to 5).        *)
(***************************************************************************)
EXTENDS Backups, TLAPS

-----------------------------------------------------------------------------
(* 1. Types *)

ReqType == {Idle} \cup BackupType \cup RestoreType
FileType == [dump : DumpType, whole : BOOLEAN, sound : BOOLEAN]

LEMMA Bounds == /\ MaxRuns \in Nat /\ MaxRestores \in Nat /\ MaxWork \in Nat /\ MaxClock \in Nat
BY BoundsAssumption

LEMMA Tables ==
  ASSUME NEW h
  PROVE  h \in Table <=> h \in [DOMAIN h -> Row] /\ DOMAIN h \subseteq 1 .. MaxRuns
BY DEF Table

LEMMA FilesTyped ==
  ASSUME TypeOK, NEW n \in DOMAIN files
  PROVE  /\ files[n] \in FileType /\ files[n].dump \in DumpType /\ n \in Name
         /\ files[n].whole \in BOOLEAN /\ files[n].sound \in BOOLEAN
BY DEF TypeOK, FileType

LEMMA RequestsTyped ==
  ASSUME TypeOK, NEW r \in Requests
  PROVE  /\ req[r] \in ReqType
         /\ req[r].op = "none" => req[r] = Idle
         /\ req[r].op = "backup" => req[r] \in BackupType
         /\ req[r].op = "restore" => req[r] \in RestoreType
         /\ req[r].op \in {"none", "backup", "restore"}
BY DEF TypeOK, ReqType, Idle, BackupType, RestoreType

(* What a step of r does to the other requests.                             *)
LEMMA OthersGo ==
  ASSUME TypeOK, NEW r \in Requests, NEW x, NEW D, Goes(r, x, D), D \subseteq Busy,
         NEW s \in Requests, s # r
  PROVE  /\ req'[s] \in ReqType /\ req'[s].op = req[s].op /\ req'[s].at = req[s].at
         /\ req[s].op # "none" =>
              /\ req'[s].run = req[s].run /\ req'[s].name = req[s].name /\ req'[s].ok = req[s].ok
              /\ req'[s].alone => req[s].alone /\ s \notin D
         /\ req[s].op = "backup" => req'[s].id = req[s].id
<1>1. req'[s] = IF s \in D THEN [req[s] EXCEPT !.alone = FALSE] ELSE req[s]
  BY DEF Goes
<1>2. CASE s \notin D
  BY <1>1, <1>2, RequestsTyped
<1>3. CASE s \in D
  <2>1. req[s].op # "none"
    BY <1>3, RequestsTyped DEF Busy
  <2>2. CASE req[s] \in BackupType
    BY <1>1, <1>3, <2>2 DEF BackupType, ReqType
  <2>3. CASE req[s] \in RestoreType
    BY <1>1, <1>3, <2>3 DEF RestoreType, ReqType
  <2> QED BY <2>1, <2>2, <2>3, RequestsTyped
<1> QED BY <1>2, <1>3

LEMMA RequestsStayTyped ==
  ASSUME TypeOK, NEW r \in Requests, NEW x \in ReqType, NEW D, Goes(r, x, D), D \subseteq Busy
  PROVE  req' \in [Requests -> ReqType] /\ req'[r] = x
<1>1. req'[r] = x /\ req' = [s \in Requests |-> req'[s]]
  BY DEF Goes
<1>2. \A s \in Requests : req'[s] \in ReqType
  BY <1>1, OthersGo
<1> QED BY <1>1, <1>2

LEMMA DisturbedAreBusy ==
  /\ \A n : Reading(n) \subseteq Busy
  /\ \A id : Saving(id) \subseteq Busy
  /\ {} \subseteq Busy /\ Busy \subseteq Busy
BY DEF Reading, Saving, Busy, Idle

-----------------------------------------------------------------------------
(* 2. What the steps of others leave alone *)

(* The files as any request but a dump leaves them.                         *)
FilesKept ==
    /\ DOMAIN files' = DOMAIN files /\ files' \in [DOMAIN files -> FileType]
    /\ \A n \in DOMAIN files : /\ files'[n].dump = files[n].dump
                               /\ files'[n].whole = files[n].whole
                               /\ files'[n].sound => files[n].sound

LEMMA KeepingFiles ==
  ASSUME TypeOK, UNCHANGED files \/ files' = Disturbed
  PROVE  FilesKept
<1>1. CASE UNCHANGED files
  BY <1>1 DEF FilesKept, TypeOK, FileType
<1>2. CASE files' = Disturbed
  <2>1. /\ DOMAIN files' = DOMAIN files /\ files' = [n \in DOMAIN files |-> files'[n]]
        /\ \A n \in DOMAIN files :
             files'[n] = [files[n] EXCEPT !.sound = @ /\ ~\E s \in Requests : Writing(s, n)]
    BY <1>2 DEF Disturbed
  <2>2. \A n \in DOMAIN files : files[n] \in FileType
    BY FilesTyped
  <2>3. ASSUME NEW n \in DOMAIN files
        PROVE  /\ files'[n] \in FileType
               /\ files'[n].dump = files[n].dump /\ files'[n].whole = files[n].whole
               /\ files'[n].sound => files[n].sound
    <3> DEFINE sound == files[n].sound /\ ~\E s \in Requests : Writing(s, n)
    <3>1. files'[n] = [files[n] EXCEPT !.sound = sound]
      BY <2>1
    <3>2. sound \in BOOLEAN /\ (sound => files[n].sound)
      OBVIOUS
    <3> HIDE DEF sound
    <3> QED BY <2>2, <3>1, <3>2 DEF FileType
  <2> QED BY <2>1, <2>3 DEF FilesKept
<1> QED BY <1>1, <1>2

LEMMA FileStaysOK ==
  ASSUME NEW n, FileOK(n), runs \in Nat, runs' \in Nat, runs <= runs',
         files[n].dump.run \in Nat, files[n].dump.nextId \in Nat,
         files'[n].dump = files[n].dump,
         files[n].whole => files'[n].whole, files'[n].sound => files[n].sound,
         files[n].dump.run \in dumped' => files[n].dump.run \in dumped \/ files'[n].whole
  PROVE  FileOK(n)'
BY DEF FileOK, TableOK

LEMMA FilesStayOK ==
  ASSUME IInv, FilesKept, dumped' = dumped, runs' \in Nat, runs <= runs'
  PROVE  \A n \in DOMAIN files' : FileOK(n)'
<1> TAKE n \in DOMAIN files'
<1>1. n \in DOMAIN files /\ FileOK(n) /\ runs \in Nat /\ TypeOK
  BY DEF FilesKept, IInv, TypeOK
<1>2. files[n].dump.run \in Nat /\ files[n].dump.nextId \in Nat
  BY <1>1, FilesTyped DEF DumpType
<1> QED BY <1>1, <1>2, FileStaysOK DEF FilesKept

(* A backup whose row nobody writes, or that is disturbed.                  *)
LEMMA BackupStaysOK ==
  ASSUME IInv, NEW r \in Requests, NEW x, NEW D, Goes(r, x, D), D \subseteq Busy,
         NEW s \in Requests, s # r, req[s].op = "backup",
         runs' \in Nat, runs <= runs', DOMAIN files \subseteq DOMAIN files',
         req[s].run \in dumped' => req[s].run \in dumped,
         x.op = "backup" => x.run # req[s].run,
         \A n \in DOMAIN files' :
            files'[n].dump.run = req[s].run => n \in DOMAIN files /\ files[n].dump.run = req[s].run,
         \/ s \in D
         \/ req[s].id \notin DOMAIN history
         \/ req[s].id \in DOMAIN history' /\ history'[req[s].id] = history[req[s].id]
  PROVE  BackupOK(s)'
<1>1. BackupOK(s) /\ TypeOK /\ req[s] \in BackupType
  BY RequestsTyped DEF IInv
<1>2. /\ req'[s].op = "backup" /\ req'[s].at = req[s].at /\ req'[s].run = req[s].run
      /\ req'[s].name = req[s].name /\ req'[s].id = req[s].id
      /\ req'[s].alone => req[s].alone /\ s \notin D
  BY <1>1, OthersGo
<1>3. \A t \in Requests \ {s} : req'[t].op = "backup" => req'[t].run # req'[s].run
  <2> TAKE t \in Requests \ {s}
  <2>1. CASE t = r
    BY <2>1, <1>2 DEF Goes
  <2>2. CASE t # r
    BY <2>2, <1>1, <1>2, OthersGo DEF BackupOK
  <2> QED BY <2>1, <2>2
<1>4. req'[s].run <= runs' /\ req'[s].id <= runs'
  BY <1>1, <1>2, Bounds DEF BackupOK, BackupType, TypeOK
<1>5. /\ Backing(s, "dump")' => req'[s].name \in DOMAIN files'
      /\ req'[s].at # "save" => req'[s].run \notin dumped'
      /\ \A n \in DOMAIN files' :
            files'[n].dump.run = req'[s].run => n = req'[s].name /\ req'[s].at # "start"
  BY <1>1, <1>2 DEF BackupOK, Backing
<1>6. Backing(s, "start")' /\ req'[s].alone =>
          /\ req'[s].id \in DOMAIN history'
          /\ history'[req'[s].id].run = req'[s].run
          /\ history'[req'[s].id].status = "InProgress"
  BY <1>1, <1>2 DEF BackupOK, Backing
<1> QED BY <1>3, <1>4, <1>5, <1>6 DEF BackupOK

(* A restore whose tables and file nobody changes, or that is disturbed.    *)
LEMMA RestoreStaysOK ==
  ASSUME IInv, NEW r \in Requests, NEW x, NEW D, Goes(r, x, D), D \subseteq Busy,
         NEW s \in Requests, s # r, req[s].op = "restore", DOMAIN files \subseteq DOMAIN files',
         \/ s \in D
         \/ /\ users' = users /\ ledger' = ledger
            /\ files'[req[s].name].dump = files[req[s].name].dump
            /\ files'[req[s].name].whole = files[req[s].name].whole
  PROVE  RestoreOK(s)'
<1>1. RestoreOK(s) /\ TypeOK /\ req[s] \in RestoreType
  BY RequestsTyped DEF IInv
<1>2. /\ req'[s].op = "restore" /\ req'[s].at = req[s].at /\ req'[s].ok = req[s].ok
      /\ req'[s].name = req[s].name
      /\ req'[s].alone => req[s].alone /\ s \notin D
  BY <1>1, OthersGo
<1> QED BY <1>1, <1>2 DEF RestoreOK, Restoring, File, Dump

(* Together, for a step that begins and ends no dump.                       *)
LEMMA OthersStayOK ==
  ASSUME IInv, NEW r \in Requests, NEW x, NEW D, Goes(r, x, D), D \subseteq Busy,
         FilesKept, dumped' = dumped, runs' \in Nat, runs <= runs',
         \A s \in Requests \ {r} : req[s].op = "backup" /\ x.op = "backup" => x.run # req[s].run,
         \A s \in Requests \ {r} : req[s].op = "backup" =>
            \/ s \in D
            \/ req[s].id \notin DOMAIN history
            \/ req[s].id \in DOMAIN history' /\ history'[req[s].id] = history[req[s].id],
         \/ Restores \subseteq D \cup {r}
         \/ users' = users /\ ledger' = ledger
  PROVE  \A s \in Requests \ {r} : /\ req'[s].op = "backup" => BackupOK(s)'
                                   /\ req'[s].op = "restore" => RestoreOK(s)'
<1> TAKE s \in Requests \ {r}
<1>1. req'[s].op = req[s].op
  BY OthersGo DEF IInv
<1>2. ASSUME req[s].op = "backup"
      PROVE  BackupOK(s)'
  BY <1>2, BackupStaysOK DEF FilesKept
<1>3. ASSUME req[s].op = "restore"
      PROVE  RestoreOK(s)'
  <2>1. req[s].name \in DOMAIN files
    BY <1>3 DEF IInv, RestoreOK
  <2>2. /\ files'[req[s].name].dump = files[req[s].name].dump
        /\ files'[req[s].name].whole = files[req[s].name].whole
        /\ DOMAIN files \subseteq DOMAIN files'
    BY <2>1 DEF FilesKept
  <2>3. s \in D \/ (users' = users /\ ledger' = ledger)
    BY <1>3 DEF Restores
  <2> QED BY <1>3, <2>2, <2>3, RestoreStaysOK
<1> QED BY <1>1, <1>2, <1>3

(* An unfinished row stays explained if its backup goes on or is orphaned.  *)
Explained(i, run) ==
    \/ run \in orphaned
    \/ \E r \in Requests : req[r].op = "backup" /\ req[r].run = run /\ req[r].id = i

LEMMA StaysExplained ==
  ASSUME TypeOK, NEW r \in Requests, NEW x, NEW D, Goes(r, x, D), D \subseteq Busy,
         orphaned \subseteq orphaned', NEW i, NEW run, Explained(i, run),
         req[r].op = "backup" /\ req[r].run = run /\ req[r].id = i =>
            run \in orphaned' \/ (x.op = "backup" /\ x.run = run /\ x.id = i)
  PROVE  Explained(i, run)'
<1>1. CASE run \in orphaned
  BY <1>1 DEF Explained
<1>2. ASSUME NEW s \in Requests, req[s].op = "backup", req[s].run = run, req[s].id = i
      PROVE  Explained(i, run)'
  <2>1. CASE s = r
    BY <1>2, <2>1 DEF Explained, Goes
  <2>2. CASE s # r
    BY <1>2, <2>2, OthersGo DEF Explained
  <2> QED BY <2>1, <2>2
<1> QED BY <1>1, <1>2 DEF Explained

(* The invariant of the unfinished rows, row by row.                        *)
LEMMA UnfinishedRows ==
  /\ UnfinishedOK <=> \A i \in DOMAIN history : \A run :
        history[i].status = "InProgress" /\ history[i].run = run => Explained(i, run)
  /\ UnfinishedOK' <=> \A i \in DOMAIN history' : \A run :
        history'[i].status = "InProgress" /\ history'[i].run = run => Explained(i, run)'
BY DEF UnfinishedOK, Explained

(* For a step that leaves the history as it is.                             *)
LEMMA UnfinishedStaysOK ==
  ASSUME IInv, NEW r \in Requests, NEW x, NEW D, Goes(r, x, D), D \subseteq Busy,
         history' = history, orphaned \subseteq orphaned',
         req[r].op = "backup" =>
            \/ req[r].run \in orphaned'
            \/ x.op = "backup" /\ x.run = req[r].run /\ x.id = req[r].id
  PROVE  UnfinishedOK'
<1> SUFFICES ASSUME NEW i \in DOMAIN history', NEW run,
                    history'[i].status = "InProgress", history'[i].run = run
             PROVE  Explained(i, run)'
  BY UnfinishedRows
<1>1. Explained(i, run) /\ TypeOK
  BY UnfinishedRows DEF IInv
<1>2. req[r].op = "backup" /\ req[r].run = run /\ req[r].id = i =>
          run \in orphaned' \/ (x.op = "backup" /\ x.run = run /\ x.id = i)
  OBVIOUS
<1> QED BY <1>1, <1>2, StaysExplained

-----------------------------------------------------------------------------
(* 3. Backups *)

LEMMA BackupBeginKeeps ==
  ASSUME IInv, NEW r \in Requests, NEW type \in Types, BackupBegin(r, type)
  PROVE  IInv'
<1> DEFINE row == HistoryRow(type, FileName(type), runs + 1)
           x == Backup(nextId, runs + 1, FileName(type))
<1>1. TypeOK /\ TableOK(history, nextId, users)
  BY DEF IInv
<1>2. /\ req[r] = Idle /\ users /\ runs < MaxRuns /\ runs' = runs + 1 /\ nextId' = nextId + 1
      /\ Goes(r, x, {}) /\ DOMAIN history' = DOMAIN history \cup {nextId}
      /\ history' = [i \in DOMAIN history \cup {nextId} |->
                        IF i = nextId THEN row ELSE history[i]]
      /\ UNCHANGED <<users, ledger, files, clock, restores, works, dumped, orphaned>>
  BY DEF BackupBegin
<1>3. /\ runs \in Nat /\ runs + 1 \in 1 .. MaxRuns /\ nextId \in 1 .. runs + 1
      /\ nextId \in 1 .. MaxRuns /\ nextId \notin DOMAIN history
  BY <1>1, <1>2, Bounds DEF TypeOK, TableOK
<1>4. FileName(type) \in Name /\ FileName(type)[1] = type
  BY <1>1 DEF FileName, Name, TypeOK
<1>5. /\ x \in BackupType /\ x.op = "backup" /\ x.at = "start" /\ x.id = nextId
      /\ x.run = runs + 1 /\ x.name = FileName(type)
  BY <1>3, <1>4 DEF Backup, BackupType
<1>6. row \in Row /\ row.status = "InProgress" /\ row.run = runs + 1
  BY <1>3, <1>4 DEF HistoryRow, Row, Status
<1> HIDE DEF row, x
<1>7. history' \in Table
  BY <1>1, <1>2, <1>3, <1>6, Tables DEF TypeOK
<1>8. req' \in [Requests -> ReqType] /\ req'[r] = x
  BY <1>1, <1>2, <1>5, RequestsStayTyped DEF ReqType
<1>9. TypeOK'
  BY <1>1, <1>2, <1>3, <1>7, <1>8, Bounds DEF TypeOK, ReqType
<1>10. TableOK(history, nextId, users)'
  BY <1>1, <1>2, <1>3 DEF TableOK
<1>11. FilesKept
  BY <1>1, <1>2, KeepingFiles
<1>12. \A n \in DOMAIN files' : FileOK(n)'
  BY <1>2, <1>3, <1>11, FilesStayOK
<1>13. \A s \in Requests : req[s].op = "backup" => req[s].run <= runs /\ req[s].run \in Nat
  BY <1>1, RequestsTyped DEF IInv, BackupOK, BackupType
<1>14. BackupOK(r)'
  <2>1. runs + 1 \notin dumped'
    BY <1>1, <1>2, <1>3 DEF TypeOK
  <2>2. \A s \in Requests \ {r} : req'[s].op = "backup" => req'[s].run # runs + 1
    BY <1>1, <1>2, <1>3, <1>13, OthersGo
  <2>3. \A n \in DOMAIN files' : files'[n].dump.run # runs + 1
    <3> TAKE n \in DOMAIN files'
    <3>1. files[n].dump.run <= runs /\ files[n].dump.run \in Nat
      BY <1>1, <1>2, FilesTyped DEF IInv, FileOK, DumpType
    <3> QED BY <3>1, <1>2, <1>3
  <2> QED BY <1>2, <1>3, <1>5, <1>6, <1>8, <2>1, <2>2, <2>3 DEF BackupOK, Backing
<1>15. \A s \in Requests \ {r} : /\ req'[s].op = "backup" => BackupOK(s)'
                                 /\ req'[s].op = "restore" => RestoreOK(s)'
  <2>1. \A s \in Requests \ {r} :
           req[s].op = "backup" /\ x.op = "backup" => x.run # req[s].run
    BY <1>3, <1>5, <1>13
  <2>2. \A id \in DOMAIN history : id \in DOMAIN history' /\ history'[id] = history[id]
    BY <1>2, <1>3
  <2> QED BY <1>2, <1>3, <1>11, <2>1, <2>2, OthersStayOK
<1>16. UnfinishedOK'
  <2> SUFFICES ASSUME NEW i \in DOMAIN history', NEW run,
                      history'[i].status = "InProgress", history'[i].run = run
               PROVE  Explained(i, run)'
    BY UnfinishedRows
  <2>1. CASE i = nextId
    BY <1>2, <1>5, <1>6, <1>8, <2>1 DEF Explained
  <2>2. CASE i # nextId
    <3>1. history'[i] = history[i] /\ i \in DOMAIN history
      BY <1>2, <2>2
    <3>2. Explained(i, run)
      BY <3>1, UnfinishedRows DEF IInv
    <3> QED BY <1>1, <1>2, <3>2, StaysExplained DEF Idle
  <2> QED BY <2>1, <2>2
<1> QED BY <1>5, <1>8, <1>9, <1>10, <1>12, <1>14, <1>15, <1>16 DEF IInv

(* A request of the same backup, further on.                                *)
LEMMA BackupGoesOn ==
  ASSUME TypeOK, NEW r \in Requests, req[r].op = "backup",
         NEW at \in {"start", "dump", "save"}, NEW ok \in BOOLEAN
  PROVE  LET x == [req[r] EXCEPT !.at = at, !.ok = ok]
             y == [req[r] EXCEPT !.at = at]
         IN /\ x \in BackupType /\ x.op = "backup" /\ x.at = at
            /\ x.run = req[r].run /\ x.id = req[r].id /\ x.name = req[r].name
            /\ y \in BackupType /\ y.op = "backup" /\ y.at = at
            /\ y.run = req[r].run /\ y.id = req[r].id /\ y.name = req[r].name
BY RequestsTyped DEF BackupType

LEMMA DumpBeginsKeeps ==
  ASSUME IInv, NEW r \in Requests, DumpBegins(r)
  PROVE  IInv'
<1> DEFINE name == req[r].name
           run == req[r].run
           x == [req[r] EXCEPT !.at = "dump"]
           file == [dump  |-> Snapshot(name[1], run), whole |-> FALSE,
                    sound |-> req[r].alone /\ ~\E s \in Requests : Writing(s, name)]
<1>1. TypeOK /\ TableOK(history, nextId, users) /\ BackupOK(r)
  BY DEF IInv, DumpBegins, Backing
<1>2. /\ req[r].op = "backup" /\ req[r].at = "start" /\ Goes(r, x, Reading(name))
      /\ files' = [n \in DOMAIN files \cup {name} |-> IF n = name THEN file ELSE files[n]]
      /\ UNCHANGED <<history, nextId, users, ledger, clock, runs, restores, works, dumped, orphaned>>
  BY DEF DumpBegins, Backing, database, counters
<1>3. /\ req[r] \in BackupType /\ name \in Name /\ name[1] \in Types /\ run \in 1 .. MaxRuns
      /\ req[r].alone \in BOOLEAN
  BY <1>1, <1>2, RequestsTyped DEF BackupType, Name
<1>4. /\ x \in BackupType /\ x.op = "backup" /\ x.at = "dump"
      /\ x.run = run /\ x.id = req[r].id /\ x.name = name
  BY <1>1, <1>2, <1>3, BackupGoesOn
<1>5. /\ file.dump \in DumpType /\ file.dump.run = run /\ file.dump.type = name[1]
      /\ file.dump.history = history /\ file.dump.nextId = nextId /\ file.dump.users = users
  BY <1>1, <1>3 DEF Snapshot, DumpType, TypeOK
<1>6. file \in FileType /\ ~file.whole /\ (file.sound => req[r].alone)
  BY <1>3, <1>5 DEF FileType
<1> HIDE DEF file, x
<1>7. /\ DOMAIN files' = DOMAIN files \cup {name} /\ files'[name] = file
      /\ \A n \in DOMAIN files : n # name => files'[n] = files[n]
  BY <1>2
<1>8. req' \in [Requests -> ReqType] /\ req'[r] = x
  BY <1>1, <1>2, <1>4, DisturbedAreBusy, RequestsStayTyped DEF ReqType
<1>9. TypeOK'
  <2>1. files' \in [DOMAIN files' -> FileType] /\ DOMAIN files' \subseteq Name
    BY <1>1, <1>2, <1>3, <1>6 DEF TypeOK, FileType
  <2> QED BY <1>1, <1>2, <1>8, <2>1 DEF TypeOK, ReqType, FileType
<1>10. TableOK(history, nextId, users)'
  BY <1>1, <1>2 DEF TableOK
<1>11. \A n \in DOMAIN files' : FileOK(n)'
  <2> TAKE n \in DOMAIN files'
  <2>1. CASE n = name
    <3>1. req[r].alone => run \in Unfinished(history)
      BY <1>1, <1>2 DEF BackupOK, Backing, Unfinished
    <3> QED BY <1>1, <1>2, <1>5, <1>6, <1>7, <2>1, <3>1 DEF FileOK, TableOK, BackupOK
  <2>2. CASE n # name
    <3>1. n \in DOMAIN files /\ files'[n] = files[n] /\ FileOK(n)
      BY <1>7, <2>2 DEF IInv
    <3> QED BY <1>2, <3>1 DEF FileOK, TableOK
  <2> QED BY <2>1, <2>2
<1>12. BackupOK(r)'
  <2>1. \A s \in Requests \ {r} : req'[s].op = "backup" => req'[s].run # run
    BY <1>1, <1>2, DisturbedAreBusy, OthersGo DEF BackupOK
  <2>2. \A n \in DOMAIN files' : files'[n].dump.run = run => n = name
    BY <1>1, <1>2, <1>7 DEF BackupOK
  <2> QED BY <1>1, <1>2, <1>4, <1>7, <1>8, <2>1, <2>2 DEF BackupOK, Backing
<1>13. \A s \in Requests \ {r} : /\ req'[s].op = "backup" => BackupOK(s)'
                                 /\ req'[s].op = "restore" => RestoreOK(s)'
  <2> TAKE s \in Requests \ {r}
  <2>1. req'[s].op = req[s].op /\ runs \in Nat
    BY <1>1, <1>2, DisturbedAreBusy, OthersGo DEF TypeOK
  <2>2. ASSUME req[s].op = "backup"
        PROVE  BackupOK(s)'
    <3>1. req[s].run # run
      BY <1>1, <2>2 DEF BackupOK
    <3>2. \A n \in DOMAIN files' :
             files'[n].dump.run = req[s].run => n \in DOMAIN files /\ files[n].dump.run = req[s].run
      BY <1>5, <1>7, <3>1
    <3>3. /\ Goes(r, x, Reading(name)) /\ Reading(name) \subseteq Busy
          /\ runs' \in Nat /\ runs <= runs' /\ DOMAIN files \subseteq DOMAIN files'
          /\ dumped' = dumped /\ history' = history
          /\ x.op = "backup" => x.run # req[s].run
      BY <1>2, <1>4, <1>7, <2>1, <3>1, DisturbedAreBusy
    <3> HIDE DEF name, run
    <3> QED BY <2>2, <3>2, <3>3, BackupStaysOK
  <2>3. ASSUME req[s].op = "restore"
        PROVE  RestoreOK(s)'
    <3>1. req[s].name \in DOMAIN files
      BY <2>3 DEF IInv, RestoreOK
    <3>2. s \in Reading(name) \/ files'[req[s].name] = files[req[s].name]
      BY <1>7, <2>3, <3>1 DEF Reading
    <3> QED BY <1>2, <1>7, <2>3, <3>2, DisturbedAreBusy, RestoreStaysOK
  <2> QED BY <2>1, <2>2, <2>3
<1>14. UnfinishedOK'
  BY <1>2, <1>4, DisturbedAreBusy, UnfinishedStaysOK
<1> QED BY <1>4, <1>8, <1>9, <1>10, <1>11, <1>12, <1>13, <1>14 DEF IInv

LEMMA DumpEndsKeeps ==
  ASSUME IInv, NEW r \in Requests, DumpEnds(r)
  PROVE  IInv'
<1> DEFINE name == req[r].name
           run == req[r].run
           x == [req[r] EXCEPT !.at = "save", !.ok = TRUE]
           whole == files[name].whole \/ files[name].dump.run = run
<1>1. TypeOK /\ TableOK(history, nextId, users) /\ BackupOK(r)
  BY DEF IInv, DumpEnds, Backing
<1>2. /\ req[r].op = "backup" /\ req[r].at = "dump" /\ Goes(r, x, Reading(name))
      /\ files' = [files EXCEPT ![name].whole = @ \/ files[name].dump.run = run]
      /\ dumped' = dumped \cup {run}
      /\ UNCHANGED <<history, nextId, users, ledger, clock, runs, restores, works, orphaned>>
  BY DEF DumpEnds, Backing, database, counters
<1>3. /\ req[r] \in BackupType /\ name \in DOMAIN files /\ run \in 1 .. runs /\ runs \in Nat
  BY <1>1, <1>2, RequestsTyped DEF BackupType, BackupOK, Backing, TypeOK
<1>4. /\ x \in BackupType /\ x.op = "backup" /\ x.at = "save"
      /\ x.run = run /\ x.id = req[r].id /\ x.name = name
  BY <1>1, <1>2, BackupGoesOn
<1>5. /\ DOMAIN files' = DOMAIN files
      /\ \A n \in DOMAIN files : n # name => files'[n] = files[n]
      /\ files'[name] = [files[name] EXCEPT !.whole = whole]
      /\ files' = [n \in DOMAIN files |-> files'[n]]
  BY <1>1, <1>2, <1>3, FilesTyped DEF TypeOK
<1>6. files[name] \in FileType /\ whole \in BOOLEAN
  BY <1>1, <1>3, FilesTyped
<1> HIDE DEF x, whole
<1>7. /\ files'[name] \in FileType /\ files'[name].dump = files[name].dump
      /\ files'[name].whole = whole /\ files'[name].sound = files[name].sound
  BY <1>5, <1>6 DEF FileType
<1>8. req' \in [Requests -> ReqType] /\ req'[r] = x
  BY <1>1, <1>2, <1>4, DisturbedAreBusy, RequestsStayTyped DEF ReqType
<1>9. TypeOK'
  <2>1. files' \in [DOMAIN files' -> FileType]
    <3>1. \A n \in DOMAIN files : files[n] \in FileType
      BY <1>1, FilesTyped
    <3>2. \A n \in DOMAIN files : files'[n] \in FileType
      BY <1>5, <1>7, <3>1
    <3> QED BY <1>5, <3>2
  <2>2. DOMAIN files' \subseteq Name /\ dumped' \subseteq 1 .. runs
    BY <1>1, <1>2, <1>3, <1>5 DEF TypeOK
  <2> QED BY <1>1, <1>2, <1>8, <2>1, <2>2 DEF TypeOK, ReqType, FileType
<1>10. TableOK(history, nextId, users)'
  BY <1>1, <1>2 DEF TableOK
<1>11. \A n \in DOMAIN files' : FileOK(n)'
  <2> TAKE n \in DOMAIN files'
  <2>1. FileOK(n) /\ n \in DOMAIN files
    BY <1>5 DEF IInv
  <2>2. files[n].dump.run \in Nat /\ files[n].dump.nextId \in Nat
    BY <1>1, <2>1, FilesTyped DEF DumpType
  <2>3. CASE n = name
    <3>1. /\ files'[n].dump = files[n].dump /\ files'[n].sound = files[n].sound
          /\ files[n].whole => files'[n].whole
          /\ files[n].dump.run = run => files'[n].whole
      BY <1>7, <2>3 DEF whole
    <3>2. /\ runs' = runs /\ runs <= runs'
          /\ \A k : k \in dumped' => k \in dumped \/ k = run
      BY <1>2, <1>3
    <3> HIDE DEF run, name
    <3> QED BY <1>3, <2>1, <2>2, <3>1, <3>2, FileStaysOK
  <2>4. CASE n # name
    <3>1. files[n].dump.run # run
      BY <1>1, <2>1, <2>4 DEF BackupOK
    <3> QED BY <1>2, <1>3, <1>5, <2>1, <2>2, <2>4, <3>1, FileStaysOK
  <2> QED BY <2>3, <2>4
<1>12. \A n \in DOMAIN files' : files'[n].dump = files[n].dump /\ n \in DOMAIN files
  BY <1>5, <1>7
<1>13. BackupOK(r)'
  <2>1. \A s \in Requests \ {r} : req'[s].op = "backup" => req'[s].run # run
    BY <1>1, <1>2, DisturbedAreBusy, OthersGo DEF BackupOK
  <2> QED BY <1>1, <1>2, <1>4, <1>8, <1>12, <2>1 DEF BackupOK, Backing
<1>14. \A s \in Requests \ {r} : /\ req'[s].op = "backup" => BackupOK(s)'
                                 /\ req'[s].op = "restore" => RestoreOK(s)'
  <2> TAKE s \in Requests \ {r}
  <2>1. req'[s].op = req[s].op
    BY <1>1, <1>2, DisturbedAreBusy, OthersGo
  <2>2. ASSUME req[s].op = "backup"
        PROVE  BackupOK(s)'
    <3>1. req[s].run # run
      BY <1>1, <2>2 DEF BackupOK
    <3> QED BY <1>2, <1>3, <1>4, <1>5, <1>12, <2>2, <3>1, DisturbedAreBusy, BackupStaysOK
  <2>3. ASSUME req[s].op = "restore"
        PROVE  RestoreOK(s)'
    <3>1. req[s].name \in DOMAIN files
      BY <2>3 DEF IInv, RestoreOK
    <3>2. s \in Reading(name) \/ files'[req[s].name] = files[req[s].name]
      BY <1>5, <2>3, <3>1 DEF Reading
    <3> QED BY <1>2, <1>5, <2>3, <3>2, DisturbedAreBusy, RestoreStaysOK
  <2> QED BY <2>1, <2>2, <2>3
<1>15. UnfinishedOK'
  BY <1>2, <1>4, DisturbedAreBusy, UnfinishedStaysOK
<1> QED BY <1>4, <1>8, <1>9, <1>10, <1>11, <1>13, <1>14, <1>15 DEF IInv

(* A step that touches neither tables nor files nor the list of dumps.      *)
LEMMA OnlyRequestMoves ==
  ASSUME IInv, NEW r \in Requests, NEW x \in ReqType, Goes(r, x, {}),
         UNCHANGED <<history, nextId, users, ledger, files, clock, runs, works, dumped>>,
         restores' \in 0 .. MaxRestores,
         orphaned \subseteq orphaned', orphaned' \subseteq 1 .. MaxRuns,
         x.op = "backup" => req[r].op = "backup" /\ x.run = req[r].run /\ BackupOK(r)',
         x.op = "restore" => RestoreOK(r)',
         req[r].op = "backup" =>
            \/ req[r].run \in orphaned'
            \/ x.op = "backup" /\ x.run = req[r].run /\ x.id = req[r].id
  PROVE  IInv'
<1>1. TypeOK /\ TableOK(history, nextId, users) /\ runs \in Nat
  BY DEF IInv, TypeOK
<1>2. req' \in [Requests -> ReqType] /\ req'[r] = x
  BY <1>1, RequestsStayTyped, DisturbedAreBusy
<1>3. TypeOK'
  BY <1>1, <1>2 DEF TypeOK, ReqType
<1>4. TableOK(history, nextId, users)'
  BY <1>1 DEF TableOK
<1>5. FilesKept /\ runs' \in Nat /\ runs <= runs'
  BY <1>1, KeepingFiles
<1>6. \A n \in DOMAIN files' : FileOK(n)'
  BY <1>5, FilesStayOK
<1>7. \A s \in Requests \ {r} : req[s].op = "backup" /\ x.op = "backup" => x.run # req[s].run
  BY DEF IInv, BackupOK
<1>8. \A s \in Requests \ {r} : /\ req'[s].op = "backup" => BackupOK(s)'
                                /\ req'[s].op = "restore" => RestoreOK(s)'
  <2>1. \A s \in Requests \ {r} : req[s].op = "backup" =>
           \/ s \in {}
           \/ req[s].id \notin DOMAIN history
           \/ req[s].id \in DOMAIN history' /\ history'[req[s].id] = history[req[s].id]
    OBVIOUS
  <2> QED BY <1>5, <1>7, <2>1, DisturbedAreBusy, OthersStayOK
<1>9. UnfinishedOK'
  BY DisturbedAreBusy, UnfinishedStaysOK
<1> QED BY <1>2, <1>3, <1>4, <1>6, <1>8, <1>9 DEF IInv

LEMMA DumpFailsKeeps ==
  ASSUME IInv, NEW r \in Requests, DumpFails(r)
  PROVE  IInv'
<1> DEFINE x == [req[r] EXCEPT !.at = "save"]
<1>1. TypeOK /\ BackupOK(r) /\ req[r].op = "backup" /\ Goes(r, x, {})
  BY DEF IInv, DumpFails, Backing
<1>2. UNCHANGED <<history, nextId, users, ledger, files, clock, runs, restores, works, dumped, orphaned>>
  BY DEF DumpFails, database, counters
<1>3. /\ x \in ReqType /\ x.op = "backup" /\ x.at = "save"
      /\ x.run = req[r].run /\ x.id = req[r].id /\ x.name = req[r].name
  BY <1>1, BackupGoesOn DEF ReqType
<1> HIDE DEF x
<1>4. BackupOK(r)'
  <2>1. req'[r] = x
    BY <1>1 DEF Goes
  <2>2. \A s \in Requests \ {r} : req'[s].op = "backup" => req'[s].run # req[r].run
    BY <1>1, DisturbedAreBusy, OthersGo DEF BackupOK
  <2> QED BY <1>1, <1>2, <1>3, <2>1, <2>2 DEF BackupOK, Backing
<1>5. restores' \in 0 .. MaxRestores /\ orphaned' \subseteq 1 .. MaxRuns
  BY <1>1, <1>2 DEF TypeOK
<1> QED BY <1>1, <1>2, <1>3, <1>4, <1>5, OnlyRequestMoves

LEMMA BackupCutOffKeeps ==
  ASSUME IInv, NEW r \in Requests, BackupCutOff(r)
  PROVE  IInv'
<1>1. TypeOK /\ req[r].op = "backup" /\ Goes(r, Idle, {}) /\ orphaned' = orphaned \cup {req[r].run}
  BY DEF IInv, BackupCutOff
<1>2. UNCHANGED <<history, nextId, users, ledger, files, clock, runs, restores, works, dumped>>
  BY DEF BackupCutOff, database, counters
<1>3. req[r].run \in 1 .. MaxRuns
  BY <1>1, RequestsTyped DEF BackupType
<1>4. restores' \in 0 .. MaxRestores /\ orphaned' \subseteq 1 .. MaxRuns
  BY <1>1, <1>2, <1>3 DEF TypeOK
<1>5. Idle \in ReqType /\ Idle.op # "backup" /\ Idle.op # "restore"
  BY DEF Idle, ReqType
<1> QED BY <1>1, <1>2, <1>4, <1>5, OnlyRequestMoves

LEMMA BackupSaveKeeps ==
  ASSUME IInv, NEW r \in Requests, BackupSave(r)
  PROVE  IInv'
<1> DEFINE id == req[r].id
           status == IF req[r].ok THEN "Completed" ELSE "Failed"
<1>1. TypeOK /\ TableOK(history, nextId, users) /\ req[r].op = "backup" /\ runs \in Nat
  BY DEF IInv, TypeOK, BackupSave, Backing
<1>2. /\ Goes(r, Idle, Saving(id))
      /\ history' = IF id \in DOMAIN history THEN [history EXCEPT ![id].status = status] ELSE history
      /\ UNCHANGED <<nextId, users, ledger, files, clock, runs, restores, works, dumped, orphaned>>
  BY DEF BackupSave, counters
<1>3. status \in Status /\ status # "InProgress"
  BY DEF Status
<1>4. Idle \in ReqType /\ Idle.op # "backup" /\ Idle.op # "restore"
  BY DEF Idle, ReqType
<1> HIDE DEF status
<1>5. history \in [DOMAIN history -> Row] /\ DOMAIN history \subseteq 1 .. MaxRuns
  BY <1>1, Tables DEF TypeOK
<1>6. /\ DOMAIN history' = DOMAIN history /\ history' = [i \in DOMAIN history |-> history'[i]]
      /\ \A i \in DOMAIN history : i # id => history'[i] = history[i]
      /\ id \in DOMAIN history => history'[id] = [history[id] EXCEPT !.status = status]
  BY <1>2, <1>5
<1>7. ASSUME id \in DOMAIN history
      PROVE  history'[id] \in Row /\ history'[id].status = status
  <2> DEFINE row == history[id]
             new == [row EXCEPT !.status = status]
  <2>1. row \in Row /\ history'[id] = new
    BY <1>5, <1>6, <1>7
  <2> HIDE DEF row
  <2>2. new \in Row /\ new.status = status
    BY <1>3, <2>1 DEF Row
  <2> QED BY <2>1, <2>2
<1>8. history' \in Table
  <2>1. \A i \in DOMAIN history : history'[i] \in Row
    BY <1>5, <1>6, <1>7
  <2>2. history' \in [DOMAIN history' -> Row]
    BY <1>6, <2>1
  <2> QED BY <1>5, <1>6, <2>2, Tables
<1>9. req' \in [Requests -> ReqType] /\ req'[r] = Idle
  BY <1>1, <1>2, <1>4, RequestsStayTyped, DisturbedAreBusy
<1>10. TypeOK'
  BY <1>1, <1>2, <1>8, <1>9 DEF TypeOK, ReqType
<1>11. TableOK(history, nextId, users)'
  BY <1>1, <1>2, <1>6 DEF TableOK
<1>12. FilesKept /\ runs' \in Nat /\ runs <= runs'
  BY <1>1, <1>2, KeepingFiles
<1>13. \A n \in DOMAIN files' : FileOK(n)'
  BY <1>2, <1>12, FilesStayOK
<1>14. \A s \in Requests \ {r} : /\ req'[s].op = "backup" => BackupOK(s)'
                                 /\ req'[s].op = "restore" => RestoreOK(s)'
  <2>1. \A s \in Requests \ {r} : req[s].op = "backup" =>
           \/ s \in Saving(id)
           \/ req[s].id \notin DOMAIN history
           \/ req[s].id \in DOMAIN history' /\ history'[req[s].id] = history[req[s].id]
    BY <1>6 DEF Saving
  <2>2. Saving(id) \subseteq Busy
    BY DisturbedAreBusy
  <2> HIDE DEF id
  <2> QED BY <1>2, <1>4, <1>12, <2>1, <2>2, OthersStayOK
<1>15. UnfinishedOK'
  <2> SUFFICES ASSUME NEW i \in DOMAIN history', NEW run,
                      history'[i].status = "InProgress", history'[i].run = run
               PROVE  Explained(i, run)'
    BY UnfinishedRows
  <2>1. i # id /\ i \in DOMAIN history /\ history'[i] = history[i]
    BY <1>3, <1>6, <1>7
  <2>2. Explained(i, run)
    BY <2>1, UnfinishedRows DEF IInv
  <2> QED BY <1>1, <1>2, <2>1, <2>2, StaysExplained, DisturbedAreBusy
<1> QED BY <1>4, <1>9, <1>10, <1>11, <1>13, <1>14, <1>15 DEF IInv

-----------------------------------------------------------------------------
(* 4. Restores *)

LEMMA RestoreBeginKeeps ==
  ASSUME IInv, NEW r \in Requests, NEW i \in DOMAIN history, RestoreBegin(r, i)
  PROVE  IInv'
<1> DEFINE row == history[i]
           x == Restore(row.run, row.name)
<1>1. TypeOK /\ TableOK(history, nextId, users)
  BY DEF IInv
<1>2. /\ req[r] = Idle /\ restores < MaxRestores /\ restores' = restores + 1
      /\ row.name \in DOMAIN files /\ Goes(r, x, {})
      /\ UNCHANGED <<history, nextId, users, ledger, files, clock, runs, works, dumped, orphaned>>
  BY DEF RestoreBegin, database
<1>3. row \in Row /\ users
  BY <1>1, Tables DEF TypeOK, TableOK
<1> HIDE DEF row
<1>4. x \in RestoreType /\ x.op = "restore" /\ x.at = "first" /\ x.name = row.name
  BY <1>3 DEF Row, Restore, RestoreType
<1> HIDE DEF x
<1>5. restores' \in 0 .. MaxRestores /\ orphaned \subseteq orphaned' /\ orphaned' \subseteq 1 .. MaxRuns
  BY <1>1, <1>2, Bounds DEF TypeOK
<1>6. req'[r] = x
  BY <1>2 DEF Goes
<1>7. RestoreOK(r)'
  BY <1>2, <1>3, <1>4, <1>6 DEF RestoreOK, Restoring
<1>8. x \in ReqType /\ x.op # "backup" /\ req[r].op # "backup"
  BY <1>2, <1>4 DEF ReqType, Idle
<1> QED BY <1>2, <1>5, <1>7, <1>8, OnlyRequestMoves

(* The answer of a restore, and what the restore is then.                   *)
LEMMA RestoreGoesOn ==
  ASSUME TypeOK, NEW r \in Requests, req[r].op = "restore", NEW at \in {"second", "answer"},
         NEW ok \in BOOLEAN
  PROVE  LET x == [req[r] EXCEPT !.at = at, !.ok = ok]
             y == [req[r] EXCEPT !.at = at]
         IN /\ x \in RestoreType /\ x.op = "restore" /\ x.at = at /\ x.ok = ok
            /\ x.name = req[r].name /\ x.alone = req[r].alone
            /\ y \in RestoreType /\ y.op = "restore" /\ y.at = at
            /\ y.name = req[r].name /\ y.alone = req[r].alone
<1>1. req[r] \in RestoreType
  BY RequestsTyped
<1> QED BY <1>1 DEF RestoreType

LEMMA FeedFailsKeeps ==
  ASSUME IInv, NEW r \in Requests, FeedFails(r)
  PROVE  IInv'
<1> DEFINE x == [req[r] EXCEPT !.at = "answer", !.ok = FALSE]
<1>1. TypeOK /\ req[r].op = "restore" /\ RestoreOK(r)
  BY DEF IInv, FeedFails
<1>2. /\ Goes(r, x, {})
      /\ UNCHANGED <<history, nextId, users, ledger, files, clock, runs, restores, works, dumped, orphaned>>
  BY DEF FeedFails, Answers, database, counters
<1>3. /\ x \in RestoreType /\ x.op = "restore" /\ x.at = "answer" /\ ~x.ok
      /\ x.name = req[r].name
  BY <1>1, RestoreGoesOn
<1> HIDE DEF x
<1>4. req'[r] = x
  BY <1>2 DEF Goes
<1>5. RestoreOK(r)'
  BY <1>1, <1>2, <1>3, <1>4 DEF RestoreOK, Restoring
<1>6. restores' \in 0 .. MaxRestores /\ orphaned \subseteq orphaned' /\ orphaned' \subseteq 1 .. MaxRuns
  BY <1>1, <1>2 DEF TypeOK
<1>7. x \in ReqType /\ x.op # "backup" /\ req[r].op # "backup"
  BY <1>1, <1>3 DEF ReqType
<1> QED BY <1>2, <1>5, <1>6, <1>7, OnlyRequestMoves

LEMMA AnswerKeeps ==
  ASSUME IInv, NEW r \in Requests, Answer(r)
  PROVE  IInv'
<1>1. /\ TypeOK /\ req[r].op = "restore" /\ Goes(r, Idle, {})
      /\ UNCHANGED <<history, nextId, users, ledger, files, clock, runs, restores, works, dumped, orphaned>>
  BY DEF IInv, Answer, Restoring, database, counters
<1>2. restores' \in 0 .. MaxRestores /\ orphaned \subseteq orphaned' /\ orphaned' \subseteq 1 .. MaxRuns
  BY <1>1 DEF TypeOK
<1>3. Idle \in ReqType /\ Idle.op # "backup" /\ Idle.op # "restore" /\ req[r].op # "backup"
  BY <1>1 DEF Idle, ReqType
<1> QED BY <1>1, <1>2, <1>3, OnlyRequestMoves

(* What the statements of a restore may make of the tables.                 *)
TablesMade ==
    /\ history' \in Table /\ nextId' \in 1 .. MaxRuns + 1 /\ users' \in BOOLEAN
    /\ ledger' \in 0 .. MaxWork + 1
    /\ TableOK(history, nextId, users)'
    /\ \A i \in DOMAIN history' :
          history'[i].status = "InProgress" =>
             \/ i \in DOMAIN history /\ history'[i] = history[i]
             \/ history'[i].run \in orphaned'

LEMMA StatementKeeps ==
  ASSUME IInv, NEW r \in Requests, req[r].op = "restore", NEW x \in ReqType, Goes(r, x, Busy),
         files' = Disturbed, UNCHANGED <<clock, runs, restores, works, dumped>>,
         orphaned \subseteq orphaned', orphaned' \subseteq 1 .. MaxRuns, TablesMade,
         x.op # "backup", x.op = "restore" => RestoreOK(r)'
  PROVE  IInv'
<1>1. TypeOK /\ runs \in Nat
  BY DEF IInv, TypeOK
<1>2. req' \in [Requests -> ReqType] /\ req'[r] = x
  BY <1>1, RequestsStayTyped, DisturbedAreBusy
<1>3. FilesKept /\ runs' \in Nat /\ runs <= runs'
  BY <1>1, KeepingFiles
<1>4. TypeOK'
  BY <1>1, <1>2, <1>3 DEF TypeOK, ReqType, FileType, FilesKept, TablesMade
<1>5. TableOK(history, nextId, users)'
  BY DEF TablesMade
<1>6. \A n \in DOMAIN files' : FileOK(n)'
  BY <1>3, FilesStayOK
<1>7. \A s \in Requests \ {r} : /\ req'[s].op = "backup" => BackupOK(s)'
                                /\ req'[s].op = "restore" => RestoreOK(s)'
  <2>1. \A s \in Requests \ {r} : req[s].op = "backup" =>
           \/ s \in Busy
           \/ req[s].id \notin DOMAIN history
           \/ req[s].id \in DOMAIN history' /\ history'[req[s].id] = history[req[s].id]
    BY DEF Busy, Idle
  <2>2. Restores \subseteq Busy \cup {r} /\ Busy \subseteq Busy
    BY DEF Restores, Busy, Idle
  <2> QED BY <1>3, <2>1, <2>2, OthersStayOK
<1>8. UnfinishedOK'
  <2> SUFFICES ASSUME NEW i \in DOMAIN history', NEW run,
                      history'[i].status = "InProgress", history'[i].run = run
               PROVE  Explained(i, run)'
    BY UnfinishedRows
  <2>1. CASE run \in orphaned'
    BY <2>1 DEF Explained
  <2>2. CASE run \notin orphaned'
    <3>1. i \in DOMAIN history /\ history'[i] = history[i]
      BY <2>2 DEF TablesMade
    <3>2. Explained(i, run)
      BY <3>1, UnfinishedRows DEF IInv
    <3> QED BY <1>1, <3>2, StaysExplained, DisturbedAreBusy
  <2> QED BY <2>1, <2>2
<1> QED BY <1>2, <1>4, <1>5, <1>6, <1>7, <1>8 DEF IInv

(* The dump a restore reads.                                                *)
LEMMA DumpRead ==
  ASSUME IInv, NEW r \in Requests, req[r].op = "restore"
  PROVE  /\ req[r].name \in DOMAIN files /\ Dump(r) \in DumpType
         /\ Dump(r).type = req[r].name[1]
         /\ TableOK(Dump(r).history, Dump(r).nextId, Dump(r).users)
<1>1. TypeOK /\ req[r].name \in DOMAIN files /\ FileOK(req[r].name)
  BY DEF IInv, RestoreOK
<1> QED BY <1>1, FilesTyped DEF Dump, File, FileOK

LEMMA NoRows ==
  /\ <<>> \in Table /\ DOMAIN <<>> = {}
  /\ \A next, hasUsers : TableOK(<<>>, next, hasUsers) <=> next <= runs + 1
<1>1. DOMAIN <<>> = {}
  OBVIOUS
<1>2. <<>> \in [DOMAIN <<>> -> Row]
  BY <1>1
<1> QED BY <1>1, <1>2, Tables DEF TableOK

LEMMA StoppedMakes ==
  ASSUME IInv, NEW r \in Requests, req[r].op = "restore", Stopped(r),
         UNCHANGED <<runs, orphaned>>
  PROVE  TablesMade
<1>1. /\ TypeOK /\ TableOK(history, nextId, users)
      /\ Dump(r) \in DumpType /\ TableOK(Dump(r).history, Dump(r).nextId, Dump(r).users)
  BY DumpRead DEF IInv
<1>2. CASE UNCHANGED database
  BY <1>1, <1>2 DEF database, TypeOK, TableOK, TablesMade
<1>3. CASE history' = <<>> /\ nextId' = Dump(r).nextId /\ users' = FALSE /\ ledger' = ledger
  <2>1. TableOK(history, nextId, users)'
    BY <1>1, <1>3, NoRows DEF TableOK
  <2>2. history' \in Table /\ DOMAIN history' = {}
    BY <1>3, NoRows
  <2> QED BY <1>1, <1>3, <2>1, <2>2 DEF TypeOK, DumpType, TablesMade
<1>4. CASE ledger' = 0 /\ UNCHANGED <<history, nextId, users>>
  BY <1>1, <1>4, Bounds DEF TypeOK, TableOK, TablesMade
<1> QED BY <1>2, <1>3, <1>4 DEF Stopped

LEMMA FeedShortKeeps ==
  ASSUME IInv, NEW r \in Requests, FeedShort(r)
  PROVE  IInv'
<1> DEFINE x == [req[r] EXCEPT !.at = "answer", !.ok = TRUE]
<1>1. /\ TypeOK /\ req[r].op = "restore" /\ RestoreOK(r) /\ ~files[req[r].name].whole
      /\ req[r].name \in DOMAIN files
  BY DEF IInv, FeedShort, Restoring, File, RestoreOK
<1>2. /\ Goes(r, x, Busy) /\ files' = Disturbed /\ Stopped(r)
      /\ UNCHANGED <<clock, runs, restores, works, dumped, orphaned>>
  BY DEF FeedShort, Answers, counters
<1>3. x \in RestoreType /\ x.op = "restore" /\ x.at = "answer" /\ x.name = req[r].name
  BY <1>1, RestoreGoesOn
<1> HIDE DEF x
<1>4. req'[r] = x /\ FilesKept
  BY <1>1, <1>2, KeepingFiles DEF Goes
<1>5. RestoreOK(r)'
  BY <1>1, <1>3, <1>4 DEF RestoreOK, Restoring, File, FilesKept
<1>6. TablesMade
  BY <1>1, <1>2, StoppedMakes
<1>7. x \in ReqType /\ x.op # "backup" /\ orphaned \subseteq orphaned' /\ orphaned' \subseteq 1 .. MaxRuns
  BY <1>1, <1>2, <1>3 DEF ReqType, TypeOK
<1> QED BY <1>1, <1>2, <1>5, <1>6, <1>7, StatementKeeps

LEMMA RestoreCutOffKeeps ==
  ASSUME IInv, NEW r \in Requests, RestoreCutOff(r)
  PROVE  IInv'
<1>1. /\ TypeOK /\ req[r].op = "restore" /\ Goes(r, Idle, Busy) /\ files' = Disturbed /\ Stopped(r)
      /\ UNCHANGED <<clock, runs, restores, works, dumped, orphaned>>
  BY DEF IInv, RestoreCutOff, Restoring, counters
<1>2. TablesMade
  BY <1>1, StoppedMakes
<1>3. /\ Idle \in ReqType /\ Idle.op # "backup" /\ Idle.op # "restore"
      /\ orphaned \subseteq orphaned' /\ orphaned' \subseteq 1 .. MaxRuns
  BY <1>1 DEF ReqType, TypeOK, Idle
<1> QED BY <1>1, <1>2, <1>3, StatementKeeps

LEMMA FeedSecondKeeps ==
  ASSUME IInv, NEW r \in Requests, FeedSecond(r)
  PROVE  IInv'
<1> DEFINE x == [req[r] EXCEPT !.at = "answer", !.ok = TRUE]
           d == Dump(r)
<1>1. /\ TypeOK /\ TableOK(history, nextId, users) /\ req[r].op = "restore"
      /\ req[r].at = "second" /\ RestoreOK(r)
  BY DEF IInv, FeedSecond, Restoring
<1>2. /\ Goes(r, x, Busy) /\ files' = Disturbed
      /\ ledger' = IF d.type = "SchemaOnly" THEN 0 ELSE d.ledger
      /\ UNCHANGED <<history, nextId, users, clock, runs, restores, works, dumped, orphaned>>
  BY DEF FeedSecond, Answers, counters
<1>3. /\ x \in RestoreType /\ x.op = "restore" /\ x.at = "answer" /\ x.name = req[r].name
      /\ x.alone = req[r].alone
  BY <1>1, RestoreGoesOn
<1>4. req[r].name \in DOMAIN files /\ d \in DumpType /\ d.type = req[r].name[1]
  BY <1>1, DumpRead
<1> HIDE DEF x
<1>5. req'[r] = x /\ FilesKept
  BY <1>1, <1>2, KeepingFiles DEF Goes
<1>6. d = Dump(r)'
  BY <1>3, <1>4, <1>5 DEF Dump, File, FilesKept
<1>7. RestoreOK(r)'
  <2>1. req[r].alone => req[r].name[1] # "DataOnly"
    BY <1>1 DEF RestoreOK, Restoring
  <2>2. req[r].name[1] = "Full" => ledger' = Dump(r)'.ledger
    BY <1>2, <1>4, <1>6
  <2>3. req[r].name \in DOMAIN files'
    BY <1>4, <1>5 DEF FilesKept
  <2> QED BY <1>3, <1>5, <2>1, <2>2, <2>3 DEF RestoreOK, Restoring
<1>8. TablesMade
  BY <1>1, <1>2, <1>4, Bounds DEF TypeOK, TableOK, TablesMade, DumpType
<1>9. x \in ReqType /\ x.op # "backup" /\ orphaned \subseteq orphaned' /\ orphaned' \subseteq 1 .. MaxRuns
  BY <1>1, <1>2, <1>3 DEF ReqType, TypeOK
<1> QED BY <1>1, <1>2, <1>7, <1>8, <1>9, StatementKeeps

(* The first tables after a dump of the data alone.                         *)
Filled(d) == [i \in DOMAIN history \cup DOMAIN d.history |->
                 IF i \in DOMAIN history THEN history[i] ELSE d.history[i]]

LEMMA RowsOfDump ==
  ASSUME NEW d \in DumpType
  PROVE  /\ DumpedRows(d) \in Table /\ DOMAIN DumpedRows(d) \subseteq DOMAIN d.history
         /\ \A next, hasUsers :
               TableOK(d.history, next, hasUsers) /\ (d.type # "SchemaOnly" => d.users = hasUsers)
               => TableOK(DumpedRows(d), next, hasUsers)
         /\ \A i \in DOMAIN DumpedRows(d) :
               DumpedRows(d)[i].status = "InProgress" => DumpedRows(d)[i].run \in Unfinished(DumpedRows(d))
<1>1. d.history \in Table
  BY DEF DumpType
<1>2. CASE d.type = "SchemaOnly"
  BY <1>2, NoRows DEF DumpedRows, TableOK
<1>3. CASE d.type # "SchemaOnly"
  BY <1>1, <1>3 DEF DumpedRows, Unfinished
<1> QED BY <1>2, <1>3

LEMMA FirstTablesMade ==
  ASSUME IInv, NEW r \in Requests, FeedFirst(r)
  PROVE  TablesMade /\ orphaned \subseteq orphaned' /\ orphaned' \subseteq 1 .. MaxRuns
<1> DEFINE d == Dump(r)
           rows == DumpedRows(d)
<1>1. /\ TypeOK /\ TableOK(history, nextId, users) /\ req[r].op = "restore"
      /\ d \in DumpType /\ TableOK(d.history, d.nextId, d.users)
  BY DumpRead DEF IInv, FeedFirst, Restoring
<1>2. /\ history' = IF d.type = "DataOnly" THEN Filled(d) ELSE rows
      /\ nextId' = IF d.type = "DataOnly" /\ nextId > d.nextId THEN nextId ELSE d.nextId
      /\ users' = (d.type # "SchemaOnly" /\ (d.users \/ (d.type = "DataOnly" /\ users)))
      /\ orphaned' = orphaned \cup Unfinished(rows)
      /\ UNCHANGED <<ledger, runs>>
  BY DEF FeedFirst, Filled, counters
<1>3. /\ d.type \in Types /\ d.history \in Table /\ d.nextId \in 1 .. MaxRuns + 1 /\ d.users \in BOOLEAN
      /\ nextId \in 1 .. MaxRuns + 1 /\ users \in BOOLEAN
  BY <1>1 DEF DumpType, TypeOK
<1>4. /\ rows \in Table /\ DOMAIN rows \subseteq DOMAIN d.history
      /\ \A i \in DOMAIN rows : rows[i].status = "InProgress" => rows[i].run \in Unfinished(rows)
  BY <1>1, RowsOfDump
<1>5. Unfinished(rows) \subseteq 1 .. MaxRuns
  BY <1>4, Tables DEF Unfinished, Row
<1>6. orphaned \subseteq orphaned' /\ orphaned' \subseteq 1 .. MaxRuns
  BY <1>1, <1>2, <1>5 DEF TypeOK
<1>7. nextId' \in 1 .. MaxRuns + 1 /\ users' \in BOOLEAN /\ ledger' \in 0 .. MaxWork + 1
  BY <1>1, <1>2, <1>3 DEF TypeOK
<1>8. CASE d.type = "DataOnly"
  <2>1. rows = d.history
    BY <1>8 DEF DumpedRows
  <2>2. /\ history' = Filled(d) /\ DOMAIN history' = DOMAIN history \cup DOMAIN d.history
        /\ \A i \in DOMAIN history' :
              history'[i] = IF i \in DOMAIN history THEN history[i] ELSE d.history[i]
        /\ history' = [i \in DOMAIN history' |-> history'[i]]
    BY <1>2, <1>8 DEF Filled
  <2>3. history' \in Table
    <3>1. /\ DOMAIN history \subseteq 1 .. MaxRuns /\ \A i \in DOMAIN history : history[i] \in Row
          /\ DOMAIN d.history \subseteq 1 .. MaxRuns
          /\ \A i \in DOMAIN d.history : d.history[i] \in Row
      BY <1>1, <1>3, Tables DEF TypeOK
    <3>2. \A i \in DOMAIN history' : history'[i] \in Row
      BY <2>2, <3>1
    <3> QED BY <2>2, <3>1, <3>2, Tables
  <2>4. TableOK(history, nextId, users)'
    <3>1. DOMAIN history' \subseteq 1 .. nextId' - 1
      BY <1>1, <1>2, <1>3, <1>8, <2>2 DEF TableOK
    <3>2. nextId' <= runs' + 1
      BY <1>1, <1>2, <1>3, <1>8 DEF TableOK
    <3>3. DOMAIN history' # {} => users'
      <4>1. users' <=> d.users \/ users
        BY <1>2, <1>8
      <4> QED BY <1>1, <2>2, <4>1 DEF TableOK
    <3> QED BY <3>1, <3>2, <3>3 DEF TableOK
  <2>5. \A i \in DOMAIN history' :
           history'[i].status = "InProgress" =>
              \/ i \in DOMAIN history /\ history'[i] = history[i]
              \/ history'[i].run \in orphaned'
    BY <1>2, <1>4, <2>1, <2>2
  <2> QED BY <1>6, <1>7, <2>3, <2>4, <2>5 DEF TablesMade
<1>9. CASE d.type # "DataOnly"
  <2>1. history' = rows /\ nextId' = d.nextId /\ runs' = runs
    BY <1>2, <1>9
  <2>2. d.type # "SchemaOnly" => users' = d.users
    BY <1>2, <1>3, <1>9
  <2>3. /\ DOMAIN d.history \subseteq 1 .. d.nextId - 1 /\ d.nextId <= runs + 1
        /\ DOMAIN d.history # {} => d.users
    BY <1>1 DEF TableOK
  <2>4. d.type = "SchemaOnly" => DOMAIN rows = {}
    BY NoRows DEF DumpedRows
  <2>5. DOMAIN rows # {} => users'
    BY <1>4, <2>2, <2>3, <2>4
  <2>6. TableOK(history, nextId, users)'
    BY <1>4, <2>1, <2>3, <2>5 DEF TableOK
  <2> QED BY <1>2, <1>4, <1>6, <1>7, <2>1, <2>6 DEF TablesMade
<1> QED BY <1>6, <1>8, <1>9

LEMMA FeedFirstKeeps ==
  ASSUME IInv, NEW r \in Requests, FeedFirst(r)
  PROVE  IInv'
<1> DEFINE x == [req[r] EXCEPT !.at = "second"]
<1>1. TypeOK /\ req[r].op = "restore" /\ req[r].at = "first" /\ RestoreOK(r)
  BY DEF IInv, FeedFirst, Restoring
<1>2. /\ Goes(r, x, Busy) /\ files' = Disturbed /\ ~Collides(r)
      /\ UNCHANGED <<ledger, clock, runs, restores, works, dumped>>
  BY DEF FeedFirst, counters
<1>3. /\ x \in RestoreType /\ x.op = "restore" /\ x.at = "second" /\ x.name = req[r].name
      /\ x.alone = req[r].alone
  BY <1>1, RestoreGoesOn
<1>4. req[r].name \in DOMAIN files /\ Dump(r).type = req[r].name[1]
  BY <1>1, DumpRead
<1> HIDE DEF x
<1>5. req'[r] = x /\ FilesKept
  BY <1>1, <1>2, KeepingFiles DEF Goes
<1>6. req[r].alone => req[r].name[1] # "DataOnly"
  BY <1>1, <1>2, <1>4 DEF RestoreOK, Restoring, Collides
<1>7. RestoreOK(r)'
  BY <1>3, <1>4, <1>5, <1>6 DEF RestoreOK, Restoring, FilesKept
<1>8. TablesMade /\ orphaned \subseteq orphaned' /\ orphaned' \subseteq 1 .. MaxRuns
  BY FirstTablesMade
<1>9. x \in ReqType /\ x.op # "backup"
  BY <1>3 DEF ReqType
<1> QED BY <1>1, <1>2, <1>7, <1>8, <1>9, StatementKeeps

-----------------------------------------------------------------------------
(* 5. The rest of the application *)

LEMMA WorkKeeps ==
  ASSUME IInv, Work
  PROVE  IInv'
<1>1. TypeOK /\ TableOK(history, nextId, users) /\ runs \in Nat
  BY DEF IInv, TypeOK
<1>2. /\ works < MaxWork /\ works' = works + 1 /\ ledger' = works + 2
      /\ req' = [s \in Requests |-> IF s \in Restores THEN [req[s] EXCEPT !.alone = FALSE] ELSE req[s]]
      /\ UNCHANGED <<history, nextId, users, files, clock, runs, restores, dumped, orphaned>>
  BY DEF Work
<1>3. \A s \in Requests : req[s].op # "restore" => req'[s] = req[s]
  BY <1>2 DEF Restores
<1>4. ASSUME NEW s \in Requests, req[s].op = "restore"
      PROVE  req'[s] \in RestoreType /\ req'[s].name = req[s].name /\ ~req'[s].alone
  <2>1. req[s] \in RestoreType /\ req'[s] = [req[s] EXCEPT !.alone = FALSE]
    BY <1>1, <1>2, <1>4, RequestsTyped DEF Restores
  <2> QED BY <2>1 DEF RestoreType
<1>5. \A s \in Requests : req'[s] \in ReqType /\ req'[s].op = req[s].op
  BY <1>1, <1>3, <1>4, RequestsTyped DEF ReqType, RestoreType
<1>6. TypeOK'
  <2>1. ledger' \in 0 .. MaxWork + 1 /\ works' \in 0 .. MaxWork
    BY <1>1, <1>2, Bounds DEF TypeOK
  <2>2. req' \in [Requests -> ReqType]
    BY <1>2, <1>5
  <2> QED BY <1>1, <1>2, <2>1, <2>2 DEF TypeOK, ReqType
<1>7. TableOK(history, nextId, users)'
  BY <1>1, <1>2 DEF TableOK
<1>8. FilesKept /\ runs' = runs /\ runs \in Nat /\ runs <= runs' /\ dumped' = dumped
  BY <1>1, <1>2, KeepingFiles
<1>9. \A n \in DOMAIN files' : FileOK(n)'
  BY <1>8, FilesStayOK
<1>10. ASSUME NEW s \in Requests, req'[s].op = "backup"
       PROVE  BackupOK(s)'
  <2>1. BackupOK(s) /\ req'[s] = req[s]
    BY <1>3, <1>5, <1>10 DEF IInv
  <2>2. \A t \in Requests \ {s} : req'[t].op = "backup" => req'[t].run # req[s].run
    BY <1>3, <1>5, <2>1 DEF BackupOK
  <2> QED BY <1>2, <2>1, <2>2 DEF BackupOK, Backing
<1>11. ASSUME NEW s \in Requests, req'[s].op = "restore"
       PROVE  RestoreOK(s)'
  <2>1. RestoreOK(s)
    BY <1>5, <1>11 DEF IInv
  <2> QED BY <1>2, <1>4, <1>5, <1>11, <2>1 DEF RestoreOK
<1>12. UnfinishedOK'
  <2> SUFFICES ASSUME NEW i \in DOMAIN history', history'[i].status = "InProgress"
               PROVE  \/ history'[i].run \in orphaned'
                      \/ \E s \in Requests : /\ req'[s].op = "backup"
                                             /\ req'[s].run = history'[i].run /\ req'[s].id = i
    BY DEF UnfinishedOK
  <2> QED BY <1>2, <1>3 DEF IInv, UnfinishedOK
<1> QED BY <1>6, <1>7, <1>9, <1>10, <1>11, <1>12 DEF IInv

LEMMA TickKeeps ==
  ASSUME IInv, Tick
  PROVE  IInv'
<1>1. /\ TypeOK /\ clock' \in 0 .. MaxClock
      /\ UNCHANGED <<history, nextId, users, ledger, files, req, runs, restores, works, dumped, orphaned>>
  BY Bounds DEF IInv, Tick, database, TypeOK
<1>2. TypeOK'
  BY <1>1 DEF TypeOK
<1> QED BY <1>1, <1>2 DEF IInv, TableOK, FileOK, BackupOK, RestoreOK, UnfinishedOK, Backing, Restoring, File, Dump

-----------------------------------------------------------------------------
(* 6. The theorems *)

LEMMA InitEstablishesIInv == Init => IInv
<1> SUFFICES ASSUME Init
             PROVE  IInv
  OBVIOUS
<1>1. DOMAIN history = {} /\ history \in Table /\ DOMAIN files = {} /\ files = <<>>
  BY NoRows DEF Init
<1>2. TypeOK
  <2>1. \A S : <<>> \in [DOMAIN <<>> -> S]
    BY NoRows
  <2> QED BY <1>1, <2>1, Bounds DEF Init, TypeOK
<1>3. TableOK(history, nextId, users)
  BY <1>1 DEF Init, TableOK
<1>4. \A r \in Requests : req[r].op = "none"
  BY DEF Init, Idle
<1> QED BY <1>1, <1>2, <1>3, <1>4 DEF IInv, UnfinishedOK

LEMMA NextKeepsIInv == IInv /\ [Next]_vars => IInv'
<1> SUFFICES ASSUME IInv, [Next]_vars
             PROVE  IInv'
  OBVIOUS
<1>1. CASE UNCHANGED vars
  BY <1>1 DEF vars, database, counters, IInv, TypeOK, TableOK, FileOK, BackupOK, RestoreOK,
              UnfinishedOK, Backing, Restoring, File, Dump
<1>2. ASSUME NEW r \in Requests, NEW type \in Types, BackupBegin(r, type)
      PROVE  IInv'
  BY <1>2, BackupBeginKeeps
<1>3. ASSUME NEW r \in Requests, NEW i \in DOMAIN history, RestoreBegin(r, i)
      PROVE  IInv'
  BY <1>3, RestoreBeginKeeps
<1>4. ASSUME NEW r \in Requests, Step(r)
      PROVE  IInv'
  BY <1>4, DumpBeginsKeeps, DumpEndsKeeps, DumpFailsKeeps, BackupSaveKeeps, FeedFirstKeeps,
     FeedSecondKeeps, FeedFailsKeeps, FeedShortKeeps, AnswerKeeps DEF Step
<1>5. ASSUME NEW r \in Requests, BackupCutOff(r) \/ RestoreCutOff(r)
      PROVE  IInv'
  BY <1>5, BackupCutOffKeeps, RestoreCutOffKeeps
<1> QED BY <1>1, <1>2, <1>3, <1>4, <1>5, WorkKeeps, TickKeeps DEF Next

(* However requests overlap, fail, are cut off or overwrite each other's    *)
(* tables and files, what each relies on holds while it is undisturbed.     *)
THEOREM Invariance == Spec => []IInv
BY InitEstablishesIInv, NextKeepsIInv, PTL DEF Spec

(* A restore of a dump of the data alone is never reported as a success if  *)
(* nobody disturbs it: RestoreAsync, run against the database it reads the  *)
(* history from.                                                            *)
THEOREM DataOnlyCollides == Spec => []DataOnlyIsNeverRestored
<1>1. IInv => DataOnlyIsNeverRestored
  BY DEF IInv, RestoreOK, DataOnlyIsNeverRestored, Restoring
<1> QED BY <1>1, Invariance, PTL

(* A full backup whose process ended, restored with success and without     *)
(* being disturbed, gives the ledger back as it was when it was dumped.     *)
THEOREM FullRestore == Spec => []RestoreGivesItBack
<1>1. IInv => RestoreGivesItBack
  <2> SUFFICES ASSUME IInv, NEW r \in Requests,
                      Restoring(r, "answer"), req[r].ok, req[r].alone, Dump(r).type = "Full",
                      Dump(r).run = req[r].run, req[r].run \in dumped
               PROVE  ledger = Dump(r).ledger /\ File(r).whole
    BY DEF RestoreGivesItBack
  <2>1. RestoreOK(r) /\ req[r].name \in DOMAIN files /\ Dump(r).type = req[r].name[1]
    BY DumpRead DEF Restoring, IInv
  <2>2. File(r).whole
    BY <2>1 DEF IInv, FileOK, File, Dump
  <2> QED BY <2>1, <2>2 DEF RestoreOK
<1> QED BY <1>1, Invariance, PTL

(* A row that says InProgress is that of a backup that runs, or of one that *)
(* was cut off, or one a restore has brought back.                          *)
THEOREM UnfinishedRowsExplained == Spec => []UnfinishedIsExplained
<1>1. IInv => UnfinishedIsExplained
  BY DEF IInv, UnfinishedOK, UnfinishedIsExplained, Unfinished
<1> QED BY <1>1, Invariance, PTL

(* A restore gets over the first tables only by a step of its own.          *)
LEMMA OnlyOneFeeds ==
  ASSUME IInv, Next, NEW r \in Requests, Restoring(r, "first"), req'[r].at = "second"
  PROVE  FeedFirst(r)
<1>1. TypeOK /\ req[r].op = "restore" /\ req[r].at = "first" /\ req[r] \in RestoreType
  BY RequestsTyped DEF IInv, Restoring
<1>2. ASSUME NEW t \in Requests, NEW x, NEW D, Goes(t, x, D), D \subseteq Busy
      PROVE  t = r /\ x.at = "second"
  <2>1. t = r
    BY <1>1, <1>2, OthersGo
  <2> QED BY <1>2, <2>1 DEF Goes
<1>3. ASSUME NEW t \in Requests, NEW type \in Types, BackupBegin(t, type)
      PROVE  FALSE
  <2>1. Goes(t, Backup(nextId, runs + 1, FileName(type)), {})
    BY <1>3 DEF BackupBegin
  <2>2. Backup(nextId, runs + 1, FileName(type)).at = "second"
    BY <1>2, <2>1
  <2> QED BY <2>2 DEF Backup
<1>4. ASSUME NEW t \in Requests, NEW i \in DOMAIN history, RestoreBegin(t, i)
      PROVE  FALSE
  <2>1. Goes(t, Restore(history[i].run, history[i].name), {})
    BY <1>4 DEF RestoreBegin
  <2>2. Restore(history[i].run, history[i].name).at = "second"
    BY <1>2, <2>1
  <2> QED BY <2>2 DEF Restore
<1>5. ASSUME NEW t \in Requests, \/ DumpBegins(t) \/ DumpEnds(t) \/ DumpFails(t)
                                \/ BackupSave(t) \/ BackupCutOff(t)
      PROVE  FALSE
  <2>1. \E x, D : Goes(t, x, D) /\ D \subseteq Busy
    BY <1>5, DisturbedAreBusy
       DEF DumpBegins, DumpEnds, DumpFails, BackupSave, BackupCutOff
  <2>2. t = r
    BY <1>2, <2>1
  <2> QED BY <1>1, <1>5, <2>2
          DEF DumpBegins, DumpEnds, DumpFails, BackupSave, BackupCutOff, Backing
<1>6. ASSUME NEW t \in Requests, Answer(t) \/ RestoreCutOff(t)
      PROVE  FALSE
  <2>1. Goes(t, Idle, {}) \/ Goes(t, Idle, Busy)
    BY <1>6 DEF Answer, RestoreCutOff
  <2>2. Idle.at = "second"
    BY <1>2, <2>1, DisturbedAreBusy
  <2> QED BY <2>2 DEF Idle
<1>7. ASSUME NEW t \in Requests, FeedSecond(t) \/ FeedFails(t) \/ FeedShort(t)
      PROVE  FALSE
  <2>1. PICK ok \in BOOLEAN, D \in {{}, Busy} :
           Goes(t, [req[t] EXCEPT !.at = "answer", !.ok = ok], D)
    BY <1>7 DEF FeedSecond, FeedFails, FeedShort, Answers
  <2> DEFINE x == [req[t] EXCEPT !.at = "answer", !.ok = ok]
  <2>2. t = r /\ x.at = "second"
    BY <1>2, <2>1, DisturbedAreBusy
  <2> QED BY <1>1, <2>2 DEF RestoreType
<1>8. ASSUME NEW t \in Requests, FeedFirst(t)
      PROVE  FeedFirst(r)
  <2>1. t = r
    BY <1>2, <1>8, DisturbedAreBusy DEF FeedFirst
  <2> QED BY <1>8, <2>1
<1>9. ~Tick
  BY <1>1 DEF Tick
<1>10. ASSUME Work
       PROVE  FALSE
  <2>1. req'[r] = req[r] \/ req'[r] = [req[r] EXCEPT !.alone = FALSE]
    BY <1>10 DEF Work
  <2> QED BY <1>1, <2>1 DEF RestoreType
<1> QED BY <1>3, <1>4, <1>5, <1>6, <1>7, <1>8, <1>9, <1>10 DEF Next, Step

(* A full restore of an undisturbed dump leaves the row of that very backup *)
(* unfinished: the backup is gone from the list of those to restore.        *)
THEOREM OwnRowUnfinished == Spec => OwnRowComesBackUnfinished
<1> DEFINE A == \A r \in Requests :
                   /\ Restoring(r, "first") /\ req'[r].at = "second"
                   /\ Dump(r).type = "Full" /\ File(r).sound
                   => Dump(r).run \in Unfinished(history')
<1>1. IInv /\ [Next]_vars => [A]_vars
  <2> SUFFICES ASSUME IInv, Next, NEW r \in Requests,
                      Restoring(r, "first"), req'[r].at = "second",
                      Dump(r).type = "Full", File(r).sound
               PROVE  Dump(r).run \in Unfinished(history')
    OBVIOUS
  <2>1. FeedFirst(r)
    BY OnlyOneFeeds
  <2>2. history' = Dump(r).history
    BY <2>1 DEF FeedFirst, DumpedRows
  <2>3. Dump(r).run \in Unfinished(Dump(r).history)
    BY DumpRead DEF IInv, FileOK, File, Dump, Restoring
  <2> QED BY <2>2, <2>3
<1> QED BY <1>1, Invariance, PTL DEF Spec, OwnRowComesBackUnfinished
=============================================================================
