----------------------------- MODULE Reporting -----------------------------
(* Reports over several databases: the revenue of the branches across the    *)
(* shards (ShardResolver, CrossShardReportingService) and from the replica   *)
(* (ReplicaHealthService, ReplicaAwareReportingService). Servers come and go *)
(* while the reports are made; the rows of a branch stand for its sums.      *)
EXTENDS Integers, FiniteSets, Sequences, SequencesExt

CONSTANTS
    Registry,       \* ShardSettings:Shards, a sequence of shards
    Branches,       \* ids of the branches
    MaxVersion,     \* bound of the changes of the primary database
    MaxOutages,     \* bound of the times a server goes away
    MaxReports      \* bound of the reports begun in a behaviour

ShardType == [id : Nat, active : BOOLEAN, configured : BOOLEAN]
ASSUME RegistryAssumption ==
    /\ Registry \in Seq(ShardType)
    /\ \A i, j \in DOMAIN Registry : Registry[i].id = Registry[j].id => i = j
    /\ \E i \in DOMAIN Registry : Registry[i].active
ASSUME BranchesAssumption == Branches \subseteq Int
ASSUME BoundsAssumption == MaxVersion \in Nat \ {0} /\ {MaxOutages, MaxReports} \subseteq Nat

VARIABLES
    down,           \* the servers that do not answer
    outages,        \* how often one went away
    reports,        \* how many reports were begun
    cross,          \* the report across the shards
    primary,        \* version of the primary database
    replica,        \* version the replica has come to
    hasReplica,     \* ReplicaConnection is configured
    page            \* the page on the replica's status

replicaVars == <<primary, replica, page>>
vars == <<down, outages, reports, cross, primary, replica, hasReplica, page>>

Primary == <<"main", 1>>
Replica == <<"main", 2>>
ShardServer(shard) == <<"shard", shard.id>>

(***************************************************************************)
(* ShardResolver                                                           *)
(***************************************************************************)

IsActive(shard) == shard.active
Active == {s \in ToSet(Registry) : IsActive(s)}
\* Sorted by id: the k-th of them has k - 1 of them before it.
Before(s) == {t \in Active : t.id < s.id}
ShardsInOrder ==
    [k \in 1 .. Cardinality(Active) |-> CHOOSE s \in Active : Cardinality(Before(s)) = k - 1]
\* The remainder of C# has the sign of the dividend.
Remainder(i, n) == IF i >= 0 THEN i % n ELSE -((-i) % n)
ResolveForBranch_faulty(b) ==
    LET n == Len(Registry) IN Registry[1 + Remainder(Remainder(b, n) + n, n)]
ResolveForBranch(b) ==
    LET n == Len(ShardsInOrder) IN ShardsInOrder[1 + Remainder(Remainder(b, n) + n, n)]

\* The branches whose rows vw_BranchRevenueSummary has in a shard: one row for each
\* of its branches, which are those routed to it (the shards' schema scripts).
RowsOf(shard) == {b \in Branches : ResolveForBranch(b) = shard}

(***************************************************************************)
(* GetBranchRevenueSummaryAcrossShardsAsync                                *)
(***************************************************************************)

\* `left` has the places in the registry of the shards not yet done with.
ActivePlaces == {i \in DOMAIN Registry : IsActive(Registry[i])}
NoReport == [at |-> "none", left |-> {}, unread |-> {}, data |-> {}, queried |-> <<>>,
             failures |-> {}, cancelled |-> FALSE]
NextOf(left) == Registry[Min(left)]
Current == NextOf(cross.left)
Others == cross.left \ {Min(cross.left)}
QueryShard_faulty(left) ==
    IF left = {} THEN [cross EXCEPT !.at = "done", !.left = left]
    ELSE [cross EXCEPT !.at = "open", !.left = left]
QueryShard(left) ==
    IF left = {} THEN [cross EXCEPT !.at = "done", !.left = left]
    ELSE [cross EXCEPT !.at = "open", !.left = left, !.queried = Append(@, NextOf(left).id)]

AskShards ==
    /\ cross.at = "none" /\ reports < MaxReports
    /\ reports' = reports + 1
    /\ cross' = [NoReport EXCEPT !.at = "open", !.left = ActivePlaces,
                                 !.queried = <<NextOf(ActivePlaces).id>>]
    /\ UNCHANGED <<down, outages, hasReplica, replicaVars>>

Answering(shard) == shard.configured /\ ShardServer(shard) \notin down /\ ~cross.cancelled

\* The connection is opened and the query sent.
OpenShard ==
    /\ cross.at = "open" /\ Answering(Current)
    /\ cross' = [cross EXCEPT !.at = "read", !.unread = RowsOf(Current)]
    /\ UNCHANGED <<down, outages, reports, hasReplica, replicaVars>>

\* The rows come one by one, in no order.
ReadRow ==
    /\ cross.at = "read" /\ Answering(Current)
    /\ \E b \in cross.unread :
          cross' = [cross EXCEPT !.unread = @ \ {b}, !.data = @ \cup {<<Current.id, b>>}]
    /\ UNCHANGED <<down, outages, reports, hasReplica, replicaVars>>

ShardRead ==
    /\ cross.at = "read" /\ cross.unread = {} /\ Answering(Current)
    /\ cross' = QueryShard(Others)
    /\ UNCHANGED <<down, outages, reports, hasReplica, replicaVars>>

\* No connection string, an error, ten seconds over, or the request is
\* cancelled: the failure is noted and the next shard asked; what has been read
\* of this one stays.
ShardFails_faulty ==
    /\ cross.at \in {"open", "read"} /\ ShardServer(Current) \notin down
    /\ cross' = [QueryShard(Others) EXCEPT !.failures = @ \cup {Current.id}, !.unread = {}]
    /\ UNCHANGED <<down, outages, reports, hasReplica, replicaVars>>
ShardFails ==
    /\ cross.at \in {"open", "read"}
    /\ cross' = [QueryShard(Others) EXCEPT !.failures = @ \cup {Current.id}, !.unread = {}]
    /\ UNCHANGED <<down, outages, reports, hasReplica, replicaVars>>

\* The browser goes away: nobody sees the report, which still goes on.
CancelShards ==
    /\ cross.at \in {"open", "read"}
    /\ cross' = [cross EXCEPT !.cancelled = TRUE]
    /\ UNCHANGED <<down, outages, reports, hasReplica, replicaVars>>

ShowShards ==
    /\ cross.at = "done"
    /\ cross' = NoReport
    /\ UNCHANGED <<down, outages, reports, hasReplica, replicaVars>>

(***************************************************************************)
(* The replica's status page                                               *)
(***************************************************************************)

NoPage == [at |-> "none", healthy |-> FALSE, rows |-> 0, since |-> 0]
\* Both contexts and services take the default connection when there is no other.
ReplicaServer == IF hasReplica THEN Replica ELSE Primary
Source_faulty(healthy) == ReplicaServer
Source(healthy) == IF healthy THEN ReplicaServer ELSE Primary
VersionAt(server) == IF server = Replica THEN replica ELSE primary

AskReplica ==
    /\ page.at = "none" /\ reports < MaxReports
    /\ reports' = reports + 1
    /\ page' = [NoPage EXCEPT !.at = "check", !.since = primary]
    /\ UNCHANGED <<down, outages, cross, primary, replica, hasReplica>>

\* IsReplicaHealthyAsync: a server that answers within three seconds is healthy.
CheckHealth ==
    /\ page.at = "check"
    /\ \E healthy \in {FALSE} \cup (IF ReplicaServer \in down THEN {} ELSE {TRUE}) :
          page' = [page EXCEPT !.at = "read", !.healthy = healthy]
    /\ UNCHANGED <<down, outages, reports, cross, primary, replica, hasReplica>>

\* The rows are read from the server chosen by the check.
ReadReport ==
    /\ page.at = "read" /\ Source(page.healthy) \notin down
    /\ page' = [page EXCEPT !.at = "shown", !.rows = VersionAt(Source(page.healthy))]
    /\ UNCHANGED <<down, outages, reports, cross, primary, replica, hasReplica>>

\* It is gone meanwhile, or too slow: the exception leaves the page.
ReadThrows ==
    /\ page.at = "read"
    /\ page' = [page EXCEPT !.at = "error"]
    /\ UNCHANGED <<down, outages, reports, cross, primary, replica, hasReplica>>

ClosePage ==
    /\ page.at \in {"shown", "error"}
    /\ page' = NoPage
    /\ UNCHANGED <<down, outages, reports, cross, primary, replica, hasReplica>>

ServedFromReplica == page.healthy

(***************************************************************************)
(* The servers                                                             *)
(***************************************************************************)

Servers == {Primary, Replica} \cup {ShardServer(s) : s \in ToSet(Registry)}
ServerFails(s) ==
    /\ s \notin down /\ outages < MaxOutages
    /\ down' = down \cup {s} /\ outages' = outages + 1
    /\ UNCHANGED <<reports, cross, hasReplica, replicaVars>>
ServerReturns(s) ==
    /\ s \in down
    /\ down' = down \ {s}
    /\ UNCHANGED <<outages, reports, cross, hasReplica, replicaVars>>
Work ==
    /\ Primary \notin down /\ primary < MaxVersion
    /\ primary' = primary + 1
    /\ UNCHANGED <<down, outages, reports, cross, replica, hasReplica, page>>
\* The copy of the primary is made outside of the application, now and then.
Replicate ==
    /\ replica < primary /\ down \cap {Primary, Replica} = {}
    /\ replica' = primary
    /\ UNCHANGED <<down, outages, reports, cross, primary, hasReplica, page>>

Init ==
    /\ down = {} /\ outages = 0 /\ reports = 0
    /\ cross = NoReport
    /\ primary = 1 /\ replica \in {0, 1} /\ hasReplica \in BOOLEAN /\ page = NoPage

CrossStep == OpenShard \/ ReadRow \/ ShardRead \/ ShardFails \/ ShowShards
PageStep == CheckHealth \/ ReadReport \/ ReadThrows \/ ClosePage

Next ==
    \/ AskShards \/ CancelShards \/ CrossStep
    \/ AskReplica \/ PageStep
    \/ \E s \in Servers : ServerFails(s) \/ ServerReturns(s)
    \/ Work \/ Replicate

Spec == Init /\ [][Next]_vars
\* The requests go on, and a shard that does not answer is given up after its
\* ten seconds, a connection after its own timeout. Nothing is assumed of the
\* servers.
FairSpec == Spec /\ WF_vars(CrossStep) /\ WF_vars(PageStep)

(***************************************************************************)
(* Properties                                                              *)
(***************************************************************************)

Ids == {s.id : s \in ToSet(Registry)}
TypeOK ==
    /\ down \subseteq Servers /\ outages \in 0 .. MaxOutages /\ reports \in 0 .. MaxReports
    /\ cross \in [at : {"none", "open", "read", "done"}, left : SUBSET ActivePlaces,
                  unread : SUBSET Branches, data : SUBSET (Ids \X Branches), queried : Seq(Ids),
                  failures : SUBSET Ids, cancelled : BOOLEAN]
    /\ cross.at \in {"open", "read"} <=> cross.left # {}
    /\ cross.left # {} => cross.queried # <<>> /\ Last(cross.queried) = Current.id
    /\ primary \in 1 .. MaxVersion /\ replica \in 0 .. primary /\ hasReplica \in BOOLEAN
    /\ page \in [at : {"none", "check", "read", "shown", "error"}, healthy : BOOLEAN,
                 rows : 0 .. primary, since : 0 .. primary]

\* No branch vanishes without a trace: whatever goes away while a report is made,
\* in the end each branch is in it, once, or the shard that has it is reported as
\* failed.
EveryBranchIsAccountedFor ==
    cross.at = "done" =>
        \A b \in Branches :
            LET home == ResolveForBranch(b).id
            IN /\ home \in cross.failures \/ <<home, b>> \in cross.data
               /\ \A row \in cross.data : row[2] = b => row[1] = home

\* Figures not said to be the replica's are as new as the request: a replica that
\* lags is never taken for the primary.
UnlabelledIsCurrent ==
    page.at = "shown" /\ ~ServedFromReplica => page.rows >= page.since

\* Why these hold: what is done with is in the report or failed, what is being
\* read is in it up to the rows not read yet, and each row is where its branch is.
IsIn(b) == <<ResolveForBranch(b).id, b>> \in cross.data
ReadSoFar ==
    /\ \A row \in cross.data : row[1] = ResolveForBranch(row[2]).id
    /\ cross.at # "none" => \A i \in ActivePlaces \ cross.left :
          Registry[i].id \in cross.failures \/ \A b \in RowsOf(Registry[i]) : IsIn(b)
    /\ cross.at = "read" => \A b \in RowsOf(Current) : b \in cross.unread \/ IsIn(b)
    /\ cross.unread # {} => cross.at = "read" /\ cross.unread \subseteq RowsOf(Current)

IInv == TypeOK /\ ReadSoFar /\ EveryBranchIsAccountedFor /\ UnlabelledIsCurrent

\* A report ends whatever servers do not answer.
ReportsEnd == cross.at = "open" ~> cross.at = "none"

\* "A shard that times out or errors is recorded as a ShardFailure and excluded
\* from Data" (CrossShardReportingService.cs:12).
FailedShardIsExcluded ==
    cross.at = "done" => \A row \in cross.data : row[1] \notin cross.failures
=============================================================================
