-------------------------- MODULE ReportingProofs --------------------------
(***************************************************************************)
(* The reports are complete or say what is missing, and current or say     *)
(* that they are the replica's, for every registry of shards, every set of *)
(* branches and every number of outages.                                   *)
(*                                                                         *)
(* First the resolver: the list it routes by has each active shard once,   *)
(* in the order of the ids, so that every branch has a home. Then the      *)
(* report across the shards, then the page on the replica.                 *)
(***************************************************************************)
EXTENDS Reporting, FiniteSetTheorems, RunningSumsProofs

-----------------------------------------------------------------------------
(* 1. The resolver *)

(* The active shards, which are never none, and their places.               *)
LEMMA ActiveShards ==
  /\ Active \subseteq ShardType /\ IsFiniteSet(Active) /\ Active # {}
  /\ \A s, t \in Active : s.id = t.id => s = t
  /\ \A s \in Active : s \in ToSet(Registry) /\ \E i \in ActivePlaces : Registry[i] = s
<1> DEFINE P == 1 .. Len(Registry)
<1>1. Registry \in Seq(ShardType) /\ DOMAIN Registry = P /\ Len(Registry) \in Nat
  BY RegistryAssumption
<1>2. ToSet(Registry) \subseteq ShardType /\ Active \subseteq ToSet(Registry)
  BY <1>1 DEF Active, ToSet
<1>3. IsFiniteSet(ToSet(Registry))
  <2>1. Registry \in Surjection(P, ToSet(Registry))
    BY <1>1 DEF Surjection, ToSet
  <2>2. IsFiniteSet(P)
    BY <1>1, FS_Interval
  <2> QED BY <2>1, <2>2, FS_Surjection
<1>4. IsFiniteSet(Active)
  BY <1>2, <1>3, FS_Subset
<1>5. Active # {}
  BY RegistryAssumption DEF Active, IsActive, ToSet
<1>6. \A s \in Active : \E i \in ActivePlaces : Registry[i] = s
  BY DEF Active, ActivePlaces, ToSet
<1>7. \A s, t \in Active : s.id = t.id => s = t
  BY <1>6, RegistryAssumption DEF ActivePlaces
<1> QED BY <1>2, <1>4, <1>5, <1>6, <1>7

(* A shard has more shards before it than any of those.                     *)
LEMMA RanksIncrease ==
  ASSUME NEW s \in Active
  PROVE  /\ IsFiniteSet(Before(s)) /\ Cardinality(Before(s)) \in 0 .. Cardinality(Active) - 1
         /\ \A t \in Before(s) : Cardinality(Before(t)) < Cardinality(Before(s))
<1>1. \A t \in Active : t.id \in Nat
  BY ActiveShards DEF ShardType
<1>2. \A t \in Active : Before(t) \subseteq Active /\ t \notin Before(t)
  BY <1>1 DEF Before
<1>3. \A t \in Active : IsFiniteSet(Before(t)) /\ Cardinality(Before(t)) \in Nat
  BY <1>2, ActiveShards, FS_Subset, FS_CardinalityType
<1>4. Cardinality(Active) \in Nat
  BY ActiveShards, FS_CardinalityType
<1>5. Cardinality(Before(s)) < Cardinality(Active)
  <2>1. Cardinality(Before(s)) <= Cardinality(Active)
        /\ (Cardinality(Active) = Cardinality(Before(s)) => Active = Before(s))
    BY <1>2, ActiveShards, FS_Subset
  <2> QED BY <2>1, <1>2, <1>3, <1>4
<1>6. ASSUME NEW t \in Before(s)
      PROVE  Cardinality(Before(t)) < Cardinality(Before(s))
  <2>1. t \in Active /\ t.id < s.id
    BY DEF Before
  <2>2. Before(t) \subseteq Before(s)
    BY <1>1, <2>1 DEF Before
  <2>3. Cardinality(Before(t)) <= Cardinality(Before(s))
        /\ (Cardinality(Before(s)) = Cardinality(Before(t)) => Before(s) = Before(t))
    BY <2>2, <1>3, FS_Subset
  <2> QED BY <2>1, <2>3, <1>2, <1>3
<1> QED BY <1>3, <1>4, <1>5, <1>6

(* The list is the active shards, each once, in the order of their ids.     *)
THEOREM SortedById ==
  /\ ShardsInOrder \in [1 .. Cardinality(Active) -> Active]
  /\ Cardinality(Active) \in Nat \ {0}
  /\ \A s \in Active : \E k \in 1 .. Cardinality(Active) : ShardsInOrder[k] = s
  /\ \A j, k \in 1 .. Cardinality(Active) : j < k => ShardsInOrder[j].id < ShardsInOrder[k].id
<1> DEFINE n == Cardinality(Active)
           rank == [s \in Active |-> Cardinality(Before(s))]
<1>1. n \in Nat \ {0}
  BY ActiveShards, FS_CardinalityType, FS_EmptySet
<1>2. \A t \in Active : t.id \in Nat
  BY ActiveShards DEF ShardType
<1>3. rank \in [Active -> 0 .. n - 1]
  BY RanksIncrease
<1>4. ASSUME NEW s \in Active, NEW t \in Active
      PROVE  s.id < t.id => rank[s] < rank[t]
  BY RanksIncrease DEF Before
<1>5. ASSUME NEW s \in Active, NEW t \in Active
      PROVE  rank[s] = rank[t] => s = t
  <2>1. s.id < t.id \/ t.id < s.id \/ s = t
    BY <1>2, ActiveShards
  <2>2. rank[s] \in Nat /\ rank[t] \in Nat
    BY <1>3, <1>1
  <2> QED BY <2>1, <2>2, <1>4
<1>6. rank \in Injection(Active, 0 .. n - 1)
  BY <1>3, <1>5 DEF Injection, IsInjective
<1>7. rank \in Surjection(Active, 0 .. n - 1)
  <2>1. IsFiniteSet(0 .. n - 1) /\ Cardinality(0 .. n - 1) = n
    BY <1>1, FS_Interval
  <2> QED BY <1>6, <2>1, FS_Injection
<1>8. ASSUME NEW k \in 1 .. n
      PROVE  ShardsInOrder[k] \in Active /\ rank[ShardsInOrder[k]] = k - 1
  <2>1. k - 1 \in 0 .. n - 1
    BY <1>1
  <2>2. \E s \in Active : rank[s] = k - 1
    BY <1>7, <2>1 DEF Surjection
  <2>3. ShardsInOrder[k] = CHOOSE s \in Active : Cardinality(Before(s)) = k - 1
    BY DEF ShardsInOrder
  <2> QED BY <2>2, <2>3
<1>9. ASSUME NEW s \in Active
      PROVE  \E k \in 1 .. n : ShardsInOrder[k] = s
  <2>1. rank[s] + 1 \in 1 .. n /\ rank[s] = (rank[s] + 1) - 1
    BY <1>3, <1>1
  <2>2. rank[ShardsInOrder[rank[s] + 1]] = rank[s] /\ ShardsInOrder[rank[s] + 1] \in Active
    BY <2>1, <1>8
  <2>3. ShardsInOrder[rank[s] + 1] = s
    BY <2>2, <1>5
  <2> QED BY <2>1, <2>3
<1>10. ASSUME NEW j \in 1 .. n, NEW k \in 1 .. n, j < k
       PROVE  ShardsInOrder[j].id < ShardsInOrder[k].id
  <2> DEFINE s == ShardsInOrder[j]
             t == ShardsInOrder[k]
  <2>1. s \in Active /\ t \in Active /\ rank[s] = j - 1 /\ rank[t] = k - 1
    BY <1>8
  <2>2. s # t /\ ~(rank[t] < rank[s])
    BY <2>1, <1>1, <1>10
  <2> HIDE DEF s, t, rank
  <2>3. ~(t.id < s.id)
    BY <2>1, <2>2, <1>4
  <2>4. s.id # t.id
    BY <2>1, <2>2, ActiveShards
  <2> QED BY <2>1, <2>3, <2>4, <1>2 DEF s, t
<1>11. ShardsInOrder \in [1 .. n -> Active]
  BY <1>8 DEF ShardsInOrder
<1> QED BY <1>1, <1>9, <1>10, <1>11

(* The remainder of a division by n, made positive, is a place in the list. *)
LEMMA PlaceInRange ==
  ASSUME NEW b \in Int, NEW n \in Nat \ {0}
  PROVE  1 + Remainder(Remainder(b, n) + n, n) \in 1 .. n
<1>1. \A i \in Nat : i % n \in 0 .. n - 1
  OBVIOUS
<1>2. Remainder(b, n) \in -(n - 1) .. n - 1
  BY <1>1 DEF Remainder
<1>3. Remainder(b, n) + n \in Nat
  BY <1>2
<1> QED BY <1>1, <1>3 DEF Remainder

(* Every branch, whatever its id, has an active shard for a home.           *)
THEOREM EveryBranchHasAHome ==
  \A b \in Int : ResolveForBranch(b) \in Active
<1> TAKE b \in Int
<1>1. Len(ShardsInOrder) = Cardinality(Active)
  BY SortedById
<1> QED BY <1>1, SortedById, PlaceInRange DEF ResolveForBranch

-----------------------------------------------------------------------------
(* 2. The report across the shards *)

CrossType == [at : {"none", "open", "read", "done"}, left : SUBSET ActivePlaces,
              unread : SUBSET Branches, data : SUBSET (Ids \X Branches), queried : Seq(Ids),
              failures : SUBSET Ids, cancelled : BOOLEAN]
CrossOK ==
    /\ cross \in CrossType
    /\ cross.at \in {"open", "read"} <=> cross.left # {}
    /\ cross.left # {} => cross.queried # <<>> /\ Last(cross.queried) = Current.id
    /\ ReadSoFar

(* The next shard is an active one.                                         *)
LEMMA NextShard ==
  ASSUME NEW left \in SUBSET ActivePlaces, left # {}
  PROVE  /\ Min(left) \in left
         /\ NextOf(left) = Registry[Min(left)]
         /\ NextOf(left).id \in Ids
<1>1. ActivePlaces \subseteq DOMAIN Registry /\ DOMAIN Registry \subseteq Nat
  BY RegistryAssumption DEF ActivePlaces
<1>2. \E m \in left : \A k \in left : m <= k
  BY <1>1, LeastElement
<1>3. Min(left) \in left
  BY <1>2 DEF Min
<1>4. Registry[Min(left)] \in ToSet(Registry)
  BY <1>1, <1>3 DEF ToSet
<1> QED BY <1>3, <1>4 DEF NextOf, Ids

LEMMA LastAppended ==
  ASSUME NEW q \in Seq(Ids), NEW x \in Ids
  PROVE  Append(q, x) \in Seq(Ids) /\ Append(q, x) # <<>> /\ Last(Append(q, x)) = x
BY DEF Last

(* In the end every branch is accounted for: its home is an active shard,   *)
(* and nothing of an active shard is left.                                  *)
LEMMA NothingIsLeftOut == CrossOK => EveryBranchIsAccountedFor
<1> SUFFICES ASSUME CrossOK, cross.at = "done", NEW b \in Branches
             PROVE  /\ ResolveForBranch(b).id \in cross.failures
                       \/ <<ResolveForBranch(b).id, b>> \in cross.data
                    /\ \A row \in cross.data : row[2] = b => row[1] = ResolveForBranch(b).id
  BY DEF EveryBranchIsAccountedFor
<1>1. ResolveForBranch(b) \in Active
  BY EveryBranchHasAHome, BranchesAssumption
<1>2. PICK i \in ActivePlaces : Registry[i] = ResolveForBranch(b)
  BY <1>1, ActiveShards
<1>3. cross.left = {} /\ b \in RowsOf(Registry[i])
  BY <1>2 DEF CrossOK, RowsOf
<1>4. Registry[i].id \in cross.failures \/ IsIn(b)
  BY <1>3 DEF CrossOK, ReadSoFar
<1> QED BY <1>2, <1>4 DEF CrossOK, ReadSoFar, IsIn

(* A report begins with all active shards.                                  *)
LEMMA AskShardsKeeps == CrossOK /\ AskShards => CrossOK'
<1> SUFFICES ASSUME CrossOK, AskShards PROVE CrossOK'
  OBVIOUS
<1>1. ActivePlaces # {}
  BY ActiveShards
<1>2. cross' = [at |-> "open", left |-> ActivePlaces, unread |-> {}, data |-> {},
                queried |-> <<NextOf(ActivePlaces).id>>, failures |-> {}, cancelled |-> FALSE]
  BY DEF AskShards, NoReport
<1>3. NextOf(ActivePlaces).id \in Ids
  BY <1>1, NextShard
<1>4. Current'.id = NextOf(ActivePlaces).id
  BY <1>2 DEF Current, NextOf
<1>5. cross' \in CrossType
  BY <1>2, <1>3 DEF CrossType
<1>6. cross'.queried # <<>> /\ Last(cross'.queried) = NextOf(ActivePlaces).id
  BY <1>2 DEF Last
<1>7. ReadSoFar'
  BY <1>2 DEF ReadSoFar, IsIn
<1> QED BY <1>1, <1>2, <1>4, <1>5, <1>6, <1>7 DEF CrossOK

LEMMA OpenShardKeeps == CrossOK /\ OpenShard => CrossOK'
<1> SUFFICES ASSUME CrossOK, OpenShard PROVE CrossOK'
  OBVIOUS
<1>1. cross' = [cross EXCEPT !.at = "read", !.unread = RowsOf(Current)]
  BY DEF OpenShard
<1>2. RowsOf(Current) \subseteq Branches
  BY DEF RowsOf
<1>3. /\ cross' \in CrossType /\ cross'.at = "read" /\ cross'.unread = RowsOf(Current)
      /\ cross'.left = cross.left /\ cross'.data = cross.data
      /\ cross'.queried = cross.queried /\ cross'.failures = cross.failures
  BY <1>1, <1>2 DEF CrossOK, CrossType
<1>4. Current' = Current
  BY <1>3 DEF Current
<1>5. cross.at = "open"
  BY DEF OpenShard
<1>6. ReadSoFar'
  BY <1>3, <1>4, <1>5 DEF ReadSoFar, IsIn, CrossOK
<1> QED BY <1>3, <1>4, <1>5, <1>6 DEF CrossOK

(* A row that is read is in the report from then on.                        *)
LEMMA ReadRowKeeps == CrossOK /\ ReadRow => CrossOK'
<1> SUFFICES ASSUME CrossOK, ReadRow PROVE CrossOK'
  OBVIOUS
<1>1. cross.at = "read" /\ cross.left # {}
  BY DEF ReadRow, CrossOK
<1>2. PICK b \in cross.unread :
        cross' = [cross EXCEPT !.unread = @ \ {b}, !.data = @ \cup {<<Current.id, b>>}]
  BY DEF ReadRow
<1>3. b \in RowsOf(Current) /\ b \in Branches /\ Current = ResolveForBranch(b)
  BY <1>2 DEF CrossOK, ReadSoFar, RowsOf
<1>4. Current.id \in Ids
  BY <1>1, NextShard DEF Current, CrossOK, CrossType
<1>5. /\ cross' \in CrossType /\ cross'.at = cross.at /\ cross'.unread = cross.unread \ {b}
      /\ cross'.left = cross.left /\ cross'.data = cross.data \cup {<<Current.id, b>>}
      /\ cross'.queried = cross.queried /\ cross'.failures = cross.failures
  <2> DEFINE unread == cross.unread \ {b}
             data == cross.data \cup {<<Current.id, b>>}
  <2>1. cross \in CrossType /\ unread \in SUBSET Branches
    BY DEF CrossOK, CrossType
  <2>2. data \in SUBSET (Ids \X Branches)
    BY <1>3, <1>4 DEF CrossOK, CrossType
  <2>3. cross' = [cross EXCEPT !.unread = unread, !.data = data]
    BY <1>2, <2>1 DEF CrossType
  <2> HIDE DEF unread, data
  <2>4. /\ cross' \in CrossType /\ cross'.at = cross.at /\ cross'.unread = unread
        /\ cross'.left = cross.left /\ cross'.data = data
        /\ cross'.queried = cross.queried /\ cross'.failures = cross.failures
    BY <2>1, <2>2, <2>3 DEF CrossType
  <2> QED BY <2>4 DEF unread, data
<1>6. Current' = Current
  BY <1>5 DEF Current
<1>7. ReadSoFar'
  <2>1. \A row \in cross'.data : row[1] = ResolveForBranch(row[2]).id
    BY <1>3, <1>5 DEF CrossOK, ReadSoFar
  <2>2. \A c \in Branches : IsIn(c) => IsIn(c)'
    BY <1>5 DEF IsIn
  <2>3. IsIn(b)'
    BY <1>3, <1>5 DEF IsIn
  <2>4. \A c \in RowsOf(Current) : c \in cross'.unread \/ IsIn(c)'
    BY <1>1, <1>5, <2>2, <2>3 DEF CrossOK, ReadSoFar, RowsOf
  <2>5. \A i \in ActivePlaces \ cross'.left :
           Registry[i].id \in cross'.failures \/ \A c \in RowsOf(Registry[i]) : IsIn(c)'
    BY <1>1, <1>5, <2>2 DEF CrossOK, ReadSoFar, RowsOf
  <2> QED BY <1>1, <1>5, <1>6, <2>1, <2>4, <2>5 DEF CrossOK, ReadSoFar
<1> QED BY <1>1, <1>5, <1>6, <1>7 DEF CrossOK

(* QueryShard goes on to the next of the other shards.                      *)
LEMMA QueryShardGoesOn ==
  ASSUME CrossOK, cross.left # {}
  PROVE  LET next == QueryShard(Others) IN
         /\ Others \subseteq ActivePlaces /\ Min(cross.left) \in cross.left
         /\ next \in CrossType
         /\ next.left = Others /\ next.data = cross.data /\ next.failures = cross.failures
         /\ next.unread = cross.unread
         /\ next.at = IF Others = {} THEN "done" ELSE "open"
         /\ Others # {} => next.queried # <<>> /\ Last(next.queried) = NextOf(Others).id
<1>1. Others \subseteq ActivePlaces /\ Others \subseteq cross.left /\ Min(cross.left) \in cross.left
  BY NextShard DEF CrossOK, CrossType, Others
<1>2. CASE Others = {}
  BY <1>1, <1>2 DEF QueryShard, CrossOK, CrossType
<1>3. CASE Others # {}
  <2>1. NextOf(Others).id \in Ids
    BY <1>1, <1>3, NextShard
  <2>2. /\ Append(cross.queried, NextOf(Others).id) \in Seq(Ids)
        /\ Append(cross.queried, NextOf(Others).id) # <<>>
        /\ Last(Append(cross.queried, NextOf(Others).id)) = NextOf(Others).id
    BY <2>1, LastAppended DEF CrossOK, CrossType
  <2>3. QueryShard(Others) = [cross EXCEPT !.at = "open", !.left = Others,
                                 !.queried = Append(@, NextOf(Others).id)]
    BY <1>3 DEF QueryShard
  <2> QED BY <1>1, <1>3, <2>2, <2>3 DEF CrossOK, CrossType
<1> QED BY <1>2, <1>3

(* Done with a shard, either because all its rows are in or as a failure.   *)
LEMMA GoesOnKeeps ==
  ASSUME CrossOK, cross.left # {}, cross' \in CrossType,
         cross'.left = Others, cross'.data = cross.data, cross'.unread = {},
         cross'.at = IF Others = {} THEN "done" ELSE "open",
         Others # {} => cross'.queried # <<>> /\ Last(cross'.queried) = NextOf(Others).id,
         cross.failures \subseteq cross'.failures,
         Current.id \in cross'.failures \/ \A b \in RowsOf(Current) : IsIn(b)
  PROVE  CrossOK'
<1>1. Current' = NextOf(Others)
  BY DEF Current
<1>2. \A b \in Branches : IsIn(b) => IsIn(b)'
  BY DEF IsIn
<1>3. ASSUME NEW i \in ActivePlaces \ Others
      PROVE  Registry[i].id \in cross'.failures \/ \A b \in RowsOf(Registry[i]) : IsIn(b)'
  <2>1. CASE i = Min(cross.left)
    BY <1>2, <2>1 DEF Current, NextOf, RowsOf
  <2>2. CASE i \notin cross.left
    <3>1. Registry[i].id \in cross.failures \/ \A b \in RowsOf(Registry[i]) : IsIn(b)
      BY <2>2 DEF CrossOK, ReadSoFar
    <3> QED BY <3>1, <1>2 DEF RowsOf
  <2> QED BY <2>1, <2>2 DEF Others
<1>4. ReadSoFar'
  BY <1>3 DEF CrossOK, ReadSoFar
<1> QED BY <1>1, <1>4 DEF CrossOK

LEMMA ShardReadKeeps == CrossOK /\ ShardRead => CrossOK'
<1> SUFFICES ASSUME CrossOK, ShardRead PROVE CrossOK'
  OBVIOUS
<1>1. /\ cross.at = "read" /\ cross.unread = {} /\ cross' = QueryShard(Others)
      /\ cross.left # {}
  BY DEF ShardRead, CrossOK
<1>2. \A b \in RowsOf(Current) : IsIn(b)
  BY <1>1 DEF CrossOK, ReadSoFar
<1> QED BY <1>1, <1>2, QueryShardGoesOn, GoesOnKeeps

LEMMA ShardFailsKeeps == CrossOK /\ ShardFails => CrossOK'
<1> SUFFICES ASSUME CrossOK, ShardFails PROVE CrossOK'
  OBVIOUS
<1> DEFINE next == QueryShard(Others)
<1>1. /\ cross.left # {}
      /\ cross' = [next EXCEPT !.failures = @ \cup {Current.id}, !.unread = {}]
  BY DEF ShardFails, CrossOK
<1>2. /\ next \in CrossType
      /\ next.left = Others /\ next.data = cross.data /\ next.failures = cross.failures
      /\ next.at = IF Others = {} THEN "done" ELSE "open"
      /\ Others # {} => next.queried # <<>> /\ Last(next.queried) = NextOf(Others).id
  BY <1>1, QueryShardGoesOn
<1>3. Current.id \in Ids
  BY <1>1, NextShard DEF Current, CrossOK, CrossType
<1> HIDE DEF next
<1>4. /\ cross' \in CrossType
      /\ cross'.left = next.left /\ cross'.data = next.data /\ cross'.unread = {}
      /\ cross'.failures = next.failures \cup {Current.id}
      /\ cross'.at = next.at /\ cross'.queried = next.queried
  BY <1>1, <1>2, <1>3 DEF CrossType
<1> QED BY <1>1, <1>2, <1>4, GoesOnKeeps

LEMMA CancelShardsKeeps == CrossOK /\ CancelShards => CrossOK'
<1> SUFFICES ASSUME CrossOK, CancelShards PROVE CrossOK'
  OBVIOUS
<1>1. /\ cross' \in CrossType /\ cross'.at = cross.at /\ cross'.unread = cross.unread
      /\ cross'.left = cross.left /\ cross'.data = cross.data
      /\ cross'.queried = cross.queried /\ cross'.failures = cross.failures
  BY DEF CrossOK, CrossType, CancelShards
<1>2. Current' = Current
  BY <1>1 DEF Current
<1> QED BY <1>1, <1>2 DEF CrossOK, ReadSoFar, IsIn

(* There is nothing in a report that was not asked for.                     *)
LEMMA NoReportOK == cross = NoReport => CrossOK
<1> SUFFICES ASSUME cross = NoReport PROVE CrossOK
  OBVIOUS
<1>1. cross \in CrossType
  BY DEF NoReport, CrossType
<1> QED BY <1>1 DEF CrossOK, ReadSoFar, NoReport

LEMMA ShowShardsKeeps == CrossOK /\ ShowShards => CrossOK'
<1> SUFFICES ASSUME CrossOK, cross' = NoReport PROVE CrossOK'
  BY DEF ShowShards
<1>1. cross' \in CrossType
  BY DEF NoReport, CrossType
<1> QED BY <1>1 DEF CrossOK, ReadSoFar, NoReport

(* No other step touches the report.                                        *)
LEMMA CrossUnchanged == CrossOK /\ UNCHANGED cross => CrossOK'
BY DEF CrossOK, ReadSoFar, IsIn, Current

LEMMA CrossStepKeeps == CrossOK /\ [Next]_vars => CrossOK'
<1> SUFFICES ASSUME CrossOK, [Next]_vars PROVE CrossOK'
  OBVIOUS
<1>1. CASE AskShards
  BY <1>1, AskShardsKeeps
<1>2. CASE CancelShards
  BY <1>2, CancelShardsKeeps
<1>3. CASE CrossStep
  BY <1>3, OpenShardKeeps, ReadRowKeeps, ShardReadKeeps, ShardFailsKeeps, ShowShardsKeeps
     DEF CrossStep
<1>4. CASE AskReplica \/ PageStep
  BY <1>4, CrossUnchanged DEF AskReplica, PageStep, CheckHealth, ReadReport, ReadThrows, ClosePage
<1>5. CASE \E s \in Servers : ServerFails(s) \/ ServerReturns(s)
  BY <1>5, CrossUnchanged DEF ServerFails, ServerReturns
<1>6. CASE Work \/ Replicate
  BY <1>6, CrossUnchanged DEF Work, Replicate
<1>7. CASE UNCHANGED vars
  BY <1>7, CrossUnchanged DEF vars
<1> QED BY <1>1, <1>2, <1>3, <1>4, <1>5, <1>6, <1>7 DEF Next

-----------------------------------------------------------------------------
(* 3. The page on the replica, and the servers *)

PageType == [at : {"none", "check", "read", "shown", "error"}, healthy : BOOLEAN,
             rows : 0 .. primary, since : 0 .. primary]
PageOK ==
    /\ primary \in 1 .. MaxVersion /\ replica \in 0 .. primary /\ hasReplica \in BOOLEAN
    /\ page \in PageType
    /\ UnlabelledIsCurrent
ServersOK ==
    /\ down \subseteq Servers /\ outages \in 0 .. MaxOutages /\ reports \in 0 .. MaxReports

LEMMA VersionsMove ==
  ASSUME PageOK, primary' \in primary .. MaxVersion, replica' \in 0 .. primary',
         UNCHANGED <<hasReplica, page>>
  PROVE  PageOK'
<1>1. primary \in 1 .. MaxVersion /\ MaxVersion \in Nat
  BY BoundsAssumption DEF PageOK
<1>2. primary' \in 1 .. MaxVersion /\ 0 .. primary \subseteq 0 .. primary'
  BY <1>1
<1>3. page' \in PageType'
  BY <1>2 DEF PageOK, PageType
<1> QED BY <1>2, <1>3 DEF PageOK, UnlabelledIsCurrent, ServedFromReplica

(* What is not the replica's is read from the primary, which never goes     *)
(* back behind the version it had when the page was asked for.              *)
LEMMA ReadReportKeeps == PageOK /\ ReadReport => PageOK'
<1> SUFFICES ASSUME PageOK, ReadReport PROVE PageOK'
  OBVIOUS
<1> DEFINE rows == VersionAt(Source(page.healthy))
<1>1. /\ page' = [page EXCEPT !.at = "shown", !.rows = rows]
      /\ UNCHANGED <<primary, replica, hasReplica>>
  BY DEF ReadReport
<1>2. primary \in 1 .. MaxVersion /\ MaxVersion \in Nat /\ replica \in 0 .. primary
  BY BoundsAssumption DEF PageOK
<1>3. rows \in 0 .. primary
  BY <1>2 DEF VersionAt
<1>4. ~page.healthy => rows = primary
  BY DEF Source, VersionAt, Primary, Replica
<1>5. page.since \in 0 .. primary
  BY DEF PageOK, PageType
<1> HIDE DEF rows
<1>6. /\ page' \in PageType /\ page'.rows = rows /\ page'.since = page.since
      /\ page'.healthy = page.healthy
  BY <1>1, <1>3 DEF PageOK, PageType
<1>7. UnlabelledIsCurrent'
  BY <1>2, <1>4, <1>5, <1>6 DEF UnlabelledIsCurrent, ServedFromReplica
<1> QED BY <1>1, <1>6, <1>7 DEF PageOK, PageType

LEMMA PageStepKeeps == PageOK /\ [Next]_vars => PageOK'
<1> SUFFICES ASSUME PageOK, [Next]_vars PROVE PageOK'
  OBVIOUS
<1>1. /\ primary \in 1 .. MaxVersion /\ MaxVersion \in Nat /\ replica \in 0 .. primary
      /\ primary \in 0 .. primary /\ 0 \in 0 .. primary
  BY BoundsAssumption DEF PageOK
<1>2. CASE AskReplica
  <2>1. /\ page' = [at |-> "check", healthy |-> FALSE, rows |-> 0, since |-> primary]
        /\ UNCHANGED <<primary, replica, hasReplica>>
    BY <1>2 DEF AskReplica, NoPage
  <2>2. page' \in PageType /\ page'.at = "check"
    BY <1>1, <2>1 DEF PageType
  <2> QED BY <2>1, <2>2 DEF PageOK, PageType, UnlabelledIsCurrent
<1>3. CASE CheckHealth
  <2>1. /\ \E healthy \in BOOLEAN : page' = [page EXCEPT !.at = "read", !.healthy = healthy]
        /\ UNCHANGED <<primary, replica, hasReplica>>
    BY <1>3 DEF CheckHealth
  <2>2. page' \in PageType /\ page'.at = "read"
    BY <2>1 DEF PageOK, PageType
  <2> QED BY <2>1, <2>2 DEF PageOK, PageType, UnlabelledIsCurrent
<1>4. CASE ReadReport
  BY <1>4, ReadReportKeeps
<1>5. CASE ReadThrows
  <2>1. page' = [page EXCEPT !.at = "error"] /\ UNCHANGED <<primary, replica, hasReplica>>
    BY <1>5 DEF ReadThrows
  <2>2. page' \in PageType /\ page'.at = "error"
    BY <2>1 DEF PageOK, PageType
  <2> QED BY <2>1, <2>2 DEF PageOK, PageType, UnlabelledIsCurrent
<1>6. CASE ClosePage
  <2>1. page' = NoPage /\ UNCHANGED <<primary, replica, hasReplica>>
    BY <1>6 DEF ClosePage
  <2>2. page' \in PageType /\ page'.at = "none"
    BY <1>1, <2>1 DEF NoPage, PageType
  <2> QED BY <2>1, <2>2 DEF PageOK, PageType, UnlabelledIsCurrent
<1>7. CASE Work
  <2>1. primary' \in primary .. MaxVersion /\ replica' \in 0 .. primary'
    BY <1>1, <1>7 DEF Work
  <2> QED BY <1>7, <2>1, VersionsMove DEF Work
<1>8. CASE Replicate
  <2>1. primary' \in primary .. MaxVersion /\ replica' \in 0 .. primary'
    BY <1>1, <1>8 DEF Replicate
  <2> QED BY <1>8, <2>1, VersionsMove DEF Replicate
<1>9. CASE UNCHANGED <<replicaVars, hasReplica>>
  <2>1. primary' \in primary .. MaxVersion /\ replica' \in 0 .. primary'
    BY <1>1, <1>9 DEF replicaVars
  <2> QED BY <1>9, <2>1, VersionsMove DEF replicaVars
<1>10. CASE AskShards \/ CancelShards \/ CrossStep
  BY <1>9, <1>10
     DEF AskShards, CancelShards, CrossStep, OpenShard, ReadRow, ShardRead, ShardFails, ShowShards
<1>11. CASE \E s \in Servers : ServerFails(s) \/ ServerReturns(s)
  BY <1>9, <1>11 DEF ServerFails, ServerReturns
<1>12. CASE UNCHANGED vars
  BY <1>9, <1>12 DEF vars, replicaVars
<1> QED BY <1>2, <1>3, <1>4, <1>5, <1>6, <1>7, <1>8, <1>10, <1>11, <1>12 DEF Next, PageStep

LEMMA ServersStepKeeps == ServersOK /\ [Next]_vars => ServersOK'
<1> SUFFICES ASSUME ServersOK, [Next]_vars PROVE ServersOK'
  OBVIOUS
<1>1. MaxOutages \in Nat /\ MaxReports \in Nat
  BY BoundsAssumption
<1>2. CASE AskShards \/ AskReplica
  BY <1>1, <1>2 DEF AskShards, AskReplica, ServersOK, Servers
<1>3. CASE \E s \in Servers : ServerFails(s) \/ ServerReturns(s)
  BY <1>1, <1>3 DEF ServerFails, ServerReturns, ServersOK
<1>4. CASE UNCHANGED <<down, outages, reports>>
  BY <1>4 DEF ServersOK
<1>5. CASE CancelShards \/ CrossStep
  BY <1>4, <1>5 DEF CancelShards, CrossStep, OpenShard, ReadRow, ShardRead, ShardFails, ShowShards
<1>6. CASE PageStep \/ Work \/ Replicate
  BY <1>4, <1>6 DEF PageStep, CheckHealth, ReadReport, ReadThrows, ClosePage, Work, Replicate
<1>7. CASE UNCHANGED vars
  BY <1>4, <1>7 DEF vars
<1> QED BY <1>2, <1>3, <1>5, <1>6, <1>7 DEF Next

-----------------------------------------------------------------------------
(* 4. The theorems *)

LEMMA InitOK == Init => CrossOK /\ PageOK /\ ServersOK
<1> SUFFICES ASSUME Init PROVE CrossOK /\ PageOK /\ ServersOK
  OBVIOUS
<1>1. CrossOK
  BY NoReportOK DEF Init
<1>2. PageOK
  <2>1. page \in PageType /\ page.at = "none"
    BY DEF Init, NoPage, PageType
  <2> QED BY <2>1, BoundsAssumption DEF Init, PageOK, UnlabelledIsCurrent
<1>3. ServersOK
  BY BoundsAssumption DEF Init, ServersOK
<1> QED BY <1>1, <1>2, <1>3

LEMMA PartsOfIInv == CrossOK /\ PageOK /\ ServersOK => IInv
<1> SUFFICES ASSUME CrossOK, PageOK, ServersOK PROVE IInv
  OBVIOUS
<1>1. TypeOK
  BY DEF TypeOK, CrossOK, PageOK, ServersOK, CrossType, PageType
<1> QED BY <1>1, NothingIsLeftOut DEF IInv, CrossOK, PageOK

(* The inductive invariant: the state is well formed, the report has all    *)
(* that was read of the shards it is done with, and what is not the         *)
(* replica's is current.                                                    *)
THEOREM Invariance == Spec => []IInv
<1>1. Init => CrossOK /\ PageOK /\ ServersOK
  BY InitOK
<1>2. CrossOK /\ PageOK /\ ServersOK /\ [Next]_vars => (CrossOK /\ PageOK /\ ServersOK)'
  BY CrossStepKeeps, PageStepKeeps, ServersStepKeeps
<1>3. QED BY <1>1, <1>2, PartsOfIInv, PTL DEF Spec

(* CrossShardReportingService: whatever servers go away while the report is *)
(* made, each branch is in it, once, or its shard is named as failed.       *)
THEOREM BranchesAccountedFor == Spec => []EveryBranchIsAccountedFor
<1>1. IInv => EveryBranchIsAccountedFor
  BY DEF IInv
<1>2. QED BY <1>1, Invariance, PTL

(* ReplicaAwareReportingService: figures that are not labelled as the       *)
(* replica's are as new as the request.                                     *)
THEOREM UnlabelledCurrency == Spec => []UnlabelledIsCurrent
<1>1. IInv => UnlabelledIsCurrent
  BY DEF IInv
<1>2. QED BY <1>1, Invariance, PTL
=============================================================================
