---------------------------- MODULE MCReporting ----------------------------
(* Three active shards, not registered in the order of their ids, one of     *)
(* which has no connection string, and one that is not active.               *)
EXTENDS Reporting

Shard(id, active, configured) == [id |-> id, active |-> active, configured |-> configured]
MCRegistry == <<Shard(2, TRUE, TRUE), Shard(3, FALSE, TRUE), Shard(1, TRUE, TRUE), Shard(4, TRUE, FALSE)>>
=============================================================================
