--------------------------- MODULE MCShardMigration ---------------------------
(* Small instances of ShardMigration.                                       *)
EXTENDS ShardMigration

CONSTANTS a, b, c

\* Both shards on a: the setting of a full migration.  Shard 1 may be down.
OnOneNode  == {[s \in Shards |-> a]}
OnTwoNodes == {[s \in Shards |-> IF s = 0 THEN a ELSE b]}
SomeDown   == {[s \in Shards |-> IF s = 0 THEN a ELSE NoNode]}
=============================================================================
