---------------------------- MODULE MCFullMigration ---------------------------
(* Small instances of FullMigration: a and b run the shards, c and d are new. *)
EXTENDS FullMigration

CONSTANTS a, b, c, d

OnOneNode  == {[s \in Shards |-> a]}
OnTwoNodes == {[s \in Shards |-> IF s = 0 THEN a ELSE b]}
=============================================================================
