---------------------------- MODULE MCShardMonitor ----------------------------
(* Small instances of ShardMonitor.                                         *)
EXTENDS ShardMonitor

CONSTANTS a, b, c, d

\* Each slot on a node of its own, or one slot down.
SlotsUp   == [s \in Shards |-> IF Slot(s) = 0 THEN a ELSE b]
OtherDown == [s \in Shards |-> IF Slot(s) = 0 THEN a ELSE NoNode]
Either    == {SlotsUp, OtherDown}
Warm      == {SlotsUp}
=============================================================================
