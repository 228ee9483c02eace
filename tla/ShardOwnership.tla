---------------------------- MODULE ShardOwnership ----------------------------
(***************************************************************************)
(* What the shard orchestrator promises to the rest of the bot: every      *)
(* gateway shard is held by one node or by none, it passes from one node   *)
(* to another only through being held by none, and only its holder starts  *)
(* a new session with Discord for it.                                      *)
(***************************************************************************)
EXTENDS Integers

CONSTANTS Nodes, Shards

VARIABLES
  holders,   \* per shard: the nodes that hold its gateway
  sessions   \* per shard: how many sessions were started

vars == <<holders, sessions>>

Init ==
  /\ holders \in [Shards -> {{}} \cup {{n} : n \in Nodes}]
  /\ sessions \in [Shards -> {0, 1}]

Take(s)    == /\ holders[s] = {} /\ \E n \in Nodes : holders'[s] = {n}
              /\ sessions'[s] = sessions[s]
Release(s) == /\ holders[s] # {} /\ holders'[s] = {}
              /\ sessions'[s] = sessions[s]
Identify(s) == /\ holders[s] # {} /\ holders'[s] = holders[s]
               /\ sessions'[s] = sessions[s] + 1
Keep(s)    == holders'[s] = holders[s] /\ sessions'[s] = sessions[s]

\* One command may be about several shards, and so may the death of a node.
Next == \A s \in Shards : Take(s) \/ Release(s) \/ Identify(s) \/ Keep(s)

Spec == Init /\ [][Next]_vars
=============================================================================
