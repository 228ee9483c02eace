----------------------------- MODULE ShardMonitor -----------------------------
(***************************************************************************)
(* The monitor of lib/dshardorchestrator/orchestrator/monitor.go, on top   *)
(* of ShardMigration: once a second it looks for shards that no connected  *)
(* node has run for a while, and starts a bucket of them on a node with    *)
(* room, or launches a node.  MigrateShard requests come in between.       *)
(*                                                                         *)
(* Time is counted in ticks, and only as far as the monitor compares it.   *)
(***************************************************************************)
EXTENDS ShardMigration

CONSTANTS
  Responsible,   \* ResponsibleForShards
  MaxShardsPerNode,
  ShardBucketSize, BucketsPerNode,   \* 0 where they are not set
  Downtime,      \* MaxNodeDowntimeBeforeRestart
  Cooldown,      \* the pause after a bucket has been started
  Migrates,      \* shards are also migrated
  MaxDoubled     \* bound: shards started twice before answers are waited for

ASSUME MonitorAssumption ==
  /\ Responsible \subseteq Shards /\ IsFiniteSet(Shards)
  /\ {MaxShardsPerNode, Downtime, Cooldown} \subseteq Nat \ {0}
  /\ MaxDoubled \in Nat
  /\ ShardBucketSize \in Nat /\ BucketsPerNode \in Nat
  /\ Migrates \in BOOLEAN

VARIABLES
  unseen,    \* per shard: ticks since it was last seen running, up to Downtime
  cooling,   \* ticks until the monitor may start the next bucket
  launched,  \* Newcomers that have been launched
  hasty      \* nodes given a bucket while a start sent to them was not answered

mvars == <<vars, unseen, cooling, launched, hasty>>

MonitorTypeOK ==
  /\ TypeOK
  /\ unseen \in [Shards -> 0 .. Downtime]
  /\ cooling \in 0 .. Cooldown
  /\ launched \subseteq Newcomers
  /\ hasty \subseteq Nodes

MInit ==
  /\ Init
  /\ unseen = [s \in Shards |-> 0]
  /\ cooling = 0
  /\ launched = {}
  /\ hasty = {}

-----------------------------------------------------------------------------
\* nodeSlotForShard.
Bucket(s) == IF ShardBucketSize > 1 THEN s \div ShardBucketSize ELSE 0
Slot(s)   == IF BucketsPerNode # 0 THEN Bucket(s) \div BucketsPerNode ELSE Bucket(s)

\* Mutant: the shards of nodes that are not connected count as running.
SeenListed == {s \in Shards : \E n \in Nodes : s \in conn[n].shards}

SeenRunning == {s \in Shards : \E n \in Nodes : Running(n, s)}

Older(S) == [s \in Shards |-> IF s \in S THEN 0
                              ELSE IF unseen[s] < Downtime THEN unseen[s] + 1
                              ELSE Downtime]

\* In a shard migration, as far as the orchestrator knows.
Migrating(s) ==
  \E n \in Nodes : /\ conn[n].known /\ conn[n].shard = s /\ conn[n].mode # "none"
                   /\ conn[n].other # NoNode

\* Mutant: a shard that is being migrated is started as well.
MissingOrMigrating(seen) ==
  {s \in Responsible \ seen : unseen[s] >= Downtime}

\* shardsToStart, of all buckets.
Missing(seen) ==
  {s \in Responsible \ seen : unseen[s] >= Downtime /\ ~Migrating(s)}

HasRoom(n) ==
  conn[n].up /\ conn[n].known /\ Cardinality(conn[n].shards) < MaxShardsPerNode

\* Mutant: what n runs is not looked at.
AnySlot(n, missing) == {Slot(s) : s \in missing}

\* Slots whose missing shards may share a node with what n runs.
SlotsFor(n, missing) ==
  {b \in {Slot(s) : s \in missing} : \A r \in conn[n].shards : Slot(r) = b}

\* The missing shards of slot b, or, if they are more than a bucket, the first.
FirstBucket(b, missing) ==
  LET all == {s \in missing : Slot(s) = b}
  IN  {s \in all : ShardBucketSize # 0
                    => Cardinality({r \in all : r < s}) < ShardBucketSize}

Starts == {m \in net : m.kind = "start"}
Unanswered(n) == \E m \in Starts : m.node = n

\* StartShards only sends.  The pause that follows is all that is left for the
\* answer, and what n has not answered for is not looked at.
StartBucket(seen) ==
  \E n \in Nodes :
    /\ HasRoom(n)
    /\ Starts = {} \/ Cardinality(doubled) < MaxDoubled
    /\ \E b \in SlotsFor(n, Missing(seen)) :
         StartShards(n, FirstBucket(b, Missing(seen)), 0)
    /\ cooling' = Cooldown
    /\ hasty' = IF Unanswered(n) THEN hasty \cup {n} ELSE hasty
    /\ UNCHANGED <<ops, launched>>

LaunchNewNode(seen) ==
  /\ Missing(seen) # {}
  /\ \A n \in Nodes : HasRoom(n) => SlotsFor(n, Missing(seen)) = {}
  /\ \E n \in Newcomers \ launched : launched' = launched \cup {n}
  /\ UNCHANGED <<vars, cooling, hasty>>

\* The tick returns before it looks at anything while it is cooling.
Cools ==
  /\ cooling > 0
  /\ cooling' = cooling - 1
  /\ unseen' = Older({})
  /\ UNCHANGED <<vars, launched, hasty>>

Looks ==
  /\ cooling = 0
  /\ unseen' = Older(SeenRunning)
  /\ \/ Missing(SeenRunning) = {} /\ UNCHANGED <<vars, cooling, launched, hasty>>
     \/ StartBucket(SeenRunning)
     \/ LaunchNewNode(SeenRunning)

Tick == Cools \/ Looks

-----------------------------------------------------------------------------
Quiet == UNCHANGED <<unseen, cooling, launched, hasty>>

\* A node that was not launched does not connect.
MRecovery ==
  /\ \E n \in Nodes : \/ NoticeDrop(n)
                      \/ Reconnect(n) /\ (n \in Newcomers => n \in launched)
  /\ Quiet

\* A restarted orchestrator has seen nothing, and waits before its first tick.
Forget ==
  /\ unseen' = [s \in Shards |-> 0]
  /\ cooling' = 0
  /\ UNCHANGED <<launched, hasty>>

MDisturbance ==
  \/ /\ \/ \E n \in Nodes : Drop(n) \/ (Die(n) /\ n \notin Newcomers)
        \/ \E m \in net : Lose(m)
     /\ Quiet
  \/ Restart /\ Forget

MigrateShard ==
  /\ Migrates
  /\ \E from, to \in Nodes, s \in Shards :
       InTurn({s}) /\ StartShardMigration(from, to, s)
  /\ Quiet

MProtocolStep == Step /\ Quiet

MNext == Tick \/ MigrateShard \/ MProtocolStep \/ MRecovery \/ MDisturbance

MSpec == /\ MInit /\ [][MNext]_mvars
         /\ WF_mvars(Tick) /\ WF_mvars(MProtocolStep) /\ WF_mvars(MRecovery)

-----------------------------------------------------------------------------
(* Properties.                                                             *)

(* Once connections and processes stop failing, every shard this orchestrator
   is responsible for gets a gateway and keeps one.                         *)
AllShardsRun ==
  \A s \in Responsible : <>[](\E n \in Nodes : Open(n, s))

(* So it is after failures alone, and with migrations alone: only a failure
   and a migration together may leave a shard behind.                       *)
ShardsRunAgain ==
  \A s \in Responsible :
    <>[]((ops > 0 /\ drops > 0) \/ \E n \in Nodes : Open(n, s))

(* The monitor does not put shards of different slots on the same node, unless
   it gave it a second bucket before the first was answered for.            *)
SlotsAreApart ==
  ops = 0 => \A n \in Nodes \ hasty, r, s \in Shards :
    {r, s} \subseteq conn[n].shards => Slot(r) = Slot(s)
=============================================================================
