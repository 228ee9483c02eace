---------------------------- MODULE FullMigration ----------------------------
(***************************************************************************)
(* MigrateAllNodesToNewNodes and MigrateFullNode, in                       *)
(* lib/dshardorchestrator/orchestrator/orchestrator.go, on top of          *)
(* ShardMigration: a goroutine of the orchestrator that moves the shards   *)
(* of each node to a new node, one after the other, and then shuts the old *)
(* node down.                                                              *)
(*                                                                         *)
(* The goroutine keeps the two *NodeConn it looked up when it began with a *)
(* node.  A node that connects again is given a new NodeConn: what the     *)
(* goroutine then reads and resets is an object that no message reaches    *)
(* any more.                                                               *)
(***************************************************************************)
EXTENDS ShardMigration

CONSTANTS
  EarlyPicks,   \* a new connection may be found before it has identified
  MaxJobs       \* bound: full migrations asked for

ASSUME JobsAssumption == MaxJobs \in Nat /\ EarlyPicks \in BOOLEAN

VARIABLES
  job,    \* the goroutine, if there is one: see performingFullMigration
  jobs    \* full migrations asked for

fvars == <<vars, job, jobs>>

\* Between two nodes, between two shards, or in one of the three loops of
\* WaitForShardMigration.
Phases == {"idle", "pick", "next", "gone", "there", "calm"}

\* todo and ignore are the nodes that ran shards, and all the nodes there were,
\* when it began.  fromOld, toOld: the NodeConn has been replaced.  An old
\* NodeConn is not connected, which is all that is then read of the origin's;
\* of the destination's it is the shards and the mode, frozen in toConn.  moved
\* is the set of shards moved between the two nodes, which only the properties
\* read.
Job == [at : Phases, todo : SUBSET Nodes, ignore : SUBSET Nodes,
        from : Nodes \cup {NoNode}, to : Nodes \cup {NoNode},
        shard : Shards \cup {NoShard}, left : SUBSET Shards,
        moved : SUBSET Shards, fromOld : BOOLEAN, toOld : BOOLEAN, toConn : Conn]

NoJob == [at |-> "idle", todo |-> {}, ignore |-> {}, from |-> NoNode,
          to |-> NoNode, shard |-> NoShard, left |-> {}, moved |-> {},
          fromOld |-> FALSE, toOld |-> FALSE, toConn |-> NoConn]

FullTypeOK == TypeOK /\ job \in Job /\ jobs \in 0 .. MaxJobs

FInit == Init /\ job = NoJob /\ jobs = 0

\* One of the loops of WaitForShardMigration ends: also as soon as the origin is
\* not connected.  Mutant: it does not wait.
FromIsUp == ~job.fromOld /\ conn[job.from].up
NoWait(cond)   == TRUE
WaitOver(cond) == cond \/ ~FromIsUp

ToConn == IF job.toOld THEN job.toConn ELSE conn[job.to]

-----------------------------------------------------------------------------
MigrateAllNodesToNewNodes ==
  /\ jobs < MaxJobs
  /\ job.at = "idle"
  /\ jobs' = jobs + 1
  /\ job' = [NoJob EXCEPT !.at     = "pick",
               !.todo   = {n \in Nodes : conn[n].up /\ conn[n].shards # {}},
               !.ignore = {n \in Nodes : conn[n].known}]
  /\ UNCHANGED vars

\* findAvailableNode: an empty node that was not there at the beginning.
Available(n) ==
  /\ n \notin job.ignore
  /\ conn[n].up /\ conn[n].shards = {} /\ conn[n].mode = "none"

MigrateFullNode(from, to) ==
  /\ job.at = "pick"
  /\ from \in job.todo /\ conn[from].known
  /\ Available(to)
  /\ job' = [NoJob EXCEPT !.at = "next", !.from = from, !.to = to,
               !.todo = job.todo \ {from}, !.ignore = job.ignore,
               !.left = conn[from].shards]
  /\ UNCHANGED <<vars, jobs>>

\* A new connection looks like an empty node, under a name made up for it, and a
\* first migration may be started towards that name before Identify replaces it
\* (and leaves the mode as it is): nothing the origin then sends has a
\* destination.
MigrateToUnidentified(from, to) ==
  /\ EarlyPicks
  /\ job.at = "pick"
  /\ from \in job.todo \ {to} /\ conn[from].up /\ conn[from].mode = "none"
  /\ ops < MaxOps /\ ops' = ops + 1
  /\ \E m \in net, s \in conn[from].shards :
       /\ m.kind = "identify" /\ m.node = to /\ node[to].link
       /\ conn' = [conn EXCEPT
            ![from] = [@ EXCEPT !.mode = "from", !.other = NoNode, !.shard = s],
            ![to]   = [Identified(m) EXCEPT !.mode = "to", !.other = from, !.shard = s]]
       /\ net' = (net \ {m}) \cup
                    Deliverable({Prepare("down", from, ops', s, TRUE, 0)})
       /\ job' = [NoJob EXCEPT !.at = "gone", !.from = from, !.to = to, !.shard = s,
                    !.todo = job.todo \ {from}, !.ignore = job.ignore,
                    !.left = conn[from].shards \ {s}, !.moved = {s}]
  /\ UNCHANGED <<node, gw, fresh, sent, doubled, crashed, drops, jobs>>

\* Every node has been done, or none is found to go to, even after five
\* launches.
Return ==
  /\ job.at = "pick"
  /\ job.todo = {} \/ ~\E n \in Nodes : Available(n)
  /\ job' = NoJob
  /\ UNCHANGED <<vars, jobs>>

\* A migration of the next shard is started, from whatever node now runs it.
MigrateNext ==
  /\ job.at = "next"
  /\ \E s \in job.left :
       /\ \E from \in Nodes : StartShardMigration(from, job.to, s)
       /\ job' = [job EXCEPT !.at = "gone", !.shard = s, !.left = @ \ {s},
                             !.moved = @ \cup {s}]
  /\ UNCHANGED jobs

CanMigrate(s) ==
  /\ conn[job.to].known
  /\ \E from \in Nodes : /\ Running(from, s) /\ conn[from].mode = "none"
                         /\ Idle(from, job.to)

\* It is refused, or a node is gone: the error ends the whole migration.  (A
\* busy destination, MigrateToBusy, is left to ShardMigration.)
GiveUp ==
  /\ job.at = "next"
  /\ \/ \E s \in job.left : ~CanMigrate(s)
     \/ job.left = {} /\ ~conn[job.from].known
  /\ job' = NoJob
  /\ UNCHANGED <<vars, jobs>>

\* The first loop: the shard is gone from the origin.
SeesGone ==
  /\ job.at = "gone"
  /\ WaitOver(job.shard \notin conn[job.from].shards)
  /\ job' = [job EXCEPT !.at = "there"]
  /\ UNCHANGED <<vars, jobs>>

\* The second: the shard is at the destination.
SeesThere ==
  /\ job.at = "there"
  /\ WaitOver(job.shard \in ToConn.shards)
  /\ job' = [job EXCEPT !.at = "calm"]
  /\ UNCHANGED <<vars, jobs>>

\* The modes are reset, of the NodeConns that the goroutine holds.
ResetMode(old, n, c) == IF old THEN c ELSE [c EXCEPT ![n].mode = "none"]

\* The third: the destination is not migrating any more.
SeesCalm ==
  /\ job.at = "calm"
  /\ WaitOver(ToConn.mode # "to")
  /\ conn' = ResetMode(job.fromOld, job.from, ResetMode(job.toOld, job.to, conn))
  /\ job' = [job EXCEPT !.at = "next", !.toConn.mode = "none"]
  /\ UNCHANGED <<node, gw, fresh, net, sent, doubled, crashed, ops, drops, jobs>>

\* The old node is shut down, whatever NodeConn its id has by now.
Finished ==
  /\ job.at = "next" /\ job.left = {}
  /\ ShutdownNode(job.from)
  /\ job' = [job EXCEPT !.at = "pick"]
  /\ UNCHANGED jobs

JobStep ==
  \/ \E from, to \in Nodes : MigrateFullNode(from, to) \/ MigrateToUnidentified(from, to)
  \/ Return \/ MigrateNext \/ GiveUp
  \/ SeesGone \/ SeesThere \/ SeesCalm \/ Finished

-----------------------------------------------------------------------------
\* The NodeConn of n is replaced, maybe under the goroutine that holds it.
Replaced(n) ==
  [job EXCEPT !.fromOld = @ \/ n = job.from,
              !.toConn  = IF n = job.to /\ ~job.toOld THEN conn[n] ELSE @,
              !.toOld   = @ \/ n = job.to]

ProtocolStep ==
  /\ \/ \E m \in net : HandleIdentify(m) /\ job' = Replaced(m.node)
     \/ \E m \in net : (OrchestratorStep(m) \/ NodeStep(m)) /\ job' = job
     \/ \E n \in Nodes, s \in Shards : GatewayOpens(n, s) /\ job' = job
  /\ UNCHANGED jobs

\* The death of the orchestrator ends its goroutines.
Disturbance ==
  /\ \/ \E n \in Nodes : (Drop(n) \/ Die(n)) /\ job' = job
     \/ \E m \in net : Lose(m) /\ job' = job
     \/ Restart /\ job' = NoJob
  /\ UNCHANGED jobs

FRecovery == Recovery /\ UNCHANGED <<job, jobs>>

FNext ==
  \/ MigrateAllNodesToNewNodes
  \/ JobStep \/ ProtocolStep \/ FRecovery \/ Disturbance

\* The goroutine polls, the messages are read, and lost connections restored.
FSpec == /\ FInit /\ [][FNext]_fvars
         /\ WF_fvars(ProtocolStep) /\ WF_fvars(FRecovery) /\ WF_fvars(JobStep)

-----------------------------------------------------------------------------
(* Properties.                                                             *)

(* As long as no connection was lost, a node is told to shut down only when it
   holds none of the shards it had, and each of them has a gateway, or is
   getting one, on the new node.                                            *)
ShutsDownEmptyNode ==
  [][\A m \in net' \ net : m.kind = "shutdown" /\ drops = 0 =>
       /\ \A s \in Shards : ~Open(m.node, s)
       /\ \A s \in job.moved : Open(job.to, s)]_fvars

(* A full migration comes to an end, and another may be asked for.          *)
FullMigrationEnds == job.at # "idle" ~> job.at = "idle"

\* The origin is migrating towards a name that no node has any more.
NoDestination(n) == conn[n].mode = "from" /\ conn[n].other = NoNode

(* It does when no connection was lost, and every node it moved shards to had
   identified before it was chosen.                                         *)
UndisturbedMigrationEnds ==
  job.at # "idle" ~> \/ job.at = "idle"
                     \/ drops > 0
                     \/ \E n \in Nodes : NoDestination(n)

(* A full migration that came to an end with no failure on the way has left
   no shard without a gateway.                                              *)
NoShardLost ==
  job.at = "idle" /\ net = {} /\ drops = 0 =>
    \A s \in Shards : \E n \in Nodes : Open(n, s)
=============================================================================
