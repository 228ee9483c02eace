----------------------- MODULE ShardMigrationInvariants -----------------------
(***************************************************************************)
(* What ShardMigrationProofs says of the states of ShardMigration,         *)
(* ShardMonitor and FullMigration: the inductive invariants, part by part, *)
(* what their parts are made of, and what a step has to leave alone for    *)
(* them to be kept.  Nothing here models code or is checked by a run.      *)
(***************************************************************************)
EXTENDS ShardMonitor, FullMigration

-----------------------------------------------------------------------------
(* As long as nothing fails.  The invariant has five parts: who is connected;
   who holds a shard; that one command about a shard is on its way at a time;
   that both ends of a migration know each other; and that the messages of a
   migration follow one another.                                             *)

Undisturbed == drops = 0 /\ ~crashed

\* OneGatewayPerShard with nothing to excuse.
Alone == \A s \in Shards, m, n \in Nodes : Open(m, s) /\ Open(n, s) => m = n

\* A node has no messages before it has identified, and no shards.
Joined ==
  /\ \A n \in Nodes :
       /\ conn[n].known => conn[n].up /\ node[n].link
       /\ ~conn[n].known => /\ ~conn[n].up /\ conn[n].mode = "none"
                            /\ conn[n].shards = {} /\ node[n].shards = {}
  /\ \A m \in net : IF m.kind = "identify"
                    THEN m = Identify(m.node, {}) /\ ~conn[m.node].known /\ node[m.node].link
                    ELSE m.kind # "shutdown" /\ conn[m.node].known

\* m belongs to a command about s.
About(m, s) ==
  \/ m.kind = "start" /\ s \in m.shards
  \/ m.kind \in {"stop", "prepare", "transfer"} /\ m.shard = s

\* b is ready to take s over.
Takes(b, s) == node[b].mode = "to" /\ node[b].shard = s

\* Of all commands about a shard one is on its way, and none but its own
\* migration while a node takes it over.
OneAtATime ==
  /\ \A s \in Shards, m1, m2 \in net : About(m1, s) /\ About(m2, s) => m1 = m2
  /\ \A s \in Shards, b1, b2 \in Nodes : Takes(b1, s) /\ Takes(b2, s) => b1 = b2
  /\ \A s \in Shards, b \in Nodes, m \in net :
       Takes(b, s) /\ About(m, s) =>
         \/ m.kind = "prepare" /\ m.dir = "up" /\ ~m.origin /\ m.node = b
         \/ m.kind = "transfer"

\* s runs nowhere, and the orchestrator has it nowhere.
Down(s) == \A n \in Nodes : s \notin conn[n].shards /\ ~Open(n, s)

\* What a message about s says of its gateways.
Held(m, s) ==
  IF m.kind = "start" /\ m.dir = "up"
  THEN \A n \in Nodes : s \notin conn[n].shards /\ (Open(n, s) => n = m.node)
  ELSE IF m.kind = "stop" \/ (m.kind = "prepare" /\ m.origin)
       THEN s \in conn[m.node].shards /\ (m.dir = "up" => ~Open(m.node, s))
       ELSE Down(s)

Custody ==
  /\ \A s \in Shards, n1, n2 \in Nodes : s \in conn[n1].shards /\ s \in conn[n2].shards => n1 = n2
  /\ \A s \in Shards, n \in Nodes :
       Open(n, s) => \/ s \in conn[n].shards
                     \/ \E m \in net : m.kind = "start" /\ m.dir = "up" /\ m.node = n /\ s \in m.shards
  /\ \A s \in Shards, m \in net : About(m, s) => Held(m, s)
  /\ \A s \in Shards, b \in Nodes : Takes(b, s) => Down(s)

\* a and b know of the migration of s from a to b.
Pair(a, b, s) ==
  /\ a \in Nodes /\ b \in Nodes
  /\ conn[a].mode = "from" /\ conn[a].other = b /\ conn[a].shard = s
  /\ conn[b].mode = "to" /\ conn[b].other = a /\ conn[b].shard = s

Pairs ==
  /\ \A b \in Nodes, s \in Shards : Takes(b, s) => conn[b].mode = "to" /\ conn[b].shard = s
  /\ \A m \in net :
       /\ m.kind = "prepare" =>
            IF m.origin THEN Pair(m.node, conn[m.node].other, m.shard)
                        ELSE Pair(conn[m.node].other, m.node, m.shard)
       /\ m.kind = "prepare" /\ ~m.origin /\ m.dir = "up" => Takes(m.node, m.shard)
       /\ m.kind = "transfer" => /\ m.dir = "down"
                                 /\ Pair(m.node, conn[m.node].other, m.shard)
                                 /\ Takes(conn[m.node].other, m.shard)
       /\ m.kind = "allsent" /\ m.dir = "up" =>
            /\ Pair(m.node, conn[m.node].other, conn[m.node].shard)
            /\ Takes(conn[m.node].other, conn[m.node].shard)
       /\ m.kind = "allsent" /\ m.dir = "down" => node[m.node].mode = "to"

\* m stands for where the migration to b is.
Carries(m, b) ==
  \/ About(m, node[b].shard)
  \/ m.kind = "allsent" /\ b = IF m.dir = "up" THEN conn[m.node].other ELSE m.node

Follows ==
  /\ \A b \in Nodes : node[b].mode = "to" =>
       /\ node[b].shard \in Shards
       /\ \A m1, m2 \in net : Carries(m1, b) /\ Carries(m2, b) => m1 = m2
       /\ node[b].total # -1 => \A m \in net : ~Carries(m, b)
  /\ \A m \in net : m.kind = "user" =>
       IF m.dir = "up"
       THEN \E u \in net : u.kind = "allsent" /\ u.dir = "up" /\ u.node = m.node /\ u.op = m.op
       ELSE node[m.node].mode = "to" \/ node[m.node].total = -1

Safe == Joined /\ OneAtATime /\ Custody /\ Pairs /\ Follows

SafeInv == TypeOK /\ (Undisturbed => Safe)

-----------------------------------------------------------------------------
(* The refinement of ShardOwnership, as long as nothing fails.              *)

Holds(s) == {n \in Nodes : Open(n, s)}

-----------------------------------------------------------------------------
(* The session of a shard is handed on as it is.                            *)

\* m is the answer that a node has closed s.
ClosedBy(m, n, s) ==
  m.kind \in {"stop", "prepare"} /\ m.dir = "up" /\ m.node = n /\ m.shard = s
    /\ (m.kind = "prepare" => m.origin)

Newest ==
  /\ \A n \in Nodes, s \in Shards :
       /\ gw[n][s].st = "open" => gw[n][s].session = fresh[s] /\ fresh[s] > 0
       /\ gw[n][s].st = "opening" /\ gw[n][s].session # 0 => gw[n][s].session = fresh[s]
       /\ s \in conn[n].shards => Open(n, s) \/ \E m \in net : ClosedBy(m, n, s)
       /\ Takes(n, s) => node[n].session = fresh[s] /\ fresh[s] > 0
  /\ \A m \in net :
       /\ m.kind = "start" /\ m.dir = "up" => \A s \in m.shards : Open(m.node, s)
       /\ m.kind = "prepare" => \/ m.origin /\ m.dir = "down"
                                \/ m.session = fresh[m.shard] /\ fresh[m.shard] > 0

\* No destination finishes.
NoFinish == \A n \in Nodes : ~Finishes(n)

Resumes ==
  \A n \in Nodes : Finishes(n) =>
    LET s == node[n].shard
    IN  fresh[s] > 0 /\ gw'[n][s].session = fresh[s]

-----------------------------------------------------------------------------
(* The state of a shard arrives complete.                                   *)

\* m belongs to a migration whose origin has not sent its state yet.
Hands(m) == m.kind \in {"prepare", "transfer"}

\* The node that m says takes the shard over.
Receiver(m) ==
  IF m.kind = "transfer" \/ (m.kind = "allsent" /\ m.dir = "up")
  THEN conn[m.node].other ELSE m.node

\* m is about a destination that is ready.
ToReady(m) ==
  \/ m.kind \in {"transfer", "allsent"}
  \/ m.kind = "prepare" /\ ~m.origin /\ m.dir = "up"
  \/ m.kind = "user" /\ m.dir = "down"

\* The user events of migration o that are still on their way.
Awaited(o) == {i \in Nat : \E m \in net : m.kind = "user" /\ m.op = o /\ m.num = i}

\* What destination b has counted, and what it waits for.
Count(b) ==
  LET nd == node[b]
  IN  /\ nd.op <= ops /\ nd.processed = nd.own
      /\ sent[nd.op] = -1 => nd.own = 0 /\ nd.total = -1
      /\ sent[nd.op] # -1 =>
           /\ nd.total \in {-1, sent[nd.op]}
           /\ IsFiniteSet(Awaited(nd.op))
           /\ Cardinality(Awaited(nd.op)) + nd.own = sent[nd.op]

Counted ==
  /\ \A o \in 0 .. MaxOps : o > ops => sent[o] = -1
  /\ \A m \in net :
       /\ m.op <= ops
       /\ Hands(m) => sent[m.op] = -1
       /\ m.kind \in {"allsent", "user"} => sent[m.op] # -1
       /\ m.kind = "allsent" => m.num = sent[m.op]
       /\ ToReady(m) => /\ Receiver(m) \in Nodes
                        /\ node[Receiver(m)].mode = "to" /\ node[Receiver(m)].op = m.op
  /\ \A m1, m2 \in net :
       m1.op = m2.op => /\ Hands(m1) /\ Hands(m2) => m1 = m2
                        /\ m1.kind = "user" /\ m2.kind = "user" /\ m1.num = m2.num => m1 = m2
  /\ \A b \in Nodes : node[b].mode = "to" =>
       /\ Count(b)
       /\ \A m \in net : Hands(m) /\ m.op = node[b].op => ToReady(m) /\ Receiver(m) = b
       /\ \A x \in Nodes : node[x].mode = "to" /\ node[x].op = node[b].op => x = b

\* No destination becomes ready, counts or finishes.
SameReady ==
  \A b \in Nodes :
    /\ node'[b].op = node[b].op /\ (node'[b].mode = "to" <=> node[b].mode = "to")
    /\ node[b].mode = "to" => /\ node'[b].processed = node[b].processed
                              /\ node'[b].own = node[b].own /\ node'[b].total = node[b].total

Complete == \A n \in Nodes : Finishes(n) => node'[n].own = sent[node[n].op]

-----------------------------------------------------------------------------
(* When nothing is on its way, nothing is left undone.                      *)

\* The migration that keeps a busy as its origin goes on with m.
Leads(m, a) ==
  \/ m.kind = "prepare" /\ a = IF m.origin THEN m.node ELSE conn[m.node].other
  \/ m.kind = "transfer" /\ a = m.node
  \/ m.kind = "allsent" /\ m.dir = "up" /\ a = m.node

\* b is to become ready with m, or is done and says so with m.
Brings(m, b) ==
  \/ m.kind = "prepare" /\ b = IF m.origin THEN conn[m.node].other ELSE m.node
  \/ m.kind = "start" /\ m.dir = "up" /\ b = m.node /\ conn[b].shard \in m.shards

\* A node counts as its own what it has open or takes over; whoever is busy has
\* something to wait for.
Accounted ==
  /\ \A n \in Nodes, s \in Shards : s \in node[n].shards <=> Open(n, s) \/ Takes(n, s)
  /\ \A a \in Nodes : conn[a].mode = "from" => \E m \in net : Leads(m, a)
  /\ \A b \in Nodes : conn[b].mode = "to" =>
       node[b].mode = "to" \/ \E m \in net : Brings(m, b)
  /\ \A b \in Nodes : node[b].mode = "to" =>
       IF node[b].total = -1 THEN \E m \in net : Carries(m, b)
                             ELSE node[b].processed < node[b].total

\* What m stands for goes on, with m or with another message.
Followed(m) ==
  /\ \A a \in Nodes : conn'[a].mode = "from" /\ Leads(m, a) => \E q \in net' : Leads(q, a)'
  /\ \A b \in Nodes : conn'[b].mode = "to" /\ Brings(m, b) =>
       node'[b].mode = "to" \/ \E q \in net' : Brings(q, b)'
  /\ \A b \in Nodes :
       node[b].mode = "to" /\ node'[b].mode = "to" /\ node'[b].total = -1 /\ Carries(m, b) =>
         \E q \in net' : Carries(q, b)'

\* The shard that a node takes over is that of its last Prepare.
SameShard ==
  \A b \in Nodes : node[b].mode = "to" /\ node'[b].mode = "to" => node'[b].shard = node[b].shard

-----------------------------------------------------------------------------
(* One command, whatever fails.                                             *)

\* Messages of commands.
Talk == {m \in net : m.kind # "identify"}

\* What is sent to a node reaches it, and a node identifies with what it has.
Reaches ==
  /\ \A m \in net : m.dir = "down" => Reachable(m.node)
  /\ \A m \in net : m.kind = "identify" =>
       m.dir = "up" /\ node[m.node].link /\ m.shards = node[m.node].shards

Learns(n, s) == \E m \in net : m.kind = "start" /\ m.dir = "up" /\ m.node = n /\ s \in m.shards

Knows(n, s)  == s \in conn[n].shards \/ Learns(n, s)

\* A node has counted what it runs, and the orchestrator knows it of those it sees.
Believes == \A n \in Nodes, s \in Shards : Open(n, s) => s \in node[n].shards

Seen ==
  \A n \in Nodes, s \in Shards : Reachable(n) /\ conn[n].up /\ Open(n, s) => Knows(n, s)

Core == Reaches /\ Believes /\ Seen /\ OneGatewayPerShard

Dark(s)  == \A k \in Nodes : ~Open(k, s)

Unpaired == \A n \in Nodes : conn[n].other = NoNode

\* Before the command.
NoCommand ==
  /\ Talk = {} /\ Unpaired
  /\ \A n \in Nodes : conn[n].shards \subseteq node[n].shards
  /\ \A m, n \in Nodes, s \in Shards : s \in node[m].shards /\ s \in node[n].shards => m = n

\* The command was a start, or was refused.
Starting ==
  /\ Unpaired
  /\ \A m \in Talk : /\ m.kind = "start"
                     /\ m.dir = "down" => Talk = {m} /\ \A s \in m.shards : s \in doubled \/ Dark(s)

\* It was a stop.
Stopping ==
  /\ Unpaired
  /\ \A m \in Talk : m.kind = "stop" /\ (m.dir = "up" => ~Open(m.node, m.shard))

\* It was a migration of s from f to t.  One message goes from hand to hand until
\* the origin sends its state.
HandsOn(f, t, s, m) ==
  \/ /\ m.kind = "prepare" /\ m.origin /\ m.node = f /\ m.shard = s
     /\ m.dir = "down" => \A k \in Nodes : Open(k, s) => k = f
     /\ m.dir = "up" => Dark(s)
  \/ /\ m.kind = "prepare" /\ ~m.origin /\ m.node = t /\ m.shard = s /\ Dark(s)
     /\ m.dir = "up" => s \in node[t].shards /\ node[t].shard = s
  \/ /\ m.kind = "transfer" /\ m.dir = "down" /\ m.node = f /\ Dark(s)
     /\ s \in node[t].shards /\ node[t].shard = s

HandsState(f, t, s, m) ==
  \/ /\ m.kind \in {"user", "allsent"}
     /\ m.node = IF m.dir = "up" THEN f ELSE t
     /\ s \in node[t].shards
     /\ node[t].shard = NoShard \/ (node[t].shard = s /\ Dark(s))
  \/ m.kind = "start" /\ m.dir = "up"

Moved(f, t, s) ==
  /\ f # t
  /\ \A n \in Nodes : \/ conn[n].other = NoNode
                      \/ n = f /\ conn[n].other = t
                      \/ n = t /\ conn[n].other = f
  /\ \A m \in Talk : (Talk = {m} /\ HandsOn(f, t, s, m)) \/ HandsState(f, t, s, m)

OneCommand == Starting \/ Stopping \/ \E f, t \in Nodes, s \in Shards : Moved(f, t, s)

Solo == ops <= 1 => /\ Core
                    /\ ops = 0 => NoCommand
                    /\ ops = 1 => OneCommand

\* No message but a remaining one, no gateway but an open one.
Recedes ==
  /\ Talk' \subseteq Talk /\ doubled' = doubled
  /\ \A k \in Nodes :
       /\ node'[k].shard = node[k].shard /\ node'[k].shards = node[k].shards
       /\ conn'[k].other \in {conn[k].other, NoNode}
       /\ \A s \in Shards : Open(k, s)' => Open(k, s)

-----------------------------------------------------------------------------
(* What the monitor puts on a node.                                         *)

\* m brings shards to what is known of node n.
Tells(m, n) == m.kind \in {"start", "identify"} /\ m.node = n

\* What n runs or is to run, whoever knows it.
Load(n) ==
  {s \in Shards : \/ s \in conn[n].shards \/ s \in node[n].shards
                  \/ \E m \in net : Tells(m, n) /\ s \in m.shards}

\* Without commands there are only starts and identifies.  A node that can be
\* reached runs what the orchestrator knows and what it is about to be told.
OnlyStarts ==
  /\ \A m \in net :
       /\ m.kind \in {"start", "identify"}
       /\ m.kind = "identify" => node[m.node].link /\ m.shards = node[m.node].shards
       /\ m.kind = "start" /\ m.dir = "down" => Reachable(m.node)
       /\ m.kind = "start" /\ m.dir = "up" => m.shards \subseteq node[m.node].shards
  /\ \A n \in Nodes : Reachable(n) =>
       \A s \in node[n].shards :
         \/ s \in conn[n].shards
         \/ \E m \in net : m.kind = "start" /\ m.dir = "up" /\ m.node = n /\ s \in m.shards

\* No node begins with shards of two slots.
BeginsApart ==
  \A at \in Placements : \A r, s \in Shards : at[r] = at[s] /\ at[r] \in Nodes => Slot(r) = Slot(s)

\* As the orchestrator's main function sets them (cmd/shardorchestrator).
BucketsFit == ShardBucketSize > 0 /\ MaxShardsPerNode = ShardBucketSize * BucketsPerNode

BeginsSmall == \A at \in Placements, n \in Nodes : Cardinality({s \in Shards : at[s] = n}) <= MaxShardsPerNode

LoadsApart == \A n \in Nodes \ hasty : \A r, s \in Load(n) : Slot(r) = Slot(s)

LoadsFit   == \A n \in Nodes \ hasty : Cardinality(Load(n)) <= MaxShardsPerNode

\* The monitor does not put more shards on a node than MaxShardsPerNode.
NoNodeIsOverfull ==
  ops = 0 => \A n \in Nodes \ hasty : Cardinality(conn[n].shards) <= MaxShardsPerNode

MonitorInv ==
  /\ TypeOK
  /\ ops = 0 => /\ OnlyStarts
                /\ BeginsApart => LoadsApart
                /\ BeginsApart /\ BeginsSmall /\ BucketsFit => LoadsFit

-----------------------------------------------------------------------------
(* FullMigration.                                                           *)

\* While the goroutine is between two nodes it works on, both exist.
Working == job.at \in {"next", "gone", "there", "calm"}

JobTyped == job \in Job /\ (Working => job.from \in Nodes /\ job.to \in Nodes)

-----------------------------------------------------------------------------
(* What a full migration does while no connection is lost.  The goroutine
   moves one shard at a time, so at any moment every shard but that one has a
   keeper: the node whose gateway is open and whose NodeConn has the shard.
   The shard that is moved is at one of the stages of Moves.                 *)

AllPlaced == \A at \in Placements, s \in Shards : at[s] # NoNode

Moving == job.at \in {"gone", "there", "calm"}

\* The messages of the migration of one shard.
Carrying == {m \in net : m.kind \notin {"identify", "shutdown"}}

Keeps(n, s) == \A k \in Nodes : (Open(k, s) <=> k = n) /\ (s \in conn[k].shards <=> k = n)

Kept(s)     == \E n \in Nodes \cup {NoNode} : Keeps(n, s) /\ (AllPlaced => n # NoNode)

Nowhere(s)  == \A k \in Nodes : ~Open(k, s) /\ s \notin conn[k].shards

\* n has been told to shut down, or has done so.
Leaving(n) == \/ conn[n].known /\ ~node[n].link
              \/ \E m \in net : m.kind = "shutdown" /\ m.node = n

NodesInv ==
  \A n \in Nodes :
    /\ conn[n].up => conn[n].known
    /\ ~conn[n].known => conn[n].shards = {} /\ node[n].shards = {}
    /\ conn[n].known /\ node[n].link => conn[n].up
    /\ node[n].alive /\ ~node[n].link => ~conn[n].known
    /\ Leaving(n) => /\ conn[n].known /\ conn[n].shards = {}
                     /\ \A s \in Shards : ~Open(n, s)
                     /\ n \notin job.todo /\ (job.at # "idle" => n \in job.ignore)
                     /\ Working => n # job.from

MessagesInv ==
  /\ \A m \in net :
       /\ m.kind = "identify" => ~conn[m.node].known /\ m.shards = {} /\ node[m.node].link
       /\ m.kind # "identify" => Reachable(m.node)
  /\ \A m1, m2 \in net :
       m1.kind = "identify" /\ m2.kind = "identify" /\ m1.node = m2.node => m1 = m2

JobInv ==
  /\ job.at # "idle" => job.todo \subseteq job.ignore /\ \A n \in job.ignore : conn[n].known
  /\ Working =>
       /\ conn[job.from].known /\ conn[job.to].known
       /\ ~job.fromOld /\ ~job.toOld
       /\ job.from \in job.ignore /\ job.from \notin job.todo /\ job.to \notin job.ignore
       /\ job.left \subseteq conn[job.from].shards
       /\ \A s \in conn[job.from].shards : s \in job.left \/ (job.at = "gone" /\ s = job.shard)
  /\ Moving => job.shard \in Shards /\ job.shard \notin job.left

IsPrepare(m, dir, n, s, origin) ==
  m.kind = "prepare" /\ m.dir = dir /\ m.node = n /\ m.shard = s /\ m.origin = origin

\* The destination had not identified: the shard is closed, and nobody is told.
Lost(f, s) ==
  /\ job.at = "gone" /\ conn[f].other = NoNode /\ s \in conn[f].shards
  /\ \A k \in Nodes : Open(k, s) => k = f
  /\ \/ Carrying = {}
     \/ \E m \in net : Carrying = {m} /\ \E dir \in Dirs : IsPrepare(m, dir, f, s, TRUE)

\* The stages of a migration with a destination, in their order.
Asked(f, s) ==
  /\ job.at = "gone" /\ Keeps(f, s)
  /\ \E m \in net : Carrying = {m} /\ IsPrepare(m, "down", f, s, TRUE)

GivenUp(f, s) ==
  /\ job.at = "gone"
  /\ \A k \in Nodes : ~Open(k, s) /\ (s \in conn[k].shards <=> k = f)
  /\ \E m \in net : Carrying = {m} /\ IsPrepare(m, "up", f, s, TRUE)

Offered(t, s) ==
  /\ job.at \in {"gone", "there"} /\ Nowhere(s)
  /\ \E m \in net : Carrying = {m} /\ IsPrepare(m, "down", t, s, FALSE)

Ready(f, t, s) ==
  /\ job.at \in {"gone", "there"} /\ Nowhere(s)
  /\ node[t].shard = s /\ node[t].total = -1 /\ node[t].processed = 0
  /\ \E m \in net : /\ Carrying = {m}
                    /\ \/ IsPrepare(m, "up", t, s, FALSE)
                       \/ m.kind = "transfer" /\ m.dir = "down" /\ m.node = f

\* The user events that the destination has yet to handle.
Due == {u.num : u \in {m \in net : m.kind = "user"}}

Passing(f, t, s) ==
  /\ job.at \in {"gone", "there"} /\ Nowhere(s)
  /\ node[t].shard = s /\ IsFiniteSet(Due)
  /\ \A m \in Carrying : /\ m.kind \in {"user", "allsent"}
                         /\ m.dir = "up" => m.node = f
                         /\ m.dir = "down" => m.node = t
  /\ \A m1, m2 \in Carrying : m1.kind = "user" /\ m2.kind = "user" /\ m1.num = m2.num => m1 = m2
  /\ \A m1, m2 \in Carrying : m1.kind = "allsent" /\ m2.kind = "allsent" => m1 = m2
  /\ \A m \in Carrying : m.kind = "allsent" =>
       node[t].total = -1 /\ m.num = node[t].processed + Cardinality(Due)
  /\ (\A m \in Carrying : m.kind # "allsent") =>
       node[t].total = node[t].processed + Cardinality(Due)

Resumed(t, s) ==
  /\ job.at \in {"gone", "there"}
  /\ \A k \in Nodes : (Open(k, s) <=> k = t) /\ s \notin conn[k].shards
  /\ \E m \in net : Carrying = {m} /\ m.kind = "start" /\ m.dir = "up" /\ m.node = t /\ m.shards = {s}

SettledIn(t, s) == Keeps(t, s) /\ Carrying = {}

Moves(f, t, s) ==
  \/ Lost(f, s)
  \/ /\ conn[f].other = t /\ conn[t].other = f
     /\ \/ Asked(f, s) \/ GivenUp(f, s) \/ Offered(t, s) \/ Ready(f, t, s)
        \/ Passing(f, t, s) \/ Resumed(t, s) \/ SettledIn(t, s)

ShardsInv ==
  /\ \A s \in Shards : (Moving => s # job.shard) => Kept(s)
  /\ Working => \A s \in job.moved : (Moving => s # job.shard) => Keeps(job.to, s)
  /\ Moving => Moves(job.from, job.to, job.shard)
  /\ ~Moving => Carrying = {}

FullInv == NodesInv /\ MessagesInv /\ JobInv /\ ShardsInv

Typed == FullTypeOK /\ JobTyped

\* What the handlers leave alone while shard s is moved from f to t.
Touches(f, t, s) ==
  /\ job' = job
  /\ \A n \in Nodes : /\ conn'[n].known = conn[n].known /\ conn'[n].up = conn[n].up
                      /\ node'[n].alive = node[n].alive /\ node'[n].link = node[n].link
  /\ \A k \in Nodes, x \in Shards :
       x # s \/ k \notin {f, t} => /\ Open(k, x)' <=> Open(k, x)
                                   /\ x \in conn'[k].shards <=> x \in conn[k].shards
  /\ \A k \in Nodes : k \notin {f, t} => node'[k].shards = node[k].shards
  /\ s \in conn'[f].shards => s \in conn[f].shards
  /\ \A q \in net : q.kind \in {"identify", "shutdown"} => q \in net'
  /\ \A q \in net' : q \in net \/ (q.kind \notin {"identify", "shutdown"} /\ q.node \in {f, t})

IsJob(f, t, s) ==
  /\ f = job.from /\ t = job.to /\ s = job.shard
  /\ f \in Nodes /\ t \in Nodes /\ f # t /\ s \in Shards
  /\ Moving /\ conn[t].known /\ t # NoNode

\* What was said holds as long as no connection was lost.
WhileConnected == drops = 0 => FullInv

FullIInv    == Typed /\ WhileConnected
===============================================================================
