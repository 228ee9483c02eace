---------------------------- MODULE ShardMigration ----------------------------
(***************************************************************************)
(* lib/dshardorchestrator: the protocol that starts, stops and migrates    *)
(* gateway shards between the processes (nodes) of the bot, with the       *)
(* orchestrator between them (orchestrator/nodeconn.go, orchestrator.go),  *)
(* the node side (node/node.go) and what the bot does for a node           *)
(* (bot/nodeimpl.go, the gateway of lib/discordgo).                        *)
(*                                                                         *)
(* Nearly every send of the code is `go SendLogErr(...)': two messages on  *)
(* the same connection may be written in either order, so the network is   *)
(* a set of messages.  The one order the code keeps is that SendGuilds has *)
(* written every user event before AllUserdataSent is sent.                *)
(*                                                                         *)
(* Every command of the orchestrator has a number, carried by the messages *)
(* it causes.  No handler reads it: it keeps the messages of different     *)
(* commands apart in the set, and the properties speak about it.           *)
(***************************************************************************)
EXTENDS Integers, FiniteSets

CONSTANTS
  Nodes,        \* the node processes
  Shards,       \* shard ids; 0 is the zero value of the code's int fields
  Placements,   \* where each shard may be running at the start
  Newcomers,    \* nodes that connect for the first time later
  SlowOpen,     \* control messages may arrive while a gateway is being opened
  BusyTargets,  \* a migration may be asked for towards a node that is migrating
  MaxOps,       \* bound: commands given to the orchestrator
  MaxEvents,    \* bound: user events of one migration
  MaxDrops      \* bound: connections lost

NoNode  == "none"
NoShard == -1

ASSUME ShardsAssumption ==
  /\ Shards \subseteq Nat /\ 0 \in Shards
  /\ NoNode \notin Nodes
  /\ Newcomers \subseteq Nodes
  /\ Placements \subseteq [Shards -> (Nodes \ Newcomers) \cup {NoNode}]
ASSUME BoundsAssumption == MaxOps \in Nat /\ MaxEvents \in Nat /\ MaxDrops \in Nat

VARIABLES
  conn,     \* per node: the orchestrator's NodeConn
  node,     \* per node: node.Conn
  gw,       \* per node and shard: the GatewayConnectionManager
  fresh,    \* per shard: sessions Discord has given out (fresh identifies)
  net,      \* messages written, or about to be, and not yet read
  sent,     \* per command: user events its origin sent, -1 before that
  doubled,  \* shards started although a node had them, unseen by the orchestrator
  crashed,  \* the orchestrator process has died of a fatal error
  ops, drops

vars == <<conn, node, gw, fresh, net, sent, doubled, crashed, ops, drops>>

Ops   == 1 .. MaxOps
Modes == {"none", "from", "to"}

\* NodeConn: known once identified, up while its socket is open.
Conn == [known : BOOLEAN, up : BOOLEAN, shards : SUBSET Shards, mode : Modes,
         other : Nodes \cup {NoNode}, shard : Shards \cup {NoShard}]

\* node.Conn; alive is the process, link is ~reconnecting.  op and own are the command that prepared
\* the node as a destination and how many of that command's user events it has
\* handled: the code keeps neither.
Node == [alive : BOOLEAN, link : BOOLEAN, shards : SUBSET Shards, mode : Modes,
         shard : Shards \cup {NoShard}, session : Nat, processed : Nat,
         total : Nat \cup {-1}, op : 0 .. MaxOps, own : Nat]

\* Session 0 is the empty session id: the next open identifies afresh.
Gateway == [st : {"closed", "opening", "open"}, session : Nat]

Start(dir, n, op, S) ==
  [kind |-> "start", dir |-> dir, node |-> n, op |-> op, shards |-> S]
Stop(dir, n, op, s) ==
  [kind |-> "stop", dir |-> dir, node |-> n, op |-> op, shard |-> s]
Prepare(dir, n, op, s, origin, session) ==
  [kind |-> "prepare", dir |-> dir, node |-> n, op |-> op, shard |-> s,
   origin |-> origin, session |-> session]
StartMigration(n, op, s) ==
  [kind |-> "transfer", dir |-> "down", node |-> n, op |-> op, shard |-> s]
AllSent(dir, n, op, k) ==
  [kind |-> "allsent", dir |-> dir, node |-> n, op |-> op, num |-> k]
Shutdown(n, op) == [kind |-> "shutdown", dir |-> "down", node |-> n, op |-> op]
UserEvt(dir, n, op, i) ==
  [kind |-> "user", dir |-> dir, node |-> n, op |-> op, num |-> i]
Identify(n, S) ==
  [kind |-> "identify", dir |-> "up", node |-> n, op |-> 0, shards |-> S]

Dirs == {"up", "down"}
Message ==
  [kind : {"start", "identify"}, dir : Dirs, node : Nodes, op : 0 .. MaxOps,
   shards : SUBSET Shards]
  \cup [kind : {"stop", "transfer"}, dir : Dirs, node : Nodes, op : Ops,
        shard : Shards]
  \cup [kind : {"shutdown"}, dir : {"down"}, node : Nodes, op : Ops]
  \cup [kind : {"prepare"}, dir : Dirs, node : Nodes, op : Ops,
        shard : Shards, origin : BOOLEAN, session : Nat]
  \cup [kind : {"allsent", "user"}, dir : Dirs, node : Nodes, op : Ops, num : Nat]

TypeOK ==
  /\ conn \in [Nodes -> Conn]
  /\ node \in [Nodes -> Node]
  /\ gw \in [Nodes -> [Shards -> Gateway]]
  /\ fresh \in [Shards -> Nat]
  /\ net \subseteq Message
  /\ sent \in [0 .. MaxOps -> Nat \cup {-1}]
  /\ doubled \subseteq Shards
  /\ crashed \in BOOLEAN
  /\ ops \in 0 .. MaxOps
  /\ drops \in 0 .. MaxDrops

NewConn(S) == [known |-> TRUE, up |-> TRUE, shards |-> S, mode |-> "none",
               other |-> NoNode, shard |-> 0]
NoConn     == [NewConn({}) EXCEPT !.known = FALSE, !.up = FALSE]

\* The int fields of a new node.Conn are 0, not -1.
Init ==
  /\ \E at \in Placements :
       /\ conn = [n \in Nodes |-> IF n \in Newcomers THEN NoConn
                                  ELSE NewConn({s \in Shards : at[s] = n})]
       /\ node = [n \in Nodes |->
            [alive |-> TRUE, link |-> n \notin Newcomers, shards |-> {s \in Shards : at[s] = n},
             mode |-> "none", shard |-> 0, session |-> 0, processed |-> 0,
             total |-> 0, op |-> 0, own |-> 0]]
       /\ gw = [n \in Nodes |-> [s \in Shards |->
            IF at[s] = n THEN [st |-> "open", session |-> 1]
                         ELSE [st |-> "closed", session |-> 0]]]
       /\ fresh = [s \in Shards |-> IF at[s] = NoNode THEN 0 ELSE 1]
  /\ net = {}
  /\ sent = [o \in 0 .. MaxOps |-> -1]
  /\ doubled = {}
  /\ crashed = FALSE
  /\ ops = 0 /\ drops = 0

-----------------------------------------------------------------------------
\* n's newest connection has been identified: what the orchestrator sends to n
\* reaches it and what n sends is handled by the NodeConn found by its id.
Reachable(n) ==
  node[n].link /\ ~\E m \in net : m.kind = "identify" /\ m.node = n

\* What is sent to another node is written to a socket that is gone.
Deliverable(M) == {m \in M : Reachable(m.node)}

\* The orchestrator does not know what n runs: it is not connected, or a new
\* connection of n has yet to identify.
Unseen(n) == ~conn[n].up \/ ~Reachable(n)

Open(n, s)    == gw[n][s].st # "closed"
Running(n, s) == conn[n].up /\ s \in conn[n].shards

-----------------------------------------------------------------------------
(* Commands (orchestrator.go).  A refused command changes nothing.         *)

\* A command about s has not yet been answered.
Pending(s) ==
  \/ \E m \in net : \/ m.kind = "start" /\ s \in m.shards
                    \/ m.kind \in {"stop", "prepare", "transfer"} /\ m.shard = s
  \/ \E n \in Nodes : node[n].mode = "to" /\ node[n].shard = s

\* The commands about one shard are given one after the other.
InTurn(S) == \A s \in S : ~Pending(s)

\* Somebody whom the orchestrator does not see runs s, or is about to.
Overlooked(s) ==
  \/ \E n \in Nodes : Unseen(n) /\ Open(n, s)
  \/ \E m \in net : m.kind = "start" /\ s \in m.shards

\* Given by the monitor, a start is not counted: op is 0.  Only the nodes that are
\* connected are asked for the shard; doubled, which only the properties read,
\* keeps what is overlooked so.
StartShards(n, S, op) ==
  /\ \A m \in Nodes, s \in S : ~Running(m, s)
  /\ conn[n].known
  /\ net' = net \cup Deliverable({Start("down", n, op, S)})
  /\ doubled' = doubled \cup {s \in S : Overlooked(s)}
  /\ UNCHANGED <<conn, node, gw, fresh, sent, crashed, drops>>

StopShard(s) ==
  /\ ops < MaxOps
  /\ ops' = ops + 1
  /\ net' = net \cup Deliverable({Stop("down", n, ops', s) :
                                    n \in {x \in Nodes : Running(x, s)}})
  /\ UNCHANGED <<conn, node, gw, fresh, sent, doubled, crashed, drops>>

\* The destination is not busy; `from' has just been marked as busy itself.
Idle(from, to) == from # to /\ conn[to].mode = "none"

StartShardMigration(from, to, s) ==
  /\ ops < MaxOps
  /\ Running(from, s)
  /\ conn[to].known
  /\ conn[from].mode = "none"
  /\ Idle(from, to)
  /\ ops' = ops + 1
  /\ conn' = [conn EXCEPT
       ![from] = [@ EXCEPT !.mode = "from", !.other = to, !.shard = s],
       ![to]   = [@ EXCEPT !.mode = "to", !.other = from, !.shard = s]]
  /\ net' = net \cup Deliverable({Prepare("down", from, ops', s, TRUE, 0)})
  /\ UNCHANGED <<node, gw, fresh, sent, doubled, crashed, drops>>

\* Every connection is gone, and with it what is in the orchestrator's memory.
LoseOrchestrator ==
  /\ conn' = [n \in Nodes |-> NoConn]
  /\ node' = [n \in Nodes |-> [node[n] EXCEPT !.link = FALSE]]
  /\ net' = {m \in net : m.dir = "up" /\ m.kind # "identify"}
  /\ UNCHANGED <<gw, fresh, sent, doubled>>

\* The destination is busy: its mutex is unlocked, the origin is rolled back,
\* and the mutex is unlocked a second time, which ends the process.
MigrateToBusy(from, to, s) ==
  /\ BusyTargets
  /\ ops < MaxOps
  /\ Running(from, s)
  /\ conn[to].known
  /\ conn[from].mode = "none"
  /\ ~Idle(from, to)
  /\ ops' = ops + 1
  /\ crashed' = TRUE
  /\ LoseOrchestrator
  /\ UNCHANGED drops

\* Used by the full migration of a node (FullMigration).
ShutdownNode(n) ==
  /\ conn[n].known
  /\ ops < MaxOps
  /\ ops' = ops + 1
  /\ net' = net \cup Deliverable({Shutdown(n, ops')})
  /\ UNCHANGED <<conn, node, gw, fresh, sent, doubled, crashed, drops>>

-----------------------------------------------------------------------------
(* The orchestrator handles a message of a node (nodeconn.go).             *)

Arrived(m, kind) == m.kind = kind /\ m.dir = "up" /\ Reachable(m.node)

\* Mutant: the shards known from the old connection are kept.
OldShards(m) == NewConn(conn[m.node].shards)

Identified(m) == NewConn(m.shards)

\* A new connection identifies: the NodeConn of the same id, if any, is
\* replaced, with what it knew of a migration.
HandleIdentify(m) ==
  /\ m.kind = "identify" /\ node[m.node].link
  /\ conn' = [conn EXCEPT ![m.node] = Identified(m)]
  /\ net' = net \ {m}
  /\ UNCHANGED <<node, gw, fresh, sent, doubled, crashed, ops, drops>>

HandleStarted(m) ==
  /\ Arrived(m, "start")
  /\ conn' = [conn EXCEPT ![m.node] =
       [conn[m.node] EXCEPT !.shards = @ \cup m.shards,
                            !.mode = IF conn[m.node].shard \in m.shards THEN "none" ELSE @]]
  /\ net' = net \ {m}
  /\ UNCHANGED <<node, gw, fresh, sent, doubled, crashed, ops, drops>>

HandleStopped(m) ==
  /\ Arrived(m, "stop")
  /\ conn' = [conn EXCEPT ![m.node].shards = @ \ {m.shard}]
  /\ net' = net \ {m}
  /\ UNCHANGED <<node, gw, fresh, sent, doubled, crashed, ops, drops>>

\* FindNodeByID of the other end of m's sender.
OtherKnown(n) == conn[n].other # NoNode /\ conn[conn[n].other].known
Forward(m, M) == net' = (net \ {m}) \cup
                        (IF OtherKnown(m.node) THEN Deliverable(M) ELSE {})

\* Mutant: the shard is left with the origin.
ShardKept(m) == conn

WithoutShard(m) == [conn EXCEPT ![m.node].shards = @ \ {m.shard}]

\* The origin has closed its gateway: tell the destination to prepare.
HandleOriginReady(m) ==
  /\ Arrived(m, "prepare") /\ m.origin
  /\ conn' = IF OtherKnown(m.node) THEN WithoutShard(m) ELSE conn
  /\ Forward(m, {Prepare("down", conn[m.node].other, m.op, m.shard, FALSE, m.session)})
  /\ UNCHANGED <<node, gw, fresh, sent, doubled, crashed, ops, drops>>

\* The destination is ready: tell the origin to send its state.
HandleDestReady(m) ==
  /\ Arrived(m, "prepare") /\ ~m.origin
  /\ Forward(m, {StartMigration(conn[m.node].other, m.op, m.shard)})
  /\ UNCHANGED <<conn, node, gw, fresh, sent, doubled, crashed, ops, drops>>

\* User events still to be read from the same connection come first.
InOrder(m) ==
  ~\E u \in net : u.kind = "user" /\ u.dir = "up" /\ u.node = m.node /\ u.op = m.op

HandleAllSent(m) ==
  /\ Arrived(m, "allsent") /\ InOrder(m)
  /\ conn' = [conn EXCEPT ![m.node].mode = "none"]
  /\ Forward(m, {AllSent("down", conn[m.node].other, m.op, m.num)})
  /\ UNCHANGED <<node, gw, fresh, sent, doubled, crashed, ops, drops>>

HandleUserEvt(m) ==
  /\ Arrived(m, "user")
  /\ Forward(m, {UserEvt("down", conn[m.node].other, m.op, m.num)})
  /\ UNCHANGED <<conn, node, gw, fresh, sent, doubled, crashed, ops, drops>>

OrchestratorStep(m) ==
  \/ HandleStarted(m) \/ HandleStopped(m)
  \/ HandleOriginReady(m) \/ HandleDestReady(m)
  \/ HandleAllSent(m) \/ HandleUserEvt(m)

-----------------------------------------------------------------------------
(* The gateway of one shard in one node (lib/discordgo/gateway.go).        *)

\* Open: an identify with session 0, a resume with another.
Opened(session) == [st |-> "opening", session |-> session]

\* Mutant: the connection is left open.
LeftOpen(g) == g

\* Close has nothing to close until Open has put its connection in place.
Closed(g) == IF g.st = "open" THEN [g EXCEPT !.st = "closed"] ELSE g

GatewayOpens(n, s) ==
  /\ gw[n][s].st = "opening"
  /\ LET new == gw[n][s].session = 0
     IN  /\ fresh' = IF new THEN [fresh EXCEPT ![s] = @ + 1] ELSE fresh
         /\ gw' = [gw EXCEPT ![n][s] =
              [st |-> "open", session |-> IF new THEN fresh'[s] ELSE @.session]]
  /\ UNCHANGED <<conn, node, net, sent, doubled, crashed, ops, drops>>

-----------------------------------------------------------------------------
(* A node handles a message of the orchestrator (node/node.go).            *)

Received(m, kind) ==
  /\ m.kind = kind /\ m.dir = "down"
  /\ node[m.node].link
  /\ SlowOpen \/ \A s \in Shards : gw[m.node][s].st # "opening"

StartsShards(m) ==
  /\ Received(m, "start")
  /\ gw' = [gw EXCEPT ![m.node] =
       [s \in Shards |-> IF s \in m.shards THEN Opened(0) ELSE @[s]]]
  /\ node' = [node EXCEPT ![m.node].shards = @ \cup m.shards]
  /\ net' = (net \ {m}) \cup {Start("up", m.node, m.op, m.shards)}
  /\ UNCHANGED <<conn, fresh, sent, doubled, crashed, ops, drops>>

StopsShard(m) ==
  /\ Received(m, "stop")
  /\ gw' = [gw EXCEPT ![m.node][m.shard] = Closed(@)]
  /\ node' = [node EXCEPT ![m.node].shards = @ \ {m.shard}]
  /\ net' = (net \ {m}) \cup {Stop("up", m.node, m.op, m.shard)}
  /\ UNCHANGED <<conn, fresh, sent, doubled, crashed, ops, drops>>

\* The origin closes the gateway and gives its session away.
PreparesOrigin(m) ==
  /\ Received(m, "prepare") /\ m.origin
  /\ gw' = [gw EXCEPT ![m.node][m.shard] = Closed(@)]
  /\ node' = [node EXCEPT ![m.node] =
       [node[m.node] EXCEPT !.mode = "from", !.shard = m.shard,
                            !.shards = @ \ {m.shard}]]
  /\ net' = (net \ {m}) \cup {Prepare("up", m.node, m.op, m.shard, TRUE,
                                      gw[m.node][m.shard].session)}
  /\ UNCHANGED <<conn, fresh, sent, doubled, crashed, ops, drops>>

\* Mutants: the count of handled events is not reset, or starts below 0; the
\* session is not stored.
CountKept(m) ==
  [node[m.node] EXCEPT !.mode = "to", !.shard = m.shard, !.session = m.session,
                       !.total = -1, !.shards = @ \cup {m.shard},
                       !.op = m.op, !.own = 0]
CountBelow(m) ==
  [CountKept(m) EXCEPT !.processed = -1]
SessionDropped(m) ==
  [CountKept(m) EXCEPT !.processed = 0, !.session = 0]

Prepared(m) ==
  [node[m.node] EXCEPT !.mode = "to", !.shard = m.shard, !.session = m.session,
                       !.processed = 0, !.total = -1, !.shards = @ \cup {m.shard},
                       !.op = m.op, !.own = 0]

\* The destination counts the shard as its own from here on.
PreparesDest(m) ==
  /\ Received(m, "prepare") /\ ~m.origin
  /\ node' = [node EXCEPT ![m.node] = Prepared(m)]
  /\ net' = (net \ {m}) \cup {Prepare("up", m.node, m.op, m.shard, FALSE, m.session)}
  /\ UNCHANGED <<conn, gw, fresh, sent, doubled, crashed, ops, drops>>

\* StartShardTransferFrom sends the state of the shard and counts what it sent.
TransfersFrom(m) ==
  /\ Received(m, "transfer")
  /\ \E k \in 0 .. MaxEvents :
       /\ sent' = [sent EXCEPT ![m.op] = k]
       /\ net' = (net \ {m}) \cup {AllSent("up", m.node, m.op, k)}
                   \cup {UserEvt("up", m.node, m.op, i) : i \in 1 .. k}
  /\ UNCHANGED <<conn, node, gw, fresh, doubled, crashed, ops, drops>>

\* finishShardMigrationTo: resume the session, acknowledge, forget.  The shard
\* after one is -1, and resuming that ends the process.
Forgotten(nd) == [nd EXCEPT !.mode = "none", !.shard = NoShard, !.total = -1,
                            !.session = 0]
Finish(n, nd, m) ==
  /\ nd.shard # NoShard
  /\ gw' = [gw EXCEPT ![n][nd.shard] = Opened(nd.session)]
  /\ node' = [node EXCEPT ![n] = Forgotten(nd)]
  /\ net' = (net \ {m}) \cup {Start("up", n, nd.op, {nd.shard})}

Kill(n) ==
  /\ gw' = [gw EXCEPT ![n] = [s \in Shards |-> [st |-> "closed", session |-> 0]]]
  /\ node' = [node EXCEPT ![n] = [@ EXCEPT !.alive = FALSE, !.link = FALSE]]
  /\ net' = {m \in net : m.node # n}

\* What is common to the two ways in which the last event can be noticed.
Noticed(m, nd, done) ==
  /\ CASE ~done -> /\ node' = [node EXCEPT ![m.node] = nd]
                   /\ net' = net \ {m}
                   /\ UNCHANGED gw
       [] done /\ nd.shard # NoShard -> Finish(m.node, nd, m)
       [] done /\ nd.shard = NoShard -> Kill(m.node)
  /\ UNCHANGED <<conn, fresh, sent, doubled, crashed, ops, drops>>

\* Mutants: off by one, either way.
OneMissing(nd) == nd.total > -1 /\ nd.processed + 1 >= nd.total
OneTooMany(nd) == nd.total > -1 /\ nd.processed > nd.total

EnoughHandled(nd) == nd.total > -1 /\ nd.processed >= nd.total

LearnsTotal(m) ==
  /\ Received(m, "allsent")
  /\ LET nd == [node[m.node] EXCEPT !.total = m.num]
     IN  Noticed(m, nd, EnoughHandled(nd))

HandlesUserEvt(m) ==
  /\ Received(m, "user")
  /\ LET nd == [node[m.node] EXCEPT !.processed = @ + 1,
                                    !.own = IF m.op = node[m.node].op THEN @ + 1 ELSE @]
     IN  Noticed(m, nd, EnoughHandled(nd))

\* The bot is stopped and its process exits.
ShutsDown(m) ==
  /\ Received(m, "shutdown")
  /\ Kill(m.node)
  /\ UNCHANGED <<conn, fresh, sent, doubled, crashed, ops, drops>>

NodeStep(m) ==
  \/ StartsShards(m) \/ StopsShard(m) \/ PreparesOrigin(m) \/ PreparesDest(m)
  \/ TransfersFrom(m) \/ LearnsTotal(m) \/ HandlesUserEvt(m) \/ ShutsDown(m)

-----------------------------------------------------------------------------
(* Connections and processes fail.                                         *)

\* n loses its connection; what was written to it and not read is lost.  What
\* n is about to send may still be sent over its next connection.
Drop(n) ==
  /\ drops < MaxDrops
  /\ node[n].link
  /\ drops' = drops + 1
  /\ node' = [node EXCEPT ![n].link = FALSE]
  /\ net' = {m \in net : m.node = n => m.dir = "up" /\ m.kind # "identify"}
  /\ UNCHANGED <<conn, gw, fresh, sent, doubled, crashed, ops>>

\* ConnClosedHandler of the NodeConn.
NoticeDrop(n) ==
  /\ conn[n].up /\ ~node[n].link
  /\ conn' = [conn EXCEPT ![n].up = FALSE]
  /\ UNCHANGED <<node, gw, fresh, net, sent, doubled, crashed, ops, drops>>

\* connect: identify with the shards the node believes it has.
Reconnect(n) ==
  /\ node[n].alive /\ ~node[n].link
  /\ node' = [node EXCEPT ![n].link = TRUE]
  /\ net' = net \cup {Identify(n, node[n].shards)}
  /\ UNCHANGED <<conn, gw, fresh, sent, doubled, crashed, ops, drops>>

\* A message that was on the wire when the connection was lost, that the node
\* puts into its sendQueue while it reconnects (nothing ever empties it), or that
\* reaches a NodeConn before its Identify, which overwrites what it did.
Lose(m) ==
  /\ m.dir = "up" /\ m.kind # "identify" /\ ~Reachable(m.node)
  /\ net' = net \ {m}
  /\ UNCHANGED <<conn, node, gw, fresh, sent, doubled, crashed, ops, drops>>

\* The process of a node ends; its id is not used again.
Die(n) ==
  /\ drops < MaxDrops
  /\ node[n].alive
  /\ drops' = drops + 1
  /\ Kill(n)
  /\ UNCHANGED <<conn, fresh, sent, doubled, crashed, ops>>

\* The orchestrator is restarted.
Restart ==
  /\ drops < MaxDrops
  /\ drops' = drops + 1
  /\ LoseOrchestrator
  /\ UNCHANGED <<crashed, ops>>

Command ==
  \/ /\ ops < MaxOps /\ ops' = ops + 1
     /\ \E n \in Nodes, S \in (SUBSET Shards) \ {{}} :
          InTurn(S) /\ StartShards(n, S, ops')
  \/ \E s \in Shards : InTurn({s}) /\ StopShard(s)
  \/ \E from, to \in Nodes, s \in Shards :
       /\ InTurn({s})
       /\ StartShardMigration(from, to, s) \/ MigrateToBusy(from, to, s)

Failure ==
  \/ \E n \in Nodes : Drop(n) \/ Die(n)
  \/ Restart
  \/ \E m \in net : Lose(m)

Recovery == \E n \in Nodes : NoticeDrop(n) \/ Reconnect(n)

Step ==
  \/ \E m \in net : HandleIdentify(m) \/ OrchestratorStep(m) \/ NodeStep(m)
  \/ \E n \in Nodes, s \in Shards : GatewayOpens(n, s)

Next == Command \/ Step \/ Recovery \/ Failure

Spec == Init /\ [][Next]_vars

\* Every message is read and handled, and every gateway that is opening opens.
FairSpec == Spec /\ WF_vars(Step) /\ WF_vars(Recovery)

-----------------------------------------------------------------------------
(* Properties.                                                             *)

(* No shard has, or is opening, a gateway connection in two nodes: Discord
   would deliver its events to both and every command would run twice.
   Excused is a start given while a node that is not connected still runs the
   shard, or while another start of it is on its way: StartShards asks only the
   connected nodes, and only for what they have answered.  Migrations, lost
   connections and restarts by themselves do not open one twice.            *)
OneGatewayPerShard ==
  \A s \in Shards \ doubled, m, n \in Nodes : Open(m, s) /\ Open(n, s) => m = n

Finishes(n) == node[n].shard # NoShard /\ node'[n].shard = NoShard

(* A destination resumes a shard only when it has handled every user event
   the origin sent for it, in whatever order they and their total arrived.  *)
ResumesWithAllState ==
  [][\A n \in Nodes : Finishes(n) => node'[n].own = sent[node[n].op]]_vars

(* A destination resumes the newest session of the shard, the one its events
   have been missing from since the origin closed it.                       *)
ResumesNewestSession ==
  [][\A n \in Nodes : Finishes(n) =>
       LET s == node[n].shard
       IN  fresh[s] > 0 /\ gw'[n][s].session = fresh[s]]_vars

Settled == net = {} /\ \A n \in Nodes, s \in Shards : gw[n][s].st # "opening"

(* When nothing is on its way, the orchestrator, each node and the gateways
   agree on which shards run where, and no node is busy.                    *)
ViewsAgree ==
  Settled => \A n \in Nodes :
    /\ conn[n].shards = node[n].shards
    /\ node[n].shards = {s \in Shards : Open(n, s)}
    /\ conn[n].mode = "none"

(* After any loss of connections, once nothing is on its way, no connected
   node runs a shard that the orchestrator does not see running there: it
   would start it a second time.                                            *)
RunningIsKnown ==
  Settled => \A n \in Nodes, s \in Shards :
    conn[n].up /\ node[n].link /\ Open(n, s) => s \in conn[n].shards

(* A migration that was started ends, and both nodes may migrate again.     *)
MigrationEnds ==
  \A n \in Nodes : conn[n].mode # "none" ~> conn[n].mode = "none"

(* The orchestrator survives its commands: a migration towards a busy node is
   refused and rolled back.                                                 *)
StaysUp == ~crashed

-----------------------------------------------------------------------------
(* What all this is for: ShardOwnership, with the gateways as the holders.  *)
Ownership == INSTANCE ShardOwnership WITH
  holders  <- [s \in Shards |-> {n \in Nodes : Open(n, s)}],
  sessions <- fresh

OwnsShards == Ownership!Spec
=============================================================================
