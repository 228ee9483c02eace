------------------------- MODULE ShardMigrationProofs -------------------------
(***************************************************************************)
(* Theorems about ShardMigration, ShardMonitor and FullMigration, for      *)
(* every set of nodes and of shards and every value of their bounds and    *)
(* switches.  In this order: types; one gateway for each shard as long as  *)
(* nothing fails; that this implements ShardOwnership; the session and the *)
(* state that a migration hands on; that nothing is left undone when       *)
(* nothing is on its way; what holds after one command whatever fails;     *)
(* what the monitor puts on a node; and what a full migration leaves       *)
(* behind.                                                                 *)
(***************************************************************************)
EXTENDS ShardMigrationInvariants, FiniteSetTheorems, TLAPS

\* What the handlers may read of a message.
LEMMA Fields ==
  ASSUME NEW m \in Message
  PROVE  /\ m.node \in Nodes /\ m.op \in 0 .. MaxOps /\ m.dir \in Dirs
         /\ m.kind \in {"start", "identify"} => m.shards \in SUBSET Shards
         /\ m.kind \in {"stop", "transfer", "prepare"} => m.op \in Ops /\ m.shard \in Shards
         /\ m.kind = "prepare" => m.origin \in BOOLEAN /\ m.session \in Nat
         /\ m.kind \in {"allsent", "user", "shutdown"} => m.op \in Ops
         /\ m.kind \in {"allsent", "user"} => m.num \in Nat
BY BoundsAssumption DEF Message, Ops, Dirs

\* What is written is a message.
LEMMA Written ==
  \A dir \in Dirs, n \in Nodes, k \in Nat, o \in 0 .. MaxOps :
    /\ \A S \in SUBSET Shards : Start(dir, n, o, S) \in Message /\ Identify(n, S) \in Message
    /\ o \in Ops =>
         /\ \A s \in Shards :
              /\ Stop(dir, n, o, s) \in Message
              /\ StartMigration(n, o, s) \in Message
              /\ \A origin \in BOOLEAN : Prepare(dir, n, o, s, origin, k) \in Message
         /\ AllSent(dir, n, o, k) \in Message
         /\ UserEvt(dir, n, o, k) \in Message
         /\ Shutdown(n, o) \in Message
<1> SUFFICES ASSUME NEW dir \in Dirs, NEW n \in Nodes, NEW k \in Nat, NEW o \in 0 .. MaxOps
             PROVE  /\ \A S \in SUBSET Shards :
                         Start(dir, n, o, S) \in Message /\ Identify(n, S) \in Message
                    /\ o \in Ops =>
                         /\ \A s \in Shards :
                              /\ Stop(dir, n, o, s) \in Message
                              /\ StartMigration(n, o, s) \in Message
                              /\ \A origin \in BOOLEAN :
                                   Prepare(dir, n, o, s, origin, k) \in Message
                         /\ AllSent(dir, n, o, k) \in Message
                         /\ UserEvt(dir, n, o, k) \in Message
                         /\ Shutdown(n, o) \in Message
  OBVIOUS
<1> USE DEF Message, Dirs
<1>1. \A S \in SUBSET Shards : Start(dir, n, o, S) \in Message
  BY DEF Start
<1>2. \A S \in SUBSET Shards : Identify(n, S) \in Message
  BY BoundsAssumption DEF Identify
<1>3. ASSUME o \in Ops PROVE \A s \in Shards : Stop(dir, n, o, s) \in Message
  BY <1>3 DEF Stop
<1>4. ASSUME o \in Ops PROVE \A s \in Shards : StartMigration(n, o, s) \in Message
  BY <1>4 DEF StartMigration
<1>5. ASSUME o \in Ops
      PROVE  \A s \in Shards, origin \in BOOLEAN : Prepare(dir, n, o, s, origin, k) \in Message
  BY <1>5 DEF Prepare
<1>6. ASSUME o \in Ops PROVE AllSent(dir, n, o, k) \in Message
  BY <1>6 DEF AllSent
<1>7. ASSUME o \in Ops PROVE UserEvt(dir, n, o, k) \in Message
  BY <1>7 DEF UserEvt
<1>8. ASSUME o \in Ops PROVE Shutdown(n, o) \in Message
  BY <1>8 DEF Shutdown
<1> QED
  BY <1>1, <1>2, <1>3, <1>4, <1>5, <1>6, <1>7, <1>8

-----------------------------------------------------------------------------
\* The records of one node.
LEMMA ConnTypes ==
  ASSUME NEW S \in SUBSET Shards, NEW c \in Conn, NEW s \in Shards,
         NEW mode \in Modes, NEW n \in Nodes \cup {NoNode}, NEW b \in BOOLEAN
  PROVE  /\ NewConn(S) \in Conn
         /\ NoConn \in Conn
         /\ [c EXCEPT !.shards = @ \ {s}] \in Conn
         /\ [c EXCEPT !.shards = @ \cup S, !.mode = mode] \in Conn
         /\ [c EXCEPT !.mode = mode, !.other = n, !.shard = s] \in Conn
         /\ [c EXCEPT !.mode = mode] \in Conn
         /\ [c EXCEPT !.up = b] \in Conn
BY ZenonT(60), ShardsAssumption DEF Conn, NewConn, NoConn, Modes

LEMMA NodeTypes ==
  ASSUME NEW S \in SUBSET Shards, NEW nd \in Node, NEW s \in Shards,
         NEW k \in Nat, NEW o \in 0 .. MaxOps, NEW b \in BOOLEAN
  PROVE  /\ [nd EXCEPT !.shards = @ \cup S] \in Node
         /\ [nd EXCEPT !.shards = @ \ {s}] \in Node
         /\ [nd EXCEPT !.mode = "from", !.shard = s, !.shards = @ \ {s}] \in Node
         /\ [nd EXCEPT !.mode = "to", !.shard = s, !.session = k, !.processed = 0,
                       !.total = -1, !.shards = @ \cup {s}, !.op = o, !.own = 0] \in Node
         /\ [nd EXCEPT !.total = k] \in Node
         /\ [nd EXCEPT !.processed = @ + 1, !.own = IF b THEN @ + 1 ELSE @] \in Node
         /\ [nd EXCEPT !.link = b] \in Node
         /\ [nd EXCEPT !.alive = FALSE, !.link = FALSE] \in Node
         /\ Forgotten(nd) \in Node
<1> USE DEF Node, Modes
<1>1. [nd EXCEPT !.shards = @ \cup S] \in Node /\ [nd EXCEPT !.shards = @ \ {s}] \in Node
  OBVIOUS
<1>2. [nd EXCEPT !.mode = "from", !.shard = s, !.shards = @ \ {s}] \in Node
  OBVIOUS
<1>3. [nd EXCEPT !.mode = "to", !.shard = s, !.session = k, !.processed = 0,
                !.total = -1, !.shards = @ \cup {s}, !.op = o, !.own = 0] \in Node
  OBVIOUS
<1>4. [nd EXCEPT !.total = k] \in Node
  OBVIOUS
<1>5. [nd EXCEPT !.processed = @ + 1, !.own = IF b THEN @ + 1 ELSE @] \in Node
  <2>1. nd.processed + 1 \in Nat /\ nd.own \in Nat /\ nd.own + 1 \in Nat
    OBVIOUS
  <2>2. \A own \in Nat : [nd EXCEPT !.processed = @ + 1, !.own = own] \in Node
    BY <2>1
  <2> QED
    BY <2>1, <2>2
<1>6. [nd EXCEPT !.link = b] \in Node /\ [nd EXCEPT !.alive = FALSE, !.link = FALSE] \in Node
  OBVIOUS
<1>7. Forgotten(nd) \in Node
  BY DEF Forgotten
<1> QED
  BY <1>1, <1>2, <1>3, <1>4, <1>5, <1>6, <1>7

LEMMA GatewayTypes ==
  ASSUME NEW g \in Gateway, NEW k \in Nat
  PROVE  /\ Opened(k) \in Gateway
         /\ Closed(g) \in Gateway
         /\ [st |-> "open", session |-> k] \in Gateway
         /\ [st |-> "closed", session |-> k] \in Gateway
BY DEF Gateway, Opened, Closed

\* What one step may write into each variable.
LEMMA Updates ==
  ASSUME TypeOK, NEW n \in Nodes, NEW M \in SUBSET Message, NEW N \in SUBSET net
  PROVE  /\ conn[n] \in Conn /\ node[n] \in Node
         /\ \A s \in Shards : gw[n][s] \in Gateway
         /\ \A c \in Conn : [conn EXCEPT ![n] = c] \in [Nodes -> Conn]
         /\ \A nd \in Node : [node EXCEPT ![n] = nd] \in [Nodes -> Node]
         /\ \A f \in [Shards -> Gateway] :
              [gw EXCEPT ![n] = f] \in [Nodes -> [Shards -> Gateway]]
         /\ \A s \in Shards, g \in Gateway :
              [gw EXCEPT ![n][s] = g] \in [Nodes -> [Shards -> Gateway]]
         /\ N \subseteq Message
         /\ N \cup M \subseteq Message
         /\ N \cup Deliverable(M) \subseteq Message
<1> USE DEF TypeOK
<1>1. conn[n] \in Conn /\ node[n] \in Node /\ \A s \in Shards : gw[n][s] \in Gateway
  OBVIOUS
<1>2. \A c \in Conn : [conn EXCEPT ![n] = c] \in [Nodes -> Conn]
  OBVIOUS
<1>3. \A nd \in Node : [node EXCEPT ![n] = nd] \in [Nodes -> Node]
  OBVIOUS
<1>4. \A f \in [Shards -> Gateway] :
        [gw EXCEPT ![n] = f] \in [Nodes -> [Shards -> Gateway]]
  OBVIOUS
<1>5. \A s \in Shards, g \in Gateway :
        [gw EXCEPT ![n][s] = g] \in [Nodes -> [Shards -> Gateway]]
  OBVIOUS
<1>6. N \subseteq Message /\ N \cup M \subseteq Message /\ N \cup Deliverable(M) \subseteq Message
  BY DEF Deliverable
<1> QED
  BY <1>1, <1>2, <1>3, <1>4, <1>5, <1>6

-----------------------------------------------------------------------------
LEMMA InitTyping == Init => TypeOK
<1> SUFFICES ASSUME Init PROVE TypeOK
  OBVIOUS
<1> USE ShardsAssumption, BoundsAssumption
<1> PICK at \in Placements :
      /\ conn = [n \in Nodes |-> IF n \in Newcomers THEN NoConn
                                 ELSE NewConn({s \in Shards : at[s] = n})]
      /\ node = [n \in Nodes |->
           [alive |-> TRUE, link |-> n \notin Newcomers,
            shards |-> {s \in Shards : at[s] = n},
            mode |-> "none", shard |-> 0, session |-> 0, processed |-> 0,
            total |-> 0, op |-> 0, own |-> 0]]
      /\ gw = [n \in Nodes |-> [s \in Shards |->
           IF at[s] = n THEN [st |-> "open", session |-> 1]
                        ELSE [st |-> "closed", session |-> 0]]]
      /\ fresh = [s \in Shards |-> IF at[s] = NoNode THEN 0 ELSE 1]
  BY DEF Init
<1>1. conn \in [Nodes -> Conn]
  <2>1. \A n \in Nodes : NewConn({s \in Shards : at[s] = n}) \in Conn
    BY DEF NewConn, Conn, Modes
  <2>2. NoConn \in Conn
    BY DEF NoConn, NewConn, Conn, Modes
  <2> QED
    BY <2>1, <2>2
<1>2. node \in [Nodes -> Node]
  BY DEF Node, Modes
<1>3. gw \in [Nodes -> [Shards -> Gateway]]
  BY DEF Gateway
<1>4. fresh \in [Shards -> Nat]
  OBVIOUS
<1>5. /\ net \subseteq Message
      /\ sent \in [0 .. MaxOps -> Nat \cup {-1}] /\ crashed \in BOOLEAN /\ doubled \subseteq Shards
      /\ ops \in 0 .. MaxOps /\ drops \in 0 .. MaxDrops
  <2>1. /\ net = {} /\ sent = [o \in 0 .. MaxOps |-> -1]
        /\ crashed = FALSE /\ doubled = {} /\ ops = 0 /\ drops = 0
    BY Zenon DEF Init
  <2>3. sent \in [0 .. MaxOps -> Nat \cup {-1}]
    BY <2>1
  <2>4. ops \in 0 .. MaxOps /\ drops \in 0 .. MaxDrops
    BY <2>1
  <2> QED
    BY <2>1, <2>3, <2>4, Zenon
<1> QED
  BY <1>1, <1>2, <1>3, <1>4, <1>5 DEF TypeOK

\* The commands.
LEMMA StartShardsTyping ==
  ASSUME TypeOK, NEW n \in Nodes, NEW S \in SUBSET Shards, NEW op \in 0 .. MaxOps,
         ops' \in 0 .. MaxOps, StartShards(n, S, op)
  PROVE  TypeOK'
<1>1. {Start("down", n, op, S)} \subseteq Message
  BY Written, "down" \in Dirs, 0 \in Nat DEF Dirs
<1>2. net' \subseteq Message
  BY <1>1 DEF StartShards, TypeOK, Deliverable
<1> QED
  BY <1>2 DEF StartShards, TypeOK

LEMMA StopShardTyping ==
  ASSUME TypeOK, NEW s \in Shards, StopShard(s)
  PROVE  TypeOK'
<1>1. ops' \in Ops /\ ops' \in 0 .. MaxOps
  BY BoundsAssumption DEF StopShard, TypeOK, Ops
<1>2. \A n \in Nodes : Stop("down", n, ops', s) \in Message
  BY <1>1, Written, "down" \in Dirs, 0 \in Nat DEF Dirs
<1>3. net' \subseteq Message
  BY <1>2 DEF StopShard, TypeOK, Deliverable
<1> QED
  BY <1>1, <1>3 DEF StopShard, TypeOK

LEMMA MigrationTyping ==
  ASSUME TypeOK, NEW from \in Nodes, NEW to \in Nodes, NEW s \in Shards,
         StartShardMigration(from, to, s)
  PROVE  TypeOK'
<1>1. ops' \in Ops /\ ops' \in 0 .. MaxOps
  BY BoundsAssumption DEF StartShardMigration, TypeOK, Ops
<1>2. Prepare("down", from, ops', s, TRUE, 0) \in Message
  BY <1>1, Written, "down" \in Dirs, 0 \in Nat DEF Dirs
<1>3. net' \subseteq Message
  BY <1>2 DEF StartShardMigration, TypeOK, Deliverable
<1>4. conn' \in [Nodes -> Conn]
  <2>1. from # to
    BY SMTT(30) DEF StartShardMigration, Idle
  <2>2. /\ [conn[from] EXCEPT !.mode = "from", !.other = to, !.shard = s] \in Conn
        /\ [conn[to] EXCEPT !.mode = "to", !.other = from, !.shard = s] \in Conn
    BY Updates, ConnTypes DEF Modes
  <2> QED
    BY <2>1, <2>2 DEF StartShardMigration, TypeOK
<1> QED
  BY <1>1, <1>3, <1>4 DEF StartShardMigration, TypeOK

LEMMA LoseOrchestratorTyping ==
  ASSUME TypeOK, LoseOrchestrator
  PROVE  /\ conn' \in [Nodes -> Conn] /\ node' \in [Nodes -> Node] /\ net' \subseteq Message
         /\ gw' = gw /\ fresh' = fresh /\ sent' = sent /\ doubled' = doubled
<1>1. NoConn \in Conn
  BY ShardsAssumption DEF NoConn, NewConn, Conn, Modes
<1>2. ASSUME NEW n \in Nodes PROVE [node[n] EXCEPT !.link = FALSE] \in Node
  <2>1. node[n] \in Node
    BY DEF TypeOK
  <2> QED
    BY <2>1 DEF Node
<1> QED
  BY <1>1, <1>2 DEF LoseOrchestrator, TypeOK

LEMMA BusyTyping ==
  ASSUME TypeOK, NEW from \in Nodes, NEW to \in Nodes, NEW s \in Shards,
         MigrateToBusy(from, to, s)
  PROVE  TypeOK'
<1>1. ops' \in 0 .. MaxOps
  BY BoundsAssumption DEF MigrateToBusy, TypeOK
<1>2. LoseOrchestrator /\ crashed' = TRUE /\ drops' = drops
  BY DEF MigrateToBusy
<1> QED
  BY <1>1, <1>2, LoseOrchestratorTyping DEF TypeOK

-----------------------------------------------------------------------------
\* The orchestrator's handlers.
LEMMA OrchestratorTyping ==
  ASSUME TypeOK, NEW m \in net, HandleIdentify(m) \/ OrchestratorStep(m)
  PROVE  TypeOK'
<1> DEFINE n == m.node
<1>0. m \in Message /\ n \in Nodes
  <2>1. m \in Message
    BY DEF TypeOK
  <2> QED
    BY <2>1, Fields
<1>a. UNCHANGED <<node, gw, fresh, sent, doubled, crashed, ops, drops>>
  BY Zenon DEF HandleIdentify, OrchestratorStep, HandleStarted, HandleStopped,
         HandleOriginReady, HandleDestReady, HandleAllSent, HandleUserEvt
<1>1. SUFFICES conn' \in [Nodes -> Conn] /\ net' \subseteq Message
  BY <1>a, Zenon DEF TypeOK
<1>2. /\ conn[n] \in Conn /\ net \subseteq Message
      /\ \A c \in Conn : [conn EXCEPT ![n] = c] \in [Nodes -> Conn]
  BY <1>0 DEF TypeOK
<1>3. ASSUME HandleIdentify(m) PROVE conn' \in [Nodes -> Conn] /\ net' \subseteq Message
  <2>1. Identified(m) \in Conn
    <3>1. m.shards \in SUBSET Shards
      BY <1>0, <1>3, Fields DEF HandleIdentify
    <3> QED
      BY <3>1, ShardsAssumption DEF Identified, NewConn, Conn, Modes
  <2> QED
    BY <1>2, <1>3, <2>1 DEF HandleIdentify
<1>4. ASSUME HandleStarted(m) PROVE conn' \in [Nodes -> Conn] /\ net' \subseteq Message
  <2>1. m.shards \in SUBSET Shards
    BY <1>0, <1>4, Fields DEF HandleStarted, Arrived
  <2>2. (IF conn[n].shard \in m.shards THEN "none" ELSE conn[n].mode) \in Modes
    BY <1>2 DEF Conn, Modes
  <2>3. [conn[n] EXCEPT !.shards = @ \cup m.shards,
                        !.mode = IF conn[n].shard \in m.shards THEN "none" ELSE @] \in Conn
    BY <1>2, <2>1, <2>2 DEF Conn
  <2> QED
    BY <1>2, <1>4, <2>3 DEF HandleStarted
<1>5. ASSUME HandleStopped(m) PROVE conn' \in [Nodes -> Conn] /\ net' \subseteq Message
  <2>1. [conn[n] EXCEPT !.shards = @ \ {m.shard}] \in Conn
    BY <1>2 DEF Conn
  <2> QED
    BY <1>2, <1>5, <2>1 DEF HandleStopped
<1>6. ASSUME HandleOriginReady(m) PROVE conn' \in [Nodes -> Conn] /\ net' \subseteq Message
  <2>1. [conn[n] EXCEPT !.shards = @ \ {m.shard}] \in Conn
    BY <1>2 DEF Conn
  <2>2. conn' \in [Nodes -> Conn]
    BY <1>2, <1>6, <2>1 DEF HandleOriginReady, WithoutShard, TypeOK
  <2>3. OtherKnown(n) => Prepare("down", conn[n].other, m.op, m.shard, FALSE, m.session) \in Message
    <3>1. OtherKnown(n) => conn[n].other \in Nodes
      BY <1>2 DEF OtherKnown, Conn
    <3>2. m.op \in Ops /\ m.op \in 0 .. MaxOps /\ m.shard \in Shards /\ m.session \in Nat
      BY <1>0, <1>6, Fields DEF HandleOriginReady, Arrived
    <3> QED
      BY <3>1, <3>2, Written, "down" \in Dirs DEF Dirs
  <2>4. Forward(m, {Prepare("down", conn[n].other, m.op, m.shard, FALSE, m.session)})
    BY <1>6 DEF HandleOriginReady
  <2> QED
    BY <1>2, <2>2, <2>3, <2>4 DEF Forward, Deliverable
<1>7. ASSUME HandleDestReady(m) PROVE conn' \in [Nodes -> Conn] /\ net' \subseteq Message
  <2>1. OtherKnown(n) => StartMigration(conn[n].other, m.op, m.shard) \in Message
    <3>1. OtherKnown(n) => conn[n].other \in Nodes
      BY <1>2 DEF OtherKnown, Conn
    <3>2. m.op \in Ops /\ m.op \in 0 .. MaxOps /\ m.shard \in Shards
      BY <1>0, <1>7, Fields DEF HandleDestReady, Arrived
    <3> QED
      BY <3>1, <3>2, Written, "down" \in Dirs, 0 \in Nat DEF Dirs
  <2>2. Forward(m, {StartMigration(conn[n].other, m.op, m.shard)}) /\ conn' = conn
    BY <1>7 DEF HandleDestReady
  <2> QED
    BY <1>2, <2>1, <2>2 DEF Forward, Deliverable, TypeOK
<1>8. ASSUME HandleAllSent(m) PROVE conn' \in [Nodes -> Conn] /\ net' \subseteq Message
  <2>1. [conn[n] EXCEPT !.mode = "none"] \in Conn
    BY <1>2 DEF Conn, Modes
  <2>2. OtherKnown(n) => AllSent("down", conn[n].other, m.op, m.num) \in Message
    <3>1. OtherKnown(n) => conn[n].other \in Nodes
      BY <1>2 DEF OtherKnown, Conn
    <3>2. m.op \in Ops /\ m.op \in 0 .. MaxOps /\ m.num \in Nat
      BY <1>0, <1>8, Fields DEF HandleAllSent, Arrived
    <3> QED
      BY <3>1, <3>2, Written, "down" \in Dirs DEF Dirs
  <2> QED
    BY <1>2, <1>8, <2>1, <2>2 DEF HandleAllSent, Forward, Deliverable
<1>9. ASSUME HandleUserEvt(m) PROVE conn' \in [Nodes -> Conn] /\ net' \subseteq Message
  <2>1. OtherKnown(n) => UserEvt("down", conn[n].other, m.op, m.num) \in Message
    <3>1. OtherKnown(n) => conn[n].other \in Nodes
      BY <1>2 DEF OtherKnown, Conn
    <3>2. m.op \in Ops /\ m.op \in 0 .. MaxOps /\ m.num \in Nat
      BY <1>0, <1>9, Fields DEF HandleUserEvt, Arrived
    <3> QED
      BY <3>1, <3>2, Written, "down" \in Dirs DEF Dirs
  <2> QED
    BY <1>2, <1>9, <2>1 DEF HandleUserEvt, Forward, Deliverable, TypeOK
<1> QED
  BY <1>3, <1>4, <1>5, <1>6, <1>7, <1>8, <1>9 DEF OrchestratorStep

-----------------------------------------------------------------------------
\* The process of a node ends.
LEMMA KillTyping ==
  ASSUME TypeOK, NEW n \in Nodes, Kill(n)
  PROVE  gw' \in [Nodes -> [Shards -> Gateway]] /\ node' \in [Nodes -> Node] /\ net' \subseteq Message
<1>1. [s \in Shards |-> [st |-> "closed", session |-> 0]] \in [Shards -> Gateway]
  BY DEF Gateway
<1>2. [node[n] EXCEPT !.alive = FALSE, !.link = FALSE] \in Node
  <2>1. node[n] \in Node
    BY DEF TypeOK
  <2> QED
    BY <2>1 DEF Node
<1> QED
  BY <1>1, <1>2 DEF Kill, TypeOK

\* A destination has handled its last event.
LEMMA FinishTyping ==
  ASSUME TypeOK, NEW n \in Nodes, NEW nd \in Node, NEW m, Finish(n, nd, m)
  PROVE  gw' \in [Nodes -> [Shards -> Gateway]] /\ node' \in [Nodes -> Node] /\ net' \subseteq Message
<1>1. nd.shard \in Shards /\ nd.session \in Nat /\ nd.op \in 0 .. MaxOps
  BY DEF Finish, Node
<1>2. Opened(nd.session) \in Gateway
  BY <1>1 DEF Opened, Gateway
<1>3. Forgotten(nd) \in Node
  BY DEF Forgotten, Node, Modes
<1>4. Start("up", n, nd.op, {nd.shard}) \in Message
  BY <1>1, Written, "up" \in Dirs, 0 \in Nat DEF Dirs
<1>5. gw' \in [Nodes -> [Shards -> Gateway]]
  BY <1>1, <1>2 DEF Finish, TypeOK
<1>6. node' \in [Nodes -> Node]
  BY <1>3 DEF Finish, TypeOK
<1>7. net' \subseteq Message
  BY <1>4 DEF Finish, TypeOK
<1> QED
  BY <1>5, <1>6, <1>7

LEMMA NoticedTyping ==
  ASSUME TypeOK, NEW m \in net, m.node \in Nodes, NEW nd \in Node, NEW done \in BOOLEAN,
         Noticed(m, nd, done)
  PROVE  TypeOK'
<1>1. UNCHANGED <<conn, fresh, sent, doubled, crashed, ops, drops>>
  BY Zenon DEF Noticed
<1>2. SUFFICES /\ gw' \in [Nodes -> [Shards -> Gateway]] /\ node' \in [Nodes -> Node]
               /\ net' \subseteq Message
  BY <1>1, Zenon DEF TypeOK
<1>3. CASE ~done
  BY <1>3 DEF Noticed, TypeOK
<1>4. CASE done /\ nd.shard # NoShard
  <2>1. Finish(m.node, nd, m)
    BY <1>4, Zenon DEF Noticed
  <2> QED
    BY <2>1, FinishTyping
<1>5. CASE done /\ nd.shard = NoShard
  <2>1. Kill(m.node)
    BY <1>5, Zenon DEF Noticed
  <2> QED
    BY <2>1, KillTyping
<1> QED
  BY <1>3, <1>4, <1>5

\* A node's handlers.
LEMMA NodeTyping ==
  ASSUME TypeOK, NEW m \in net, NodeStep(m)
  PROVE  TypeOK'
<1>0. m \in Message /\ m.node \in Nodes /\ m.op \in 0 .. MaxOps
  <2>1. m \in Message
    BY DEF TypeOK
  <2> QED
    BY <2>1, Fields
<1>1. /\ node[m.node] \in Node /\ net \subseteq Message
      /\ gw[m.node] \in [Shards -> Gateway]
  BY <1>0 DEF TypeOK
<1>2. ASSUME StartsShards(m) PROVE TypeOK'
  <2>1. m.shards \in SUBSET Shards
    BY <1>0, <1>2, Fields DEF StartsShards, Received
  <2>2. Opened(0) \in Gateway
    BY DEF Opened, Gateway
  <2>3. [s \in Shards |-> IF s \in m.shards THEN Opened(0) ELSE gw[m.node][s]]
          \in [Shards -> Gateway]
    BY <1>1, <2>2
  <2>4. gw' \in [Nodes -> [Shards -> Gateway]]
    BY <1>2, <2>3 DEF StartsShards, TypeOK
  <2>5. [node[m.node] EXCEPT !.shards = @ \cup m.shards] \in Node
    BY <1>1, <2>1 DEF Node
  <2>6. node' \in [Nodes -> Node]
    BY <1>2, <2>5 DEF StartsShards, TypeOK
  <2>7. Start("up", m.node, m.op, m.shards) \in Message
    BY <1>0, <2>1, Written, "up" \in Dirs, 0 \in Nat DEF Dirs
  <2>8. net' \subseteq Message
    BY <1>1, <1>2, <2>7 DEF StartsShards
  <2> QED
    BY <1>2, <2>4, <2>6, <2>8, Zenon DEF StartsShards, TypeOK
<1>3. ASSUME StopsShard(m) PROVE TypeOK'
  <2>1. m.shard \in Shards /\ m.op \in Ops
    BY <1>0, <1>3, Fields DEF StopsShard, Received
  <2>2. Closed(gw[m.node][m.shard]) \in Gateway
    BY <1>1, <2>1 DEF Closed, Gateway
  <2>3. gw' \in [Nodes -> [Shards -> Gateway]]
    BY <1>3, <2>1, <2>2 DEF StopsShard, TypeOK
  <2>4. [node[m.node] EXCEPT !.shards = @ \ {m.shard}] \in Node
    BY <1>1 DEF Node
  <2>5. node' \in [Nodes -> Node]
    BY <1>3, <2>4 DEF StopsShard, TypeOK
  <2>6. Stop("up", m.node, m.op, m.shard) \in Message
    BY <1>0, <2>1, Written, "up" \in Dirs, 0 \in Nat DEF Dirs
  <2>7. net' \subseteq Message
    BY <1>1, <1>3, <2>6 DEF StopsShard
  <2> QED
    BY <1>3, <2>3, <2>5, <2>7, Zenon DEF StopsShard, TypeOK
<1>4. ASSUME PreparesOrigin(m) PROVE TypeOK'
  <2>1. m.shard \in Shards /\ m.op \in Ops
    BY <1>0, <1>4, Fields DEF PreparesOrigin, Received
  <2>2. Closed(gw[m.node][m.shard]) \in Gateway /\ gw[m.node][m.shard].session \in Nat
    BY <1>1, <2>1 DEF Closed, Gateway
  <2>3. gw' \in [Nodes -> [Shards -> Gateway]]
    BY <1>4, <2>1, <2>2 DEF PreparesOrigin, TypeOK
  <2>4. [node[m.node] EXCEPT !.mode = "from", !.shard = m.shard,
                             !.shards = @ \ {m.shard}] \in Node
    BY <1>1, <2>1 DEF Node, Modes
  <2>5. node' \in [Nodes -> Node]
    BY <1>4, <2>4 DEF PreparesOrigin, TypeOK
  <2>6. Prepare("up", m.node, m.op, m.shard, TRUE, gw[m.node][m.shard].session) \in Message
    BY <1>0, <2>1, <2>2, Written, "up" \in Dirs DEF Dirs
  <2>7. net' \subseteq Message
    BY <1>1, <1>4, <2>6 DEF PreparesOrigin
  <2> QED
    BY <1>4, <2>3, <2>5, <2>7, Zenon DEF PreparesOrigin, TypeOK
<1>5. ASSUME PreparesDest(m) PROVE TypeOK'
  <2>1. m.shard \in Shards /\ m.op \in Ops /\ m.session \in Nat
    BY <1>0, <1>5, Fields DEF PreparesDest, Received
  <2>2. Prepared(m) \in Node
    BY <1>0, <1>1, <2>1 DEF Prepared, Node, Modes
  <2>3. node' \in [Nodes -> Node]
    BY <1>5, <2>2 DEF PreparesDest, TypeOK
  <2>4. Prepare("up", m.node, m.op, m.shard, FALSE, m.session) \in Message
    BY <1>0, <2>1, Written, "up" \in Dirs DEF Dirs
  <2>5. net' \subseteq Message
    BY <1>1, <1>5, <2>4 DEF PreparesDest
  <2> QED
    BY <1>5, <2>3, <2>5, Zenon DEF PreparesDest, TypeOK
<1>6. ASSUME TransfersFrom(m) PROVE TypeOK'
  <2>1. m.op \in Ops
    BY <1>0, <1>6, Fields DEF TransfersFrom, Received
  <2> PICK k \in 0 .. MaxEvents :
        /\ sent' = [sent EXCEPT ![m.op] = k]
        /\ net' = (net \ {m}) \cup {AllSent("up", m.node, m.op, k)}
                    \cup {UserEvt("up", m.node, m.op, i) : i \in 1 .. k}
    BY <1>6 DEF TransfersFrom
  <2>2. k \in Nat
    BY BoundsAssumption
  <2>3. sent' \in [0 .. MaxOps -> Nat \cup {-1}]
    BY <2>2 DEF TypeOK
  <2>4. AllSent("up", m.node, m.op, k) \in Message
    BY <1>0, <2>1, <2>2, Written, "up" \in Dirs DEF Dirs
  <2>5. \A i \in 1 .. k : UserEvt("up", m.node, m.op, i) \in Message
    <3>1. \A i \in 1 .. k : i \in Nat
      BY <2>2
    <3> QED
      BY <3>1, <1>0, <2>1, Written, "up" \in Dirs DEF Dirs
  <2>6. net' \subseteq Message
    BY <1>1, <2>4, <2>5
  <2>7. UNCHANGED <<conn, node, gw, fresh, doubled, crashed, ops, drops>>
    BY <1>6, Zenon DEF TransfersFrom
  <2> QED
    BY <2>3, <2>6, <2>7, Zenon DEF TypeOK
<1>7. ASSUME LearnsTotal(m) PROVE TypeOK'
  <2> DEFINE nd == [node[m.node] EXCEPT !.total = m.num]
  <2>1. m.num \in Nat
    BY <1>0, <1>7, Fields DEF LearnsTotal, Received
  <2>2. nd \in Node
    BY <1>1, <2>1 DEF Node
  <2>3. Noticed(m, nd, EnoughHandled(nd)) /\ EnoughHandled(nd) \in BOOLEAN
    BY <1>7, Zenon DEF LearnsTotal, EnoughHandled
  <2> QED
    BY <1>0, <2>2, <2>3, NoticedTyping, Zenon
<1>8. ASSUME HandlesUserEvt(m) PROVE TypeOK'
  <2> DEFINE own == IF m.op = node[m.node].op THEN node[m.node].own + 1 ELSE node[m.node].own
             nd == [node[m.node] EXCEPT !.processed = @ + 1, !.own = own]
  <2>1. node[m.node].processed + 1 \in Nat /\ node[m.node].own \in Nat /\ own \in Nat
    BY <1>1 DEF Node
  <2>2. nd \in Node
    <3> HIDE DEF own
    <3> QED
      BY <1>1, <2>1 DEF Node
  <2>3. Noticed(m, nd, EnoughHandled(nd)) /\ EnoughHandled(nd) \in BOOLEAN
    BY <1>8, Zenon DEF HandlesUserEvt, EnoughHandled
  <2> QED
    BY <1>0, <2>2, <2>3, NoticedTyping, Zenon
<1>9. ASSUME ShutsDown(m) PROVE TypeOK'
  <2>1. Kill(m.node) /\ UNCHANGED <<conn, fresh, sent, doubled, crashed, ops, drops>>
    BY <1>9, Zenon DEF ShutsDown
  <2> QED
    BY <1>0, <2>1, KillTyping, Zenon DEF TypeOK
<1> QED
  BY <1>2, <1>3, <1>4, <1>5, <1>6, <1>7, <1>8, <1>9 DEF NodeStep

LEMMA GatewayTyping ==
  ASSUME TypeOK, NEW n \in Nodes, NEW s \in Shards, GatewayOpens(n, s)
  PROVE  TypeOK'
<1>1. /\ gw[n][s] \in Gateway /\ fresh[s] \in Nat /\ fresh[s] + 1 \in Nat
  BY DEF TypeOK
<1>2. fresh' \in [Shards -> Nat]
  BY <1>1 DEF GatewayOpens, TypeOK
<1>3. PICK k : /\ k \in {fresh'[s], gw[n][s].session}
               /\ gw' = [gw EXCEPT ![n][s] = [st |-> "open", session |-> k]]
  BY DEF GatewayOpens
<1>4. [st |-> "open", session |-> k] \in Gateway
  BY <1>1, <1>2, <1>3 DEF Gateway
<1>5. gw' \in [Nodes -> [Shards -> Gateway]]
  BY <1>3, <1>4 DEF TypeOK
<1> QED
  BY <1>2, <1>5, Zenon DEF GatewayOpens, TypeOK

-----------------------------------------------------------------------------
\* Failures and what follows them.
LEMMA FailureTyping ==
  ASSUME TypeOK, Failure
  PROVE  TypeOK'
<1>1. drops < MaxDrops => drops + 1 \in 0 .. MaxDrops
  BY BoundsAssumption DEF TypeOK
<1>2. ASSUME NEW n \in Nodes, Drop(n) PROVE TypeOK'
  <2>1. node[n] \in Node
    BY DEF TypeOK
  <2>2. [node[n] EXCEPT !.link = FALSE] \in Node
    BY <2>1 DEF Node
  <2>3. node' \in [Nodes -> Node]
    BY <1>2, <2>2 DEF Drop, TypeOK
  <2>4. net' \subseteq Message /\ drops' \in 0 .. MaxDrops
    BY <1>1, <1>2 DEF Drop, TypeOK
  <2> QED
    BY <1>2, <2>3, <2>4, Zenon DEF Drop, TypeOK
<1>3. ASSUME NEW n \in Nodes, Die(n) PROVE TypeOK'
  <2>1. Kill(n) /\ UNCHANGED <<conn, fresh, sent, doubled, crashed, ops>>
    BY <1>3, Zenon DEF Die
  <2>2. drops' \in 0 .. MaxDrops
    BY <1>1, <1>3 DEF Die
  <2> QED
    BY <2>1, <2>2, KillTyping, Zenon DEF TypeOK
<1>4. ASSUME Restart PROVE TypeOK'
  <2>1. drops' \in 0 .. MaxDrops
    BY <1>1, <1>4 DEF Restart
  <2>2. LoseOrchestrator /\ crashed' = crashed /\ ops' = ops
    BY <1>4, Zenon DEF Restart
  <2> QED
    BY <2>1, <2>2, LoseOrchestratorTyping, Zenon DEF TypeOK
<1>6. ASSUME NEW m \in net, Lose(m) PROVE TypeOK'
  <2>1. net' \subseteq Message
    BY <1>6 DEF Lose, TypeOK
  <2> QED
    BY <1>6, <2>1, Zenon DEF Lose, TypeOK
<1> QED
  BY <1>2, <1>3, <1>4, <1>6 DEF Failure

LEMMA RecoveryTyping ==
  ASSUME TypeOK, Recovery
  PROVE  TypeOK'
<1> PICK n \in Nodes : NoticeDrop(n) \/ Reconnect(n)
  BY DEF Recovery
<1>0. node[n] \in Node /\ conn[n] \in Conn
  BY DEF TypeOK
<1>3. 0 \in 0 .. MaxOps
  BY BoundsAssumption
<1>1. CASE NoticeDrop(n)
  <2>1. [conn[n] EXCEPT !.up = FALSE] \in Conn
    BY <1>0 DEF Conn
  <2>2. conn' \in [Nodes -> Conn]
    BY <1>1, <2>1 DEF NoticeDrop, TypeOK
  <2> QED
    BY <1>1, <2>2, Zenon DEF NoticeDrop, TypeOK
<1>2. CASE Reconnect(n)
  <2>1. [node[n] EXCEPT !.link = TRUE] \in Node
    BY <1>0 DEF Node
  <2>2. node' \in [Nodes -> Node]
    BY <1>2, <2>1 DEF Reconnect, TypeOK
  <2>3. node[n].shards \in SUBSET Shards
    BY <1>0 DEF Node
  <2>4. Identify(n, node[n].shards) \in Message
    BY <2>3, Written, "up" \in Dirs, 0 \in Nat, <1>3 DEF Dirs
  <2>5. net' \subseteq Message
    BY <1>2, <2>4 DEF Reconnect, TypeOK
  <2> QED
    BY <1>2, <2>2, <2>5, Zenon DEF Reconnect, TypeOK
<1> QED
  BY <1>1, <1>2

LEMMA CommandTyping ==
  ASSUME TypeOK, Command
  PROVE  TypeOK'
<1>1. ASSUME ops < MaxOps, ops' = ops + 1, NEW n \in Nodes, NEW S \in SUBSET Shards,
             StartShards(n, S, ops')
      PROVE  TypeOK'
  <2>1. ops' \in 0 .. MaxOps
    BY <1>1, BoundsAssumption DEF TypeOK
  <2> QED
    BY <1>1, <2>1, StartShardsTyping
<1>2. ASSUME NEW s \in Shards, StopShard(s) PROVE TypeOK'
  BY <1>2, StopShardTyping
<1>3. ASSUME NEW from \in Nodes, NEW to \in Nodes, NEW s \in Shards,
             StartShardMigration(from, to, s) \/ MigrateToBusy(from, to, s)
      PROVE  TypeOK'
  BY <1>3, MigrationTyping, BusyTyping
<1> QED
  BY <1>1, <1>2, <1>3 DEF Command

-----------------------------------------------------------------------------
LEMMA TypingStep == TypeOK /\ [Next]_vars => TypeOK'
<1> SUFFICES ASSUME TypeOK, [Next]_vars PROVE TypeOK'
  OBVIOUS
<1>1. CASE Command
  BY <1>1, CommandTyping
<1>2. CASE Step
  BY <1>2, OrchestratorTyping, NodeTyping, GatewayTyping DEF Step
<1>3. CASE Recovery
  BY <1>3, RecoveryTyping
<1>4. CASE Failure
  BY <1>4, FailureTyping
<1>5. CASE UNCHANGED vars
  BY <1>5, Zenon DEF TypeOK, vars
<1> QED
  BY <1>1, <1>2, <1>3, <1>4, <1>5 DEF Next

(* Every reachable state is typed, whatever the commands, the order in which
   messages are handled and the failures: in particular no handler reads the
   field of a message that has none, and a count of events or a session is
   never negative.                                                           *)
THEOREM Typing == Spec => []TypeOK
BY InitTyping, TypingStep, PTL DEF Spec

-----------------------------------------------------------------------------
(* One gateway for each shard, as long as nothing fails.  The invariant has  *)
(* five parts: who is connected; who holds a shard; that one command about   *)
(* a shard is on its way at a time; that both ends of a migration know each  *)
(* other; and that the messages of a migration follow one another.           *)

LEMMA InitSafe == Init => Safe
<1> SUFFICES ASSUME Init PROVE Safe
  OBVIOUS
<1> USE ShardsAssumption
<1>0. PICK at \in Placements :
      /\ conn = [n \in Nodes |-> IF n \in Newcomers THEN NoConn
                                 ELSE NewConn({s \in Shards : at[s] = n})]
      /\ node = [n \in Nodes |->
           [alive |-> TRUE, link |-> n \notin Newcomers,
            shards |-> {s \in Shards : at[s] = n},
            mode |-> "none", shard |-> 0, session |-> 0, processed |-> 0,
            total |-> 0, op |-> 0, own |-> 0]]
      /\ gw = [n \in Nodes |-> [s \in Shards |->
           IF at[s] = n THEN [st |-> "open", session |-> 1]
                        ELSE [st |-> "closed", session |-> 0]]]
  BY DEF Init
<1> DEFINE On(n) == {s \in Shards : at[s] = n}
<1>1. net = {}
  BY Zenon DEF Init
<1>a. /\ \A n \in Nodes, s \in Shards : s \in On(n) <=> at[s] = n
      /\ \A n \in Newcomers : On(n) = {}
  BY <1>0
<1>b. /\ \A n \in Nodes : /\ node[n].mode = "none" /\ (node[n].link <=> n \notin Newcomers)
                          /\ node[n].shards = On(n)
      /\ \A n \in Nodes, s \in Shards : Open(n, s) <=> at[s] = n
  BY <1>0 DEF Open
<1>c. conn = [n \in Nodes |-> IF n \in Newcomers THEN NoConn ELSE NewConn(On(n))]
  BY <1>0
<1> HIDE DEF On
<1>2. \A n \in Nodes :
        /\ conn[n].mode = "none" /\ conn[n].shards = On(n)
        /\ (conn[n].known <=> n \notin Newcomers) /\ (conn[n].up <=> n \notin Newcomers)
  <2>2. NoConn.mode = "none" /\ NoConn.shards = {} /\ ~NoConn.known /\ ~NoConn.up
    <3>1. NewConn({}) \in Conn
      BY ShardsAssumption DEF NewConn, Conn, Modes
    <3>2. NewConn({}).mode = "none" /\ NewConn({}).shards = {}
      BY DEF NewConn
    <3> QED
      BY <3>1, <3>2 DEF NoConn, Conn
  <2>3. \A S : /\ NewConn(S).mode = "none" /\ NewConn(S).shards = S
               /\ NewConn(S).known /\ NewConn(S).up
    BY DEF NewConn
  <2>4. \A n \in Newcomers : conn[n] = NoConn
    BY <1>c
  <2>5. \A n \in Nodes \ Newcomers : conn[n] = NewConn(On(n))
    BY <1>c
  <2>6. ASSUME NEW n \in Nodes, n \notin Newcomers
        PROVE  /\ conn[n].mode = "none" /\ conn[n].shards = On(n)
               /\ conn[n].known /\ conn[n].up
    BY <2>3, <2>5, <2>6
  <2>7. ASSUME NEW n \in Nodes, n \in Newcomers
        PROVE  /\ conn[n].mode = "none" /\ conn[n].shards = On(n)
               /\ ~conn[n].known /\ ~conn[n].up
    BY <1>a, <2>2, <2>4, <2>7
  <2> QED
    BY <2>6, <2>7
<1>3. Joined
  BY <1>1, <1>2, <1>a, <1>b DEF Joined
<1>4. OneAtATime
  BY <1>1, <1>b DEF OneAtATime, Takes
<1>5. Custody
  <2>1. \A n \in Nodes, s \in Shards : s \in conn[n].shards <=> at[s] = n
    <3>1. \A n \in Nodes : conn[n].shards = On(n)
      BY <1>2
    <3> QED
      BY <3>1, <1>a
  <2> QED
    BY <1>1, <1>b, <2>1 DEF Custody, Takes
<1>6. Pairs
  BY <1>1, <1>b DEF Pairs, Takes
<1>7. Follows
  BY <1>1, <1>b DEF Follows
<1> QED
  BY <1>3, <1>4, <1>5, <1>6, <1>7 DEF Safe

\* The commands.
LEMMA StartShardsSafe ==
  ASSUME TypeOK, Safe, NEW n \in Nodes, NEW S \in SUBSET Shards, NEW op,
         InTurn(S), StartShards(n, S, op)
  PROVE  Safe'
<1> DEFINE new == Start("down", n, op, S)
<1>1. conn' = conn /\ node' = node /\ gw' = gw /\ conn[n].known
  BY DEF StartShards
<1>2. /\ net \subseteq net' /\ \A q \in net' : q \in net \/ q = new
      /\ new.kind = "start" /\ new.dir = "down" /\ new.node = n /\ new.shards = S
  BY DEF StartShards, Deliverable, Start
<1>3. \A s \in S : (\A m \in net : ~About(m, s)) /\ (\A b \in Nodes : ~Takes(b, s))
  BY DEF InTurn, Pending, About, Takes
<1>4. \A s \in S : Down(s)
  <2> SUFFICES ASSUME NEW s \in S, NEW x \in Nodes PROVE s \notin conn[x].shards /\ ~Open(x, s)
    BY DEF Down
  <2>1. s \notin conn[x].shards
    BY DEF StartShards, Running, Safe, Joined
  <2> QED
    BY <1>3, <2>1 DEF Safe, Custody, About
<1>5. /\ \A s : Down(s)' <=> Down(s)
      /\ \A b, s : Takes(b, s)' <=> Takes(b, s)
      /\ \A a, b, s : Pair(a, b, s)' <=> Pair(a, b, s)
      /\ \A x, s : Open(x, s)' <=> Open(x, s)
  BY <1>1 DEF Down, Takes, Pair, Open
<1> HIDE DEF new
<1>6. Joined'
  BY <1>1, <1>2, Zenon DEF Safe, Joined
<1>7. OneAtATime'
  BY <1>1, <1>2, <1>3, <1>5 DEF Safe, OneAtATime, About
<1>8. Custody'
  BY <1>1, <1>2, <1>3, <1>4, <1>5 DEF Safe, Custody, About, Held
<1>9. Pairs'
  BY <1>1, <1>2, <1>5 DEF Safe, Pairs
<1>10. Follows'
  BY <1>1, <1>2, <1>3, <1>5 DEF Safe, Follows, Carries, About, Takes
<1> QED
  BY <1>6, <1>7, <1>8, <1>9, <1>10 DEF Safe

LEMMA StopShardSafe ==
  ASSUME TypeOK, Safe, NEW s \in Shards, InTurn({s}), StopShard(s)
  PROVE  Safe'
<1>1. conn' = conn /\ node' = node /\ gw' = gw
  BY DEF StopShard
<1>2. /\ net \subseteq net'
      /\ \A q \in net' \ net :
           /\ q = Stop("down", q.node, ops', s) /\ q.node \in Nodes /\ Running(q.node, s)
           /\ q.kind = "stop" /\ q.dir = "down" /\ q.shard = s
  BY DEF StopShard, Deliverable, Stop
<1>3. (\A m \in net : ~About(m, s)) /\ (\A b \in Nodes : ~Takes(b, s))
  BY DEF InTurn, Pending, About, Takes
<1>4. \A q \in net' \ net : s \in conn[q.node].shards /\ conn[q.node].known
  BY <1>2 DEF Running, Safe, Joined
<1>5. \A q1, q2 \in net' \ net : q1 = q2
  <2>1. \A q1, q2 \in net' \ net : q1.node = q2.node
    BY <1>2, <1>4 DEF Safe, Custody
  <2> QED
    BY <1>2, <2>1
<1>6. /\ \A x : Down(x)' <=> Down(x)
      /\ \A b, x : Takes(b, x)' <=> Takes(b, x)
      /\ \A a, b, x : Pair(a, b, x)' <=> Pair(a, b, x)
      /\ \A n, x : Open(n, x)' <=> Open(n, x)
  BY <1>1 DEF Down, Takes, Pair, Open
<1>7. Joined'
  BY <1>1, <1>2, <1>4 DEF Safe, Joined
<1>8. OneAtATime'
  BY <1>1, <1>2, <1>3, <1>5, <1>6 DEF Safe, OneAtATime, About
<1>9. Custody'
  BY <1>1, <1>2, <1>3, <1>4, <1>6 DEF Safe, Custody, About, Held
<1>10. Pairs'
  BY <1>1, <1>2, <1>6 DEF Safe, Pairs
<1>11. Follows'
  BY <1>1, <1>2, <1>3, <1>6 DEF Safe, Follows, Carries, About, Takes
<1> QED
  BY <1>7, <1>8, <1>9, <1>10, <1>11 DEF Safe

LEMMA MigrationSafe ==
  ASSUME TypeOK, Safe, NEW from \in Nodes, NEW to \in Nodes, NEW s \in Shards,
         InTurn({s}), StartShardMigration(from, to, s)
  PROVE  Safe'
<1> DEFINE new == Prepare("down", from, ops', s, TRUE, 0)
<1>0. \A m \in net : m.node \in Nodes
  BY Fields DEF TypeOK
<1>1. node' = node /\ gw' = gw /\ from # to /\ conn[from].mode = "none" /\ conn[to].mode = "none"
      /\ s \in conn[from].shards /\ conn[from].known
  BY DEF StartShardMigration, Idle, Running, Safe, Joined
<1>2. /\ \A n \in Nodes : /\ conn'[n].known = conn[n].known /\ conn'[n].up = conn[n].up
                          /\ conn'[n].shards = conn[n].shards
                          /\ n \notin {from, to} => conn'[n] = conn[n]
      /\ Pair(from, to, s)'
  BY ZenonT(60), <1>1 DEF StartShardMigration, Pair, TypeOK, Conn
<1>3. /\ net \subseteq net' /\ \A q \in net' : q \in net \/ q = new
      /\ new.kind = "prepare" /\ new.dir = "down" /\ new.origin
      /\ new.node = from /\ new.shard = s
  BY DEF StartShardMigration, Deliverable, Prepare
<1>4. (\A m \in net : ~About(m, s)) /\ (\A b \in Nodes : ~Takes(b, s))
  BY DEF InTurn, Pending, About, Takes
<1>5. /\ \A x : Down(x)' <=> Down(x)
      /\ \A b, x : Takes(b, x)' <=> Takes(b, x)
      /\ \A n, x : Open(n, x)' <=> Open(n, x)
  BY <1>1, <1>2 DEF Down, Takes, Open
<1>6. \A a, b, x : Pair(a, b, x) => Pair(a, b, x)' /\ a \notin {from, to} /\ b \notin {from, to}
  BY <1>1, <1>2 DEF Pair
<1> HIDE DEF new
<1>7. Joined'
  <2>1. conn[to].known
    BY DEF StartShardMigration
  <2> QED
    BY <1>0, <1>1, <1>2, <1>3, <2>1 DEF Safe, Joined
<1>8. OneAtATime'
  BY <1>3, <1>4, <1>5 DEF Safe, OneAtATime, About
<1>9. Custody'
  BY SMTT(30), <1>0, <1>1, <1>2, <1>3, <1>4, <1>5 DEF Safe, Custody, About, Held
<1>10. Pairs'
  <2>1. \A b \in Nodes, x \in Shards : Takes(b, x)' => conn'[b].mode = "to" /\ conn'[b].shard = x
    BY <1>1, <1>2, <1>5 DEF Safe, Pairs
  <2>2. \A m \in net : m.node \notin {from, to} => conn'[m.node] = conn[m.node]
    BY <1>0, <1>2
  <2> QED
    BY SMTT(30), <1>1, <1>2, <1>3, <1>5, <1>6, <2>1, <2>2 DEF Safe, Pairs, Pair
<1>11. Follows'
  <2>1. \A m \in net : m.kind = "allsent" /\ m.dir = "up" => conn'[m.node].other = conn[m.node].other
    BY <1>2, <1>6 DEF Safe, Pairs, Pair
  <2> QED
    BY <1>1, <1>3, <1>4, <2>1 DEF Safe, Follows, Carries, About, Takes
<1> QED
  BY <1>7, <1>8, <1>9, <1>10, <1>11 DEF Safe

-----------------------------------------------------------------------------
\* The orchestrator's handlers.
LEMMA IdentifySafe ==
  ASSUME TypeOK, Safe, NEW m \in net, HandleIdentify(m)
  PROVE  Safe'
<1> DEFINE n == m.node
<1>0. \A q \in net : q.node \in Nodes
  BY Fields DEF TypeOK
<1>1. /\ node' = node /\ gw' = gw /\ net' = net \ {m}
      /\ m = Identify(n, {}) /\ m.shards = {} /\ ~conn[n].known /\ node[n].link
      /\ conn[n].mode = "none" /\ conn[n].shards = {}
  <2>1. m = Identify(n, {}) /\ ~conn[n].known /\ node[n].link
    BY DEF HandleIdentify, Safe, Joined
  <2> QED
    BY <1>0, <2>1 DEF HandleIdentify, Identify, Safe, Joined
<1>2. /\ \A x \in Nodes : x # n => conn'[x] = conn[x]
      /\ conn'[n].known /\ conn'[n].up /\ conn'[n].mode = "none" /\ conn'[n].shards = {}
  BY <1>0, <1>1 DEF HandleIdentify, Identified, NewConn, TypeOK
<1>3. /\ \A s : Down(s)' <=> Down(s)
      /\ \A b, s : Takes(b, s)' <=> Takes(b, s)
      /\ \A a, b, s : Pair(a, b, s)' <=> Pair(a, b, s)
      /\ \A x, s : Open(x, s)' <=> Open(x, s)
      /\ \A x \in Nodes : conn'[x].shards = conn[x].shards /\ conn'[x].mode = conn[x].mode
  BY ZenonT(60), <1>0, <1>1, <1>2 DEF Down, Takes, Pair, Open
<1>4. \A q \in net' : q.kind # "identify" => conn[q.node].known /\ conn'[q.node] = conn[q.node]
  BY <1>0, <1>1, <1>2 DEF Safe, Joined
<1>5. \A q \in net' : q.kind = "identify" => q.node # n
  BY <1>1 DEF Safe, Joined
<1> HIDE DEF n
<1>6. Joined'
  BY <1>0, <1>1, <1>2, <1>4, <1>5 DEF Safe, Joined
<1>7. OneAtATime'
  BY <1>1, <1>3 DEF Safe, OneAtATime, About
<1>8. Custody'
  <2>1. \A s \in Shards, x \in Nodes :
          Open(x, s) => \/ s \in conn[x].shards
                        \/ \E q \in net' : q.kind = "start" /\ q.dir = "up" /\ q.node = x /\ s \in q.shards
    BY <1>1 DEF Safe, Custody, HandleIdentify
  <2> QED
    BY <1>0, <1>1, <1>3, <2>1 DEF Safe, Custody, About, Held
<1>9. Pairs'
  <2>1. \A b \in Nodes : b = n => \A s \in Shards : ~Takes(b, s)
    BY <1>1 DEF Safe, Pairs, n
  <2>2. \A b \in Nodes, s \in Shards : Takes(b, s) => conn'[b].mode = "to" /\ conn'[b].shard = s
    BY <1>2, <2>1 DEF Safe, Pairs
  <2> QED
    BY <1>0, <1>1, <1>3, <1>4, <2>2 DEF Safe, Pairs
<1>10. Follows'
  <2>1. \A b \in Nodes, q \in net' : Carries(q, b)' <=> Carries(q, b)
    BY <1>1, <1>4 DEF Carries, About
  <2>2. \A u \in net : u.kind = "allsent" => u \in net'
    BY <1>1 DEF HandleIdentify
  <2> QED
    BY <1>1, <2>1, <2>2 DEF Safe, Follows, HandleIdentify
<1> QED
  BY <1>6, <1>7, <1>8, <1>9, <1>10 DEF Safe

LEMMA StartedSafe ==
  ASSUME TypeOK, Safe, NEW m \in net, HandleStarted(m)
  PROVE  Safe'
<1> DEFINE n == m.node
<1>0. \A q \in net : q.node \in Nodes
  BY Fields DEF TypeOK
<1>1. /\ node' = node /\ gw' = gw /\ net' = net \ {m} /\ m.kind = "start" /\ m.dir = "up"
      /\ n \in Nodes /\ m.shards \subseteq Shards /\ conn[n].known
  BY <1>0, Fields DEF HandleStarted, Arrived, TypeOK, Safe, Joined
<1>2. /\ \A x \in Nodes : x # n => conn'[x] = conn[x]
      /\ conn'[n].known = conn[n].known /\ conn'[n].up = conn[n].up
      /\ conn'[n].other = conn[n].other /\ conn'[n].shard = conn[n].shard
      /\ conn'[n].shards = conn[n].shards \cup m.shards
      /\ conn'[n].mode = conn[n].mode \/ conn[n].shard \in m.shards
  BY ZenonT(60), <1>1 DEF HandleStarted, TypeOK, Conn
<1>3. \A s \in m.shards :
        /\ \A q \in net' : ~About(q, s)
        /\ \A b \in Nodes : ~Takes(b, s)
        /\ \A x \in Nodes : s \notin conn[x].shards /\ (Open(x, s) => x = n)
  BY <1>1 DEF Safe, OneAtATime, Custody, About, Held
<1>4. /\ \A b, s : Takes(b, s)' <=> Takes(b, s)
      /\ \A x, s : Open(x, s)' <=> Open(x, s)
      /\ \A s : s \notin m.shards => (Down(s)' <=> Down(s))
      /\ \A a, b, s : Pair(a, b, s) /\ s \notin m.shards => Pair(a, b, s)'
  BY <1>1, <1>2 DEF Takes, Open, Down, Pair
<1> HIDE DEF n
<1>5. Joined'
  BY <1>0, <1>1, <1>2 DEF Safe, Joined, n
<1>6. OneAtATime'
  BY <1>1, <1>4 DEF Safe, OneAtATime, About
<1>7. Custody'
  <2>1. \A s \in Shards, x \in Nodes : s \in conn'[x].shards <=> s \in conn[x].shards \/ (x = n /\ s \in m.shards)
    BY <1>1, <1>2
  <2>2. \A s \in Shards, n1, n2 \in Nodes : s \in conn'[n1].shards /\ s \in conn'[n2].shards => n1 = n2
    BY <1>3, <2>1 DEF Safe, Custody
  <2>3. \A s \in Shards, x \in Nodes :
          Open(x, s) => \/ s \in conn'[x].shards
                        \/ \E q \in net' : q.kind = "start" /\ q.dir = "up" /\ q.node = x /\ s \in q.shards
    BY <1>1, <2>1 DEF Safe, Custody, n
  <2>4. \A s \in Shards, q \in net' : About(q, s) => Held(q, s)'
    <3> SUFFICES ASSUME NEW s \in Shards, NEW q \in net', About(q, s) PROVE Held(q, s)'
      OBVIOUS
    <3>1. s \notin m.shards /\ Held(q, s) /\ q.node \in Nodes
      BY <1>0, <1>1, <1>3 DEF Safe, Custody
    <3> QED
      BY <1>4, <2>1, <3>1 DEF Held
  <2>5. \A s \in Shards, b \in Nodes : Takes(b, s) => Down(s)'
    BY <1>3, <1>4 DEF Safe, Custody
  <2> QED
    BY <1>4, <2>2, <2>3, <2>4, <2>5 DEF Custody, About
<1>8. Pairs'
  <2>1. \A b \in Nodes, s \in Shards : Takes(b, s) => conn'[b].mode = "to" /\ conn'[b].shard = s
    BY <1>2, <1>3 DEF Safe, Pairs
  <2>2. \A q \in net' : conn'[q.node].other = conn[q.node].other /\ conn'[q.node].shard = conn[q.node].shard
    BY <1>0, <1>1, <1>2
  <2>3. \A q \in net' : q.kind \in {"prepare", "transfer"} => q.shard \notin m.shards
    BY <1>3 DEF About
  <2>4. \A q \in net' : q.kind = "allsent" /\ q.dir = "up" => conn[q.node].shard \notin m.shards
    BY <1>1, <1>3 DEF Safe, Pairs, Pair
  <2> QED
    BY <1>1, <1>4, <2>1, <2>2, <2>3, <2>4 DEF Safe, Pairs
<1>9. Follows'
  <2>1. \A b \in Nodes, q \in net' : Carries(q, b)' <=> Carries(q, b)
    <3>1. \A q \in net' : conn'[q.node].other = conn[q.node].other
      BY <1>0, <1>1, <1>2
    <3> QED
      BY <1>1, <3>1 DEF Carries, About
  <2>2. \A u \in net : u.kind = "allsent" => u \in net'
    BY <1>1
  <2> QED
    BY <1>1, <2>1, <2>2 DEF Safe, Follows
<1> QED
  BY <1>5, <1>6, <1>7, <1>8, <1>9 DEF Safe

LEMMA StoppedSafe ==
  ASSUME TypeOK, Safe, NEW m \in net, HandleStopped(m)
  PROVE  Safe'
<1> DEFINE n == m.node
<1>0. \A q \in net : q.node \in Nodes
  BY Fields DEF TypeOK
<1>1. /\ node' = node /\ gw' = gw /\ net' = net \ {m} /\ m.kind = "stop" /\ m.dir = "up"
      /\ n \in Nodes /\ m.shard \in Shards /\ conn[n].known
  BY <1>0, Fields DEF HandleStopped, Arrived, TypeOK, Safe, Joined
<1>2. /\ \A x \in Nodes : x # n => conn'[x] = conn[x]
      /\ conn'[n].known = conn[n].known /\ conn'[n].up = conn[n].up /\ conn'[n].mode = conn[n].mode
      /\ conn'[n].other = conn[n].other /\ conn'[n].shard = conn[n].shard
      /\ conn'[n].shards = conn[n].shards \ {m.shard}
  BY <1>1 DEF HandleStopped, TypeOK, Conn
<1>3. /\ \A q \in net' : ~About(q, m.shard)
      /\ \A b \in Nodes : ~Takes(b, m.shard)
      /\ m.shard \in conn[n].shards /\ ~Open(n, m.shard)
  BY <1>1 DEF Safe, OneAtATime, Custody, About, Held
<1>4. \A x \in Nodes : /\ conn'[x].known = conn[x].known /\ conn'[x].up = conn[x].up
                       /\ conn'[x].other = conn[x].other /\ conn'[x].shard = conn[x].shard
                       /\ conn'[x].mode = conn[x].mode
                       /\ \A s : s \in conn'[x].shards <=> s \in conn[x].shards /\ ~(x = n /\ s = m.shard)
  BY <1>1, <1>2
<1> HIDE DEF n
<1>5. /\ \A b, s : Takes(b, s)' <=> Takes(b, s)
      /\ \A x, s : Open(x, s)' <=> Open(x, s)
      /\ \A s : Down(s) => Down(s)'
      /\ \A a, b, s : Pair(a, b, s)' <=> Pair(a, b, s)
  BY <1>1, <1>4 DEF Takes, Open, Down, Pair
<1>6. Joined'
  BY <1>0, <1>1, <1>4 DEF Safe, Joined
<1>7. OneAtATime'
  BY <1>1, <1>5 DEF Safe, OneAtATime, About
<1>8. Custody'
  BY <1>0, <1>1, <1>3, <1>4, <1>5 DEF Safe, Custody, About, Held
<1>9. Pairs'
  BY <1>0, <1>1, <1>4, <1>5 DEF Safe, Pairs
<1>10. Follows'
  <2>1. \A b \in Nodes, q \in net' : Carries(q, b)' <=> Carries(q, b)
    BY <1>0, <1>1, <1>4 DEF Carries, About
  <2>2. \A u \in net : u.kind = "allsent" => u \in net'
    BY <1>1
  <2> QED
    BY <1>1, <2>1, <2>2 DEF Safe, Follows
<1> QED
  BY <1>6, <1>7, <1>8, <1>9, <1>10 DEF Safe

LEMMA OriginReadySafe ==
  ASSUME TypeOK, Safe, NEW m \in net, HandleOriginReady(m)
  PROVE  Safe'
<1> DEFINE a == m.node
           b == conn[a].other
           s == m.shard
           new == Prepare("down", b, m.op, s, FALSE, m.session)
<1>0. \A q \in net : q.node \in Nodes
  BY Fields DEF TypeOK
<1>1. /\ node' = node /\ gw' = gw /\ m.kind = "prepare" /\ m.dir = "up" /\ m.origin
      /\ a \in Nodes /\ s \in Shards /\ Pair(a, b, s) /\ b \in Nodes
      /\ s \in conn[a].shards /\ ~Open(a, s)
  <2>1. m.kind = "prepare" /\ m.dir = "up" /\ m.origin /\ a \in Nodes /\ s \in Shards
    BY <1>0, Fields DEF HandleOriginReady, Arrived, TypeOK
  <2>2. Pair(a, b, s) /\ About(m, s) /\ Held(m, s)
    BY <2>1 DEF Safe, Pairs, Custody, About
  <2> QED
    BY <2>1, <2>2 DEF HandleOriginReady, Pair, Held
<1>2. conn[a].known /\ conn[b].known /\ OtherKnown(a)
  BY <1>1, ShardsAssumption DEF OtherKnown, Safe, Joined, Pair
<1>3. \A x \in Nodes : /\ conn'[x].known = conn[x].known /\ conn'[x].up = conn[x].up
                       /\ conn'[x].other = conn[x].other /\ conn'[x].shard = conn[x].shard
                       /\ conn'[x].mode = conn[x].mode
                       /\ \A t : t \in conn'[x].shards <=> t \in conn[x].shards /\ ~(x = a /\ t = s)
  BY <1>1, <1>2 DEF HandleOriginReady, WithoutShard, TypeOK, Conn
<1>4. /\ net \ {m} \subseteq net' /\ \A q \in net' : q \in net \ {m} \/ q = new
      /\ new.kind = "prepare" /\ new.dir = "down" /\ ~new.origin /\ new.node = b /\ new.shard = s
  BY <1>2 DEF HandleOriginReady, Forward, Deliverable, Prepare
<1> HIDE DEF a, b, s, new
<1>5. /\ \A q \in net \ {m} : ~About(q, s)
      /\ \A x \in Nodes : ~Takes(x, s)
  BY <1>1 DEF Safe, OneAtATime, About, s
<1>6. /\ \A x, t : Takes(x, t)' <=> Takes(x, t)
      /\ \A x, t : Open(x, t)' <=> Open(x, t)
      /\ \A t : Down(t) => Down(t)'
      /\ \A x, y, t : Pair(x, y, t)' <=> Pair(x, y, t)
  BY <1>1, <1>3 DEF Takes, Open, Down, Pair
<1>7. Down(s)'
  <2>1. \A x \in Nodes : s \notin conn'[x].shards
    BY <1>1, <1>3 DEF Safe, Custody
  <2>2. \A x \in Nodes : ~Open(x, s)
    <3>1. \A q \in net : ~(q.kind = "start" /\ s \in q.shards)
      BY <1>1, <1>5 DEF About
    <3> QED
      BY <1>1, <3>1 DEF Safe, Custody
  <2> QED
    BY <1>6, <2>1, <2>2 DEF Down
<1>8. Joined'
  BY <1>0, <1>1, <1>2, <1>3, <1>4 DEF Safe, Joined
<1>9. OneAtATime'
  BY <1>4, <1>5, <1>6 DEF Safe, OneAtATime, About
<1>10. Custody'
  <2>1. \A t \in Shards, x \in Nodes :
          Open(x, t) => \/ t \in conn'[x].shards
                        \/ \E q \in net' : q.kind = "start" /\ q.dir = "up" /\ q.node = x /\ t \in q.shards
    BY <1>1, <1>3, <1>4 DEF Safe, Custody
  <2>2. \A t \in Shards, q \in net' : About(q, t) => Held(q, t)'
    <3> SUFFICES ASSUME NEW t \in Shards, NEW q \in net', About(q, t) PROVE Held(q, t)'
      OBVIOUS
    <3>1. CASE q = new
      BY <1>4, <1>7, <3>1 DEF About, Held
    <3>2. CASE q \in net \ {m}
      <4>1. t # s /\ Held(q, t) /\ q.node \in Nodes
        BY <1>0, <1>5, <3>2 DEF Safe, Custody
      <4> QED
        BY <1>3, <1>6, <4>1 DEF Held
    <3> QED
      BY <1>4, <3>1, <3>2
  <2> QED
    BY <1>3, <1>6, <2>1, <2>2 DEF Safe, Custody, About
<1>11. Pairs'
  <2>1. conn[b].other = a
    BY <1>1 DEF Pair
  <2> QED
    BY <1>0, <1>1, <1>3, <1>4, <1>6, <2>1 DEF Safe, Pairs
<1>12. Follows'
  <2>1. \A x \in Nodes, q \in net : Carries(q, x)' <=> Carries(q, x)
    BY <1>0, <1>1, <1>3 DEF Carries, About
  <2>2. \A x \in Nodes : \A q : q = new /\ node[x].mode = "to" => ~Carries(q, x)'
    BY <1>1, <1>4, <1>5 DEF Carries, About, Takes
  <2>3. \A u \in net : u.kind \in {"allsent", "user"} => u \in net'
    BY <1>1, <1>4
  <2> QED
    BY <1>1, <1>4, <2>1, <2>2, <2>3 DEF Safe, Follows
<1> QED
  BY <1>8, <1>9, <1>10, <1>11, <1>12 DEF Safe

LEMMA DestReadySafe ==
  ASSUME TypeOK, Safe, NEW m \in net, HandleDestReady(m)
  PROVE  Safe'
<1> DEFINE b == m.node
           a == conn[b].other
           s == m.shard
           new == StartMigration(a, m.op, s)
<1>0. \A q \in net : q.node \in Nodes
  BY Fields DEF TypeOK
<1>1. /\ conn' = conn /\ node' = node /\ gw' = gw
      /\ m.kind = "prepare" /\ m.dir = "up" /\ ~m.origin
      /\ b \in Nodes /\ s \in Shards /\ Pair(a, b, s) /\ a \in Nodes /\ Takes(b, s)
  <2>1. m.kind = "prepare" /\ m.dir = "up" /\ ~m.origin /\ b \in Nodes /\ s \in Shards
    BY <1>0, Fields DEF HandleDestReady, Arrived, TypeOK
  <2>2. Pair(a, b, s) /\ Takes(b, s)
    BY <2>1 DEF Safe, Pairs
  <2> QED
    BY <2>1, <2>2 DEF HandleDestReady, Pair
<1>2. conn[a].known
  BY <1>1 DEF Safe, Joined, Pair
<1>3. /\ net \ {m} \subseteq net' /\ \A q \in net' : q \in net \ {m} \/ q = new
      /\ new.kind = "transfer" /\ new.dir = "down" /\ new.node = a /\ new.shard = s
  BY DEF HandleDestReady, Forward, Deliverable, StartMigration
<1> HIDE DEF a, b, s, new
<1>4. \A q \in net \ {m} : ~About(q, s)
  BY <1>1 DEF Safe, OneAtATime, About, s
<1>5. /\ \A x, t : Takes(x, t)' <=> Takes(x, t)
      /\ \A x, t : Open(x, t)' <=> Open(x, t)
      /\ \A t : Down(t)' <=> Down(t)
      /\ \A x, y, t : Pair(x, y, t)' <=> Pair(x, y, t)
  BY <1>1 DEF Takes, Open, Down, Pair
<1>6. Joined'
  BY <1>1, <1>2, <1>3 DEF Safe, Joined
<1>7. OneAtATime'
  BY <1>3, <1>4, <1>5 DEF Safe, OneAtATime, About
<1>8. Custody'
  <2>1. Down(s)
    BY <1>1 DEF Safe, Custody
  <2>2. \A t \in Shards, x \in Nodes :
          Open(x, t) => \/ t \in conn[x].shards
                        \/ \E q \in net' : q.kind = "start" /\ q.dir = "up" /\ q.node = x /\ t \in q.shards
    BY <1>1, <1>3 DEF Safe, Custody
  <2> QED
    BY <1>1, <1>3, <1>5, <2>1, <2>2 DEF Safe, Custody, About, Held
<1>9. Pairs'
  <2>1. conn[a].other = b
    BY <1>1 DEF Pair
  <2> QED
    BY <1>1, <1>3, <1>5, <2>1 DEF Safe, Pairs
<1>10. Follows'
  <2>1. \A x, q : Carries(q, x)' <=> Carries(q, x)
    BY <1>1 DEF Carries, About
  <2>2. \A x \in Nodes : Carries(new, x) <=> Carries(m, x)
    BY <1>1, <1>3 DEF Carries, About, s
  <2>3. \A u \in net : u.kind \in {"allsent", "user"} => u \in net'
    BY <1>1, <1>3
  <2> QED
    BY <1>1, <1>3, <2>1, <2>2, <2>3 DEF Safe, Follows
<1> QED
  BY <1>6, <1>7, <1>8, <1>9, <1>10 DEF Safe

LEMMA AllSentSafe ==
  ASSUME TypeOK, Safe, NEW m \in net, HandleAllSent(m)
  PROVE  Safe'
<1> DEFINE a == m.node
           b == conn[a].other
           s == conn[a].shard
           new == AllSent("down", b, m.op, m.num)
<1>0. \A q \in net : q.node \in Nodes
  BY Fields DEF TypeOK
<1>1. /\ node' = node /\ gw' = gw /\ m.kind = "allsent" /\ m.dir = "up" /\ InOrder(m)
      /\ a \in Nodes /\ b \in Nodes /\ Pair(a, b, s) /\ Takes(b, s)
  BY <1>0 DEF HandleAllSent, Arrived, Safe, Pairs, Pair
<1>2. /\ conn[a].known /\ conn[b].known
  BY <1>1 DEF Safe, Joined, Pair
<1>3. \A x \in Nodes : /\ conn'[x].known = conn[x].known /\ conn'[x].up = conn[x].up
                       /\ conn'[x].other = conn[x].other /\ conn'[x].shard = conn[x].shard
                       /\ conn'[x].shards = conn[x].shards
                       /\ conn'[x].mode = IF x = a THEN "none" ELSE conn[x].mode
  BY <1>1 DEF HandleAllSent, TypeOK, Conn
<1>4. /\ net \ {m} \subseteq net' /\ \A q \in net' : q \in net \ {m} \/ q = new
      /\ new.kind = "allsent" /\ new.dir = "down" /\ new.node = b
  BY DEF HandleAllSent, Forward, Deliverable, AllSent
<1> HIDE DEF a, b, s, new
<1>5. \A q \in net \ {m} : ~Carries(q, b)
  BY <1>1 DEF Safe, Follows, Carries, Takes, a, b
<1>6. /\ \A x, t : Takes(x, t)' <=> Takes(x, t)
      /\ \A x, t : Open(x, t)' <=> Open(x, t)
      /\ \A t : Down(t)' <=> Down(t)
      /\ \A x, y, t : Pair(x, y, t) /\ x # a => Pair(x, y, t)'
      /\ \A x, y, t : Pair(x, y, t) => y # a
  BY <1>1, <1>3 DEF Takes, Open, Down, Pair
<1>7. Joined'
  BY <1>0, <1>1, <1>2, <1>3, <1>4 DEF Safe, Joined
<1>8. OneAtATime'
  BY <1>4, <1>6 DEF Safe, OneAtATime, About
<1>9. Custody'
  <2>1. \A t \in Shards, x \in Nodes :
          Open(x, t) => \/ t \in conn[x].shards
                        \/ \E q \in net' : q.kind = "start" /\ q.dir = "up" /\ q.node = x /\ t \in q.shards
    BY <1>1, <1>4 DEF Safe, Custody
  <2> QED
    BY <1>0, <1>1, <1>3, <1>4, <1>6, <2>1 DEF Safe, Custody, About, Held
<1>10. Pairs'
  <2>1. \A x \in Nodes, t \in Shards : Takes(x, t) => conn'[x].mode = "to" /\ conn'[x].shard = t
    BY <1>1, <1>3 DEF Safe, Pairs, Pair
  <2>2. \A q \in net \ {m} : q.kind \in {"prepare", "transfer"} =>
          \A x, y : Pair(x, y, q.shard) => x # a
    <3>1. node[b].shard = s
      BY <1>1 DEF Takes
    <3>2. \A x, y, t : Pair(x, y, t) /\ x = a => t = s
      BY DEF Pair, s
    <3> QED
      BY <1>5, <3>1, <3>2 DEF Carries, About
  <2>3. \A q \in net \ {m} : q.kind = "allsent" /\ q.dir = "up" => q.node # a
    BY <1>5 DEF Carries, b
  <2>4. node[b].mode = "to"
    BY <1>1 DEF Takes
  <2>5. \A q \in net \ {m} : conn'[q.node].other = conn[q.node].other /\ conn'[q.node].shard = conn[q.node].shard
    BY <1>0, <1>3
  <2>6. ASSUME NEW q \in net \ {m}
        PROVE  /\ q.kind = "prepare" =>
                    IF q.origin THEN Pair(q.node, conn[q.node].other, q.shard)'
                                ELSE Pair(conn[q.node].other, q.node, q.shard)'
               /\ q.kind = "prepare" /\ ~q.origin /\ q.dir = "up" => Takes(q.node, q.shard)'
               /\ q.kind = "transfer" => /\ q.dir = "down"
                                         /\ Pair(q.node, conn[q.node].other, q.shard)'
                                         /\ Takes(conn[q.node].other, q.shard)'
               /\ q.kind = "allsent" /\ q.dir = "up" =>
                    /\ Pair(q.node, conn[q.node].other, conn[q.node].shard)'
                    /\ Takes(conn[q.node].other, conn[q.node].shard)'
               /\ q.kind = "allsent" /\ q.dir = "down" => node[q.node].mode = "to"
    BY <1>6, <2>2, <2>3, <2>5 DEF Safe, Pairs
  <2> QED
    BY <1>1, <1>4, <1>6, <2>1, <2>4, <2>6 DEF Pairs
<1>11. Follows'
  <2>1. \A x \in Nodes, q \in net : Carries(q, x)' <=> Carries(q, x)
    BY <1>0, <1>1, <1>3 DEF Carries, About
  <2>2. \A x \in Nodes : \A q : q = new /\ Carries(q, x)' => x = b
    BY <1>4 DEF Carries, About
  <2>3. Carries(m, b) /\ node[b].total = -1
    BY <1>1 DEF Carries, a, b, Safe, Follows, Takes
  <2>4. \A x \in Nodes : node[x].mode = "to" =>
          /\ node[x].shard \in Shards
          /\ \A m1, m2 \in net' : Carries(m1, x)' /\ Carries(m2, x)' => m1 = m2
          /\ node[x].total # -1 => \A q \in net' : ~Carries(q, x)'
    BY <1>4, <1>5, <2>1, <2>2, <2>3 DEF Safe, Follows
  <2>5. \A q \in net' : q.kind = "user" =>
          IF q.dir = "up"
          THEN \E u \in net' : u.kind = "allsent" /\ u.dir = "up" /\ u.node = q.node /\ u.op = q.op
          ELSE node[q.node].mode = "to" \/ node[q.node].total = -1
    BY <1>1, <1>4 DEF Safe, Follows, InOrder, a
  <2> QED
    BY <1>1, <2>4, <2>5 DEF Follows
<1> QED
  BY <1>7, <1>8, <1>9, <1>10, <1>11 DEF Safe

LEMMA UserEvtSafe ==
  ASSUME TypeOK, Safe, NEW m \in net, HandleUserEvt(m)
  PROVE  Safe'
<1> DEFINE a == m.node
           b == conn[a].other
           new == UserEvt("down", b, m.op, m.num)
<1>0. \A q \in net : q.node \in Nodes
  BY Fields DEF TypeOK
<1>1. conn' = conn /\ node' = node /\ gw' = gw /\ m.kind = "user" /\ m.dir = "up"
  BY DEF HandleUserEvt, Arrived
<1>2. b \in Nodes /\ node[b].mode = "to" /\ conn[b].known
  <2>1. PICK u \in net : u.kind = "allsent" /\ u.dir = "up" /\ u.node = a
    BY <1>1 DEF Safe, Follows
  <2>2. Pair(a, b, conn[a].shard) /\ Takes(b, conn[a].shard)
    BY <2>1 DEF Safe, Pairs
  <2> QED
    BY <2>2 DEF Pair, Takes, Safe, Joined
<1>3. /\ net \ {m} \subseteq net' /\ \A q \in net' : q \in net \ {m} \/ q = new
      /\ new.kind = "user" /\ new.dir = "down" /\ new.node = b
  BY DEF HandleUserEvt, Forward, Deliverable, UserEvt
<1> HIDE DEF a, b, new
<1>4. /\ \A x, t : Takes(x, t)' <=> Takes(x, t)
      /\ \A x, t : Open(x, t)' <=> Open(x, t)
      /\ \A t : Down(t)' <=> Down(t)
      /\ \A x, y, t : Pair(x, y, t)' <=> Pair(x, y, t)
      /\ \A x, q : Carries(q, x)' <=> Carries(q, x)
  BY <1>1 DEF Takes, Open, Down, Pair, Carries, About
<1>5. Joined'
  BY <1>1, <1>2, <1>3 DEF Safe, Joined
<1>6. OneAtATime'
  BY <1>3, <1>4 DEF Safe, OneAtATime, About
<1>7. Custody'
  <2>1. \A t \in Shards, x \in Nodes :
          Open(x, t) => \/ t \in conn[x].shards
                        \/ \E q \in net' : q.kind = "start" /\ q.dir = "up" /\ q.node = x /\ t \in q.shards
    BY <1>1, <1>3 DEF Safe, Custody
  <2> QED
    BY <1>1, <1>3, <1>4, <2>1 DEF Safe, Custody, About, Held
<1>8. Pairs'
  BY <1>1, <1>3, <1>4 DEF Safe, Pairs
<1>9. Follows'
  <2>1. \A x \in Nodes : ~Carries(new, x)
    BY <1>3 DEF Carries, About
  <2>2. \A u \in net : u.kind = "allsent" => u \in net'
    BY <1>1, <1>3
  <2> QED
    BY <1>1, <1>2, <1>3, <1>4, <2>1, <2>2 DEF Safe, Follows
<1> QED
  BY <1>5, <1>6, <1>7, <1>8, <1>9 DEF Safe

-----------------------------------------------------------------------------
\* The nodes' handlers.
LEMMA StartsSafe ==
  ASSUME TypeOK, Safe, NEW m \in net, StartsShards(m)
  PROVE  Safe'
<1> DEFINE n == m.node
           new == Start("up", n, m.op, m.shards)
<1>0. \A q \in net : q.node \in Nodes
  BY Fields DEF TypeOK
<1>1. /\ conn' = conn /\ m.kind = "start" /\ m.dir = "down" /\ n \in Nodes
      /\ m.shards \subseteq Shards /\ conn[n].known
  BY <1>0, Fields DEF StartsShards, Received, TypeOK, Safe, Joined
<1>2. \A x \in Nodes : /\ node'[x].mode = node[x].mode /\ node'[x].shard = node[x].shard
                       /\ node'[x].total = node[x].total /\ node'[x].link = node[x].link
                       /\ x # n => node'[x] = node[x]
  BY <1>1 DEF StartsShards, TypeOK, Node
<1>3. \A x \in Nodes, s \in Shards : Open(x, s)' <=> Open(x, s) \/ (x = n /\ s \in m.shards)
  BY <1>1 DEF StartsShards, TypeOK, Open, Opened
<1>4. /\ net' = (net \ {m}) \cup {new}
      /\ new.kind = "start" /\ new.dir = "up" /\ new.node = n /\ new.shards = m.shards
  BY DEF StartsShards, Start
<1> HIDE DEF n, new
<1>5. \A s \in m.shards :
        /\ \A q \in net \ {m} : ~About(q, s)
        /\ \A b \in Nodes : ~Takes(b, s)
        /\ Down(s)
  BY <1>1 DEF Safe, OneAtATime, Custody, About, Held
<1>6. /\ \A x \in Nodes : \A t : Takes(x, t)' <=> Takes(x, t)
      /\ \A t \in Shards : t \notin m.shards => (Down(t)' <=> Down(t))
      /\ \A x, y, t : Pair(x, y, t)' <=> Pair(x, y, t)
  BY <1>1, <1>2, <1>3 DEF Takes, Down, Pair
<1>7. Joined'
  BY <1>0, <1>1, <1>2, <1>4 DEF Safe, Joined
<1>8. OneAtATime'
  BY <1>1, <1>4, <1>5, <1>6 DEF Safe, OneAtATime, About
<1>9. Custody'
  <2>1. \A t \in Shards, x \in Nodes :
          Open(x, t)' => \/ t \in conn[x].shards
                         \/ \E q \in net' : q.kind = "start" /\ q.dir = "up" /\ q.node = x /\ t \in q.shards
    BY <1>1, <1>3, <1>4 DEF Safe, Custody
  <2>2. \A t \in Shards, q \in net' : About(q, t) => Held(q, t)'
    <3> SUFFICES ASSUME NEW t \in Shards, NEW q \in net', About(q, t) PROVE Held(q, t)'
      OBVIOUS
    <3>1. CASE q = new
      <4>1. t \in m.shards
        BY <1>4, <3>1 DEF About
      <4> QED
        BY <1>1, <1>3, <1>4, <1>5, <3>1, <4>1 DEF Held, Down
    <3>2. CASE q \in net \ {m}
      <4>1. t \notin m.shards /\ Held(q, t) /\ q.node \in Nodes
        BY <1>0, <1>5, <3>2 DEF Safe, Custody
      <4> QED
        BY <1>1, <1>3, <1>6, <4>1 DEF Held
    <3> QED
      BY <1>4, <3>1, <3>2
  <2> QED
    BY <1>1, <1>5, <1>6, <2>1, <2>2 DEF Safe, Custody, About
<1>10. Pairs'
  <2>1. \A q \in net : q.kind = "allsent" => q.node \in Nodes
    BY <1>0
  <2> QED
    BY <1>1, <1>2, <1>4, <1>6, <2>1 DEF Safe, Pairs, Pair
<1>11. Follows'
  <2>1. \A x \in Nodes : \A q : Carries(q, x)' <=> Carries(q, x)
    BY <1>1, <1>2 DEF Carries, About
  <2>2. \A x \in Nodes : \A q : q = new /\ node[x].mode = "to" => ~Carries(q, x)
    BY <1>1, <1>4, <1>5 DEF Carries, About, Takes
  <2>3. \A u \in net : u.kind \in {"allsent", "user"} => u \in net'
    BY <1>1, <1>4
  <2> QED
    BY <1>0, <1>1, <1>2, <1>4, <2>1, <2>2, <2>3 DEF Safe, Follows
<1> QED
  BY <1>7, <1>8, <1>9, <1>10, <1>11 DEF Safe

\* A handler runs when no gateway is being opened, so that a close closes.
LEMMA Closes ==
  ASSUME TypeOK, ~SlowOpen, NEW m, NEW kind, Received(m, kind), NEW s \in Shards, m.node \in Nodes,
         gw' = [gw EXCEPT ![m.node][s] = Closed(@)]
  PROVE  \A x \in Nodes, t \in Shards : Open(x, t)' <=> Open(x, t) /\ ~(x = m.node /\ t = s)
<1>1. gw[m.node][s].st \in {"closed", "open"} /\ gw[m.node][s] \in Gateway
  <2>1. gw[m.node][s] \in Gateway
    BY DEF TypeOK
  <2>2. gw[m.node][s].st # "opening"
    BY DEF Received
  <2> QED
    BY <2>1, <2>2 DEF Gateway
<1>2. Closed(gw[m.node][s]).st = "closed"
  BY <1>1 DEF Closed, Gateway
<1> QED
  BY <1>2 DEF Open, TypeOK

LEMMA StopsSafe ==
  ASSUME TypeOK, Safe, ~SlowOpen, NEW m \in net, StopsShard(m)
  PROVE  Safe'
<1> DEFINE n == m.node
           s == m.shard
           new == Stop("up", n, m.op, s)
<1>0. \A q \in net : q.node \in Nodes
  BY Fields DEF TypeOK
<1>1. /\ conn' = conn /\ m.kind = "stop" /\ m.dir = "down" /\ n \in Nodes
      /\ s \in Shards /\ conn[n].known
  BY <1>0, Fields DEF StopsShard, Received, TypeOK, Safe, Joined
<1>2. \A x \in Nodes : /\ node'[x].mode = node[x].mode /\ node'[x].shard = node[x].shard
                       /\ node'[x].total = node[x].total /\ node'[x].link = node[x].link
                       /\ x # n => node'[x] = node[x]
  BY <1>1 DEF StopsShard, TypeOK, Node
<1>3. \A x \in Nodes, t \in Shards : Open(x, t)' <=> Open(x, t) /\ ~(x = n /\ t = s)
  BY <1>1, Closes DEF StopsShard
<1>4. /\ net' = (net \ {m}) \cup {new}
      /\ new.kind = "stop" /\ new.dir = "up" /\ new.node = n /\ new.shard = s
  BY DEF StopsShard, Stop
<1>5. /\ \A q \in net \ {m} : ~About(q, s)
      /\ \A b \in Nodes : ~Takes(b, s)
      /\ s \in conn[n].shards
  BY <1>1 DEF Safe, OneAtATime, Custody, About, Held
<1> HIDE DEF n, new, s
<1>7. /\ \A x \in Nodes : \A t : Takes(x, t)' <=> Takes(x, t)
      /\ \A t \in Shards : Down(t) => Down(t)'
      /\ \A x, y, t : Pair(x, y, t)' <=> Pair(x, y, t)
  BY <1>1, <1>2, <1>3 DEF Takes, Down, Pair
<1>8. Joined'
  BY <1>0, <1>1, <1>2, <1>4 DEF Safe, Joined
<1>9. OneAtATime'
  BY <1>1, <1>4, <1>5, <1>7 DEF Safe, OneAtATime, About
<1>10. Custody'
  <2>1. \A t \in Shards, x \in Nodes :
          Open(x, t)' => \/ t \in conn[x].shards
                         \/ \E q \in net' : q.kind = "start" /\ q.dir = "up" /\ q.node = x /\ t \in q.shards
    BY <1>1, <1>3, <1>4 DEF Safe, Custody
  <2>2. \A t \in Shards, q \in net' : About(q, t) => Held(q, t)'
    <3> SUFFICES ASSUME NEW t \in Shards, NEW q \in net', About(q, t) PROVE Held(q, t)'
      OBVIOUS
    <3>1. CASE q = new
      <4>1. t = s
        BY <1>4, <3>1 DEF About
      <4> QED
        BY <1>1, <1>3, <1>4, <1>5, <3>1, <4>1 DEF Held
    <3>2. CASE q \in net \ {m}
      <4>1. t # s /\ Held(q, t) /\ q.node \in Nodes
        BY <1>0, <1>5, <3>2 DEF Safe, Custody
      <4> QED
        BY <1>1, <1>3, <1>7, <4>1 DEF Held
    <3> QED
      BY <1>4, <3>1, <3>2
  <2> QED
    BY <1>1, <1>7, <2>1, <2>2 DEF Safe, Custody, About
<1>11. Pairs'
  <2>1. \A q \in net : q.kind = "allsent" => q.node \in Nodes
    BY <1>0
  <2> QED
    BY <1>0, <1>1, <1>2, <1>4, <1>7, <2>1 DEF Safe, Pairs, Pair
<1>12. Follows'
  <2>1. \A x \in Nodes : \A q : Carries(q, x)' <=> Carries(q, x)
    BY <1>1, <1>2 DEF Carries, About
  <2>2. \A x \in Nodes : \A q : q = new /\ node[x].mode = "to" => ~Carries(q, x)
    BY <1>1, <1>4, <1>5 DEF Carries, About, Takes
  <2>3. \A u \in net : u.kind \in {"allsent", "user"} => u \in net'
    BY <1>1, <1>4
  <2> QED
    BY <1>0, <1>1, <1>2, <1>4, <2>1, <2>2, <2>3 DEF Safe, Follows
<1> QED
  BY <1>8, <1>9, <1>10, <1>11, <1>12 DEF Safe

LEMMA PreparesOriginSafe ==
  ASSUME TypeOK, Safe, ~SlowOpen, NEW m \in net, PreparesOrigin(m)
  PROVE  Safe'
<1> DEFINE a == m.node
           s == m.shard
           new == Prepare("up", a, m.op, s, TRUE, gw[a][s].session)
<1>0. \A q \in net : q.node \in Nodes
  BY Fields DEF TypeOK
<1>1. /\ conn' = conn /\ m.kind = "prepare" /\ m.dir = "down" /\ m.origin /\ a \in Nodes
      /\ s \in Shards /\ conn[a].known
  BY <1>0, Fields DEF PreparesOrigin, Received, TypeOK, Safe, Joined
<1>2. /\ \A x \in Nodes : x # a => node'[x] = node[x]
      /\ node'[a].mode = "from" /\ node'[a].shard = s
      /\ node'[a].total = node[a].total /\ node'[a].link = node[a].link
  BY <1>1 DEF PreparesOrigin, TypeOK, Node
<1>3. \A x \in Nodes, t \in Shards : Open(x, t)' <=> Open(x, t) /\ ~(x = a /\ t = s)
  BY <1>1, Closes DEF PreparesOrigin
<1>4. /\ net' = (net \ {m}) \cup {new}
      /\ new.kind = "prepare" /\ new.dir = "up" /\ new.origin /\ new.node = a /\ new.shard = s
  BY DEF PreparesOrigin, Prepare
<1>5. /\ \A q \in net \ {m} : ~About(q, s)
      /\ \A b \in Nodes : ~Takes(b, s)
      /\ s \in conn[a].shards
      /\ Pair(a, conn[a].other, s)
  BY <1>1 DEF Safe, OneAtATime, Custody, Pairs, About, Held
<1>6. node[a].mode # "to"
  BY <1>1, <1>5 DEF Safe, Pairs, Follows, Pair, Takes
<1> HIDE DEF a, new, s
<1>7. /\ \A x \in Nodes : \A t : Takes(x, t)' <=> Takes(x, t)
      /\ \A t \in Shards : Down(t) => Down(t)'
      /\ \A x, y, t : Pair(x, y, t)' <=> Pair(x, y, t)
  BY <1>1, <1>2, <1>3, <1>6 DEF Takes, Down, Pair
<1>8. Joined'
  <2>1. \A x \in Nodes : node'[x].link = node[x].link
    BY <1>2
  <2> QED
    BY <1>0, <1>1, <1>2, <1>4, <2>1 DEF Safe, Joined
<1>9. OneAtATime'
  BY <1>1, <1>4, <1>5, <1>7 DEF Safe, OneAtATime, About
<1>10. Custody'
  <2>1. \A t \in Shards, x \in Nodes :
          Open(x, t)' => \/ t \in conn[x].shards
                         \/ \E q \in net' : q.kind = "start" /\ q.dir = "up" /\ q.node = x /\ t \in q.shards
    BY <1>1, <1>3, <1>4 DEF Safe, Custody
  <2>2. \A t \in Shards, q \in net' : About(q, t) => Held(q, t)'
    <3> SUFFICES ASSUME NEW t \in Shards, NEW q \in net', About(q, t) PROVE Held(q, t)'
      OBVIOUS
    <3>1. CASE q = new
      <4>1. t = s
        BY <1>4, <3>1 DEF About
      <4> QED
        BY <1>1, <1>3, <1>4, <1>5, <3>1, <4>1 DEF Held
    <3>2. CASE q \in net \ {m}
      <4>1. t # s /\ Held(q, t) /\ q.node \in Nodes
        BY <1>0, <1>5, <3>2 DEF Safe, Custody
      <4> QED
        BY <1>1, <1>3, <1>7, <4>1 DEF Held
    <3> QED
      BY <1>4, <3>1, <3>2
  <2> QED
    BY <1>1, <1>7, <2>1, <2>2 DEF Safe, Custody, About
<1>11. Pairs'
  <2>1. \A q \in net : q.kind = "allsent" /\ q.dir = "down" => node'[q.node].mode = "to"
    BY <1>0, <1>2, <1>6 DEF Safe, Pairs
  <2>2. \A q \in net : q.kind \in {"transfer", "allsent"} /\ Pair(q.node, conn[q.node].other, conn[q.node].shard)
          => conn[q.node].other \in Nodes
    BY DEF Pair
  <2>3. \A q \in net : q.kind = "transfer" => conn[q.node].other \in Nodes
    BY DEF Pair, Safe, Pairs
  <2> QED
    BY <1>0, <1>1, <1>4, <1>5, <1>7, <2>1, <2>2, <2>3 DEF Safe, Pairs
<1>12. Follows'
  <2>1. \A x \in Nodes : \A q : x # a => (Carries(q, x)' <=> Carries(q, x))
    BY <1>1, <1>2 DEF Carries, About
  <2>2. \A x \in Nodes : \A q : q = new /\ node[x].mode = "to" => ~Carries(q, x)
    BY <1>1, <1>4, <1>5 DEF Carries, About, Takes
  <2>3. \A u \in net : u.kind \in {"allsent", "user"} => u \in net'
    BY <1>1, <1>4
  <2> QED
    BY <1>0, <1>1, <1>2, <1>4, <1>6, <2>1, <2>2, <2>3 DEF Safe, Follows
<1> QED
  BY <1>8, <1>9, <1>10, <1>11, <1>12 DEF Safe

LEMMA PreparesDestSafe ==
  ASSUME TypeOK, Safe, NEW m \in net, PreparesDest(m)
  PROVE  Safe'
<1> DEFINE b == m.node
           s == m.shard
           new == Prepare("up", b, m.op, s, FALSE, m.session)
<1>0. \A q \in net : q.node \in Nodes
  BY Fields DEF TypeOK
<1>1. /\ conn' = conn /\ gw' = gw
      /\ m.kind = "prepare" /\ m.dir = "down" /\ ~m.origin /\ b \in Nodes
      /\ s \in Shards /\ conn[b].known
  BY <1>0, Fields DEF PreparesDest, Received, TypeOK, Safe, Joined
<1>2. /\ \A x \in Nodes : x # b => node'[x] = node[x]
      /\ node'[b].mode = "to" /\ node'[b].shard = s
      /\ node'[b].total = -1 /\ node'[b].link = node[b].link
  BY <1>1 DEF PreparesDest, Prepared, TypeOK, Node
<1>3. /\ net' = (net \ {m}) \cup {new}
      /\ new.kind = "prepare" /\ new.dir = "up" /\ ~new.origin /\ new.node = b /\ new.shard = s
  BY DEF PreparesDest, Prepare
<1>4. /\ \A q \in net \ {m} : ~About(q, s)
      /\ \A x \in Nodes : ~Takes(x, s)
      /\ Down(s)
      /\ Pair(conn[b].other, b, s)
  BY SMTT(30), <1>1 DEF Safe, OneAtATime, Custody, Pairs, About, Held
<1>5. node[b].mode # "to"
  BY <1>1, <1>4 DEF Safe, Pairs, Follows, Pair, Takes
<1> HIDE DEF b, new, s
<1>6. /\ \A x \in Nodes : \A t : Takes(x, t)' <=> Takes(x, t) \/ (x = b /\ t = s)
      /\ \A t \in Shards : Down(t)' <=> Down(t)
      /\ \A x, t : Open(x, t)' <=> Open(x, t)
      /\ \A x, y, t : Pair(x, y, t)' <=> Pair(x, y, t)
  BY <1>1, <1>2, <1>5 DEF Takes, Down, Pair, Open
<1>7. Joined'
  <2>1. \A x \in Nodes : node'[x].link = node[x].link
    BY <1>2
  <2> QED
    BY <1>0, <1>1, <1>2, <1>3, <2>1 DEF Safe, Joined
<1>8. OneAtATime'
  BY <1>1, <1>3, <1>4, <1>6 DEF Safe, OneAtATime, About
<1>9. Custody'
  <2>1. \A t \in Shards, x \in Nodes :
          Open(x, t) => \/ t \in conn[x].shards
                        \/ \E q \in net' : q.kind = "start" /\ q.dir = "up" /\ q.node = x /\ t \in q.shards
    BY <1>1, <1>3 DEF Safe, Custody
  <2>2. \A t \in Shards, q \in net' : About(q, t) => Held(q, t)'
    BY <1>1, <1>3, <1>4, <1>6 DEF Safe, Custody, About, Held
  <2> QED
    BY <1>1, <1>4, <1>6, <2>1, <2>2 DEF Safe, Custody, About
<1>10. Pairs'
  <2>1. \A q \in net : q.kind = "allsent" /\ q.dir = "down" => node'[q.node].mode = "to"
    BY <1>0, <1>2 DEF Safe, Pairs
  <2>2. \A q \in net : q.kind = "transfer" \/ (q.kind = "allsent" /\ q.dir = "up") =>
          conn[q.node].other \in Nodes
    BY DEF Pair, Safe, Pairs
  <2>3. \A x \in Nodes, t \in Shards : Takes(x, t)' => conn[x].mode = "to" /\ conn[x].shard = t
    BY <1>4, <1>6 DEF Safe, Pairs, Pair
  <2> QED
    BY <1>0, <1>1, <1>3, <1>4, <1>6, <2>1, <2>2, <2>3 DEF Safe, Pairs
<1>11. Follows'
  <2>1. \A x \in Nodes : \A q : x # b => (Carries(q, x)' <=> Carries(q, x))
    BY <1>1, <1>2 DEF Carries, About
  <2>2. \A x \in Nodes : \A q : q = new /\ node[x].mode = "to" => ~Carries(q, x)
    BY <1>1, <1>3, <1>4 DEF Carries, About, Takes
  <2>3. \A q \in net \ {m} : \A x : x = b => ~Carries(q, x)'
    <3>1. \A q \in net : q.kind = "allsent" => b # IF q.dir = "up" THEN conn[q.node].other ELSE q.node
      <4>1. \A q \in net : q.dir \in {"up", "down"}
        BY Fields DEF TypeOK, Dirs
      <4> QED
        BY <1>5, <4>1 DEF Safe, Pairs, Takes
    <3>2. ASSUME NEW q \in net \ {m}, NEW x, x = b PROVE ~About(q, node[x].shard)'
      BY <1>2, <1>4, <3>2 DEF About
    <3> QED
      BY <1>1, <3>1, <3>2 DEF Carries
  <2>4. \A u \in net : u.kind \in {"allsent", "user"} => u \in net'
    BY <1>1, <1>3
  <2> QED
    BY <1>0, <1>1, <1>2, <1>3, <2>1, <2>2, <2>3, <2>4 DEF Safe, Follows
<1> QED
  BY <1>7, <1>8, <1>9, <1>10, <1>11 DEF Safe

LEMMA TransfersSafe ==
  ASSUME TypeOK, Safe, NEW m \in net, TransfersFrom(m)
  PROVE  Safe'
<1> DEFINE a == m.node
           s == m.shard
<1>0. \A q \in net : q.node \in Nodes
  BY Fields DEF TypeOK
<1>1. /\ conn' = conn /\ node' = node /\ gw' = gw
      /\ m.kind = "transfer" /\ m.dir = "down" /\ a \in Nodes /\ s \in Shards /\ conn[a].known
  BY <1>0, Fields DEF TransfersFrom, Received, TypeOK, Safe, Joined
<1>2. PICK k : net' = (net \ {m}) \cup {AllSent("up", a, m.op, k)}
                        \cup {UserEvt("up", a, m.op, i) : i \in 1 .. k}
  BY DEF TransfersFrom
<1>3. PICK new : new = AllSent("up", a, m.op, k)
  OBVIOUS
<1>4. PICK b : b = conn[a].other
  OBVIOUS
<1>5. new.kind = "allsent" /\ new.dir = "up" /\ new.node = a /\ new.op = m.op
  BY <1>3 DEF AllSent
<1>6. /\ net \ {m} \subseteq net' /\ new \in net'
      /\ \A q \in net' : \/ q \in net \ {m} \/ q = new
                         \/ q.kind = "user" /\ q.dir = "up" /\ q.node = a /\ q.op = m.op
  BY <1>2, <1>3 DEF UserEvt
<1>7. Pair(a, b, s) /\ Takes(b, s) /\ b \in Nodes
  BY <1>1, <1>4 DEF Safe, Pairs, Pair
<1> HIDE DEF a, s
<1>8. \A q \in net \ {m} : ~Carries(q, b)
  BY <1>1, <1>7 DEF Safe, Follows, Carries, About, Takes, s
<1>9. /\ \A x, t : Takes(x, t)' <=> Takes(x, t)
      /\ \A x, t : Open(x, t)' <=> Open(x, t)
      /\ \A t : Down(t)' <=> Down(t)
      /\ \A x, y, t : Pair(x, y, t)' <=> Pair(x, y, t)
      /\ \A x, q : Carries(q, x)' <=> Carries(q, x)
  BY <1>1 DEF Takes, Open, Down, Pair, Carries, About
<1>10. Joined'
  BY <1>1, <1>5, <1>6 DEF Safe, Joined
<1>11. OneAtATime'
  BY <1>5, <1>6, <1>9 DEF Safe, OneAtATime, About
<1>12. Custody'
  <2>1. \A t \in Shards, x \in Nodes :
          Open(x, t) => \/ t \in conn[x].shards
                        \/ \E q \in net' : q.kind = "start" /\ q.dir = "up" /\ q.node = x /\ t \in q.shards
    BY <1>1, <1>6 DEF Safe, Custody
  <2> QED
    BY <1>1, <1>5, <1>6, <1>9, <2>1 DEF Safe, Custody, About, Held
<1>13. Pairs'
  <2>1. conn[a].shard = s
    BY <1>7 DEF Pair
  <2> QED
    BY <1>1, <1>4, <1>5, <1>6, <1>7, <1>9, <2>1 DEF Safe, Pairs
<1>14. Follows'
  <2>1. Carries(m, b) /\ node[b].mode = "to" /\ node[b].total = -1
    BY <1>1, <1>7 DEF Safe, Follows, Carries, About, Takes, s
  <2>2. \A x \in Nodes : Carries(new, x) => x = b
    BY <1>4, <1>5 DEF Carries, About
  <2>3. \A q \in net', x \in Nodes : q \notin net /\ q # new => ~Carries(q, x)
    BY <1>6 DEF Carries, About
  <2>4. \A x \in Nodes : node[x].mode = "to" =>
          /\ node[x].shard \in Shards
          /\ \A m1, m2 \in net' : Carries(m1, x) /\ Carries(m2, x) => m1 = m2
          /\ node[x].total # -1 => \A q \in net' : ~Carries(q, x)
    BY <1>6, <1>8, <2>1, <2>2, <2>3 DEF Safe, Follows, Carries, About
  <2>5. \A q \in net' : q.kind = "user" =>
          IF q.dir = "up"
          THEN \E u \in net' : u.kind = "allsent" /\ u.dir = "up" /\ u.node = q.node /\ u.op = q.op
          ELSE node[q.node].mode = "to" \/ node[q.node].total = -1
    BY <1>1, <1>5, <1>6 DEF Safe, Follows
  <2> QED
    BY <1>1, <1>9, <2>4, <2>5 DEF Follows
<1> QED
  BY <1>10, <1>11, <1>12, <1>13, <1>14 DEF Safe

\* The destination has handled its last event, and nothing but user events is left
\* of the migration.
LEMMA FinishSafe ==
  ASSUME TypeOK, Safe, NEW m \in net, NEW nd \in Node, Finish(m.node, nd, m), conn' = conn,
         m.kind \in {"allsent", "user"}, m.dir = "down", node[m.node].mode = "to",
         nd.shard = node[m.node].shard, nd.link = node[m.node].link,
         \A q \in net \ {m} : ~Carries(q, m.node)
  PROVE  Safe'
<1> DEFINE b == m.node
           s == nd.shard
           new == Start("up", b, nd.op, {s})
<1>0. \A q \in net : q.node \in Nodes
  BY Fields DEF TypeOK
<1>1. b \in Nodes /\ conn[b].known /\ s \in Shards /\ Takes(b, s) /\ Down(s)
  <2>1. b \in Nodes /\ conn[b].known /\ s \in Shards
    BY <1>0 DEF Safe, Joined, Follows
  <2> QED
    BY <2>1 DEF Takes, Safe, Custody
<1>2. /\ \A x \in Nodes : x # b => node'[x] = node[x]
      /\ node'[b].mode = "none" /\ node'[b].total = -1 /\ node'[b].link = node[b].link
  BY <1>1 DEF Finish, Forgotten, TypeOK, Node
<1>3. \A x \in Nodes, t \in Shards : Open(x, t)' <=> Open(x, t) \/ (x = b /\ t = s)
  BY <1>1 DEF Finish, TypeOK, Open, Opened
<1>4. /\ net' = (net \ {m}) \cup {new}
      /\ new.kind = "start" /\ new.dir = "up" /\ new.node = b /\ new.shards = {s}
  BY DEF Finish, Start
<1>5. /\ \A q \in net \ {m} : ~About(q, s) /\ ~Carries(q, b)
      /\ \A x \in Nodes : Takes(x, s) => x = b
  BY <1>1 DEF Safe, OneAtATime, Carries
<1>6. node[b].mode = "to" /\ m.kind \in {"allsent", "user"} /\ m.dir = "down"
  OBVIOUS
<1> HIDE DEF b, s, new
<1>7. /\ \A x \in Nodes, t \in Shards : Takes(x, t)' <=> Takes(x, t) /\ x # b
      /\ \A t \in Shards : t # s => (Down(t)' <=> Down(t))
      /\ \A x, y, t : Pair(x, y, t)' <=> Pair(x, y, t)
  BY <1>1, <1>2, <1>3 DEF Takes, Down, Pair
<1>8. Joined'
  <2>1. \A x \in Nodes : node'[x].link = node[x].link /\ (~conn[x].known => node'[x] = node[x])
    BY <1>1, <1>2
  <2> QED
    BY <1>0, <1>1, <1>4, <2>1 DEF Safe, Joined
<1>9. OneAtATime'
  BY <1>1, <1>4, <1>5, <1>7 DEF Safe, OneAtATime, About
<1>10. Custody'
  <2>1. \A t \in Shards, x \in Nodes :
          Open(x, t)' => \/ t \in conn[x].shards
                         \/ \E q \in net' : q.kind = "start" /\ q.dir = "up" /\ q.node = x /\ t \in q.shards
    BY <1>3, <1>4, <1>6 DEF Safe, Custody
  <2>2. \A t \in Shards, q \in net' : About(q, t) => Held(q, t)'
    <3> SUFFICES ASSUME NEW t \in Shards, NEW q \in net', About(q, t) PROVE Held(q, t)'
      OBVIOUS
    <3>1. CASE q = new
      <4>1. t = s
        BY <1>4, <3>1 DEF About
      <4> QED
        BY <1>1, <1>3, <1>4, <3>1, <4>1 DEF Held, Down
    <3>2. CASE q \in net \ {m}
      <4>1. t # s /\ Held(q, t) /\ q.node \in Nodes
        BY <1>0, <1>5, <3>2 DEF Safe, Custody
      <4> QED
        BY <1>1, <1>3, <1>7, <4>1 DEF Held
    <3> QED
      BY <1>4, <3>1, <3>2
  <2> QED
    BY <1>1, <1>5, <1>7, <2>1, <2>2 DEF Safe, Custody, About
<1>11. Pairs'
  <2>1. \A q \in net \ {m} :
          /\ q.kind = "allsent" /\ q.dir = "down" => q.node # b
          /\ q.kind = "allsent" /\ q.dir = "up" => conn[q.node].other # b
    BY <1>5 DEF Carries
  <2>2. \A q \in net \ {m} : \A x : Takes(x, q.shard) /\ x = b => q.kind \notin {"prepare", "transfer"}
    BY <1>5 DEF Carries, About, Takes
  <2>3. \A q \in net : q.kind = "transfer" \/ (q.kind = "allsent" /\ q.dir = "up") =>
          /\ conn[q.node].other \in Nodes
          /\ q.kind = "allsent" => conn[q.node].shard \in Shards
    <3>1. \A x, y, t : Pair(x, y, t) => y \in Nodes
      BY DEF Pair
    <3>2. \A q \in net : q.kind = "allsent" /\ q.dir = "up" => conn[q.node].shard \in Shards
      BY <3>1 DEF Safe, Pairs, Follows, Takes
    <3> QED
      BY <3>1, <3>2 DEF Safe, Pairs
  <2>4. \A q \in net : q.kind \in {"prepare", "transfer"} => q.shard \in Shards
    BY Fields DEF TypeOK
  <2>5. \A q \in net \ {m} : q.kind = "allsent" /\ q.dir = "down" => node'[q.node].mode = "to"
    BY <1>0, <1>2, <2>1 DEF Safe, Pairs
  <2> QED
    BY <1>0, <1>4, <1>7, <2>1, <2>2, <2>3, <2>4, <2>5 DEF Safe, Pairs
<1>12. Follows'
  <2>1. \A x \in Nodes : \A q : x # b => (Carries(q, x)' <=> Carries(q, x))
    BY <1>2 DEF Carries, About
  <2>2. \A x \in Nodes : \A q : q = new /\ node[x].mode = "to" /\ x # b => ~Carries(q, x)
    BY <1>4, <1>5 DEF Carries, About, Takes
  <2>3. \A u \in net : u.kind = "allsent" /\ u.dir = "up" => u \in net'
    BY <1>4, <1>6
  <2> QED
    BY <1>0, <1>1, <1>2, <1>4, <2>1, <2>2, <2>3 DEF Safe, Follows
<1> QED
  BY <1>8, <1>9, <1>10, <1>11, <1>12 DEF Safe

\* The destination has learnt how many events there are, or handled one of them.
LEMMA WaitsSafe ==
  ASSUME TypeOK, Safe, NEW m \in net, NEW nd \in Node,
         UNCHANGED <<conn, gw>>, node' = [node EXCEPT ![m.node] = nd], net' = net \ {m},
         m.kind \in {"allsent", "user"}, m.dir = "down",
         nd.mode = node[m.node].mode, nd.shard = node[m.node].shard,
         nd.link = node[m.node].link, nd.shards = node[m.node].shards,
         \/ nd.total = node[m.node].total
         \/ nd.mode = "to" /\ \A q \in net \ {m} : ~Carries(q, m.node)
  PROVE  Safe'
<1>0. \A q \in net : q.node \in Nodes
  BY Fields DEF TypeOK
<1>1. \A x \in Nodes : /\ node'[x].mode = node[x].mode /\ node'[x].shard = node[x].shard
                       /\ node'[x].link = node[x].link /\ node'[x].shards = node[x].shards
                       /\ \/ node'[x].total = node[x].total
                          \/ node[x].mode = "to" /\ \A q \in net \ {m} : ~Carries(q, x)
  BY <1>0 DEF TypeOK
<1>2. /\ \A x \in Nodes : \A t : Takes(x, t)' <=> Takes(x, t)
      /\ \A x, t : Open(x, t)' <=> Open(x, t)
      /\ \A t : Down(t)' <=> Down(t)
      /\ \A x, y, t : Pair(x, y, t)' <=> Pair(x, y, t)
      /\ \A x \in Nodes : \A q : Carries(q, x)' <=> Carries(q, x)
  BY <1>1 DEF Takes, Open, Down, Pair, Carries, About
<1>3. Joined'
  BY <1>0, <1>1 DEF Safe, Joined
<1>4. OneAtATime'
  BY <1>2 DEF Safe, OneAtATime, About
<1>5. Custody'
  BY <1>2 DEF Safe, Custody, About, Held
<1>6. Pairs'
  <2>1. \A x, y, t : Pair(x, y, t) => y \in Nodes
    BY DEF Pair
  <2> QED
    BY <1>0, <1>1, <1>2, <2>1 DEF Safe, Pairs
<1>7. Follows'
  BY <1>0, <1>1, <1>2 DEF Safe, Follows
<1> QED
  BY <1>3, <1>4, <1>5, <1>6, <1>7 DEF Safe

LEMMA LearnsSafe ==
  ASSUME TypeOK, Safe, NEW m \in net, LearnsTotal(m)
  PROVE  Safe'
<1> DEFINE nd == [node[m.node] EXCEPT !.total = m.num]
<1>0. /\ m.node \in Nodes /\ m.num \in Nat /\ m.kind = "allsent" /\ m.dir = "down"
      /\ node[m.node] \in Node
  BY Fields DEF LearnsTotal, Received, TypeOK
<1>1. /\ nd \in Node /\ nd.mode = node[m.node].mode /\ nd.shard = node[m.node].shard
      /\ nd.link = node[m.node].link /\ nd.shards = node[m.node].shards
  BY <1>0 DEF Node
<1>2. Noticed(m, nd, EnoughHandled(nd))
  BY Zenon DEF LearnsTotal
<1>3. /\ node[m.node].mode = "to" /\ node[m.node].shard \in Shards
      /\ \A q \in net \ {m} : ~Carries(q, m.node)
  BY <1>0 DEF Safe, Pairs, Follows, Carries
<1>4. nd.shard # NoShard
  BY <1>1, <1>3, ShardsAssumption DEF NoShard
<1> HIDE DEF nd
<1>5. CASE EnoughHandled(nd)
  <2>1. Finish(m.node, nd, m) /\ conn' = conn
    BY <1>2, <1>4, <1>5, Zenon DEF Noticed
  <2> QED
    BY <1>0, <1>1, <1>3, <2>1, FinishSafe
<1>6. CASE ~EnoughHandled(nd)
  <2>1. node' = [node EXCEPT ![m.node] = nd] /\ net' = net \ {m} /\ UNCHANGED <<conn, gw>>
    BY <1>2, <1>6, Zenon DEF Noticed
  <2> QED
    BY <1>0, <1>1, <1>3, <2>1, WaitsSafe
<1> QED
  BY <1>5, <1>6

LEMMA HandlesSafe ==
  ASSUME TypeOK, Safe, NEW m \in net, HandlesUserEvt(m)
  PROVE  Safe'
<1> DEFINE own == IF m.op = node[m.node].op THEN node[m.node].own + 1 ELSE node[m.node].own
           nd == [node[m.node] EXCEPT !.processed = @ + 1, !.own = own]
<1>0. /\ m.node \in Nodes /\ m.kind = "user" /\ m.dir = "down" /\ node[m.node] \in Node
  BY Fields DEF HandlesUserEvt, Received, TypeOK
<1>1. /\ nd \in Node /\ nd.mode = node[m.node].mode /\ nd.shard = node[m.node].shard
      /\ nd.link = node[m.node].link /\ nd.shards = node[m.node].shards
      /\ nd.total = node[m.node].total
  <2>1. node[m.node].processed + 1 \in Nat /\ own \in Nat
    BY <1>0 DEF Node
  <2> HIDE DEF own
  <2> QED
    BY <1>0, <2>1 DEF Node
<1>2. Noticed(m, nd, EnoughHandled(nd))
  BY Zenon DEF HandlesUserEvt
<1> HIDE DEF nd
<1>3. CASE EnoughHandled(nd)
  <2>1. nd.total # -1
    BY <1>1, <1>3 DEF EnoughHandled, Node
  <2>2. /\ node[m.node].mode = "to" /\ node[m.node].shard \in Shards
        /\ \A q \in net \ {m} : ~Carries(q, m.node)
    BY <1>0, <1>1, <2>1 DEF Safe, Follows
  <2>3. nd.shard # NoShard
    BY <1>1, <2>2, ShardsAssumption DEF NoShard
  <2>4. Finish(m.node, nd, m) /\ conn' = conn
    BY <1>2, <1>3, <2>3, Zenon DEF Noticed
  <2> QED
    BY <1>0, <1>1, <2>2, <2>4, FinishSafe
<1>4. CASE ~EnoughHandled(nd)
  <2>1. node' = [node EXCEPT ![m.node] = nd] /\ net' = net \ {m} /\ UNCHANGED <<conn, gw>>
    BY <1>2, <1>4, Zenon DEF Noticed
  <2> QED
    BY <1>0, <1>1, <2>1, WaitsSafe
<1> QED
  BY <1>3, <1>4

-----------------------------------------------------------------------------
\* What changes nothing that the invariant speaks of.
LEMMA QuietSafe ==
  ASSUME TypeOK, Safe, UNCHANGED <<conn, node, net>>,
         \A n \in Nodes, s \in Shards : Open(n, s)' <=> Open(n, s)
  PROVE  Safe'
<1>1. /\ \A b, s : Takes(b, s)' <=> Takes(b, s)
      /\ \A s \in Shards : Down(s)' <=> Down(s)
      /\ \A a, b, s : Pair(a, b, s)' <=> Pair(a, b, s)
      /\ \A q, b : Carries(q, b)' <=> Carries(q, b)
  BY DEF Takes, Down, Pair, Carries, About
<1>2. Joined'
  BY DEF Safe, Joined
<1>3. OneAtATime'
  BY <1>1 DEF Safe, OneAtATime, About
<1>4. Custody'
  <2>1. \A s \in Shards, q \in net : About(q, s) => Held(q, s)'
    <3> SUFFICES ASSUME NEW s \in Shards, NEW q \in net, About(q, s) PROVE Held(q, s)'
      OBVIOUS
    <3>1. Held(q, s)
      BY DEF Safe, Custody
    <3>2. q.node \in Nodes
      BY Fields DEF TypeOK
    <3> QED
      BY <1>1, <3>1, <3>2 DEF Held
  <2> QED
    BY <1>1, <2>1 DEF Safe, Custody, About
<1>5. Pairs'
  BY <1>1 DEF Safe, Pairs
<1>6. Follows'
  BY <1>1 DEF Safe, Follows
<1> QED
  BY <1>2, <1>3, <1>4, <1>5, <1>6 DEF Safe

LEMMA OpensSafe ==
  ASSUME TypeOK, Safe, NEW n \in Nodes, NEW s \in Shards, GatewayOpens(n, s)
  PROVE  Safe'
<1>1. \A x \in Nodes, t \in Shards : Open(x, t)' <=> Open(x, t)
  BY DEF GatewayOpens, Open, TypeOK
<1> QED
  BY <1>1, QuietSafe DEF GatewayOpens

\* A newcomer connects.
LEMMA ConnectSafe ==
  ASSUME TypeOK, Safe, NEW n \in Nodes, Reconnect(n)
  PROVE  Safe'
<1> DEFINE new == Identify(n, {})
<1>0. \A q \in net : q.node \in Nodes
  BY Fields DEF TypeOK
<1>1. /\ ~conn[n].known /\ node[n].shards = {} /\ conn' = conn /\ gw' = gw
  BY DEF Reconnect, Safe, Joined
<1>2. /\ net' = net \cup {new} /\ new.kind = "identify" /\ new.node = n
  BY <1>1 DEF Reconnect, Identify
<1>3. /\ \A x \in Nodes : /\ node'[x].mode = node[x].mode /\ node'[x].shard = node[x].shard
                          /\ node'[x].shards = node[x].shards /\ node'[x].total = node[x].total
                          /\ x # n => node'[x] = node[x]
      /\ node'[n].link
  BY DEF Reconnect, TypeOK, Node
<1>4. /\ \A x \in Nodes : \A t : Takes(x, t)' <=> Takes(x, t)
      /\ \A x, t : Open(x, t)' <=> Open(x, t)
      /\ \A t : Down(t)' <=> Down(t)
      /\ \A x, y, t : Pair(x, y, t)' <=> Pair(x, y, t)
      /\ \A x \in Nodes : \A q : Carries(q, x)' <=> Carries(q, x)
  BY <1>1, <1>3 DEF Takes, Open, Down, Pair, Carries, About
<1> HIDE DEF new
<1>5. Joined'
  <2>1. \A q \in net' : q = new => q = Identify(q.node, {})
    BY <1>2 DEF new
  <2> QED
    BY <1>0, <1>1, <1>2, <1>3, <2>1 DEF Safe, Joined
<1>6. OneAtATime'
  BY <1>2, <1>4 DEF Safe, OneAtATime, About
<1>7. Custody'
  BY <1>0, <1>1, <1>2, <1>4 DEF Safe, Custody, About, Held
<1>8. Pairs'
  <2>1. \A x, y, t : Pair(x, y, t) => y \in Nodes
    BY DEF Pair
  <2> QED
    BY <1>0, <1>1, <1>2, <1>3, <1>4, <2>1 DEF Safe, Pairs
<1>9. Follows'
  <2>1. \A x : ~Carries(new, x)
    BY <1>2 DEF Carries, About
  <2> QED
    BY <1>0, <1>2, <1>3, <1>4, <2>1 DEF Safe, Follows
<1> QED
  BY <1>5, <1>6, <1>7, <1>8, <1>9 DEF Safe

\* Every node that has identified is connected.
LEMMA NothingToLose == ASSUME TypeOK, Safe PROVE \A m \in net : ~Lose(m)
<1> SUFFICES ASSUME NEW m \in net, Lose(m) PROVE FALSE
  OBVIOUS
<1>1. conn[m.node].known /\ m.node \in Nodes
  BY Fields DEF Lose, Safe, Joined, TypeOK
<1>2. Reachable(m.node)
  BY <1>1 DEF Reachable, Safe, Joined
<1> QED
  BY <1>2 DEF Lose

LEMMA StepSafe ==
  ASSUME TypeOK, Safe, ~SlowOpen, Undisturbed', [Next]_vars
  PROVE  Safe'
<1>0. drops \in Nat
  BY BoundsAssumption DEF TypeOK
<1>1. CASE Command
  <2>1. ASSUME NEW n \in Nodes, NEW S \in SUBSET Shards, InTurn(S), StartShards(n, S, ops')
        PROVE  Safe'
    BY <2>1, StartShardsSafe
  <2>2. ASSUME NEW s \in Shards, InTurn({s}), StopShard(s) PROVE Safe'
    BY <2>2, StopShardSafe
  <2>3. ASSUME NEW from \in Nodes, NEW to \in Nodes, NEW s \in Shards, InTurn({s}),
               StartShardMigration(from, to, s) \/ MigrateToBusy(from, to, s)
        PROVE  Safe'
    <3>1. ~MigrateToBusy(from, to, s)
      BY DEF Undisturbed, MigrateToBusy
    <3> QED
      BY <2>3, <3>1, MigrationSafe
  <2> QED
    BY <1>1, <2>1, <2>2, <2>3 DEF Command
<1>2. CASE Step
  <2>1. ASSUME NEW m \in net, HandleIdentify(m) \/ OrchestratorStep(m) PROVE Safe'
    BY <2>1, IdentifySafe, StartedSafe, StoppedSafe, OriginReadySafe, DestReadySafe,
       AllSentSafe, UserEvtSafe DEF OrchestratorStep
  <2>2. ASSUME NEW m \in net, NodeStep(m) PROVE Safe'
    <3>1. ~ShutsDown(m)
      BY DEF ShutsDown, Received, Safe, Joined
    <3> QED
      BY <2>2, <3>1, StartsSafe, StopsSafe, PreparesOriginSafe, PreparesDestSafe,
         TransfersSafe, LearnsSafe, HandlesSafe DEF NodeStep
  <2> QED
    BY <1>2, <2>1, <2>2, OpensSafe DEF Step
<1>3. CASE Recovery
  <2>1. \A n \in Nodes : ~NoticeDrop(n)
    BY DEF NoticeDrop, Safe, Joined
  <2> QED
    BY <1>3, <2>1, ConnectSafe DEF Recovery
<1>4. CASE Failure
  <2>1. drops' # drops + 1
    BY <1>0 DEF Undisturbed
  <2>2. \A n \in Nodes : ~Drop(n) /\ ~Die(n)
    BY <2>1 DEF Drop, Die
  <2>3. ~Restart
    BY <2>1 DEF Restart
  <2>4. \A m \in net : ~Lose(m)
    BY NothingToLose
  <2> QED
    BY <1>4, <2>2, <2>3, <2>4 DEF Failure
<1>5. CASE UNCHANGED vars
  <2>1. UNCHANGED <<conn, node, net, gw>>
    BY <1>5 DEF vars
  <2> QED
    BY <2>1, QuietSafe DEF Open
<1> QED
  BY <1>1, <1>2, <1>3, <1>4, <1>5 DEF Next

-----------------------------------------------------------------------------
\* Commands are counted one by one.
LEMMA OpsGrow ==
  ASSUME [Next]_vars
  PROVE  ops' = ops \/ ops' = ops + 1
<1>1. CASE Command
  BY <1>1, Zenon DEF Command, StopShard, StartShardMigration, MigrateToBusy
<1>2. CASE Step
  <2>1. \A m \in net : NodeStep(m) => UNCHANGED ops
    BY Zenon DEF NodeStep, StartsShards, StopsShard, PreparesOrigin, PreparesDest,
       TransfersFrom, LearnsTotal, HandlesUserEvt, ShutsDown, Noticed
  <2>2. \A m \in net : HandleIdentify(m) \/ OrchestratorStep(m) => UNCHANGED ops
    BY Zenon DEF OrchestratorStep, HandleIdentify, HandleStarted, HandleStopped,
       HandleOriginReady, HandleDestReady, HandleAllSent, HandleUserEvt
  <2>3. \A n \in Nodes, s \in Shards : GatewayOpens(n, s) => UNCHANGED ops
    BY Zenon DEF GatewayOpens
  <2> QED
    BY <1>2, <2>1, <2>2, <2>3 DEF Step
<1>3. CASE Recovery \/ Failure
  BY <1>3, Zenon DEF Recovery, NoticeDrop, Reconnect, Failure, Drop, Die, Restart, Lose
<1>4. CASE UNCHANGED vars
  BY <1>4 DEF vars
<1> QED
  BY <1>1, <1>2, <1>3, <1>4 DEF Next

\* What has failed has failed.
LEMMA DisturbedStays ==
  ASSUME TypeOK, [Next]_vars, Undisturbed'
  PROVE  Undisturbed
<1>1. (drops' = drops \/ drops' = drops + 1) /\ (crashed' = crashed \/ crashed' = TRUE)
  <2>1. CASE Command
    BY <2>1, Zenon DEF Command, StartShards, StopShard, StartShardMigration, MigrateToBusy
  <2>2. CASE Step
    <3>1. \A m \in net : NodeStep(m) => UNCHANGED <<drops, crashed>>
      BY Zenon DEF NodeStep, StartsShards, StopsShard, PreparesOrigin, PreparesDest,
         TransfersFrom, LearnsTotal, HandlesUserEvt, ShutsDown, Noticed
    <3>2. \A m \in net : HandleIdentify(m) \/ OrchestratorStep(m) => UNCHANGED <<drops, crashed>>
      BY Zenon DEF OrchestratorStep, HandleIdentify, HandleStarted, HandleStopped,
         HandleOriginReady, HandleDestReady, HandleAllSent, HandleUserEvt
    <3>3. \A n \in Nodes, s \in Shards : GatewayOpens(n, s) => UNCHANGED <<drops, crashed>>
      BY Zenon DEF GatewayOpens
    <3> QED
      BY <2>2, <3>1, <3>2, <3>3 DEF Step
  <2>3. CASE Recovery
    BY <2>3, Zenon DEF Recovery, NoticeDrop, Reconnect
  <2>4. CASE Failure
    BY <2>4, Zenon DEF Failure, Drop, Die, Restart, Lose
  <2>5. CASE UNCHANGED vars
    BY <2>5 DEF vars
  <2> QED
    BY <2>1, <2>2, <2>3, <2>4, <2>5 DEF Next
<1>2. drops \in Nat
  BY BoundsAssumption DEF TypeOK
<1> QED
  BY <1>1, <1>2 DEF Undisturbed

LEMMA SafeAlways == ASSUME ~SlowOpen PROVE Spec => []SafeInv
<1>1. Init => SafeInv
  BY InitSafe, InitTyping DEF SafeInv
<1>2. SafeInv /\ [Next]_vars => SafeInv'
  <2> SUFFICES ASSUME SafeInv, [Next]_vars PROVE SafeInv'
    OBVIOUS
  <2>1. TypeOK /\ TypeOK'
    BY TypingStep DEF SafeInv
  <2>2. ASSUME Undisturbed' PROVE Safe'
    <3>1. Undisturbed
      BY <2>1, <2>2, DisturbedStays
    <3> QED
      BY <2>1, <2>2, <3>1, StepSafe DEF SafeInv
  <2> QED
    BY <2>1, <2>2 DEF SafeInv
<1> QED
  BY <1>1, <1>2, PTL DEF Spec

LEMMA OneOpen == ASSUME Safe PROVE Alone
<1> SUFFICES ASSUME NEW s \in Shards, NEW m \in Nodes, NEW n \in Nodes, Open(m, s), Open(n, s)
             PROVE  m = n
  BY DEF Alone
<1>1. CASE \E q \in net : q.kind = "start" /\ q.dir = "up" /\ s \in q.shards
  <2> PICK q \in net : q.kind = "start" /\ q.dir = "up" /\ s \in q.shards
    BY <1>1
  <2>1. Held(q, s)
    BY DEF Safe, Custody, About
  <2> QED
    BY <2>1 DEF Held
<1>2. CASE ~\E q \in net : q.kind = "start" /\ q.dir = "up" /\ s \in q.shards
  BY <1>2 DEF Safe, Custody
<1> QED
  BY <1>1, <1>2

(* As long as no connection or process has failed, no shard has, or is opening,
   a gateway connection in two nodes, whatever the commands (nodeconn.go,
   node.go): a shard that is moved is closed at its origin before the messages
   that let the destination open it are written, and no start overlooks a node
   that runs the shard.                                                      *)
THEOREM OneGateway ==
  ASSUME ~SlowOpen
  PROVE  Spec => [](Undisturbed => Alone /\ OneGatewayPerShard)
<1>1. SafeInv => (Undisturbed => Alone /\ OneGatewayPerShard)
  BY OneOpen DEF SafeInv, Alone, OneGatewayPerShard
<1> QED
  BY <1>1, SafeAlways, PTL

-----------------------------------------------------------------------------
(* The refinement of ShardOwnership, as long as nothing fails.              *)
\* No gateway is opened or closed, and no session started.
LEMMA NothingHeldChanges ==
  ASSUME gw' = gw, fresh' = fresh
  PROVE  [Ownership!Next]_(Ownership!vars)
<1>1. \A s \in Shards : {n \in Nodes : Open(n, s)}' = {n \in Nodes : Open(n, s)}
  BY DEF Open
<1> QED
  BY <1>1 DEF Ownership!vars, Open

\* A gateway is opened where there is none.
LEMMA TakesOwnership ==
  ASSUME NEW n \in Nodes, NEW S \in SUBSET Shards, fresh' = fresh,
         \A s \in S : Down(s),
         \A x \in Nodes, s \in Shards : Open(x, s)' <=> Open(x, s) \/ (x = n /\ s \in S)
  PROVE  Ownership!Next
<1>1. ASSUME NEW s \in Shards, s \in S PROVE Holds(s) = {} /\ Holds(s)' = {n}
  BY <1>1 DEF Holds, Down
<1>2. ASSUME NEW s \in Shards, s \notin S PROVE Holds(s)' = Holds(s)
  BY <1>2 DEF Holds
<1> QED
  BY <1>1, <1>2 DEF Ownership!Next, Ownership!Take, Ownership!Keep, Holds

\* A gateway is closed that only its node had.
LEMMA ReleasesOwnership ==
  ASSUME NEW n \in Nodes, NEW s \in Shards, fresh' = fresh,
         \A x \in Nodes : Open(x, s) => x = n,
         \A x \in Nodes, t \in Shards : Open(x, t)' <=> Open(x, t) /\ ~(x = n /\ t = s)
  PROVE  Ownership!Next
<1>1. Holds(s)' = {} /\ (Holds(s) = {} \/ Holds(s) # {})
  BY DEF Holds
<1>2. ASSUME NEW t \in Shards, t # s PROVE Holds(t)' = Holds(t)
  BY <1>2 DEF Holds
<1> QED
  BY <1>1, <1>2 DEF Ownership!Next, Ownership!Release, Ownership!Keep, Holds

\* One command about a shard that is up is on its way to n, so nobody else has it open.
LEMMA HeldAlone ==
  ASSUME TypeOK, Safe, NEW m \in net, m.kind \in {"stop", "prepare"},
         m.kind = "prepare" => m.origin, NEW x \in Nodes, Open(x, m.shard)
  PROVE  x = m.node
<1>1. m.shard \in Shards /\ m.node \in Nodes
  BY Fields DEF TypeOK
<1>2. About(m, m.shard) /\ m.shard \in conn[m.node].shards
  BY <1>1 DEF About, Held, Safe, Custody
<1>3. \A q \in net : ~(q.kind = "start" /\ m.shard \in q.shards)
  BY <1>1, <1>2 DEF About, Safe, OneAtATime
<1> QED
  BY <1>1, <1>2, <1>3 DEF Safe, Custody

LEMMA FinishTakes ==
  ASSUME TypeOK, Safe, NEW m \in net, NEW nd, Finish(m.node, nd, m), fresh' = fresh,
         m.node \in Nodes, node[m.node].mode = "to", nd.shard = node[m.node].shard
  PROVE  Ownership!Next
<1>1. nd.shard \in Shards /\ Down(nd.shard)
  BY DEF Safe, Follows, Custody, Takes
<1>2. \A x \in Nodes, t \in Shards : Open(x, t)' <=> Open(x, t) \/ (x = m.node /\ t \in {nd.shard})
  BY <1>1 DEF Finish, TypeOK, Open, Opened
<1>3. {nd.shard} \in SUBSET Shards /\ \A s \in {nd.shard} : Down(s)
  BY <1>1
<1> QED
  BY <1>2, <1>3, TakesOwnership

LEMMA StepOwns ==
  ASSUME TypeOK, Safe, ~SlowOpen, Undisturbed', [Next]_vars
  PROVE  [Ownership!Next]_(Ownership!vars)
<1>0. drops \in Nat
  BY BoundsAssumption DEF TypeOK
<1>1. ASSUME NEW m \in net, NodeStep(m) PROVE [Ownership!Next]_(Ownership!vars)
  <2>0. m \in Message /\ m.node \in Nodes
    BY Fields DEF TypeOK
  <2>1. CASE StartsShards(m)
    <3>1. m.shards \in SUBSET Shards /\ \A s \in m.shards : Down(s)
      BY <2>0, <2>1, Fields DEF StartsShards, Received, Safe, Custody, About, Held
    <3>2. \A x \in Nodes, s \in Shards : Open(x, s)' <=> Open(x, s) \/ (x = m.node /\ s \in m.shards)
      BY <2>0, <2>1, <3>1 DEF StartsShards, TypeOK, Open, Opened
    <3> QED
      BY <2>0, <2>1, <3>1, <3>2, TakesOwnership DEF StartsShards
  <2>2. CASE StopsShard(m)
    <3>1. m.kind = "stop" /\ m.shard \in Shards
      BY <2>0, <2>2, Fields DEF StopsShard, Received
    <3>2. \A x \in Nodes, t \in Shards : Open(x, t)' <=> Open(x, t) /\ ~(x = m.node /\ t = m.shard)
      BY <2>0, <2>2, <3>1, Closes DEF StopsShard
    <3> QED
      BY <2>0, <2>2, <3>1, <3>2, HeldAlone, ReleasesOwnership DEF StopsShard
  <2>3. CASE PreparesOrigin(m)
    <3>1. m.kind = "prepare" /\ m.origin /\ m.shard \in Shards
      BY <2>0, <2>3, Fields DEF PreparesOrigin, Received
    <3>2. \A x \in Nodes, t \in Shards : Open(x, t)' <=> Open(x, t) /\ ~(x = m.node /\ t = m.shard)
      BY <2>0, <2>3, <3>1, Closes DEF PreparesOrigin
    <3> QED
      BY <2>0, <2>3, <3>1, <3>2, HeldAlone, ReleasesOwnership DEF PreparesOrigin
  <2>4. CASE LearnsTotal(m)
    <3> DEFINE nd == [node[m.node] EXCEPT !.total = m.num]
    <3>1. node[m.node].mode = "to" /\ node[m.node].shard \in Shards
      BY <2>0, <2>4 DEF LearnsTotal, Received, Safe, Pairs, Follows
    <3>2. nd.shard = node[m.node].shard /\ nd.shard # NoShard
      BY <2>0, <3>1, ShardsAssumption DEF TypeOK, Node, NoShard
    <3>3. Noticed(m, nd, EnoughHandled(nd))
      BY <2>4, Zenon DEF LearnsTotal
    <3> HIDE DEF nd
    <3>4. Finish(m.node, nd, m) \/ gw' = gw
      BY <3>2, <3>3, Zenon DEF Noticed
    <3>5. fresh' = fresh
      BY <3>3, Zenon DEF Noticed
    <3> QED
      BY <2>0, <3>1, <3>2, <3>4, <3>5, FinishTakes, NothingHeldChanges
  <2>5. CASE HandlesUserEvt(m)
    <3> DEFINE own == IF m.op = node[m.node].op THEN node[m.node].own + 1 ELSE node[m.node].own
               nd == [node[m.node] EXCEPT !.processed = @ + 1, !.own = own]
    <3>1. nd.shard = node[m.node].shard /\ nd.total = node[m.node].total /\ nd.total \in Nat \cup {-1}
      <4> HIDE DEF own
      <4> QED
        BY <2>0 DEF TypeOK, Node
    <3>2. Noticed(m, nd, EnoughHandled(nd)) /\ m.kind = "user" /\ m.dir = "down"
      BY <2>5, Zenon DEF HandlesUserEvt, Received
    <3>3. fresh' = fresh
      BY <3>2, Zenon DEF Noticed
    <3> HIDE DEF nd
    <3>4. CASE ~EnoughHandled(nd)
      <4>1. gw' = gw
        BY <3>2, <3>4, Zenon DEF Noticed
      <4> QED
        BY <3>3, <4>1, NothingHeldChanges
    <3>5. CASE EnoughHandled(nd)
      <4>1. node[m.node].mode = "to" /\ node[m.node].shard \in Shards
        BY <2>0, <3>1, <3>2, <3>5 DEF EnoughHandled, Safe, Follows
      <4>2. nd.shard # NoShard
        BY <3>1, <4>1, ShardsAssumption DEF NoShard
      <4>3. Finish(m.node, nd, m)
        BY <3>2, <3>5, <4>2, Zenon DEF Noticed
      <4> QED
        BY <2>0, <3>1, <3>3, <4>1, <4>3, FinishTakes
    <3> QED
      BY <3>4, <3>5
  <2>6. CASE PreparesDest(m) \/ TransfersFrom(m)
    BY <2>6, NothingHeldChanges DEF PreparesDest, TransfersFrom
  <2>7. ~ShutsDown(m)
    BY DEF ShutsDown, Received, Safe, Joined
  <2> QED
    BY <1>1, <2>1, <2>2, <2>3, <2>4, <2>5, <2>6, <2>7 DEF NodeStep
<1>2. ASSUME NEW n \in Nodes, NEW s \in Shards, GatewayOpens(n, s)
      PROVE  Ownership!Next
  <2>1. \A x \in Nodes, t \in Shards : Open(x, t)' <=> Open(x, t)
    BY <1>2 DEF GatewayOpens, Open, TypeOK
  <2>2. \A t \in Shards : Holds(t)' = Holds(t)
    BY <2>1 DEF Holds
  <2>3. Holds(s) # {}
    BY <1>2 DEF GatewayOpens, Holds, Open
  <2>4. \A t \in Shards : fresh'[t] = fresh[t] \/ (t = s /\ fresh'[t] = fresh[t] + 1)
    BY <1>2 DEF GatewayOpens, TypeOK
  <2> QED
    BY <2>2, <2>3, <2>4 DEF Ownership!Next, Ownership!Identify, Ownership!Keep, Holds
<1>3. CASE Command
  <2>1. UNCHANGED <<gw, fresh>>
    BY <1>3 DEF Command, StartShards, StopShard, StartShardMigration, MigrateToBusy, LoseOrchestrator
  <2> QED
    BY SMTT(30), <2>1, NothingHeldChanges
<1>4. CASE Step
  <2>1. ASSUME NEW m \in net, HandleIdentify(m) \/ OrchestratorStep(m)
        PROVE  [Ownership!Next]_(Ownership!vars)
    <3>1. UNCHANGED <<gw, fresh>>
      BY <2>1, Zenon DEF OrchestratorStep, HandleIdentify, HandleStarted, HandleStopped,
         HandleOriginReady, HandleDestReady, HandleAllSent, HandleUserEvt
    <3> QED
      BY <3>1, NothingHeldChanges
  <2> QED
    BY <1>1, <1>2, <1>4, <2>1 DEF Step
<1>5. CASE Recovery
  BY <1>5, NothingHeldChanges DEF Recovery, NoticeDrop, Reconnect
<1>6. CASE Failure
  <2>1. UNCHANGED <<gw, fresh>>
    BY <1>0, <1>6 DEF Failure, Drop, Die, Restart, LoseOrchestrator, Lose, Undisturbed
  <2> QED
    BY <2>1, NothingHeldChanges
<1>7. CASE UNCHANGED vars
  BY <1>7, NothingHeldChanges DEF vars
<1> QED
  BY <1>3, <1>4, <1>5, <1>6, <1>7 DEF Next

\* Where no connection and no process is lost, and no busy node migrated to, nothing fails.
LEMMA NothingFails ==
  ASSUME ~BusyTargets, MaxDrops = 0, TypeOK, Undisturbed, [Next]_vars
  PROVE  Undisturbed'
<1>1. TypeOK'
  BY TypingStep
<1>2. drops' = 0
  BY <1>1 DEF TypeOK
<1>3. crashed' = crashed
  <2>1. CASE Command
    BY <2>1, Zenon DEF Command, StartShards, StopShard, StartShardMigration, MigrateToBusy
  <2>2. CASE Step
    <3>1. \A m \in net : NodeStep(m) => crashed' = crashed
      BY Zenon DEF NodeStep, StartsShards, StopsShard, PreparesOrigin, PreparesDest,
         TransfersFrom, LearnsTotal, HandlesUserEvt, ShutsDown, Noticed
    <3>2. \A m \in net : HandleIdentify(m) \/ OrchestratorStep(m) => crashed' = crashed
      BY Zenon DEF OrchestratorStep, HandleIdentify, HandleStarted, HandleStopped,
         HandleOriginReady, HandleDestReady, HandleAllSent, HandleUserEvt
    <3>3. \A n \in Nodes, s \in Shards : GatewayOpens(n, s) => crashed' = crashed
      BY Zenon DEF GatewayOpens
    <3> QED
      BY <2>2, <3>1, <3>2, <3>3 DEF Step
  <2>3. CASE Recovery
    BY <2>3, Zenon DEF Recovery, NoticeDrop, Reconnect
  <2>4. CASE Failure
    BY <2>4, Zenon DEF Failure, Drop, Die, Restart, Lose
  <2>5. CASE UNCHANGED vars
    BY <2>5 DEF vars
  <2> QED
    BY <2>1, <2>2, <2>3, <2>4, <2>5 DEF Next
<1> QED
  BY <1>2, <1>3 DEF Undisturbed

(* Without failures the protocol keeps what the orchestrator promises: a shard
   is held by one node or by none, passes from one to another only through
   being held by none, and only its holder starts a session for it.          *)
THEOREM Implements ==
  ASSUME ~SlowOpen, ~BusyTargets, MaxDrops = 0
  PROVE  Spec => OwnsShards
<1>1. Init => Undisturbed /\ Ownership!Init
  <2> SUFFICES ASSUME Init PROVE Undisturbed /\ Ownership!Init
    OBVIOUS
  <2>1. Undisturbed
    BY DEF Init, Undisturbed
  <2>2. PICK at \in Placements :
          /\ gw = [n \in Nodes |-> [s \in Shards |->
               IF at[s] = n THEN [st |-> "open", session |-> 1]
                            ELSE [st |-> "closed", session |-> 0]]]
          /\ fresh = [s \in Shards |-> IF at[s] = NoNode THEN 0 ELSE 1]
    BY DEF Init
  <2>3. \A s \in Shards : Holds(s) = {n \in Nodes : at[s] = n}
    BY <2>2 DEF Holds, Open
  <2>4. \A s \in Shards : at[s] \in Nodes \cup {NoNode}
    BY ShardsAssumption
  <2>5. \A s \in Shards : Holds(s) \in {{}} \cup {{n} : n \in Nodes}
    BY <2>3, <2>4
  <2> QED
    BY <2>1, <2>2, <2>5 DEF Ownership!Init, Holds
<1>2. SafeInv /\ Undisturbed /\ [Next]_vars => Undisturbed'
  BY NothingFails DEF SafeInv
<1>3. SafeInv /\ Undisturbed /\ Undisturbed' /\ [Next]_vars => [Ownership!Next]_(Ownership!vars)
  BY StepOwns DEF SafeInv
<1>4. Spec => []SafeInv
  BY SafeAlways
<1> QED
  BY <1>1, <1>2, <1>3, <1>4, PTL DEF Spec, OwnsShards, Ownership!Spec

-----------------------------------------------------------------------------
(* The session of a shard is handed on as it is.                            *)

LEMMA InitNewest == Init => Newest
<1> SUFFICES ASSUME Init PROVE Newest
  OBVIOUS
<1>0. PICK at \in Placements :
      /\ conn = [n \in Nodes |-> IF n \in Newcomers THEN NoConn
                                 ELSE NewConn({s \in Shards : at[s] = n})]
      /\ node = [n \in Nodes |->
           [alive |-> TRUE, link |-> n \notin Newcomers,
            shards |-> {s \in Shards : at[s] = n},
            mode |-> "none", shard |-> 0, session |-> 0, processed |-> 0,
            total |-> 0, op |-> 0, own |-> 0]]
      /\ gw = [n \in Nodes |-> [s \in Shards |->
           IF at[s] = n THEN [st |-> "open", session |-> 1]
                        ELSE [st |-> "closed", session |-> 0]]]
      /\ fresh = [s \in Shards |-> IF at[s] = NoNode THEN 0 ELSE 1]
  BY DEF Init
<1>1. net = {}
  BY Zenon DEF Init
<1>2. \A n \in Nodes : node[n].mode = "none"
  BY <1>0
<1>3. \A n \in Nodes, s \in Shards :
        IF at[s] = n THEN gw[n][s].st = "open" /\ gw[n][s].session = 1 /\ fresh[s] = 1
                     ELSE gw[n][s].st = "closed"
  BY <1>0, ShardsAssumption
<1>4. \A n \in Nodes, s \in Shards : s \in conn[n].shards => at[s] = n
  <2> SUFFICES ASSUME NEW n \in Nodes, NEW s \in Shards, s \in conn[n].shards PROVE at[s] = n
    OBVIOUS
  <2>1. CASE n \in Newcomers
    <3>1. conn[n] = NoConn
      BY <1>0, <2>1
    <3>2. NewConn({}) \in Conn /\ NewConn({}).shards = {}
      BY ShardsAssumption DEF NewConn, Conn, Modes
    <3>3. NoConn.shards = {}
      BY <3>2 DEF NoConn, Conn
    <3> QED
      BY <3>1, <3>3
  <2>2. CASE n \notin Newcomers
    <3>1. conn[n] = NewConn({t \in Shards : at[t] = n})
      BY <1>0, <2>2
    <3>2. \A S : NewConn(S).shards = S
      BY DEF NewConn
    <3>3. conn[n].shards = {t \in Shards : at[t] = n}
      BY <3>1, <3>2
    <3> QED
      BY <3>3
  <2> QED
    BY <2>1, <2>2
<1> QED
  BY <1>1, <1>2, <1>3, <1>4 DEF Newest, Takes, Open

\* Steps of the orchestrator: no gateway changes, and no node.
LEMMA KeepsNewest ==
  ASSUME TypeOK, TypeOK', Newest, gw' = gw, fresh' = fresh,
         \A n \in Nodes : /\ node'[n].mode = node[n].mode /\ node'[n].shard = node[n].shard
                          /\ node'[n].session = node[n].session,
         \A n \in Nodes, s \in Shards : s \in conn'[n].shards => s \in conn[n].shards \/ Open(n, s),
         \A m \in net', s \in Shards :
           m \in net \/ /\ ~(m.kind = "start" /\ m.dir = "up")
                        /\ m.kind = "prepare" => \/ m.origin /\ m.dir = "down"
                                                 \/ m.session = fresh[m.shard] /\ fresh[m.shard] > 0,
         \A m \in net \ net', n \in Nodes, s \in Shards : ClosedBy(m, n, s) => s \notin conn'[n].shards
  PROVE  Newest'
<1>1. /\ \A n \in Nodes : \A s : Takes(n, s)' <=> Takes(n, s)
      /\ \A n, s : Open(n, s)' <=> Open(n, s)
  BY DEF Takes, Open
<1>2. \A n \in Nodes, s \in Shards :
        s \in conn'[n].shards => Open(n, s) \/ \E m \in net' : ClosedBy(m, n, s)
  BY DEF Newest
<1>3. Shards # {}
  BY ShardsAssumption
<1> QED
  BY <1>1, <1>2, <1>3 DEF Newest, ClosedBy

LEMMA CommandNewest ==
  ASSUME TypeOK, TypeOK', Safe, Newest, Command, Undisturbed'
  PROVE  Newest'
<1> DEFINE Asks ==
      /\ UNCHANGED <<gw, node, fresh>> /\ net \subseteq net'
      /\ \A n \in Nodes : conn'[n].shards = conn[n].shards
      /\ \A m \in net' \ net : m.dir = "down" /\ (m.kind = "prepare" => m.origin)
<1>0. Asks
  <2>1. ASSUME NEW n \in Nodes, NEW S \in SUBSET Shards, StartShards(n, S, ops') PROVE Asks
    BY <2>1 DEF StartShards, Deliverable, Start
  <2>2. ASSUME NEW s \in Shards, StopShard(s) PROVE Asks
    BY <2>2 DEF StopShard, Deliverable, Stop
  <2>3. ASSUME NEW from \in Nodes, NEW to \in Nodes, NEW s \in Shards, StartShardMigration(from, to, s)
        PROVE  Asks
    <3>1. \A n \in Nodes : conn'[n].shards = conn[n].shards
      <4>1. from # to
        BY <2>3 DEF StartShardMigration, Idle
      <4>2. conn' = [conn EXCEPT
              ![from] = [@ EXCEPT !.mode = "from", !.other = to, !.shard = s],
              ![to]   = [@ EXCEPT !.mode = "to", !.other = from, !.shard = s]]
        BY <2>3 DEF StartShardMigration
      <4>0. \A c \in Conn : \A mode, other :
              [c EXCEPT !.mode = mode, !.other = other, !.shard = s].shards = c.shards
        BY DEF Conn
      <4>3. conn'[from].shards = conn[from].shards
        <5>1. conn'[from] = [conn[from] EXCEPT !.mode = "from", !.other = to, !.shard = s]
          BY <4>1, <4>2 DEF TypeOK
        <5> QED
          BY <4>0, <5>1 DEF TypeOK
      <4>4. conn'[to].shards = conn[to].shards
        <5>1. conn'[to] = [conn[to] EXCEPT !.mode = "to", !.other = from, !.shard = s]
          BY <4>1, <4>2 DEF TypeOK
        <5> QED
          BY <4>0, <5>1 DEF TypeOK
      <4>5. \A n \in Nodes \ {from, to} : conn'[n] = conn[n]
        BY <4>2 DEF TypeOK
      <4> QED
        BY <4>3, <4>4, <4>5
    <3>2. net' = net \cup Deliverable({Prepare("down", from, ops', s, TRUE, 0)})
      BY <2>3 DEF StartShardMigration
    <3>3. net \subseteq net' /\ \A m \in net' \ net : m.kind = "prepare" /\ m.dir = "down" /\ m.origin
      BY <3>2 DEF Deliverable, Prepare
    <3>4. UNCHANGED <<gw, node, fresh>>
      BY <2>3 DEF StartShardMigration
    <3> QED
      BY <3>1, <3>3, <3>4
  <2>4. \A from, to \in Nodes, s \in Shards : ~MigrateToBusy(from, to, s)
    BY DEF MigrateToBusy, Undisturbed
  <2> QED
    BY <2>1, <2>2, <2>3, <2>4 DEF Command
<1> QED
  BY <1>0, KeepsNewest

LEMMA OrchestratorNewest ==
  ASSUME TypeOK, TypeOK', Safe, Newest, NEW m \in net, HandleIdentify(m) \/ OrchestratorStep(m)
  PROVE  Newest'
<1>0. m \in Message /\ m.node \in Nodes
  BY Fields DEF TypeOK
<1>1. UNCHANGED <<gw, node, fresh>>
  BY Zenon DEF HandleIdentify, OrchestratorStep, HandleStarted, HandleStopped,
     HandleOriginReady, HandleDestReady, HandleAllSent, HandleUserEvt
<1>2. CASE HandleIdentify(m)
  <2>1. m.shards = {} /\ m.kind = "identify"
    BY <1>2 DEF HandleIdentify, Safe, Joined, Identify
  <2>2. \A n \in Nodes, s \in Shards : s \in conn'[n].shards => s \in conn[n].shards
    BY <1>0, <1>2, <2>1 DEF HandleIdentify, Identified, NewConn, TypeOK
  <2>3. net' = net \ {m}
    BY <1>2 DEF HandleIdentify
  <2> QED
    BY <1>1, <2>1, <2>2, <2>3, KeepsNewest DEF ClosedBy
<1>3. CASE HandleStarted(m)
  <2>1. m.kind = "start" /\ m.dir = "up" /\ m.shards \subseteq Shards
    BY <1>0, <1>3, Fields DEF HandleStarted, Arrived
  <2>2. \A n \in Nodes, s \in Shards :
          s \in conn'[n].shards => s \in conn[n].shards \/ (n = m.node /\ s \in m.shards)
    BY <1>0, <1>3 DEF HandleStarted, TypeOK, Conn
  <2>3. net' = net \ {m}
    BY <1>3 DEF HandleStarted
  <2>4. \A s \in m.shards : Open(m.node, s)
    BY <2>1 DEF Newest
  <2> QED
    BY <1>1, <2>1, <2>2, <2>3, <2>4, KeepsNewest DEF ClosedBy
<1>4. CASE HandleStopped(m)
  <2>1. \A n \in Nodes, s \in Shards :
          s \in conn'[n].shards <=> s \in conn[n].shards /\ ~(n = m.node /\ s = m.shard)
    BY <1>0, <1>4 DEF HandleStopped, TypeOK, Conn
  <2>2. net' = net \ {m}
    BY <1>4 DEF HandleStopped
  <2> QED
    BY <1>1, <2>1, <2>2, KeepsNewest DEF ClosedBy
<1>5. CASE HandleOriginReady(m)
  <2>1. m.kind = "prepare" /\ m.dir = "up" /\ m.origin /\ m.shard \in Shards
    BY <1>0, <1>5, Fields DEF HandleOriginReady, Arrived
  <2>2. OtherKnown(m.node)
    <3>1. Pair(m.node, conn[m.node].other, m.shard)
      BY <2>1 DEF Safe, Pairs
    <3> QED
      BY <3>1, ShardsAssumption DEF OtherKnown, Safe, Joined, Pair
  <2>3. \A n \in Nodes, s \in Shards :
          s \in conn'[n].shards <=> s \in conn[n].shards /\ ~(n = m.node /\ s = m.shard)
    BY <1>0, <1>5, <2>2 DEF HandleOriginReady, WithoutShard, TypeOK, Conn
  <2>4. m.session = fresh[m.shard] /\ fresh[m.shard] > 0
    BY <2>1 DEF Newest
  <2>5. /\ net \ {m} \subseteq net'
        /\ \A q \in net' \ net : /\ q.kind = "prepare" /\ q.shard = m.shard
                                 /\ q.session = m.session
    BY <1>5, <2>2 DEF HandleOriginReady, Forward, Deliverable, Prepare
  <2>6. \A q \in net \ net' : q = m
    BY <2>5
  <2>7. \A q \in net', s \in Shards :
          q \in net \/ /\ ~(q.kind = "start" /\ q.dir = "up")
                       /\ q.kind = "prepare" => \/ q.origin /\ q.dir = "down"
                                                \/ q.session = fresh[q.shard] /\ fresh[q.shard] > 0
    BY <2>4, <2>5
  <2>8. \A q \in net \ net', n \in Nodes, s \in Shards : ClosedBy(q, n, s) => s \notin conn'[n].shards
    BY <2>3, <2>6 DEF ClosedBy
  <2> QED
    BY <1>1, <2>3, <2>7, <2>8, KeepsNewest
<1>6. CASE HandleDestReady(m) \/ HandleAllSent(m) \/ HandleUserEvt(m)
  <2>1. \A n \in Nodes : conn'[n].shards = conn[n].shards
    <3>1. CASE HandleAllSent(m)
      BY <1>0, <3>1 DEF HandleAllSent, TypeOK, Conn
    <3>2. CASE HandleDestReady(m) \/ HandleUserEvt(m)
      BY <3>2 DEF HandleDestReady, HandleUserEvt
    <3> QED
      BY <1>6, <3>1, <3>2
  <2>2. /\ net \ {m} \subseteq net' /\ \A q \in net' \ net : q.kind \in {"transfer", "allsent", "user"}
        /\ m.kind \notin {"stop", "start"} /\ ~(m.kind = "prepare" /\ m.origin)
    BY <1>6 DEF HandleDestReady, HandleAllSent, HandleUserEvt, Arrived, Forward, Deliverable,
       StartMigration, AllSent, UserEvt
  <2>3. \A q \in net \ net', n \in Nodes, s \in Shards : ~ClosedBy(q, n, s)
    BY <2>2 DEF ClosedBy
  <2> QED
    BY <1>1, <2>1, <2>2, <2>3, KeepsNewest
<1> QED
  BY <1>2, <1>3, <1>4, <1>5, <1>6 DEF OrchestratorStep

\* A destination that finishes opens the newest session.
LEMMA FinishNewest ==
  ASSUME TypeOK, Safe, Newest, NEW m \in net, NEW nd, Finish(m.node, nd, m),
         conn' = conn, fresh' = fresh, nd \in Node,
         m.kind \in {"allsent", "user"}, m.dir = "down",
         m.node \in Nodes, node[m.node].mode = "to",
         nd.shard = node[m.node].shard, nd.session = node[m.node].session
  PROVE  /\ Newest'
         /\ fresh[nd.shard] > 0 /\ gw'[m.node][nd.shard].session = fresh[nd.shard]
<1> DEFINE b == m.node
           s == nd.shard
<1>1. s \in Shards /\ Takes(b, s) /\ Down(s) /\ nd.session = fresh[s] /\ fresh[s] > 0
  BY DEF Safe, Follows, Custody, Takes, Newest
<1>2. /\ \A x \in Nodes, t \in Shards : ~(x = b /\ t = s) => gw'[x][t] = gw[x][t]
      /\ gw'[b][s].st = "opening" /\ gw'[b][s].session = fresh[s]
  BY <1>1 DEF Finish, TypeOK, Opened
<1>3. \A x \in Nodes : x # b => node'[x] = node[x]
  BY DEF Finish, TypeOK
<1>4. node'[b].mode = "none"
  BY DEF Finish, Forgotten, TypeOK, Node
<1>5. \A q \in net' : q \in net \ {m} \/ (q.kind = "start" /\ q.dir = "up" /\ q.node = b /\ q.shards = {s})
  BY DEF Finish, Start
<1>6. net \ {m} \subseteq net'
  BY DEF Finish
<1>7. m.kind \in {"allsent", "user"} /\ m.node \in Nodes
  OBVIOUS
<1>8. \A q \in net : q.node \in Nodes /\ (q.kind = "start" => q.shards \subseteq Shards)
  BY Fields DEF TypeOK
<1> HIDE DEF b, s
<1>9. /\ \A x \in Nodes : \A t : Takes(x, t)' => Takes(x, t)
      /\ \A x \in Nodes, t \in Shards : Open(x, t)' <=> Open(x, t) \/ (x = b /\ t = s)
  BY <1>1, <1>2, <1>3, <1>4 DEF Takes, Open
<1>10. \A n \in Nodes, t \in Shards :
         t \in conn[n].shards => Open(n, t)' \/ \E q \in net' : ClosedBy(q, n, t)
  BY <1>6, <1>7, <1>9 DEF Newest, ClosedBy
<1>11. \A n \in Nodes, t \in Shards : Takes(n, t)' => node'[n].session = fresh[t] /\ fresh[t] > 0
  BY <1>3, <1>4, <1>9 DEF Newest, Takes
<1>12. \A n \in Nodes, t \in Shards :
         /\ gw'[n][t].st = "open" => gw'[n][t].session = fresh[t] /\ fresh[t] > 0
         /\ gw'[n][t].st = "opening" /\ gw'[n][t].session # 0 => gw'[n][t].session = fresh[t]
  BY <1>2 DEF Newest
<1>13. \A q \in net' : q.kind = "start" /\ q.dir = "up" => \A t \in q.shards : Open(q.node, t)'
  <2> SUFFICES ASSUME NEW q \in net', q.kind = "start", q.dir = "up", NEW t \in q.shards
               PROVE  Open(q.node, t)'
    OBVIOUS
  <2>1. CASE q \in net
    <3>1. Open(q.node, t) /\ q.node \in Nodes /\ t \in Shards
      BY <1>8, <2>1 DEF Newest
    <3> QED
      BY <1>9, <3>1
  <2>2. CASE q \notin net
    BY <1>1, <1>5, <1>7, <1>9, <2>2 DEF b
  <2> QED
    BY <2>1, <2>2
<1>14. \A q \in net' : q.kind = "prepare" => \/ q.origin /\ q.dir = "down"
                                             \/ q.session = fresh[q.shard] /\ fresh[q.shard] > 0
  BY <1>5 DEF Newest
<1>15. Newest'
  BY <1>10, <1>11, <1>12, <1>13, <1>14 DEF Newest
<1> QED
  BY <1>1, <1>2, <1>15 DEF b, s

LEMMA StartsNewest ==
  ASSUME TypeOK, TypeOK', Safe, Newest, NEW m \in net, StartsShards(m)
  PROVE  Newest' /\ NoFinish
<1> DEFINE n == m.node
           new == Start("up", n, m.op, m.shards)
<1>0. \A q \in net : q.node \in Nodes /\ (q.kind = "start" => q.shards \subseteq Shards)
  BY Fields DEF TypeOK
<1>1. /\ conn' = conn /\ fresh' = fresh /\ m.kind = "start" /\ m.dir = "down"
      /\ n \in Nodes /\ m.shards \subseteq Shards
  BY <1>0 DEF StartsShards, Received
<1>2. \A x \in Nodes : /\ node'[x].mode = node[x].mode /\ node'[x].shard = node[x].shard
                       /\ node'[x].session = node[x].session
  BY SMTT(30), <1>1 DEF StartsShards, TypeOK, Node
<1>3. \A x \in Nodes, s \in Shards :
        IF x = n /\ s \in m.shards THEN gw'[x][s].st = "opening" /\ gw'[x][s].session = 0
                                   ELSE gw'[x][s] = gw[x][s]
  BY <1>1 DEF StartsShards, TypeOK, Opened
<1>4. /\ net' = (net \ {m}) \cup {new}
      /\ new.kind = "start" /\ new.dir = "up" /\ new.node = n /\ new.shards = m.shards
  BY DEF StartsShards, Start
<1> HIDE DEF n, new
<1>5. /\ \A x \in Nodes : \A t : Takes(x, t)' <=> Takes(x, t)
      /\ \A x \in Nodes, s \in Shards : Open(x, s)' <=> Open(x, s) \/ (x = n /\ s \in m.shards)
  BY <1>2, <1>3 DEF Takes, Open
<1>6. \A x \in Nodes, s \in Shards :
        s \in conn[x].shards => Open(x, s)' \/ \E q \in net' : ClosedBy(q, x, s)
  BY <1>1, <1>4, <1>5 DEF Newest, ClosedBy
<1>7. \A q \in net' : q.kind = "start" /\ q.dir = "up" => \A t \in q.shards : Open(q.node, t)'
  BY <1>0, <1>1, <1>4, <1>5 DEF Newest
<1>8. \A q \in net' : q.kind = "prepare" => \/ q.origin /\ q.dir = "down"
                                            \/ q.session = fresh[q.shard] /\ fresh[q.shard] > 0
  BY <1>4 DEF Newest
<1>9. \A x \in Nodes, s \in Shards :
         /\ gw'[x][s].st = "open" => gw'[x][s].session = fresh[s] /\ fresh[s] > 0
         /\ gw'[x][s].st = "opening" /\ gw'[x][s].session # 0 => gw'[x][s].session = fresh[s]
  BY <1>3 DEF Newest
<1>10. \A x \in Nodes, s \in Shards : Takes(x, s)' => node'[x].session = fresh[s] /\ fresh[s] > 0
  BY <1>2, <1>5 DEF Newest
<1>11. NoFinish
  BY <1>2 DEF NoFinish, Finishes
<1> QED
  BY <1>1, <1>6, <1>7, <1>8, <1>9, <1>10, <1>11 DEF Newest

LEMMA ClosesNewest ==
  ASSUME TypeOK, TypeOK', Safe, Newest, ~SlowOpen, NEW m \in net, StopsShard(m) \/ PreparesOrigin(m)
  PROVE  Newest' /\ NoFinish
<1> DEFINE n == m.node
           s == m.shard
<1>0. \A q \in net : q.node \in Nodes /\ (q.kind = "start" => q.shards \subseteq Shards)
  BY Fields DEF TypeOK
<1>1. /\ conn' = conn /\ fresh' = fresh /\ m.kind \in {"stop", "prepare"} /\ m.dir = "down"
      /\ m.kind = "prepare" => m.origin
      /\ n \in Nodes /\ s \in Shards
      /\ gw' = [gw EXCEPT ![n][s] = Closed(@)]
      /\ \A t \in Shards : SlowOpen \/ gw[n][t].st # "opening"
  BY Fields DEF StopsShard, PreparesOrigin, Received, TypeOK
<1>2. gw[n][s] \in Gateway
  BY <1>1 DEF TypeOK
<1>3. /\ \A x \in Nodes, t \in Shards : ~(x = n /\ t = s) => gw'[x][t] = gw[x][t]
      /\ gw'[n][s].st = "closed"
  BY <1>1, <1>2 DEF TypeOK, Closed, Gateway
<1>4. /\ \A x \in Nodes : x # n => node'[x] = node[x]
      /\ \/ /\ node'[n].mode = node[n].mode /\ node'[n].shard = node[n].shard
            /\ node'[n].session = node[n].session
         \/ node'[n].mode = "from" /\ node'[n].shard = s
  <2>1. node[n] \in Node
    BY <1>1 DEF TypeOK
  <2>2. CASE StopsShard(m)
    BY <1>1, <2>1, <2>2 DEF StopsShard, TypeOK, Node
  <2>3. CASE PreparesOrigin(m)
    <3>1. node' = [node EXCEPT ![n] = [node[n] EXCEPT !.mode = "from", !.shard = s,
                                                      !.shards = node[n].shards \ {s}]]
      BY <2>3 DEF PreparesOrigin
    <3>2. \A x \in Nodes : x # n => node'[x] = node[x]
      BY <3>1 DEF TypeOK
    <3>3. node'[n] = [node[n] EXCEPT !.mode = "from", !.shard = s, !.shards = node[n].shards \ {s}]
      BY <1>1, <3>1 DEF TypeOK
    <3>4. node'[n].mode = "from" /\ node'[n].shard = s
      BY <2>1, <3>3 DEF Node
    <3> QED
      BY <3>2, <3>4
  <2> QED
    BY <2>2, <2>3
<1>5. \E new : /\ net' = (net \ {m}) \cup {new} /\ ClosedBy(new, n, s)
               /\ new.kind = "prepare" => new.session = gw[n][s].session
  <2>1. CASE StopsShard(m)
    <3> DEFINE q == Stop("up", n, m.op, s)
    <3>1. net' = (net \ {m}) \cup {q}
      BY <2>1 DEF StopsShard
    <3>2. q.kind = "stop" /\ q.dir = "up" /\ q.node = n /\ q.shard = s
      BY DEF Stop
    <3> HIDE DEF q
    <3> QED
      BY <3>1, <3>2 DEF ClosedBy
  <2>2. CASE PreparesOrigin(m)
    <3> DEFINE q == Prepare("up", n, m.op, s, TRUE, gw[n][s].session)
    <3>1. net' = (net \ {m}) \cup {q}
      BY <2>2 DEF PreparesOrigin
    <3>2. /\ q.kind = "prepare" /\ q.dir = "up" /\ q.node = n /\ q.shard = s /\ q.origin
          /\ q.session = gw[n][s].session
      BY DEF Prepare
    <3> HIDE DEF q
    <3> QED
      BY <3>1, <3>2 DEF ClosedBy
  <2> QED
    BY <2>1, <2>2
<1>50. PICK new : /\ net' = (net \ {m}) \cup {new} /\ ClosedBy(new, n, s)
                  /\ new.kind = "prepare" => new.session = gw[n][s].session
  BY <1>5
<1>6. About(m, s) /\ s \in conn[n].shards
  BY <1>1 DEF About, Held, Safe, Custody
<1>7. \A q \in net \ {m} : ~About(q, s)
  BY <1>1, <1>6 DEF Safe, OneAtATime
<1>8. gw[n][s].st = "open" /\ gw[n][s].session = fresh[s] /\ fresh[s] > 0
  <2>1. \A q \in net : ~ClosedBy(q, n, s)
    BY <1>1, <1>7 DEF ClosedBy, About
  <2>2. Open(n, s)
    BY <1>1, <1>6, <2>1 DEF Newest
  <2> QED
    BY <1>1, <1>2, <2>2 DEF Newest, Open, Gateway
<1> HIDE DEF n, s
<1>9. /\ \A x \in Nodes : \A t : Takes(x, t)' => Takes(x, t) /\ node'[x].session = node[x].session
      /\ \A x \in Nodes, t \in Shards : Open(x, t)' <=> Open(x, t) /\ ~(x = n /\ t = s)
  BY <1>3, <1>4 DEF Takes, Open
<1>51. /\ new \in net' /\ \A q \in net' : q = new \/ q \in net \ {m}
       /\ \A q \in net : q = m \/ q \in net'
       /\ new.kind \in {"stop", "prepare"} /\ new.dir = "up" /\ new.node = n /\ new.shard = s
       /\ new.kind = "prepare" => new.session = fresh[s]
  BY <1>50, <1>8 DEF ClosedBy
<1>10. \A x \in Nodes, t \in Shards :
         t \in conn[x].shards => Open(x, t)' \/ \E q \in net' : ClosedBy(q, x, t)
  <2> SUFFICES ASSUME NEW x \in Nodes, NEW t \in Shards, t \in conn[x].shards
               PROVE  Open(x, t)' \/ \E q \in net' : ClosedBy(q, x, t)
    OBVIOUS
  <2>1. CASE x = n /\ t = s
    BY <2>1, <1>50, <1>51
  <2>2. CASE ~(x = n /\ t = s) /\ Open(x, t)
    BY <2>2, <1>9
  <2>3. CASE ~Open(x, t)
    <3>1. PICK q \in net : ClosedBy(q, x, t)
      BY <2>3 DEF Newest
    <3>2. q # m
      BY <1>1, <3>1 DEF ClosedBy
    <3> QED
      BY <1>51, <3>1, <3>2
  <2> QED
    BY <2>1, <2>2, <2>3
<1>11. \A q \in net' : q.kind = "start" /\ q.dir = "up" => \A t \in q.shards : Open(q.node, t)'
  <2> SUFFICES ASSUME NEW q \in net', q.kind = "start", q.dir = "up", NEW t \in q.shards
               PROVE  Open(q.node, t)'
    OBVIOUS
  <2>1. q \in net \ {m}
    BY <1>51
  <2>2. Open(q.node, t) /\ q.node \in Nodes /\ t \in Shards
    BY <1>0, <2>1 DEF Newest
  <2>3. t # s
    BY <1>7, <2>1 DEF About
  <2> QED
    BY <1>9, <2>2, <2>3
<1>12. \A q \in net' : q.kind = "prepare" => \/ q.origin /\ q.dir = "down"
                                             \/ q.session = fresh[q.shard] /\ fresh[q.shard] > 0
  BY <1>51, <1>8 DEF Newest
<1>13. \A x \in Nodes, t \in Shards :
          /\ gw'[x][t].st = "open" => gw'[x][t].session = fresh[t] /\ fresh[t] > 0
          /\ gw'[x][t].st = "opening" /\ gw'[x][t].session # 0 => gw'[x][t].session = fresh[t]
  BY <1>3 DEF Newest
<1>14. \A x \in Nodes, t \in Shards : Takes(x, t)' => node'[x].session = fresh[t] /\ fresh[t] > 0
  BY <1>9 DEF Newest
<1>15. NoFinish
  BY <1>1, <1>4, ShardsAssumption DEF NoFinish, Finishes, NoShard
<1> QED
  BY <1>1, <1>10, <1>11, <1>12, <1>13, <1>14, <1>15 DEF Newest

LEMMA PreparesDestNewest ==
  ASSUME TypeOK, TypeOK', Safe, Newest, NEW m \in net, PreparesDest(m)
  PROVE  Newest' /\ NoFinish
<1> DEFINE b == m.node
           s == m.shard
           new == Prepare("up", b, m.op, s, FALSE, m.session)
<1>1. /\ conn' = conn /\ gw' = gw /\ fresh' = fresh
      /\ m.kind = "prepare" /\ m.dir = "down" /\ ~m.origin /\ b \in Nodes /\ s \in Shards
  BY Fields DEF PreparesDest, Received, TypeOK
<1>2. /\ \A x \in Nodes : x # b => node'[x] = node[x]
      /\ node'[b].mode = "to" /\ node'[b].shard = s /\ node'[b].session = m.session
  BY <1>1 DEF PreparesDest, Prepared, TypeOK, Node
<1>3. /\ net' = (net \ {m}) \cup {new}
      /\ new.kind = "prepare" /\ new.shard = s /\ new.session = m.session
  BY DEF PreparesDest, Prepare
<1>4. m.session = fresh[s] /\ fresh[s] > 0
  BY <1>1 DEF Newest
<1> HIDE DEF b, s, new
<1>5. /\ \A x, t : Open(x, t)' <=> Open(x, t)
      /\ \A x \in Nodes : \A t : Takes(x, t)' => Takes(x, t) \/ (x = b /\ t = s)
  BY <1>1, <1>2 DEF Open, Takes
<1>6. \A x \in Nodes, t \in Shards : Takes(x, t)' => node'[x].session = fresh[t] /\ fresh[t] > 0
  BY <1>2, <1>4 DEF Takes, Newest
<1>7. \A x \in Nodes, t \in Shards :
        t \in conn[x].shards => Open(x, t) \/ \E q \in net' : ClosedBy(q, x, t)
  BY <1>1, <1>3 DEF Newest, ClosedBy
<1>8. \A q \in net' : /\ q.kind = "start" /\ q.dir = "up" => \A t \in q.shards : Open(q.node, t)
                      /\ q.kind = "prepare" => \/ q.origin /\ q.dir = "down"
                                               \/ q.session = fresh[q.shard] /\ fresh[q.shard] > 0
  BY <1>3, <1>4 DEF Newest
<1>9. NoFinish
  BY <1>1, <1>2, ShardsAssumption DEF NoFinish, Finishes, NoShard
<1> QED
  BY <1>1, <1>5, <1>6, <1>7, <1>8, <1>9 DEF Newest

\* The destination handles the last message of a migration, or waits for more.
LEMMA NoticedNewest ==
  ASSUME TypeOK, TypeOK', Safe, Newest, NEW m \in net, NEW nd \in Node, NEW done \in BOOLEAN,
         Noticed(m, nd, done), m.kind \in {"allsent", "user"}, m.dir = "down",
         nd.mode = node[m.node].mode, nd.shard = node[m.node].shard,
         nd.session = node[m.node].session,
         done => node[m.node].mode = "to"
  PROVE  /\ Newest'
         /\ \A n \in Nodes : Finishes(n) => /\ fresh[node[n].shard] > 0
                                            /\ gw'[n][node[n].shard].session = fresh[node[n].shard]
<1>1. conn' = conn /\ fresh' = fresh /\ m.node \in Nodes
  BY Fields DEF Noticed, TypeOK
<1>2. CASE done
  <2>1. nd.shard # NoShard
    BY <1>1, <1>2, ShardsAssumption DEF Safe, Follows, NoShard
  <2>2. Finish(m.node, nd, m)
    BY <1>2, <2>1, Zenon DEF Noticed
  <2>3. Newest' /\ fresh[nd.shard] > 0 /\ gw'[m.node][nd.shard].session = fresh[nd.shard]
    BY <1>1, <1>2, <2>2, FinishNewest
  <2>4. \A n \in Nodes : n # m.node => node'[n] = node[n]
    BY <1>1, <2>2 DEF Finish, TypeOK
  <2> QED
    BY <2>3, <2>4 DEF Finishes
<1>3. CASE ~done
  <2>1. node' = [node EXCEPT ![m.node] = nd] /\ net' = net \ {m} /\ gw' = gw
    BY <1>3, Zenon DEF Noticed
  <2>2. \A n \in Nodes : /\ node'[n].mode = node[n].mode /\ node'[n].shard = node[n].shard
                         /\ node'[n].session = node[n].session
    BY <2>1 DEF TypeOK
  <2>3. Newest'
    BY <1>1, <2>1, <2>2, KeepsNewest DEF ClosedBy
  <2> QED
    BY <2>2, <2>3 DEF Finishes
<1> QED
  BY <1>2, <1>3

LEMMA NodeNewest ==
  ASSUME TypeOK, TypeOK', Safe, Newest, ~SlowOpen, NEW m \in net, NodeStep(m)
  PROVE  /\ Newest'
         /\ \A n \in Nodes : Finishes(n) => /\ fresh[node[n].shard] > 0
                                            /\ gw'[n][node[n].shard].session = fresh[node[n].shard]
<1>0. m.node \in Nodes /\ node[m.node] \in Node
  BY Fields DEF TypeOK
<1>1. CASE StartsShards(m) \/ StopsShard(m) \/ PreparesOrigin(m) \/ PreparesDest(m)
  BY <1>1, StartsNewest, ClosesNewest, PreparesDestNewest DEF NoFinish
<1>2. CASE TransfersFrom(m)
  <2>1. UNCHANGED <<conn, node, gw, fresh>> /\ m.kind = "transfer"
    BY <1>2 DEF TransfersFrom, Received
  <2>2. /\ net \ {m} \subseteq net' /\ \A q \in net' : q \in net \/ q.kind \in {"allsent", "user"}
    BY <1>2 DEF TransfersFrom, AllSent, UserEvt
  <2>3. \A q \in net \ net', n \in Nodes, s \in Shards : ~ClosedBy(q, n, s)
    BY <2>1, <2>2 DEF ClosedBy
  <2>4. Newest'
    BY <2>1, <2>2, <2>3, KeepsNewest
  <2> QED
    BY <2>1, <2>4 DEF Finishes
<1>3. CASE LearnsTotal(m)
  <2> DEFINE nd == [node[m.node] EXCEPT !.total = m.num]
  <2>1. m.kind = "allsent" /\ m.dir = "down" /\ m.num \in Nat
    BY <1>3, Fields DEF LearnsTotal, Received, TypeOK
  <2>2. /\ nd \in Node /\ nd.mode = node[m.node].mode /\ nd.shard = node[m.node].shard
        /\ nd.session = node[m.node].session
    BY <1>0, <2>1 DEF Node
  <2>3. Noticed(m, nd, EnoughHandled(nd)) /\ EnoughHandled(nd) \in BOOLEAN
    BY <1>3, Zenon DEF LearnsTotal, EnoughHandled
  <2>4. node[m.node].mode = "to"
    BY <2>1 DEF Safe, Pairs
  <2> HIDE DEF nd
  <2> QED
    BY <2>1, <2>2, <2>3, <2>4, NoticedNewest
<1>4. CASE HandlesUserEvt(m)
  <2> DEFINE own == IF m.op = node[m.node].op THEN node[m.node].own + 1 ELSE node[m.node].own
             nd == [node[m.node] EXCEPT !.processed = @ + 1, !.own = own]
  <2>1. m.kind = "user" /\ m.dir = "down"
    BY <1>4 DEF HandlesUserEvt, Received
  <2>2. /\ nd \in Node /\ nd.mode = node[m.node].mode /\ nd.shard = node[m.node].shard
        /\ nd.session = node[m.node].session /\ nd.total = node[m.node].total
    <3>1. node[m.node].processed + 1 \in Nat /\ own \in Nat
      BY <1>0 DEF Node
    <3> HIDE DEF own
    <3> QED
      BY <1>0, <3>1 DEF Node
  <2>3. Noticed(m, nd, EnoughHandled(nd)) /\ EnoughHandled(nd) \in BOOLEAN
    BY <1>4, Zenon DEF HandlesUserEvt, EnoughHandled
  <2> HIDE DEF nd
  <2>4. EnoughHandled(nd) => node[m.node].mode = "to"
    BY <1>0, <2>1, <2>2 DEF EnoughHandled, Safe, Follows, Node
  <2> QED
    BY <2>1, <2>2, <2>3, <2>4, NoticedNewest
<1>5. ~ShutsDown(m)
  BY DEF ShutsDown, Received, Safe, Joined
<1> QED
  BY <1>1, <1>2, <1>3, <1>4, <1>5 DEF NodeStep

\* The gateway of a shard that is handed over, or is to be, is closed.
LEMMA OpensNewest ==
  ASSUME TypeOK, Safe, Newest, NEW n \in Nodes, NEW s \in Shards, GatewayOpens(n, s)
  PROVE  Newest' /\ NoFinish
<1>1. UNCHANGED <<conn, node, net>> /\ gw[n][s].st = "opening" /\ Open(n, s)
  BY DEF GatewayOpens, Open
<1>2. NoFinish
  BY <1>1 DEF NoFinish, Finishes
<1>3. /\ \A x \in Nodes, t \in Shards : ~(x = n /\ t = s) => gw'[x][t] = gw[x][t]
      /\ gw'[n][s].st = "open"
      /\ \A t \in Shards : t # s => fresh'[t] = fresh[t]
      /\ IF gw[n][s].session = 0
         THEN fresh'[s] = fresh[s] + 1 /\ gw'[n][s].session = fresh'[s]
         ELSE fresh'[s] = fresh[s] /\ gw'[n][s].session = gw[n][s].session
  BY DEF GatewayOpens, TypeOK
<1>4. fresh[s] \in Nat /\ gw[n][s].session \in Nat
  BY DEF TypeOK, Gateway
<1>5. gw'[n][s].session = fresh'[s] /\ fresh'[s] > 0
  <2>1. CASE gw[n][s].session = 0
    BY <1>3, <1>4, <2>1
  <2>2. CASE gw[n][s].session # 0
    BY <1>1, <1>3, <1>4, <2>2 DEF Newest
  <2> QED
    BY <2>1, <2>2
<1>6. \A x \in Nodes : Open(x, s) => x = n
  BY <1>1, OneOpen DEF Alone
<1>7. \A x \in Nodes : ~Takes(x, s)
  BY <1>1 DEF Safe, Custody, Down
<1>8. \A q \in net : q.kind = "prepare" /\ q.shard = s => q.origin /\ q.dir = "down"
  <2> SUFFICES ASSUME NEW q \in net, q.kind = "prepare", q.shard = s, ~(q.origin /\ q.dir = "down")
               PROVE  FALSE
    OBVIOUS
  <2>0. q.node \in Nodes /\ (q.dir = "up" \/ q.dir = "down")
    BY Fields DEF TypeOK, Dirs
  <2>1. About(q, s) /\ Held(q, s)
    BY DEF About, Safe, Custody
  <2>2. q.origin /\ q.dir = "up" /\ s \in conn[q.node].shards /\ ~Open(q.node, s)
    BY <1>1, <2>0, <2>1 DEF Held, Down
  <2>3. \A u \in net : ~(u.kind = "start" /\ s \in u.shards)
    BY <2>1 DEF About, Safe, OneAtATime
  <2>4. s \in conn[n].shards
    BY <1>1, <2>3 DEF Safe, Custody
  <2> QED
    BY <1>1, <2>0, <2>2, <2>4 DEF Safe, Custody
<1>9. /\ \A x \in Nodes : \A t : Takes(x, t)' <=> Takes(x, t)
      /\ \A x \in Nodes, t \in Shards : Open(x, t)' <=> Open(x, t)
  BY <1>1, <1>3 DEF Takes, Open
<1>10. \A x \in Nodes, t \in Shards :
         /\ gw'[x][t].st = "open" => gw'[x][t].session = fresh'[t] /\ fresh'[t] > 0
         /\ gw'[x][t].st = "opening" /\ gw'[x][t].session # 0 => gw'[x][t].session = fresh'[t]
  <2> SUFFICES ASSUME NEW x \in Nodes, NEW t \in Shards
               PROVE  /\ gw'[x][t].st = "open" => gw'[x][t].session = fresh'[t] /\ fresh'[t] > 0
                      /\ gw'[x][t].st = "opening" /\ gw'[x][t].session # 0
                           => gw'[x][t].session = fresh'[t]
    OBVIOUS
  <2>1. CASE t # s
    BY <1>3, <2>1 DEF Newest
  <2>2. CASE t = s /\ x = n
    BY <1>3, <1>5, <2>2
  <2>3. CASE t = s /\ x # n
    BY <1>3, <1>6, <2>3 DEF Open
  <2> QED
    BY <2>1, <2>2, <2>3
<1>11. \A x \in Nodes, t \in Shards :
         t \in conn[x].shards => Open(x, t)' \/ \E q \in net : ClosedBy(q, x, t)
  BY <1>9 DEF Newest
<1>12. \A x \in Nodes, t \in Shards : Takes(x, t) => node[x].session = fresh'[t] /\ fresh'[t] > 0
  <2> SUFFICES ASSUME NEW x \in Nodes, NEW t \in Shards, Takes(x, t)
               PROVE  node[x].session = fresh'[t] /\ fresh'[t] > 0
    OBVIOUS
  <2> QED
    BY <1>3, <1>7 DEF Newest
<1>13. \A q \in net : /\ q.kind = "start" /\ q.dir = "up" => \A t \in q.shards : Open(q.node, t)'
                      /\ q.kind = "prepare" => \/ q.origin /\ q.dir = "down"
                                               \/ q.session = fresh'[q.shard] /\ fresh'[q.shard] > 0
  <2> SUFFICES ASSUME NEW q \in net
               PROVE  /\ q.kind = "start" /\ q.dir = "up" => \A t \in q.shards : Open(q.node, t)'
                      /\ q.kind = "prepare" => \/ q.origin /\ q.dir = "down"
                                               \/ q.session = fresh'[q.shard] /\ fresh'[q.shard] > 0
    OBVIOUS
  <2>0. /\ q.node \in Nodes /\ (q.kind = "start" => q.shards \subseteq Shards)
        /\ q.kind = "prepare" => q.shard \in Shards
    BY Fields DEF TypeOK
  <2>1. q.kind = "start" /\ q.dir = "up" => \A t \in q.shards : Open(q.node, t)'
    BY <1>9, <2>0 DEF Newest
  <2>2. q.kind = "prepare" => \/ q.origin /\ q.dir = "down"
                              \/ q.session = fresh'[q.shard] /\ fresh'[q.shard] > 0
    BY <1>3, <1>8, <2>0 DEF Newest
  <2> QED
    BY <2>1, <2>2
<1>14. Newest'
  BY <1>1, <1>9, <1>10, <1>11, <1>12, <1>13 DEF Newest, ClosedBy
<1> QED
  BY <1>2, <1>14

LEMMA StepNewest ==
  ASSUME TypeOK, TypeOK', Safe, Newest, ~SlowOpen, Undisturbed', [Next]_vars
  PROVE  Newest' /\ Resumes
<1>0. drops \in Nat
  BY BoundsAssumption DEF TypeOK
<1>1. CASE Command
  <2>1. node' = node
    BY <1>1, Zenon DEF Command, StartShards, StopShard, StartShardMigration, MigrateToBusy, Undisturbed
  <2> QED
    BY <1>1, <2>1, CommandNewest DEF Resumes, Finishes
<1>2. CASE Step
  <2>1. ASSUME NEW m \in net, HandleIdentify(m) \/ OrchestratorStep(m) PROVE Newest' /\ node' = node
    <3>1. node' = node
      BY <2>1, Zenon DEF OrchestratorStep, HandleIdentify, HandleStarted, HandleStopped,
         HandleOriginReady, HandleDestReady, HandleAllSent, HandleUserEvt
    <3> QED
      BY <2>1, <3>1, OrchestratorNewest
  <2>2. ASSUME NEW m \in net, NodeStep(m) PROVE Newest' /\ Resumes
    BY <2>2, NodeNewest DEF Resumes
  <2>3. ASSUME NEW n \in Nodes, NEW s \in Shards, GatewayOpens(n, s) PROVE Newest' /\ Resumes
    BY <2>3, OpensNewest DEF Resumes, NoFinish
  <2> QED
    BY <1>2, <2>1, <2>2, <2>3 DEF Step, Resumes, Finishes
<1>3. CASE Recovery
  <2>1. PICK n \in Nodes : NoticeDrop(n) \/ Reconnect(n)
    BY <1>3 DEF Recovery
  <2>2. ~NoticeDrop(n)
    BY DEF NoticeDrop, Safe, Joined
  <2>3. /\ UNCHANGED <<conn, gw, fresh>> /\ net' = net \cup {Identify(n, node[n].shards)}
        /\ node' = [node EXCEPT ![n].link = TRUE]
    BY <2>1, <2>2 DEF Reconnect
  <2>4. \A x \in Nodes : /\ node'[x].mode = node[x].mode /\ node'[x].shard = node[x].shard
                         /\ node'[x].session = node[x].session
    BY SMTT(30), <2>3 DEF TypeOK, Node
  <2>5. net \subseteq net' /\ \A q \in net' : q \in net \/ q.kind = "identify"
    BY <2>3 DEF Identify
  <2>6. Newest'
    BY <2>3, <2>4, <2>5, KeepsNewest
  <2> QED
    BY <2>4, <2>6 DEF Resumes, Finishes
<1>4. CASE Failure
  <2>1. drops' # drops + 1
    BY <1>0 DEF Undisturbed
  <2>2. \A n \in Nodes : ~Drop(n) /\ ~Die(n)
    BY <2>1 DEF Drop, Die
  <2>3. ~Restart
    BY <2>1 DEF Restart
  <2>4. \A m \in net : ~Lose(m)
    BY NothingToLose
  <2> QED
    BY <1>4, <2>2, <2>3, <2>4 DEF Failure
<1>5. CASE UNCHANGED vars
  <2>1. UNCHANGED <<conn, node, net, gw, fresh>>
    BY <1>5 DEF vars
  <2>2. Newest'
    BY <2>1, KeepsNewest
  <2> QED
    BY <2>1, <2>2 DEF Resumes, Finishes
<1> QED
  BY <1>1, <1>2, <1>3, <1>4, <1>5 DEF Next

(* Without failures a destination resumes the newest session of the shard: the
   session that the origin's gateway had when it was closed reaches the
   destination through the orchestrator, and nobody opens another meanwhile.  *)
THEOREM NewestSession ==
  ASSUME ~SlowOpen, ~BusyTargets, MaxDrops = 0
  PROVE  Spec => ResumesNewestSession
<1> DEFINE Inv == SafeInv /\ Undisturbed /\ Newest
<1>1. Init => Undisturbed /\ Newest
  BY InitNewest DEF Undisturbed, Init
<1>2. Inv /\ [Next]_vars => Undisturbed' /\ Newest' /\ Resumes
  <2> SUFFICES ASSUME Inv, [Next]_vars PROVE Undisturbed' /\ Newest' /\ Resumes
    OBVIOUS
  <2>1. TypeOK /\ TypeOK' /\ Safe
    BY TypingStep DEF SafeInv
  <2>2. Undisturbed'
    BY <2>1, NothingFails
  <2> QED
    BY <2>1, <2>2, StepNewest
<1>3. Resumes => [\A n \in Nodes : Finishes(n) =>
                    LET s == node[n].shard
                    IN  fresh[s] > 0 /\ gw'[n][s].session = fresh[s]]_vars
  BY DEF Resumes
<1> QED
  BY <1>1, <1>2, <1>3, SafeAlways, PTL DEF Spec, ResumesNewestSession

-----------------------------------------------------------------------------
(* The state of a shard arrives complete.                                   *)

LEMMA InitCounted == Init => Counted
<1> SUFFICES ASSUME Init PROVE Counted
  OBVIOUS
<1>1. net = {} /\ sent = [o \in 0 .. MaxOps |-> -1]
  BY Zenon DEF Init
<1>2. \A b \in Nodes : node[b].mode = "none"
  BY DEF Init
<1> QED
  BY <1>1, <1>2 DEF Counted

\* What is on its way depends on the user events only.
LEMMA AwaitedSame ==
  ASSUME \A u \in net : u.kind = "user" => u \in net',
         \A u \in net' : u.kind = "user" => u \in net
  PROVE  \A o : Awaited(o)' = Awaited(o)
BY DEF Awaited

\* A command is given or answered that is not a migration, or a migration begins.
LEMMA KeepsCounted ==
  ASSUME TypeOK, TypeOK', Counted, sent' = sent, ops <= ops', SameReady,
         \A m \in net : m.kind = "user" => m \in net',
         \A m \in net' : m \in net \/ /\ m.op <= ops' /\ ~ToReady(m) /\ m.kind # "user"
                                      /\ Hands(m) => m.op > ops,
         \A m1, m2 \in net' : m1 \notin net /\ m2 \notin net /\ Hands(m1) /\ Hands(m2) => m1 = m2,
         \A m \in net : m \in net' /\ ToReady(m) => Receiver(m)' = Receiver(m)
  PROVE  Counted'
<1>1. \A o : Awaited(o)' = Awaited(o)
  BY AwaitedSame
<1>2. ops \in Nat /\ ops' \in Nat /\ \A o \in 0 .. MaxOps : o \in Nat
  BY BoundsAssumption DEF TypeOK
<1>3. \A m \in net' : m.op \in 0 .. MaxOps
  BY Fields DEF TypeOK
<1>4. \A o \in 0 .. MaxOps : o > ops' => sent'[o] = -1
  BY <1>2 DEF Counted
<1>5. ASSUME NEW m \in net'
      PROVE  /\ m.op <= ops'
             /\ Hands(m) => sent'[m.op] = -1
             /\ m.kind \in {"allsent", "user"} => sent'[m.op] # -1
             /\ m.kind = "allsent" => m.num = sent'[m.op]
             /\ ToReady(m) => /\ Receiver(m)' \in Nodes
                              /\ node'[Receiver(m)'].mode = "to" /\ node'[Receiver(m)'].op = m.op
  <2>1. CASE m \in net
    <3>1. m.op <= ops'
      BY <1>2, <1>3, <2>1 DEF Counted
    <3>2. ToReady(m) => /\ Receiver(m)' \in Nodes
                        /\ node'[Receiver(m)'].mode = "to" /\ node'[Receiver(m)'].op = m.op
      BY <2>1 DEF Counted, SameReady
    <3> QED
      BY <2>1, <3>1, <3>2 DEF Counted
  <2>2. CASE m \notin net
    <3>1. m.kind \notin {"allsent", "user"}
      BY <2>2 DEF ToReady
    <3>2. Hands(m) => sent[m.op] = -1
      BY <1>2, <1>3, <2>2 DEF Counted
    <3> QED
      BY <2>2, <3>1, <3>2
  <2> QED
    BY <2>1, <2>2
<1>6. ASSUME NEW m1 \in net', NEW m2 \in net', m1.op = m2.op
      PROVE  /\ Hands(m1) /\ Hands(m2) => m1 = m2
             /\ m1.kind = "user" /\ m2.kind = "user" /\ m1.num = m2.num => m1 = m2
  <2>1. ASSUME Hands(m1), Hands(m2) PROVE m1 = m2
    <3>1. \A m \in net : m.op <= ops
      BY DEF Counted
    <3>2. (m1 \in net /\ m2 \in net) \/ (m1 \notin net /\ m2 \notin net)
      BY <1>2, <1>3, <1>6, <2>1, <3>1
    <3> QED
      BY <1>6, <2>1, <3>2 DEF Counted
  <2>2. ASSUME m1.kind = "user", m2.kind = "user", m1.num = m2.num PROVE m1 = m2
    BY <1>6, <2>2 DEF Counted
  <2> QED
    BY <2>1, <2>2
<1>7. ASSUME NEW b \in Nodes, node'[b].mode = "to"
      PROVE  /\ Count(b)'
             /\ \A m \in net' : Hands(m) /\ m.op = node'[b].op => ToReady(m) /\ Receiver(m)' = b
             /\ \A x \in Nodes : node'[x].mode = "to" /\ node'[x].op = node'[b].op => x = b
  <2>1. node[b].mode = "to" /\ Count(b) /\ node'[b].op = node[b].op /\ node[b].op \in Nat
    BY <1>2, <1>7, BoundsAssumption DEF SameReady, Counted, TypeOK, Node
  <2>2. Count(b)'
    BY <1>1, <1>2, <1>7, <2>1 DEF Count, SameReady
  <2>3. \A m \in net' : Hands(m) /\ m.op = node'[b].op => ToReady(m) /\ Receiver(m)' = b
    <3> SUFFICES ASSUME NEW m \in net', Hands(m), m.op = node[b].op
                 PROVE  ToReady(m) /\ Receiver(m)' = b
      BY <2>1
    <3>1. m \in net
      BY <1>2, <2>1 DEF Count
    <3> QED
      BY <2>1, <3>1 DEF Counted
  <2>4. \A x \in Nodes : node'[x].mode = "to" /\ node'[x].op = node'[b].op => x = b
    BY <2>1 DEF Counted, SameReady
  <2> QED
    BY <2>2, <2>3, <2>4
<1> QED
  BY <1>4, <1>5, <1>6, <1>7 DEF Counted

LEMMA ReceiverSame ==
  ASSUME NEW m, m.node \in Nodes, conn'[m.node].other = conn[m.node].other
  PROVE  Receiver(m)' = Receiver(m)
BY DEF Receiver

LEMMA CommandCounted ==
  ASSUME TypeOK, TypeOK', Safe, Counted, Command, Undisturbed'
  PROVE  Counted'
<1>0. /\ ops \in Nat /\ \A q \in net : q.node \in Nodes
  BY BoundsAssumption, Fields DEF TypeOK
<1> DEFINE Asks(M) ==
      /\ UNCHANGED <<node, sent>> /\ ops' = ops + 1 /\ net' = net \cup Deliverable(M)
      /\ \A m \in net : m.kind \in {"transfer", "allsent"} => conn'[m.node].other = conn[m.node].other
      /\ \A m \in M : /\ m.op = ops' /\ m.kind # "user" /\ ~ToReady(m)
      /\ \A m1, m2 \in M : Hands(m1) /\ Hands(m2) => m1 = m2
<1>1. ASSUME NEW n \in Nodes, NEW S \in SUBSET Shards, ops' = ops + 1, StartShards(n, S, ops')
      PROVE  Asks({Start("down", n, ops', S)})
  BY <1>1 DEF StartShards, Start, ToReady, Hands
<1>2. ASSUME NEW s \in Shards, StopShard(s)
      PROVE  Asks({Stop("down", n, ops', s) : n \in {x \in Nodes : Running(x, s)}})
  <2> DEFINE M == {Stop("down", n, ops', s) : n \in {x \in Nodes : Running(x, s)}}
  <2>1. \A m \in M : m.op = ops' /\ m.kind = "stop"
    BY DEF Stop
  <2>2. UNCHANGED <<conn, node, sent>> /\ ops' = ops + 1 /\ net' = net \cup Deliverable(M)
    BY <1>2 DEF StopShard
  <2> HIDE DEF M
  <2> QED
    BY <2>1, <2>2 DEF ToReady, Hands, M
<1>3. ASSUME NEW from \in Nodes, NEW to \in Nodes, NEW s \in Shards, StartShardMigration(from, to, s)
      PROVE  Asks({Prepare("down", from, ops', s, TRUE, 0)})
  <2>1. /\ UNCHANGED <<node, sent>> /\ ops' = ops + 1
        /\ net' = net \cup Deliverable({Prepare("down", from, ops', s, TRUE, 0)})
    BY <1>3 DEF StartShardMigration
  <2>2. \A m \in {Prepare("down", from, ops', s, TRUE, 0)} :
          m.op = ops' /\ m.kind = "prepare" /\ m.origin
    BY DEF Prepare
  <2>3. ASSUME NEW m \in net, m.kind \in {"transfer", "allsent"}
        PROVE  conn'[m.node].other = conn[m.node].other
    <3>1. conn[m.node].mode # "none"
      <4>1. CASE m.kind = "transfer" \/ m.dir = "up"
        BY <2>3, <4>1 DEF Safe, Pairs, Pair
      <4>2. CASE m.kind = "allsent" /\ m.dir # "up"
        <5>1. node[m.node].mode = "to" /\ m.node \in Nodes
          BY <1>0, <4>2, Fields DEF Safe, Pairs, TypeOK, Dirs
        <5>2. Takes(m.node, node[m.node].shard) /\ node[m.node].shard \in Shards
          BY <5>1 DEF Safe, Follows, Takes
        <5> QED
          BY <5>1, <5>2 DEF Safe, Pairs
      <4> QED
        BY <2>3, <4>1, <4>2
    <3>2. conn[from].mode = "none" /\ conn[to].mode = "none"
      BY <1>3 DEF StartShardMigration, Idle
    <3>3. m.node # from /\ m.node # to
      BY <3>1, <3>2
    <3>4. conn'[m.node] = conn[m.node]
      BY <1>0, <1>3, <3>3 DEF StartShardMigration, TypeOK
    <3> QED
      BY <3>4
  <2> QED
    BY <2>1, <2>2, <2>3 DEF ToReady, Hands
<1>4. \A from, to \in Nodes, s \in Shards : ~MigrateToBusy(from, to, s)
  BY DEF MigrateToBusy, Undisturbed
<1> HIDE DEF Asks
<1>5. PICK M : Asks(M)
  BY <1>1, <1>2, <1>3, <1>4 DEF Command
<1>6. SameReady
  BY <1>5 DEF Asks, SameReady
<1>7. /\ sent' = sent /\ ops' = ops + 1
      /\ \A q \in net' : q \in net \/ q \in M
      /\ net \subseteq net'
      /\ \A q \in M : q.op = ops' /\ q.kind # "user" /\ ~ToReady(q)
      /\ \A q1, q2 \in M : Hands(q1) /\ Hands(q2) => q1 = q2
  BY <1>5 DEF Asks, Deliverable
<1>8. \A q \in net : ToReady(q) => Receiver(q)' = Receiver(q)
  BY <1>5 DEF Asks, Receiver
<1> QED
  BY <1>0, <1>6, <1>7, <1>8, KeepsCounted

\* The answers of the nodes to starts and stops, and new connections.
LEMMA AnswersCounted ==
  ASSUME TypeOK, TypeOK', Safe, Counted, NEW m \in net,
         HandleIdentify(m) \/ HandleStarted(m) \/ HandleStopped(m)
  PROVE  Counted'
<1>0. /\ ops \in Nat /\ \A q \in net : q.node \in Nodes
  BY BoundsAssumption, Fields DEF TypeOK
<1>1. UNCHANGED <<node, sent, ops>> /\ net' = net \ {m} /\ m.kind # "user"
  BY DEF HandleIdentify, HandleStarted, HandleStopped, Arrived
<1>2. ASSUME NEW q \in net, q \in net', ToReady(q) PROVE Receiver(q)' = Receiver(q)
  <2>1. CASE HandleIdentify(m)
    <3>1. m.kind = "identify" /\ ~conn[m.node].known
      BY <2>1 DEF HandleIdentify, Safe, Joined
    <3>2. conn[q.node].known
      BY <1>2 DEF Safe, Joined, ToReady
    <3>3. conn'[q.node] = conn[q.node]
      BY <1>0, <2>1, <3>1, <3>2 DEF HandleIdentify, TypeOK
    <3> QED
      BY <1>0, <3>3, ReceiverSame
  <2>2. CASE HandleStarted(m)
    BY SMTT(30), <1>0, <2>2, ReceiverSame DEF HandleStarted, TypeOK, Conn
  <2>3. CASE HandleStopped(m)
    BY <1>0, <2>3, ReceiverSame DEF HandleStopped, TypeOK, Conn
  <2> QED
    BY <2>1, <2>2, <2>3
<1>3. SameReady
  BY <1>1 DEF SameReady
<1> QED
  BY <1>0, <1>1, <1>2, <1>3, KeepsCounted

\* A node starts or stops shards.
LEMMA RunsCounted ==
  ASSUME TypeOK, TypeOK', Safe, Counted, NEW m \in net, StartsShards(m) \/ StopsShard(m)
  PROVE  Counted'
<1>0. /\ ops \in Nat /\ \A q \in net : q.node \in Nodes
  BY BoundsAssumption, Fields DEF TypeOK
<1>1. /\ UNCHANGED <<conn, sent, ops>> /\ m.kind # "user" /\ net \ {m} \subseteq net'
      /\ \A q \in net' : q \in net \/ (q.kind \in {"start", "stop"} /\ q.op = m.op)
  BY DEF StartsShards, StopsShard, Received, Start, Stop
<1>2. SameReady
  <2>1. CASE StartsShards(m)
    BY <1>0, <2>1 DEF StartsShards, SameReady, TypeOK, Node
  <2>2. CASE StopsShard(m)
    BY <1>0, <2>2 DEF StopsShard, SameReady, TypeOK, Node
  <2> QED
    BY <2>1, <2>2
<1>3. \A q \in net : Receiver(q)' = Receiver(q)
  BY <1>1 DEF Receiver
<1>4. m.op <= ops
  BY DEF Counted
<1>5. \A q \in net' : q \in net \/ (q.op <= ops /\ ~ToReady(q) /\ q.kind # "user" /\ ~Hands(q))
  BY <1>1, <1>4 DEF ToReady, Hands
<1> QED
  BY <1>0, <1>1, <1>2, <1>3, <1>5, KeepsCounted

\* A message of a migration is answered or passed on by one of the same migration.
LEMMA HandsOver ==
  ASSUME TypeOK, TypeOK', Counted, sent' = sent, ops' = ops, SameReady,
         NEW m \in net, NEW new, net' = (net \ {m}) \cup {new},
         Hands(m), Hands(new), new.op = m.op,
         \A q \in net : ToReady(q) /\ q # m => Receiver(q)' = Receiver(q),
         ToReady(m) <=> ToReady(new),
         ToReady(m) => Receiver(new)' = Receiver(m)
  PROVE  Counted'
<1>1. \A o : Awaited(o)' = Awaited(o)
  BY AwaitedSame DEF Hands
<1>2. ASSUME NEW q \in net'
      PROVE  /\ q.op <= ops
             /\ Hands(q) => sent[q.op] = -1
             /\ q.kind \in {"allsent", "user"} => sent[q.op] # -1
             /\ q.kind = "allsent" => q.num = sent[q.op]
             /\ ToReady(q) => /\ Receiver(q)' \in Nodes
                              /\ node'[Receiver(q)'].mode = "to" /\ node'[Receiver(q)'].op = q.op
  <2>1. CASE q \in net \ {m}
    BY <2>1 DEF Counted, SameReady
  <2>2. CASE q = new
    BY <2>2 DEF Counted, SameReady, Hands
  <2> QED
    BY <2>1, <2>2
<1>3. ASSUME NEW q1 \in net', NEW q2 \in net', q1.op = q2.op
      PROVE  /\ Hands(q1) /\ Hands(q2) => q1 = q2
             /\ q1.kind = "user" /\ q2.kind = "user" /\ q1.num = q2.num => q1 = q2
  BY <1>3 DEF Counted, Hands
<1>4. ASSUME NEW b \in Nodes, node'[b].mode = "to"
      PROVE  /\ Count(b)'
             /\ \A q \in net' : Hands(q) /\ q.op = node'[b].op => ToReady(q) /\ Receiver(q)' = b
             /\ \A x \in Nodes : node'[x].mode = "to" /\ node'[x].op = node'[b].op => x = b
  <2>1. node[b].mode = "to" /\ Count(b) /\ node'[b].op = node[b].op
    BY <1>4 DEF SameReady, Counted
  <2>2. Count(b)'
    BY <1>1, <1>4, <2>1 DEF Count, SameReady
  <2>3. \A q \in net' : Hands(q) /\ q.op = node'[b].op => ToReady(q) /\ Receiver(q)' = b
    BY <2>1 DEF Counted
  <2>4. \A x \in Nodes : node'[x].mode = "to" /\ node'[x].op = node'[b].op => x = b
    BY <2>1 DEF Counted, SameReady
  <2> QED
    BY <2>2, <2>3, <2>4
<1>5. \A o \in 0 .. MaxOps : o > ops' => sent'[o] = -1
  BY DEF Counted
<1> QED
  BY <1>2, <1>3, <1>4, <1>5 DEF Counted

LEMMA PreparesOriginCounted ==
  ASSUME TypeOK, TypeOK', Safe, Counted, NEW m \in net, PreparesOrigin(m)
  PROVE  Counted'
<1> DEFINE n == m.node
           new == Prepare("up", n, m.op, m.shard, TRUE, gw[n][m.shard].session)
<1>1. /\ m.kind = "prepare" /\ m.dir = "down" /\ m.origin
      /\ n \in Nodes /\ UNCHANGED <<conn, sent, ops>>
  BY Fields DEF PreparesOrigin, Received, TypeOK
<1>2. conn[n].mode = "from"
  BY <1>1 DEF Safe, Pairs, Pair
<1>3. node[n].mode # "to"
  <2> SUFFICES ASSUME node[n].mode = "to" PROVE FALSE
    OBVIOUS
  <2>1. Takes(n, node[n].shard) /\ node[n].shard \in Shards
    BY <1>1 DEF Safe, Follows, Takes
  <2> QED
    BY <1>1, <1>2, <2>1 DEF Safe, Pairs
<1>4. SameReady
  <2>1. node' = [node EXCEPT ![n] = [node[n] EXCEPT !.mode = "from", !.shard = m.shard,
                                                    !.shards = node[n].shards \ {m.shard}]]
    BY DEF PreparesOrigin
  <2>2. \A x \in Nodes : x # n => node'[x] = node[x]
    BY <2>1 DEF TypeOK
  <2>3. node'[n] = [node[n] EXCEPT !.mode = "from", !.shard = m.shard,
                                   !.shards = node[n].shards \ {m.shard}]
    BY <1>1, <2>1 DEF TypeOK
  <2>4. node[n] \in Node
    BY <1>1 DEF TypeOK
  <2>5. node'[n].mode = "from" /\ node'[n].op = node[n].op
    BY <2>3, <2>4 DEF Node
  <2> QED
    BY <1>3, <2>2, <2>5 DEF SameReady
<1>5. net' = (net \ {m}) \cup {new}
  BY DEF PreparesOrigin
<1>6. new.kind = "prepare" /\ new.dir = "up" /\ new.op = m.op /\ new.origin
  BY DEF Prepare
<1>7. \A q : Receiver(q)' = Receiver(q)
  BY <1>1 DEF Receiver
<1> HIDE DEF n, new
<1>8. Hands(m) /\ Hands(new) /\ ~ToReady(m) /\ ~ToReady(new)
  BY <1>1, <1>6 DEF Hands, ToReady
<1> QED
  BY <1>1, <1>4, <1>5, <1>6, <1>7, <1>8, HandsOver

LEMMA OriginReadyCounted ==
  ASSUME TypeOK, TypeOK', Safe, Counted, NEW m \in net, HandleOriginReady(m)
  PROVE  Counted'
<1> DEFINE b == conn[m.node].other
           new == Prepare("down", b, m.op, m.shard, FALSE, m.session)
<1>0. \A q \in net : q.node \in Nodes
  BY Fields DEF TypeOK
<1>1. m.kind = "prepare" /\ m.dir = "up" /\ m.origin /\ UNCHANGED <<node, sent, ops>>
  BY DEF HandleOriginReady, Arrived
<1>2. OtherKnown(m.node)
  <2>1. Pair(m.node, b, m.shard)
    BY <1>1 DEF Safe, Pairs
  <2> QED
    BY <2>1, ShardsAssumption DEF OtherKnown, Safe, Joined, Pair
<1>3. \A q \in net : conn'[q.node].other = conn[q.node].other
  BY <1>0, <1>2 DEF HandleOriginReady, WithoutShard, TypeOK, Conn
<1>4. \A q \in net : Receiver(q)' = Receiver(q)
  BY <1>0, <1>3, ReceiverSame
<1>5. SameReady
  BY <1>1 DEF SameReady
<1>6. new.kind = "prepare" /\ new.dir = "down" /\ new.op = m.op /\ ~new.origin
  BY DEF Prepare
<1>7. net' = (net \ {m}) \cup Deliverable({new})
  BY <1>2 DEF HandleOriginReady, Forward
<1>8. net' = (net \ {m}) \cup {new}
  <2>1. Pair(m.node, b, m.shard)
    BY <1>1 DEF Safe, Pairs
  <2>2. conn[b].known /\ b \in Nodes /\ new.node = b
    BY <2>1 DEF Safe, Joined, Pair, Prepare
  <2>3. Reachable(b)
    BY <2>2 DEF Reachable, Safe, Joined
  <2> HIDE DEF new, b
  <2> QED
    BY <1>7, <2>2, <2>3 DEF Deliverable
<1> HIDE DEF b, new
<1>9. Hands(m) /\ Hands(new) /\ ~ToReady(m) /\ ~ToReady(new)
  BY <1>1, <1>6 DEF Hands, ToReady
<1> QED
  BY <1>1, <1>4, <1>5, <1>6, <1>8, <1>9, HandsOver

LEMMA DestReadyCounted ==
  ASSUME TypeOK, TypeOK', Safe, Counted, NEW m \in net, HandleDestReady(m)
  PROVE  Counted'
<1> DEFINE a == conn[m.node].other
           new == StartMigration(a, m.op, m.shard)
<1>1. m.kind = "prepare" /\ m.dir = "up" /\ ~m.origin /\ UNCHANGED <<conn, node, sent, ops>>
  BY DEF HandleDestReady, Arrived
<1>2. Pair(a, m.node, m.shard)
  BY <1>1 DEF Safe, Pairs
<1>3. OtherKnown(m.node) /\ conn[a].known /\ a \in Nodes /\ conn[a].other = m.node
  BY <1>2, ShardsAssumption DEF OtherKnown, Safe, Joined, Pair
<1>4. \A q : Receiver(q)' = Receiver(q)
  BY <1>1 DEF Receiver
<1>5. SameReady
  BY <1>1 DEF SameReady
<1>6. new.kind = "transfer" /\ new.op = m.op /\ new.node = a
  BY DEF StartMigration
<1>7. net' = (net \ {m}) \cup Deliverable({new})
  BY <1>3 DEF HandleDestReady, Forward
<1> HIDE DEF a, new
<1>8. net' = (net \ {m}) \cup {new}
  <2>1. Reachable(a)
    BY <1>3 DEF Reachable, Safe, Joined
  <2> QED
    BY <1>6, <1>7, <2>1 DEF Deliverable
<1>9. Hands(m) /\ Hands(new) /\ ToReady(m) /\ ToReady(new)
  BY <1>1, <1>6 DEF Hands, ToReady
<1>10. Receiver(m) = m.node /\ Receiver(new) = m.node
  BY <1>1, <1>3, <1>6 DEF Receiver
<1> QED
  BY <1>1, <1>4, <1>5, <1>6, <1>8, <1>9, <1>10, HandsOver

\* A destination forgets what it counted in an earlier migration.
LEMMA PreparesDestCounted ==
  ASSUME TypeOK, TypeOK', Safe, Counted, NEW m \in net, PreparesDest(m)
  PROVE  Counted'
<1> DEFINE b == m.node
           new == Prepare("up", b, m.op, m.shard, FALSE, m.session)
<1>0. /\ \A q \in net : q.node \in Nodes /\ q.dir \in Dirs
      /\ ops \in Nat
  BY BoundsAssumption, Fields DEF TypeOK
<1>1. /\ m.kind = "prepare" /\ m.dir = "down" /\ ~m.origin
      /\ b \in Nodes /\ m.shard \in Shards /\ UNCHANGED <<conn, sent, ops>>
  BY Fields DEF PreparesDest, Received, TypeOK
<1>2. Pair(conn[b].other, b, m.shard)
  BY <1>1 DEF Safe, Pairs
<1>3. node[b].mode # "to"
  <2> SUFFICES ASSUME node[b].mode = "to" PROVE FALSE
    OBVIOUS
  <2>1. Takes(b, node[b].shard) /\ node[b].shard \in Shards
    BY <1>1 DEF Safe, Follows, Takes
  <2>2. conn[b].shard = node[b].shard
    BY <1>1, <2>1 DEF Safe, Pairs
  <2>3. Takes(b, m.shard) /\ About(m, m.shard)
    BY <1>1, <1>2, <2>1, <2>2 DEF Pair, About
  <2> QED
    BY <1>1, <2>3 DEF Safe, OneAtATime
<1>4. /\ \A x \in Nodes : x # b => node'[x] = node[x]
      /\ node'[b].mode = "to" /\ node'[b].op = m.op /\ node'[b].processed = 0
      /\ node'[b].own = 0 /\ node'[b].total = -1
  BY <1>1 DEF PreparesDest, Prepared, TypeOK, Node
<1>5. /\ net' = (net \ {m}) \cup {new}
      /\ new.kind = "prepare" /\ new.dir = "up" /\ ~new.origin /\ new.op = m.op /\ new.node = b
  BY DEF PreparesDest, Prepare
<1> HIDE DEF b, new
<1>6. /\ \A q : Receiver(q)' = Receiver(q)
      /\ Hands(m) /\ ~ToReady(m) /\ Hands(new) /\ ToReady(new) /\ Receiver(new) = b
  BY <1>1, <1>5 DEF Receiver, Hands, ToReady
<1>7. \A o : Awaited(o)' = Awaited(o)
  BY <1>1, <1>5, AwaitedSame
<1>8. \A q \in net : ToReady(q) => Receiver(q) # b
  BY <1>3 DEF Counted
<1>9. sent[m.op] = -1 /\ m.op <= ops
  BY <1>6 DEF Counted
<1>10. ASSUME NEW q \in net'
      PROVE  /\ q.op <= ops
             /\ Hands(q) => sent[q.op] = -1
             /\ q.kind \in {"allsent", "user"} => sent[q.op] # -1
             /\ q.kind = "allsent" => q.num = sent[q.op]
             /\ ToReady(q) => /\ Receiver(q)' \in Nodes
                              /\ node'[Receiver(q)'].mode = "to" /\ node'[Receiver(q)'].op = q.op
  <2>1. CASE q \in net \ {m}
    BY <1>4, <1>6, <1>8, <2>1 DEF Counted
  <2>2. CASE q = new
    BY <1>1, <1>4, <1>5, <1>6, <1>9, <2>2
  <2> QED
    BY <1>5, <2>1, <2>2
<1>11. ASSUME NEW q1 \in net', NEW q2 \in net', q1.op = q2.op
      PROVE  /\ Hands(q1) /\ Hands(q2) => q1 = q2
             /\ q1.kind = "user" /\ q2.kind = "user" /\ q1.num = q2.num => q1 = q2
  BY <1>5, <1>6, <1>11 DEF Counted
<1>12. ASSUME NEW x \in Nodes, node'[x].mode = "to"
      PROVE  /\ Count(x)'
             /\ \A q \in net' : Hands(q) /\ q.op = node'[x].op => ToReady(q) /\ Receiver(q)' = x
             /\ \A y \in Nodes : node'[y].mode = "to" /\ node'[y].op = node'[x].op => y = x
  <2>1. \A y \in Nodes : y # b /\ node'[y].mode = "to" => node[y].mode = "to" /\ node'[y].op # m.op
    BY <1>4, <1>6 DEF Counted
  <2>2. CASE x = b
    <3>1. Count(x)'
      BY <1>1, <1>4, <1>9, <2>2 DEF Count
    <3>2. \A q \in net' : Hands(q) /\ q.op = node'[x].op => ToReady(q) /\ Receiver(q)' = x
      BY <1>4, <1>5, <1>6, <2>2 DEF Counted
    <3> QED
      BY <1>4, <2>1, <2>2, <3>1, <3>2
  <2>3. CASE x # b
    <3>1. node'[x] = node[x] /\ node[x].mode = "to" /\ Count(x) /\ node[x].op # m.op
      BY <1>4, <1>12, <2>1, <2>3 DEF Counted
    <3>2. Count(x)'
      BY <1>1, <1>7, <3>1 DEF Count
    <3>3. \A q \in net' : Hands(q) /\ q.op = node'[x].op => ToReady(q) /\ Receiver(q)' = x
      BY <1>5, <1>6, <3>1 DEF Counted
    <3>4. \A y \in Nodes : node'[y].mode = "to" /\ node'[y].op = node'[x].op => y = x
      BY <1>4, <2>1, <3>1 DEF Counted
    <3> QED
      BY <3>2, <3>3, <3>4
  <2> QED
    BY <2>2, <2>3
<1>13. \A o \in 0 .. MaxOps : o > ops' => sent'[o] = -1
  BY <1>1 DEF Counted
<1> QED
  BY <1>1, <1>10, <1>11, <1>12, <1>13 DEF Counted

\* The orchestrator passes on what the origin sends.
LEMMA ForwardedCounted ==
  ASSUME TypeOK, TypeOK', Safe, Counted, NEW m \in net, HandleAllSent(m) \/ HandleUserEvt(m)
  PROVE  Counted'
<1> DEFINE a == m.node
           b == conn[a].other
<1>0. /\ \A q \in net : q.node \in Nodes /\ q.op \in 0 .. MaxOps
      /\ ops \in Nat
  BY BoundsAssumption, Fields DEF TypeOK
<1>1. m.kind \in {"allsent", "user"} /\ m.dir = "up" /\ UNCHANGED <<node, sent, ops>>
  BY DEF HandleAllSent, HandleUserEvt, Arrived
<1>2. \A x \in Nodes : conn'[x].other = conn[x].other
  <2>1. CASE HandleAllSent(m)
    BY <1>0, <2>1 DEF HandleAllSent, TypeOK, Conn
  <2>2. CASE HandleUserEvt(m)
    BY <2>2 DEF HandleUserEvt
  <2> QED
    BY <2>1, <2>2
<1>3. PICK u \in net : u.kind = "allsent" /\ u.dir = "up" /\ u.node = a /\ u.op = m.op
  BY <1>1 DEF Safe, Follows
<1>4. Pair(a, b, conn[a].shard)
  BY <1>3 DEF Safe, Pairs
<1>5. /\ b \in Nodes /\ node[b].mode = "to" /\ node[b].op = m.op
      /\ conn[b].known /\ OtherKnown(a) /\ Reachable(b)
  <2>1. b \in Nodes /\ node[b].mode = "to" /\ node[b].op = m.op
    BY <1>3 DEF Counted, ToReady, Receiver
  <2>2. conn[b].known /\ OtherKnown(a)
    BY <1>4, ShardsAssumption DEF OtherKnown, Safe, Joined, Pair
  <2> QED
    BY <2>1, <2>2 DEF Reachable, Safe, Joined
<1>6. PICK new : /\ net' = (net \ {m}) \cup {new}
                 /\ new.kind = m.kind /\ new.dir = "down" /\ new.node = b /\ new.op = m.op
                 /\ new.num = m.num
  <2>1. CASE HandleAllSent(m)
    <3> DEFINE q == AllSent("down", b, m.op, m.num)
    <3>1. net' = (net \ {m}) \cup Deliverable({q}) /\ m.kind = "allsent"
      BY <1>5, <2>1 DEF HandleAllSent, Forward, Arrived
    <3>2. q.kind = "allsent" /\ q.dir = "down" /\ q.node = b /\ q.op = m.op /\ q.num = m.num
      BY DEF AllSent
    <3> HIDE DEF q, b
    <3> QED
      BY <1>5, <3>1, <3>2 DEF Deliverable
  <2>2. CASE HandleUserEvt(m)
    <3> DEFINE q == UserEvt("down", b, m.op, m.num)
    <3>1. net' = (net \ {m}) \cup Deliverable({q}) /\ m.kind = "user"
      BY <1>5, <2>2 DEF HandleUserEvt, Forward, Arrived
    <3>2. q.kind = "user" /\ q.dir = "down" /\ q.node = b /\ q.op = m.op /\ q.num = m.num
      BY DEF UserEvt
    <3> HIDE DEF q, b
    <3> QED
      BY <1>5, <3>1, <3>2 DEF Deliverable
  <2> QED
    BY <2>1, <2>2
<1> HIDE DEF a, b
<1>7. \A q \in net : Receiver(q)' = Receiver(q)
  BY <1>0, <1>2, ReceiverSame
<1>8. ToReady(new) /\ ~Hands(new) /\ ~Hands(m) /\ Receiver(new)' = b
  BY <1>1, <1>6 DEF ToReady, Hands, Receiver
<1>9. \A o : Awaited(o)' = Awaited(o)
  BY <1>6 DEF Awaited
<1>10. ASSUME NEW q \in net'
      PROVE  /\ q.op <= ops
             /\ Hands(q) => sent[q.op] = -1
             /\ q.kind \in {"allsent", "user"} => sent[q.op] # -1
             /\ q.kind = "allsent" => q.num = sent[q.op]
             /\ ToReady(q) => /\ Receiver(q)' \in Nodes
                              /\ node[Receiver(q)'].mode = "to" /\ node[Receiver(q)'].op = q.op
  <2>1. CASE q \in net \ {m}
    BY <1>7, <2>1 DEF Counted
  <2>2. CASE q = new
    BY <1>1, <1>5, <1>6, <1>8, <2>2 DEF Counted
  <2> QED
    BY <1>6, <2>1, <2>2
<1>11. ASSUME NEW q1 \in net', NEW q2 \in net', q1.op = q2.op
      PROVE  /\ Hands(q1) /\ Hands(q2) => q1 = q2
             /\ q1.kind = "user" /\ q2.kind = "user" /\ q1.num = q2.num => q1 = q2
  BY <1>6, <1>8, <1>11 DEF Counted
<1>12. ASSUME NEW x \in Nodes, node[x].mode = "to"
      PROVE  /\ Count(x)'
             /\ \A q \in net' : Hands(q) /\ q.op = node[x].op => ToReady(q) /\ Receiver(q)' = x
             /\ \A y \in Nodes : node[y].mode = "to" /\ node[y].op = node[x].op => y = x
  <2>1. Count(x)'
    BY <1>1, <1>9, <1>12 DEF Count, Counted
  <2> QED
    BY <1>6, <1>7, <1>8, <1>12, <2>1 DEF Counted
<1>13. \A o \in 0 .. MaxOps : o > ops => sent[o] = -1
  BY DEF Counted
<1> QED
  BY <1>1, <1>10, <1>11, <1>12, <1>13 DEF Counted

\* The origin sends k user events, and says how many.
LEMMA TransfersCounted ==
  ASSUME TypeOK, TypeOK', Safe, Counted, NEW m \in net, TransfersFrom(m)
  PROVE  Counted'
<1> DEFINE a == m.node
           b == conn[a].other
           o == m.op
<1>0. /\ \A q \in net : q.op \in 0 .. MaxOps
      /\ ops \in Nat
  BY BoundsAssumption, Fields DEF TypeOK
<1>1. m.kind = "transfer" /\ m.dir = "down" /\ o \in 0 .. MaxOps /\ UNCHANGED <<conn, node, ops>>
  BY <1>0 DEF TransfersFrom, Received
<1>2. PICK k \in 0 .. MaxEvents :
        /\ sent' = [sent EXCEPT ![o] = k]
        /\ net' = (net \ {m}) \cup {AllSent("up", a, o, k)} \cup {UserEvt("up", a, o, i) : i \in 1 .. k}
  BY DEF TransfersFrom
<1>3. k \in Nat
  BY <1>2, BoundsAssumption
<1>4. /\ \A q \in net' : \/ q \in net \ {m}
                         \/ /\ q.dir = "up" /\ q.node = a /\ q.op = o
                            /\ \/ q.kind = "allsent" /\ q.num = k
                               \/ q.kind = "user" /\ q.num \in 1 .. k /\ q = UserEvt("up", a, o, q.num)
      /\ \A i \in 1 .. k : \E q \in net' : q.kind = "user" /\ q.op = o /\ q.num = i
      /\ net \ {m} \subseteq net'
  <2> DEFINE all == AllSent("up", a, o, k)
             evt(i) == UserEvt("up", a, o, i)
  <2>1. net' = (net \ {m}) \cup {all} \cup {evt(i) : i \in 1 .. k}
    BY <1>2
  <2>2. all.dir = "up" /\ all.node = a /\ all.op = o /\ all.kind = "allsent" /\ all.num = k
    BY DEF AllSent
  <2>3. \A i : /\ evt(i).dir = "up" /\ evt(i).node = a /\ evt(i).op = o
               /\ evt(i).kind = "user" /\ evt(i).num = i
    BY DEF UserEvt
  <2>4. \A q \in {evt(i) : i \in 1 .. k} : q.num \in 1 .. k /\ q = evt(q.num)
    BY <2>3
  <2> HIDE DEF all, evt
  <2>5. \A q \in net' : \/ q \in net \ {m}
                        \/ /\ q.dir = "up" /\ q.node = a /\ q.op = o
                           /\ \/ q.kind = "allsent" /\ q.num = k
                              \/ q.kind = "user" /\ q.num \in 1 .. k /\ q = evt(q.num)
    BY <2>1, <2>2, <2>3, <2>4
  <2>6. /\ \A i \in 1 .. k : \E q \in net' : q.kind = "user" /\ q.op = o /\ q.num = i
        /\ net \ {m} \subseteq net'
    BY <2>1, <2>3
  <2> QED
    BY <2>5, <2>6 DEF evt
<1>5. Hands(m) /\ ToReady(m) /\ Receiver(m) = b
  BY <1>1 DEF Hands, ToReady, Receiver
<1> HIDE DEF a, b, o
<1>6. /\ b \in Nodes /\ node[b].mode = "to" /\ node[b].op = o /\ sent[o] = -1 /\ o <= ops
  BY <1>5 DEF Counted, o
<1>7. sent'[o] = k /\ \A p \in 0 .. MaxOps : p # o => sent'[p] = sent[p]
  BY <1>1, <1>2 DEF TypeOK
<1>8. \A q \in net \ {m} : ~(q.op = o /\ Hands(q)) /\ ~(q.op = o /\ q.kind \in {"allsent", "user"})
  BY <1>5, <1>6 DEF Counted, o
<1>9. \A q : Receiver(q)' = Receiver(q)
  BY <1>1 DEF Receiver
<1>10. Awaited(o)' = 1 .. k /\ \A p : p # o => Awaited(p)' = Awaited(p)
  <2>1. Awaited(o)' = 1 .. k
    <3>1. \A i \in Nat : i \in 1 .. k <=> \E q \in net' : q.kind = "user" /\ q.op = o /\ q.num = i
      BY <1>3, <1>4, <1>8
    <3> QED
      BY <1>3, <3>1 DEF Awaited
  <2>2. ASSUME NEW p, p # o PROVE Awaited(p)' = Awaited(p)
    BY <1>1, <1>4, <2>2 DEF Awaited
  <2> QED
    BY <2>1, <2>2
<1>11. IsFiniteSet(1 .. k) /\ Cardinality(1 .. k) = k
  BY <1>3, FS_Interval
<1>12. ASSUME NEW q \in net'
      PROVE  /\ q.op <= ops
             /\ Hands(q) => sent'[q.op] = -1
             /\ q.kind \in {"allsent", "user"} => sent'[q.op] # -1
             /\ q.kind = "allsent" => q.num = sent'[q.op]
             /\ ToReady(q) => /\ Receiver(q) \in Nodes
                              /\ node[Receiver(q)].mode = "to" /\ node[Receiver(q)].op = q.op
  <2>1. CASE q \in net \ {m}
    <3>1. Hands(q) \/ q.kind \in {"allsent", "user"} => sent'[q.op] = sent[q.op]
      BY <1>0, <1>7, <1>8, <2>1
    <3> QED
      BY <2>1, <3>1 DEF Counted
  <2>2. CASE q \notin net \ {m}
    <3>1. q.dir = "up" /\ q.node = a /\ q.op = o /\ ((q.kind = "allsent" /\ q.num = k) \/ q.kind = "user")
      BY <1>4, <2>2
    <3>2. ~Hands(q) /\ (ToReady(q) => Receiver(q) = b)
      BY <3>1 DEF Hands, ToReady, Receiver, a, b
    <3> QED
      BY <1>3, <1>6, <1>7, <3>1, <3>2
  <2> QED
    BY <2>1, <2>2
<1>13. ASSUME NEW q1 \in net', NEW q2 \in net', q1.op = q2.op
      PROVE  /\ Hands(q1) /\ Hands(q2) => q1 = q2
             /\ q1.kind = "user" /\ q2.kind = "user" /\ q1.num = q2.num => q1 = q2
  <2>1. \A q \in net' : Hands(q) => q \in net
    BY <1>4 DEF Hands
  <2>2. ASSUME q1.kind = "user", q2.kind = "user", q1.num = q2.num PROVE q1 = q2
    BY <1>4, <1>8, <1>13, <2>2 DEF Counted
  <2> QED
    BY <1>13, <2>1, <2>2 DEF Counted
<1>14. ASSUME NEW x \in Nodes, node[x].mode = "to"
      PROVE  /\ Count(x)'
             /\ \A q \in net' : Hands(q) /\ q.op = node[x].op => ToReady(q) /\ Receiver(q) = x
             /\ \A y \in Nodes : node[y].mode = "to" /\ node[y].op = node[x].op => y = x
  <2>0. Count(x) /\ node[x].op \in 0 .. MaxOps
    BY <1>14 DEF Counted, TypeOK, Node
  <2>1. Count(x)'
    <3>1. CASE x = b
      <4>1. node[x].own = 0 /\ node[x].total = -1 /\ node[x].op = o
        BY <1>6, <2>0, <3>1 DEF Count
      <4> QED
        BY <1>1, <1>3, <1>6, <1>7, <1>10, <1>11, <2>0, <4>1 DEF Count
    <3>2. CASE x # b
      <4>1. node[x].op # o
        BY <1>6, <1>14, <3>2 DEF Counted
      <4>2. sent'[node[x].op] = sent[node[x].op] /\ Awaited(node[x].op)' = Awaited(node[x].op)
        BY <1>1, <1>7, <1>10, <2>0, <4>1
      <4> QED
        BY <1>1, <2>0, <4>2 DEF Count
    <3> QED
      BY <3>1, <3>2
  <2>2. \A q \in net' : Hands(q) => q \in net
    BY <1>4 DEF Hands
  <2> QED
    BY <1>14, <2>1, <2>2 DEF Counted
<1>15. \A p \in 0 .. MaxOps : p > ops => sent'[p] = -1
  BY <1>0, <1>6, <1>7 DEF Counted
<1> QED
  BY <1>1, <1>9, <1>12, <1>13, <1>14, <1>15 DEF Counted

\* A destination that counts an event or learns how many there are waits for the
\* rest, or has handled them all and finishes.
LEMMA HandledCounted ==
  ASSUME TypeOK, TypeOK', Safe, Counted, NEW m \in net, NEW nd \in Node,
         Noticed(m, nd, EnoughHandled(nd)), m.kind \in {"allsent", "user"}, m.dir = "down",
         nd.mode = "to", nd.shard = node[m.node].shard, nd.op = m.op, nd.processed = nd.own,
         nd.total \in {-1, sent[m.op]},
         nd.total # -1 => \A q \in net \ {m} : ~Carries(q, m.node),
         IsFiniteSet(Awaited(m.op)'), Cardinality(Awaited(m.op)') + nd.own = sent[m.op]
  PROVE  /\ Counted'
         /\ \A n \in Nodes : Finishes(n) => node'[n].own = sent[node[n].op]
<1> DEFINE b == m.node
           o == m.op
           done == EnoughHandled(nd)
<1>0. /\ \A q \in net : q.node \in Nodes /\ q.op \in 0 .. MaxOps
      /\ ops \in Nat
  BY BoundsAssumption, Fields DEF TypeOK
<1>1. /\ conn' = conn /\ sent' = sent /\ ops' = ops /\ b \in Nodes
      /\ ToReady(m) /\ ~Hands(m) /\ Receiver(m) = b
      /\ node[b].mode = "to" /\ node[b].op = o /\ o <= ops /\ sent[o] # -1
  <2>1. ToReady(m) /\ ~Hands(m) /\ Receiver(m) = b
    BY DEF ToReady, Hands, Receiver
  <2>2. UNCHANGED <<conn, sent, ops>>
    BY Zenon DEF Noticed
  <2> QED
    BY <1>0, <2>1, <2>2 DEF Counted
<1>2. nd.own \in Nat /\ sent[o] \in Nat /\ Cardinality(Awaited(o)') \in Nat /\ o \in Nat
  <2>1. Cardinality(Awaited(m.op)') \in Nat
    BY FS_CardinalityType
  <2>2. nd.own \in Nat
    BY DEF Node
  <2>3. sent[o] \in Nat /\ o \in Nat
    BY <1>0, <1>1 DEF TypeOK
  <2> QED
    BY <2>1, <2>2, <2>3
<1>3. nd.shard # NoShard
  BY <1>1, ShardsAssumption DEF Safe, Follows, NoShard
<1>4. /\ net \ {m} \subseteq net'
      /\ \A q \in net' : q \in net \ {m} \/ (q.kind = "start" /\ q.op = o)
      /\ \A x \in Nodes : x # b => node'[x] = node[x]
      /\ node'[b].op = o /\ node'[b].own = nd.own
      /\ IF done THEN node'[b].mode = "none" ELSE node'[b] = nd
  <2>1. CASE done
    <3>1. Finish(b, nd, m)
      BY <1>3, <2>1, Zenon DEF Noticed
    <3>2. node' = [node EXCEPT ![b] = Forgotten(nd)]
      BY <3>1 DEF Finish
    <3>3. Forgotten(nd).mode = "none" /\ Forgotten(nd).op = o /\ Forgotten(nd).own = nd.own
      BY DEF Forgotten, Node
    <3>4. net' = (net \ {m}) \cup {Start("up", b, nd.op, {nd.shard})}
      BY <3>1 DEF Finish
    <3> HIDE DEF b, o, done
    <3> QED
      BY <1>1, <2>1, <3>2, <3>3, <3>4 DEF TypeOK, Start, o
  <2>2. CASE ~done
    <3>1. node' = [node EXCEPT ![b] = nd] /\ net' = net \ {m}
      BY <2>2, Zenon DEF Noticed
    <3> HIDE DEF b, done
    <3> QED
      BY <1>1, <2>2, <3>1 DEF TypeOK
  <2> QED
    BY <2>1, <2>2
<1>5. \A p : p # o => Awaited(p)' = Awaited(p)
  BY <1>4 DEF Awaited
<1>6. done => nd.total = sent[o] /\ nd.own = sent[o] /\ Awaited(o)' = {}
  <2> SUFFICES ASSUME done PROVE nd.total = sent[o] /\ nd.own = sent[o] /\ Awaited(o)' = {}
    OBVIOUS
  <2>1. nd.total > -1 /\ nd.own >= nd.total
    BY DEF EnoughHandled
  <2>2. nd.total = sent[o]
    BY <1>2, <2>1
  <2>3. nd.own = sent[o] /\ Cardinality(Awaited(o)') = 0
    BY <1>2, <2>1, <2>2
  <2>4. Awaited(o)' = {}
    BY <2>3, FS_EmptySet
  <2> QED
    BY <2>2, <2>3, <2>4
<1>7. ASSUME done PROVE \A q \in net \ {m} : ToReady(q) => Receiver(q) # b
  <2> SUFFICES ASSUME NEW q \in net, q # m, ToReady(q), Receiver(q) = b PROVE FALSE
    OBVIOUS
  <2>1. nd.total # -1
    BY <1>2, <1>6, <1>7
  <2>2. ~Carries(q, b)
    BY <2>1
  <2>3. CASE q.kind = "transfer" \/ (q.kind = "prepare" /\ ~q.origin /\ q.dir = "up")
    <3>1. Takes(b, q.shard)
      BY <2>3 DEF Receiver, Safe, Pairs
    <3> QED
      BY <2>2, <2>3, <3>1 DEF Takes, Carries, About
  <2>4. CASE q.kind = "allsent"
    BY <2>2, <2>4 DEF Carries, Receiver
  <2>5. CASE q.kind = "user" /\ q.dir = "down"
    <3>1. q \in net' /\ q.op = o
      BY <1>1, <1>4, <2>5 DEF Counted
    <3>2. q.num \in Nat
      BY <2>5, Fields DEF TypeOK
    <3>3. q.num \in Awaited(o)'
      BY <2>5, <3>1, <3>2 DEF Awaited
    <3> QED
      BY <1>6, <1>7, <3>3
  <2> QED
    BY <2>3, <2>4, <2>5 DEF ToReady
<1> HIDE DEF b, o, done
<1>8. \A q : Receiver(q)' = Receiver(q)
  BY <1>1 DEF Receiver
<1>9. \A q \in net' : Hands(q) \/ ToReady(q) \/ q.kind \in {"allsent", "user"} => q \in net \ {m}
  BY <1>4 DEF Hands, ToReady
<1>10. ASSUME NEW q \in net'
      PROVE  /\ q.op <= ops
             /\ Hands(q) => sent[q.op] = -1
             /\ q.kind \in {"allsent", "user"} => sent[q.op] # -1
             /\ q.kind = "allsent" => q.num = sent[q.op]
             /\ ToReady(q) => /\ Receiver(q) \in Nodes
                              /\ node'[Receiver(q)].mode = "to" /\ node'[Receiver(q)].op = q.op
  <2>1. q.op <= ops
    BY <1>1, <1>4 DEF Counted
  <2>2. ASSUME ToReady(q)
        PROVE  /\ Receiver(q) \in Nodes
               /\ node'[Receiver(q)].mode = "to" /\ node'[Receiver(q)].op = q.op
    <3>1. /\ q \in net \ {m} /\ Receiver(q) \in Nodes
          /\ node[Receiver(q)].mode = "to" /\ node[Receiver(q)].op = q.op
      BY <1>9, <2>2 DEF Counted
    <3>2. CASE Receiver(q) = b
      <4>1. ~done
        BY <1>7, <2>2, <3>1, <3>2
      <4>2. node'[b].mode = "to" /\ node'[b].op = q.op
        BY <1>1, <1>4, <3>1, <3>2, <4>1
      <4> QED
        BY <3>1, <3>2, <4>2
    <3>3. CASE Receiver(q) # b
      BY <1>4, <3>1, <3>3
    <3> QED
      BY <3>2, <3>3
  <2> QED
    BY <1>9, <2>1, <2>2 DEF Counted
<1>11. ASSUME NEW q1 \in net', NEW q2 \in net', q1.op = q2.op
      PROVE  /\ Hands(q1) /\ Hands(q2) => q1 = q2
             /\ q1.kind = "user" /\ q2.kind = "user" /\ q1.num = q2.num => q1 = q2
  BY <1>9, <1>11 DEF Counted
<1>12. ASSUME NEW x \in Nodes, node'[x].mode = "to"
      PROVE  /\ Count(x)'
             /\ \A q \in net' : Hands(q) /\ q.op = node'[x].op => ToReady(q) /\ Receiver(q) = x
             /\ \A y \in Nodes : node'[y].mode = "to" /\ node'[y].op = node'[x].op => y = x
  <2>1. \A y \in Nodes : node'[y].mode = "to" => node[y].mode = "to" /\ node'[y].op = node[y].op
    BY <1>1, <1>4
  <2>2. Count(x)'
    <3>1. CASE x = b
      <4>1. ~done /\ node'[x] = nd /\ nd.op = o
        BY <1>4, <1>12, <3>1 DEF o
      <4>2. /\ IsFiniteSet(Awaited(o)') /\ Cardinality(Awaited(o)') + nd.own = sent[o]
            /\ nd.total \in {-1, sent[o]} /\ nd.processed = nd.own
        BY DEF o
      <4>3. ASSUME NEW S, S = Awaited(o)' PROVE Awaited(node[x].op)' = S
        BY <4>1, <4>3
      <4> QED
        BY <1>1, <4>1, <4>2, <4>3 DEF Count
    <3>2. CASE x # b
      <4>1. node'[x] = node[x] /\ node[x].op # o /\ Count(x)
        BY <1>1, <1>4, <1>12, <2>1, <3>2 DEF Counted
      <4> QED
        BY <1>1, <1>5, <4>1 DEF Count
    <3> QED
      BY <3>1, <3>2
  <2>3. \A q \in net' : Hands(q) /\ q.op = node'[x].op => ToReady(q) /\ Receiver(q) = x
    BY <1>9, <1>12, <2>1 DEF Counted
  <2> QED
    BY <1>12, <2>1, <2>2, <2>3 DEF Counted
<1>13. \A p \in 0 .. MaxOps : p > ops => sent[p] = -1
  BY DEF Counted
<1>14. Counted'
  BY <1>1, <1>8, <1>10, <1>11, <1>12, <1>13 DEF Counted
<1>15. ASSUME NEW n \in Nodes, Finishes(n) PROVE node'[n].own = sent[node[n].op]
  <2>1. n = b
    BY <1>4, <1>15 DEF Finishes
  <2>2. done
    BY <1>3, <1>4, <1>15, <2>1 DEF Finishes
  <2> QED
    BY <1>1, <1>4, <1>6, <2>1, <2>2
<1> QED
  BY <1>14, <1>15

\* Removing user event m: the others are still on their way.
LEMMA OneLess ==
  ASSUME Counted, NEW m \in net, m.kind = "user", m.num \in Nat,
         \A q \in net' : q.kind = "user" => q \in net \ {m},
         net \ {m} \subseteq net'
  PROVE  /\ m.num \in Awaited(m.op)
         /\ Awaited(m.op)' = Awaited(m.op) \ {m.num}
<1>1. m.num \in Awaited(m.op)
  BY DEF Awaited
<1>2. ASSUME NEW i \in Nat
      PROVE  (\E q \in net' : q.kind = "user" /\ q.op = m.op /\ q.num = i)
             <=> i # m.num /\ \E q \in net : q.kind = "user" /\ q.op = m.op /\ q.num = i
  BY DEF Counted
<1> QED
  BY <1>1, <1>2 DEF Awaited

LEMMA NodeCounted ==
  ASSUME TypeOK, TypeOK', Safe, Counted, NEW m \in net, NodeStep(m)
  PROVE  /\ Counted'
         /\ \A n \in Nodes : Finishes(n) => node'[n].own = sent[node[n].op]
<1>0. m.node \in Nodes /\ node[m.node] \in Node
  BY Fields DEF TypeOK
<1>1. CASE StartsShards(m) \/ StopsShard(m)
  <2>1. \A n \in Nodes : node'[n].shard = node[n].shard
    <3>1. CASE StartsShards(m)
      BY <1>0, <3>1 DEF StartsShards, TypeOK, Node
    <3>2. CASE StopsShard(m)
      BY <1>0, <3>2 DEF StopsShard, TypeOK, Node
    <3> QED
      BY <1>1, <3>1, <3>2
  <2> QED
    BY <1>1, <2>1, RunsCounted DEF Finishes
<1>2. CASE PreparesOrigin(m) \/ PreparesDest(m)
  <2>1. m.shard \in Shards /\ m.shard # NoShard
    <3>1. m.kind = "prepare"
      BY <1>2 DEF PreparesOrigin, PreparesDest, Received
    <3>2. m.shard \in Shards
      BY <3>1, Fields DEF TypeOK
    <3> QED
      BY <3>2, ShardsAssumption DEF NoShard
  <2>2. \A n \in Nodes : node'[n].shard = node[n].shard \/ node'[n].shard = m.shard
    <3>1. CASE PreparesOrigin(m)
      <4>1. node' = [node EXCEPT ![m.node] = [node[m.node] EXCEPT !.mode = "from", !.shard = m.shard,
                                                          !.shards = node[m.node].shards \ {m.shard}]]
        BY <3>1 DEF PreparesOrigin
      <4>2. [node[m.node] EXCEPT !.mode = "from", !.shard = m.shard,
                                 !.shards = node[m.node].shards \ {m.shard}].shard = m.shard
        BY <1>0 DEF Node
      <4> QED
        BY <1>0, <4>1, <4>2 DEF TypeOK
    <3>2. CASE PreparesDest(m)
      BY <1>0, <3>2 DEF PreparesDest, Prepared, TypeOK, Node
    <3> QED
      BY <1>2, <3>1, <3>2
  <2> QED
    BY <1>2, <2>1, <2>2, PreparesOriginCounted, PreparesDestCounted DEF Finishes
<1>3. CASE TransfersFrom(m)
  BY <1>3, TransfersCounted DEF TransfersFrom, Finishes
<1>4. CASE LearnsTotal(m)
  <2> DEFINE nd == [node[m.node] EXCEPT !.total = m.num]
  <2>1. m.kind = "allsent" /\ m.dir = "down" /\ m.num \in Nat
    BY <1>4, Fields DEF LearnsTotal, Received, TypeOK
  <2>2. /\ nd \in Node /\ nd.mode = node[m.node].mode /\ nd.shard = node[m.node].shard
        /\ nd.op = node[m.node].op /\ nd.processed = node[m.node].processed
        /\ nd.own = node[m.node].own /\ nd.total = m.num
    BY <1>0, <2>1 DEF Node
  <2>3. Noticed(m, nd, EnoughHandled(nd))
    BY <1>4, Zenon DEF LearnsTotal
  <2>4. /\ node[m.node].mode = "to" /\ node[m.node].op = m.op
        /\ sent[m.op] # -1 /\ m.num = sent[m.op]
    BY <2>1 DEF Counted, ToReady, Receiver
  <2>5. Count(m.node)
    BY <1>0, <2>4 DEF Counted
  <2>6. /\ nd.processed = nd.own /\ IsFiniteSet(Awaited(m.op))
        /\ Cardinality(Awaited(m.op)) + nd.own = sent[m.op]
    BY <2>2, <2>4, <2>5 DEF Count
  <2>7. \A q \in net \ {m} : ~Carries(q, m.node)
    BY <1>0, <2>1, <2>4 DEF Safe, Follows, Carries
  <2> HIDE DEF nd
  <2>8. Awaited(m.op)' = Awaited(m.op)
    <3>1. CASE EnoughHandled(nd)
      <4>1. nd.shard # NoShard
        BY <1>0, <2>2, <2>4, ShardsAssumption DEF Safe, Follows, NoShard
      <4>2. Finish(m.node, nd, m)
        BY <2>3, <3>1, <4>1, Zenon DEF Noticed
      <4>3. net' = (net \ {m}) \cup {Start("up", m.node, nd.op, {nd.shard})}
        BY <4>2 DEF Finish
      <4>4. /\ \A u \in net : u.kind = "user" => u \in net'
            /\ \A u \in net' : u.kind = "user" => u \in net
        BY <2>1, <4>3 DEF Start
      <4> QED
        BY <4>4, AwaitedSame
    <3>2. CASE ~EnoughHandled(nd)
      <4>1. net' = net \ {m}
        BY <2>3, <3>2, Zenon DEF Noticed
      <4> QED
        BY <2>1, <4>1, AwaitedSame
    <3> QED
      BY <3>1, <3>2
  <2>9. IsFiniteSet(Awaited(m.op)') /\ Cardinality(Awaited(m.op)') + nd.own = sent[m.op]
    BY <2>6, <2>8
  <2> QED
    BY <2>1, <2>2, <2>3, <2>4, <2>6, <2>7, <2>9, HandledCounted
<1>5. CASE HandlesUserEvt(m)
  <2> DEFINE own == IF m.op = node[m.node].op THEN node[m.node].own + 1 ELSE node[m.node].own
             nd == [node[m.node] EXCEPT !.processed = @ + 1, !.own = own]
  <2>1. m.kind = "user" /\ m.dir = "down" /\ m.num \in Nat
    BY <1>5, Fields DEF HandlesUserEvt, Received, TypeOK
  <2>2. /\ nd \in Node /\ nd.mode = node[m.node].mode /\ nd.shard = node[m.node].shard
        /\ nd.op = node[m.node].op /\ nd.processed = node[m.node].processed + 1
        /\ nd.own = own /\ nd.total = node[m.node].total
    <3>1. node[m.node].processed + 1 \in Nat /\ own \in Nat
      BY <1>0 DEF Node
    <3> HIDE DEF own
    <3> QED
      BY <1>0, <3>1 DEF Node
  <2>3. Noticed(m, nd, EnoughHandled(nd))
    BY <1>5, Zenon DEF HandlesUserEvt
  <2>4. node[m.node].mode = "to" /\ node[m.node].op = m.op /\ sent[m.op] # -1
    BY <2>1 DEF Counted, ToReady, Receiver
  <2>5. own = node[m.node].own + 1
    BY <2>4
  <2>6. Count(m.node)
    BY <1>0, <2>4 DEF Counted
  <2>7. /\ nd.processed = nd.own /\ nd.total \in {-1, sent[m.op]}
        /\ IsFiniteSet(Awaited(m.op))
        /\ Cardinality(Awaited(m.op)) + node[m.node].own = sent[m.op]
    BY <2>2, <2>4, <2>5, <2>6 DEF Count
  <2>8. nd.total # -1 => \A q \in net \ {m} : ~Carries(q, m.node)
    BY <1>0, <2>2, <2>4 DEF Safe, Follows
  <2> HIDE DEF nd, own
  <2>9. net \ {m} \subseteq net' /\ \A q \in net' : q.kind = "user" => q \in net \ {m}
    <3>1. CASE EnoughHandled(nd)
      <4>1. nd.shard # NoShard
        BY <1>0, <2>2, <2>4, ShardsAssumption DEF Safe, Follows, NoShard
      <4>2. Finish(m.node, nd, m)
        BY <2>3, <3>1, <4>1, Zenon DEF Noticed
      <4> QED
        BY <4>2 DEF Finish, Start
    <3>2. CASE ~EnoughHandled(nd)
      <4>1. net' = net \ {m}
        BY <2>3, <3>2, Zenon DEF Noticed
      <4> QED
        BY <4>1
    <3> QED
      BY <3>1, <3>2
  <2>10. m.num \in Awaited(m.op) /\ Awaited(m.op)' = Awaited(m.op) \ {m.num}
    BY <2>1, <2>9, OneLess
  <2>11. /\ IsFiniteSet(Awaited(m.op) \ {m.num})
         /\ Cardinality(Awaited(m.op) \ {m.num}) = Cardinality(Awaited(m.op)) - 1
    BY <2>7, <2>10, FS_RemoveElement
  <2>12. Cardinality(Awaited(m.op)) \in Nat /\ node[m.node].own \in Nat
    BY <1>0, <2>7, FS_CardinalityType DEF Node
  <2>13. IsFiniteSet(Awaited(m.op)') /\ Cardinality(Awaited(m.op)') + nd.own = sent[m.op]
    BY <2>2, <2>5, <2>7, <2>10, <2>11, <2>12
  <2> QED
    BY <2>1, <2>2, <2>3, <2>4, <2>7, <2>8, <2>13, HandledCounted
<1>6. ~ShutsDown(m)
  BY DEF ShutsDown, Received, Safe, Joined
<1> QED
  BY <1>1, <1>2, <1>3, <1>4, <1>5, <1>6 DEF NodeStep

LEMMA StepCounted ==
  ASSUME TypeOK, TypeOK', Safe, Counted, Undisturbed', [Next]_vars
  PROVE  Counted' /\ Complete
<1>0. drops \in Nat /\ ops \in Nat
  BY BoundsAssumption DEF TypeOK
<1>1. CASE Command
  <2>1. node' = node
    BY <1>1, Zenon DEF Command, StartShards, StopShard, StartShardMigration, MigrateToBusy, Undisturbed
  <2> QED
    BY <1>1, <2>1, CommandCounted DEF Complete, Finishes
<1>2. CASE Step
  <2>1. ASSUME NEW m \in net, HandleIdentify(m) \/ OrchestratorStep(m) PROVE Counted' /\ node' = node
    <3>1. node' = node
      BY <2>1, Zenon DEF OrchestratorStep, HandleIdentify, HandleStarted, HandleStopped,
         HandleOriginReady, HandleDestReady, HandleAllSent, HandleUserEvt
    <3> QED
      BY <2>1, <3>1, AnswersCounted, OriginReadyCounted, DestReadyCounted, ForwardedCounted
         DEF OrchestratorStep
  <2>2. ASSUME NEW m \in net, NodeStep(m) PROVE Counted' /\ Complete
    BY <2>2, NodeCounted DEF Complete
  <2>3. ASSUME NEW n \in Nodes, NEW s \in Shards, GatewayOpens(n, s) PROVE Counted' /\ node' = node
    <3>1. UNCHANGED <<conn, node, net, sent, ops>>
      BY <2>3 DEF GatewayOpens
    <3> QED
      BY <1>0, <3>1, KeepsCounted DEF SameReady, Receiver
  <2> QED
    BY <1>2, <2>1, <2>2, <2>3 DEF Step, Complete, Finishes
<1>3. CASE Recovery
  <2>1. PICK n \in Nodes : NoticeDrop(n) \/ Reconnect(n)
    BY <1>3 DEF Recovery
  <2>2. ~NoticeDrop(n)
    BY DEF NoticeDrop, Safe, Joined
  <2>3. /\ UNCHANGED <<conn, sent, ops>> /\ net' = net \cup {Identify(n, node[n].shards)}
        /\ node' = [node EXCEPT ![n].link = TRUE]
    BY <2>1, <2>2 DEF Reconnect
  <2>4. SameReady /\ \A x \in Nodes : node'[x].shard = node[x].shard
    BY SMTT(30), <2>3 DEF SameReady, TypeOK, Node
  <2>5. /\ net \subseteq net'
        /\ \A q \in net' : q \in net \/ (q.kind = "identify" /\ q.op = 0)
    BY <2>3 DEF Identify
  <2>6. \A q : Receiver(q)' = Receiver(q)
    BY <2>3 DEF Receiver
  <2>7. \A q \in net' : q \in net \/ (q.op <= ops' /\ ~ToReady(q) /\ q.kind # "user" /\ ~Hands(q))
    BY <1>0, <2>3, <2>5 DEF ToReady, Hands
  <2>8. Counted'
    BY <1>0, <2>3, <2>4, <2>5, <2>6, <2>7, KeepsCounted
  <2> QED
    BY <2>4, <2>8 DEF Complete, Finishes
<1>4. CASE Failure
  <2>1. drops' # drops + 1
    BY <1>0 DEF Undisturbed
  <2>2. \A n \in Nodes : ~Drop(n) /\ ~Die(n)
    BY <2>1 DEF Drop, Die
  <2>3. ~Restart
    BY <2>1 DEF Restart
  <2>4. \A m \in net : ~Lose(m)
    BY NothingToLose
  <2> QED
    BY <1>4, <2>2, <2>3, <2>4 DEF Failure
<1>5. CASE UNCHANGED vars
  <2>1. UNCHANGED <<conn, node, net, sent, ops>>
    BY <1>5 DEF vars
  <2>2. Counted'
    BY <1>0, <2>1, KeepsCounted DEF SameReady, Receiver
  <2> QED
    BY <2>1, <2>2 DEF Complete, Finishes
<1> QED
  BY <1>1, <1>2, <1>3, <1>4, <1>5 DEF Next

(* Without failures a destination resumes a shard only when it has handled every
   user event that the origin sent for it (node.go): the events it has counted
   and those still on their way are always as many as were sent, in whatever
   order they and their total arrive.                                        *)
THEOREM CompleteState ==
  ASSUME ~SlowOpen, ~BusyTargets, MaxDrops = 0
  PROVE  Spec => ResumesWithAllState
<1> DEFINE Inv == SafeInv /\ Undisturbed /\ Counted
<1>1. Init => Undisturbed /\ Counted
  BY InitCounted DEF Undisturbed, Init
<1>2. Inv /\ [Next]_vars => Undisturbed' /\ Counted' /\ Complete
  <2> SUFFICES ASSUME Inv, [Next]_vars PROVE Undisturbed' /\ Counted' /\ Complete
    OBVIOUS
  <2>1. TypeOK /\ TypeOK' /\ Safe
    BY TypingStep DEF SafeInv
  <2>2. Undisturbed'
    BY <2>1, NothingFails
  <2> QED
    BY <2>1, <2>2, StepCounted
<1>3. Complete => [\A n \in Nodes : Finishes(n) => node'[n].own = sent[node[n].op]]_vars
  BY DEF Complete
<1> QED
  BY <1>1, <1>2, <1>3, SafeAlways, PTL DEF Spec, ResumesWithAllState

-----------------------------------------------------------------------------
(* When nothing is on its way, nothing is left undone.                      *)

LEMMA InitAccounted == Init => Accounted
<1> SUFFICES ASSUME Init PROVE Accounted
  OBVIOUS
<1>0. PICK at \in Placements :
      /\ conn = [n \in Nodes |-> IF n \in Newcomers THEN NoConn
                                 ELSE NewConn({s \in Shards : at[s] = n})]
      /\ node = [n \in Nodes |->
           [alive |-> TRUE, link |-> n \notin Newcomers,
            shards |-> {s \in Shards : at[s] = n},
            mode |-> "none", shard |-> 0, session |-> 0, processed |-> 0,
            total |-> 0, op |-> 0, own |-> 0]]
      /\ gw = [n \in Nodes |-> [s \in Shards |->
           IF at[s] = n THEN [st |-> "open", session |-> 1]
                        ELSE [st |-> "closed", session |-> 0]]]
  BY DEF Init
<1>1. \A n \in Nodes : node[n].mode = "none" /\ node[n].shards = {s \in Shards : at[s] = n}
  BY <1>0
<1>2. \A n \in Nodes, s \in Shards : Open(n, s) <=> at[s] = n
  BY <1>0 DEF Open
<1>3. \A n \in Nodes : conn[n].mode = "none"
  <2>1. \A S : NewConn(S).mode = "none"
    BY DEF NewConn
  <2>2. NoConn.mode = "none"
    <3>1. NewConn({}) \in Conn
      BY ShardsAssumption DEF NewConn, Conn, Modes
    <3> QED
      BY <2>1, <3>1 DEF NoConn, Conn
  <2> QED
    BY <1>0, <2>1, <2>2
<1> QED
  BY <1>1, <1>2, <1>3 DEF Accounted, Takes

LEMMA StaysFollowed ==
  ASSUME NEW m \in net, m \in net', SameShard,
         conn'[m.node].other = conn[m.node].other, conn'[m.node].shard = conn[m.node].shard
  PROVE  Followed(m)
<1>1. \A a \in Nodes : Leads(m, a) => Leads(m, a)'
  BY DEF Leads
<1>2. \A b \in Nodes : Brings(m, b) => Brings(m, b)'
  BY DEF Brings
<1>3. \A b \in Nodes : node[b].mode = "to" /\ node'[b].mode = "to" /\ Carries(m, b) => Carries(m, b)'
  BY DEF Carries, About, SameShard
<1> QED
  BY <1>1, <1>2, <1>3 DEF Followed

LEMMA AccountedStep ==
  ASSUME Accounted,
         \A n \in Nodes, s \in Shards : s \in node'[n].shards <=> Open(n, s)' \/ Takes(n, s)',
         \A a \in Nodes : conn'[a].mode = "from" =>
           conn[a].mode = "from" \/ \E q \in net' : Leads(q, a)',
         \A b \in Nodes : conn'[b].mode = "to" =>
           conn[b].mode = "to" \/ \E q \in net' : Brings(q, b)',
         \A b \in Nodes : node[b].mode = "to" =>
           node'[b].mode = "to" \/ \E q \in net' : Brings(q, b)',
         \A b \in Nodes : node'[b].mode = "to" =>
           \/ node[b].mode = "to" /\ node'[b].total = node[b].total
                                  /\ node'[b].processed = node[b].processed
           \/ node[b].mode = "to" /\ node[b].total = -1 /\ node'[b].total = -1
           \/ IF node'[b].total = -1 THEN \E q \in net' : Carries(q, b)'
                                     ELSE node'[b].processed < node'[b].total,
         \A m \in net : Followed(m)
  PROVE  Accounted'
<1>1. ASSUME NEW a \in Nodes, conn'[a].mode = "from" PROVE \E q \in net' : Leads(q, a)'
  BY <1>1 DEF Accounted, Followed
<1>2. ASSUME NEW b \in Nodes, conn'[b].mode = "to"
      PROVE  node'[b].mode = "to" \/ \E q \in net' : Brings(q, b)'
  BY <1>2 DEF Accounted, Followed
<1>3. ASSUME NEW b \in Nodes, node'[b].mode = "to"
      PROVE  IF node'[b].total = -1 THEN \E q \in net' : Carries(q, b)'
                                    ELSE node'[b].processed < node'[b].total
  BY <1>3 DEF Accounted, Followed
<1> QED
  BY <1>1, <1>2, <1>3 DEF Accounted

\* The orchestrator is at work, or a gateway: the nodes stay as they are.
LEMMA SameNodes ==
  ASSUME TypeOK, Accounted, \A n \in Nodes, s \in Shards : Open(n, s)' <=> Open(n, s),
         \A n \in Nodes : /\ node'[n].shards = node[n].shards /\ node'[n].mode = node[n].mode
                          /\ node'[n].shard = node[n].shard /\ node'[n].total = node[n].total
                          /\ node'[n].processed = node[n].processed,
         \A a \in Nodes : conn'[a].mode = "from" =>
           conn[a].mode = "from" \/ \E q \in net' : Leads(q, a)',
         \A b \in Nodes : conn'[b].mode = "to" =>
           conn[b].mode = "to" \/ \E q \in net' : Brings(q, b)',
         \A m \in net : Followed(m)
  PROVE  Accounted'
<1>1. \A n \in Nodes, s \in Shards : s \in node'[n].shards <=> Open(n, s)' \/ Takes(n, s)'
  BY DEF Accounted, Takes
<1> QED
  BY <1>1, AccountedStep

\* What is on its way depends on nothing that a step without effect on the orchestrator
\* and the nodes can change.
LEMMA QuietAccounted ==
  ASSUME TypeOK, Accounted, \A n \in Nodes, s \in Shards : Open(n, s)' <=> Open(n, s),
         \A n \in Nodes : /\ node'[n].shards = node[n].shards /\ node'[n].mode = node[n].mode
                          /\ node'[n].shard = node[n].shard /\ node'[n].total = node[n].total
                          /\ node'[n].processed = node[n].processed,
         conn' = conn, net \subseteq net'
  PROVE  Accounted'
<1>1. \A m \in net : Followed(m)
  BY StaysFollowed DEF SameShard
<1> QED
  BY <1>1, SameNodes

LEMMA CommandAccounted ==
  ASSUME TypeOK, Safe, Accounted, Command, Undisturbed'
  PROVE  Accounted'
<1>1. ASSUME NEW n \in Nodes, NEW S \in SUBSET Shards, StartShards(n, S, ops') PROVE Accounted'
  <2>1. UNCHANGED <<conn, node, gw>> /\ net \subseteq net'
    BY <1>1 DEF StartShards
  <2> QED
    BY <2>1, QuietAccounted DEF Open
<1>2. ASSUME NEW s \in Shards, StopShard(s) PROVE Accounted'
  <2>1. UNCHANGED <<conn, node, gw>> /\ net \subseteq net'
    BY <1>2 DEF StopShard
  <2> QED
    BY <2>1, QuietAccounted DEF Open
<1>3. ASSUME NEW from \in Nodes, NEW to \in Nodes, NEW s \in Shards, StartShardMigration(from, to, s)
      PROVE  Accounted'
  <2>0. PICK new : new = Prepare("down", from, ops', s, TRUE, 0)
    OBVIOUS
  <2>1. /\ UNCHANGED <<node, gw>> /\ from # to /\ net' = net \cup Deliverable({new})
        /\ conn[from].mode = "none" /\ conn[to].mode = "none" /\ conn[from].known
    <3>1. conn[from].known
      BY <1>3 DEF StartShardMigration, Running, Safe, Joined
    <3> QED
      BY <1>3, <2>0, <3>1 DEF StartShardMigration, Idle
  <2>2. /\ \A x \in Nodes \ {from, to} : conn'[x] = conn[x]
        /\ conn'[from].mode = "from" /\ conn'[from].other = to
        /\ conn'[to].mode = "to"
    BY <1>3, <2>1 DEF StartShardMigration, TypeOK, Conn
  <2>3. new.kind = "prepare" /\ new.origin /\ new.node = from
    BY <2>0 DEF Prepare
  <2>4. new \in net' /\ net \subseteq net'
    <3>1. Reachable(from)
      BY <2>1 DEF Reachable, Safe, Joined
    <3> QED
      BY <2>1, <2>3, <3>1 DEF Deliverable
  <2>5. Leads(new, from)' /\ Brings(new, to)'
    BY <2>2, <2>3 DEF Leads, Brings
  <2>6. \A q \in net : q.node \in Nodes /\ q.dir \in Dirs
    BY Fields DEF TypeOK
  <2>7. ASSUME NEW q \in net PROVE Followed(q)
    <3>1. CASE q.node \notin {from, to}
      BY <2>1, <2>2, <2>4, <2>6, <3>1, StaysFollowed DEF SameShard
    <3>2. CASE q.node \in {from, to}
      <4>1. conn[q.node].mode = "none"
        BY <2>1, <3>2
      <4>2. q.kind \notin {"prepare", "transfer"} /\ ~(q.kind = "allsent" /\ q.dir = "up")
        BY <4>1 DEF Safe, Pairs, Pair
      <4>3. \A a : ~Leads(q, a)
        BY <4>2 DEF Leads
      <4>4. \A b \in Nodes : conn'[b].mode = "to" /\ Brings(q, b) => b = to
        BY <2>1, <2>2, <3>2, <4>2 DEF Brings
      <4>5. \A b \in Nodes : Carries(q, b) => Carries(q, b)'
        BY <2>1, <4>2 DEF Carries, About
      <4> QED
        BY <2>4, <2>5, <4>3, <4>4, <4>5 DEF Followed
    <3> QED
      BY <3>1, <3>2
  <2>8. \A a \in Nodes : /\ conn'[a].mode = "from" => conn[a].mode = "from" \/ a = from
                         /\ conn'[a].mode = "to" => conn[a].mode = "to" \/ a = to
    BY <2>2
  <2>9. \A n \in Nodes, t \in Shards : Open(n, t)' <=> Open(n, t)
    BY <2>1 DEF Open
  <2> QED
    BY <2>1, <2>4, <2>5, <2>7, <2>8, <2>9, SameNodes
<1>4. \A from, to \in Nodes, s \in Shards : ~MigrateToBusy(from, to, s)
  BY DEF MigrateToBusy, Undisturbed
<1> QED
  BY <1>1, <1>2, <1>3, <1>4 DEF Command

\* A command about a shard that a node takes over is its own migration.
LEMMA NoCarrier ==
  ASSUME Safe, NEW m \in net,
         m.kind \in {"start", "stop"} \/ (m.kind = "prepare" /\ (m.origin \/ m.dir = "down")),
         NEW b \in Nodes, node[b].mode = "to"
  PROVE  ~Carries(m, b)
<1>1. Takes(b, node[b].shard) /\ node[b].shard \in Shards
  BY DEF Safe, Follows, Takes
<1>2. ~About(m, node[b].shard)
  BY <1>1 DEF Safe, OneAtATime
<1> QED
  BY <1>2 DEF Carries

\* The orchestrator's steps other than the two below: other and shard stay.
LEMMA PassesOn ==
  ASSUME TypeOK, Accounted, NEW m \in net, Followed(m), net \ {m} \subseteq net',
         UNCHANGED <<node, gw>>,
         \A x \in Nodes : /\ conn'[x].other = conn[x].other /\ conn'[x].shard = conn[x].shard
                          /\ conn'[x].mode \in {conn[x].mode, "none"}
  PROVE  Accounted'
<1>1. \A q \in net : q.node \in Nodes
  BY Fields DEF TypeOK
<1>2. \A q \in net : Followed(q)
  BY <1>1, StaysFollowed DEF SameShard
<1>3. \A n \in Nodes, s \in Shards : Open(n, s)' <=> Open(n, s)
  BY DEF Open
<1> QED
  BY <1>2, <1>3, SameNodes

LEMMA IdentifyAccounted ==
  ASSUME TypeOK, Safe, Accounted, NEW m \in net, HandleIdentify(m)
  PROVE  Accounted'
<1>0. \A q \in net : q.node \in Nodes
  BY Fields DEF TypeOK
<1>1. /\ m.kind = "identify" /\ ~conn[m.node].known /\ m.node \in Nodes
      /\ UNCHANGED <<node, gw>> /\ net' = net \ {m}
  BY <1>0 DEF HandleIdentify, Safe, Joined
<1>2. /\ \A x \in Nodes : x # m.node => conn'[x] = conn[x]
      /\ conn'[m.node].mode = "none"
  BY <1>1 DEF HandleIdentify, Identified, NewConn, TypeOK
<1>3. ASSUME NEW q \in net PROVE Followed(q)
  <2>1. CASE q.kind = "identify"
    BY <2>1 DEF Followed, Leads, Brings, Carries, About
  <2>2. CASE q.kind # "identify"
    <3>1. q.node # m.node /\ q \in net'
      BY <1>1, <2>2 DEF Safe, Joined
    <3> QED
      BY <1>0, <1>1, <1>2, <3>1, StaysFollowed DEF SameShard
  <2> QED
    BY <2>1, <2>2
<1>4. \A n \in Nodes, s \in Shards : Open(n, s)' <=> Open(n, s)
  BY <1>1 DEF Open
<1>5. \A a \in Nodes : conn'[a].mode # "none" => conn'[a] = conn[a]
  BY <1>2
<1> QED
  BY <1>1, <1>3, <1>4, <1>5, SameNodes

LEMMA AnswersAccounted ==
  ASSUME TypeOK, Safe, Accounted, NEW m \in net, HandleStarted(m) \/ HandleStopped(m)
  PROVE  Accounted'
<1>0. m.node \in Nodes /\ m.kind \in {"start", "stop"}
  BY Fields DEF HandleStarted, HandleStopped, Arrived, TypeOK
<1>1. /\ UNCHANGED <<node, gw>> /\ net' = net \ {m}
      /\ \A x \in Nodes : /\ conn'[x].other = conn[x].other /\ conn'[x].shard = conn[x].shard
                          /\ conn'[x].mode \in {conn[x].mode, "none"}
      /\ m.kind = "start" /\ conn[m.node].shard \in m.shards => conn'[m.node].mode = "none"
  <2>1. CASE HandleStarted(m)
    BY <1>0, <2>1 DEF HandleStarted, TypeOK, Conn
  <2>2. CASE HandleStopped(m)
    BY <1>0, <2>2 DEF HandleStopped, Arrived, TypeOK, Conn
  <2> QED
    BY <2>1, <2>2
<1>2. \A b \in Nodes : node[b].mode = "to" => ~Carries(m, b)
  BY <1>0, NoCarrier
<1>3. Followed(m)
  BY <1>0, <1>1, <1>2 DEF Followed, Leads, Brings
<1> QED
  BY <1>1, <1>3, PassesOn

LEMMA OriginReadyAccounted ==
  ASSUME TypeOK, Safe, Accounted, NEW m \in net, HandleOriginReady(m)
  PROVE  Accounted'
<1>0. m.node \in Nodes
  BY Fields DEF TypeOK
<1>1. m.kind = "prepare" /\ m.dir = "up" /\ m.origin /\ UNCHANGED <<node, gw>>
  BY DEF HandleOriginReady, Arrived
<1>2. PICK b : b = conn[m.node].other
  OBVIOUS
<1>3. Pair(m.node, b, m.shard) /\ b \in Nodes /\ conn[b].other = m.node
  BY <1>1, <1>2 DEF Safe, Pairs, Pair
<1>4. OtherKnown(m.node) /\ conn[b].known /\ Reachable(b)
  <2>1. conn[b].known /\ OtherKnown(m.node)
    BY <1>2, <1>3, ShardsAssumption DEF OtherKnown, Safe, Joined, Pair
  <2> QED
    BY <1>3, <2>1 DEF Reachable, Safe, Joined
<1>5. PICK new : new = Prepare("down", b, m.op, m.shard, FALSE, m.session)
  OBVIOUS
<1>6. new.kind = "prepare" /\ new.dir = "down" /\ ~new.origin /\ new.node = b
  BY <1>5 DEF Prepare
<1>7. net' = (net \ {m}) \cup {new}
  BY <1>2, <1>4, <1>5, <1>6 DEF HandleOriginReady, Forward, Deliverable
<1>8. \A x \in Nodes : /\ conn'[x].other = conn[x].other /\ conn'[x].shard = conn[x].shard
                       /\ conn'[x].mode = conn[x].mode
  BY <1>0, <1>4 DEF HandleOriginReady, WithoutShard, TypeOK, Conn
<1>9. \A x \in Nodes : node[x].mode = "to" => ~Carries(m, x)
  BY <1>1, NoCarrier
<1>10. Leads(new, m.node)' /\ Brings(new, b)'
  BY <1>3, <1>6, <1>8 DEF Leads, Brings
<1>11. Followed(m)
  BY <1>1, <1>2, <1>7, <1>9, <1>10 DEF Followed, Leads, Brings
<1> QED
  BY <1>1, <1>7, <1>8, <1>11, PassesOn

LEMMA DestReadyAccounted ==
  ASSUME TypeOK, Safe, Accounted, NEW m \in net, HandleDestReady(m)
  PROVE  Accounted'
<1>0. m.node \in Nodes
  BY Fields DEF TypeOK
<1>1. m.kind = "prepare" /\ m.dir = "up" /\ ~m.origin /\ UNCHANGED <<conn, node, gw>>
  BY DEF HandleDestReady, Arrived
<1>2. PICK a : a = conn[m.node].other
  OBVIOUS
<1>3. Pair(a, m.node, m.shard) /\ a \in Nodes /\ node[m.node].mode = "to"
  BY <1>1, <1>2 DEF Safe, Pairs, Pair, Takes
<1>4. OtherKnown(m.node) /\ Reachable(a)
  <2>1. conn[a].known /\ OtherKnown(m.node)
    BY <1>2, <1>3, ShardsAssumption DEF OtherKnown, Safe, Joined, Pair
  <2> QED
    BY <1>3, <2>1 DEF Reachable, Safe, Joined
<1>5. PICK new : new = StartMigration(a, m.op, m.shard)
  OBVIOUS
<1>6. new.kind = "transfer" /\ new.node = a /\ new.shard = m.shard
  BY <1>5 DEF StartMigration
<1>7. net' = (net \ {m}) \cup {new}
  BY <1>2, <1>4, <1>5, <1>6 DEF HandleDestReady, Forward, Deliverable
<1>8. Leads(new, a)'
  BY <1>6 DEF Leads
<1>9. \A b : Carries(m, b) => Carries(new, b)'
  BY <1>1, <1>6 DEF Carries, About
<1>10. Followed(m)
  BY <1>1, <1>2, <1>3, <1>7, <1>8, <1>9 DEF Followed, Leads, Brings
<1> QED
  BY <1>1, <1>7, <1>10, PassesOn

LEMMA ForwardedAccounted ==
  ASSUME TypeOK, Safe, Accounted, NEW m \in net, HandleAllSent(m) \/ HandleUserEvt(m)
  PROVE  Accounted'
<1>0. m.node \in Nodes
  BY Fields DEF TypeOK
<1>1. m.kind \in {"allsent", "user"} /\ m.dir = "up" /\ UNCHANGED <<node, gw>>
  BY DEF HandleAllSent, HandleUserEvt, Arrived
<1>2. /\ \A x \in Nodes : /\ conn'[x].other = conn[x].other /\ conn'[x].shard = conn[x].shard
                          /\ conn'[x].mode \in {conn[x].mode, "none"}
      /\ net \ {m} \subseteq net'
      /\ m.kind = "allsent" => conn'[m.node].mode = "none"
  <2>1. CASE HandleAllSent(m)
    BY <1>0, <2>1 DEF HandleAllSent, Forward, TypeOK, Conn
  <2>2. CASE HandleUserEvt(m)
    BY <1>0, <2>2 DEF HandleUserEvt, Arrived, Forward, TypeOK, Conn
  <2> QED
    BY <2>1, <2>2
<1>3. ASSUME NEW b \in Nodes, Carries(m, b) PROVE \E q \in net' : Carries(q, b)'
  <2>1. m.kind = "allsent" /\ HandleAllSent(m) /\ b = conn[m.node].other
    BY <1>1, <1>3 DEF Carries, About, HandleUserEvt, Arrived
  <2>2. Pair(m.node, b, conn[m.node].shard)
    BY <1>1, <2>1 DEF Safe, Pairs
  <2>3. OtherKnown(m.node) /\ Reachable(b)
    <3>1. conn[b].known /\ OtherKnown(m.node)
      BY <1>3, <2>1, <2>2, ShardsAssumption DEF OtherKnown, Safe, Joined, Pair
    <3> QED
      BY <1>3, <3>1 DEF Reachable, Safe, Joined
  <2>4. PICK new : new = AllSent("down", b, m.op, m.num)
    OBVIOUS
  <2>5. new.kind = "allsent" /\ new.dir = "down" /\ new.node = b
    BY <2>4 DEF AllSent
  <2>6. new \in net'
    BY <2>1, <2>3, <2>4, <2>5 DEF HandleAllSent, Forward, Deliverable
  <2>7. Carries(new, b)'
    BY <2>5 DEF Carries
  <2> QED
    BY <2>6, <2>7
<1>4. Followed(m)
  BY <1>1, <1>2, <1>3 DEF Followed, Leads, Brings
<1> QED
  BY <1>1, <1>2, <1>4, PassesOn

\* A node handles m, and goes on taking over what it takes over.
LEMMA SameDestinations ==
  ASSUME TypeOK, Accounted, NEW m \in net, Followed(m), net \ {m} \subseteq net', conn' = conn,
         \A x \in Nodes :
           /\ node'[x].mode = "to" <=> node[x].mode = "to"
           /\ node[x].mode = "to" => /\ node'[x].shard = node[x].shard
                                     /\ node'[x].total = node[x].total
                                     /\ node'[x].processed = node[x].processed,
         \A x \in Nodes, t \in Shards : t \in node'[x].shards <=> Open(x, t)' \/ Takes(x, t)
  PROVE  Accounted'
<1>1. \A q \in net : Followed(q)
  <2>1. SameShard
    BY DEF SameShard
  <2> QED
    BY <2>1, StaysFollowed
<1>2. \A x \in Nodes : \A t : Takes(x, t)' <=> Takes(x, t)
  BY DEF Takes
<1>3. \A x \in Nodes, t \in Shards : t \in node'[x].shards <=> Open(x, t)' \/ Takes(x, t)'
  BY <1>2
<1> QED
  BY <1>1, <1>3, AccountedStep

LEMMA StartsAccounted ==
  ASSUME TypeOK, Safe, Accounted, NEW m \in net, StartsShards(m)
  PROVE  Accounted'
<1>1. /\ m.kind = "start" /\ m.dir = "down" /\ m.node \in Nodes /\ m.shards \subseteq Shards
      /\ conn' = conn /\ net \ {m} \subseteq net'
  BY Fields DEF StartsShards, Received, TypeOK
<1>2. \A x \in Nodes, t \in Shards : Open(x, t)' <=> Open(x, t) \/ (x = m.node /\ t \in m.shards)
  BY <1>1 DEF StartsShards, Open, Opened, TypeOK, Gateway
<1>3. \A x \in Nodes : /\ node'[x].mode = node[x].mode /\ node'[x].shard = node[x].shard
                       /\ node'[x].total = node[x].total /\ node'[x].processed = node[x].processed
                       /\ node'[x].shards = IF x = m.node THEN node[x].shards \cup m.shards
                                                          ELSE node[x].shards
  BY ZenonT(60), <1>1 DEF StartsShards, TypeOK, Node
<1>4. \A b \in Nodes : node[b].mode = "to" => ~Carries(m, b)
  BY <1>1, NoCarrier
<1>5. Followed(m)
  BY <1>1, <1>4 DEF Followed, Leads, Brings
<1>6. \A x \in Nodes, t \in Shards : t \in node'[x].shards <=> Open(x, t)' \/ Takes(x, t)
  BY ZenonT(60), <1>2, <1>3 DEF Accounted
<1> QED
  BY <1>1, <1>3, <1>5, <1>6, SameDestinations

LEMMA StopsAccounted ==
  ASSUME TypeOK, Safe, Accounted, ~SlowOpen, NEW m \in net, StopsShard(m)
  PROVE  Accounted'
<1>1. /\ m.kind = "stop" /\ m.node \in Nodes /\ m.shard \in Shards
      /\ conn' = conn /\ net \ {m} \subseteq net'
  BY Fields DEF StopsShard, Received, TypeOK
<1>2. \A x \in Nodes, t \in Shards : Open(x, t)' <=> Open(x, t) /\ ~(x = m.node /\ t = m.shard)
  BY <1>1, Closes DEF StopsShard
<1>3. \A x \in Nodes : /\ node'[x].mode = node[x].mode /\ node'[x].shard = node[x].shard
                       /\ node'[x].total = node[x].total /\ node'[x].processed = node[x].processed
                       /\ node'[x].shards = IF x = m.node THEN node[x].shards \ {m.shard}
                                                          ELSE node[x].shards
  BY ZenonT(60), <1>1 DEF StopsShard, TypeOK, Node
<1>4. ~Takes(m.node, m.shard)
  BY <1>1 DEF Safe, OneAtATime, About
<1>5. \A b \in Nodes : node[b].mode = "to" => ~Carries(m, b)
  BY <1>1, NoCarrier
<1>6. Followed(m)
  BY <1>1, <1>5 DEF Followed, Leads, Brings
<1>7. ASSUME NEW x \in Nodes, NEW t \in Shards
      PROVE  t \in node'[x].shards <=> Open(x, t)' \/ Takes(x, t)
  <2>1. t \in node[x].shards <=> Open(x, t) \/ Takes(x, t)
    BY DEF Accounted
  <2>2. CASE x = m.node /\ t = m.shard
    <3>1. ~Takes(x, t)
      BY <1>4, <2>2
    <3>2. t \notin node'[x].shards /\ ~Open(x, t)'
      BY <1>2, <1>3, <2>2
    <3> QED
      BY <3>1, <3>2
  <2>3. CASE ~(x = m.node /\ t = m.shard)
    <3>1. t \in node'[x].shards <=> t \in node[x].shards
      BY <1>3, <2>3
    <3>2. Open(x, t)' <=> Open(x, t)
      BY <1>2, <2>3
    <3> QED
      BY <2>1, <3>1, <3>2
  <2> QED
    BY <2>2, <2>3
<1> QED
  BY <1>1, <1>3, <1>6, <1>7, SameDestinations

LEMMA PreparesOriginAccounted ==
  ASSUME TypeOK, Safe, Accounted, ~SlowOpen, NEW m \in net, PreparesOrigin(m)
  PROVE  Accounted'
<1>1. /\ m.kind = "prepare" /\ m.dir = "down" /\ m.origin /\ m.node \in Nodes /\ m.shard \in Shards
      /\ conn' = conn
  BY Fields DEF PreparesOrigin, Received, TypeOK
<1>2. PICK new : new = Prepare("up", m.node, m.op, m.shard, TRUE, gw[m.node][m.shard].session)
  OBVIOUS
<1>3. net' = (net \ {m}) \cup {new}
  BY <1>2 DEF PreparesOrigin
<1>4. \A x \in Nodes, t \in Shards : Open(x, t)' <=> Open(x, t) /\ ~(x = m.node /\ t = m.shard)
  BY <1>1, Closes DEF PreparesOrigin
<1>5. node[m.node].mode # "to"
  <2> SUFFICES ASSUME node[m.node].mode = "to" PROVE FALSE
    OBVIOUS
  <2>1. Takes(m.node, node[m.node].shard) /\ node[m.node].shard \in Shards
    BY <1>1 DEF Safe, Follows, Takes
  <2>2. conn[m.node].mode = "from"
    BY <1>1 DEF Safe, Pairs, Pair
  <2> QED
    BY <1>1, <2>1, <2>2 DEF Safe, Pairs
<1>6. /\ \A x \in Nodes : x # m.node => node'[x] = node[x]
      /\ node'[m.node].mode = "from" /\ node'[m.node].shards = node[m.node].shards \ {m.shard}
  <2>1. node' = [node EXCEPT ![m.node] = [node[m.node] EXCEPT !.mode = "from", !.shard = m.shard,
                                                !.shards = node[m.node].shards \ {m.shard}]]
    BY DEF PreparesOrigin
  <2>2. \A x \in Nodes : x # m.node => node'[x] = node[x]
    BY <2>1 DEF TypeOK
  <2>3. node'[m.node] = [node[m.node] EXCEPT !.mode = "from", !.shard = m.shard,
                                !.shards = node[m.node].shards \ {m.shard}]
    BY <1>1, <2>1 DEF TypeOK
  <2>4. node[m.node] \in Node
    BY <1>1 DEF TypeOK
  <2> QED
    BY <2>2, <2>3, <2>4 DEF Node
<1>7. new.kind = "prepare" /\ new.origin /\ new.node = m.node
  BY <1>2 DEF Prepare
<1>8. \A a : (Leads(m, a) => Leads(new, a)') /\ (Brings(m, a) => Brings(new, a)')
  BY <1>1, <1>7 DEF Leads, Brings
<1>9. \A b \in Nodes : node[b].mode = "to" => ~Carries(m, b)
  BY <1>1, NoCarrier
<1>10. Followed(m)
  BY <1>3, <1>8, <1>9 DEF Followed
<1>11. \A x \in Nodes, t \in Shards : t \in node'[x].shards <=> Open(x, t)' \/ Takes(x, t)
  BY <1>4, <1>5, <1>6 DEF Accounted, Takes
<1> QED
  BY <1>1, <1>3, <1>5, <1>6, <1>10, <1>11, SameDestinations

LEMMA TransfersAccounted ==
  ASSUME TypeOK, Safe, Accounted, NEW m \in net, TransfersFrom(m)
  PROVE  Accounted'
<1>1. m.kind = "transfer" /\ m.shard \in Shards /\ UNCHANGED <<conn, node, gw>>
  BY Fields DEF TransfersFrom, Received, TypeOK
<1>2. PICK k \in 0 .. MaxEvents :
        net' = (net \ {m}) \cup {AllSent("up", m.node, m.op, k)}
                 \cup {UserEvt("up", m.node, m.op, i) : i \in 1 .. k}
  BY DEF TransfersFrom
<1>3. PICK new : new = AllSent("up", m.node, m.op, k)
  OBVIOUS
<1>4. new \in net' /\ net \ {m} \subseteq net'
  BY <1>2, <1>3
<1>5. new.kind = "allsent" /\ new.dir = "up" /\ new.node = m.node
  BY <1>3 DEF AllSent
<1>6. Takes(conn[m.node].other, m.shard) /\ conn[m.node].other \in Nodes
  BY <1>1 DEF Safe, Pairs, Pair
<1>7. \A a : Leads(m, a) => Leads(new, a)'
  BY <1>1, <1>5 DEF Leads
<1>8. \A b \in Nodes : node[b].mode = "to" /\ Carries(m, b) => Carries(new, b)'
  <2> SUFFICES ASSUME NEW b \in Nodes, node[b].mode = "to", Carries(m, b) PROVE Carries(new, b)'
    OBVIOUS
  <2>1. Takes(b, m.shard)
    BY <1>1 DEF Carries, About, Takes
  <2>2. b = conn[m.node].other
    BY <1>1, <1>6, <2>1 DEF Safe, OneAtATime
  <2> QED
    BY <1>1, <1>5, <2>2 DEF Carries
<1>9. Followed(m)
  BY <1>1, <1>4, <1>7, <1>8 DEF Followed, Brings
<1>10. \A x \in Nodes, t \in Shards : t \in node'[x].shards <=> Open(x, t)' \/ Takes(x, t)
  BY <1>1 DEF Accounted, Open
<1> QED
  BY <1>1, <1>4, <1>9, <1>10, SameDestinations

LEMMA PreparesDestAccounted ==
  ASSUME TypeOK, Safe, Accounted, NEW m \in net, PreparesDest(m)
  PROVE  Accounted'
<1>1. /\ m.kind = "prepare" /\ m.dir = "down" /\ ~m.origin /\ m.node \in Nodes /\ m.shard \in Shards
      /\ UNCHANGED <<conn, gw>>
  BY Fields DEF PreparesDest, Received, TypeOK
<1>2. PICK new : new = Prepare("up", m.node, m.op, m.shard, FALSE, m.session)
  OBVIOUS
<1>3. net' = (net \ {m}) \cup {new}
  BY <1>2 DEF PreparesDest
<1>4. new.kind = "prepare" /\ ~new.origin /\ new.node = m.node /\ new.shard = m.shard
  BY <1>2 DEF Prepare
<1>5. node[m.node].mode # "to"
  <2> SUFFICES ASSUME node[m.node].mode = "to" PROVE FALSE
    OBVIOUS
  <2>1. Takes(m.node, node[m.node].shard) /\ node[m.node].shard \in Shards
    BY <1>1 DEF Safe, Follows, Takes
  <2>2. conn[m.node].shard = node[m.node].shard /\ conn[m.node].shard = m.shard
    BY <1>1, <2>1 DEF Safe, Pairs, Pair
  <2>3. Takes(m.node, m.shard) /\ About(m, m.shard)
    BY <1>1, <2>1, <2>2 DEF About
  <2> QED
    BY <1>1, <2>3 DEF Safe, OneAtATime
<1>6. /\ \A x \in Nodes : x # m.node => node'[x] = node[x]
      /\ node'[m.node].mode = "to" /\ node'[m.node].shard = m.shard /\ node'[m.node].total = -1
      /\ node'[m.node].shards = node[m.node].shards \cup {m.shard}
  BY <1>1 DEF PreparesDest, Prepared, TypeOK, Node
<1>7. Carries(new, m.node)'
  BY <1>4, <1>6 DEF Carries, About
<1>8. \A a : (Leads(m, a) => Leads(new, a)') /\ (Brings(m, a) => Brings(new, a)')
  BY <1>1, <1>4 DEF Leads, Brings
<1>9. \A b \in Nodes : node[b].mode = "to" => ~Carries(m, b)
  BY <1>1, NoCarrier
<1>10. \A q \in net : Followed(q)
  <2>1. Followed(m)
    BY <1>3, <1>8, <1>9 DEF Followed
  <2>2. SameShard
    BY <1>5, <1>6 DEF SameShard
  <2> QED
    BY <1>1, <1>3, <2>1, <2>2, StaysFollowed
<1>11. \A x \in Nodes, t \in Shards : t \in node'[x].shards <=> Open(x, t)' \/ Takes(x, t)'
  <2>1. \A x \in Nodes, t \in Shards : Open(x, t)' <=> Open(x, t)
    BY <1>1 DEF Open
  <2> QED
    BY <1>5, <1>6, <2>1 DEF Accounted, Takes
<1> QED
  BY <1>1, <1>3, <1>6, <1>7, <1>10, <1>11, AccountedStep

\* A destination that waits on does not have all yet, and one that is done says so.
LEMMA NoticedAccounted ==
  ASSUME TypeOK, Safe, Accounted, NEW m \in net, NEW nd \in Node,
         Noticed(m, nd, EnoughHandled(nd)), m.kind \in {"allsent", "user"}, m.dir = "down",
         node[m.node].mode = "to", nd.mode = "to", nd.shard = node[m.node].shard,
         nd.shards = node[m.node].shards,
         nd.total = -1 => m.kind = "user" /\ node[m.node].total = -1
  PROVE  Accounted'
<1>1. m.node \in Nodes /\ conn' = conn
  <2>1. m.node \in Nodes
    BY Fields DEF TypeOK
  <2> QED
    BY <2>1, Zenon DEF Noticed
<1>2. nd.shard \in Shards /\ nd.shard # NoShard /\ Takes(m.node, nd.shard)
  BY <1>1, ShardsAssumption DEF Safe, Follows, NoShard, Takes
<1>3. nd.total # -1 /\ ~EnoughHandled(nd) => nd.processed < nd.total
  BY DEF EnoughHandled, Node
<1>4. \A a : ~Leads(m, a) /\ ~Brings(m, a)
  BY DEF Leads, Brings
<1>5. \A b \in Nodes : Carries(m, b) /\ node[b].mode = "to" => b = m.node /\ m.kind = "allsent"
  BY DEF Carries, About
<1>6. CASE EnoughHandled(nd)
  <2>1. Finish(m.node, nd, m)
    BY <1>2, <1>6, Zenon DEF Noticed
  <2>2. PICK new : new = Start("up", m.node, nd.op, {nd.shard})
    OBVIOUS
  <2>3. /\ net' = (net \ {m}) \cup {new}
        /\ new.kind = "start" /\ new.dir = "up" /\ new.node = m.node /\ new.shards = {nd.shard}
    BY <2>1, <2>2 DEF Finish, Start
  <2>4. /\ \A x \in Nodes : x # m.node => node'[x] = node[x]
        /\ node'[m.node].mode = "none" /\ node'[m.node].shards = node[m.node].shards
    BY <1>1, <2>1 DEF Finish, Forgotten, TypeOK, Node
  <2>5. \A x \in Nodes, t \in Shards : Open(x, t)' <=> Open(x, t) \/ (x = m.node /\ t = nd.shard)
    BY <1>1, <1>2, <2>1 DEF Finish, TypeOK, Open, Opened
  <2>6. conn[m.node].shard = nd.shard
    BY <1>1, <1>2 DEF Safe, Pairs
  <2>7. Brings(new, m.node)'
    BY <1>1, <2>3, <2>6 DEF Brings
  <2>8. \A q \in net : Followed(q)
    <3>1. Followed(m)
      BY <1>4, <1>5, <2>4 DEF Followed
    <3>2. SameShard
      BY <2>4 DEF SameShard
    <3> QED
      BY <1>1, <2>3, <3>1, <3>2, StaysFollowed
  <2>9. \A x \in Nodes, t \in Shards : t \in node'[x].shards <=> Open(x, t)' \/ Takes(x, t)'
    BY <1>2, <2>4, <2>5 DEF Accounted, Takes
  <2> QED
    BY <1>1, <2>3, <2>4, <2>7, <2>8, <2>9, AccountedStep
<1>7. CASE ~EnoughHandled(nd)
  <2>1. node' = [node EXCEPT ![m.node] = nd] /\ net' = net \ {m} /\ gw' = gw
    BY <1>7, Zenon DEF Noticed
  <2>2. /\ \A x \in Nodes : x # m.node => node'[x] = node[x]
        /\ node'[m.node] = nd
    BY <1>1, <2>1 DEF TypeOK
  <2>3. \A q \in net : Followed(q)
    <3>1. Followed(m)
      BY <1>4, <1>5, <2>2 DEF Followed
    <3>2. SameShard
      BY <2>2 DEF SameShard
    <3> QED
      BY <1>1, <2>1, <3>1, <3>2, StaysFollowed
  <2>4. \A x \in Nodes, t \in Shards : t \in node'[x].shards <=> Open(x, t)' \/ Takes(x, t)'
    BY <2>1, <2>2 DEF Accounted, Takes, Open
  <2>5. ASSUME NEW b \in Nodes, node'[b].mode = "to"
        PROVE  \/ node[b].mode = "to" /\ node'[b].total = node[b].total
                                      /\ node'[b].processed = node[b].processed
               \/ node[b].mode = "to" /\ node[b].total = -1 /\ node'[b].total = -1
               \/ IF node'[b].total = -1 THEN \E q \in net' : Carries(q, b)'
                                         ELSE node'[b].processed < node'[b].total
    <3>1. CASE b # m.node
      BY <2>2, <2>5, <3>1
    <3>2. CASE b = m.node
      BY <1>3, <1>7, <2>2, <3>2
    <3> QED
      BY <3>1, <3>2
  <2>6. \A b \in Nodes : node[b].mode = "to" => node'[b].mode = "to"
    BY <2>2
  <2> QED
    BY <1>1, <2>3, <2>4, <2>5, <2>6, AccountedStep
<1> QED
  BY <1>6, <1>7

LEMMA NodeAccounted ==
  ASSUME TypeOK, Safe, Counted, Accounted, ~SlowOpen, NEW m \in net, NodeStep(m)
  PROVE  Accounted'
<1>0. m.node \in Nodes /\ node[m.node] \in Node
  BY Fields DEF TypeOK
<1>1. CASE LearnsTotal(m)
  <2>1. PICK nd : nd = [node[m.node] EXCEPT !.total = m.num]
    OBVIOUS
  <2>2. m.kind = "allsent" /\ m.dir = "down" /\ m.num \in Nat
    BY <1>1, Fields DEF LearnsTotal, Received, TypeOK
  <2>3. /\ nd \in Node /\ nd.mode = node[m.node].mode /\ nd.shard = node[m.node].shard
        /\ nd.shards = node[m.node].shards /\ nd.total = m.num
    BY <1>0, <2>1, <2>2 DEF Node
  <2>4. Noticed(m, nd, EnoughHandled(nd))
    BY <1>1, <2>1, Zenon DEF LearnsTotal
  <2>5. node[m.node].mode = "to"
    BY <2>2 DEF Counted, ToReady, Receiver
  <2> QED
    BY <2>2, <2>3, <2>4, <2>5, NoticedAccounted
<1>2. CASE HandlesUserEvt(m)
  <2>1. PICK nd : nd = [node[m.node] EXCEPT
          !.processed = @ + 1, !.own = IF m.op = node[m.node].op THEN @ + 1 ELSE @]
    OBVIOUS
  <2>2. m.kind = "user" /\ m.dir = "down"
    BY <1>2 DEF HandlesUserEvt, Received
  <2>3. /\ nd \in Node /\ nd.mode = node[m.node].mode /\ nd.shard = node[m.node].shard
        /\ nd.shards = node[m.node].shards /\ nd.total = node[m.node].total
    <3>1. node[m.node].processed + 1 \in Nat /\ node[m.node].own + 1 \in Nat
      BY <1>0 DEF Node
    <3>2. PICK own \in Nat : own = IF m.op = node[m.node].op THEN node[m.node].own + 1
                                                             ELSE node[m.node].own
      BY <1>0, <3>1 DEF Node
    <3>3. nd = [node[m.node] EXCEPT !.processed = node[m.node].processed + 1, !.own = own]
      BY <2>1, <3>2
    <3> QED
      BY <1>0, <3>1, <3>3 DEF Node
  <2>4. Noticed(m, nd, EnoughHandled(nd))
    BY <1>2, <2>1, Zenon DEF HandlesUserEvt
  <2>5. node[m.node].mode = "to"
    BY <2>2 DEF Counted, ToReady, Receiver
  <2> QED
    BY <2>2, <2>3, <2>4, <2>5, NoticedAccounted
<1>3. ~ShutsDown(m)
  BY DEF ShutsDown, Received, Safe, Joined
<1> QED
  BY <1>1, <1>2, <1>3, StartsAccounted, StopsAccounted, PreparesOriginAccounted,
     PreparesDestAccounted, TransfersAccounted DEF NodeStep

LEMMA StepAccounted ==
  ASSUME TypeOK, TypeOK', Safe, Counted, Accounted, ~SlowOpen, Undisturbed', [Next]_vars
  PROVE  Accounted'
<1>0. drops \in Nat
  BY BoundsAssumption DEF TypeOK
<1>1. CASE Step
  <2>1. ASSUME NEW m \in net, HandleIdentify(m) \/ OrchestratorStep(m) PROVE Accounted'
    BY <2>1, IdentifyAccounted, AnswersAccounted, OriginReadyAccounted, DestReadyAccounted,
       ForwardedAccounted DEF OrchestratorStep
  <2>2. ASSUME NEW n \in Nodes, NEW s \in Shards, GatewayOpens(n, s) PROVE Accounted'
    <3>1. UNCHANGED <<conn, node, net>>
      BY <2>2 DEF GatewayOpens
    <3>2. \A x \in Nodes, t \in Shards : Open(x, t)' <=> Open(x, t)
      BY <2>2 DEF GatewayOpens, Open, TypeOK, Gateway
    <3> QED
      BY <3>1, <3>2, QuietAccounted
  <2> QED
    BY <1>1, <2>1, <2>2, NodeAccounted DEF Step
<1>2. CASE Recovery
  <2>1. PICK n \in Nodes : NoticeDrop(n) \/ Reconnect(n)
    BY <1>2 DEF Recovery
  <2>2. ~NoticeDrop(n)
    BY DEF NoticeDrop, Safe, Joined
  <2>3. /\ UNCHANGED <<conn, gw>> /\ net \subseteq net'
        /\ node' = [node EXCEPT ![n].link = TRUE]
    BY <2>1, <2>2 DEF Reconnect
  <2>4. \A x \in Nodes : /\ node'[x].shards = node[x].shards /\ node'[x].mode = node[x].mode
                         /\ node'[x].shard = node[x].shard /\ node'[x].total = node[x].total
                         /\ node'[x].processed = node[x].processed
    <3>1. DOMAIN node = Nodes /\ \A x \in Nodes : "link" \in DOMAIN node[x]
      BY DEF TypeOK, Node
    <3> QED
      BY <2>3, <3>1
  <2> QED
    BY <2>3, <2>4, QuietAccounted DEF Open
<1>3. CASE Failure
  <2>1. drops' # drops + 1
    BY <1>0 DEF Undisturbed
  <2>2. \A n \in Nodes : ~Drop(n) /\ ~Die(n)
    BY <2>1 DEF Drop, Die
  <2>3. ~Restart
    BY <2>1 DEF Restart
  <2> QED
    BY <1>3, <2>2, <2>3, NothingToLose DEF Failure
<1>4. CASE UNCHANGED vars
  BY <1>4, QuietAccounted DEF vars, Open
<1> QED
  BY <1>1, <1>2, <1>3, <1>4, CommandAccounted DEF Next

LEMMA QuietAgrees ==
  ASSUME TypeOK, Safe, Newest, Counted, Accounted
  PROVE  ViewsAgree
<1> SUFFICES ASSUME net = {}, NEW n \in Nodes
             PROVE  /\ conn[n].shards = node[n].shards
                    /\ node[n].shards = {s \in Shards : Open(n, s)}
                    /\ conn[n].mode = "none"
  BY DEF ViewsAgree, Settled
<1>1. node[n].mode # "to"
  <2> SUFFICES ASSUME node[n].mode = "to" PROVE FALSE
    OBVIOUS
  <2>1. node[n].total # -1 /\ node[n].processed < node[n].total
    BY DEF Accounted
  <2>2. Count(n)
    BY DEF Counted
  <2>3. Awaited(node[n].op) = {}
    BY DEF Awaited
  <2>4. Cardinality(Awaited(node[n].op)) = 0
    BY <2>3, FS_EmptySet
  <2>5. node[n].own \in Nat /\ node[n].processed \in Nat /\ node[n].total \in Nat \cup {-1}
    BY DEF TypeOK, Node
  <2>6. sent[node[n].op] # -1
    BY <2>1, <2>2 DEF Count
  <2>7. node[n].total = sent[node[n].op] /\ 0 + node[n].own = sent[node[n].op]
        /\ node[n].processed = node[n].own
    BY <2>1, <2>2, <2>4, <2>6 DEF Count
  <2> QED
    BY <2>1, <2>5, <2>7
<1>2. conn[n].mode = "none"
  BY <1>1 DEF Accounted, TypeOK, Conn, Modes
<1>3. \A s \in Shards : s \in node[n].shards <=> Open(n, s)
  BY <1>1 DEF Accounted, Takes
<1>4. \A s \in Shards : s \in conn[n].shards <=> Open(n, s)
  BY DEF Newest, Safe, Custody
<1>5. conn[n].shards \subseteq Shards /\ node[n].shards \subseteq Shards
  BY DEF TypeOK, Conn, Node
<1> QED
  BY <1>2, <1>3, <1>4, <1>5

(* As long as nothing has failed, whenever nothing is on its way the orchestrator,
   each node and the gateways agree on which shards run where, and no node is
   busy (nodeconn.go, node.go): no order of the messages leaves a migration
   without a next step, or a shard that only one side knows of.              *)
THEOREM ViewsAgreeWhenQuiet ==
  ASSUME ~SlowOpen
  PROVE  Spec => [](Undisturbed => ViewsAgree)
<1> DEFINE Told == Newest /\ Counted /\ Accounted
           Inv  == SafeInv /\ (Undisturbed => Told)
<1>1. Init => (Undisturbed => Told)
  BY InitNewest, InitCounted, InitAccounted
<1>2. Inv /\ [Next]_vars => (Undisturbed => Told)'
  <2> SUFFICES ASSUME Inv, [Next]_vars, Undisturbed' PROVE Told'
    OBVIOUS
  <2>1. TypeOK /\ TypeOK'
    BY TypingStep DEF SafeInv
  <2>2. Undisturbed
    BY <2>1, DisturbedStays
  <2>3. Safe /\ Newest /\ Counted /\ Accounted
    BY <2>2 DEF SafeInv
  <2> QED
    BY <2>1, <2>3, StepNewest, StepCounted, StepAccounted
<1>3. Inv => (Undisturbed => ViewsAgree)
  BY QuietAgrees DEF SafeInv
<1> QED
  BY <1>1, <1>2, <1>3, SafeAlways, PTL DEF Spec
-----------------------------------------------------------------------------
(* One command, whatever fails: what it writes is about a shard that runs    *)
(* nowhere but where the messages say, however many of them are lost.        *)
LEMMA InitSolo == Init => Solo
<1> SUFFICES ASSUME Init PROVE Core /\ NoCommand /\ ops = 0
  BY DEF Solo
<1>1. PICK at \in Placements :
        /\ conn = [n \in Nodes |-> IF n \in Newcomers THEN NoConn ELSE NewConn({s \in Shards : at[s] = n})]
        /\ node = [n \in Nodes |->
             [alive |-> TRUE, link |-> n \notin Newcomers, shards |-> {s \in Shards : at[s] = n},
              mode |-> "none", shard |-> 0, session |-> 0, processed |-> 0,
              total |-> 0, op |-> 0, own |-> 0]]
        /\ gw = [n \in Nodes |-> [s \in Shards |->
             IF at[s] = n THEN [st |-> "open", session |-> 1]
                          ELSE [st |-> "closed", session |-> 0]]]
  BY DEF Init
<1>2. ASSUME NEW n \in Nodes
      PROVE  /\ conn[n].other = NoNode
             /\ conn[n].up => n \notin Newcomers
             /\ conn[n].shards = {s \in Shards : at[s] = n}
             /\ node[n].shards = {s \in Shards : at[s] = n}
             /\ \A s \in Shards : Open(n, s) <=> at[s] = n
  <2>1. n \in Newcomers => \A s \in Shards : at[s] # n
    BY ShardsAssumption
  <2> QED
    BY <1>1, <2>1 DEF NoConn, NewConn, Open
<1>3. net = {} /\ ops = 0
  BY DEF Init
<1>4. OneGatewayPerShard /\ Believes
  BY <1>2 DEF Believes, OneGatewayPerShard
<1>5. Reaches /\ Seen
  BY <1>2, <1>3 DEF Reaches, Seen, Knows
<1>6. NoCommand
  <2>1. \A m, n \in Nodes, s \in Shards : s \in node[m].shards /\ s \in node[n].shards => m = n
    BY <1>2
  <2> QED
    BY <1>2, <1>3, <2>1 DEF NoCommand, Unpaired, Talk
<1> QED
  BY <1>3, <1>4, <1>5, <1>6 DEF Core

LEMMA RecedesCore ==
  ASSUME Recedes, Believes, OneGatewayPerShard
  PROVE  Believes' /\ OneGatewayPerShard'
BY DEF Recedes, Believes, OneGatewayPerShard

LEMMA RecedesOne ==
  ASSUME TypeOK, Recedes, OneCommand
  PROVE  OneCommand'
<1>0. \A m \in Talk : m.node \in Nodes /\ (m.kind = "stop" => m.shard \in Shards)
                      /\ (m.kind = "start" => m.shards \in SUBSET Shards)
  BY Fields DEF Talk, TypeOK
<1>1. \A s \in Shards : Dark(s) => Dark(s)'
  BY DEF Recedes, Dark
<1>2. CASE Starting
  BY <1>0, <1>1, <1>2 DEF Starting, Unpaired, Recedes, OneCommand
<1>3. CASE Stopping
  BY <1>0, <1>3 DEF Stopping, Unpaired, Recedes, OneCommand
<1>4. ASSUME NEW f \in Nodes, NEW t \in Nodes, NEW s \in Shards, Moved(f, t, s)
      PROVE  Moved(f, t, s)'
  <2>1. ASSUME NEW m \in Talk'
        PROVE  \/ Talk' = {m} /\ HandsOn(f, t, s, m)'
               \/ HandsState(f, t, s, m)'
    <3>1. CASE Talk = {m} /\ HandsOn(f, t, s, m)
      BY <1>1, <2>1, <3>1 DEF HandsOn, Recedes
    <3>2. CASE HandsState(f, t, s, m)
      BY <1>1, <3>2 DEF HandsState, Recedes
    <3> QED
      BY <1>4, <2>1, <3>1, <3>2 DEF Moved, Recedes
  <2> QED
    BY <1>4, <2>1 DEF Moved, Recedes
<1> QED
  BY <1>2, <1>3, <1>4 DEF OneCommand

\* What is sent to a node still reaches it after a step that adds no identify and
\* changes the shards of a node only if it can be reached.
LEMMA AnswersReach ==
  ASSUME TypeOK, Reaches,
         \A x \in net' \ net : x.kind # "identify" /\ (x.dir = "down" => x.node \in Nodes /\ Reachable(x.node)),
         \A n \in Nodes : /\ node'[n].link = node[n].link
                          /\ node'[n].shards = node[n].shards \/ Reachable(n)
  PROVE  Reaches' /\ \A n \in Nodes : Reachable(n) => Reachable(n)'
<1>0. \A m \in net : m.node \in Nodes
  BY Fields DEF TypeOK
<1>1. \A n \in Nodes : Reachable(n) => Reachable(n)'
  BY DEF Reachable
<1>2. \A m \in net' : m.dir = "down" => Reachable(m.node)'
  BY <1>0, <1>1 DEF Reaches
<1>3. \A m \in net' : m.kind = "identify" =>
        m.dir = "up" /\ node'[m.node].link /\ m.shards = node'[m.node].shards
  BY <1>0 DEF Reaches, Reachable
<1> QED
  BY <1>1, <1>2, <1>3 DEF Reaches

\* A process ends.
LEMMA KillRecedes ==
  ASSUME TypeOK, Core, NEW n \in Nodes, Kill(n), UNCHANGED <<conn, doubled>>
  PROVE  Reaches' /\ Seen' /\ Recedes
<1>0. \A m \in net : m.node \in Nodes
  BY Fields DEF TypeOK
<1>1. /\ \A k \in Nodes : /\ node'[k].shard = node[k].shard /\ node'[k].shards = node[k].shards
                          /\ node'[k].link <=> node[k].link /\ k # n
                          /\ \A s \in Shards : Open(k, s)' <=> Open(k, s) /\ k # n
      /\ net' = {m \in net : m.node # n}
  BY DEF Kill, TypeOK, Node, Open
<1>2. \A k \in Nodes : Reachable(k)' <=> Reachable(k) /\ k # n
  BY <1>1 DEF Reachable
<1>3. Reaches'
  BY <1>0, <1>1, <1>2 DEF Core, Reaches
<1>4. Seen'
  BY <1>1, <1>2 DEF Core, Seen, Knows, Learns
<1> QED
  BY <1>1, <1>3, <1>4 DEF Recedes, Talk

\* Every connection is lost.
LEMMA LoseOrchestratorRecedes ==
  ASSUME TypeOK, Core, LoseOrchestrator
  PROVE  Reaches' /\ Seen' /\ Recedes /\ \A k \in Nodes : conn'[k].shards \subseteq conn[k].shards
<1>1. /\ \A k \in Nodes : /\ node'[k].shard = node[k].shard /\ node'[k].shards = node[k].shards
                          /\ conn'[k].other = NoNode /\ conn'[k].shards = {} /\ ~node'[k].link
      /\ net' = {m \in net : m.dir = "up" /\ m.kind # "identify"} /\ gw' = gw /\ doubled' = doubled
  BY DEF LoseOrchestrator, TypeOK, Node, NoConn, NewConn
<1>2. Reaches' /\ Seen'
  BY <1>1 DEF Reaches, Seen, Reachable
<1> QED
  BY <1>1, <1>2 DEF Recedes, Talk, Open

\* Connections are lost and made.
LEMMA ConnectionRecedes ==
  ASSUME TypeOK, Core, NEW n \in Nodes, Drop(n) \/ NoticeDrop(n) \/ Reconnect(n)
  PROVE  /\ Reaches' /\ Seen' /\ Recedes /\ UNCHANGED gw
         /\ \A k \in Nodes : conn'[k].shards = conn[k].shards
<1>0. \A m \in net : m.node \in Nodes
  BY Fields DEF TypeOK
<1>1. /\ \A k \in Nodes : /\ node'[k].shard = node[k].shard /\ node'[k].shards = node[k].shards
                          /\ conn'[k].other = conn[k].other /\ conn'[k].shards = conn[k].shards
                          /\ k # n => node'[k] = node[k] /\ conn'[k] = conn[k]
      /\ gw' = gw /\ doubled' = doubled
  BY DEF Drop, NoticeDrop, Reconnect, TypeOK, Node, Conn
<1>2. CASE Drop(n)
  <2>1. /\ net' = {m \in net : m.node = n => m.dir = "up" /\ m.kind # "identify"}
        /\ ~node'[n].link
    BY <1>2 DEF Drop, TypeOK, Node
  <2>2. \A k \in Nodes : Reachable(k)' <=> Reachable(k) /\ k # n
    BY <1>1, <2>1 DEF Reachable
  <2>3. Reaches'
    BY <1>0, <1>1, <2>1, <2>2 DEF Core, Reaches
  <2>4. Seen'
    BY <1>1, <2>1, <2>2 DEF Core, Seen, Knows, Learns, Open
  <2> QED
    BY <1>1, <2>1, <2>3, <2>4 DEF Recedes, Talk, Open
<1>3. CASE NoticeDrop(n)
  <2>1. net' = net /\ node' = node /\ ~conn'[n].up
    BY <1>3 DEF NoticeDrop, TypeOK, Conn
  <2>2. Reaches' /\ Seen'
    BY <1>1, <2>1 DEF Core, Reaches, Seen, Knows, Learns, Open, Reachable
  <2> QED
    BY <1>1, <2>1, <2>2 DEF Recedes, Talk, Open
<1>4. CASE Reconnect(n)
  <2>1. /\ net' = net \cup {Identify(n, node[n].shards)} /\ node'[n].link /\ ~node[n].link
        /\ conn' = conn
    BY <1>4 DEF Reconnect, TypeOK, Node
  <2>2. PICK x : x = Identify(n, node[n].shards)
    OBVIOUS
  <2>3. x.kind = "identify" /\ x.dir = "up" /\ x.node = n /\ x.shards = node[n].shards
    BY <2>2 DEF Identify
  <2>4. \A k \in Nodes : Reachable(k)' <=> Reachable(k) /\ k # n
    BY <1>1, <2>1, <2>2, <2>3 DEF Reachable
  <2>5. \A m \in net : m.dir = "down" => m.node # n
    BY <2>1 DEF Core, Reaches, Reachable
  <2>6. Reaches'
    BY <1>0, <1>1, <2>1, <2>2, <2>3, <2>4, <2>5 DEF Core, Reaches
  <2>7. Seen'
    BY <1>1, <2>1, <2>2, <2>3, <2>4 DEF Core, Seen, Knows, Learns, Open
  <2> QED
    BY <1>1, <2>1, <2>2, <2>3, <2>6, <2>7 DEF Recedes, Talk, Open
<1> QED
  BY <1>2, <1>3, <1>4

\* A node identifies, starts and stops are answered.
LEMMA AnswersRecede ==
  ASSUME TypeOK, Core, NEW m \in net, HandleIdentify(m) \/ HandleStarted(m) \/ HandleStopped(m),
         m.kind = "stop" => ~Open(m.node, m.shard)
  PROVE  /\ Reaches' /\ Seen' /\ Recedes
         /\ m.kind = "identify" => \A k \in Nodes : conn'[k].shards \subseteq conn[k].shards \cup node[k].shards
<1>0. m.node \in Nodes /\ m \in Message
  BY Fields DEF TypeOK
<1>1. /\ net' = net \ {m} /\ node' = node /\ gw' = gw /\ doubled' = doubled
      /\ \A k \in Nodes \ {m.node} : conn'[k] = conn[k]
  BY Zenon DEF HandleIdentify, HandleStarted, HandleStopped, TypeOK
<1>2. Reaches'
  BY <1>1, AnswersReach DEF Core
<1>3. CASE HandleIdentify(m)
  <2>1. /\ m.kind = "identify" /\ m.shards = node[m.node].shards
        /\ conn'[m.node].shards = m.shards /\ conn'[m.node].other = NoNode
    BY <1>0, <1>3 DEF HandleIdentify, Identified, NewConn, TypeOK, Core, Reaches
  <2>2. \A k \in Nodes \ {m.node} : Reachable(k)' <=> Reachable(k)
    BY <1>1, <2>1 DEF Reachable
  <2>3. Seen'
    BY <1>1, <2>1, <2>2 DEF Core, Seen, Believes, Knows, Learns, Open
  <2> QED
    BY <1>0, <1>1, <1>2, <2>1, <2>3 DEF Recedes, Talk, Open
<1>4. CASE HandleStarted(m) \/ HandleStopped(m)
  <2>1. m.kind \in {"start", "stop"}
    BY <1>4 DEF HandleStarted, HandleStopped, Arrived
  <2>2. conn[m.node] \in Conn
    BY <1>0 DEF TypeOK
  <2>3. /\ conn'[m.node].other = conn[m.node].other /\ conn'[m.node].up = conn[m.node].up
        /\ m.kind = "start" => conn'[m.node].shards = conn[m.node].shards \cup m.shards
        /\ m.kind = "stop" => conn'[m.node].shards = conn[m.node].shards \ {m.shard}
    <3>1. CASE HandleStarted(m)
      BY <1>0, <2>2, <3>1 DEF HandleStarted, TypeOK, Conn, Arrived
    <3>2. CASE HandleStopped(m)
      BY <1>0, <2>2, <3>2 DEF HandleStopped, TypeOK, Conn, Arrived
    <3> QED
      BY <1>4, <3>1, <3>2
  <2>4. \A k \in Nodes : Reachable(k)' <=> Reachable(k)
    BY <1>1, <2>1 DEF Reachable
  <2>5. Seen'
    <3> SUFFICES ASSUME NEW k \in Nodes, NEW s \in Shards, Reachable(k)', conn'[k].up, Open(k, s)'
                 PROVE  Knows(k, s)'
      BY DEF Seen
    <3>1. Open(k, s) /\ Knows(k, s)
      BY <1>1, <2>3, <2>4 DEF Core, Seen, Open
    <3>2. CASE s \in conn[k].shards
      BY <1>1, <2>1, <2>3, <3>1, <3>2 DEF Knows
    <3>3. CASE Learns(k, s)
      BY <1>1, <2>1, <2>3, <3>3 DEF Knows, Learns
    <3> QED
      BY <3>1, <3>2, <3>3 DEF Knows
  <2> QED
    BY <1>0, <1>1, <1>2, <2>1, <2>3, <2>5 DEF Recedes, Talk, Open
<1> QED
  BY <1>3, <1>4

LEMMA LosesAndOpens ==
  ASSUME TypeOK, Core,
         (\E m \in net : Lose(m)) \/ \E n \in Nodes, s \in Shards : GatewayOpens(n, s)
  PROVE  Reaches' /\ Seen' /\ Recedes /\ conn' = conn
<1>0. \A m \in net : m.node \in Nodes
  BY Fields DEF TypeOK
<1>1. /\ conn' = conn /\ node' = node /\ net' \subseteq net /\ doubled' = doubled
      /\ \A k \in Nodes, s \in Shards : Open(k, s)' => Open(k, s)
  <2>1. CASE \E m \in net : Lose(m)
    BY <2>1 DEF Lose, Open
  <2>2. CASE \E n \in Nodes, s \in Shards : GatewayOpens(n, s)
    BY <2>2 DEF GatewayOpens, Open, TypeOK
  <2> QED
    BY <2>1, <2>2
<1>2. \A m \in net \ net' : m.kind # "identify" /\ ~Reachable(m.node)
  BY DEF Lose, GatewayOpens
<1>3. \A k \in Nodes : Reachable(k)' <=> Reachable(k)
  BY <1>1, <1>2 DEF Reachable
<1>4. Reaches' /\ Seen'
  BY <1>0, <1>1, <1>2, <1>3 DEF Core, Reaches, Seen, Knows, Learns
<1> QED
  BY <1>1, <1>4 DEF Recedes, Talk

\* The steps that write no message of a command and open no gateway.
LEMMA RecedesSolo ==
  ASSUME TypeOK, Solo, ops' = ops, ops <= 1, Recedes, Reaches', Seen',
         ops = 0 => \A k \in Nodes : conn'[k].shards \subseteq conn[k].shards \cup node[k].shards
  PROVE  Solo'
<1>1. Core'
  BY RecedesCore DEF Solo, Core
<1>2. ops = 0 => NoCommand'
  BY DEF Solo, NoCommand, Unpaired, Recedes
<1>3. ops = 1 => OneCommand'
  BY RecedesOne DEF Solo
<1> QED
  BY <1>1, <1>2, <1>3 DEF Solo

-----------------------------------------------------------------------------
\* The command is given: what it writes is about no shard that runs elsewhere.
LEMMA CommandSolo ==
  ASSUME TypeOK, Core, NoCommand, Command
  PROVE  Core' /\ OneCommand'
<1>1. ASSUME NEW n \in Nodes, NEW S \in SUBSET Shards, StartShards(n, S, ops')
      PROVE  Core' /\ OneCommand'
  <2>1. PICK x : x = Start("down", n, ops', S)
    OBVIOUS
  <2>2. /\ x.kind = "start" /\ x.dir = "down" /\ x.shards = S /\ x.node = n
        /\ net' = net \cup Deliverable({x}) /\ UNCHANGED <<conn, node, gw>>
        /\ doubled' = doubled \cup {s \in S : Overlooked(s)}
    BY <1>1, <2>1 DEF StartShards, Start
  <2>3. \A s \in S : s \in doubled' \/ Dark(s)
    <3> SUFFICES ASSUME NEW s \in S, s \notin doubled', NEW k \in Nodes, Open(k, s) PROVE FALSE
      BY DEF Dark
    <3>1. ~Unseen(k) /\ ~Running(k, s)
      BY <1>1, <2>2 DEF StartShards, Overlooked
    <3>2. Knows(k, s)
      BY <3>1 DEF Core, Seen, Unseen
    <3> QED
      BY <3>1, <3>2 DEF Unseen, Running, Knows, Learns, NoCommand, Talk
  <2>4. Talk' \subseteq {x}
    BY <2>2 DEF Talk, Deliverable, NoCommand
  <2>5. Starting'
    BY <2>2, <2>3, <2>4 DEF Starting, NoCommand, Unpaired, Dark, Open
  <2>6. Core'
    BY <2>2, AnswersReach DEF Deliverable, Core, Believes, Seen, Knows, Learns, Open, Reachable, OneGatewayPerShard
  <2> QED
    BY <2>5, <2>6 DEF OneCommand
<1>2. ASSUME NEW s \in Shards, StopShard(s)
      PROVE  Core' /\ OneCommand'
  <2>1. PICK M : M = {Stop("down", n, ops', s) : n \in {x \in Nodes : Running(x, s)}}
    OBVIOUS
  <2>2. /\ \A x \in M : x.kind = "stop" /\ x.dir = "down" /\ x.node \in Nodes
        /\ net' = net \cup Deliverable(M) /\ UNCHANGED <<conn, node, gw, doubled>>
    BY <1>2, <2>1 DEF StopShard, Stop
  <2>3. Stopping'
    BY <2>2 DEF Talk, Deliverable, Stopping, NoCommand, Unpaired
  <2>4. Core'
    BY <2>2, AnswersReach DEF Deliverable, Core, Believes, Seen, Knows, Learns, Open, Reachable, OneGatewayPerShard
  <2> QED
    BY <2>3, <2>4 DEF OneCommand
<1>3. ASSUME NEW f \in Nodes, NEW t \in Nodes, NEW s \in Shards, StartShardMigration(f, t, s)
      PROVE  Core' /\ OneCommand'
  <2>1. PICK x : x = Prepare("down", f, ops', s, TRUE, 0)
    OBVIOUS
  <2>2. /\ x.kind = "prepare" /\ x.dir = "down" /\ x.node = f /\ x.shard = s /\ x.origin
        /\ net' = net \cup Deliverable({x}) /\ UNCHANGED <<node, gw, doubled>>
        /\ s \in conn[f].shards /\ f # t
    BY <1>3, <2>1 DEF StartShardMigration, Prepare, Running, Idle
  <2>3. /\ \A n \in Nodes : conn'[n].shards = conn[n].shards /\ conn'[n].up = conn[n].up
        /\ \A n \in Nodes : conn'[n].other = IF n = f THEN t ELSE IF n = t THEN f ELSE NoNode
    <3>1. /\ conn[f] \in Conn /\ conn[t] \in Conn
          /\ conn'[f] = [conn[f] EXCEPT !.mode = "from", !.other = t, !.shard = s]
          /\ conn'[t] = [conn[t] EXCEPT !.mode = "to", !.other = f, !.shard = s]
          /\ \A n \in Nodes \ {f, t} : conn'[n] = conn[n]
      BY <1>3, <2>2 DEF StartShardMigration, TypeOK
    <3>2. /\ conn'[f].shards = conn[f].shards /\ conn'[f].up = conn[f].up /\ conn'[f].other = t
          /\ conn'[t].shards = conn[t].shards /\ conn'[t].up = conn[t].up /\ conn'[t].other = f
      BY <3>1 DEF Conn
    <3>3. \A n \in Nodes \ {f, t} : conn'[n] = conn[n] /\ conn[n].other = NoNode
      BY <3>1 DEF NoCommand, Unpaired
    <3> QED
      BY <2>2, <3>2, <3>3
  <2>4. \A k \in Nodes : Open(k, s) => k = f
    BY <2>2 DEF Core, Believes, NoCommand
  <2>5. Talk' \subseteq {x}
    BY <2>2 DEF Talk, Deliverable, NoCommand
  <2>6. Moved(f, t, s)'
    BY <2>2, <2>3, <2>4, <2>5 DEF Moved, HandsOn, Open
  <2>7. Core'
    BY <2>2, <2>3, AnswersReach DEF Deliverable, Core, Believes, Seen, Knows, Learns, Open, Reachable, OneGatewayPerShard
  <2> QED
    BY <2>6, <2>7 DEF OneCommand
<1>4. ASSUME NEW f \in Nodes, NEW t \in Nodes, NEW s \in Shards, MigrateToBusy(f, t, s)
      PROVE  Core' /\ OneCommand'
  <2>1. Reaches' /\ Seen' /\ Recedes
    BY <1>4, LoseOrchestratorRecedes DEF MigrateToBusy
  <2>2. Starting'
    BY <2>1 DEF Recedes, NoCommand, Unpaired, Starting
  <2> QED
    BY <2>1, <2>2, RecedesCore DEF Core, OneCommand
<1> QED
  BY <1>1, <1>2, <1>3, <1>4 DEF Command

-----------------------------------------------------------------------------
\* What the orchestrator passes on reaches the node.
LEMMA ForwardCore ==
  ASSUME TypeOK, Core, NEW m \in net, m.kind \notin {"start", "identify"},
         net \ {m} \subseteq net', UNCHANGED <<node, gw, doubled>>,
         \A y \in net' \ net : y.kind # "identify" /\ y.node \in Nodes /\ Reachable(y.node),
         \A k \in Nodes : /\ conn'[k].up = conn[k].up
                          /\ \A s \in Shards : s \in conn[k].shards /\ Open(k, s) => s \in conn'[k].shards
  PROVE  Core'
<1>1. Reaches' /\ \A k \in Nodes : Reachable(k)' => Reachable(k)
  BY AnswersReach DEF Core, Reachable
<1>2. Believes' /\ OneGatewayPerShard'
  BY DEF Core, Believes, OneGatewayPerShard, Open
<1>3. Seen'
  <2> SUFFICES ASSUME NEW k \in Nodes, NEW s \in Shards, Reachable(k)', conn'[k].up, Open(k, s)'
               PROVE  Knows(k, s)'
    BY DEF Seen
  <2>1. Open(k, s) /\ Knows(k, s)
    BY <1>1 DEF Core, Seen, Open
  <2> QED
    BY <2>1 DEF Knows, Learns
<1> QED
  BY <1>1, <1>2, <1>3 DEF Core

LEMMA TheMigration ==
  ASSUME OneCommand, NEW m \in net, m.kind \in {"prepare", "transfer", "user", "allsent"}
  PROVE  \E f, t \in Nodes, s \in Shards :
           /\ Moved(f, t, s)
           /\ m.kind \in {"prepare", "transfer"} => Talk = {m} /\ HandsOn(f, t, s, m)
           /\ m.kind \in {"user", "allsent"} => \A x \in Talk : HandsState(f, t, s, x)
<1>1. m \in Talk
  BY DEF Talk
<1>2. PICK f \in Nodes, t \in Nodes, s \in Shards : Moved(f, t, s)
  BY <1>1 DEF OneCommand, Starting, Stopping
<1>3. m.kind \in {"prepare", "transfer"} => Talk = {m} /\ HandsOn(f, t, s, m)
  BY <1>1, <1>2 DEF Moved, HandsState
<1>4. ASSUME m.kind \in {"user", "allsent"}, NEW x \in Talk PROVE HandsState(f, t, s, x)
  BY <1>1, <1>2, <1>4 DEF Moved, HandsOn
<1> QED
  BY <1>2, <1>3, <1>4

LEMMA ForwardSolo ==
  ASSUME TypeOK, Core, OneCommand, NEW m \in net,
         HandleOriginReady(m) \/ HandleDestReady(m) \/ HandleAllSent(m) \/ HandleUserEvt(m)
  PROVE  Core' /\ OneCommand'
<1>1. /\ m.kind \in {"prepare", "user", "allsent"} /\ m.dir = "up" /\ UNCHANGED <<node, gw, doubled>>
  BY DEF HandleOriginReady, HandleDestReady, HandleAllSent, HandleUserEvt, Arrived
<1>2. PICK f \in Nodes, t \in Nodes, s \in Shards :
        /\ Moved(f, t, s)
        /\ m.kind = "prepare" => Talk = {m} /\ HandsOn(f, t, s, m)
        /\ m.kind \in {"user", "allsent"} => \A x \in Talk : HandsState(f, t, s, x)
  BY <1>1, TheMigration
<1>3. m.node \in Nodes /\ conn[m.node] \in Conn
  BY Fields DEF TypeOK
<1>4. /\ \A k \in Nodes : /\ conn'[k].up = conn[k].up /\ conn'[k].other = conn[k].other
                          /\ m.kind # "prepare" \/ k # m.node => conn'[k].shards = conn[k].shards
      /\ m.kind = "prepare" => \A r \in conn[m.node].shards :
           r \in conn'[m.node].shards \/ (m.origin /\ r = m.shard)
  <2>1. \A k \in Nodes \ {m.node} : conn'[k] = conn[k]
    BY DEF HandleOriginReady, HandleDestReady, HandleAllSent, HandleUserEvt, WithoutShard, TypeOK
  <2>2. CASE HandleAllSent(m)
    <3>1. m.kind = "allsent" /\ conn'[m.node] = [conn[m.node] EXCEPT !.mode = "none"]
      BY <1>3, <2>2 DEF HandleAllSent, Arrived, TypeOK
    <3> QED
      BY <1>3, <2>1, <3>1 DEF Conn
  <2>3. CASE HandleOriginReady(m)
    <3>1. /\ m.kind = "prepare" /\ m.origin
          /\ conn'[m.node] \in {conn[m.node], [conn[m.node] EXCEPT !.shards = @ \ {m.shard}]}
      BY <1>3, <2>3 DEF HandleOriginReady, Arrived, WithoutShard, TypeOK
    <3>2. /\ conn'[m.node].up = conn[m.node].up /\ conn'[m.node].other = conn[m.node].other
          /\ conn'[m.node].shards \in {conn[m.node].shards, conn[m.node].shards \ {m.shard}}
      BY <1>3, <3>1 DEF Conn
    <3> QED
      BY <2>1, <3>1, <3>2
  <2>4. CASE HandleDestReady(m) \/ HandleUserEvt(m)
    <3>1. conn' = conn
      BY <2>4 DEF HandleDestReady, HandleUserEvt
    <3> QED
      BY <3>1
  <2> QED
    BY <2>2, <2>3, <2>4
<1>a. PICK x : /\ Forward(m, {x})
               /\ x.dir = "down" /\ x.node = conn[m.node].other
               /\ m.kind \in {"user", "allsent"} => x.kind = m.kind
               /\ m.kind = "prepare" => IF m.origin THEN x.kind = "prepare" /\ ~x.origin /\ x.shard = m.shard
                                                    ELSE x.kind = "transfer"
  <2>1. CASE HandleOriginReady(m)
    <3>1. PICK z : z = Prepare("down", conn[m.node].other, m.op, m.shard, FALSE, m.session)
      OBVIOUS
    <3>2. Forward(m, {z}) /\ m.kind = "prepare" /\ m.origin
      BY <2>1, <3>1 DEF HandleOriginReady, Arrived
    <3>3. z.kind = "prepare" /\ z.dir = "down" /\ z.node = conn[m.node].other /\ ~z.origin /\ z.shard = m.shard
      BY <3>1 DEF Prepare
    <3> QED
      BY <3>2, <3>3
  <2>2. CASE HandleDestReady(m)
    <3>1. PICK z : z = StartMigration(conn[m.node].other, m.op, m.shard)
      OBVIOUS
    <3>2. Forward(m, {z}) /\ m.kind = "prepare" /\ ~m.origin
      BY <2>2, <3>1 DEF HandleDestReady, Arrived
    <3>3. z.kind = "transfer" /\ z.dir = "down" /\ z.node = conn[m.node].other
      BY <3>1 DEF StartMigration
    <3> QED
      BY <3>2, <3>3
  <2>3. CASE HandleAllSent(m)
    <3>1. PICK z : z = AllSent("down", conn[m.node].other, m.op, m.num)
      OBVIOUS
    <3> QED
      BY <2>3, <3>1 DEF HandleAllSent, Arrived, AllSent
  <2>4. CASE HandleUserEvt(m)
    <3>1. PICK z : z = UserEvt("down", conn[m.node].other, m.op, m.num)
      OBVIOUS
    <3> QED
      BY <2>4, <3>1 DEF HandleUserEvt, Arrived, UserEvt
  <2> QED
    BY <2>1, <2>2, <2>3, <2>4
<1>5. /\ net \ {m} \subseteq net'
      /\ \A y \in net' : y \in net \ {m} \/ (y = x /\ Reachable(x.node) /\ x.node # NoNode)
  <2>1. CASE OtherKnown(m.node)
    BY <1>a, <2>1 DEF Forward, OtherKnown, Deliverable
  <2>2. CASE ~OtherKnown(m.node)
    BY <1>a, <2>2 DEF Forward
  <2> QED
    BY <2>1, <2>2
<1>6. m.kind = "prepare" /\ m.origin => Dark(m.shard)
  BY <1>1, <1>2 DEF HandsOn
<1>7. x.node # NoNode => x.node = (IF m.node = f THEN t ELSE f) /\ m.node \in {f, t} /\ x.node \in Nodes
  BY <1>2, <1>3, <1>a DEF Moved
<1>8. Core'
  <2>1. \A y \in net' \ net : y.kind # "identify" /\ y.node \in Nodes /\ Reachable(y.node)
    BY <1>1, <1>5, <1>7, <1>a
  <2> QED
    BY <1>1, <1>2, <1>4, <1>5, <1>6, <2>1, ForwardCore DEF Dark
<1>9. \A r : Dark(r)' <=> Dark(r)
  BY <1>1 DEF Dark, Open
<1>10. Moved(f, t, s)'
  <2>1. ASSUME NEW y \in Talk', m.kind = "prepare"
        PROVE  Talk' = {y} /\ HandsOn(f, t, s, y)'
    <3>1. Talk' = {x} /\ y = x /\ x.node # NoNode
      BY <1>2, <1>5, <2>1 DEF Talk
    <3> QED
      BY <1>1, <1>2, <1>7, <1>9, <1>a, <2>1, <3>1 DEF HandsOn
  <2>2. ASSUME NEW y \in Talk', m.kind # "prepare"
        PROVE  HandsState(f, t, s, y)'
    <3>1. \A z \in Talk \cup {m} : HandsState(f, t, s, z)
      BY <1>1, <1>2, <2>2 DEF Talk
    <3>2. CASE y \in Talk
      BY <1>1, <1>9, <3>1, <3>2 DEF HandsState
    <3>3. CASE y = x /\ x.node # NoNode
      BY <1>1, <1>7, <1>9, <1>a, <2>2, <3>1, <3>3 DEF HandsState
    <3> QED
      BY <1>5, <3>2, <3>3 DEF Talk
  <2> QED
    BY <1>2, <1>4, <2>1, <2>2 DEF Moved
<1> QED
  BY <1>8, <1>10 DEF OneCommand

-----------------------------------------------------------------------------
\* A node answers: it has counted the gateways it opens, says so, and opens those of
\* shards that run nowhere.
LEMMA NodeCore ==
  ASSUME TypeOK, Core, NEW m \in net, m.dir = "down", net \ {m} \subseteq net', UNCHANGED <<conn, doubled>>, Believes',
         \A y \in net' \ net : y.kind # "identify" /\ y.dir = "up",
         \A n \in Nodes : /\ node'[n].link = node[n].link
                          /\ n # m.node => node'[n].shards = node[n].shards,
         \A n \in Nodes, s \in Shards :
           Open(n, s)' => Open(n, s) \/ (n = m.node /\ (s \in doubled \/ Dark(s)) /\ Learns(n, s)')
  PROVE  Core'
<1>1. Reaches' /\ \A k \in Nodes : Reachable(k)' => Reachable(k)
  BY AnswersReach DEF Core, Reaches, Reachable
<1>2. OneGatewayPerShard'
  BY DEF Core, OneGatewayPerShard, Dark
<1>3. Seen'
  <2> SUFFICES ASSUME NEW k \in Nodes, NEW s \in Shards, Reachable(k)', conn'[k].up, Open(k, s)'
               PROVE  Knows(k, s)'
    BY DEF Seen
  <2>1. CASE Open(k, s)
    BY <1>1, <2>1 DEF Core, Seen, Knows, Learns
  <2> QED
    BY <2>1 DEF Knows
<1> QED
  BY <1>1, <1>2, <1>3 DEF Core

LEMMA StartsSolo ==
  ASSUME TypeOK, Core, OneCommand, NEW m \in net, StartsShards(m)
  PROVE  Core' /\ OneCommand'
<1>0. m.node \in Nodes /\ node[m.node] \in Node
  BY Fields DEF TypeOK
<1>1. PICK x : x = Start("up", m.node, m.op, m.shards)
  OBVIOUS
<1>2. /\ m.kind = "start" /\ m.dir = "down" /\ UNCHANGED <<conn, doubled>>
      /\ net' = (net \ {m}) \cup {x}
      /\ x.kind = "start" /\ x.dir = "up" /\ x.node = m.node /\ x.shards = m.shards
      /\ node' = [node EXCEPT ![m.node].shards = @ \cup m.shards]
  BY <1>1 DEF StartsShards, Received, Start
<1>3. Unpaired /\ Talk = {m} /\ \A s \in m.shards : s \in doubled \/ Dark(s)
  BY <1>2 DEF OneCommand, Starting, Stopping, Moved, HandsOn, HandsState, Talk
<1>4. /\ node'[m.node].link = node[m.node].link /\ node'[m.node].shards = node[m.node].shards \cup m.shards
      /\ \A n \in Nodes \ {m.node} : node'[n] = node[n]
  BY <1>0, <1>2 DEF TypeOK, Node
<1>5. \A n \in Nodes, s \in Shards : Open(n, s)' => Open(n, s) \/ (n = m.node /\ s \in m.shards)
  BY <1>0 DEF StartsShards, Open, TypeOK
<1>6. Believes'
  BY <1>4, <1>5 DEF Core, Believes
<1>7. Core'
  <2>1. \A s \in m.shards : Learns(m.node, s)'
    BY <1>2 DEF Learns
  <2>2. \A n \in Nodes, s \in Shards :
          Open(n, s)' => Open(n, s) \/ (n = m.node /\ (s \in doubled \/ Dark(s)) /\ Learns(n, s)')
    BY <1>3, <1>5, <2>1
  <2> QED
    BY <1>2, <1>4, <1>6, <2>2, NodeCore
<1>8. Starting'
  BY <1>2, <1>3 DEF Starting, Unpaired, Talk
<1> QED
  BY <1>7, <1>8 DEF OneCommand

LEMMA StopsSolo ==
  ASSUME TypeOK, Core, OneCommand, ~SlowOpen, NEW m \in net, StopsShard(m)
  PROVE  Core' /\ OneCommand'
<1>0. m.node \in Nodes /\ node[m.node] \in Node
  BY Fields DEF TypeOK
<1>1. PICK x : x = Stop("up", m.node, m.op, m.shard)
  OBVIOUS
<1>2. /\ m.kind = "stop" /\ m.dir = "down" /\ UNCHANGED <<conn, doubled>> /\ m.shard \in Shards
      /\ net' = (net \ {m}) \cup {x}
      /\ x.kind = "stop" /\ x.dir = "up" /\ x.node = m.node /\ x.shard = m.shard
      /\ node' = [node EXCEPT ![m.node].shards = @ \ {m.shard}]
  BY <1>1, Fields DEF StopsShard, Received, Stop, TypeOK
<1>3. Stopping
  BY <1>2 DEF OneCommand, Starting, Moved, HandsOn, HandsState, Talk
<1>4. /\ node'[m.node].link = node[m.node].link /\ node'[m.node].shards = node[m.node].shards \ {m.shard}
      /\ \A n \in Nodes \ {m.node} : node'[n] = node[n]
  BY <1>0, <1>2 DEF TypeOK, Node
<1>5. \A n \in Nodes, s \in Shards : Open(n, s)' <=> Open(n, s) /\ ~(n = m.node /\ s = m.shard)
  BY <1>0, <1>2, Closes DEF StopsShard
<1>6. Believes'
  BY <1>4, <1>5 DEF Core, Believes
<1>7. Core'
  BY <1>2, <1>4, <1>5, <1>6, NodeCore
<1>8. Stopping'
  <2>1. \A y \in Talk : y.node \in Nodes /\ y.shard \in Shards
    BY <1>3, Fields DEF Stopping, Talk, TypeOK
  <2>2. \A y \in Talk' : y = x \/ y \in Talk
    BY <1>2 DEF Talk
  <2> QED
    BY <1>0, <1>2, <1>3, <1>5, <2>1, <2>2 DEF Stopping, Unpaired
<1> QED
  BY <1>7, <1>8 DEF OneCommand

\* The destination resumes the shard only while it runs nowhere.
LEMMA FinishSolo ==
  ASSUME TypeOK, Core, NEW m \in net, m.kind \in {"user", "allsent"}, m.dir = "down", NEW nd \in Node,
         NEW f \in Nodes, NEW t \in Nodes, NEW s \in Shards, Moved(f, t, s), m.node = t,
         \A y \in Talk : HandsState(f, t, s, y),
         UNCHANGED <<conn, doubled>>, nd.shard = node[t].shard, nd.shards = node[t].shards, nd.link = node[t].link,
         Finish(t, nd, m)
  PROVE  Core' /\ Moved(f, t, s)'
<1>1. PICK x : x = Start("up", t, nd.op, {nd.shard})
  OBVIOUS
<1>2. /\ x.kind = "start" /\ x.dir = "up" /\ x.node = t /\ x.shards = {nd.shard}
      /\ net' = (net \ {m}) \cup {x} /\ node' = [node EXCEPT ![t] = Forgotten(nd)]
      /\ nd.shard # NoShard
  BY <1>1 DEF Finish, Start
<1>3. nd.shard = s /\ s \in node[t].shards /\ Dark(s)
  BY <1>2 DEF HandsState, Talk
<1>4. /\ node'[t].link = node[t].link /\ node'[t].shards = node[t].shards /\ node'[t].shard = NoShard
      /\ \A n \in Nodes \ {t} : node'[n] = node[n]
  BY <1>2 DEF TypeOK, Node, Forgotten
<1>5. \A n \in Nodes, r \in Shards : Open(n, r)' => Open(n, r) \/ (n = t /\ r = s)
  BY <1>3 DEF Finish, Open, TypeOK
<1>6. Believes'
  BY <1>3, <1>4, <1>5 DEF Core, Believes
<1>7. Core'
  <2>1. Learns(t, s)'
    BY <1>2, <1>3 DEF Learns
  <2>2. \A n \in Nodes, r \in Shards :
          Open(n, r)' => Open(n, r) \/ (n = m.node /\ Dark(r) /\ Learns(n, r)')
    BY <1>3, <1>5, <2>1
  <2> QED
    BY <1>2, <1>4, <1>6, <2>2, NodeCore
<1>8. \A y \in Talk' : HandsState(f, t, s, y)'
  BY <1>2, <1>3, <1>4 DEF HandsState, Talk
<1> QED
  BY <1>7, <1>8 DEF Moved

\* Both ends prepare, and the origin sends its state.
LEMMA PreparesOriginSolo ==
  ASSUME TypeOK, Core, OneCommand, ~SlowOpen, NEW m \in net, PreparesOrigin(m)
  PROVE  Core' /\ OneCommand'
<1>0. m.node \in Nodes /\ node[m.node] \in Node
  BY Fields DEF TypeOK
<1>1. PICK x : x = Prepare("up", m.node, m.op, m.shard, TRUE, gw[m.node][m.shard].session)
  OBVIOUS
<1>2. /\ m.kind = "prepare" /\ m.dir = "down" /\ m.origin /\ UNCHANGED <<conn, doubled>> /\ m.shard \in Shards
      /\ net' = (net \ {m}) \cup {x}
      /\ x.kind = "prepare" /\ x.dir = "up" /\ x.node = m.node /\ x.shard = m.shard /\ x.origin
  BY <1>1, Fields DEF PreparesOrigin, Received, Prepare, TypeOK
<1>3. PICK f \in Nodes, t \in Nodes, s \in Shards : Moved(f, t, s) /\ Talk = {m} /\ HandsOn(f, t, s, m)
  BY <1>2, TheMigration
<1>4. /\ node'[m.node].link = node[m.node].link /\ node'[m.node].shards = node[m.node].shards \ {m.shard}
      /\ \A n \in Nodes \ {m.node} : node'[n] = node[n]
  BY <1>0 DEF PreparesOrigin, TypeOK, Node
<1>5. \A n \in Nodes, r \in Shards : Open(n, r)' <=> Open(n, r) /\ ~(n = m.node /\ r = m.shard)
  BY <1>0, <1>2, Closes DEF PreparesOrigin
<1>6. Believes'
  BY <1>4, <1>5 DEF Core, Believes
<1>7. Core'
  BY <1>2, <1>4, <1>5, <1>6, NodeCore
<1>8. Talk' = {x}
  BY <1>2, <1>3 DEF Talk
<1>9. Moved(f, t, s)'
  <2>1. Dark(s)' /\ m.node = f /\ m.shard = s
    BY <1>2, <1>3, <1>5 DEF HandsOn, Dark
  <2>2. HandsOn(f, t, s, x)'
    BY <1>2, <2>1 DEF HandsOn
  <2> QED
    BY <1>2, <1>3, <1>8, <2>2 DEF Moved
<1> QED
  BY <1>7, <1>9 DEF OneCommand

LEMMA PreparesDestSolo ==
  ASSUME TypeOK, Core, OneCommand, NEW m \in net, PreparesDest(m)
  PROVE  Core' /\ OneCommand'
<1>0. m.node \in Nodes /\ node[m.node] \in Node
  BY Fields DEF TypeOK
<1>1. PICK x : x = Prepare("up", m.node, m.op, m.shard, FALSE, m.session)
  OBVIOUS
<1>2. /\ m.kind = "prepare" /\ m.dir = "down" /\ ~m.origin /\ UNCHANGED <<conn, gw, doubled>>
      /\ net' = (net \ {m}) \cup {x}
      /\ x.kind = "prepare" /\ x.dir = "up" /\ x.node = m.node /\ x.shard = m.shard /\ ~x.origin
  BY <1>1 DEF PreparesDest, Received, Prepare
<1>3. PICK f \in Nodes, t \in Nodes, s \in Shards : Moved(f, t, s) /\ Talk = {m} /\ HandsOn(f, t, s, m)
  BY <1>2, TheMigration
<1>4. /\ node'[m.node].link = node[m.node].link /\ node'[m.node].shards = node[m.node].shards \cup {m.shard}
      /\ node'[m.node].shard = m.shard
      /\ \A n \in Nodes \ {m.node} : node'[n] = node[n]
  BY <1>0 DEF PreparesDest, Prepared, TypeOK, Node
<1>5. \A n, r : Open(n, r)' <=> Open(n, r)
  BY <1>2 DEF Open
<1>6. Believes'
  BY <1>4, <1>5 DEF Core, Believes
<1>7. Core'
  BY <1>2, <1>4, <1>5, <1>6, NodeCore
<1>8. Talk' = {x}
  BY <1>2, <1>3 DEF Talk
<1>9. Moved(f, t, s)'
  <2>1. Dark(s)' /\ m.node = t /\ m.shard = s
    BY <1>2, <1>3, <1>5 DEF HandsOn, Dark
  <2>2. HandsOn(f, t, s, x)'
    BY <1>2, <1>4, <2>1 DEF HandsOn
  <2> QED
    BY <1>2, <1>3, <1>8, <2>2 DEF Moved
<1> QED
  BY <1>7, <1>9 DEF OneCommand

LEMMA TransfersSolo ==
  ASSUME TypeOK, Core, OneCommand, NEW m \in net, TransfersFrom(m)
  PROVE  Core' /\ OneCommand'
<1>1. m.kind = "transfer" /\ m.dir = "down" /\ UNCHANGED <<conn, node, gw, doubled>>
  BY DEF TransfersFrom, Received
<1>2. PICK k \in 0 .. MaxEvents :
        net' = (net \ {m}) \cup {AllSent("up", m.node, m.op, k)} \cup {UserEvt("up", m.node, m.op, i) : i \in 1 .. k}
  BY DEF TransfersFrom
<1>3. /\ net \ {m} \subseteq net'
      /\ \A y \in net' : \/ y \in net \ {m}
                         \/ y.kind \in {"user", "allsent"} /\ y.dir = "up" /\ y.node = m.node
  BY <1>2 DEF AllSent, UserEvt
<1>4. PICK f \in Nodes, t \in Nodes, s \in Shards : Moved(f, t, s) /\ Talk = {m} /\ HandsOn(f, t, s, m)
  BY <1>1, TheMigration
<1>5. \A n, r : Open(n, r)' <=> Open(n, r)
  BY <1>1 DEF Open
<1>6. Core'
  <2>1. Believes'
    BY <1>1, <1>5 DEF Core, Believes
  <2> QED
    BY <1>1, <1>3, <1>5, <2>1, NodeCore
<1>7. Dark(s)' /\ m.node = f /\ s \in node[t].shards /\ node[t].shard = s
  BY <1>1, <1>4, <1>5 DEF HandsOn, Dark
<1>8. \A y \in Talk' : HandsState(f, t, s, y)'
  BY <1>1, <1>3, <1>4, <1>7 DEF HandsState, Talk
<1> QED
  BY <1>1, <1>4, <1>6, <1>8 DEF Moved, OneCommand

LEMMA NoticedSolo ==
  ASSUME TypeOK, Core, OneCommand, NEW m \in net, LearnsTotal(m) \/ HandlesUserEvt(m)
  PROVE  Core' /\ OneCommand'
<1>1. /\ m.kind \in {"user", "allsent"} /\ m.dir = "down" /\ m \in Message /\ m.node \in Nodes
      /\ node[m.node] \in Node
  BY Fields DEF LearnsTotal, HandlesUserEvt, Received, TypeOK
<1>2. PICK nd \in Node : \E done \in BOOLEAN :
        /\ Noticed(m, nd, done)
        /\ nd.shard = node[m.node].shard /\ nd.shards = node[m.node].shards /\ nd.link = node[m.node].link
  <2>1. CASE LearnsTotal(m)
    <3>1. PICK nd : nd = [node[m.node] EXCEPT !.total = m.num]
      OBVIOUS
    <3>2. Noticed(m, nd, EnoughHandled(nd)) /\ m.kind = "allsent"
      BY <2>1, <3>1 DEF LearnsTotal, Received
    <3>3. m.num \in Nat
      BY <1>1, <3>2, Fields
    <3>4. nd \in Node
      BY <1>1, <3>1, <3>3 DEF Node
    <3>5. nd.shard = node[m.node].shard /\ nd.shards = node[m.node].shards /\ nd.link = node[m.node].link
      BY <1>1, <3>1 DEF Node
    <3> QED
      BY <3>2, <3>4, <3>5 DEF EnoughHandled
  <2>2. CASE HandlesUserEvt(m)
    <3>1. PICK own : own = IF m.op = node[m.node].op THEN node[m.node].own + 1 ELSE node[m.node].own
      OBVIOUS
    <3>2. PICK nd : nd = [node[m.node] EXCEPT !.processed = @ + 1, !.own = own]
      OBVIOUS
    <3>3. Noticed(m, nd, EnoughHandled(nd))
      BY <2>2, <3>1, <3>2 DEF HandlesUserEvt
    <3>4. own \in Nat /\ node[m.node].processed + 1 \in Nat
      BY <1>1, <3>1 DEF Node
    <3>5. nd \in Node
      BY <1>1, <3>2, <3>4 DEF Node
    <3>6. nd.shard = node[m.node].shard /\ nd.shards = node[m.node].shards /\ nd.link = node[m.node].link
      BY <1>1, <3>2 DEF Node
    <3> QED
      BY <3>3, <3>5, <3>6 DEF EnoughHandled
  <2> QED
    BY <2>1, <2>2
<1>3. PICK done \in BOOLEAN : Noticed(m, nd, done)
  BY <1>2
<1>4. PICK f \in Nodes, t \in Nodes, s \in Shards : Moved(f, t, s) /\ \A y \in Talk : HandsState(f, t, s, y)
  BY <1>1, TheMigration
<1>5. m.node = t /\ conn' = conn /\ doubled' = doubled
  BY <1>1, <1>3, <1>4 DEF HandsState, Talk, Noticed
<1>6. CASE ~done
  <2>1. net' = net \ {m} /\ node' = [node EXCEPT ![t] = nd] /\ gw' = gw
    BY <1>3, <1>5, <1>6 DEF Noticed
  <2>2. node'[t] = nd /\ \A n \in Nodes \ {t} : node'[n] = node[n]
    BY <2>1 DEF TypeOK
  <2>3. Recedes
    BY <1>2, <1>5, <2>1, <2>2 DEF Recedes, Talk, Open
  <2>4. Believes'
    BY <2>3, RecedesCore DEF Core
  <2>5. Core'
    BY <1>1, <1>2, <1>5, <2>1, <2>2, <2>4, NodeCore DEF Open
  <2> QED
    BY <2>3, <2>5, RecedesOne
<1>7. CASE done /\ nd.shard # NoShard
  BY <1>1, <1>2, <1>3, <1>4, <1>5, <1>7, FinishSolo DEF Noticed, OneCommand
<1>8. CASE done /\ nd.shard = NoShard
  <2>1. Kill(t)
    BY <1>3, <1>5, <1>8 DEF Noticed
  <2> QED
    BY <1>5, <2>1, KillRecedes, RecedesCore, RecedesOne DEF Core
<1> QED
  BY <1>6, <1>7, <1>8

-----------------------------------------------------------------------------
LEMMA StepSolo ==
  ASSUME TypeOK, ~SlowOpen, Solo, [Next]_vars
  PROVE  Solo'
<1> SUFFICES ASSUME ops' <= 1 PROVE Solo'
  BY DEF Solo
<1>0. ops \in Nat /\ ops <= 1
  <2>1. ops \in Nat
    BY BoundsAssumption DEF TypeOK
  <2> QED
    BY <2>1, OpsGrow
<1>1. Core /\ (ops = 0 => NoCommand) /\ (ops = 1 => OneCommand)
  BY <1>0 DEF Solo
<1>2. CASE Command
  <2>1. ops' = ops + 1
    BY <1>2, Zenon DEF Command, StopShard, StartShardMigration, MigrateToBusy
  <2>2. ops = 0 /\ ops' = 1
    BY <1>0, <2>1
  <2>3. Core' /\ OneCommand'
    BY <1>1, <1>2, <2>2, CommandSolo
  <2> QED
    BY <2>2, <2>3 DEF Solo
<1>3. ASSUME Core', OneCommand', ops' = ops, ops = 1 PROVE Solo'
  BY <1>3 DEF Solo
<1>4. ASSUME NEW m \in net, m \in Talk PROVE ops = 1 /\ OneCommand
  <2>1. ops # 0
    BY <1>1, <1>4 DEF NoCommand
  <2> QED
    BY <1>0, <1>1, <2>1
<1>5. ASSUME NEW m \in net, HandleIdentify(m) \/ HandleStarted(m) \/ HandleStopped(m)
      PROVE  Solo'
  <2>1. m.kind = "stop" => ~Open(m.node, m.shard)
    <3> SUFFICES ASSUME m.kind = "stop" PROVE ~Open(m.node, m.shard)
      OBVIOUS
    <3>1. m.dir = "up" /\ m \in Talk
      BY <1>5 DEF HandleIdentify, HandleStarted, HandleStopped, Arrived, Talk
    <3> QED
      BY <1>4, <3>1 DEF OneCommand, Starting, Stopping, Moved, HandsOn, HandsState
  <2>2. ops' = ops /\ (m.kind = "identify" \/ m \in Talk)
    BY <1>5 DEF HandleIdentify, HandleStarted, HandleStopped, Talk
  <2>3. Reaches' /\ Seen' /\ Recedes
    BY <1>1, <1>5, <2>1, AnswersRecede
  <2>4. ops = 0 => \A k \in Nodes : conn'[k].shards \subseteq conn[k].shards \cup node[k].shards
    BY <1>1, <1>4, <1>5, <2>1, <2>2, AnswersRecede
  <2> QED
    BY <1>0, <2>2, <2>3, <2>4, RecedesSolo
<1>6. ASSUME NEW m \in net, OrchestratorStep(m) PROVE Solo'
  <2>1. CASE HandleStarted(m) \/ HandleStopped(m)
    BY <1>5, <2>1
  <2>2. CASE HandleOriginReady(m) \/ HandleDestReady(m) \/ HandleAllSent(m) \/ HandleUserEvt(m)
    <3>1. m \in Talk /\ ops' = ops
      BY <2>2 DEF HandleOriginReady, HandleDestReady, HandleAllSent, HandleUserEvt, Arrived, Talk
    <3> QED
      BY <1>1, <1>3, <1>4, <2>2, <3>1, ForwardSolo
  <2> QED
    BY <1>6, <2>1, <2>2 DEF OrchestratorStep
<1>7. ASSUME NEW m \in net, NodeStep(m) PROVE Solo'
  <2>1. m \in Talk /\ ops' = ops
    BY <1>7 DEF NodeStep, StartsShards, StopsShard, PreparesOrigin, PreparesDest,
       TransfersFrom, LearnsTotal, HandlesUserEvt, ShutsDown, Noticed, Received, Talk
  <2>2. ops = 1 /\ OneCommand
    BY <1>4, <2>1
  <2>3. ~ShutsDown(m)
    BY <2>1, <2>2 DEF ShutsDown, Received, OneCommand, Starting, Stopping, Moved, HandsOn, HandsState
  <2>4. Core' /\ OneCommand'
    BY <1>1, <1>7, <2>2, <2>3, StartsSolo, StopsSolo, PreparesOriginSolo, PreparesDestSolo,
       TransfersSolo, NoticedSolo DEF NodeStep
  <2> QED
    BY <1>3, <2>1, <2>2, <2>4
<1>8. CASE \E n \in Nodes, s \in Shards : GatewayOpens(n, s)
  BY <1>0, <1>1, <1>8, LosesAndOpens, RecedesSolo DEF GatewayOpens
<1>9. CASE Recovery
  BY <1>0, <1>1, <1>9, ConnectionRecedes, RecedesSolo DEF Recovery, NoticeDrop, Reconnect
<1>10. CASE Failure
  <2>1. CASE \E n \in Nodes : Drop(n)
    BY <1>0, <1>1, <2>1, ConnectionRecedes, RecedesSolo DEF Drop
  <2>2. CASE \E n \in Nodes : Die(n)
    BY <1>0, <1>1, <2>2, KillRecedes, RecedesSolo DEF Die
  <2>3. CASE Restart
    BY <1>0, <1>1, <2>3, LoseOrchestratorRecedes, RecedesSolo DEF Restart
  <2>4. CASE \E m \in net : Lose(m)
    BY <1>0, <1>1, <2>4, LosesAndOpens, RecedesSolo DEF Lose
  <2> QED
    BY <1>10, <2>1, <2>2, <2>3, <2>4 DEF Failure
<1>11. CASE UNCHANGED vars
  <2>1. UNCHANGED <<conn, node, gw, net, doubled, ops>>
    BY <1>11 DEF vars
  <2> QED
    BY <1>0, <1>1, <2>1 DEF Solo, Core, Reaches, Reachable, Believes, Seen, Knows, Learns, OneGatewayPerShard,
       NoCommand, Talk, Unpaired, OneCommand, Starting, Stopping, Moved, HandsOn, HandsState, Dark, Open
<1> QED
  BY <1>2, <1>5, <1>6, <1>7, <1>8, <1>9, <1>10, <1>11 DEF Next, Step

LEMMA SoloAlways == ASSUME ~SlowOpen PROVE Spec => [](TypeOK /\ Solo)
<1>1. Init => TypeOK /\ Solo
  BY InitTyping, InitSolo
<1>2. TypeOK /\ Solo /\ [Next]_vars => (TypeOK /\ Solo)'
  BY TypingStep, StepSolo
<1> QED
  BY <1>1, <1>2, PTL DEF Spec

(* Up to the first command and while it is carried out, no shard has, or is opening,
   a gateway connection in two nodes, however many connections, nodes and
   orchestrator processes are lost (nodeconn.go, node.go), but for the shards of a
   start that overlooked a node which runs them: what a broken migration leaves
   behind cannot open a shard that runs.  With a second command it can.           *)
THEOREM OneGatewayWithOneCommand ==
  ASSUME ~SlowOpen
  PROVE  Spec => [](ops <= 1 => OneGatewayPerShard)
<1>1. TypeOK /\ Solo => (ops <= 1 => OneGatewayPerShard)
  BY DEF Solo, Core
<1> QED
  BY <1>1, SoloAlways, PTL

(* As long as nothing has failed, and up to the first command whatever fails, once
   nothing is on its way no connected node runs a shard that the orchestrator does
   not know of (node.go, connect): a node has counted what it runs, so that it
   identifies with all of it, and what it was told while it was away is lost.     *)
THEOREM WhatRunsIsKnown ==
  ASSUME ~SlowOpen
  PROVE  Spec => []((Undisturbed \/ ops <= 1) => RunningIsKnown)
<1>1. TypeOK /\ Solo => (ops <= 1 => RunningIsKnown)
  BY DEF Solo, Core, Seen, Knows, Learns, RunningIsKnown, Settled, Reachable
<1>2. ViewsAgree => RunningIsKnown
  BY DEF ViewsAgree, RunningIsKnown
<1>3. Spec => [](Undisturbed => ViewsAgree)
  BY ViewsAgreeWhenQuiet
<1>4. Spec => [](TypeOK /\ Solo)
  BY SoloAlways
<1> QED
  BY <1>1, <1>2, <1>3, <1>4, PTL

-----------------------------------------------------------------------------
(* The monitor (ShardMonitor).                                              *)

\* A step of the monitor's system is one of the protocol, but for a bucket that is
\* started, whose start is not counted.
LEMMA MonitorSteps ==
  ASSUME [MNext]_mvars
  PROVE  [Next]_vars \/ StartBucket(SeenRunning)
<1>1. CASE Tick
  BY <1>1, Zenon DEF Tick, Cools, Looks, LaunchNewNode
<1>2. CASE MigrateShard
  BY <1>2, Zenon DEF MigrateShard, Next, Command
<1>3. CASE MProtocolStep \/ MRecovery \/ MDisturbance
  BY <1>3, Zenon DEF MProtocolStep, MRecovery, MDisturbance, Next, Recovery, Failure
<1>4. CASE UNCHANGED mvars
  BY <1>4, Zenon DEF mvars
<1> QED
  BY <1>1, <1>2, <1>3, <1>4, Zenon DEF MNext

\* What is started is a set of shards of one slot that have been missing.
LEMMA BucketStarts ==
  ASSUME StartBucket(SeenRunning)
  PROVE  /\ ops' = ops
         /\ \E n \in Nodes : \E b \in SlotsFor(n, Missing(SeenRunning)) :
              \E S \in SUBSET Missing(SeenRunning) :
                /\ S = FirstBucket(b, Missing(SeenRunning))
                /\ HasRoom(n) /\ StartShards(n, S, 0)
                /\ hasty' = IF Unanswered(n) THEN hasty \cup {n} ELSE hasty
<1> DEFINE missing == Missing(SeenRunning)
<1>1. PICK n \in Nodes : /\ HasRoom(n)
                         /\ \E b \in SlotsFor(n, missing) : StartShards(n, FirstBucket(b, missing), 0)
                         /\ hasty' = IF Unanswered(n) THEN hasty \cup {n} ELSE hasty
  BY Zenon DEF StartBucket
<1>2. \A b : FirstBucket(b, missing) \in SUBSET missing
  BY DEF FirstBucket
<1>3. ops' = ops
  BY Zenon DEF StartBucket
<1> QED
  BY <1>1, <1>2, <1>3

LEMMA MissingShards == Missing(SeenRunning) \subseteq Shards
BY MonitorAssumption DEF Missing

LEMMA MonitorTypingStep == TypeOK /\ [MNext]_mvars => TypeOK'
<1> SUFFICES ASSUME TypeOK, [MNext]_mvars PROVE TypeOK'
  OBVIOUS
<1>1. CASE [Next]_vars
  BY <1>1, TypingStep
<1>2. CASE StartBucket(SeenRunning)
  <2>1. PICK n \in Nodes, S \in SUBSET Shards : StartShards(n, S, 0) /\ ops' = ops
    BY <1>2, BucketStarts, MissingShards
  <2>2. 0 \in 0 .. MaxOps /\ ops' \in 0 .. MaxOps
    BY <2>1, BoundsAssumption DEF TypeOK
  <2> QED
    BY <2>1, <2>2, StartShardsTyping
<1> QED
  BY <1>1, <1>2, MonitorSteps

(* What the monitor keeps of the shards and of the nodes it launched is typed,
   and it never waits longer than it has to.                                 *)
THEOREM MonitorTyping == MSpec => []MonitorTypeOK
<1>1. MInit => MonitorTypeOK
  BY InitTyping, MonitorAssumption DEF MInit, MonitorTypeOK
<1>2. MonitorTypeOK /\ [MNext]_mvars => MonitorTypeOK'
  <2> SUFFICES ASSUME MonitorTypeOK, [MNext]_mvars PROVE MonitorTypeOK'
    OBVIOUS
  <2>1. TypeOK'
    BY MonitorTypingStep DEF MonitorTypeOK
  <2>2. Downtime \in Nat \ {0} /\ Cooldown \in Nat \ {0}
    BY MonitorAssumption
  <2>3. \A S : Older(S) \in [Shards -> 0 .. Downtime]
    BY <2>2 DEF Older, MonitorTypeOK
  <2>4. [s \in Shards |-> 0] \in [Shards -> 0 .. Downtime]
    BY <2>2
  <2>5. unseen' = unseen \/ unseen' = [s \in Shards |-> 0] \/ \E S : unseen' = Older(S)
    BY Zenon DEF MNext, Tick, Cools, Looks, MigrateShard, MProtocolStep, MRecovery, MDisturbance, Forget, Quiet, mvars
  <2>6. cooling' = cooling \/ cooling' = 0 \/ cooling' = Cooldown \/ (cooling > 0 /\ cooling' = cooling - 1)
    BY Zenon DEF MNext, Tick, Cools, Looks, StartBucket, LaunchNewNode, MigrateShard, MProtocolStep, MRecovery,
       MDisturbance, Forget, Quiet, mvars
  <2>7. launched' = launched \/ \E n \in Newcomers : launched' = launched \cup {n}
    <3>1. StartBucket(SeenRunning) => launched' = launched
      BY Zenon DEF StartBucket
    <3>2. LaunchNewNode(SeenRunning) => \E n \in Newcomers : launched' = launched \cup {n}
      BY DEF LaunchNewNode
    <3> QED
      BY <3>1, <3>2, Zenon DEF MNext, Tick, Cools, Looks, MigrateShard, MProtocolStep, MRecovery,
         MDisturbance, Forget, Quiet, mvars
  <2>11. hasty' \subseteq Nodes
    <3>1. StartBucket(SeenRunning) => \E n \in Nodes : hasty' = hasty \/ hasty' = hasty \cup {n}
      BY DEF StartBucket
    <3>2. StartBucket(SeenRunning) \/ hasty' = hasty
      BY Zenon DEF MNext, Tick, Cools, Looks, LaunchNewNode, MigrateShard, MProtocolStep, MRecovery,
         MDisturbance, Forget, Quiet, mvars
    <3> QED
      BY <3>1, <3>2 DEF MonitorTypeOK
  <2>8. unseen' \in [Shards -> 0 .. Downtime]
    BY <2>3, <2>4, <2>5 DEF MonitorTypeOK
  <2>9. cooling' \in 0 .. Cooldown
    BY <2>2, <2>6 DEF MonitorTypeOK
  <2>10. launched' \subseteq Newcomers
    BY <2>7 DEF MonitorTypeOK
  <2> QED
    BY <2>1, <2>8, <2>9, <2>10, <2>11 DEF MonitorTypeOK
<1> QED
  BY <1>1, <1>2, PTL DEF MSpec

(* What the monitor puts on a node.                                         *)

\* What a step has to do with messages and nodes for OnlyStarts to be kept.
LEMMA StartsStay ==
  ASSUME OnlyStarts, net' \subseteq net, UNCHANGED conn,
         \A n \in Nodes : node'[n].shards = node[n].shards /\ (node'[n].link => node[n].link),
         \A m \in net : m.node \in Nodes,
         \A n \in Nodes : Reachable(n)' => Reachable(n) /\ \A m \in net : m.node = n => m \in net',
         \A m \in net' : m.kind = "start" /\ m.dir = "down" => Reachable(m.node)',
         \A m \in net' : m.kind = "identify" => node'[m.node].link
  PROVE  OnlyStarts' /\ \A n \in Nodes : Load(n)' \subseteq Load(n)
<1>1. \A n \in Nodes : Load(n)' \subseteq Load(n)
  BY DEF Load, Tells
<1> QED
  BY <1>1 DEF OnlyStarts

LEMMA NextStarts ==
  ASSUME TypeOK, OnlyStarts, ops = 0, ops' = 0, [Next]_vars
  PROVE  OnlyStarts' /\ \A n \in Nodes : Load(n)' \subseteq Load(n)
<1> DEFINE Goal == OnlyStarts' /\ \A n \in Nodes : Load(n)' \subseteq Load(n)
<1>0. \A m \in net : m.node \in Nodes /\ m.kind \in {"start", "identify"} /\ m.shards \in SUBSET Shards
  BY Fields DEF TypeOK, OnlyStarts
<1>1. ~Command
  <2>1. ops' # ops + 1
    BY DEF TypeOK
  <2> QED
    BY <2>1, Zenon DEF Command, StopShard, StartShardMigration, MigrateToBusy
<1>2. ASSUME NEW m \in net, HandleIdentify(m) PROVE Goal
  <2>1. /\ m.kind = "identify" /\ conn' = [conn EXCEPT ![m.node] = NewConn(m.shards)]
        /\ net' = net \ {m} /\ UNCHANGED node
    BY <1>2 DEF HandleIdentify, Identified
  <2>2. conn'[m.node].shards = m.shards /\ \A n \in Nodes \ {m.node} : conn'[n] = conn[n]
    BY <1>0, <2>1 DEF TypeOK, NewConn
  <2>3. m.shards = node[m.node].shards
    BY <2>1 DEF OnlyStarts
  <2>4. \A n \in Nodes : n # m.node => (Reachable(n)' <=> Reachable(n))
    BY <2>1 DEF Reachable
  <2>5. \A x \in net : x.dir = "down" /\ x.kind = "start" => x.node # m.node
    BY <2>1 DEF OnlyStarts, Reachable
  <2>6. \A n \in Nodes : Load(n)' \subseteq Load(n)
    <3> SUFFICES ASSUME NEW n \in Nodes, NEW s \in Load(n)' PROVE s \in Load(n)
      OBVIOUS
    <3>1. CASE \E x \in net' : Tells(x, n) /\ s \in x.shards
      BY <2>1, <3>1 DEF Load, Tells
    <3>2. CASE s \in node'[n].shards
      BY <2>1, <3>2 DEF Load
    <3>3. CASE s \in conn'[n].shards
      <4>1. CASE n = m.node
        BY <2>2, <3>3, <4>1, <2>1 DEF Load, Tells
      <4>2. CASE n # m.node
        BY <2>2, <3>3, <4>2 DEF Load
      <4> QED
        BY <4>1, <4>2
    <3> QED
      BY <3>1, <3>2, <3>3 DEF Load
  <2>7. \A n \in Nodes : Reachable(n)' =>
          \A s \in node'[n].shards :
            \/ s \in conn'[n].shards
            \/ \E x \in net' : x.kind = "start" /\ x.dir = "up" /\ x.node = n /\ s \in x.shards
    <3> SUFFICES ASSUME NEW n \in Nodes, Reachable(n)', NEW s \in node'[n].shards
                 PROVE  \/ s \in conn'[n].shards
                        \/ \E x \in net' : x.kind = "start" /\ x.dir = "up" /\ x.node = n /\ s \in x.shards
      OBVIOUS
    <3>1. CASE n = m.node
      BY <2>1, <2>2, <2>3, <3>1
    <3>2. CASE n # m.node
      BY <2>1, <2>2, <2>4, <3>2 DEF OnlyStarts
    <3> QED
      BY <3>1, <3>2
  <2>8. \A x \in net' : /\ x \in net /\ node'[x.node] = node[x.node]
                        /\ x.kind = "start" /\ x.dir = "down" => Reachable(x.node)'
    BY <1>0, <2>1, <2>4, <2>5 DEF OnlyStarts
  <2>9. \A x \in net' :
          /\ x.kind \in {"start", "identify"}
          /\ x.kind = "identify" => node'[x.node].link /\ x.shards = node'[x.node].shards
          /\ x.kind = "start" /\ x.dir = "down" => Reachable(x.node)'
          /\ x.kind = "start" /\ x.dir = "up" => x.shards \subseteq node'[x.node].shards
    BY <2>8 DEF OnlyStarts
  <2> QED
    BY <2>6, <2>7, <2>9 DEF OnlyStarts
<1>3. ASSUME NEW m \in net, OrchestratorStep(m) PROVE Goal
  <2>1. HandleStarted(m)
    BY <1>0, <1>3, Zenon DEF OrchestratorStep, HandleStopped, HandleOriginReady, HandleDestReady, HandleAllSent,
       HandleUserEvt, Arrived
  <2>2. /\ m.kind = "start" /\ m.dir = "up" /\ net' = net \ {m} /\ UNCHANGED node
        /\ conn' = [conn EXCEPT ![m.node] =
             [conn[m.node] EXCEPT !.shards = @ \cup m.shards,
                                  !.mode = IF conn[m.node].shard \in m.shards THEN "none" ELSE @]]
    BY <2>1 DEF HandleStarted, Arrived
  <2>3. /\ conn'[m.node].shards = conn[m.node].shards \cup m.shards
        /\ \A n \in Nodes \ {m.node} : conn'[n] = conn[n]
    BY <1>0, <2>2 DEF TypeOK, Conn
  <2>4. \A n \in Nodes : conn[n].shards \subseteq conn'[n].shards
    BY <2>3
  <2>5. \A n : Reachable(n)' <=> Reachable(n)
    BY <2>2 DEF Reachable
  <2>6. \A n \in Nodes : Load(n)' \subseteq Load(n)
    <3> SUFFICES ASSUME NEW n \in Nodes, NEW s \in Load(n)' PROVE s \in Load(n)
      OBVIOUS
    <3>1. CASE s \in conn'[n].shards
      BY <2>2, <2>3, <3>1 DEF Load, Tells
    <3>2. CASE s \notin conn'[n].shards
      BY <2>2, <3>2 DEF Load, Tells
    <3> QED
      BY <3>1, <3>2
  <2>7. ASSUME NEW n \in Nodes, Reachable(n)', NEW s \in node'[n].shards
        PROVE  \/ s \in conn'[n].shards
               \/ \E x \in net' : x.kind = "start" /\ x.dir = "up" /\ x.node = n /\ s \in x.shards
    <3>1. CASE s \in conn[n].shards
      BY <2>4, <3>1
    <3>2. CASE s \notin conn[n].shards
      <4>1. PICK x \in net : x.kind = "start" /\ x.dir = "up" /\ x.node = n /\ s \in x.shards
        BY <2>2, <2>5, <2>7, <3>2 DEF OnlyStarts
      <4>2. CASE x = m
        BY <2>3, <4>1, <4>2
      <4>3. CASE x # m
        BY <2>2, <4>1, <4>3
      <4> QED
        BY <4>2, <4>3
    <3> QED
      BY <3>1, <3>2
  <2>8. \A x \in net' :
          /\ x.kind \in {"start", "identify"}
          /\ x.kind = "identify" => node'[x.node].link /\ x.shards = node'[x.node].shards
          /\ x.kind = "start" /\ x.dir = "down" => Reachable(x.node)'
          /\ x.kind = "start" /\ x.dir = "up" => x.shards \subseteq node'[x.node].shards
    BY <2>2, <2>5 DEF OnlyStarts
  <2> QED
    BY <2>6, <2>7, <2>8 DEF OnlyStarts
<1>4. ASSUME NEW m \in net, NodeStep(m) PROVE Goal
  <2>1. StartsShards(m)
    BY <1>0, <1>4, Zenon DEF NodeStep, StopsShard, PreparesOrigin, PreparesDest, TransfersFrom, LearnsTotal,
       HandlesUserEvt, ShutsDown, Received
  <2>2. PICK up : up = Start("up", m.node, m.op, m.shards)
    OBVIOUS
  <2>3. /\ m.kind = "start" /\ m.dir = "down" /\ net' = (net \ {m}) \cup {up} /\ UNCHANGED conn
        /\ node' = [node EXCEPT ![m.node].shards = @ \cup m.shards]
    BY <2>1, <2>2 DEF StartsShards, Received
  <2>4. /\ node'[m.node].shards = node[m.node].shards \cup m.shards
        /\ \A n \in Nodes : node'[n].link = node[n].link
        /\ \A n \in Nodes \ {m.node} : node'[n] = node[n]
    BY <1>0, <2>3 DEF TypeOK, Node
  <2>5. up.kind = "start" /\ up.dir = "up" /\ up.node = m.node /\ up.shards = m.shards
    BY <2>2 DEF Start
  <2>6. \A n \in Nodes : Reachable(n)' <=> Reachable(n)
    BY <2>3, <2>4, <2>5 DEF Reachable
  <2>7. Reachable(m.node)
    BY <2>3 DEF OnlyStarts
  <2>8. \A n \in Nodes : Load(n)' \subseteq Load(n)
    <3> SUFFICES ASSUME NEW n \in Nodes, NEW s \in Load(n)' PROVE s \in Load(n)
      OBVIOUS
    <3>0. s \in Shards
      BY DEF Load
    <3>1. CASE n = m.node /\ s \in m.shards
      BY <2>3, <3>0, <3>1 DEF Load, Tells
    <3>2. CASE ~(n = m.node /\ s \in m.shards)
      <4>1. s \in node'[n].shards => s \in node[n].shards
        BY <2>4, <3>2
      <4>2. \A x \in net' : Tells(x, n) /\ s \in x.shards => x \in net
        BY <2>3, <2>5, <3>2 DEF Tells
      <4> QED
        BY <2>3, <4>1, <4>2 DEF Load, Tells
    <3> QED
      BY <3>1, <3>2
  <2>9. ASSUME NEW n \in Nodes, Reachable(n)', NEW s \in node'[n].shards
        PROVE  \/ s \in conn'[n].shards
               \/ \E x \in net' : x.kind = "start" /\ x.dir = "up" /\ x.node = n /\ s \in x.shards
    <3>1. CASE n = m.node /\ s \in m.shards
      BY <2>3, <2>5, <3>1
    <3>2. CASE ~(n = m.node /\ s \in m.shards)
      <4>1. s \in node[n].shards
        BY <2>4, <2>9, <3>2
      <4> QED
        BY <2>3, <2>6, <2>9, <4>1 DEF OnlyStarts
    <3> QED
      BY <3>1, <3>2
  <2>10. ASSUME NEW x \in net'
         PROVE  /\ x.kind \in {"start", "identify"}
                /\ x.kind = "identify" => node'[x.node].link /\ x.shards = node'[x.node].shards
                /\ x.kind = "start" /\ x.dir = "down" => Reachable(x.node)'
                /\ x.kind = "start" /\ x.dir = "up" => x.shards \subseteq node'[x.node].shards
    <3>1. CASE x = up
      BY <2>4, <2>5, <3>1
    <3>2. CASE x \in net
      <4>1. x.node = m.node => x.kind # "identify"
        BY <2>7, <3>2 DEF Reachable
      <4>2. node[x.node].shards \subseteq node'[x.node].shards /\ node'[x.node].link = node[x.node].link
        BY <1>0, <2>4, <3>2
      <4>3. x.kind = "identify" => node'[x.node].shards = node[x.node].shards
        BY <1>0, <2>4, <3>2, <4>1
      <4> QED
        BY <1>0, <2>6, <3>2, <4>2, <4>3 DEF OnlyStarts
    <3> QED
      BY <2>3, <3>1, <3>2
  <2> QED
    BY <2>8, <2>9, <2>10 DEF OnlyStarts
<1>5. ASSUME NEW n \in Nodes, NEW s \in Shards, GatewayOpens(n, s) PROVE Goal
  BY <1>5 DEF GatewayOpens, OnlyStarts, Load, Tells, Reachable
<1>6. ASSUME NEW n \in Nodes, NoticeDrop(n) PROVE Goal
  <2>1. UNCHANGED <<node, net>> /\ conn' = [conn EXCEPT ![n].up = FALSE]
    BY <1>6 DEF NoticeDrop
  <2>2. \A x \in Nodes : conn'[x].shards = conn[x].shards
    BY <2>1 DEF TypeOK, Conn
  <2> QED
    BY <2>1, <2>2 DEF OnlyStarts, Load, Tells, Reachable
<1>7. ASSUME NEW n \in Nodes, Reconnect(n) PROVE Goal
  <2>1. PICK id : id = Identify(n, node[n].shards)
    OBVIOUS
  <2>2. /\ ~node[n].link /\ UNCHANGED conn /\ net' = net \cup {id}
        /\ node' = [node EXCEPT ![n].link = TRUE]
    BY <1>7, <2>1 DEF Reconnect
  <2>3. id.kind = "identify" /\ id.node = n /\ id.shards = node[n].shards /\ id.dir = "up"
    BY <2>1 DEF Identify
  <2>4. /\ \A x \in Nodes : node'[x].shards = node[x].shards /\ (node[x].link => node'[x].link)
        /\ node'[n].link /\ \A x \in Nodes \ {n} : node'[x] = node[x]
    BY <2>2 DEF TypeOK, Node
  <2>5. ~Reachable(n)' /\ ~Reachable(n) /\ \A x \in Nodes \ {n} : Reachable(x)' <=> Reachable(x)
    BY <2>2, <2>3, <2>4 DEF Reachable
  <2>6. \A x \in Nodes : Load(x)' \subseteq Load(x)
    BY <2>2, <2>3, <2>4 DEF Load, Tells
  <2>7. ASSUME NEW x \in net'
        PROVE  /\ x.kind \in {"start", "identify"}
               /\ x.kind = "identify" => node'[x.node].link /\ x.shards = node'[x.node].shards
               /\ x.kind = "start" /\ x.dir = "down" => Reachable(x.node)'
               /\ x.kind = "start" /\ x.dir = "up" => x.shards \subseteq node'[x.node].shards
    BY <1>0, <2>2, <2>3, <2>4, <2>5 DEF OnlyStarts
  <2>8. ASSUME NEW x \in Nodes, Reachable(x)', NEW s \in node'[x].shards
        PROVE  \/ s \in conn'[x].shards
               \/ \E y \in net' : y.kind = "start" /\ y.dir = "up" /\ y.node = x /\ s \in y.shards
    BY <2>2, <2>4, <2>5, <2>8 DEF OnlyStarts
  <2> QED
    BY <2>6, <2>7, <2>8 DEF OnlyStarts
<1>8. ASSUME NEW n \in Nodes, Drop(n) \/ Die(n) PROVE Goal
  <2>1. /\ UNCHANGED conn /\ net' \subseteq net
        /\ \A m \in net : m.node # n => m \in net'
        /\ \A m \in net' : m.node = n => m.dir = "up" /\ m.kind # "identify"
    BY <1>8 DEF Drop, Die, Kill
  <2>2. \A x \in Nodes : node'[x].shards = node[x].shards /\ (x # n => node'[x].link = node[x].link) /\ ~node'[n].link
    <3>1. CASE Drop(n)
      BY <3>1 DEF Drop, TypeOK, Node
    <3>2. CASE Die(n)
      BY <3>2 DEF Die, Kill, TypeOK, Node
    <3> QED
      BY <1>8, <3>1, <3>2
  <2>3. \A x \in Nodes : Reachable(x)' => x # n /\ Reachable(x)
    BY <2>1, <2>2 DEF Reachable
  <2>4. \A x \in Nodes \ {n} : Reachable(x) => Reachable(x)'
    BY <2>1, <2>2 DEF Reachable
  <2>5. \A m \in net' : m.kind = "start" /\ m.dir = "down" => Reachable(m.node)'
    BY <1>0, <2>1, <2>4 DEF OnlyStarts
  <2>6. \A m \in net' : m.kind = "identify" => node'[m.node].link
    BY <1>0, <2>1, <2>2 DEF OnlyStarts
  <2> QED
    BY <1>0, <2>1, <2>2, <2>3, <2>5, <2>6, StartsStay
<1>9. CASE Restart
  <2>1. /\ conn' = [n \in Nodes |-> NoConn] /\ node' = [n \in Nodes |-> [node[n] EXCEPT !.link = FALSE]]
        /\ net' = {m \in net : m.dir = "up" /\ m.kind # "identify"}
    BY <1>9 DEF Restart, LoseOrchestrator
  <2>2. \A n \in Nodes : conn'[n].shards = {} /\ ~node'[n].link /\ node'[n].shards = node[n].shards
    <3>1. NoConn.shards = {}
      BY DEF NoConn, NewConn
    <3> QED
      BY <2>1, <3>1 DEF TypeOK, Node
  <2>3. \A n \in Nodes : ~Reachable(n)' /\ Load(n)' \subseteq Load(n)
    BY <2>1, <2>2 DEF Reachable, Load, Tells
  <2>4. \A m \in net' : m \in net /\ m.dir = "up" /\ m.kind = "start"
    BY <1>0, <2>1
  <2>5. \A m \in net' : m.shards \subseteq node'[m.node].shards
    BY <1>0, <2>2, <2>4 DEF OnlyStarts
  <2> QED
    BY <2>3, <2>4, <2>5 DEF OnlyStarts
<1>10. ASSUME NEW m \in net, Lose(m) PROVE Goal
  <2>1. m.dir = "up" /\ m.kind # "identify" /\ ~Reachable(m.node) /\ net' = net \ {m} /\ UNCHANGED <<conn, node>>
    BY <1>10 DEF Lose
  <2>2. \A n : Reachable(n)' <=> Reachable(n)
    BY <2>1 DEF Reachable
  <2>3. \A x \in net' : x.kind = "start" /\ x.dir = "down" => Reachable(x.node)'
    BY <2>1, <2>2 DEF OnlyStarts
  <2> QED
    BY <1>0, <2>1, <2>2, <2>3, StartsStay DEF OnlyStarts
<1>11. CASE UNCHANGED vars
  BY <1>11 DEF vars, OnlyStarts, Load, Tells, Reachable
<1> QED
  BY <1>1, <1>2, <1>3, <1>4, <1>5, <1>6, <1>7, <1>8, <1>9, <1>10, <1>11, Zenon
     DEF Next, Step, Recovery, Failure

\* Numbers divided by d with the same result k lie together.
LEMMA DivBounds ==
  ASSUME NEW a \in Nat, NEW d \in Nat \ {0}, NEW k, k = a \div d
  PROVE  k \in Nat /\ d * k <= a /\ a <= d * k + d - 1
<1>1. k \in Int
  OBVIOUS
<1>2. a = d * (a \div d) + (a % d) /\ a % d \in 0 .. d - 1
  OBVIOUS
<1>3. k >= 0
  BY <1>1, <1>2
<1> QED
  BY <1>1, <1>2, <1>3

LEMMA TimesMonotone ==
  ASSUME NEW d \in Nat, NEW x \in Int, NEW y \in Int, x <= y
  PROVE  d * x <= d * y
<1>1. d * (y - x) >= 0
  OBVIOUS
<1>2. d * (y - x) = d * y - d * x
  OBVIOUS
<1> QED
  BY <1>1, <1>2

\* A slot has as many shards as its buckets have.
LEMMA SlotSize ==
  ASSUME ShardBucketSize > 1, BucketsPerNode > 0, NEW X \in SUBSET Shards,
         \A r, s \in X : Slot(r) = Slot(s)
  PROVE  Cardinality(X) <= ShardBucketSize * BucketsPerNode
<1>1. CASE X = {}
  BY <1>1, FS_EmptySet, MonitorAssumption
<1>2. CASE X # {}
  <2>1. PICK x : x \in X
    BY <1>2
  <2>2. PICK b, S, P : b = Slot(x) /\ S = ShardBucketSize /\ P = BucketsPerNode
    OBVIOUS
  <2>3. S \in Nat \ {0} /\ P \in Nat \ {0}
    BY <2>2, MonitorAssumption
  <2>4. \A s \in X : s \in Nat /\ b = (s \div S) \div P
    BY <2>1, <2>2, <2>3, ShardsAssumption DEF Slot, Bucket
  <2>5. ASSUME NEW s \in X PROVE b \in Nat /\ S * (P * b) <= s /\ s <= S * (P * b) + S * P - 1
    <3>1. PICK k : k = s \div S
      OBVIOUS
    <3>2. k \in Nat /\ S * k <= s /\ s <= S * k + S - 1
      BY <2>3, <2>4, <3>1, DivBounds
    <3>3. b \in Nat /\ P * b <= k /\ k <= P * b + P - 1
      BY <2>3, <2>4, <3>1, <3>2, DivBounds
    <3>4. PICK c : c = P * b
      OBVIOUS
    <3>5. c \in Int /\ c <= k /\ k <= c + P - 1
      BY <2>3, <3>3, <3>4
    <3>6. S * c <= S * k /\ S * k <= S * (c + P - 1)
      BY <2>3, <3>2, <3>5, TimesMonotone
    <3>7. S * (c + P - 1) = S * c + S * P - S
      BY <2>3, <3>5
    <3>8. S * c \in Int /\ S * P \in Int /\ S * k \in Int
      BY <2>3, <3>2, <3>5
    <3>9. S * c <= s /\ s <= S * c + S * P - 1
      BY <2>3, <2>4, <3>2, <3>6, <3>7, <3>8
    <3> QED
      BY <3>3, <3>4, <3>9
  <2>6. PICK lo : lo = S * (P * b)
    OBVIOUS
  <2>7. lo \in Int /\ S * P \in Nat \ {0}
    <3>1. b \in Nat
      BY <2>1, <2>5
    <3> QED
      BY <2>3, <2>6, <3>1
  <2>8. X \subseteq lo .. (lo + S * P - 1)
    BY <2>4, <2>5, <2>6, <2>7
  <2>9. PICK size, hi : size = S * P /\ hi = lo + S * P - 1
    OBVIOUS
  <2>10. lo \in Int /\ size \in Nat \ {0} /\ hi = lo + size - 1
    BY <2>7, <2>9
  <2>11. IsFiniteSet(lo .. hi) /\ Cardinality(lo .. hi) = size
    <3>1. hi \in Int /\ ~(lo > hi) /\ hi - lo + 1 = size
      BY <2>10
    <3>2. /\ IsFiniteSet(lo .. hi)
          /\ Cardinality(lo .. hi) = IF lo > hi THEN 0 ELSE hi - lo + 1
      BY <2>10, <3>1, FS_Interval
    <3> QED
      BY <3>1, <3>2
  <2>12. Cardinality(X) <= Cardinality(lo .. hi)
    BY <2>8, <2>9, <2>11, FS_Subset
  <2> QED
    BY <2>2, <2>9, <2>11, <2>12
<1> QED
  BY <1>1, <1>2

\* A bucket of one is one shard at the most.
LEMMA BucketOfOne ==
  ASSUME ShardBucketSize = 1, NEW b, NEW missing \in SUBSET Shards,
         NEW r \in FirstBucket(b, missing), NEW s \in FirstBucket(b, missing)
  PROVE  r = s
<1> DEFINE all == {x \in missing : Slot(x) = b}
           Before(y) == {x \in all : x < y}
<1>1. \A y \in FirstBucket(b, missing) : y \in all /\ Cardinality(Before(y)) < 1
  BY MonitorAssumption DEF FirstBucket
<1>2. \A x, y \in FirstBucket(b, missing) : ~(x < y)
  <2> SUFFICES ASSUME NEW x \in FirstBucket(b, missing), NEW y \in FirstBucket(b, missing), x < y PROVE FALSE
    OBVIOUS
  <2>1. x \in Before(y)
    BY <1>1
  <2>2. IsFiniteSet(Before(y))
    <3>1. Before(y) \in SUBSET Shards /\ IsFiniteSet(Shards)
      BY MonitorAssumption
    <3> QED
      BY <3>1, FS_Subset
  <2>3. Cardinality(Before(y)) \in Nat /\ Cardinality(Before(y)) # 0
    BY <2>1, <2>2, FS_CardinalityType, FS_EmptySet
  <2> QED
    BY <1>1, <2>3
<1>3. r \in Nat /\ s \in Nat
  BY <1>1, ShardsAssumption
<1> QED
  BY <1>2, <1>3

LEMMA LoadFinite == \A n \in Nodes : IsFiniteSet(Load(n)) /\ Cardinality(Load(n)) \in Nat
<1> SUFFICES ASSUME NEW n \in Nodes PROVE IsFiniteSet(Load(n)) /\ Cardinality(Load(n)) \in Nat
  OBVIOUS
<1>1. Load(n) \in SUBSET Shards
  BY DEF Load
<1> QED
  BY <1>1, MonitorAssumption, FS_Subset, FS_CardinalityType

LEMMA InitMonitorInv == MInit => MonitorInv
<1> SUFFICES ASSUME MInit PROVE MonitorInv
  OBVIOUS
<1>1. TypeOK
  BY InitTyping DEF MInit
<1>2. PICK at \in Placements :
        /\ conn = [n \in Nodes |-> IF n \in Newcomers THEN NoConn
                                   ELSE NewConn({s \in Shards : at[s] = n})]
        /\ node = [n \in Nodes |->
             [alive |-> TRUE, link |-> n \notin Newcomers,
              shards |-> {s \in Shards : at[s] = n},
              mode |-> "none", shard |-> 0, session |-> 0, processed |-> 0,
              total |-> 0, op |-> 0, own |-> 0]]
  BY DEF MInit, Init
<1>3. net = {}
  BY Zenon DEF MInit, Init
<1> DEFINE On(n) == {s \in Shards : at[s] = n}
<1>4. \A n \in Nodes : node[n].shards = On(n)
  BY <1>2
<1>5. \A n \in Nodes : conn[n].shards = IF n \in Newcomers THEN {} ELSE On(n)
  <2>1. NoConn.shards = {} /\ \A S : NewConn(S).shards = S
    BY DEF NoConn, NewConn
  <2> QED
    BY <1>2, <2>1
<1>6. \A n \in Newcomers : On(n) = {}
  BY <1>2, ShardsAssumption
<1> HIDE DEF On
<1>7. \A n \in Nodes : conn[n].shards = node[n].shards
  BY <1>4, <1>5, <1>6
<1>8. OnlyStarts
  BY <1>3, <1>7 DEF OnlyStarts
<1>9. \A n \in Nodes : Load(n) = On(n)
  <2>1. \A n \in Nodes : On(n) \subseteq Shards
    BY DEF On
  <2> QED
    BY <1>3, <1>4, <1>7, <2>1 DEF Load
<1>10. ASSUME BeginsApart PROVE LoadsApart
  BY <1>9, <1>10 DEF BeginsApart, LoadsApart, On
<1>11. ASSUME BeginsSmall PROVE LoadsFit
  BY <1>9, <1>11 DEF BeginsSmall, LoadsFit, On
<1> QED
  BY <1>1, <1>8, <1>10, <1>11 DEF MonitorInv

\* A bucket is started on a node with room, whose shards are of its slot.
LEMMA BucketLoads ==
  ASSUME TypeOK, OnlyStarts, StartBucket(SeenRunning)
  PROVE  /\ OnlyStarts'
         /\ LoadsApart => LoadsApart'
         /\ BucketsFit /\ LoadsApart /\ LoadsFit => LoadsFit'
<1>0. PICK n \in Nodes : \E b : \E S \in SUBSET Missing(SeenRunning) :
        /\ b \in SlotsFor(n, Missing(SeenRunning)) /\ S = FirstBucket(b, Missing(SeenRunning))
        /\ HasRoom(n) /\ StartShards(n, S, 0)
        /\ hasty' = IF Unanswered(n) THEN hasty \cup {n} ELSE hasty
  BY BucketStarts
<1>1. PICK b : \E S \in SUBSET Missing(SeenRunning) :
        /\ b \in SlotsFor(n, Missing(SeenRunning)) /\ S = FirstBucket(b, Missing(SeenRunning))
        /\ HasRoom(n) /\ StartShards(n, S, 0)
        /\ hasty' = IF Unanswered(n) THEN hasty \cup {n} ELSE hasty
  BY <1>0
<1>2. PICK S \in SUBSET Shards :
        /\ b \in SlotsFor(n, Missing(SeenRunning)) /\ S = FirstBucket(b, Missing(SeenRunning))
        /\ HasRoom(n) /\ StartShards(n, S, 0)
        /\ hasty' = IF Unanswered(n) THEN hasty \cup {n} ELSE hasty
  BY <1>1, MissingShards
<1>3. UNCHANGED <<conn, node>> /\ net' = net \cup Deliverable({Start("down", n, 0, S)})
  BY <1>2 DEF StartShards
<1>4. hasty \subseteq hasty' /\ (n \notin hasty' => ~Unanswered(n))
  BY <1>2
<1>5. PICK m : m = Start("down", n, 0, S)
  OBVIOUS
<1>6. m.kind = "start" /\ m.dir = "down" /\ m.node = n /\ m.shards = S
  BY <1>5 DEF Start
<1>7. CASE ~Reachable(n)
  <2>1. net' = net
    BY <1>3, <1>5, <1>6, <1>7 DEF Deliverable
  <2>2. OnlyStarts'
    <3>1. \A x : Reachable(x)' <=> Reachable(x)
      BY <1>3, <2>1 DEF Reachable
    <3>2. node' = node /\ conn' = conn /\ \A x \in net' : x \in net
      BY <1>3, <2>1
    <3>3. \A x \in net' :
            /\ x.kind \in {"start", "identify"}
            /\ x.kind = "identify" => node[x.node].link /\ x.shards = node[x.node].shards
            /\ x.kind = "start" /\ x.dir = "down" => Reachable(x.node)
            /\ x.kind = "start" /\ x.dir = "up" => x.shards \subseteq node[x.node].shards
      BY <3>2 DEF OnlyStarts
    <3>4. \A x \in Nodes : Reachable(x) =>
            \A s \in node[x].shards :
              \/ s \in conn[x].shards
              \/ \E y \in net : y.kind = "start" /\ y.dir = "up" /\ y.node = x /\ s \in y.shards
      BY DEF OnlyStarts
    <3> QED
      BY <2>1, <3>1, <3>2, <3>3, <3>4 DEF OnlyStarts
  <2>3. \A x \in Nodes : Load(x)' = Load(x)
    BY <1>3, <2>1 DEF Load, Tells
  <2>4. LoadsApart => LoadsApart'
    BY <1>4, <2>3 DEF LoadsApart
  <2>5. LoadsFit => LoadsFit'
    BY <1>4, <2>3 DEF LoadsFit
  <2> QED
    BY <2>2, <2>4, <2>5
<1>8. CASE Reachable(n)
  <2>1. net' = net \cup {m}
    BY <1>3, <1>5, <1>6, <1>8 DEF Deliverable
  <2>2. \A x : Reachable(x)' <=> Reachable(x)
    BY <1>3, <1>6, <2>1 DEF Reachable
  <2>3. OnlyStarts'
    BY <1>3, <1>6, <1>8, <2>1, <2>2 DEF OnlyStarts
  <2>4. \A x \in Nodes \ {n} : Load(x)' = Load(x)
    BY <1>3, <1>6, <2>1 DEF Load, Tells
  <2>a. conn[n].shards \in SUBSET Shards
    BY DEF TypeOK, Conn
  <2>8. ASSUME n \notin hasty' PROVE Load(n)' = conn[n].shards \cup S
    <3>1. \A x \in net : ~Tells(x, n)
      BY <1>4, <1>8, <2>8 DEF Unanswered, Starts, Tells, Reachable
    <3>2. \A s \in node[n].shards : s \in conn[n].shards
      BY <1>4, <1>8, <2>8 DEF OnlyStarts, Unanswered, Starts
    <3> QED
      BY <1>3, <1>6, <2>1, <2>a, <3>1, <3>2 DEF Load, Tells
  <2>9. \A s \in conn[n].shards \cup S : Slot(s) = b
    BY <1>2 DEF SlotsFor, FirstBucket
  <2>10. ASSUME LoadsApart PROVE LoadsApart'
    <3>1. \A x \in Nodes \ hasty' : \A r, s \in Load(x)' : Slot(r) = Slot(s)
      BY <1>4, <2>4, <2>8, <2>9, <2>10 DEF LoadsApart
    <3> QED
      BY <3>1 DEF LoadsApart
  <2>11. ASSUME BucketsFit, LoadsFit PROVE LoadsFit'
    <3>1. Cardinality(conn[n].shards \cup S) <= MaxShardsPerNode
      <4>1. CASE ShardBucketSize > 1
        <5>1. BucketsPerNode > 0
          BY <2>11, MonitorAssumption DEF BucketsFit
        <5>2. conn[n].shards \cup S \in SUBSET Shards /\ \A r, s \in conn[n].shards \cup S : Slot(r) = Slot(s)
          BY <2>a, <2>9
        <5> QED
          BY <2>11, <4>1, <5>1, <5>2, SlotSize DEF BucketsFit
      <4>2. CASE ShardBucketSize = 1
        <5>1. \A r, s \in S : r = s
          BY <1>2, <4>2, BucketOfOne, MissingShards
        <5>2. IsFiniteSet(conn[n].shards) /\ Cardinality(conn[n].shards) \in Nat
          BY <2>a, MonitorAssumption, FS_Subset, FS_CardinalityType
        <5>3. Cardinality(conn[n].shards) < MaxShardsPerNode
          BY <1>2 DEF HasRoom
        <5>4. CASE S \subseteq conn[n].shards
          <6>1. conn[n].shards \cup S = conn[n].shards
            BY <5>4
          <6> QED
            BY <5>2, <5>3, <6>1, MonitorAssumption
        <5>5. CASE \E s : s \in S \ conn[n].shards
          <6>1. PICK s : s \in S \ conn[n].shards
            BY <5>5
          <6>2. conn[n].shards \cup S = conn[n].shards \cup {s}
            BY <5>1, <6>1
          <6>3. Cardinality(conn[n].shards \cup {s}) = Cardinality(conn[n].shards) + 1
            BY <5>2, <6>1, FS_AddElement
          <6> QED
            BY <5>2, <5>3, <6>2, <6>3, MonitorAssumption
        <5> QED
          BY <5>4, <5>5
      <4> QED
        BY <2>11, <4>1, <4>2, MonitorAssumption DEF BucketsFit
    <3>2. \A x \in Nodes \ hasty' : Cardinality(Load(x)') <= MaxShardsPerNode
      BY <1>4, <2>4, <2>8, <2>11, <3>1 DEF LoadsFit
    <3> QED
      BY <3>2 DEF LoadsFit
  <2> QED
    BY <2>3, <2>10, <2>11
<1> QED
  BY <1>7, <1>8

LEMMA MonitorStep == MonitorInv /\ [MNext]_mvars => MonitorInv'
<1> SUFFICES ASSUME MonitorInv, [MNext]_mvars PROVE MonitorInv'
  OBVIOUS
<1>1. TypeOK /\ TypeOK'
  BY MonitorTypingStep DEF MonitorInv
<1>2. ASSUME ops' = 0
      PROVE  /\ OnlyStarts'
             /\ BeginsApart => LoadsApart'
             /\ BeginsApart /\ BeginsSmall /\ BucketsFit => LoadsFit'
  <2>1. CASE StartBucket(SeenRunning)
    <3>1. ops = 0
      BY <1>2, <2>1, BucketStarts
    <3> QED
      BY <1>1, <2>1, <3>1, BucketLoads DEF MonitorInv
  <2>2. CASE [Next]_vars /\ ~StartBucket(SeenRunning)
    <3>1. ops = 0
      <4>1. ops' = ops \/ ops' = ops + 1
        BY <2>2, OpsGrow
      <4> QED
        BY <1>1, <1>2, <4>1 DEF TypeOK
    <3>2. OnlyStarts' /\ \A n \in Nodes : Load(n)' \subseteq Load(n)
      BY <1>1, <1>2, <2>2, <3>1, NextStarts DEF MonitorInv
    <3>a. hasty' = hasty
      BY <2>2, Zenon DEF MNext, Tick, Cools, Looks, LaunchNewNode, MigrateShard, MProtocolStep, MRecovery,
         MDisturbance, Forget, Quiet, mvars
    <3>3. ASSUME LoadsApart PROVE LoadsApart'
      <4>1. \A n \in Nodes \ hasty : \A r, s \in Load(n)' : Slot(r) = Slot(s)
        BY <3>2, <3>3 DEF LoadsApart
      <4> QED
        BY <3>a, <4>1 DEF LoadsApart
    <3>4. ASSUME LoadsFit PROVE LoadsFit'
      <4>1. ASSUME NEW n \in Nodes \ hasty PROVE Cardinality(Load(n)') <= MaxShardsPerNode
        <5>1. PICK old, new : old = Load(n) /\ new = Load(n)'
          OBVIOUS
        <5>2. IsFiniteSet(old) /\ Cardinality(old) \in Nat /\ new \subseteq old
          BY <3>2, <5>1, LoadFinite
        <5>3. Cardinality(new) <= Cardinality(old) /\ Cardinality(new) \in Nat
          BY <5>2, FS_Subset, FS_CardinalityType
        <5> QED
          BY <3>4, <5>1, <5>2, <5>3, MonitorAssumption DEF LoadsFit
      <4> QED
        BY <3>a, <4>1 DEF LoadsFit
    <3> QED
      BY <3>1, <3>2, <3>3, <3>4 DEF MonitorInv
  <2> QED
    BY <2>1, <2>2, MonitorSteps
<1> QED
  BY <1>1, <1>2 DEF MonitorInv

LEMMA Monitored == MSpec => []MonitorInv
BY InitMonitorInv, MonitorStep, PTL DEF MSpec

(* Where no shard is migrated and no node began with shards of two slots, the
   monitor (tick) never puts shards of different slots on one node, whatever
   connections and processes are lost, unless it gave the node a second bucket
   before the first was answered for: what a node has is known to the
   orchestrator, or is about to be told by the node.                         *)
THEOREM MonitorKeepsSlotsApart == ASSUME BeginsApart PROVE MSpec => []SlotsAreApart
<1>1. MonitorInv => SlotsAreApart
  <2> SUFFICES ASSUME MonitorInv, ops = 0, NEW n \in Nodes \ hasty, NEW r \in Shards, NEW s \in Shards,
                      {r, s} \subseteq conn[n].shards
               PROVE  Slot(r) = Slot(s)
    BY DEF SlotsAreApart
  <2>1. r \in Load(n) /\ s \in Load(n)
    BY DEF Load
  <2> QED
    BY <2>1 DEF MonitorInv, LoadsApart
<1> QED
  BY <1>1, Monitored, PTL

(* With the sizes that main sets, and no node that begins with more, the monitor
   never puts more than MaxShardsPerNode shards on a node, though it looks only
   at what a node has before it starts a bucket there.                       *)
THEOREM MonitorOverfillsNoNode ==
  ASSUME BeginsApart, BeginsSmall, BucketsFit
  PROVE  MSpec => []NoNodeIsOverfull
<1>1. MonitorInv => NoNodeIsOverfull
  <2> SUFFICES ASSUME MonitorInv, ops = 0, NEW n \in Nodes \ hasty
               PROVE  Cardinality(conn[n].shards) <= MaxShardsPerNode
    BY DEF NoNodeIsOverfull
  <2>1. conn[n].shards \in SUBSET Load(n)
    BY DEF Load, MonitorInv, TypeOK, Conn
  <2>2. IsFiniteSet(Load(n)) /\ Cardinality(Load(n)) \in Nat /\ Cardinality(Load(n)) <= MaxShardsPerNode
    BY LoadFinite DEF MonitorInv, LoadsFit
  <2>3. Cardinality(conn[n].shards) <= Cardinality(Load(n)) /\ Cardinality(conn[n].shards) \in Nat
    BY <2>1, <2>2, FS_Subset, FS_CardinalityType
  <2> QED
    BY <2>2, <2>3, MonitorAssumption
<1> QED
  BY <1>1, Monitored, PTL
-----------------------------------------------------------------------------
(* FullMigration.  Types first: the goroutine of a full migration keeps the  *)
(* two nodes it works on, whatever is replaced or lost under it.             *)

\* A migration towards a connection that has not identified yet.
LEMMA EarlyTyping ==
  ASSUME TypeOK, NEW from \in Nodes, NEW to \in Nodes, job \in Job,
         MigrateToUnidentified(from, to)
  PROVE  TypeOK' /\ job' \in Job /\ job'.from = from /\ job'.to = to
<1>1. PICK m \in net, s \in conn[from].shards :
        /\ m.kind = "identify" /\ m.node = to /\ node[to].link
        /\ conn' = [conn EXCEPT
             ![from] = [@ EXCEPT !.mode = "from", !.other = NoNode, !.shard = s],
             ![to]   = [Identified(m) EXCEPT !.mode = "to", !.other = from, !.shard = s]]
        /\ net' = (net \ {m}) \cup Deliverable({Prepare("down", from, ops', s, TRUE, 0)})
        /\ job' = [NoJob EXCEPT !.at = "gone", !.from = from, !.to = to, !.shard = s,
                     !.todo = job.todo \ {from}, !.ignore = job.ignore,
                     !.left = conn[from].shards \ {s}, !.moved = {s}]
  BY DEF MigrateToUnidentified
<1>2. conn[from] \in Conn /\ conn[from].shards \in SUBSET Shards /\ s \in Shards
  BY DEF TypeOK, Conn
<1>3. ops' \in Ops /\ ops' \in 0 .. MaxOps
  BY BoundsAssumption DEF MigrateToUnidentified, TypeOK, Ops
<1>4. Prepare("down", from, ops', s, TRUE, 0) \in Message
  BY <1>2, <1>3, Written, "down" \in Dirs, 0 \in Nat DEF Dirs
<1>5. net' \subseteq Message
  BY <1>1, <1>4 DEF TypeOK, Deliverable
<1>6. m.shards \in SUBSET Shards
  <2>1. m \in Message
    BY DEF TypeOK
  <2> QED
    BY <1>1, <2>1, Fields
<1>7. Identified(m) \in Conn
  BY <1>6, ConnTypes, <1>2, "none" \in Modes, NoNode \in Nodes \cup {NoNode} DEF Identified, Modes
<1>8. /\ [conn[from] EXCEPT !.mode = "from", !.other = NoNode, !.shard = s] \in Conn
      /\ [Identified(m) EXCEPT !.mode = "to", !.other = from, !.shard = s] \in Conn
  BY <1>2, <1>7, ConnTypes DEF Modes
<1>9. from # to
  BY DEF MigrateToUnidentified
<1>10. conn' \in [Nodes -> Conn]
  BY <1>1, <1>8, <1>9 DEF TypeOK
<1>11. TypeOK'
  BY <1>3, <1>5, <1>10, Zenon DEF MigrateToUnidentified, TypeOK
<1>12. job' \in Job
  <2>1. NoConn \in Conn
    BY ShardsAssumption DEF NoConn, NewConn, Conn, Modes
  <2> QED
    BY <1>1, <1>2, <2>1 DEF Job, NoJob, Phases
<1>13. job'.from = from /\ job'.to = to
  BY <1>1 DEF NoJob
<1> QED
  BY <1>11, <1>12, <1>13

LEMMA ShutdownTyping ==
  ASSUME TypeOK, NEW n \in Nodes, ShutdownNode(n)
  PROVE  TypeOK'
<1>1. ops' \in Ops /\ ops' \in 0 .. MaxOps
  BY BoundsAssumption DEF ShutdownNode, TypeOK, Ops
<1>2. Shutdown(n, ops') \in Message
  BY <1>1, Written, "down" \in Dirs, 0 \in Nat DEF Dirs
<1>3. net' \subseteq Message
  BY <1>2 DEF ShutdownNode, TypeOK, Deliverable
<1> QED
  BY <1>1, <1>3, Zenon DEF ShutdownNode, TypeOK

LEMMA CalmTyping ==
  ASSUME TypeOK, job \in Job, SeesCalm
  PROVE  TypeOK'
<1>2. \A c \in [Nodes -> Conn], n \in Nodes \cup {NoNode} :
        [c EXCEPT ![n].mode = "none"] \in [Nodes -> Conn]
  <2>1. ASSUME NEW c \in [Nodes -> Conn], NEW n \in Nodes
        PROVE  [c EXCEPT ![n].mode = "none"] \in [Nodes -> Conn]
    <3>1. [c[n] EXCEPT !.mode = "none"] \in Conn
      BY DEF Conn, Modes
    <3> QED
      BY <3>1
  <2>2. ASSUME NEW c \in [Nodes -> Conn]
        PROVE  [c EXCEPT ![NoNode].mode = "none"] \in [Nodes -> Conn]
    BY ShardsAssumption
  <2> QED
    BY <2>1, <2>2
<1>3. job.from \in Nodes \cup {NoNode} /\ job.to \in Nodes \cup {NoNode}
  BY DEF Job
<1>4. conn \in [Nodes -> Conn]
  BY DEF TypeOK
<1>5. ResetMode(job.toOld, job.to, conn) \in [Nodes -> Conn]
  BY <1>2, <1>3, <1>4 DEF ResetMode
<1>6. conn' \in [Nodes -> Conn]
  BY <1>2, <1>3, <1>5 DEF ResetMode, SeesCalm
<1> QED
  BY <1>6, Zenon DEF SeesCalm, TypeOK

LEMMA JobTyping ==
  ASSUME TypeOK, JobTyped, JobStep
  PROVE  TypeOK' /\ JobTyped'
<1> USE DEF JobTyped, Working
<1>c. NoConn \in Conn
  BY ShardsAssumption DEF NoConn, NewConn, Conn, Modes
<1>0. NoJob \in Job /\ NoJob.at = "idle"
  BY <1>c DEF Job, NoJob, Phases
<1>a. UNCHANGED vars => TypeOK'
  BY Zenon DEF TypeOK, vars
<1>b. \A n \in Nodes : conn[n].shards \in SUBSET Shards
  BY DEF TypeOK, Conn
<1>1. ASSUME NEW from \in Nodes, NEW to \in Nodes, MigrateFullNode(from, to)
      PROVE  TypeOK' /\ JobTyped'
  <2>1. job' \in Job
    BY <1>c, <1>1, <1>b DEF MigrateFullNode, Job, NoJob, Phases
  <2>2. job'.from = from /\ job'.to = to
    BY <1>1 DEF MigrateFullNode, NoJob
  <2> QED
    BY <1>1, <1>a, <2>1, <2>2 DEF MigrateFullNode
<1>2. ASSUME NEW from \in Nodes, NEW to \in Nodes, MigrateToUnidentified(from, to)
      PROVE  TypeOK' /\ JobTyped'
  BY <1>2, EarlyTyping
<1>3. CASE Return \/ GiveUp
  BY <1>0, <1>3, <1>a DEF Return, GiveUp
<1>4. CASE MigrateNext
  <2>1. PICK s \in job.left : \E from \in Nodes :
          /\ StartShardMigration(from, job.to, s)
          /\ job' = [job EXCEPT !.at = "gone", !.shard = s, !.left = @ \ {s}, !.moved = @ \cup {s}]
    BY <1>4 DEF MigrateNext
  <2>2. s \in Shards
    BY DEF Job
  <2>3. PICK from \in Nodes : StartShardMigration(from, job.to, s)
    BY <2>1
  <2>4. job.to \in Nodes
    BY <1>4 DEF MigrateNext
  <2>5. TypeOK'
    BY <2>2, <2>3, <2>4, MigrationTyping
  <2>6. /\ job' = [job EXCEPT !.at = "gone", !.shard = s, !.left = job.left \ {s},
                           !.moved = job.moved \cup {s}]
        /\ job.from \in Nodes /\ job.to \in Nodes
    BY <1>4, <2>1 DEF MigrateNext
  <2>7. job' \in Job
    BY <2>2, <2>6 DEF Job, Phases
  <2>8. job'.from = job.from /\ job'.to = job.to
    BY <2>6
  <2> QED
    BY <2>5, <2>6, <2>7, <2>8
<1>5. CASE SeesGone \/ SeesThere
  BY <1>5, <1>a DEF SeesGone, SeesThere, Job, Phases
<1>6. CASE SeesCalm
  <2>1. [job.toConn EXCEPT !.mode = "none"] \in Conn
    BY DEF Job, Conn, Modes
  <2>2. JobTyped'
    BY <1>6, <2>1 DEF SeesCalm, Job, Phases
  <2> QED
    BY <1>6, <2>2, CalmTyping
<1>7. CASE Finished
  <2>1. JobTyped'
    BY <1>7 DEF Finished, Job, Phases
  <2> QED
    BY <1>7, <2>1, ShutdownTyping DEF Finished
<1> QED
  BY <1>1, <1>2, <1>3, <1>4, <1>5, <1>6, <1>7 DEF JobStep

LEMMA ReplacedTyping ==
  ASSUME TypeOK, JobTyped, NEW n \in Nodes
  PROVE  /\ Replaced(n) \in Job
         /\ Replaced(n).at = job.at /\ Replaced(n).from = job.from /\ Replaced(n).to = job.to
BY DEF TypeOK, JobTyped, Replaced, Job

LEMMA FullStepTyping == FullTypeOK /\ JobTyped /\ [FNext]_fvars => FullTypeOK' /\ JobTyped'
<1> SUFFICES ASSUME TypeOK, JobTyped, jobs \in 0 .. MaxJobs, [FNext]_fvars
             PROVE  TypeOK' /\ JobTyped' /\ jobs' \in 0 .. MaxJobs
  BY DEF FullTypeOK, JobTyped
<1>0. NoJob \in Job /\ NoJob.at = "idle" /\ NoConn \in Conn
  BY ShardsAssumption DEF Job, NoJob, Phases, NoConn, NewConn, Conn, Modes
<1>1. CASE MigrateAllNodesToNewNodes
  <2>1. jobs' \in 0 .. MaxJobs
    BY <1>1, JobsAssumption DEF MigrateAllNodesToNewNodes
  <2>2. job' \in Job /\ job'.at = "pick"
    BY <1>0, <1>1 DEF MigrateAllNodesToNewNodes, Job, NoJob, Phases
  <2>3. TypeOK'
    BY <1>1, Zenon DEF MigrateAllNodesToNewNodes, TypeOK, vars
  <2> QED
    BY <2>1, <2>2, <2>3 DEF JobTyped, Working
<1>2. CASE JobStep
  <2>1. jobs' = jobs
    BY <1>2, Zenon DEF JobStep, MigrateFullNode, MigrateToUnidentified, Return, MigrateNext, GiveUp,
                SeesGone, SeesThere, SeesCalm, Finished
  <2> QED
    BY <1>2, <2>1, JobTyping
<1>3. CASE ProtocolStep
  <2>1. ASSUME NEW m \in net, HandleIdentify(m), job' = Replaced(m.node) PROVE TypeOK' /\ JobTyped'
    <3>1. m.node \in Nodes
      BY Fields DEF TypeOK
    <3> QED
      BY <2>1, <3>1, OrchestratorTyping, ReplacedTyping DEF JobTyped, Working
  <2>2. ASSUME NEW m \in net, OrchestratorStep(m) \/ NodeStep(m), job' = job PROVE TypeOK' /\ JobTyped'
    BY <2>2, OrchestratorTyping, NodeTyping DEF JobTyped, Working
  <2>3. ASSUME NEW n \in Nodes, NEW s \in Shards, GatewayOpens(n, s), job' = job PROVE TypeOK' /\ JobTyped'
    BY <2>3, GatewayTyping DEF JobTyped, Working
  <2> QED
    BY <1>3, <2>1, <2>2, <2>3 DEF ProtocolStep
<1>4. CASE FRecovery
  BY <1>4, RecoveryTyping DEF FRecovery, JobTyped, Working
<1>5. CASE Disturbance
  <2>1. Failure /\ (job' = job \/ job' = NoJob) /\ jobs' = jobs
    BY <1>5 DEF Disturbance, Failure
  <2> QED
    BY <1>0, <2>1, FailureTyping DEF JobTyped, Working
<1>6. CASE UNCHANGED fvars
  BY <1>6, Zenon DEF fvars, vars, TypeOK, JobTyped, Working
<1> QED
  BY <1>1, <1>2, <1>3, <1>4, <1>5, <1>6 DEF FNext

LEMMA FullInitTyping == FInit => FullTypeOK /\ JobTyped
<1> SUFFICES ASSUME FInit PROVE FullTypeOK /\ JobTyped
  OBVIOUS
<1>1. NoJob \in Job /\ NoJob.at = "idle"
  BY ShardsAssumption DEF Job, NoJob, Phases, NoConn, NewConn, Conn, Modes
<1> QED
  BY <1>1, InitTyping, JobsAssumption DEF FInit, FullTypeOK, JobTyped, Working

(* Every state of a full migration is typed: the goroutine never holds a node
   that does not exist, whatever is replaced or lost under it.               *)
THEOREM FullMigrationTyping == FSpec => []FullTypeOK
<1>1. FInit => FullTypeOK /\ JobTyped
  BY FullInitTyping
<1>2. FullTypeOK /\ JobTyped /\ [FNext]_fvars => FullTypeOK' /\ JobTyped'
  BY FullStepTyping
<1> QED
  BY <1>1, <1>2, PTL DEF FSpec

-----------------------------------------------------------------------------
(* What a full migration does while no connection is lost.  The goroutine    *)
(* moves one shard at a time, so at any moment every shard but that one has  *)
(* a keeper: the node whose gateway is open and whose NodeConn has the shard.*)
(* The shard that is moved is at one of the stages of Moves.                 *)

\* The two nodes of a job are there and are not the same.
LEMMA TwoNodes ==
  ASSUME Typed, FullInv, Working
  PROVE  /\ job.from \in Nodes /\ job.to \in Nodes /\ job.from # job.to
         /\ Reachable(job.from) /\ Reachable(job.to)
         /\ conn[job.from].up /\ conn[job.to].up
         /\ conn[job.from].known /\ conn[job.to].known
         /\ ~Leaving(job.from) /\ ~Leaving(job.to)
<1>1. job.from \in Nodes /\ job.to \in Nodes /\ job.from # job.to
  BY DEF Typed, JobTyped, FullInv, JobInv
<1>2. conn[job.from].known /\ conn[job.to].known
  BY DEF FullInv, JobInv
<1>3. ~Leaving(job.from) /\ ~Leaving(job.to)
  BY <1>1 DEF FullInv, JobInv, NodesInv, Working
<1>4. node[job.from].link /\ node[job.to].link
  BY <1>2, <1>3 DEF Leaving
<1>5. Reachable(job.from) /\ Reachable(job.to)
  BY <1>2, <1>4 DEF Reachable, FullInv, MessagesInv
<1>6. conn[job.from].up /\ conn[job.to].up
  BY <1>1, <1>2, <1>4 DEF FullInv, NodesInv
<1> QED
  BY <1>1, <1>2, <1>3, <1>5, <1>6

LEMMA TheJob ==
  ASSUME Typed, FullInv, Moving
  PROVE  \E f, t, s : IsJob(f, t, s)
BY TwoNodes, ShardsAssumption DEF IsJob, Moving, Working, FullInv, JobInv

\* A handler that takes the shard of the job from one stage to the next.
LEMMA StageKeeps ==
  ASSUME Typed, Typed', FullInv, NEW f, NEW t, NEW s, IsJob(f, t, s),
         Touches(f, t, s), Moves(f, t, s)'
  PROVE  FullInv'
<1> USE DEF IsJob, Touches
<1>0. \A k \in Nodes : conn'[k].shards \subseteq Shards /\ conn[k].shards \subseteq Shards
  BY DEF Typed, FullTypeOK, TypeOK, Conn
<1>1. /\ conn[f].known /\ conn[t].known /\ ~Leaving(f) /\ ~Leaving(t) /\ f # t
  BY TwoNodes DEF Moving, Working
<1>2. \A n \in Nodes : Leaving(n)' => Leaving(n)
  BY DEF Leaving
<1>3. \A n : Reachable(n) /\ n \in Nodes => Reachable(n)'
  BY DEF Reachable
<1>4. (Working' <=> Working) /\ (Moving' <=> Moving)
  BY DEF Working, Moving
<1>5. NodesInv'
  <2> SUFFICES ASSUME NEW n \in Nodes
               PROVE  /\ conn'[n].up => conn'[n].known
                      /\ ~conn'[n].known => conn'[n].shards = {} /\ node'[n].shards = {}
                      /\ conn'[n].known /\ node'[n].link => conn'[n].up
                      /\ node'[n].alive /\ ~node'[n].link => ~conn'[n].known
                      /\ Leaving(n)' => /\ conn'[n].known /\ conn'[n].shards = {}
                                        /\ \A x \in Shards : ~Open(n, x)'
                                        /\ n \notin job.todo /\ (job.at # "idle" => n \in job.ignore)
                                        /\ Working => n # job.from
    BY <1>4 DEF NodesInv
  <2>1. CASE n \in {f, t}
    BY <1>1, <1>2, <2>1 DEF FullInv, NodesInv
  <2>2. CASE n \notin {f, t}
    <3>1. conn'[n].shards = conn[n].shards
      BY <1>0, <2>2
    <3> QED
      BY <1>2, <2>2, <3>1 DEF FullInv, NodesInv
  <2> QED
    BY <2>1, <2>2
<1>6. MessagesInv'
  <2>1. \A q \in net : q.node \in Nodes
    BY Fields DEF Typed, FullTypeOK, TypeOK
  <2>2. ASSUME NEW q \in net' PROVE q.kind = "identify" => ~conn'[q.node].known /\ q.shards = {} /\ node'[q.node].link
    BY <2>1, <2>2 DEF FullInv, MessagesInv
  <2>3. ASSUME NEW q \in net', q.kind # "identify" PROVE Reachable(q.node)'
    <3>1. Reachable(f) /\ Reachable(t)
      BY TwoNodes DEF Moving, Working
    <3>2. q.node \in Nodes /\ Reachable(q.node)
      BY <2>1, <2>3, <3>1 DEF FullInv, MessagesInv
    <3> QED
      BY <1>3, <3>2
  <2>4. ASSUME NEW m1 \in net', NEW m2 \in net', m1.kind = "identify", m2.kind = "identify",
               m1.node = m2.node
        PROVE  m1 = m2
    BY <2>4 DEF FullInv, MessagesInv
  <2> QED
    BY <2>2, <2>3, <2>4 DEF MessagesInv
<1>7. JobInv'
  <2>1. \A x \in conn'[f].shards : x \in conn[f].shards
    BY <1>0, <1>1
  <2>2. \A x \in job.left : x \in conn'[f].shards
    BY <1>0, <1>1 DEF FullInv, JobInv, Moving, Working
  <2>3. job.ignore \subseteq Nodes
    BY DEF Typed, FullTypeOK, Job
  <2> QED
    BY <1>1, <1>4, <2>1, <2>2, <2>3 DEF FullInv, JobInv, Moving, Working
<1>8. ShardsInv'
  <2>1. \A n, x : x \in Shards /\ x # s => (Keeps(n, x)' <=> Keeps(n, x))
    BY DEF Keeps
  <2>2. AllPlaced' <=> AllPlaced
    BY DEF AllPlaced
  <2>3. \A x \in Shards : x # s => Kept(x)'
    BY <2>1, <2>2 DEF FullInv, ShardsInv, Kept
  <2>4. job.moved \subseteq Shards
    BY DEF Typed, FullTypeOK, Job
  <2> QED
    BY <1>4, <2>1, <2>3, <2>4 DEF FullInv, ShardsInv
<1> QED
  BY <1>5, <1>6, <1>7, <1>8 DEF FullInv

\* Which stage the shard is at, from a message on its way.
LEMMA StageOf ==
  ASSUME Typed, FullInv, NEW m \in net, m.kind \notin {"identify", "shutdown"}
  PROVE  /\ Moving /\ m \in Carrying
         /\ m.kind \in {"start", "prepare", "transfer", "user", "allsent"}
         /\ \/ /\ m.kind = "prepare" /\ m.origin /\ m.node = job.from /\ m.shard = job.shard
               /\ Carrying = {m} /\ job.at = "gone"
               /\ \/ Lost(job.from, job.shard)
                  \/ /\ conn[job.from].other = job.to /\ conn[job.to].other = job.from
                     /\ \/ m.dir = "down" /\ Asked(job.from, job.shard)
                        \/ m.dir = "up" /\ GivenUp(job.from, job.shard)
            \/ /\ conn[job.from].other = job.to /\ conn[job.to].other = job.from
               /\ \/ /\ m.kind = "prepare" /\ ~m.origin /\ m.node = job.to /\ m.shard = job.shard
                     /\ Carrying = {m}
                     /\ \/ m.dir = "down" /\ Offered(job.to, job.shard)
                        \/ m.dir = "up" /\ Ready(job.from, job.to, job.shard)
                  \/ /\ m.kind = "transfer" /\ m.dir = "down" /\ m.node = job.from
                     /\ Carrying = {m} /\ Ready(job.from, job.to, job.shard)
                  \/ m.kind \in {"user", "allsent"} /\ Passing(job.from, job.to, job.shard)
                  \/ /\ m.kind = "start" /\ m.dir = "up" /\ m.node = job.to /\ m.shards = {job.shard}
                     /\ Carrying = {m} /\ Resumed(job.to, job.shard)
<1>1. m \in Carrying
  BY DEF Carrying
<1>2. Moving /\ Moves(job.from, job.to, job.shard)
  BY <1>1 DEF FullInv, ShardsInv
<1> DEFINE f == job.from
           t == job.to
           s == job.shard
<1>3. CASE Lost(f, s)
  BY <1>1, <1>2, <1>3 DEF Lost, IsPrepare
<1>4. ASSUME conn[f].other = t, conn[t].other = f
      PROVE  /\ Asked(f, s) => /\ m.kind = "prepare" /\ m.origin /\ m.node = f /\ m.shard = s
                               /\ Carrying = {m} /\ job.at = "gone" /\ m.dir = "down"
             /\ GivenUp(f, s) => /\ m.kind = "prepare" /\ m.origin /\ m.node = f /\ m.shard = s
                                 /\ Carrying = {m} /\ job.at = "gone" /\ m.dir = "up"
             /\ Offered(t, s) => /\ m.kind = "prepare" /\ ~m.origin /\ m.node = t /\ m.shard = s
                                 /\ Carrying = {m} /\ m.dir = "down"
             /\ Ready(f, t, s) => /\ Carrying = {m}
                                  /\ \/ /\ m.kind = "prepare" /\ ~m.origin /\ m.node = t
                                        /\ m.shard = s /\ m.dir = "up"
                                     \/ m.kind = "transfer" /\ m.dir = "down" /\ m.node = f
             /\ Passing(f, t, s) => m.kind \in {"user", "allsent"}
             /\ Resumed(t, s) => /\ m.kind = "start" /\ m.dir = "up" /\ m.node = t /\ m.shards = {s}
                                 /\ Carrying = {m}
             /\ ~SettledIn(t, s)
  <2>1. Asked(f, s) => /\ m.kind = "prepare" /\ m.origin /\ m.node = f /\ m.shard = s
                       /\ Carrying = {m} /\ job.at = "gone" /\ m.dir = "down"
    BY <1>1 DEF Asked, IsPrepare
  <2>2. GivenUp(f, s) => /\ m.kind = "prepare" /\ m.origin /\ m.node = f /\ m.shard = s
                         /\ Carrying = {m} /\ job.at = "gone" /\ m.dir = "up"
    BY <1>1 DEF GivenUp, IsPrepare
  <2>3. Offered(t, s) => /\ m.kind = "prepare" /\ ~m.origin /\ m.node = t /\ m.shard = s
                         /\ Carrying = {m} /\ m.dir = "down"
    BY <1>1 DEF Offered, IsPrepare
  <2>4. Ready(f, t, s) => /\ Carrying = {m}
                          /\ \/ /\ m.kind = "prepare" /\ ~m.origin /\ m.node = t
                                /\ m.shard = s /\ m.dir = "up"
                             \/ m.kind = "transfer" /\ m.dir = "down" /\ m.node = f
    BY <1>1 DEF Ready, IsPrepare
  <2>5. Passing(f, t, s) => m.kind \in {"user", "allsent"}
    BY <1>1 DEF Passing
  <2>6. Resumed(t, s) => /\ m.kind = "start" /\ m.dir = "up" /\ m.node = t /\ m.shards = {s}
                         /\ Carrying = {m}
    BY <1>1 DEF Resumed
  <2>7. ~SettledIn(t, s)
    BY <1>1 DEF SettledIn
  <2> QED
    BY <2>1, <2>2, <2>3, <2>4, <2>5, <2>6, <2>7
<1>5. CASE conn[f].other = t /\ conn[t].other = f /\ ~Lost(f, s)
  BY <1>1, <1>2, <1>4, <1>5, Zenon DEF Moves
<1> QED
  BY <1>1, <1>2, <1>3, <1>5 DEF Moves

\* What is sent to one of the two nodes reaches it.
LEMMA BothReach ==
  ASSUME Typed, FullInv, NEW f, NEW t, NEW s, IsJob(f, t, s)
  PROVE  /\ conn[f].known /\ Reachable(f) /\ f # NoNode
         /\ conn[t].known /\ Reachable(t) /\ t # NoNode
BY TwoNodes, ShardsAssumption DEF IsJob, Moving, Working

LEMMA StartedMoves ==
  ASSUME Typed, Typed', FullInv, NEW m \in net, HandleStarted(m), job' = job
  PROVE  FullInv'
<1>1. m.kind = "start"
  BY DEF HandleStarted, Arrived
<1>2. PICK f, t, s : IsJob(f, t, s)
  BY <1>1, StageOf, TheJob
<1>3. Carrying = {m} /\ m.node = t /\ m.shards = {s} /\ Resumed(t, s)
      /\ conn[f].other = t /\ conn[t].other = f
  BY <1>1, <1>2, StageOf DEF IsJob
<1>4. /\ \A k \in Nodes : /\ conn'[k].known = conn[k].known /\ conn'[k].up = conn[k].up
                          /\ conn'[k].other = conn[k].other
                          /\ conn'[k].shards = IF k = t THEN conn[k].shards \cup {s} ELSE conn[k].shards
      /\ net' = net \ {m} /\ UNCHANGED <<node, gw>>
  <2> PICK c : c = [conn[t] EXCEPT !.shards = conn[t].shards \cup {s},
                                   !.mode = IF conn[t].shard \in {s} THEN "none" ELSE conn[t].mode]
    OBVIOUS
  <2>1. conn \in [Nodes -> Conn] /\ conn[t] \in Conn
    BY <1>2 DEF IsJob, Typed, FullTypeOK, TypeOK
  <2>2. /\ c.known = conn[t].known /\ c.up = conn[t].up /\ c.other = conn[t].other
        /\ c.shards = conn[t].shards \cup {s}
    BY <2>1 DEF Conn
  <2>3. conn' = [conn EXCEPT ![t] = c] /\ net' = net \ {m} /\ UNCHANGED <<node, gw>>
    BY <1>3 DEF HandleStarted
  <2> QED
    BY <1>2, <2>1, <2>2, <2>3
<1>5. Carrying' = {}
  BY <1>3, <1>4 DEF Carrying
<1>6. \A k \in Nodes, x \in Shards : Open(k, x)' <=> Open(k, x)
  BY <1>4 DEF Open
<1>7. Keeps(t, s)'
  <2>1. \A k \in Nodes : (Open(k, s) <=> k = t) /\ s \notin conn[k].shards
    BY <1>3 DEF Resumed
  <2>2. s \in Shards
    BY <1>2 DEF IsJob
  <2>3. \A k \in Nodes : Open(k, s)' <=> k = t
    BY <1>6, <2>1, <2>2
  <2>4. \A k \in Nodes : s \in conn'[k].shards <=> k = t
    BY <1>4, <2>1
  <2> QED
    BY <2>3, <2>4 DEF Keeps
<1>8. Moves(f, t, s)'
  BY <1>2, <1>3, <1>4, <1>5, <1>7 DEF IsJob, Moves, SettledIn
<1>9. Touches(f, t, s)
  BY <1>1, <1>2, <1>4, <1>6 DEF IsJob, Touches
<1> QED
  BY <1>2, <1>8, <1>9, StageKeeps

LEMMA OriginReadyMoves ==
  ASSUME Typed, Typed', FullInv, NEW m \in net, HandleOriginReady(m), job' = job
  PROVE  FullInv'
<1>1. m.kind = "prepare" /\ m.dir = "up" /\ m.origin
  BY DEF HandleOriginReady, Arrived
<1>2. PICK f, t, s : IsJob(f, t, s)
  BY <1>1, StageOf, TheJob
<1>3. Carrying = {m} /\ m.node = f /\ m.shard = s /\ job.at = "gone"
  BY <1>1, <1>2, StageOf DEF IsJob
<1>4. UNCHANGED <<node, gw>> /\ \A k \in Nodes, x \in Shards : Open(k, x)' <=> Open(k, x)
  BY DEF HandleOriginReady, Open
<1>5. CASE Lost(f, s)
  <2>1. conn' = conn /\ net' = net \ {m}
    BY <1>3, <1>5 DEF HandleOriginReady, Forward, OtherKnown, Lost
  <2>2. Carrying' = {}
    BY <1>3, <2>1 DEF Carrying
  <2>3. Moves(f, t, s)'
    BY <1>2, <1>4, <1>5, <2>1, <2>2 DEF Moves, Lost, IsJob
  <2>4. Touches(f, t, s)
    BY <1>1, <1>4, <2>1 DEF Touches
  <2> QED
    BY <1>2, <2>3, <2>4, StageKeeps
<1>6. CASE conn[f].other = t /\ conn[t].other = f /\ GivenUp(f, s)
  <2> PICK m2 : m2 = Prepare("down", t, m.op, s, FALSE, m.session)
    OBVIOUS
  <2>1. IsPrepare(m2, "down", t, s, FALSE) /\ m2.kind = "prepare" /\ m2.node = t
    BY DEF Prepare, IsPrepare
  <2>3. net' = (net \ {m}) \cup {m2}
    <3>1. conn[m.node].other = t /\ conn[t].known /\ t # NoNode /\ Reachable(m2.node)
      BY <1>2, <1>3, <1>6, <2>1, BothReach
    <3> QED
      BY <1>3, <3>1 DEF HandleOriginReady, Forward, OtherKnown, Deliverable
  <2>4. \A k \in Nodes : /\ conn'[k].known = conn[k].known /\ conn'[k].up = conn[k].up
                         /\ conn'[k].other = conn[k].other
                         /\ conn'[k].shards = IF k = f THEN conn[k].shards \ {s} ELSE conn[k].shards
    <3>1. conn \in [Nodes -> Conn] /\ \A k \in Nodes : conn[k] \in Conn
      BY DEF Typed, FullTypeOK, TypeOK
    <3>2. conn' = [conn EXCEPT ![f].shards = conn[f].shards \ {s}]
      BY <1>2, <1>3, <1>6 DEF HandleOriginReady, OtherKnown, WithoutShard, IsJob
    <3> QED
      BY <1>2, <3>1, <3>2 DEF IsJob, Conn
  <2>5. Carrying' = {m2} /\ m2 \in net'
    BY <1>3, <2>1, <2>3 DEF Carrying
  <2>6. Offered(t, s)'
    BY <1>2, <1>3, <1>4, <1>6, <2>1, <2>4, <2>5 DEF Offered, GivenUp, Nowhere, IsJob
  <2>7. Moves(f, t, s)'
    BY <1>2, <1>6, <2>4, <2>6 DEF Moves, IsJob
  <2>8. Touches(f, t, s)
    BY <1>1, <1>2, <1>4, <2>1, <2>3, <2>4 DEF Touches, IsJob
  <2> QED
    BY <1>2, <2>7, <2>8, StageKeeps
<1> QED
  BY <1>1, <1>2, <1>5, <1>6, StageOf DEF IsJob

LEMMA DestReadyMoves ==
  ASSUME Typed, Typed', FullInv, NEW m \in net, HandleDestReady(m), job' = job
  PROVE  FullInv'
<1>1. m.kind = "prepare" /\ m.dir = "up" /\ ~m.origin
  BY DEF HandleDestReady, Arrived
<1>2. PICK f, t, s : IsJob(f, t, s)
  BY <1>1, StageOf, TheJob
<1>3. /\ Carrying = {m} /\ m.node = t /\ m.shard = s /\ Ready(f, t, s)
      /\ conn[f].other = t /\ conn[t].other = f
  BY <1>1, <1>2, StageOf DEF IsJob
<1>4. UNCHANGED <<conn, node, gw>>
  BY DEF HandleDestReady
<1> PICK m2 : m2 = StartMigration(f, m.op, s)
  OBVIOUS
<1>5. m2.kind = "transfer" /\ m2.dir = "down" /\ m2.node = f
  BY DEF StartMigration
<1>6. net' = (net \ {m}) \cup {m2}
  <2>1. conn[m.node].other = f /\ conn[f].known /\ f # NoNode /\ Reachable(m2.node)
    BY <1>2, <1>3, <1>5, BothReach
  <2> QED
    BY <1>3, <2>1 DEF HandleDestReady, Forward, OtherKnown, Deliverable
<1>7. Carrying' = {m2} /\ m2 \in net'
  BY <1>3, <1>5, <1>6 DEF Carrying
<1>8. \A k \in Nodes, x \in Shards : Open(k, x)' <=> Open(k, x)
  BY <1>4 DEF Open
<1>9. Ready(f, t, s)'
  <2>1. Nowhere(s)'
    BY <1>2, <1>3, <1>4, <1>8 DEF Nowhere, Ready, IsJob
  <2> QED
    BY <1>3, <1>4, <1>5, <1>7, <2>1 DEF Ready
<1>10. Moves(f, t, s)'
  BY <1>3, <1>4, <1>9 DEF Moves
<1>11. Touches(f, t, s)
  BY <1>1, <1>4, <1>5, <1>6, <1>8 DEF Touches
<1> QED
  BY <1>2, <1>10, <1>11, StageKeeps

\* One message of the state of the shard is passed on.
LEMMA PassedOn ==
  ASSUME Typed, Typed', FullInv, NEW m \in net, NEW m2, NEW f, NEW t, NEW s,
         IsJob(f, t, s), m.kind \in {"user", "allsent"}, m.dir = "up", Passing(f, t, s),
         conn[f].other = t, conn[t].other = f,
         m2.kind = m.kind, m2.dir = "down", m2.node = t, m2.num = m.num,
         net' = (net \ {m}) \cup {m2}, UNCHANGED <<node, gw, job>>,
         \A k \in Nodes : /\ conn'[k].known = conn[k].known /\ conn'[k].up = conn[k].up
                          /\ conn'[k].shards = conn[k].shards /\ conn'[k].other = conn[k].other
  PROVE  FullInv'
<1>1. \A k \in Nodes, x \in Shards : Open(k, x)' <=> Open(k, x)
  BY DEF Open
<1>2. Nowhere(s)'
  BY <1>1 DEF Nowhere, Passing, IsJob
<1>3. Due' = Due
  BY DEF Due
<1>4. m \in Carrying /\ Carrying' = (Carrying \ {m}) \cup {m2}
  BY DEF Carrying
<1>5. /\ \A q \in Carrying' : /\ q.kind \in {"user", "allsent"}
                              /\ q.dir = "up" => q.node = f
                              /\ q.dir = "down" => q.node = t
      /\ \A q1, q2 \in Carrying' : q1.kind = "user" /\ q2.kind = "user" /\ q1.num = q2.num => q1 = q2
      /\ \A q1, q2 \in Carrying' : q1.kind = "allsent" /\ q2.kind = "allsent" => q1 = q2
  BY <1>4 DEF Passing
<1>6. /\ \A q \in Carrying' : q.kind = "allsent" =>
           node[t].total = -1 /\ q.num = node[t].processed + Cardinality(Due)
      /\ (\A q \in Carrying' : q.kind # "allsent") =>
           node[t].total = node[t].processed + Cardinality(Due)
  BY <1>4 DEF Passing
<1>7. Passing(f, t, s)'
  BY <1>2, <1>3, <1>5, <1>6 DEF Passing
<1>8. Moves(f, t, s)'
  BY <1>7 DEF Moves, IsJob
<1>9. Touches(f, t, s)
  BY <1>1 DEF Touches, IsJob
<1> QED
  BY <1>8, <1>9, StageKeeps

LEMMA ForwardMoves ==
  ASSUME Typed, Typed', FullInv, NEW m \in net, HandleAllSent(m) \/ HandleUserEvt(m), job' = job
  PROVE  FullInv'
<1>1. m.kind \in {"user", "allsent"} /\ m.dir = "up"
  BY DEF HandleAllSent, HandleUserEvt, Arrived
<1>2. PICK f, t, s : IsJob(f, t, s)
  BY <1>1, StageOf, TheJob
<1>3. /\ m \in Carrying /\ Passing(f, t, s) /\ conn[f].other = t /\ conn[t].other = f
  BY <1>1, <1>2, StageOf DEF IsJob
<1>4. m.node = f
  BY <1>1, <1>3 DEF Passing
<1>5. conn[f].other = t /\ conn[t].known /\ t # NoNode /\ Reachable(t)
  BY <1>2, <1>3, BothReach
<1>6. CASE HandleAllSent(m)
  <2> PICK m2 : m2 = AllSent("down", t, m.op, m.num)
    OBVIOUS
  <2>1. m2.kind = "allsent" /\ m2.dir = "down" /\ m2.node = t /\ m2.num = m.num /\ m.kind = "allsent"
    BY <1>6 DEF AllSent, HandleAllSent, Arrived
  <2>2. net' = (net \ {m}) \cup {m2} /\ UNCHANGED <<node, gw>>
    BY <1>4, <1>5, <1>6, <2>1 DEF HandleAllSent, Forward, OtherKnown, Deliverable
  <2>3. \A k \in Nodes : /\ conn'[k].known = conn[k].known /\ conn'[k].up = conn[k].up
                         /\ conn'[k].shards = conn[k].shards /\ conn'[k].other = conn[k].other
    <3>1. conn \in [Nodes -> Conn] /\ \A k \in Nodes : conn[k] \in Conn
      BY DEF Typed, FullTypeOK, TypeOK
    <3>2. conn' = [conn EXCEPT ![f].mode = "none"]
      BY <1>4, <1>6 DEF HandleAllSent
    <3> QED
      BY <3>1, <3>2 DEF Conn
  <2> QED
    BY <1>1, <1>2, <1>3, <2>1, <2>2, <2>3, PassedOn
<1>7. CASE HandleUserEvt(m)
  <2> PICK m2 : m2 = UserEvt("down", t, m.op, m.num)
    OBVIOUS
  <2>1. m2.kind = "user" /\ m2.dir = "down" /\ m2.node = t /\ m2.num = m.num /\ m.kind = "user"
    BY <1>7 DEF UserEvt, HandleUserEvt, Arrived
  <2>2. net' = (net \ {m}) \cup {m2} /\ UNCHANGED <<conn, node, gw>>
    BY <1>4, <1>5, <1>7, <2>1 DEF HandleUserEvt, Forward, OtherKnown, Deliverable
  <2> QED
    BY <1>1, <1>2, <1>3, <2>1, <2>2, PassedOn
<1> QED
  BY <1>6, <1>7

LEMMA OrchestratorMoves ==
  ASSUME Typed, Typed', FullInv, NEW m \in net, OrchestratorStep(m), job' = job
  PROVE  FullInv'
<1>1. ~HandleStopped(m)
  BY StageOf DEF HandleStopped, Arrived
<1> QED
  BY <1>1, StartedMoves, OriginReadyMoves, DestReadyMoves, ForwardMoves DEF OrchestratorStep

-----------------------------------------------------------------------------
(* The handlers of the two nodes.                                            *)

LEMMA PreparesOriginMoves ==
  ASSUME ~SlowOpen, Typed, Typed', FullInv, NEW m \in net, PreparesOrigin(m), job' = job
  PROVE  FullInv'
<1>1. m.kind = "prepare" /\ m.dir = "down" /\ m.origin
  BY DEF PreparesOrigin, Received
<1>2. PICK f, t, s : IsJob(f, t, s)
  BY <1>1, StageOf, TheJob
<1>3. /\ Carrying = {m} /\ m.node = f /\ m.shard = s /\ job.at = "gone"
      /\ Lost(f, s) \/ (conn[f].other = t /\ conn[t].other = f /\ Asked(f, s))
  BY <1>1, <1>2, StageOf DEF IsJob
<1> PICK m2 : m2 = Prepare("up", f, m.op, s, TRUE, gw[f][s].session)
  OBVIOUS
<1>4. IsPrepare(m2, "up", f, s, TRUE) /\ m2.kind = "prepare" /\ m2.node = f
  BY DEF Prepare, IsPrepare
<1>5. net' = (net \ {m}) \cup {m2} /\ conn' = conn
  BY <1>3 DEF PreparesOrigin
<1>6. Carrying' = {m2} /\ m2 \in net'
  BY <1>3, <1>4, <1>5 DEF Carrying
<1>7. \A k \in Nodes : /\ node'[k].alive = node[k].alive /\ node'[k].link = node[k].link
                       /\ k # f => node'[k].shards = node[k].shards
  <2> PICK nd : nd = [node[f] EXCEPT !.mode = "from", !.shard = s, !.shards = node[f].shards \ {s}]
    OBVIOUS
  <2>1. node \in [Nodes -> Node] /\ node[f] \in Node
    BY <1>2 DEF IsJob, Typed, FullTypeOK, TypeOK
  <2>2. nd.alive = node[f].alive /\ nd.link = node[f].link
    BY <2>1 DEF Node
  <2>3. node' = [node EXCEPT ![f] = nd]
    BY <1>3 DEF PreparesOrigin
  <2> QED
    BY <2>1, <2>2, <2>3
<1>8. /\ ~Open(f, s)'
      /\ \A k \in Nodes, x \in Shards : k # f \/ x # s => (Open(k, x)' <=> Open(k, x))
  <2> PICK g : g = Closed(gw[f][s])
    OBVIOUS
  <2>1. g.st = "closed"
    <3>1. gw[f][s].st \in {"closed", "opening", "open"}
      BY <1>2 DEF IsJob, Typed, FullTypeOK, TypeOK, Gateway
    <3>2. gw[f][s].st # "opening"
      BY <1>2, <1>3 DEF PreparesOrigin, Received, IsJob
    <3>3. g = IF gw[f][s].st = "open" THEN [gw[f][s] EXCEPT !.st = "closed"] ELSE gw[f][s]
      BY DEF Closed
    <3>4. gw[f][s] \in Gateway
      BY <1>2 DEF IsJob, Typed, FullTypeOK, TypeOK
    <3> QED
      BY <3>1, <3>2, <3>3, <3>4 DEF Gateway
  <2>2. gw' = [gw EXCEPT ![f][s] = g] /\ gw \in [Nodes -> [Shards -> Gateway]]
    BY <1>3 DEF PreparesOrigin, Typed, FullTypeOK, TypeOK
  <2> QED
    BY <1>2, <2>1, <2>2 DEF Open, IsJob
<1>9. Moves(f, t, s)'
  <2>1. CASE Lost(f, s)
    <3>1. \A k \in Nodes : Open(k, s)' => k = f
      BY <1>2, <1>8, <2>1 DEF Lost, IsJob
    <3>2. "up" \in Dirs
      BY DEF Dirs
    <3>3. Lost(f, s)'
      BY <1>4, <1>5, <1>6, <2>1, <3>1, <3>2 DEF Lost, IsPrepare
    <3> QED
      BY <3>3 DEF Moves
  <2>2. CASE conn[f].other = t /\ conn[t].other = f /\ Asked(f, s)
    <3>1. \A k \in Nodes : ~Open(k, s) \/ k = f
      BY <2>2 DEF Asked, Keeps
    <3>2. \A k \in Nodes : ~Open(k, s)'
      BY <1>2, <1>8, <3>1 DEF IsJob
    <3>3. \A k \in Nodes : s \in conn'[k].shards <=> k = f
      BY <1>5, <2>2 DEF Asked, Keeps
    <3>4. GivenUp(f, s)'
      BY <1>3, <1>4, <1>6, <3>2, <3>3 DEF GivenUp, IsPrepare
    <3> QED
      BY <1>5, <2>2, <3>4 DEF Moves
  <2> QED
    BY <1>3, <2>1, <2>2
<1>10. Touches(f, t, s)
  BY <1>1, <1>2, <1>4, <1>5, <1>7, <1>8 DEF Touches, IsJob
<1> QED
  BY <1>2, <1>9, <1>10, StageKeeps

LEMMA PreparesDestMoves ==
  ASSUME Typed, Typed', FullInv, NEW m \in net, PreparesDest(m), job' = job
  PROVE  FullInv'
<1>1. m.kind = "prepare" /\ m.dir = "down" /\ ~m.origin
  BY DEF PreparesDest, Received
<1>2. PICK f, t, s : IsJob(f, t, s)
  BY <1>1, StageOf, TheJob
<1>3. /\ Carrying = {m} /\ m.node = t /\ m.shard = s /\ Offered(t, s)
      /\ conn[f].other = t /\ conn[t].other = f
  BY <1>1, <1>2, StageOf DEF IsJob
<1> PICK m2 : m2 = Prepare("up", t, m.op, s, FALSE, m.session)
  OBVIOUS
<1>4. IsPrepare(m2, "up", t, s, FALSE) /\ m2.kind = "prepare" /\ m2.node = t
  BY DEF Prepare, IsPrepare
<1>5. net' = (net \ {m}) \cup {m2} /\ UNCHANGED <<conn, gw>>
  BY <1>3 DEF PreparesDest
<1>6. Carrying' = {m2} /\ m2 \in net'
  BY <1>3, <1>4, <1>5 DEF Carrying
<1>7. /\ \A k \in Nodes : /\ node'[k].alive = node[k].alive /\ node'[k].link = node[k].link
                          /\ k # t => node'[k].shards = node[k].shards
      /\ node'[t].shard = s /\ node'[t].total = -1 /\ node'[t].processed = 0
  <2> PICK nd : nd = Prepared(m)
    OBVIOUS
  <2>1. node \in [Nodes -> Node] /\ node[t] \in Node
    BY <1>2 DEF IsJob, Typed, FullTypeOK, TypeOK
  <2>2. /\ nd.alive = node[t].alive /\ nd.link = node[t].link
        /\ nd.shard = s /\ nd.total = -1 /\ nd.processed = 0
    BY <1>3, <2>1 DEF Node, Prepared
  <2>3. node' = [node EXCEPT ![t] = nd]
    BY <1>3 DEF PreparesDest
  <2> QED
    BY <1>2, <2>1, <2>2, <2>3 DEF IsJob
<1>8. \A k \in Nodes, x \in Shards : Open(k, x)' <=> Open(k, x)
  BY <1>5 DEF Open
<1>9. Ready(f, t, s)'
  <2>1. Nowhere(s)'
    BY <1>2, <1>3, <1>5, <1>8 DEF Nowhere, Offered, IsJob
  <2>2. job.at \in {"gone", "there"}
    BY <1>3 DEF Offered
  <2> QED
    BY <1>4, <1>6, <1>7, <2>1, <2>2 DEF Ready, IsPrepare
<1>10. Moves(f, t, s)'
  BY <1>3, <1>5, <1>9 DEF Moves
<1>11. Touches(f, t, s)
  BY <1>1, <1>2, <1>4, <1>5, <1>7, <1>8 DEF Touches, IsJob
<1> QED
  BY <1>2, <1>10, <1>11, StageKeeps

LEMMA TransfersMoves ==
  ASSUME Typed, Typed', FullInv, NEW m \in net, TransfersFrom(m), job' = job
  PROVE  FullInv'
<1>1. m.kind = "transfer" /\ m.dir = "down"
  BY DEF TransfersFrom, Received
<1>2. PICK f, t, s : IsJob(f, t, s)
  BY <1>1, StageOf, TheJob
<1>3. /\ Carrying = {m} /\ m.node = f /\ Ready(f, t, s)
      /\ conn[f].other = t /\ conn[t].other = f
  BY <1>1, <1>2, StageOf DEF IsJob
<1>4. UNCHANGED <<conn, node, gw>>
  BY DEF TransfersFrom
<1>5. PICK k \in Nat : net' = (net \ {m}) \cup {AllSent("up", f, m.op, k)}
                                \cup {UserEvt("up", f, m.op, i) : i \in 1 .. k}
  BY <1>3, BoundsAssumption DEF TransfersFrom
<1> DEFINE evt(i) == UserEvt("up", f, m.op, i)
           all    == AllSent("up", f, m.op, k)
           evts   == {evt(i) : i \in 1 .. k}
<1>6. all.kind = "allsent" /\ all.dir = "up" /\ all.node = f /\ all.num = k
  BY DEF AllSent
<1>7. \A i : /\ evt(i).kind = "user" /\ evt(i).dir = "up" /\ evt(i).node = f /\ evt(i).num = i
  BY DEF UserEvt
<1>8. /\ \A q \in evts : q.num \in 1 .. k /\ q = evt(q.num)
      /\ \A i \in 1 .. k : evt(i) \in evts
  BY <1>7
<1>9. net' = (net \ {m}) \cup {all} \cup evts
  BY <1>5
<1> HIDE DEF evts, evt, all
<1>10. Carrying' = {all} \cup evts
  BY <1>3, <1>6, <1>7, <1>8, <1>9 DEF Carrying
<1>11. Due' = 1 .. k
  <2>1. \A q \in net' : q.kind = "user" => q \in evts
    BY <1>6, <1>10 DEF Carrying
  <2>2. \A i : i \in 1 .. k => \E q \in net' : q.kind = "user" /\ q.num = i
    BY <1>7, <1>8, <1>9
  <2>3. \A i : (\E q \in net' : q.kind = "user" /\ q.num = i) => i \in 1 .. k
    BY <1>8, <2>1
  <2>4. \A i : i \in Due' <=> \E q \in net' : q.kind = "user" /\ q.num = i
    BY DEF Due
  <2> QED
    BY <2>2, <2>3, <2>4
<1>12. IsFiniteSet(1 .. k) /\ Cardinality(1 .. k) = k
  BY FS_Interval
<1>13. \A n \in Nodes, x \in Shards : Open(n, x)' <=> Open(n, x)
  BY <1>4 DEF Open
<1>14. Passing(f, t, s)'
  <2>1. /\ job.at \in {"gone", "there"} /\ Nowhere(s)
        /\ node[t].shard = s /\ node[t].total = -1 /\ node[t].processed = 0
    BY <1>3 DEF Ready
  <2>2. Nowhere(s)'
    BY <1>2, <1>4, <1>13, <2>1 DEF Nowhere, IsJob
  <2>3. /\ \A q \in Carrying' : /\ q.kind \in {"user", "allsent"}
                                /\ q.dir = "up" => q.node = f
                                /\ q.dir = "down" => q.node = t
                                /\ q.kind = "user" => q = evt(q.num)
                                /\ q.kind = "allsent" => q = all
    BY <1>6, <1>7, <1>8, <1>10
  <2>4. /\ \A q1, q2 \in Carrying' : q1.kind = "user" /\ q2.kind = "user" /\ q1.num = q2.num => q1 = q2
        /\ \A q1, q2 \in Carrying' : q1.kind = "allsent" /\ q2.kind = "allsent" => q1 = q2
    BY <2>3
  <2>5. /\ \A q \in Carrying' : q.kind = "allsent" =>
             node'[t].total = -1 /\ q.num = node'[t].processed + Cardinality(Due')
        /\ all \in Carrying' /\ all.kind = "allsent"
    BY <1>4, <1>6, <1>10, <1>11, <1>12, <2>1, <2>3
  <2> QED
    BY <1>4, <1>11, <1>12, <2>1, <2>2, <2>3, <2>4, <2>5 DEF Passing
<1>15. Moves(f, t, s)'
  BY <1>3, <1>4, <1>14 DEF Moves
<1>16. Touches(f, t, s)
  BY <1>1, <1>2, <1>4, <1>6, <1>7, <1>8, <1>9, <1>13 DEF Touches, IsJob
<1> QED
  BY <1>2, <1>15, <1>16, StageKeeps

\* The destination has noted a total or an event, m, and looks whether it was
\* the last; D are the user events that are left.
LEMMA NoticedMoves ==
  ASSUME Typed, Typed', FullInv, NEW m \in net, NEW nd \in Node, NEW D, NEW f, NEW t, NEW s,
         IsJob(f, t, s), job' = job, conn[f].other = t, conn[t].other = f,
         Passing(f, t, s), m \in Carrying, m.node = t,
         Noticed(m, nd, EnoughHandled(nd)),
         nd.alive = node[t].alive, nd.link = node[t].link, nd.shard = s,
         D = {u.num : u \in {q \in net \ {m} : q.kind = "user"}}, IsFiniteSet(D),
         \A q \in Carrying \ {m} : q.kind = "allsent" =>
           nd.total = -1 /\ q.num = nd.processed + Cardinality(D),
         (\A q \in Carrying \ {m} : q.kind # "allsent") =>
           nd.total = nd.processed + Cardinality(D)
  PROVE  FullInv'
<1>0. Cardinality(D) \in Nat /\ nd.processed \in Nat
  BY FS_CardinalityType DEF Node
<1>1. node \in [Nodes -> Node] /\ gw \in [Nodes -> [Shards -> Gateway]]
  BY DEF Typed, FullTypeOK, TypeOK
<1>2. s # NoShard /\ s \in Shards /\ f \in Nodes /\ t \in Nodes /\ f # t
  BY ShardsAssumption DEF IsJob, NoShard
<1>3. conn' = conn
  BY Zenon DEF Noticed
<1>4. /\ m.kind \in {"user", "allsent"} /\ Nowhere(s) /\ job.at \in {"gone", "there"}
      /\ \A q \in Carrying : /\ q.kind \in {"user", "allsent"}
                             /\ q.dir = "up" => q.node = f
                             /\ q.dir = "down" => q.node = t
      /\ \A q1, q2 \in Carrying : q1.kind = "user" /\ q2.kind = "user" /\ q1.num = q2.num => q1 = q2
      /\ \A q1, q2 \in Carrying : q1.kind = "allsent" /\ q2.kind = "allsent" => q1 = q2
  BY DEF Passing
<1>5. CASE ~EnoughHandled(nd)
  <2>1. node' = [node EXCEPT ![t] = nd] /\ net' = net \ {m} /\ gw' = gw
    BY <1>5, Zenon DEF Noticed
  <2>2. \A n \in Nodes, x \in Shards : Open(n, x)' <=> Open(n, x)
    BY <2>1 DEF Open
  <2>3. Nowhere(s)'
    BY <1>2, <1>3, <1>4, <2>2 DEF Nowhere
  <2>4. Due' = D
    BY <2>1 DEF Due
  <2>5. Carrying' = Carrying \ {m}
    BY <2>1 DEF Carrying
  <2>6. node'[t] = nd /\ \A n \in Nodes : n # t => node'[n] = node[n]
    BY <1>1, <1>2, <2>1
  <2>7. Passing(f, t, s)'
    BY <1>4, <2>3, <2>4, <2>5, <2>6 DEF Passing
  <2>8. Moves(f, t, s)'
    BY <1>3, <2>7 DEF Moves
  <2>9. Touches(f, t, s)
    BY <1>2, <1>3, <1>4, <2>1, <2>2, <2>6 DEF Touches
  <2> QED
    BY <2>8, <2>9, StageKeeps
<1>6. CASE EnoughHandled(nd)
  <2>1. nd.total > -1 /\ nd.processed >= nd.total
    BY <1>6 DEF EnoughHandled
  <2>2. /\ \A q \in Carrying \ {m} : q.kind # "allsent"
        /\ Cardinality(D) = 0
    BY <1>0, <2>1
  <2>3. D = {}
    BY <2>2, FS_EmptySet
  <2>4. \A q \in Carrying \ {m} : q.kind # "user"
    <3> SUFFICES ASSUME NEW q \in Carrying \ {m}, q.kind = "user" PROVE FALSE
      OBVIOUS
    <3>1. q.num \in D
      BY DEF Carrying
    <3> QED
      BY <2>3, <3>1
  <2>5. Carrying = {m}
    BY <1>4, <2>2, <2>4
  <2>6. Finish(t, nd, m)
    BY <1>2, <1>6, Zenon DEF Noticed
  <2> PICK m2 : m2 = Start("up", t, nd.op, {s})
    OBVIOUS
  <2>7. m2.kind = "start" /\ m2.dir = "up" /\ m2.node = t /\ m2.shards = {s}
    BY DEF Start
  <2>8. net' = (net \ {m}) \cup {m2}
    BY <2>6 DEF Finish
  <2>9. Carrying' = {m2} /\ m2 \in net'
    BY <2>5, <2>7, <2>8 DEF Carrying
  <2>10. \A n \in Nodes, x \in Shards : Open(n, x)' <=> Open(n, x) \/ (n = t /\ x = s)
    <3> PICK g : g = Opened(nd.session)
      OBVIOUS
    <3>1. gw' = [gw EXCEPT ![t][s] = g] /\ g.st = "opening"
      BY <2>6 DEF Finish, Opened
    <3> QED
      BY <1>1, <1>2, <3>1 DEF Open
  <2>11. \A n \in Nodes : /\ node'[n].alive = node[n].alive /\ node'[n].link = node[n].link
                          /\ n # t => node'[n].shards = node[n].shards
    <3> PICK old : old = Forgotten(nd)
      OBVIOUS
    <3>1. old.alive = nd.alive /\ old.link = nd.link
      BY DEF Forgotten, Node
    <3>2. node' = [node EXCEPT ![t] = old]
      BY <2>6 DEF Finish
    <3> QED
      BY <1>1, <1>2, <3>1, <3>2
  <2>12. \A n \in Nodes : ~Open(n, s) /\ s \notin conn[n].shards
    BY <1>4 DEF Nowhere
  <2>13. \A n \in Nodes : Open(n, s)' <=> n = t
    BY <1>2, <2>10, <2>12
  <2>14. Resumed(t, s)'
    BY <1>3, <1>4, <2>7, <2>9, <2>12, <2>13 DEF Resumed
  <2>15. Moves(f, t, s)'
    BY <1>3, <2>14 DEF Moves
  <2>16. Touches(f, t, s)
    BY <1>2, <1>3, <1>4, <2>7, <2>8, <2>10, <2>11 DEF Touches
  <2> QED
    BY <2>15, <2>16, StageKeeps
<1> QED
  BY <1>5, <1>6

LEMMA CountMoves ==
  ASSUME Typed, Typed', FullInv, NEW m \in net, LearnsTotal(m) \/ HandlesUserEvt(m), job' = job
  PROVE  FullInv'
<1>1. m.kind \in {"user", "allsent"} /\ m.dir = "down"
  BY DEF LearnsTotal, HandlesUserEvt, Received
<1>2. PICK f, t, s : IsJob(f, t, s)
  BY <1>1, StageOf, TheJob
<1>3. m \in Carrying /\ Passing(f, t, s) /\ conn[f].other = t /\ conn[t].other = f
  BY <1>1, <1>2, StageOf DEF IsJob
<1>4. /\ m.node = t /\ node[t].shard = s /\ IsFiniteSet(Due)
      /\ \A q1, q2 \in Carrying : q1.kind = "user" /\ q2.kind = "user" /\ q1.num = q2.num => q1 = q2
      /\ \A q1, q2 \in Carrying : q1.kind = "allsent" /\ q2.kind = "allsent" => q1 = q2
      /\ \A q \in Carrying : q.kind = "allsent" =>
           node[t].total = -1 /\ q.num = node[t].processed + Cardinality(Due)
      /\ (\A q \in Carrying : q.kind # "allsent") =>
           node[t].total = node[t].processed + Cardinality(Due)
  BY <1>1, <1>3 DEF Passing
<1>5. node[t] \in Node
  BY <1>2 DEF IsJob, Typed, FullTypeOK, TypeOK
<1>6. PICK D : D = {u.num : u \in {q \in net \ {m} : q.kind = "user"}}
  OBVIOUS
<1>7. CASE LearnsTotal(m)
  <2>1. m.kind = "allsent"
    BY <1>7 DEF LearnsTotal, Received
  <2> PICK nd : nd = [node[t] EXCEPT !.total = m.num]
    OBVIOUS
  <2>2. m.num \in Nat
    <3>1. m \in Message
      BY DEF Typed, FullTypeOK, TypeOK
    <3> QED
      BY <2>1, <3>1, Fields
  <2>3. /\ nd \in Node /\ nd.alive = node[t].alive /\ nd.link = node[t].link /\ nd.shard = s
        /\ nd.total = m.num /\ nd.processed = node[t].processed
    BY <1>4, <1>5, <2>2 DEF Node
  <2>4. D = Due
    BY <1>6, <2>1 DEF Due
  <2>5. \A q \in Carrying \ {m} : q.kind # "allsent"
    BY <1>3, <1>4, <2>1
  <2>6. m.num = node[t].processed + Cardinality(Due)
    BY <1>3, <1>4, <2>1
  <2>7. Noticed(m, nd, EnoughHandled(nd))
    BY <1>4, <1>7 DEF LearnsTotal
  <2> QED
    BY <1>2, <1>3, <1>4, <1>6, <2>3, <2>4, <2>5, <2>6, <2>7, NoticedMoves
<1>8. CASE HandlesUserEvt(m)
  <2>1. m.kind = "user"
    BY <1>8 DEF HandlesUserEvt, Received
  <2> PICK own : own = IF m.op = node[t].op THEN node[t].own + 1 ELSE node[t].own
    OBVIOUS
  <2> PICK nd : nd = [node[t] EXCEPT !.processed = node[t].processed + 1, !.own = own]
    OBVIOUS
  <2>2. /\ nd \in Node /\ nd.alive = node[t].alive /\ nd.link = node[t].link /\ nd.shard = s
        /\ nd.total = node[t].total /\ nd.processed = node[t].processed + 1
    <3>1. own \in Nat /\ node[t].processed + 1 \in Nat
      BY <1>5 DEF Node
    <3>2. nd \in Node
      BY <1>5, <3>1 DEF Node
    <3> QED
      BY <1>4, <1>5, <3>1, <3>2 DEF Node
  <2>3. m.num \in Due /\ D = Due \ {m.num}
    <3>1. m.num \in Due
      BY <2>1 DEF Due
    <3>2. \A q \in net : q.kind = "user" /\ q.num = m.num => q = m
      BY <1>3, <1>4, <2>1 DEF Carrying
    <3>3. \A i : i \in D <=> \E q \in net : q # m /\ q.kind = "user" /\ q.num = i
      BY <1>6
    <3>4. \A i : i \in Due <=> \E q \in net : q.kind = "user" /\ q.num = i
      BY DEF Due
    <3>5. \A i : i \in D <=> i \in Due /\ i # m.num
      BY <3>2, <3>3, <3>4
    <3> QED
      BY <3>1, <3>5
  <2>4. /\ IsFiniteSet(D) /\ Cardinality(D) = Cardinality(Due) - 1
        /\ Cardinality(Due) \in Nat /\ Cardinality(D) \in Nat
    <3>1. IsFiniteSet(Due \ {m.num}) /\ Cardinality(Due \ {m.num}) = Cardinality(Due) - 1
      BY <1>4, <2>3, FS_RemoveElement
    <3> QED
      BY <1>4, <2>3, <3>1, FS_CardinalityType
  <2>5. node[t].processed \in Nat
    BY <1>5 DEF Node
  <2>6. nd.processed + Cardinality(D) = node[t].processed + Cardinality(Due)
    BY <2>2, <2>4, <2>5
  <2>7. /\ \A q \in Carrying \ {m} : q.kind = "allsent" =>
             nd.total = -1 /\ q.num = nd.processed + Cardinality(D)
        /\ (\A q \in Carrying \ {m} : q.kind # "allsent") =>
             nd.total = nd.processed + Cardinality(D)
    BY <1>4, <2>1, <2>2, <2>6
  <2>8. Noticed(m, nd, EnoughHandled(nd))
    BY <1>4, <1>8 DEF HandlesUserEvt
  <2>9. /\ nd \in Node /\ nd.alive = node[t].alive /\ nd.link = node[t].link /\ nd.shard = s
        /\ m.node = t /\ IsFiniteSet(D)
    BY <1>4, <2>2, <2>4
  <2> QED
    BY <1>2, <1>3, <1>6, <2>7, <2>8, <2>9, NoticedMoves
<1> QED
  BY <1>7, <1>8

LEMMA NodeMoves ==
  ASSUME ~SlowOpen, Typed, Typed', FullInv, NEW m \in net, NodeStep(m), ~ShutsDown(m), job' = job
  PROVE  FullInv'
<1>1. ~StartsShards(m) /\ ~StopsShard(m)
  BY StageOf DEF StartsShards, StopsShard, Received
<1> QED
  BY <1>1, PreparesOriginMoves, PreparesDestMoves, TransfersMoves, CountMoves DEF NodeStep

-----------------------------------------------------------------------------
(* Steps that leave the shard that is moved at its stage.                    *)

LEMMA SameStage ==
  ASSUME Typed, FullInv,
         job'.at = job.at, job'.from = job.from, job'.to = job.to,
         job'.shard = job.shard, job'.moved = job.moved,
         \A k \in Nodes : conn'[k].shards = conn[k].shards,
         Moving => \A k \in {job.from, job.to} : conn'[k].other = conn[k].other,
         Moving => LET old == node[job.to]
                       new == node'[job.to]
                   IN  new.shard = old.shard /\ new.total = old.total /\ new.processed = old.processed,
         \A k \in Nodes, x \in Shards : Open(k, x)' <=> Open(k, x),
         \A q \in net : q.kind \notin {"identify", "shutdown"} => q \in net',
         \A q \in net' : q.kind \notin {"identify", "shutdown"} => q \in net
  PROVE  ShardsInv'
<1>1. (Working' <=> Working) /\ (Moving' <=> Moving) /\ (AllPlaced' <=> AllPlaced)
  BY DEF Working, Moving, AllPlaced
<1>2. Carrying' = Carrying /\ Carrying \subseteq net'
  BY DEF Carrying
<1>3. Due' = Due
  BY DEF Due
<1>4. \A n, x : x \in Shards => (Keeps(n, x)' <=> Keeps(n, x))
  BY DEF Keeps
<1>5. \A x \in Shards : Kept(x)' <=> Kept(x)
  BY <1>1, <1>4 DEF Kept
<1>6. job.moved \subseteq Shards
  BY DEF Typed, FullTypeOK, Job
<1>7. ASSUME Moving PROVE Moves(job.from, job.to, job.shard)'
  <2>1. PICK f, t, s : IsJob(f, t, s)
    BY <1>7, TheJob
  <2>2. f \in Nodes /\ t \in Nodes /\ s \in Shards /\ job'.from = f /\ job'.to = t /\ job'.shard = s
    BY <2>1 DEF IsJob
  <2>3. /\ conn'[f].other = conn[f].other /\ conn'[t].other = conn[t].other
        /\ node'[t].shard = node[t].shard /\ node'[t].total = node[t].total
        /\ node'[t].processed = node[t].processed
    BY <1>7, <2>1 DEF IsJob
  <2>4. Nowhere(s)' <=> Nowhere(s)
    BY <2>2 DEF Nowhere
  <2>5. Moves(f, t, s)
    BY <1>7, <2>2 DEF FullInv, ShardsInv
  <2>6. \A k \in Nodes : (Open(k, s)' <=> Open(k, s)) /\ conn'[k].shards = conn[k].shards
    BY <2>2
  <2>7. Lost(f, s) => Lost(f, s)'
    BY <1>2, <2>2, <2>3, <2>6 DEF Lost
  <2>8. Asked(f, s) => Asked(f, s)'
    BY <1>2, <1>4, <2>2 DEF Asked
  <2>9. GivenUp(f, s) => GivenUp(f, s)'
    BY <1>2, <2>6 DEF GivenUp
  <2>10. Offered(t, s) => Offered(t, s)'
    BY <1>2, <2>4 DEF Offered
  <2>11. Ready(f, t, s) => Ready(f, t, s)'
    BY <1>2, <2>3, <2>4 DEF Ready
  <2>12. Passing(f, t, s) => Passing(f, t, s)'
    BY <1>2, <1>3, <2>3, <2>4 DEF Passing
  <2>13. Resumed(t, s) => Resumed(t, s)'
    BY <1>2, <2>6 DEF Resumed
  <2>14. SettledIn(t, s) => SettledIn(t, s)'
    BY <1>2, <1>4, <2>2 DEF SettledIn
  <2>15. Moves(f, t, s)'
    BY <2>3, <2>5, <2>7, <2>8, <2>9, <2>10, <2>11, <2>12, <2>13, <2>14 DEF Moves
  <2> QED
    BY <2>2, <2>15
<1> QED
  BY <1>1, <1>2, <1>4, <1>5, <1>6, <1>7 DEF FullInv, ShardsInv

\* A node that the orchestrator does not know is in no job.
LEMMA Strangers ==
  ASSUME Typed, FullInv, NEW n \in Nodes, ~conn[n].known
  PROVE  /\ Working => n \notin {job.from, job.to}
         /\ job.at # "idle" => n \notin job.ignore /\ n \notin job.todo
         /\ ~conn[n].up /\ conn[n].shards = {} /\ node[n].shards = {} /\ ~Leaving(n)
BY DEF FullInv, JobInv, NodesInv

LEMMA IdentifyKeeps ==
  ASSUME Typed, Typed', FullInv, NEW m \in net, HandleIdentify(m), job' = Replaced(m.node)
  PROVE  FullInv'
<1> PICK n : n = m.node
  OBVIOUS
<1>1. n \in Nodes
  BY Fields DEF Typed, FullTypeOK, TypeOK
<1>2. /\ m.kind = "identify" /\ node[n].link /\ ~conn[n].known /\ m.shards = {}
      /\ \A q \in net : q.node = n => q = m
  <2>1. m.kind = "identify" /\ node[n].link
    BY DEF HandleIdentify
  <2>2. ~conn[n].known /\ m.shards = {}
    BY <2>1 DEF FullInv, MessagesInv
  <2>3. ASSUME NEW q \in net, q.node = n PROVE q = m
    BY <2>1, <2>3 DEF FullInv, MessagesInv, Reachable
  <2> QED
    BY <2>1, <2>2, <2>3
<1>3. /\ Working => n \notin {job.from, job.to}
      /\ ~conn[n].up /\ conn[n].shards = {} /\ node[n].shards = {} /\ ~Leaving(n)
  BY <1>1, <1>2, Strangers
<1>4. /\ \A k \in Nodes : k # n => conn'[k] = conn[k]
      /\ conn'[n].known /\ conn'[n].up /\ conn'[n].shards = {}
      /\ net' = net \ {m} /\ UNCHANGED <<node, gw>>
  <2>1. conn \in [Nodes -> Conn]
    BY DEF Typed, FullTypeOK, TypeOK
  <2> PICK c : c = NewConn({})
    OBVIOUS
  <2>2. c.known /\ c.up /\ c.shards = {}
    BY DEF NewConn
  <2>3. conn' = [conn EXCEPT ![n] = c] /\ net' = net \ {m} /\ UNCHANGED <<node, gw>>
    BY <1>2 DEF HandleIdentify, Identified
  <2> QED
    BY <1>1, <2>1, <2>2, <2>3
<1>5. /\ job'.at = job.at /\ job'.from = job.from /\ job'.to = job.to /\ job'.shard = job.shard
      /\ job'.moved = job.moved /\ job'.todo = job.todo /\ job'.ignore = job.ignore
      /\ job'.left = job.left
      /\ Working => job'.fromOld = job.fromOld /\ job'.toOld = job.toOld
  BY <1>3 DEF Replaced, Typed, JobTyped, Job
<1>6. \A k \in Nodes, x \in Shards : Open(k, x)' <=> Open(k, x)
  BY <1>4 DEF Open
<1>7. \A k \in Nodes : conn'[k].shards = conn[k].shards
  BY <1>3, <1>4
<1>8. ShardsInv'
  <2>1. Moving => Working
    BY DEF Moving, Working
  <2>2. Moving => \A k \in {job.from, job.to} : conn'[k].other = conn[k].other
    BY <1>3, <1>4, <2>1, TwoNodes
  <2> QED
    BY <1>2, <1>4, <1>5, <1>6, <1>7, <2>2, SameStage
<1>9. \A k \in Nodes : Leaving(k)' => Leaving(k)
  BY <1>2, <1>4 DEF Leaving
<1>10. NodesInv'
  <2> SUFFICES ASSUME NEW k \in Nodes
               PROVE  /\ conn'[k].up => conn'[k].known
                      /\ ~conn'[k].known => conn'[k].shards = {} /\ node'[k].shards = {}
                      /\ conn'[k].known /\ node'[k].link => conn'[k].up
                      /\ node'[k].alive /\ ~node'[k].link => ~conn'[k].known
                      /\ Leaving(k)' => /\ conn'[k].known /\ conn'[k].shards = {}
                                        /\ \A x \in Shards : ~Open(k, x)'
                                        /\ k \notin job.todo /\ (job.at # "idle" => k \in job.ignore)
                                        /\ Working => k # job.from
    BY <1>5 DEF NodesInv, Working
  <2>1. CASE k = n
    BY <1>2, <1>3, <1>4, <1>9, <2>1
  <2>2. CASE k # n
    BY <1>4, <1>6, <1>9, <2>2 DEF FullInv, NodesInv
  <2> QED
    BY <2>1, <2>2
<1>11. MessagesInv'
  <2>1. \A q \in net' : q \in net /\ q.node # n /\ q.node \in Nodes
    BY <1>2, <1>4, Fields DEF Typed, FullTypeOK, TypeOK
  <2>2. \A q \in net' : Reachable(q.node) => Reachable(q.node)'
    BY <1>4 DEF Reachable
  <2> QED
    BY <1>4, <2>1, <2>2 DEF FullInv, MessagesInv
<1>12. JobInv'
  <2>1. \A k \in Nodes : conn[k].known => conn'[k].known
    BY <1>4
  <2>2. job.ignore \subseteq Nodes /\ (Working => job.from \in Nodes /\ job.to \in Nodes)
    BY DEF Typed, FullTypeOK, JobTyped, Job
  <2> QED
    BY <1>5, <1>7, <2>1, <2>2 DEF FullInv, JobInv, Working, Moving
<1> QED
  BY <1>8, <1>10, <1>11, <1>12 DEF FullInv

LEMMA ShutsDownKeeps ==
  ASSUME Typed, Typed', FullInv, NEW m \in net, ShutsDown(m), job' = job
  PROVE  FullInv'
<1> PICK n : n = m.node
  OBVIOUS
<1>1. n \in Nodes
  BY Fields DEF Typed, FullTypeOK, TypeOK
<1>2. m.kind = "shutdown" /\ Kill(n) /\ conn' = conn
  BY DEF ShutsDown, Received
<1>3. /\ Leaving(n) /\ conn[n].known /\ conn[n].shards = {} /\ \A x \in Shards : ~Open(n, x)
      /\ n \notin job.todo /\ (job.at # "idle" => n \in job.ignore)
      /\ Working => n # job.from /\ n # job.to
  BY <1>1, <1>2, TwoNodes DEF FullInv, NodesInv, Leaving
<1>4. /\ net' = {q \in net : q.node # n}
      /\ \A k \in Nodes : k # n => node'[k] = node[k] /\ gw'[k] = gw[k]
      /\ ~node'[n].alive /\ ~node'[n].link
      /\ \A x \in Shards : gw'[n][x].st = "closed"
  <2>1. node \in [Nodes -> Node] /\ gw \in [Nodes -> [Shards -> Gateway]]
    BY DEF Typed, FullTypeOK, TypeOK
  <2>2. [node[n] EXCEPT !.alive = FALSE, !.link = FALSE].alive = FALSE
        /\ [node[n] EXCEPT !.alive = FALSE, !.link = FALSE].link = FALSE
    BY <1>1, <2>1 DEF Node
  <2>3. net' = {q \in net : q.node # n}
    BY <1>2 DEF Kill
  <2>4. /\ \A k \in Nodes : k # n => node'[k] = node[k]
        /\ ~node'[n].alive /\ ~node'[n].link
    BY <1>1, <1>2, <2>1, <2>2 DEF Kill
  <2>5. /\ \A k \in Nodes : k # n => gw'[k] = gw[k]
        /\ \A x \in Shards : gw'[n][x].st = "closed"
    BY <1>1, <1>2, <2>1 DEF Kill
  <2> QED
    BY <2>3, <2>4, <2>5
<1>5. \A k \in Nodes, x \in Shards : Open(k, x)' <=> Open(k, x)
  BY <1>3, <1>4 DEF Open
<1>6. ShardsInv'
  <2>1. ASSUME NEW q \in net, q.kind \notin {"identify", "shutdown"} PROVE q.node # n
    <3>1. Moving /\ Working /\ (q.node = job.from \/ q.node = job.to \/ Passing(job.from, job.to, job.shard))
          /\ q \in Carrying
      BY <2>1, StageOf DEF Moving, Working
    <3>2. q.dir \in Dirs
      BY Fields DEF Typed, FullTypeOK, TypeOK
    <3> QED
      BY <1>3, <3>1, <3>2 DEF Passing, Dirs
  <2>2. Moving => LET old == node[job.to]
                      new == node'[job.to]
                  IN  new.shard = old.shard /\ new.total = old.total /\ new.processed = old.processed
    BY <1>3, <1>4, TwoNodes DEF Moving, Working
  <2> QED
    BY <1>2, <1>4, <1>5, <2>1, <2>2, SameStage
<1>7. \A k \in Nodes : Leaving(k)' => Leaving(k)
  BY <1>2, <1>3, <1>4 DEF Leaving
<1>8. NodesInv'
  <2> SUFFICES ASSUME NEW k \in Nodes
               PROVE  /\ conn'[k].up => conn'[k].known
                      /\ ~conn'[k].known => conn'[k].shards = {} /\ node'[k].shards = {}
                      /\ conn'[k].known /\ node'[k].link => conn'[k].up
                      /\ node'[k].alive /\ ~node'[k].link => ~conn'[k].known
                      /\ Leaving(k)' => /\ conn'[k].known /\ conn'[k].shards = {}
                                        /\ \A x \in Shards : ~Open(k, x)'
                                        /\ k \notin job.todo /\ (job.at # "idle" => k \in job.ignore)
                                        /\ Working => k # job.from
    BY DEF NodesInv, Working
  <2>1. CASE k = n
    BY <1>2, <1>3, <1>4, <1>5, <2>1 DEF FullInv, NodesInv
  <2>2. CASE k # n
    BY <1>2, <1>4, <1>5, <1>7, <2>2 DEF FullInv, NodesInv
  <2> QED
    BY <2>1, <2>2
<1>9. MessagesInv'
  <2>1. \A q \in net' : q \in net /\ q.node # n /\ q.node \in Nodes
    BY <1>4, Fields DEF Typed, FullTypeOK, TypeOK
  <2>2. \A q \in net' : Reachable(q.node) => Reachable(q.node)'
    BY <1>4, <2>1 DEF Reachable
  <2> QED
    BY <1>2, <1>4, <2>1, <2>2 DEF FullInv, MessagesInv
<1>10. JobInv'
  BY <1>2 DEF FullInv, JobInv, Working, Moving
<1> QED
  BY <1>6, <1>8, <1>9, <1>10 DEF FullInv

LEMMA GatewayKeeps ==
  ASSUME Typed, Typed', FullInv, NEW n \in Nodes, NEW s \in Shards, GatewayOpens(n, s), job' = job
  PROVE  FullInv'
<1>1. UNCHANGED <<conn, node, net>>
  BY DEF GatewayOpens
<1>2. \A k \in Nodes, x \in Shards : Open(k, x)' <=> Open(k, x)
  <2>1. gw \in [Nodes -> [Shards -> Gateway]]
    BY DEF Typed, FullTypeOK, TypeOK
  <2> PICK g : g = [st |-> "open", session |-> IF gw[n][s].session = 0 THEN fresh'[s] ELSE gw[n][s].session]
    OBVIOUS
  <2>2. gw' = [gw EXCEPT ![n] = [gw[n] EXCEPT ![s] = g]] /\ g.st # "closed"
        /\ gw[n][s].st # "closed"
    BY DEF GatewayOpens
  <2>3. gw[n] \in [Shards -> Gateway]
    BY <2>1
  <2>4. ASSUME NEW k \in Nodes, NEW x \in Shards PROVE Open(k, x)' <=> Open(k, x)
    <3>1. CASE k = n /\ x = s
      BY <2>1, <2>2, <2>3, <3>1 DEF Open
    <3>2. CASE k = n /\ x # s
      BY <2>1, <2>2, <2>3, <3>2 DEF Open
    <3>3. CASE k # n
      BY <2>1, <2>2, <3>3 DEF Open
    <3> QED
      BY <3>1, <3>2, <3>3
  <2> QED
    BY <2>4
<1>3. ShardsInv'
  BY <1>1, <1>2, SameStage
<1>4. \A k \in Nodes : Leaving(k)' <=> Leaving(k)
  BY <1>1 DEF Leaving
<1>5. NodesInv'
  BY <1>1, <1>2, <1>4 DEF FullInv, NodesInv, Working
<1>6. MessagesInv' /\ JobInv'
  BY <1>1 DEF FullInv, MessagesInv, Reachable, JobInv, Working, Moving
<1> QED
  BY <1>3, <1>5, <1>6 DEF FullInv

LEMMA NoticeKeeps ==
  ASSUME Typed, Typed', FullInv, NEW n \in Nodes, NoticeDrop(n), job' = job
  PROVE  FullInv'
<1>1. UNCHANGED <<node, gw, net>> /\ ~node[n].link
  BY DEF NoticeDrop
<1>2. \A k \in Nodes : /\ conn'[k].known = conn[k].known /\ conn'[k].shards = conn[k].shards
                       /\ conn'[k].other = conn[k].other
                       /\ (conn'[k].up <=> conn[k].up /\ k # n)
  <2>1. conn \in [Nodes -> Conn] /\ conn[n] \in Conn
    BY DEF Typed, FullTypeOK, TypeOK
  <2> PICK c : c = [conn[n] EXCEPT !.up = FALSE]
    OBVIOUS
  <2>2. /\ c.known = conn[n].known /\ c.shards = conn[n].shards /\ c.other = conn[n].other
        /\ c.up = FALSE
    BY <2>1 DEF Conn
  <2>3. conn' = [conn EXCEPT ![n] = c]
    BY DEF NoticeDrop
  <2> QED
    BY <2>1, <2>2, <2>3
<1>3. \A k \in Nodes, x \in Shards : Open(k, x)' <=> Open(k, x)
  BY <1>1 DEF Open
<1>4. ShardsInv'
  <2>1. Moving => \A k \in {job.from, job.to} : conn'[k].other = conn[k].other
    BY <1>2, TwoNodes DEF Moving, Working
  <2> QED
    BY <1>1, <1>2, <1>3, <2>1, SameStage
<1>5. \A k \in Nodes : Leaving(k)' <=> Leaving(k)
  BY <1>1, <1>2 DEF Leaving
<1>6. NodesInv'
  BY <1>1, <1>2, <1>3, <1>5 DEF FullInv, NodesInv, Working
<1>7. MessagesInv'
  <2>1. \A q \in net : q.node \in Nodes
    BY Fields DEF Typed, FullTypeOK, TypeOK
  <2> QED
    BY <1>1, <1>2, <2>1 DEF FullInv, MessagesInv, Reachable
<1>8. JobInv'
  <2>1. job.ignore \subseteq Nodes /\ (Working => job.from \in Nodes /\ job.to \in Nodes)
    BY DEF Typed, FullTypeOK, JobTyped, Job
  <2> QED
    BY <1>2, <2>1 DEF FullInv, JobInv, Working, Moving
<1> QED
  BY <1>4, <1>6, <1>7, <1>8 DEF FullInv

LEMMA ReconnectKeeps ==
  ASSUME Typed, Typed', FullInv, NEW n \in Nodes, Reconnect(n), job' = job
  PROVE  FullInv'
<1>1. UNCHANGED <<conn, gw>> /\ ~conn[n].known /\ ~node[n].link
  BY DEF Reconnect, FullInv, NodesInv
<1>2. /\ Working => n \notin {job.from, job.to}
      /\ ~conn[n].up /\ conn[n].shards = {} /\ node[n].shards = {} /\ ~Leaving(n)
  BY <1>1, Strangers
<1>3. \A q \in net : q.node # n
  BY <1>1 DEF FullInv, MessagesInv, Reachable
<1>4. /\ \A k \in Nodes : k # n => node'[k] = node[k]
      /\ node'[n].link /\ node'[n].shards = {}
  <2>1. node \in [Nodes -> Node] /\ node[n] \in Node
    BY DEF Typed, FullTypeOK, TypeOK
  <2> PICK d : d = [node[n] EXCEPT !.link = TRUE]
    OBVIOUS
  <2>2. d.link = TRUE /\ d.shards = node[n].shards
    BY <2>1 DEF Node
  <2>3. node' = [node EXCEPT ![n] = d]
    BY DEF Reconnect
  <2> QED
    BY <1>2, <2>1, <2>2, <2>3
<1>5. PICK i : i = Identify(n, {})
  OBVIOUS
<1>6. net' = net \cup {i} /\ i.kind = "identify" /\ i.node = n /\ i.shards = {}
  BY <1>2, <1>5 DEF Reconnect, Identify
<1>7. \A k \in Nodes, x \in Shards : Open(k, x)' <=> Open(k, x)
  BY <1>1 DEF Open
<1>8. ShardsInv'
  <2>1. Moving => node'[job.to] = node[job.to]
    BY <1>2, <1>4, TwoNodes DEF Moving, Working
  <2> QED
    BY <1>1, <1>6, <1>7, <2>1, SameStage
<1>9. \A k \in Nodes : Leaving(k)' => Leaving(k)
  BY <1>1, <1>4, <1>6 DEF Leaving
<1>10. NodesInv'
  <2> SUFFICES ASSUME NEW k \in Nodes
               PROVE  /\ conn'[k].up => conn'[k].known
                      /\ ~conn'[k].known => conn'[k].shards = {} /\ node'[k].shards = {}
                      /\ conn'[k].known /\ node'[k].link => conn'[k].up
                      /\ node'[k].alive /\ ~node'[k].link => ~conn'[k].known
                      /\ Leaving(k)' => /\ conn'[k].known /\ conn'[k].shards = {}
                                        /\ \A x \in Shards : ~Open(k, x)'
                                        /\ k \notin job.todo /\ (job.at # "idle" => k \in job.ignore)
                                        /\ Working => k # job.from
    BY DEF NodesInv, Working
  <2>1. CASE k = n
    BY <1>1, <1>2, <1>4, <1>9, <2>1
  <2>2. CASE k # n
    BY <1>1, <1>4, <1>7, <1>9, <2>2 DEF FullInv, NodesInv
  <2> QED
    BY <2>1, <2>2
<1>11. MessagesInv'
  <2>1. \A q \in net : q.node # n /\ q.node \in Nodes
    BY <1>3, Fields DEF Typed, FullTypeOK, TypeOK
  <2>2. \A q \in net : Reachable(q.node) => Reachable(q.node)'
    BY <1>4, <1>6, <2>1 DEF Reachable
  <2> QED
    BY <1>1, <1>3, <1>4, <1>6, <2>1, <2>2 DEF FullInv, MessagesInv
<1>12. JobInv'
  BY <1>1 DEF FullInv, JobInv, Working, Moving
<1> QED
  BY <1>8, <1>10, <1>11, <1>12 DEF FullInv

-----------------------------------------------------------------------------
(* Steps of the goroutine.                                                   *)

\* One that changes only what it remembers, and is between two shards.
LEMMA JobOnly ==
  ASSUME Typed, Typed', FullInv, UNCHANGED vars, ~Moving, ~Moving', JobInv',
         \A n \in Nodes : Leaving(n) => /\ n \notin job'.todo
                                        /\ job'.at # "idle" => n \in job'.ignore
                                        /\ Working' => n # job'.from,
         Working' => job'.moved = {} \/ (Working /\ job'.moved = job.moved /\ job'.to = job.to)
  PROVE  FullInv'
<1>1. UNCHANGED <<conn, node, gw, net>>
  BY DEF vars
<1>2. \A k \in Nodes, x \in Shards : Open(k, x)' <=> Open(k, x)
  BY <1>1 DEF Open
<1>3. \A k \in Nodes : Leaving(k)' <=> Leaving(k)
  BY <1>1 DEF Leaving
<1>4. NodesInv'
  BY <1>1, <1>2, <1>3 DEF FullInv, NodesInv
<1>5. MessagesInv'
  BY <1>1 DEF FullInv, MessagesInv, Reachable
<1>6. ShardsInv'
  <2>1. \A k, x : x \in Shards => (Keeps(k, x)' <=> Keeps(k, x))
    BY <1>1, <1>2 DEF Keeps
  <2>2. AllPlaced' <=> AllPlaced
    BY DEF AllPlaced
  <2>3. \A x \in Shards : Kept(x)' <=> Kept(x)
    BY <2>1, <2>2 DEF Kept
  <2>4. Carrying' = {}
    BY <1>1 DEF FullInv, ShardsInv, Carrying
  <2>5. job.moved \subseteq Shards
    BY DEF Typed, FullTypeOK, Job
  <2>6. ASSUME Working', NEW x \in job'.moved PROVE Keeps(job.to, x)'
    <3>1. Working /\ x \in job.moved /\ job'.to = job.to
      BY <2>6
    <3>2. Keeps(job.to, x)
      BY <3>1 DEF FullInv, ShardsInv
    <3>3. PICK t : t = job.to
      OBVIOUS
    <3>4. Keeps(t, x)'
      BY <2>1, <2>5, <3>1, <3>2, <3>3
    <3> QED
      BY <3>1, <3>3, <3>4
  <2> QED
    BY <2>3, <2>4, <2>6 DEF FullInv, ShardsInv
<1> QED
  BY <1>4, <1>5, <1>6 DEF FullInv

LEMMA StartKeeps ==
  ASSUME Typed, Typed', FullInv, MigrateAllNodesToNewNodes
  PROVE  FullInv'
<1>1. /\ job.at = "idle" /\ UNCHANGED <<vars, conn>> /\ job'.at = "pick"
      /\ job'.todo = {n \in Nodes : conn[n].up /\ conn[n].shards # {}}
      /\ job'.ignore = {n \in Nodes : conn[n].known}
  BY DEF MigrateAllNodesToNewNodes, NoJob, vars
<1>2. ~Working /\ ~Working' /\ ~Moving /\ ~Moving'
  BY <1>1 DEF Working, Moving
<1>3. JobInv'
  BY <1>1, <1>2 DEF FullInv, NodesInv, JobInv
<1>4. \A n \in Nodes : Leaving(n) => n \notin job'.todo /\ n \in job'.ignore
  BY <1>1 DEF FullInv, NodesInv
<1> QED
  BY <1>1, <1>2, <1>3, <1>4, JobOnly

LEMMA PickKeeps ==
  ASSUME Typed, Typed', FullInv, NEW from \in Nodes, NEW to \in Nodes, MigrateFullNode(from, to)
  PROVE  FullInv'
<1>1. /\ job.at = "pick" /\ UNCHANGED <<vars, conn>> /\ job'.at = "next"
      /\ job'.from = from /\ job'.to = to /\ job'.todo = job.todo \ {from}
      /\ job'.ignore = job.ignore /\ job'.left = conn[from].shards /\ job'.moved = {}
      /\ ~job'.fromOld /\ ~job'.toOld
      /\ from \in job.todo /\ conn[from].known
      /\ to \notin job.ignore /\ conn[to].up
  BY DEF MigrateFullNode, NoJob, vars, Available
<1>2. ~Working /\ Working' /\ ~Moving /\ ~Moving'
  BY <1>1 DEF Working, Moving
<1>3. conn[to].known /\ from \in job.ignore
  BY <1>1 DEF FullInv, NodesInv, JobInv
<1>4. JobInv'
  BY <1>1, <1>2, <1>3 DEF FullInv, JobInv
<1>5. \A n \in Nodes : Leaving(n) => n \notin job'.todo /\ n \in job'.ignore /\ n # job'.from
  BY <1>1 DEF FullInv, NodesInv
<1> QED
  BY <1>1, <1>2, <1>4, <1>5, JobOnly

LEMMA EndKeeps ==
  ASSUME Typed, Typed', FullInv, Return \/ GiveUp
  PROVE  FullInv'
<1>1. /\ job.at \in {"pick", "next"} /\ UNCHANGED vars
      /\ job'.at = "idle" /\ job'.todo = {}
  BY DEF Return, GiveUp, NoJob
<1>2. ~Working' /\ ~Moving /\ ~Moving'
  BY <1>1 DEF Working, Moving
<1>3. JobInv'
  BY <1>1, <1>2 DEF JobInv
<1> QED
  BY <1>1, <1>2, <1>3, JobOnly

\* A loop of WaitForShardMigration ends, and with it what its stage excludes.
LEMMA SeesKeeps ==
  ASSUME Typed, Typed', FullInv, SeesGone \/ SeesThere
  PROVE  FullInv'
<1>1. Moving /\ Working /\ UNCHANGED <<vars, conn, node, gw, net>>
  BY DEF SeesGone, SeesThere, Moving, Working, vars
<1>2. PICK f, t, s : IsJob(f, t, s)
  BY <1>1, TheJob
<1>3. FromIsUp /\ ToConn = conn[t]
  BY <1>1, <1>2, TwoNodes DEF FromIsUp, ToConn, IsJob, FullInv, JobInv
<1>4. \/ job.at = "gone" /\ job'.at = "there" /\ s \notin conn[f].shards
      \/ job.at = "there" /\ job'.at = "calm" /\ s \in conn[t].shards
  BY <1>2, <1>3 DEF SeesGone, SeesThere, WaitOver, IsJob, Typed, FullTypeOK, Job
<1>5. /\ job'.from = job.from /\ job'.to = job.to /\ job'.shard = job.shard
      /\ job'.moved = job.moved /\ job'.todo = job.todo /\ job'.ignore = job.ignore
      /\ job'.left = job.left /\ job'.fromOld = job.fromOld /\ job'.toOld = job.toOld
  BY DEF SeesGone, SeesThere, Typed, FullTypeOK, Job
<1>6. Moving' /\ Working'
  BY <1>4 DEF Moving, Working
<1>7. \A k \in Nodes, x \in Shards : Open(k, x)' <=> Open(k, x)
  BY <1>1 DEF Open
<1>8. \A k \in Nodes : Leaving(k)' <=> Leaving(k)
  BY <1>1 DEF Leaving
<1>9. NodesInv'
  BY <1>1, <1>4, <1>5, <1>6, <1>7, <1>8 DEF FullInv, NodesInv
<1>10. MessagesInv'
  BY <1>1 DEF FullInv, MessagesInv, Reachable
<1>11. JobInv'
  BY <1>1, <1>2, <1>4, <1>5, <1>6 DEF FullInv, JobInv, IsJob
<1>12. Moves(f, t, s)'
  <2>1. f \in Nodes /\ t \in Nodes /\ s \in Shards /\ f # t /\ Moves(f, t, s)
    BY <1>1, <1>2 DEF IsJob, FullInv, ShardsInv
  <2>2. Carrying' = Carrying /\ Due' = Due
    BY <1>1 DEF Carrying, Due
  <2>3. Keeps(t, s)' <=> Keeps(t, s)
    BY <1>1, <1>7, <2>1 DEF Keeps
  <2>4. Nowhere(s)' <=> Nowhere(s)
    BY <1>1, <1>7, <2>1 DEF Nowhere
  <2>5. CASE job.at = "gone"
    <3>1. ~Lost(f, s) /\ ~Asked(f, s) /\ ~GivenUp(f, s)
      BY <1>4, <2>1, <2>5 DEF Lost, Asked, GivenUp, Keeps
    <3>2. job'.at = "there"
      BY <1>4, <2>5
    <3>3. Offered(t, s) => Offered(t, s)'
      BY <1>1, <2>2, <2>4, <3>2 DEF Offered
    <3>4. Ready(f, t, s) => Ready(f, t, s)'
      BY <1>1, <2>2, <2>4, <3>2 DEF Ready
    <3>5. Passing(f, t, s) => Passing(f, t, s)'
      BY <1>1, <2>2, <2>4, <3>2 DEF Passing
    <3>6. Resumed(t, s) => Resumed(t, s)'
      BY <1>1, <1>7, <2>1, <2>2, <3>2 DEF Resumed
    <3>7. SettledIn(t, s) => SettledIn(t, s)'
      BY <2>2, <2>3 DEF SettledIn
    <3> QED
      BY <1>1, <2>1, <3>1, <3>3, <3>4, <3>5, <3>6, <3>7 DEF Moves
  <2>6. CASE job.at = "there"
    <3>1. s \in conn[t].shards
      BY <1>4, <2>6
    <3>2. ~Lost(f, s) /\ ~Asked(f, s) /\ ~GivenUp(f, s)
      BY <2>6 DEF Lost, Asked, GivenUp
    <3>3. ~Nowhere(s)
      BY <2>1, <3>1 DEF Nowhere
    <3>4. ~Offered(t, s) /\ ~Ready(f, t, s) /\ ~Passing(f, t, s)
      BY <3>3 DEF Offered, Ready, Passing
    <3>5. ~Resumed(t, s)
      BY <2>1, <3>1 DEF Resumed
    <3>6. SettledIn(t, s) /\ conn[f].other = t /\ conn[t].other = f
      BY <2>1, <3>2, <3>4, <3>5 DEF Moves
    <3>7. SettledIn(t, s)'
      BY <2>2, <2>3, <3>6 DEF SettledIn
    <3> QED
      BY <1>1, <3>6, <3>7 DEF Moves
  <2> QED
    BY <1>4, <2>5, <2>6
<1>13. ShardsInv'
  <2>1. \A k, x : x \in Shards => (Keeps(k, x)' <=> Keeps(k, x))
    BY <1>1, <1>7 DEF Keeps
  <2>2. AllPlaced' <=> AllPlaced
    BY DEF AllPlaced
  <2>3. \A x \in Shards : Kept(x)' <=> Kept(x)
    BY <2>1, <2>2 DEF Kept
  <2>4. job.moved \subseteq Shards
    BY DEF Typed, FullTypeOK, Job
  <2>5. job'.to = t /\ job.to = t /\ job'.from = f /\ job'.shard = s /\ job.shard = s
    BY <1>2, <1>5 DEF IsJob
  <2>6. \A x \in job.moved : x # s => Keeps(t, x)'
    BY <1>1, <2>1, <2>4, <2>5 DEF FullInv, ShardsInv
  <2> QED
    BY <1>1, <1>5, <1>6, <1>12, <2>3, <2>5, <2>6 DEF FullInv, ShardsInv
<1> QED
  BY <1>9, <1>10, <1>11, <1>13 DEF FullInv

LEMMA CalmKeeps ==
  ASSUME Typed, Typed', FullInv, SeesCalm
  PROVE  FullInv'
<1>1. Moving /\ Working /\ UNCHANGED <<node, gw, net>> /\ job.at = "calm"
  BY DEF SeesCalm, Moving, Working
<1>2. PICK f, t, s : IsJob(f, t, s)
  BY <1>1, TheJob
<1>3. conn' = [[conn EXCEPT ![t].mode = "none"] EXCEPT ![f].mode = "none"]
  BY <1>1, <1>2 DEF SeesCalm, ResetMode, IsJob, FullInv, JobInv
<1>4. \A k \in Nodes : /\ conn'[k].known = conn[k].known /\ conn'[k].shards = conn[k].shards
                       /\ conn'[k].other = conn[k].other /\ conn'[k].up = conn[k].up
  <2>1. conn \in [Nodes -> Conn] /\ f \in Nodes /\ t \in Nodes /\ f # t
    BY <1>2 DEF Typed, FullTypeOK, TypeOK, IsJob
  <2> PICK c : c = [conn[f] EXCEPT !.mode = "none"]
    OBVIOUS
  <2> PICK d : d = [conn[t] EXCEPT !.mode = "none"]
    OBVIOUS
  <2>2. /\ c.known = conn[f].known /\ c.shards = conn[f].shards /\ c.other = conn[f].other
        /\ c.up = conn[f].up
        /\ d.known = conn[t].known /\ d.shards = conn[t].shards /\ d.other = conn[t].other
        /\ d.up = conn[t].up
    BY <2>1 DEF Conn
  <2>3. conn' = [conn EXCEPT ![t] = d, ![f] = c]
    BY <1>3, <2>1
  <2> QED
    BY <2>1, <2>2, <2>3
<1>5. /\ job'.at = "next" /\ job'.from = job.from /\ job'.to = job.to /\ job'.shard = job.shard
      /\ job'.moved = job.moved /\ job'.todo = job.todo /\ job'.ignore = job.ignore
      /\ job'.left = job.left /\ job'.fromOld = job.fromOld /\ job'.toOld = job.toOld
  BY DEF SeesCalm, Typed, FullTypeOK, Job
<1>6. ~Moving' /\ Working'
  BY <1>5 DEF Moving, Working
<1>7. \A k \in Nodes, x \in Shards : Open(k, x)' <=> Open(k, x)
  BY <1>1 DEF Open
<1>8. \A k \in Nodes : Leaving(k)' <=> Leaving(k)
  BY <1>1, <1>4 DEF Leaving
<1>9. NodesInv'
  BY <1>1, <1>4, <1>5, <1>6, <1>7, <1>8 DEF FullInv, NodesInv
<1>10. MessagesInv'
  <2>1. \A q \in net : q.node \in Nodes
    BY Fields DEF Typed, FullTypeOK, TypeOK
  <2> QED
    BY <1>1, <1>4, <2>1 DEF FullInv, MessagesInv, Reachable
<1>11. JobInv'
  <2>1. job.ignore \subseteq Nodes /\ job.from \in Nodes /\ job.to \in Nodes
    BY <1>1 DEF Typed, FullTypeOK, JobTyped, Job
  <2> QED
    BY <1>1, <1>4, <1>5, <1>6, <2>1 DEF FullInv, JobInv
<1>12. Keeps(t, s) /\ Carrying = {}
  <2>1. Moves(f, t, s)
    BY <1>1, <1>2 DEF FullInv, ShardsInv, IsJob
  <2>2. SettledIn(t, s)
    BY <1>1, <2>1 DEF Moves, Lost, Asked, GivenUp, Offered, Ready, Passing, Resumed
  <2> QED
    BY <2>2 DEF SettledIn
<1>13. ShardsInv'
  <2>1. \A k, x : x \in Shards => (Keeps(k, x)' <=> Keeps(k, x))
    BY <1>4, <1>7 DEF Keeps
  <2>2. AllPlaced' <=> AllPlaced
    BY DEF AllPlaced
  <2>3. \A x \in Shards : Kept(x)' <=> Kept(x)
    BY <2>1, <2>2 DEF Kept
  <2>4. job.moved \subseteq Shards
    BY DEF Typed, FullTypeOK, Job
  <2>5. job'.to = t /\ job.to = t /\ job.shard = s /\ t \in Nodes /\ t # NoNode /\ s \in Shards
    BY <1>2, <1>5 DEF IsJob
  <2>6. \A x \in job.moved : Keeps(t, x)'
    BY <1>1, <1>12, <2>1, <2>4, <2>5 DEF FullInv, ShardsInv
  <2>7. \A x \in Shards : Kept(x)
    BY <1>1, <1>12, <2>5 DEF FullInv, ShardsInv, Kept
  <2>8. Carrying' = {}
    BY <1>1, <1>12 DEF Carrying
  <2> QED
    BY <1>5, <1>6, <2>3, <2>5, <2>6, <2>7, <2>8 DEF ShardsInv
<1> QED
  BY <1>9, <1>10, <1>11, <1>13 DEF FullInv

\* The origin is told to give up the next shard.
LEMMA NextKeeps ==
  ASSUME Typed, Typed', FullInv, MigrateNext
  PROVE  FullInv'
<1>1. Working /\ ~Moving /\ job.at = "next"
  BY DEF MigrateNext, Moving, Working
<1>2. PICK f, t : f = job.from /\ t = job.to
  OBVIOUS
<1>3. /\ f \in Nodes /\ t \in Nodes /\ f # t /\ conn[f].known /\ conn[t].known
      /\ Reachable(f) /\ ~Leaving(f) /\ ~Leaving(t) /\ t # NoNode
  BY <1>1, <1>2, TwoNodes, ShardsAssumption
<1>4. PICK s \in job.left : \E from \in Nodes :
        /\ StartShardMigration(from, job.to, s)
        /\ job' = [job EXCEPT !.at = "gone", !.shard = s, !.left = @ \ {s}, !.moved = @ \cup {s}]
  BY Zenon DEF MigrateNext
<1>5. s \in Shards /\ s \in conn[f].shards /\ Keeps(f, s)
  <2>1. s \in Shards /\ s \in conn[f].shards
    BY <1>1, <1>2, <1>4 DEF Typed, FullTypeOK, Job, FullInv, JobInv
  <2>2. PICK k : Keeps(k, s)
    BY <1>1, <2>1 DEF FullInv, ShardsInv, Kept
  <2> QED
    BY <1>3, <2>1, <2>2 DEF Keeps
<1>6. StartShardMigration(f, t, s)
  BY <1>2, <1>4, <1>5 DEF StartShardMigration, Running, Keeps
<1>7. PICK p : p = Prepare("down", f, ops', s, TRUE, 0)
  OBVIOUS
<1>8. net' = net \cup {p} /\ IsPrepare(p, "down", f, s, TRUE) /\ UNCHANGED <<node, gw>>
  <2>1. p.node = f
    BY <1>7 DEF Prepare
  <2>2. Deliverable({p}) = {p}
    BY <1>3, <2>1 DEF Deliverable
  <2>3. net' = net \cup Deliverable({p}) /\ UNCHANGED <<node, gw>>
    BY <1>6, <1>7 DEF StartShardMigration
  <2> QED
    BY <1>7, <2>2, <2>3 DEF IsPrepare, Prepare
<1>9. /\ \A k \in Nodes : /\ conn'[k].known = conn[k].known /\ conn'[k].shards = conn[k].shards
                          /\ conn'[k].up = conn[k].up
      /\ conn'[f].other = t /\ conn'[t].other = f
  <2>1. conn \in [Nodes -> Conn]
    BY DEF Typed, FullTypeOK, TypeOK
  <2> PICK c : c = [conn[f] EXCEPT !.mode = "from", !.other = t, !.shard = s]
    OBVIOUS
  <2> PICK d : d = [conn[t] EXCEPT !.mode = "to", !.other = f, !.shard = s]
    OBVIOUS
  <2>2. /\ c.known = conn[f].known /\ c.shards = conn[f].shards /\ c.other = t
        /\ c.up = conn[f].up
        /\ d.known = conn[t].known /\ d.shards = conn[t].shards /\ d.other = f
        /\ d.up = conn[t].up
    BY <1>3, <2>1 DEF Conn
  <2>3. conn' = [conn EXCEPT ![f] = c, ![t] = d]
    BY <1>3, <1>6, <2>1 DEF StartShardMigration
  <2> QED
    BY <1>3, <2>1, <2>2, <2>3
<1>10. /\ job'.at = "gone" /\ job'.from = f /\ job'.to = t /\ job'.shard = s
       /\ job'.moved = job.moved \cup {s} /\ job'.todo = job.todo /\ job'.ignore = job.ignore
       /\ job'.left = job.left \ {s} /\ job'.fromOld = job.fromOld /\ job'.toOld = job.toOld
  BY <1>2, <1>4 DEF Typed, FullTypeOK, Job
<1>11. Moving' /\ Working'
  BY <1>10 DEF Moving, Working
<1>12. \A k \in Nodes, x \in Shards : Open(k, x)' <=> Open(k, x)
  BY <1>8 DEF Open
<1>13. \A k \in Nodes : Leaving(k)' => Leaving(k)
  BY <1>8, <1>9 DEF Leaving, IsPrepare
<1>14. NodesInv'
  BY <1>1, <1>2, <1>8, <1>9, <1>10, <1>11, <1>12, <1>13 DEF FullInv, NodesInv
<1>15. MessagesInv'
  <2>1. \A q \in net : q.node \in Nodes
    BY Fields DEF Typed, FullTypeOK, TypeOK
  <2>2. \A k \in Nodes : Reachable(k) => Reachable(k)'
    BY <1>8 DEF Reachable, IsPrepare
  <2> QED
    BY <1>3, <1>8, <1>9, <2>1, <2>2 DEF FullInv, MessagesInv, IsPrepare
<1>16. JobInv'
  <2>1. job.ignore \subseteq Nodes
    BY DEF Typed, FullTypeOK, Job
  <2> QED
    BY <1>1, <1>2, <1>3, <1>5, <1>9, <1>10, <1>11, <2>1 DEF FullInv, JobInv
<1>17. \A k, x : x \in Shards => (Keeps(k, x)' <=> Keeps(k, x))
  BY <1>9, <1>12 DEF Keeps
<1>18. Moves(f, t, s)'
  <2>1. Carrying = {}
    BY <1>1 DEF FullInv, ShardsInv
  <2>2. Carrying' = {p}
    BY <1>8, <2>1 DEF Carrying, IsPrepare
  <2>3. Asked(f, s)'
    BY <1>5, <1>8, <1>10, <1>17, <2>2 DEF Asked
  <2> QED
    BY <1>9, <2>3 DEF Moves
<1>19. ShardsInv'
  <2>1. AllPlaced' <=> AllPlaced
    BY DEF AllPlaced
  <2>2. \A x \in Shards : Kept(x)' <=> Kept(x)
    BY <1>17, <2>1 DEF Kept
  <2>3. job.moved \subseteq Shards
    BY DEF Typed, FullTypeOK, Job
  <2>4. \A x \in job.moved : Keeps(t, x)'
    BY <1>1, <1>2, <1>17, <2>3 DEF FullInv, ShardsInv
  <2> QED
    BY <1>1, <1>10, <1>11, <1>18, <2>2, <2>4 DEF FullInv, ShardsInv
<1> QED
  BY <1>14, <1>15, <1>16, <1>19 DEF FullInv

\* The destination has not identified: nobody will tell it to take the shard.
LEMMA EarlyKeeps ==
  ASSUME Typed, Typed', FullInv, NEW f \in Nodes, NEW t \in Nodes, MigrateToUnidentified(f, t)
  PROVE  FullInv'
<1>1. /\ job.at = "pick" /\ f \in job.todo \ {t} /\ conn[f].up /\ conn[f].mode = "none"
      /\ UNCHANGED <<node, gw>>
  BY DEF MigrateToUnidentified
<1>2. ~Working /\ ~Moving
  BY <1>1 DEF Moving, Working
<1>3. PICK m \in net, s \in conn[f].shards :
        /\ m.kind = "identify" /\ m.node = t /\ node[t].link
        /\ conn' = [conn EXCEPT
             ![f] = [@ EXCEPT !.mode = "from", !.other = NoNode, !.shard = s],
             ![t] = [Identified(m) EXCEPT !.mode = "to", !.other = f, !.shard = s]]
        /\ net' = (net \ {m}) \cup Deliverable({Prepare("down", f, ops', s, TRUE, 0)})
        /\ job' = [NoJob EXCEPT !.at = "gone", !.from = f, !.to = t, !.shard = s,
                     !.todo = job.todo \ {f}, !.ignore = job.ignore,
                     !.left = conn[f].shards \ {s}, !.moved = {s}]
  BY DEF MigrateToUnidentified
<1>4. /\ ~conn[t].known /\ m.shards = {} /\ conn[t].shards = {} /\ node[t].shards = {}
      /\ t \notin job.ignore /\ t \notin job.todo /\ ~Leaving(t) /\ t # f
      /\ \A q \in net : q.node = t => q = m
  <2>1. ~conn[t].known /\ m.shards = {}
    BY <1>3 DEF FullInv, MessagesInv
  <2>2. conn[t].shards = {} /\ node[t].shards = {} /\ t \notin job.ignore /\ t \notin job.todo /\ ~Leaving(t)
    BY <1>1, <2>1, Strangers
  <2>3. ASSUME NEW q \in net, q.node = t PROVE q = m
    BY <1>3, <2>3 DEF FullInv, MessagesInv, Reachable
  <2> QED
    BY <1>1, <2>1, <2>2, <2>3
<1>5. conn[f].known /\ f \in job.ignore /\ ~Leaving(f) /\ Reachable(f) /\ s \in Shards
  <2>1. conn[f].known /\ f \in job.ignore /\ ~Leaving(f)
    BY <1>1 DEF FullInv, NodesInv, JobInv
  <2>2. Reachable(f)
    BY <2>1 DEF Leaving, Reachable, FullInv, MessagesInv
  <2>3. s \in Shards
    BY DEF Typed, FullTypeOK, TypeOK, Conn
  <2> QED
    BY <2>1, <2>2, <2>3
<1>6. Keeps(f, s)
  <2>1. PICK k : Keeps(k, s)
    BY <1>2, <1>5 DEF FullInv, ShardsInv, Kept
  <2> QED
    BY <2>1 DEF Keeps
<1>7. PICK p : p = Prepare("down", f, ops', s, TRUE, 0)
  OBVIOUS
<1>8. net' = (net \ {m}) \cup {p} /\ IsPrepare(p, "down", f, s, TRUE)
  <2>1. p.node = f
    BY <1>7 DEF Prepare
  <2>2. Deliverable({p}) = {p}
    BY <1>5, <2>1 DEF Deliverable
  <2>3. net' = (net \ {m}) \cup Deliverable({p})
    BY <1>3, <1>7
  <2> QED
    BY <1>7, <2>2, <2>3 DEF IsPrepare, Prepare
<1>9. /\ \A k \in Nodes : conn'[k].shards = conn[k].shards
      /\ \A k \in Nodes : k # t => conn'[k].known = conn[k].known /\ conn'[k].up = conn[k].up
      /\ conn'[t].known /\ conn'[t].up /\ conn'[f].other = NoNode
  <2>1. conn \in [Nodes -> Conn]
    BY DEF Typed, FullTypeOK, TypeOK
  <2> PICK c : c = [conn[f] EXCEPT !.mode = "from", !.other = NoNode, !.shard = s]
    OBVIOUS
  <2> PICK d : d = [Identified(m) EXCEPT !.mode = "to", !.other = f, !.shard = s]
    OBVIOUS
  <2>2. /\ c.known = conn[f].known /\ c.shards = conn[f].shards /\ c.other = NoNode
        /\ c.up = conn[f].up
    BY <2>1 DEF Conn
  <2>3. d.known /\ d.shards = {} /\ d.up
    BY <1>4 DEF Identified, NewConn
  <2>4. conn' = [conn EXCEPT ![f] = c, ![t] = d]
    BY <1>3, <1>4, <2>1
  <2> QED
    BY <1>4, <2>1, <2>2, <2>3, <2>4
<1>10. /\ job'.at = "gone" /\ job'.from = f /\ job'.to = t /\ job'.shard = s
       /\ job'.moved = {s} /\ job'.todo = job.todo \ {f} /\ job'.ignore = job.ignore
       /\ job'.left = conn[f].shards \ {s} /\ ~job'.fromOld /\ ~job'.toOld
  BY <1>3 DEF NoJob
<1>11. Moving' /\ Working'
  BY <1>10 DEF Moving, Working
<1>12. \A k \in Nodes, x \in Shards : Open(k, x)' <=> Open(k, x)
  BY <1>1 DEF Open
<1>13. \A k \in Nodes : Leaving(k)' => Leaving(k)
  <2> SUFFICES ASSUME NEW k \in Nodes, Leaving(k)' PROVE Leaving(k)
    OBVIOUS
  <2>1. CASE k = t
    BY <1>1, <1>3, <1>4, <1>8, <2>1 DEF Leaving, IsPrepare
  <2>2. CASE k # t
    BY <1>1, <1>8, <1>9, <2>2 DEF Leaving, IsPrepare
  <2> QED
    BY <2>1, <2>2
<1>14. NodesInv'
  <2> SUFFICES ASSUME NEW k \in Nodes
               PROVE  /\ conn'[k].up => conn'[k].known
                      /\ ~conn'[k].known => conn'[k].shards = {} /\ node'[k].shards = {}
                      /\ conn'[k].known /\ node'[k].link => conn'[k].up
                      /\ node'[k].alive /\ ~node'[k].link => ~conn'[k].known
                      /\ Leaving(k)' => /\ conn'[k].known /\ conn'[k].shards = {}
                                        /\ \A x \in Shards : ~Open(k, x)'
                                        /\ k \notin job'.todo /\ (job'.at # "idle" => k \in job'.ignore)
                                        /\ Working' => k # job'.from
    BY DEF NodesInv
  <2>1. CASE k = t
    BY <1>1, <1>3, <1>4, <1>9, <1>13, <2>1
  <2>2. CASE k # t
    BY <1>1, <1>9, <1>10, <1>12, <1>13, <2>2 DEF FullInv, NodesInv
  <2> QED
    BY <2>1, <2>2
<1>15. MessagesInv'
  <2>1. \A q \in net' : q = p \/ (q \in net /\ q.node # t /\ q.node \in Nodes)
    BY <1>4, <1>8, Fields DEF Typed, FullTypeOK, TypeOK
  <2>2. \A k \in Nodes : Reachable(k) => Reachable(k)'
    BY <1>1, <1>8 DEF Reachable, IsPrepare
  <2>3. p.kind # "identify" /\ p.node = f
    BY <1>8 DEF IsPrepare
  <2> QED
    BY <1>1, <1>5, <1>9, <2>1, <2>2, <2>3 DEF FullInv, MessagesInv
<1>16. JobInv'
  <2>1. job.ignore \subseteq Nodes
    BY DEF Typed, FullTypeOK, Job
  <2> QED
    BY <1>1, <1>4, <1>5, <1>9, <1>10, <1>11, <2>1 DEF FullInv, JobInv
<1>17. \A k, x : x \in Shards => (Keeps(k, x)' <=> Keeps(k, x))
  BY <1>9, <1>12 DEF Keeps
<1>18. Lost(f, s)'
  <2>1. Carrying = {}
    BY <1>2 DEF FullInv, ShardsInv
  <2>2. Carrying' = {p}
    BY <1>8, <2>1 DEF Carrying, IsPrepare
  <2>3. \A k \in Nodes : Open(k, s)' => k = f
    BY <1>5, <1>6, <1>12 DEF Keeps
  <2>4. s \in conn'[f].shards
    BY <1>9
  <2>5. \E q \in net' : Carrying' = {q} /\ \E dir \in Dirs : IsPrepare(q, dir, f, s, TRUE)
    BY <1>8, <2>2 DEF Dirs
  <2> QED
    BY <1>9, <1>10, <2>3, <2>4, <2>5 DEF Lost
<1>19. ShardsInv'
  <2>1. AllPlaced' <=> AllPlaced
    BY DEF AllPlaced
  <2>2. \A x \in Shards : Kept(x)' <=> Kept(x)
    BY <1>17, <2>1 DEF Kept
  <2>3. Moves(f, t, s)'
    BY <1>18 DEF Moves
  <2> QED
    BY <1>2, <1>10, <1>11, <2>2, <2>3 DEF FullInv, ShardsInv
<1> QED
  BY <1>14, <1>15, <1>16, <1>19 DEF FullInv

\* When every shard of the origin has been moved, nothing is open there any
\* more, and what was moved is open on the new node.
LEMMA AllMoved ==
  ASSUME Typed, FullInv, job.at = "next", job.left = {}
  PROVE  /\ job.from \in Nodes /\ conn[job.from].shards = {}
         /\ \A s \in Shards : ~Open(job.from, s)
         /\ \A s \in job.moved : Open(job.to, s)
<1>1. Working /\ ~Moving
  BY DEF Working, Moving
<1>2. PICK f, t : f = job.from /\ t = job.to
  OBVIOUS
<1>3. f \in Nodes /\ t \in Nodes
  BY <1>1, <1>2, TwoNodes
<1>4. conn[f].shards = {}
  BY <1>1, <1>2 DEF FullInv, JobInv
<1>5. ASSUME NEW s \in Shards PROVE ~Open(f, s)
  <2>1. PICK k : Keeps(k, s)
    BY <1>1 DEF FullInv, ShardsInv, Kept
  <2> QED
    BY <1>3, <1>4, <2>1 DEF Keeps
<1>6. ASSUME NEW s \in job.moved PROVE Open(t, s)
  <2>1. Keeps(t, s)
    BY <1>1, <1>2 DEF FullInv, ShardsInv
  <2> QED
    BY <1>3, <2>1 DEF Keeps
<1> QED
  BY <1>2, <1>3, <1>4, <1>5, <1>6

LEMMA FinishedKeeps ==
  ASSUME Typed, Typed', FullInv, Finished
  PROVE  FullInv'
<1>1. /\ job.at = "next" /\ job.left = {} /\ ShutdownNode(job.from)
      /\ UNCHANGED <<conn, node, gw>>
  BY DEF Finished, ShutdownNode
<1>2. Working /\ ~Moving
  BY <1>1 DEF Working, Moving
<1>3. PICK f : f = job.from
  OBVIOUS
<1>4. /\ f \in Nodes /\ conn[f].shards = {} /\ conn[f].known /\ Reachable(f)
      /\ \A s \in Shards : ~Open(f, s)
  BY <1>1, <1>2, <1>3, AllMoved, TwoNodes
<1>5. f \in job.ignore /\ f \notin job.todo
  BY <1>2, <1>3 DEF FullInv, JobInv
<1>6. PICK p : p = Shutdown(f, ops')
  OBVIOUS
<1>7. net' = net \cup {p} /\ p.kind = "shutdown" /\ p.node = f
  <2>1. p.node = f /\ p.kind = "shutdown"
    BY <1>6 DEF Shutdown
  <2>2. Deliverable({p}) = {p}
    BY <1>4, <2>1 DEF Deliverable
  <2>3. net' = net \cup Deliverable({p})
    BY <1>1, <1>3, <1>6 DEF ShutdownNode
  <2> QED
    BY <2>1, <2>2, <2>3
<1>8. job'.at = "pick" /\ job'.todo = job.todo /\ job'.ignore = job.ignore
  BY DEF Finished, Typed, FullTypeOK, Job
<1>9. ~Working' /\ ~Moving'
  BY <1>8 DEF Working, Moving
<1>10. \A k \in Nodes, x \in Shards : Open(k, x)' <=> Open(k, x)
  BY <1>1 DEF Open
<1>11. \A k \in Nodes : Leaving(k)' => k = f \/ Leaving(k)
  BY <1>1, <1>7 DEF Leaving
<1>12. NodesInv'
  <2> SUFFICES ASSUME NEW k \in Nodes
               PROVE  /\ conn'[k].up => conn'[k].known
                      /\ ~conn'[k].known => conn'[k].shards = {} /\ node'[k].shards = {}
                      /\ conn'[k].known /\ node'[k].link => conn'[k].up
                      /\ node'[k].alive /\ ~node'[k].link => ~conn'[k].known
                      /\ Leaving(k)' => /\ conn'[k].known /\ conn'[k].shards = {}
                                        /\ \A x \in Shards : ~Open(k, x)'
                                        /\ k \notin job'.todo /\ (job'.at # "idle" => k \in job'.ignore)
                                        /\ Working' => k # job'.from
    BY DEF NodesInv
  <2>1. CASE k = f
    BY <1>1, <1>4, <1>5, <1>8, <1>9, <1>10, <2>1 DEF FullInv, NodesInv
  <2>2. CASE k # f
    BY <1>1, <1>2, <1>8, <1>9, <1>10, <1>11, <2>2 DEF FullInv, NodesInv
  <2> QED
    BY <2>1, <2>2
<1>13. MessagesInv'
  <2>1. \A k \in Nodes : Reachable(k) => Reachable(k)'
    BY <1>1, <1>7 DEF Reachable
  <2>2. \A q \in net : q.node \in Nodes
    BY Fields DEF Typed, FullTypeOK, TypeOK
  <2> QED
    BY <1>1, <1>4, <1>7, <2>1, <2>2 DEF FullInv, MessagesInv
<1>14. JobInv'
  BY <1>1, <1>2, <1>8, <1>9 DEF FullInv, JobInv
<1>15. ShardsInv'
  <2>1. \A k, x : x \in Shards => (Keeps(k, x)' <=> Keeps(k, x))
    BY <1>1, <1>10 DEF Keeps
  <2>2. AllPlaced' <=> AllPlaced
    BY DEF AllPlaced
  <2>3. \A x \in Shards : Kept(x)' <=> Kept(x)
    BY <2>1, <2>2 DEF Kept
  <2>4. Carrying' = {}
    BY <1>2, <1>7 DEF FullInv, ShardsInv, Carrying
  <2> QED
    BY <1>2, <1>9, <2>3, <2>4 DEF FullInv, ShardsInv
<1> QED
  BY <1>12, <1>13, <1>14, <1>15 DEF FullInv

LEMMA JobKeeps ==
  ASSUME Typed, Typed', FullInv, JobStep
  PROVE  FullInv'
BY PickKeeps, EarlyKeeps, EndKeeps, NextKeeps, SeesKeeps, CalmKeeps, FinishedKeeps DEF JobStep
-----------------------------------------------------------------------------
LEMMA FullInitInv == FInit => FullIInv
<1> SUFFICES ASSUME FInit PROVE Typed /\ FullInv
  BY DEF FullIInv, WhileConnected
<1>1. Typed
  BY FullInitTyping DEF Typed
<1>2. PICK at \in Placements :
        /\ conn = [n \in Nodes |-> IF n \in Newcomers THEN NoConn
                                   ELSE NewConn({s \in Shards : at[s] = n})]
        /\ node = [n \in Nodes |->
             [alive |-> TRUE, link |-> n \notin Newcomers, shards |-> {s \in Shards : at[s] = n},
              mode |-> "none", shard |-> 0, session |-> 0, processed |-> 0,
              total |-> 0, op |-> 0, own |-> 0]]
        /\ gw = [n \in Nodes |-> [s \in Shards |->
             IF at[s] = n THEN [st |-> "open", session |-> 1]
                          ELSE [st |-> "closed", session |-> 0]]]
  BY DEF FInit, Init
<1>3. net = {} /\ job.at = "idle"
  BY DEF FInit, Init, NoJob
<1>4. ~Working /\ ~Moving
  BY <1>3 DEF Working, Moving
<1>5. \A s \in Shards : at[s] \in Nodes \cup {NoNode} /\ at[s] \notin Newcomers
  BY ShardsAssumption
<1>6. \A n \in Nodes, s \in Shards : Open(n, s) <=> at[s] = n
  BY <1>2 DEF Open
<1>7. \A n \in Nodes : /\ conn[n].known <=> n \notin Newcomers
                       /\ conn[n].up <=> n \notin Newcomers
                       /\ conn[n].shards = {s \in Shards : at[s] = n}
                       /\ node[n].shards = {s \in Shards : at[s] = n}
                       /\ node[n].link <=> n \notin Newcomers
  <2> SUFFICES ASSUME NEW n \in Nodes
               PROVE  /\ conn[n].known <=> n \notin Newcomers
                      /\ conn[n].up <=> n \notin Newcomers
                      /\ conn[n].shards = {s \in Shards : at[s] = n}
                      /\ node[n].shards = {s \in Shards : at[s] = n}
                      /\ node[n].link <=> n \notin Newcomers
    OBVIOUS
  <2>1. node[n].shards = {s \in Shards : at[s] = n} /\ (node[n].link <=> n \notin Newcomers)
    BY <1>2
  <2>2. CASE n \in Newcomers
    <3>1. {s \in Shards : at[s] = n} = {}
      BY <1>5, <2>2
    <3>2. conn[n] = NoConn
      BY <1>2, <2>2
    <3>3. NoConn.known = FALSE /\ NoConn.up = FALSE /\ NoConn.shards = {}
      BY DEF NoConn, NewConn
    <3> QED
      BY <2>1, <2>2, <3>1, <3>2, <3>3
  <2>3. CASE n \notin Newcomers
    <3>1. conn[n] = NewConn({s \in Shards : at[s] = n})
      BY <1>2, <2>3
    <3> QED
      BY <2>1, <2>3, <3>1 DEF NewConn
  <2> QED
    BY <2>2, <2>3
<1>8. \A n \in Nodes : ~Leaving(n)
  BY <1>3, <1>7 DEF Leaving
<1>9. NodesInv
  <2>1. \A n \in Newcomers : {s \in Shards : at[s] = n} = {}
    BY <1>5
  <2> QED
    BY <1>7, <1>8, <2>1 DEF NodesInv
<1>10. MessagesInv /\ JobInv
  BY <1>3, <1>4 DEF MessagesInv, JobInv
<1>11. ShardsInv
  <2>1. ASSUME NEW s \in Shards PROVE Kept(s)
    <3>1. Keeps(at[s], s)
      BY <1>6, <1>7 DEF Keeps
    <3>2. AllPlaced => at[s] # NoNode
      BY DEF AllPlaced
    <3> QED
      BY <1>5, <3>1, <3>2 DEF Kept
  <2>2. Carrying = {}
    BY <1>3 DEF Carrying
  <2> QED
    BY <1>4, <2>1, <2>2 DEF ShardsInv
<1> QED
  BY <1>1, <1>9, <1>10, <1>11 DEF FullInv

LEMMA ProtocolKeeps ==
  ASSUME ~SlowOpen, Typed, Typed', FullInv, ProtocolStep
  PROVE  FullInv'
BY IdentifyKeeps, OrchestratorMoves, NodeMoves, ShutsDownKeeps, GatewayKeeps DEF ProtocolStep

LEMMA FullStepInv ==
  ASSUME ~SlowOpen, FullIInv, [FNext]_fvars
  PROVE  FullIInv'
<1>1. Typed /\ Typed'
  BY FullStepTyping DEF FullIInv, Typed
<1> SUFFICES ASSUME drops' = 0 PROVE FullInv'
  BY <1>1 DEF FullIInv, WhileConnected
<1>2. drops \in Nat
  BY <1>1, BoundsAssumption DEF Typed, FullTypeOK, TypeOK
<1>3. ASSUME FullInv, Disturbance PROVE FALSE
  <2>1. \A n \in Nodes : ~Drop(n) /\ ~Die(n)
    BY <1>2 DEF Drop, Die
  <2>2. ~Restart
    BY <1>2 DEF Restart
  <2>3. \A m \in net : ~Lose(m)
    BY <1>3 DEF Lose, FullInv, MessagesInv
  <2> QED
    BY <1>3, <2>1, <2>2, <2>3 DEF Disturbance
<1>4. drops = 0 => FullInv
  BY DEF FullIInv, WhileConnected
<1>5. CASE MigrateAllNodesToNewNodes
  BY <1>1, <1>4, <1>5, StartKeeps DEF MigrateAllNodesToNewNodes, vars
<1>6. CASE JobStep
  <2>1. drops' = drops
    BY <1>6, Zenon DEF JobStep, MigrateFullNode, MigrateToUnidentified, Return, MigrateNext, GiveUp,
                SeesGone, SeesThere, SeesCalm, Finished, StartShardMigration, ShutdownNode, vars
  <2> QED
    BY <1>1, <1>4, <1>6, <2>1, JobKeeps
<1>7. CASE ProtocolStep
  <2>1. drops' = drops
    <3>1. ASSUME NEW m \in net, HandleIdentify(m) \/ OrchestratorStep(m) PROVE drops' = drops
      BY <3>1, Zenon DEF HandleIdentify, OrchestratorStep, HandleStarted, HandleStopped,
                  HandleOriginReady, HandleDestReady, HandleAllSent, HandleUserEvt
    <3>2. ASSUME NEW m \in net, NodeStep(m) PROVE drops' = drops
      BY <3>2, Zenon DEF NodeStep, StartsShards, StopsShard, PreparesOrigin, PreparesDest,
                  TransfersFrom, LearnsTotal, HandlesUserEvt, Noticed, ShutsDown
    <3>3. ASSUME NEW n \in Nodes, NEW s \in Shards, GatewayOpens(n, s) PROVE drops' = drops
      BY <3>3 DEF GatewayOpens
    <3> QED
      BY <1>7, <3>1, <3>2, <3>3 DEF ProtocolStep
  <2> QED
    BY <1>1, <1>4, <1>7, <2>1, ProtocolKeeps
<1>8. CASE FRecovery
  <2>1. PICK n \in Nodes : NoticeDrop(n) \/ Reconnect(n)
    BY <1>8 DEF FRecovery, Recovery
  <2>2. drops' = drops /\ job' = job
    BY <1>8, <2>1 DEF FRecovery, NoticeDrop, Reconnect
  <2> QED
    BY <1>1, <1>4, <2>1, <2>2, NoticeKeeps, ReconnectKeeps
<1>9. CASE Disturbance
  <2>1. drops = 0
    <3>1. drops' = drops \/ drops' = drops + 1
      BY <1>9 DEF Disturbance, Drop, Die, Restart, Lose
    <3> QED
      BY <1>2, <3>1
  <2> QED
    BY <1>3, <1>4, <1>9, <2>1
<1>10. CASE UNCHANGED fvars
  <2>1. UNCHANGED <<conn, node, gw, net, job, drops>>
    BY <1>10 DEF fvars, vars
  <2>2. FullInv
    BY <1>4, <2>1
  <2>3. \A k \in Nodes, x \in Shards : Open(k, x)' <=> Open(k, x)
    BY <2>1 DEF Open
  <2>4. ShardsInv'
    BY <1>1, <2>1, <2>2, <2>3, SameStage
  <2>5. \A k \in Nodes : Leaving(k)' <=> Leaving(k)
    BY <2>1 DEF Leaving
  <2>6. NodesInv'
    BY <2>1, <2>2, <2>3, <2>5 DEF FullInv, NodesInv, Working
  <2>7. MessagesInv' /\ JobInv'
    BY <2>1, <2>2 DEF FullInv, MessagesInv, Reachable, JobInv, Working, Moving
  <2> QED
    BY <2>4, <2>6, <2>7 DEF FullInv
<1> QED
  BY <1>5, <1>6, <1>7, <1>8, <1>9, <1>10 DEF FNext

\* Where a shard is while it is moved: in one node at most.
LEMMA OneHolder ==
  ASSUME Typed, FullInv
  PROVE  Alone
<1> SUFFICES ASSUME NEW s \in Shards, NEW m \in Nodes, NEW n \in Nodes, Open(m, s), Open(n, s)
             PROVE  m = n
  BY DEF Alone
<1>1. CASE Moving => s # job.shard
  BY <1>1 DEF FullInv, ShardsInv, Kept, Keeps
<1>2. CASE Moving /\ s = job.shard
  <2>1. PICK f, t : Moves(f, t, s)
    BY <1>2 DEF FullInv, ShardsInv
  <2>2. Lost(f, s) \/ Asked(f, s) => m = n
    BY DEF Lost, Asked, Keeps
  <2>3. GivenUp(f, s) \/ Offered(t, s) \/ Ready(f, t, s) => m = n
    BY DEF GivenUp, Offered, Ready, Nowhere
  <2>4. Passing(f, t, s) => m = n
    BY DEF Passing, Nowhere
  <2>5. Resumed(t, s) \/ SettledIn(t, s) => m = n
    BY DEF Resumed, SettledIn, Keeps
  <2> QED
    BY <2>1, <2>2, <2>3, <2>4, <2>5 DEF Moves
<1> QED
  BY <1>1, <1>2

\* Only a finished migration of a node tells a node to shut down.
LEMMA OnlyFinished ==
  ASSUME FNext, NEW m \in net', m \notin net, m.kind = "shutdown"
  PROVE  Finished
<1> USE DEF Prepare, Start, Stop, StartMigration, AllSent, UserEvt, Identify, Deliverable
<1>1. net' # net
  OBVIOUS
<1>2. CASE MigrateAllNodesToNewNodes \/ Disturbance
  BY <1>1, <1>2 DEF MigrateAllNodesToNewNodes, vars, Disturbance, Drop, Die, Kill, Lose, Restart,
                    LoseOrchestrator
<1>3. CASE FRecovery
  BY <1>3 DEF FRecovery, Recovery, NoticeDrop, Reconnect
<1>4. CASE JobStep
  <2>1. ASSUME NEW from \in Nodes, NEW to \in Nodes, MigrateFullNode(from, to) PROVE FALSE
    BY <1>1, <2>1 DEF MigrateFullNode, vars
  <2>2. ASSUME NEW from \in Nodes, NEW to \in Nodes, MigrateToUnidentified(from, to) PROVE FALSE
    <3>1. PICK q, s : net' = (net \ {q}) \cup Deliverable({Prepare("down", from, ops', s, TRUE, 0)})
      BY <2>2 DEF MigrateToUnidentified
    <3> QED
      BY <3>1
  <2>3. ASSUME MigrateNext PROVE FALSE
    <3>1. PICK s, from : StartShardMigration(from, job.to, s)
      BY <2>3, Zenon DEF MigrateNext
    <3>2. net' = net \cup Deliverable({Prepare("down", from, ops', s, TRUE, 0)})
      BY <3>1 DEF StartShardMigration
    <3> QED
      BY <3>2
  <2>4. ~Return /\ ~GiveUp /\ ~SeesGone /\ ~SeesThere /\ ~SeesCalm
    BY <1>1 DEF Return, GiveUp, SeesGone, SeesThere, SeesCalm, vars
  <2> QED
    BY <1>4, <2>1, <2>2, <2>3, <2>4 DEF JobStep
<1>5. CASE ProtocolStep
  <2>1. ASSUME NEW q \in net, HandleIdentify(q) \/ OrchestratorStep(q) PROVE FALSE
    BY <2>1 DEF HandleIdentify, OrchestratorStep, HandleStarted, HandleStopped,
                HandleOriginReady, HandleDestReady, HandleAllSent, HandleUserEvt, Forward
  <2>2. ASSUME NEW q \in net, NodeStep(q) PROVE FALSE
    <3>1. CASE StartsShards(q) \/ StopsShard(q) \/ PreparesOrigin(q) \/ PreparesDest(q)
      BY <3>1 DEF StartsShards, StopsShard, PreparesOrigin, PreparesDest
    <3>2. ASSUME TransfersFrom(q) PROVE FALSE
      <4>1. PICK k : net' = (net \ {q}) \cup {AllSent("up", q.node, q.op, k)}
                             \cup {UserEvt("up", q.node, q.op, i) : i \in 1 .. k}
        BY <3>2 DEF TransfersFrom
      <4>2. m # AllSent("up", q.node, q.op, k) /\ \A i : m # UserEvt("up", q.node, q.op, i)
        OBVIOUS
      <4> HIDE DEF UserEvt
      <4> QED
        BY <4>1, <4>2
    <3>3. ASSUME NEW nd, NEW done \in BOOLEAN, Noticed(q, nd, done) PROVE FALSE
      <4>1. CASE ~done
        <5>1. net' = net \ {q}
          BY <3>3, <4>1 DEF Noticed
        <5> QED
          BY <5>1
      <4>2. CASE done /\ nd.shard # NoShard
        <5>1. net' = (net \ {q}) \cup {Start("up", q.node, nd.op, {nd.shard})}
          BY <3>3, <4>2 DEF Noticed, Finish
        <5> QED
          BY <5>1
      <4>3. CASE done /\ nd.shard = NoShard
        <5>1. net' = {x \in net : x.node # q.node}
          BY <3>3, <4>3 DEF Noticed, Kill
        <5> QED
          BY <5>1
      <4> QED
        BY <4>1, <4>2, <4>3
    <3>4. CASE LearnsTotal(q) \/ HandlesUserEvt(q)
      BY <3>3, <3>4 DEF LearnsTotal, HandlesUserEvt, EnoughHandled
    <3>5. CASE ShutsDown(q)
      BY <3>5 DEF ShutsDown, Kill
    <3> QED
      BY <2>2, <3>1, <3>2, <3>4, <3>5 DEF NodeStep
  <2>3. ASSUME NEW n \in Nodes, NEW s \in Shards, GatewayOpens(n, s) PROVE FALSE
    BY <2>3 DEF GatewayOpens
  <2> QED
    BY <1>5, <2>1, <2>2, <2>3 DEF ProtocolStep
<1> QED
  BY <1>2, <1>3, <1>4, <1>5 DEF FNext

(* A full migration that came to an end (MigrateAllNodesToNewNodes), while no
   connection was lost, has left no shard without a gateway, if every shard had
   one: whichever of its ends that was, and whatever node it had chosen.  One
   that chose a node that had not identified has closed a shard for good, but
   does not come to an end.                                                  *)
THEOREM FullMigrationLosesNoShard ==
  ASSUME ~SlowOpen, AllPlaced
  PROVE  FSpec => []NoShardLost
<1>1. FInit => FullIInv
  BY FullInitInv
<1>2. FullIInv /\ [FNext]_fvars => FullIInv'
  BY FullStepInv
<1>3. FullIInv => NoShardLost
  <2> SUFFICES ASSUME Typed, FullInv, job.at = "idle", NEW s \in Shards
               PROVE  \E n \in Nodes : Open(n, s)
    BY DEF FullIInv, WhileConnected, NoShardLost
  <2>1. ~Moving
    BY DEF Moving
  <2>2. PICK n \in Nodes : Keeps(n, s)
    BY <2>1 DEF FullInv, ShardsInv, Kept
  <2> QED
    BY <2>2 DEF Keeps
<1> QED
  BY <1>1, <1>2, <1>3, PTL DEF FSpec

(* While no connection was lost, a node is told to shut down (ShutdownNode at
   the end of MigrateFullNode) only when nothing is open in it any more and all
   that was moved from it is open in the new node.                           *)
THEOREM FullMigrationShutsDownEmptyNodes ==
  ASSUME ~SlowOpen
  PROVE  FSpec => ShutsDownEmptyNode
<1>1. FInit => FullIInv
  BY FullInitInv
<1>2. FullIInv /\ [FNext]_fvars => FullIInv'
  BY FullStepInv
<1> DEFINE Emptied == \A m \in net' \ net : m.kind = "shutdown" /\ drops = 0 =>
                        /\ \A s \in Shards : ~Open(m.node, s)
                        /\ \A s \in job.moved : Open(job.to, s)
<1>3. FullIInv /\ [FNext]_fvars => [Emptied]_fvars
  <2> SUFFICES ASSUME FullIInv, FNext, NEW m \in net', m \notin net, m.kind = "shutdown", drops = 0
               PROVE  /\ \A s \in Shards : ~Open(m.node, s)
                      /\ \A s \in job.moved : Open(job.to, s)
    OBVIOUS
  <2>1. Typed /\ FullInv
    BY DEF FullIInv, WhileConnected
  <2>2. Finished
    BY OnlyFinished
  <2>3. m.node = job.from
    BY <2>2 DEF Finished, ShutdownNode, Deliverable, Shutdown
  <2>4. job.at = "next" /\ job.left = {}
    BY <2>2 DEF Finished
  <2> QED
    BY <2>1, <2>3, <2>4, AllMoved
<1> QED
  BY <1>1, <1>2, <1>3, PTL DEF FSpec, ShutsDownEmptyNode

(* While no connection was lost, a full migration never has a gateway of one
   shard in two nodes: WaitForShardMigration lets it go on with the next shard
   only when the destination has this one.                                   *)
THEOREM FullMigrationKeepsOneGateway ==
  ASSUME ~SlowOpen
  PROVE  FSpec => [](drops = 0 => Alone /\ OneGatewayPerShard)
<1>1. FInit => FullIInv
  BY FullInitInv
<1>2. FullIInv /\ [FNext]_fvars => FullIInv'
  BY FullStepInv
<1>3. FullIInv => (drops = 0 => Alone /\ OneGatewayPerShard)
  BY OneHolder DEF FullIInv, WhileConnected, Alone, OneGatewayPerShard
<1> QED
  BY <1>1, <1>2, <1>3, PTL DEF FSpec
=============================================================================
