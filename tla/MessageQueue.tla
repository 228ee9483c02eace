----------------------------- MODULE MessageQueue -----------------------------
(***************************************************************************)
(* common/mqueue: messages to be sent to Discord are put into a sorted set *)
(* of Redis and announced over pubsub; in each process one goroutine       *)
(* (MqueueServer.Run) keeps the work of the shards that are ready there    *)
(* and hands it to a few goroutines that send it, one per channel.         *)
(*                                                                         *)
(* A process hears of a message in two ways, the announcement and a        *)
(* refresh that reads the whole queue when it starts or a shard becomes    *)
(* ready, and remembers nothing of the messages it is done with.           *)
(*                                                                         *)
(* All messages are for guilds of one shard.  Announcements are taken in   *)
(* any order, and findWork may choose any message whose channel is free:   *)
(* the code prefers the channel it has not sent to for longest.            *)
(***************************************************************************)
EXTENDS Integers, FiniteSets

CONSTANTS
  Items, Channels,
  Channel,      \* the channel of each message
  Procs,        \* processes of the bot
  MaxSends,     \* max_concurrent_sends
  MaxLoad,      \* bound: messages and running processes, taken together
  MaxTroubles   \* bound: moves of the shard, processes that end, sends and calls
                \* of Redis that fail

NoProc == "no process"

ASSUME QueueAssumption ==
  /\ Channel \in [Items -> Channels]
  /\ NoProc \notin Procs
  /\ MaxSends \in Nat \ {0}
  /\ MaxLoad \in Nat /\ MaxTroubles \in Nat

VARIABLES
  queue,       \* Redis: mqueue
  unannounced, \* appended to the queue, and not yet published
  home,        \* the process where the shard is ready
  up,          \* processes that run a server, and are subscribed
  inbox,       \* per process: announcements to be read
  refresh,     \* per process: refreshes asked for; TRUE is the forced one
  total,       \* per process: totalWork
  present,     \* per process: totalWorkPresent
  local,       \* per process: localWork
  active,      \* per process and message: whether it is being sent, and how it went
  created,     \* messages that were queued
  sends,       \* per message: how often Discord has got it
  refused,     \* messages that Discord does not want
  lost,        \* an announcement or a refresh has failed
  kept,        \* messages that were done with, and whose removal from Redis failed
  excuses,     \* refreshes, moves of the shard, and sends that only seemed to fail
  troubles

redis    == <<queue, unannounced>>
cache    == <<total, present>>
counters == <<lost, kept, excuses, troubles>>
vars == <<redis, home, up, inbox, refresh, cache, local, active, created, sends,
          refused, counters>>

Stages == {"idle", "sending", "done", "retry"}

TypeOK ==
  /\ queue \subseteq created /\ unannounced \subseteq created
  /\ home \in up \cup {NoProc} /\ up \subseteq Procs
  /\ inbox \in [Procs -> SUBSET created]
  /\ refresh \in [Procs -> SUBSET BOOLEAN]
  /\ total \in [Procs -> SUBSET created] /\ present \in [Procs -> BOOLEAN]
  /\ \A p \in Procs : ~present[p] => total[p] = {}
  /\ local \in [Procs -> SUBSET created]
  /\ active \in [Procs -> [Items -> Stages]]
  /\ created \subseteq Items /\ refused \subseteq created
  /\ sends \in [Items -> Nat]
  /\ lost \in BOOLEAN /\ kept \subseteq created /\ excuses \in Nat /\ troubles \in 0 .. MaxTroubles

Idle == [i \in Items |-> "idle"]

Trouble == troubles < MaxTroubles /\ troubles' = troubles + 1

Init ==
  /\ queue = {} /\ unannounced = {} /\ created = {}
  /\ home = NoProc /\ up = {}
  /\ inbox = [p \in Procs |-> {}] /\ refresh = [p \in Procs |-> {}]
  /\ total = [p \in Procs |-> {}] /\ present = [p \in Procs |-> FALSE]
  /\ local = [p \in Procs |-> {}] /\ active = [p \in Procs |-> Idle]
  /\ sends = [i \in Items |-> 0] /\ refused = {}
  /\ lost = FALSE /\ kept = {} /\ excuses = 0 /\ troubles = 0

Room == Cardinality(created) + Cardinality(up) < MaxLoad

-----------------------------------------------------------------------------
(* QueueMessage, in any process.                                           *)

AppendItem(i) ==
  /\ i \notin created /\ Room
  /\ created' = created \cup {i}
  /\ queue' = queue \cup {i}
  /\ unannounced' = unannounced \cup {i}
  /\ UNCHANGED <<home, up, inbox, refresh, cache, local, active, sends, refused, counters>>

Publish(i) ==
  /\ i \in unannounced
  /\ unannounced' = unannounced \ {i}
  /\ inbox' = [p \in Procs |-> IF p \in up THEN inbox[p] \cup {i} ELSE inbox[p]]
  /\ UNCHANGED <<queue, home, up, refresh, cache, local, active, created, sends,
                 refused, counters>>

-----------------------------------------------------------------------------
(* The goroutine of the server.                                            *)

Busy(act) == {i \in Items : act[i] # "idle"}

\* Messages that share no channel with one being sent.
Free(loc, act) == {i \in loc : \A j \in Busy(act) : Channel[j] # Channel[i]}

\* checkRunNextWork starts one message, or none, of loc, when act is being sent.
RunNext(p, loc, act) ==
  IF Cardinality(Busy(act)) >= MaxSends \/ Free(loc, act) = {}
  THEN active' = [active EXCEPT ![p] = act]
  ELSE \E i \in Free(loc, act) :
         active' = [active EXCEPT ![p] = [act EXCEPT ![i] = "sending"]]

Tracked(p, i) == IF present[p] THEN total[p] \cup {i} ELSE total[p]

\* addWork.  The announcements are read once the forced refresh has been taken.
AddWork(p, i) ==
  /\ p \in up /\ TRUE \notin refresh[p]
  /\ i \in inbox[p]
  /\ inbox' = [inbox EXCEPT ![p] = @ \ {i}]
  /\ CASE home # p ->
            /\ total' = [total EXCEPT ![p] = Tracked(p, i)]
            /\ UNCHANGED <<local, active>>
       [] home = p /\ i \in local[p] -> UNCHANGED <<total, local, active>>
       [] home = p /\ i \notin local[p] ->
            /\ local' = [local EXCEPT ![p] = @ \cup {i}]
            /\ RunNext(p, local'[p], active[p])
            /\ UNCHANGED total
  /\ UNCHANGED <<redis, home, up, refresh, present, created, sends, refused, counters>>

\* refreshLocalWorkCached, of the work W: nothing is taken out again when a shard
\* has left.  Mutant: the next message is not started.
OnlyListed(p, W) ==
  /\ local' = [local EXCEPT ![p] = IF home = p THEN @ \cup W ELSE @]
  /\ UNCHANGED active

RefreshLocal(p, W) ==
  /\ local' = [local EXCEPT ![p] = IF home = p THEN @ \cup W ELSE @]
  /\ RunNext(p, local'[p], active[p])

DoRefreshWork(p, force) ==
  /\ p \in up /\ force \in refresh[p]
  /\ refresh' = [refresh EXCEPT ![p] = @ \ {force}]
  /\ total' = [total EXCEPT ![p] = IF force \/ ~present[p] THEN queue ELSE @]
  /\ present' = [present EXCEPT ![p] = TRUE]
  /\ RefreshLocal(p, total'[p])
  /\ excuses' = excuses + 1
  /\ UNCHANGED <<redis, home, up, inbox, created, sends, refused, lost, kept,
                 troubles>>

\* The timer of the cache.
ClearTotalWork(p) ==
  /\ present[p]
  /\ present' = [present EXCEPT ![p] = FALSE]
  /\ total' = [total EXCEPT ![p] = {}]
  /\ UNCHANGED <<redis, home, up, inbox, refresh, local, active, created, sends,
                 refused, counters>>

Stage(p, i, s) == active' = [active EXCEPT ![p][i] = s]

\* Mutant: a send that failed counts as done.
NeverRetried == {"done", "retry"}

Over == {"done"}

\* Mutant: the work is not taken off the list.
StillListed(p, i) == local[p]

Unlisted(p, i) == local[p] \ {i}

\* finishWork, up to what DelItem does: the message is forgotten, and the next started.
Forget(p, i) ==
  /\ active[p][i] \in Over
  /\ local' = [local EXCEPT ![p] = Unlisted(p, i)]
  /\ total' = [total EXCEPT ![p] = @ \ {i}]
  /\ RunNext(p, local'[p], [active[p] EXCEPT ![i] = "idle"])
  /\ UNCHANGED <<unannounced, home, up, inbox, refresh, present, created, sends, refused>>

FinishWork(p, i) ==
  /\ Forget(p, i)
  /\ queue' = queue \ {i}
  /\ UNCHANGED counters

\* The error of DelItem is looked at by nobody: the message stays in Redis, and is
\* met again by the next process that reads the queue.
DelItemFails(p, i) ==
  /\ Forget(p, i) /\ Trouble
  /\ kept' = kept \cup {i}
  /\ UNCHANGED <<queue, lost, excuses>>

\* It is still in localWork, and may be the next one.
FinishRetry(p, i) ==
  /\ active[p][i] = "retry"
  /\ RunNext(p, local[p], [active[p] EXCEPT ![i] = "idle"])
  /\ UNCHANGED <<redis, home, up, inbox, refresh, cache, local, created, sends,
                 refused, counters>>

Finish(p, i) == FinishWork(p, i) \/ DelItemFails(p, i) \/ FinishRetry(p, i)

-----------------------------------------------------------------------------
(* ProcessItem, in a goroutine of its own.                                 *)

Sends(p, i) ==
  /\ active[p][i] = "sending"
  /\ sends' = [sends EXCEPT ![i] = @ + 1]
  /\ Stage(p, i, "done")
  /\ UNCHANGED <<redis, home, up, inbox, refresh, cache, local, created, refused, counters>>

\* A proper answer of Discord that it is not possible, or the guild is gone.
Refuses(p, i) ==
  /\ active[p][i] = "sending"
  /\ refused' = refused \cup {i}
  /\ Stage(p, i, "done")
  /\ UNCHANGED <<redis, home, up, inbox, refresh, cache, local, created, sends, counters>>

Fails(p, i) ==
  /\ active[p][i] = "sending" /\ Trouble
  /\ Stage(p, i, "retry")
  /\ UNCHANGED <<redis, home, up, inbox, refresh, cache, local, created, sends, refused,
                 lost, kept, excuses>>

\* The message was sent, and the answer, or publishing it as an announcement, failed.
FailsAfterSend(p, i) ==
  /\ active[p][i] = "sending" /\ Trouble
  /\ excuses' = excuses + 1
  /\ sends' = [sends EXCEPT ![i] = @ + 1]
  /\ Stage(p, i, "retry")
  /\ UNCHANGED <<redis, home, up, inbox, refresh, cache, local, created, refused,
                 lost, kept>>

-----------------------------------------------------------------------------
(* Redis fails.                                                            *)

Loses == Trouble /\ lost' = TRUE

\* The producer ends before it has published.
PublishNever(i) ==
  /\ i \in unannounced /\ Loses
  /\ unannounced' = unannounced \ {i}
  /\ UNCHANGED <<queue, home, up, inbox, refresh, cache, local, active, created, sends,
                 refused, kept, excuses>>

\* The subscription is lost, and renewed without what came in between.
LoseInbox(p) ==
  /\ inbox[p] # {} /\ Loses
  /\ inbox' = [inbox EXCEPT ![p] = {}]
  /\ UNCHANGED <<redis, home, up, refresh, cache, local, active, created, sends, refused,
                 kept, excuses>>

\* GetFullQueue fails; nobody asks again.
RefreshFails(p, force) ==
  /\ force \in refresh[p] /\ (force \/ ~present[p]) /\ Loses
  /\ refresh' = [refresh EXCEPT ![p] = @ \ {force}]
  /\ UNCHANGED <<redis, home, up, inbox, cache, local, active, created, sends, refused,
                 kept, excuses>>

-----------------------------------------------------------------------------
(* Processes and shards.                                                   *)

\* Subscribed, and the forced refresh asked for.
Start(p) ==
  /\ p \notin up /\ Room
  /\ up' = up \cup {p}
  /\ refresh' = [refresh EXCEPT ![p] = {TRUE}]
  /\ UNCHANGED <<redis, home, inbox, cache, local, active, created, sends, refused, counters>>

\* Mutant: nobody is told that a shard has become ready.
NotAsked(p) == refresh[p]

Asked(p) == refresh[p] \cup {FALSE}

\* EventYagShardReady.
ShardReady(p) ==
  /\ home = NoProc /\ p \in up
  /\ home' = p
  /\ refresh' = [refresh EXCEPT ![p] = Asked(p)]
  /\ UNCHANGED <<redis, up, inbox, cache, local, active, created, sends, refused, counters>>

ShardRemoved ==
  /\ home # NoProc /\ Trouble
  /\ home' = NoProc /\ excuses' = excuses + 1
  /\ UNCHANGED <<redis, up, inbox, refresh, cache, local, active, created, sends, refused,
                 lost, kept>>

\* A crash, or StopBot: what is being sent is not waited for.
Ends(p) ==
  /\ p \in up /\ Trouble
  /\ excuses' = excuses + 1
  /\ up' = up \ {p} /\ home' = IF home = p THEN NoProc ELSE home
  /\ inbox' = [inbox EXCEPT ![p] = {}] /\ refresh' = [refresh EXCEPT ![p] = {}]
  /\ total' = [total EXCEPT ![p] = {}] /\ present' = [present EXCEPT ![p] = FALSE]
  /\ local' = [local EXCEPT ![p] = {}] /\ active' = [active EXCEPT ![p] = Idle]
  /\ UNCHANGED <<redis, created, sends, refused, lost, kept>>

ServerStep(p) ==
  \/ \E force \in BOOLEAN : DoRefreshWork(p, force)
  \/ \E i \in Items : AddWork(p, i) \/ Finish(p, i)

SendStep(p) == \E i \in Items : Sends(p, i) \/ Refuses(p, i)

Failure ==
  \/ \E p \in Procs : \/ \E i \in Items : Fails(p, i) \/ FailsAfterSend(p, i)
                      \/ LoseInbox(p)
                      \/ \E force \in BOOLEAN : RefreshFails(p, force)
                      \/ Ends(p)
  \/ \E i \in Items : PublishNever(i)
  \/ ShardRemoved

Next ==
  \/ \E i \in Items : AppendItem(i) \/ Publish(i)
  \/ \E p \in Procs : ServerStep(p) \/ SendStep(p) \/ ClearTotalWork(p) \/ Start(p)
                      \/ ShardReady(p)
  \/ Failure

Spec == Init /\ [][Next]_vars

\* Each loop goes on while it has something to do; processes are started again.
FairSpec ==
  /\ Spec
  /\ WF_vars(\E i \in Items : Publish(i))
  /\ \A p \in Procs : WF_vars(ServerStep(p)) /\ WF_vars(SendStep(p)) /\ WF_vars(Start(p))
  /\ WF_vars(\E p \in Procs : ShardReady(p))

-----------------------------------------------------------------------------
(* Properties.                                                             *)

(* Discord gets a message once, and again at the most for each time a process
   has read the queue (or what it remembered of it), which may meet a message
   whose announcement is still to come, for each time the shard has moved, and
   for each send that only seemed to fail.                                  *)
SentOnce == \A i \in Items : sends[i] <= 1 + excuses

(* A message leaves the queue only when Discord has got it or refused it, and
   its removal is not tried before.                                         *)
NothingIsDropped ==
  \A i \in (created \ queue) \cup kept : sends[i] > 0 \/ i \in refused

(* A process does not send two messages to one channel at the same time, and
   does not send more than it may.                                          *)
SendsApart ==
  \A p \in Procs :
    /\ Cardinality(Busy(active[p])) <= MaxSends
    /\ \A i, j \in Busy(active[p]) : i # j => Channel[i] # Channel[j]

(* A process that has work is sending some of it: each of the ways in which
   work comes and goes starts the next.                                     *)
WorkGoesOn == \A p \in Procs : local[p] # {} => Busy(active[p]) # {}

(* Unless Redis loses something, every message is sent or refused in the end,
   and leaves the queue but for those whose removal has failed.             *)
EveryMessageLeaves ==
  \A i \in Items : i \in queue ~> (i \notin queue \/ i \in kept \/ lost)
=============================================================================
