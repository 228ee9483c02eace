# YAGPDB in TLA+

YAGPDB is a Discord bot written in Go. It runs as several processes that share
Postgres and Redis: bot nodes that hold the gateway connections ("shards") to
Discord, an orchestrator that tells the nodes which shards to run, background
workers, and a web server. This directory holds TLA+ models of the parts of it
in which order, failure and concurrency matter, the TLC configurations that
check them, and proofs for every value of the constants.

Run from this directory: `tlc -config MCKeyLock.cfg KeyLock` (see the table of
runs) and `tlapm KeyLockProofs.tla`. `PROJECT.json` lists the runs, the lines of
source each definition translates, one plausible bug per property that makes the
property fail, the hazards of the code, and the theorems.

## 1. The system

| Component | Source | State | Operations | Interacts through |
|---|---|---|---|---|
| Shard orchestrator, protocol | `lib/dshardorchestrator/{node,orchestrator}`, `bot/nodeimpl.go`, `lib/discordgo/gateway.go` | per node: `NodeConn` (what the orchestrator believes), `node.Conn` (what the node believes), a gateway per shard; messages | identify, start, stop, prepare, transfer, user events, all-sent, shutdown; reconnect | TCP messages, most of them sent by a goroutine each |
| Shard orchestrator, commands | `orchestrator/orchestrator.go` | `performingFullMigration`, the goroutine of a full migration | StartShards, StopShard, StartShardMigration, MigrateFullNode, MigrateAllNodesToNewNodes | reads all `NodeConn`s, polls them |
| Shard orchestrator, monitor | `orchestrator/monitor.go` | when a shard was last seen, last bucket started | a tick per second, launching nodes | StartShards |
| Scheduled events | `common/scheduledevents2` | a table, two Redis sets, `currentlyProcessing` per process | schedule, cancel, check, processItem, flush, clean up | Postgres, Redis, which process has the shard |
| Message queue | `common/mqueue` | the queue in Redis, work lists per process | append and publish, refresh, find work, send, finish | Redis, pubsub, Discord |
| Key locks | `common/keylock` | a map of buckets, a counter | Lock, tryLock, Unlock | a mutex; used by custom commands |
| Feature flags | `common/featureflags`, `common/pubsub` | what each guild uses, as sets in Redis; two queues of guilds to update; a cache per process | save settings, mark, update, retry, publish, evict, fetch | Redis, published evictions, the plugins' tables |
| Member fetcher | `bot/shardmemberfetcher` | queues, calls and one batch per shard | request, call the API, ask the gateway, answer, store | goroutines and one `run` loop, the gateway, the state tracker |
| Control panel | `frontend/static/js/spongebob.js`, `web/middleware.go` | a tab's page, history, forms and unsaved changes; what is stored | click, edit, save, leave, back, submit, load, answer | requests that are answered late, refused or lost |
| Message creator | `frontend/static/js/messagecreator.js`, `messagecreator/*.go` | the composed message, what it was loaded from, the messages on Discord | create, edit, load, submit, send | requests to the web server, which asks the bot |
| Cached sets | `common/cacheset` | a cache per process | get, fetch, delete, expire | used by several plugins |
| Redis and mute locks | `common/redislock.go`, `moderation/mutelock.go` | keys with expiry, a map | try, block, unlock | Redis |
| Joined guilds updater | `bot/joinedguildsupdater` | a batch of changes | merge, flush | events, Postgres |
| Start and shutdown | `common/run`, `bot/bot.go`, `bot/readytracker.go` | wait groups, readiness of shards | stop, shard ready, shard removed | everything above |
| Everything else | plugins, templates, web, state tracker, vendored libraries | tables and pages | handlers | listed with reasons in `PROJECT.json` |

What is hard, and what makes each part correct:

* **Shards.** Three parties hold three views of who runs a shard, changed by
  different messages whose order is not kept. A shard must never have two
  gateways (each would run every command), a migration must resume the newest
  session with all the state the origin sent, it must end, and the views must
  agree again after connections are lost or the orchestrator restarts.
* **Full migration and monitor.** Two automatic users of the commands that act
  on what they see for a moment: they must lose no shard, shut down no node that
  still has one, start nothing twice, keep to the limits, and finish.
* **Scheduled events.** An event is in a table and in Redis, is handled by a
  goroutine of one process, and is deleted in batches later by another process
  that also copies rows again. A handler should run once, an event must not be
  dropped, and must be handled in the end.
* **Message queue.** A message reaches a process by an announcement or by a
  refresh, and a process remembers nothing of what it has sent. A message should
  be sent once, never be dropped, and the queue must keep moving.
* **Key locks.** A holder may overrun its time to live and unlock late.
* **Feature flags.** Flags are derived from tables that several requests and a
  worker read and write without a transaction, and are cached by every process.
  When nobody is due to update them they should be what the settings ask for,
  whoever is due should be updated in the end, and a cache may hold an old copy
  only while an eviction is owed to it.
* **Member fetcher.** A request may be answered by a call to the API and by the
  gateway, and nothing times out. Each must be answered once and only once,
  and somebody who left must not be put back into the state.
* **Control panel.** One request at a time, and a second one is refused without
  a word, while the history, the forms and the popup for unsaved changes go on.
  What is shown as saved must be stored, and under the right form; no link may
  drop changes; saving must end.
* **Message creator.** The link in the box, the message that is shown and the
  one that may be edited are three things, changed by loads that cross. An edit
  must replace what was loaded, only the bot's own messages, never their type;
  ids must survive being loaded and stay apart when they are filled in.
* **Batches of joins, shutdown** (planned): merged counts, wait groups.

## 2. Modules

| Module | Models | Lines |
|---|---|---|
| `ShardOwnership` | abstract: who may hold a shard and start sessions for it | 34 |
| `ShardMigration` | the protocol: commands, handlers of both sides, gateways, failures | 575 |
| `FullMigration` | extends it with the goroutine of MigrateAllNodesToNewNodes | 231 |
| `ShardMonitor` | extends it with the monitor's tick | 183 |
| `ScheduledEvents` | scheduledevents2 | 460 |
| `MessageQueue` | mqueue | 361 |
| `KeyLock` | keylock | 167 |
| `CachedSets` | abstract: what a cache that is kept up to date with evictions shows | 54 |
| `FeatureFlags` | featureflags and the evictions of pubsub | 401 |
| `MemberFetcher` | shardmemberfetcher | 306 |
| `ControlPanel` | spongebob.js and the form handling of the web server | 354 |
| `MessageCreator` | the message creator: page, popup, web server and bot | 511 |
| `ControlPanelProofs`, `FeatureFlagsProofs`, `KeyLockProofs`, `MemberFetcherProofs`, `MessageCreatorProofs`, `MessageQueueProofs`, `ScheduledEventsProofs`, `ShardMigrationProofs` | proofs about the module of that name; `ShardMigrationProofs` also about the two that extend `ShardMigration` | 17528 |
| `ShardMigrationInvariants` | what these proofs say of the states of the three shard modules; models no code | 516 |
| `MCControlPanel`, `MCFeatureFlags`, `MCFullMigration`, `MCMemberFetcher`, `MCMessageCreator`, `MCMessageQueue`, `MCShardMigration`, `MCShardMonitor` | small instances | |

Definitions that a comment calls a mutant are used by nothing: each is a changed
form of the definition after it, with which the property named in
`PROJECT.json` fails.

### ShardMigration

`conn[n]` is the orchestrator's `NodeConn` of node n, `node[n]` is its
`node.Conn`, `gw[n][s]` the gateway manager of shard s in n, `fresh[s]` the number
of sessions Discord has given out for s, `net` the messages. A handler of
`nodeconn.go` or `node.go` is one action (`HandleX` in the orchestrator, `StartsX`,
`PreparesX`, ... in the node). Each end of a migration keeps its mode and the
other end, as in the code; the node counts `processed` user events against
`total`.

* `net` is a set: nearly every send is `go SendLogErr(...)`, so two messages of
  one connection may be written in either order. The one order the code keeps,
  user events before AllUserdataSent (`SendGuilds` returns first), is `InOrder`.
* Messages carry the number of the command that caused them, and a destination
  keeps that number (`op`) and counts that command's events (`own`); `sent` is what
  an origin sent. The code has none of the three and no handler reads them: they
  tell messages of different commands apart in a set, and the properties compare
  them.
* Failures: a connection is lost (messages to the node are lost, what it is about
  to send may be lost or sent over the next connection: `Lose`), a node's process
  ends, the orchestrator restarts. A node that reconnects identifies with the
  shards it believes it runs and gets a new `NodeConn`.
* A message handled by a NodeConn whose id is not known yet, or of a node that is
  reconnecting, is dropped as in the code; what the node puts in `sendQueue`
  while it reconnects is lost, since nothing empties that queue (`node.go:303`).

Constants that switch behaviour (section 5 says what fails when they are set):

| Constant | When TRUE | Otherwise |
|---|---|---|
| `SlowOpen` | control messages may arrive while a gateway is opening | a gateway has opened before the next message about it |
| `BusyTargets` | a migration may be asked for towards a busy node | only the other answers of StartShardMigration occur |
| `EarlyPicks` | a full migration may pick a connection that has not identified | it has identified |

`SlowOpen` is FALSE in all runs. `BusyTargets` is TRUE in `shard_drops`, where the
end of the orchestrator process that it leads to is one more failure, and
`EarlyPicks` in `full_migration`.

Assumptions of the model:

* Commands about one shard are given one after the other (`InTurn`). The code does
  not enforce it: `StartShards` looks whether a shard runs (`orchestrator.go:351`)
  and sends later, so two starts of one shard at the same moment start it twice.
  `OneGatewayPerShard` is therefore a statement about commands in turn.
  The monitor's starts do overlap, see below.
* `StartShards` asks the nodes that are connected and nobody else, as in the code.
  `doubled`, a history variable, keeps the shards of a start that overlooked a
  gateway of a node without a connection, or an earlier start still on its way.
  `OneGatewayPerShard` excuses these shards and no others.
* A handler is one step, and so is the snapshot a command decides on. Discord
  never invalidates a session that is resumed.
* The bot sends no user event after AllUserdataSent, although `events.go:58` allows
  it; and the total shard count, agreed on in Identify, and the blacklist of
  nodes are left out.

### FullMigration, ShardMonitor

`job` is the goroutine of MigrateAllNodesToNewNodes: the phases are the loops it
waits in (`pick` for a new node, `gone`, `there` and `calm` in
WaitForShardMigration), the fields `fromOld`, `toOld` say that the `*NodeConn` it
holds has been replaced by a reconnection: what it resets is then an object nobody
reads. The monitor counts ticks only up to the limits it compares with;
`StartBucket`, `LaunchNewNode` are the two ways a tick ends. The pause after a bucket
(`Cooldown`, 5 s at `monitor.go:81`) is all the monitor waits for answers: a start that
takes longer is given again, perhaps to another node (`doubled`), and a node whose
start is not yet answered looks as if it had room (`hasty`, a history variable: the
nodes that were given a bucket too early). `MaxDoubled` bounds how many shards are
started before the answer to the start before is waited for. A start that is
repeated to the same node while the first is on its way is one message of the set,
as its second handling changes nothing.

### ScheduledEvents

`row` is the table (`new` before the insert, `gone` after the delete), `soon` and
`recent` are the Redis sets, `checking[p]` is what a `check()` of p has still to
look at (the mutex `currentlyProcessingMU` is held meanwhile), `processing[p]` is
`currentlyProcessing`, `task[t]` a goroutine in `processItem` (`find`, `handle`,
`mark`, `release`) or in `markDoneID` (`update`, `zrem`, `release`), `flusher` and
`cleaner` the two goroutines of the background worker between their queries.

* One guild, whose shard is at `home`, is modelled: events of different guilds
  share nothing but the batches. Time is `due`; the flusher may choose any rows
  that are not due yet, which includes what its five minutes choose.
* `faults` counts what does not excuse a second run (failed reads, panics, events
  nobody handles, workers that stop, being removed from the guild), `breaks` what
  does (crashes, moves of the shard, a failed SADD or UPDATE).
* `ran` counts the runs a handler finished without asking for another; a run that
  panics is not counted, and neither are the tries before it.
* SISMEMBER and what `check` does with its answer are one step.
* Not modelled: an event whose time is changed after it was copied
  (`scheduledevents.go:290` adds it to Redis again and then falls through and
  handles it early). Nothing in the repository changes the time of an event.

### MessageQueue

`queue` and `unannounced` are Redis; per process: `inbox` (announcements), `refresh`
(asked for by a shard that became ready, TRUE for the forced one), `total` and
`present` (the cache of all work), `local` (`localWork`) and `active` (what is being
sent and how it went). Each `select` branch of `MqueueServer.Run` is an action and
ends with the `findWork` that the code calls there (`RunNext`). A finished message
is forgotten whether or not its removal from Redis succeeds, since nobody looks at the
error of `DelItem` (`FinishWork`, `DelItemFails`); `kept` are the messages that
were left in Redis that way, which the next refresh reads again. All messages are for
one shard; which of several free channels is chosen is left open; the table and
the cache of webhooks are left out, and a message Discord will not take
(`refused`) simply leaves.

### KeyLock

Time is what is left: a tick is one poll of 250 ms, `left` of a bucket, `lease` of a
holder and `patience` of a caller are counted down to -1. A holder that overran
its ttl goes on and unlocks with its handle whenever it likes.

### FeatureFlags, CachedSets

`config[g]` is what the plugins' tables ask for, `flags[g]` the set in Redis. A save of
the panel changes the settings and then either updates the flags of its plugin
(`SaveAndUpdate`) or marks the guild for the worker (`SaveAndMark`); `job[a]` is where a
request or the worker is in `updatePluginFeatureFlags`: the plugin reads its tables
(`Read`), flags are added (`Add`) and then removed (`Remove`), the eviction is published,
and a request also evicts its own process's cache. `high` and `low` are the two queues,
each popped by a command of its own (`PopHigh`, `PopLow`), which may fail or have its
answer lost (`PopFails`); `popped` is what the worker has taken from them, `remark` the
goroutines that mark a guild again after an error. `fetch[p][g]` is a fetch from Redis
during which the cache is locked, `inbox[p]` the events on their way to p, `missed[p]`
those that a failure kept from it.

* `excused` names the guilds for which something went wrong for good: updates of
  the same plugin's flags that overlap, a failed update of a request, what a
  process that ends had begun, the rest of a batch after an error, a batch that
  Redis has popped and the worker never received.
* `CachedSets` is a register per guild with views that may lag behind as long as an
  eviction is owed; the refinement maps what a process has cached or is about
  to cache to a view, and published, unpublished and missed events to `owed`.
* The two events a request publishes (its own and the worker's) are one. Not
  modelled: the batch initialisation of plugins, flags set by hand, the stop of
  the worker. Changes, troubles, fetches and their sum are bounded (`MaxLoad`), and
  only `Watched` guilds change their settings or are fetched.

### MemberFetcher

`answer[c][m]` is what caller c got for member m; `queue[g]`, `call[m]`, `batch` are
`sortedQueue`, `fetchingSingle` and `fetchingGWState`. `GetMembers`, `HandleFinishedSingle`
and `HandleFinishedGateway` are the events of `run()`, each with the
`checkSendNextAPICall` and `checkSendNextGatewayRequest` at its end; `Look`, `Ask` and
`Store` are the goroutine of a call, which looks into the state, asks Discord and
writes the state in steps of its own. `overtaken` collects the members who left
while an answer with them was under way.

* `Finished` is assigned only where it becomes TRUE and starts so: the branches for
  an unfinished batch (`shardmemberfetcher.go:404`, `:496`) are never taken.
* More than `Many` members ask the gateway at once (1 in the run, 2 in the code), and
  the gateway is asked for the first `MaxAsked` of a queue (1 in the run, so that the
  limit is met, 100 in the code).
* Chunks that other parts of the bot asked for (`bulkrole`, `autorole`, batches) have
  nonces of their own (`Other`) and reach the queue as well: `ReplyToOthers`, for
  the sets of members in `Foreign`.
* `Without`, what is left of a queue, is built from the positions that are left:
  `SelectSeq` is recursive, and nothing can be proved about it.
* Not modelled: the list of members that failed (`failedCache`).

### ControlPanel

`entries` and `at` are the browser's history, `lastLoc` and `loading` the script's
`lastLoc` and `currentlyLoading` with its request, `page` the contents shown; `text[f]`,
`saved[f]` and `stored[f]` are a form's contents, its `_yagSavedVersion` and what the
server has. The user edits, submits, clicks, leaves or saves in the popup, goes back
or forward, reloads; a request is accepted, accepted without being stored (status
200 all the same), refused (status 400) or broken (any other status: the browser
goes to "/", unless the user refuses). The server lets every form that is handled
at the address take the data (`Takes`), so a form that is posted to a wrong address
becomes `Mixed`.

* `accidents` names what has happened that the script does not provide for, until a
  new page clears it; each property says which of them it excuses, and section 5
  what they are.
* Forms that the script does not track, widgets, permissions and sessions, and the
  contents of pages are left out.

### MessageCreator

The page's variables keep their names. `comps` is a tree of texts, rows of buttons and
containers; an id is a number, with the prefix `templates-` or without. `loads` are
requests for messages, answered and put into the page in any order (`HandleLoad`,
`Populate`), `form` the form's action and its hidden fields, `unsaved` whether the form
differs from what was last saved, and `post` a submission, whose answer is `HandleEdit`,
`HandleSend` or `PostFails`. It is made by Submit (`OnSubmit`), which validates and writes
the hidden fields, or by the popup for unsaved changes (`PopupSave`), which posts the form
as it is, with the payload of the last Submit and the link of now; with nothing submitted
before, the server refuses the empty form with an alert and the page is left
(`PopupSavesNothing`). The model ends where the page is left (`left`). `ParsePayload` and
`ValidateMessage` are the server's, `ValidateComposed` the page's. `from`, `loaded`,
`doubt` and `unlocked` are history variables: the message that was loaded last, what it
was until it is changed, whether the page may not be about the link, and whether the page
was in "create" since. A payload keeps those of the moment it was composed, and is in
doubt as well if it is sent for another link.

* An id that somebody gave to a button is a negative number (`Names`), a number that
  the bot fills in is not: the server tells them apart by their form.
* A walk through the components is over `Places`, pairs of positions, in the order of
  the code's loops (`Precedes`), and a number that is filled in is the rank of its
  place; `OnlyFilled` drops what is empty by position. Written so, and not with
  `SelectSeq` and folds, these can be proved about.
* Text and embeds are a set of parts, by what becomes of them on the way: the text, white
  space around it (trimmed), what the editor of embeds has fields for (kept), what
  it has none for, such as the author's link (lost), and a timestamp, which is a box in the
  editor (`time`) and is sent as that of the moment (`now`). `AdaptContent` and
  `FinalizeContent` are the two conversions; loading a message of the other type takes the
  embeds away. Ids of the bot are trimmed before they get their prefix back (`Trim`).
* Of the channel only that picking one changes the form is kept (`PickChannel`), and by hand only
  the `Touched` parts of the text and the embeds are changed (the text, in the run; the others are
  loaded). Selects,
  sections, galleries, separators, link buttons and the preview are left out; the rate
  limit is one of the reasons for `PostFails`. Nobody else edits the messages.

## 3. Runs

| Run | Instance | Checks |
|---|---|---|
| `keylock` | 3 callers, 2 keys, ttl 0 and 2 | `MutualExclusion` within the ttl, `OnlyTheOwnerReleases`, `LockReturns` |
| `shard_migration` | 3 nodes, 2 shards, 3 commands, up to 2 user events, no failures | `ViewsAgree` when quiet, a resume is complete and newest (`ResumesWithAllState`, `ResumesNewestSession`), `MigrationEnds`, **implements ShardOwnership** (`OwnsShards`) |
| `shard_drops` | the same nodes, one of them connecting later, 1 command, 2 failures, migrations to busy nodes | `OneGatewayPerShard`, `RunningIsKnown`: what runs is known again |
| `full_migration` | 2 old and 2 new nodes, 1 failure, connections picked before they identify | `NoShardLost`, `OneGatewayPerShard`, `ShutsDownEmptyNode`, `UndisturbedMigrationEnds` |
| `monitor` | 3 shards in buckets of 2, 2 nodes and one to launch, all shards up or one slot down, 1 failure, 1 migration, a shard started before an answer came | `ShardsRunAgain`: what is missing is started, and nothing twice that is not `doubled` (`OneGatewayPerShard`); `SlotsAreApart` but on a node in `hasty` |
| `monitor_stuck` | the same with a migration whose end is lost | must fail: section 5 |
| `scheduled_events` | 1 event, 2 processes, 2 goroutines, 2 tries, 1 fault, 1 break | `RunsOnce` and once more per break, `NothingIsDropped`, `EventsEnd` |
| `message_queue` | 2 messages of one channel with 1 process, or 1 with 2; 1 trouble | `SentOnce` and once more per excuse, `NothingIsDropped`, `WorkGoesOn`, `EveryMessageLeaves` |
| `feature_flags` | 2 guilds, a web process and a node, one request at a time, 2 plugins, 2 changes, 1 trouble, 2 fetches, 2 of these together | `FlagsFollowSettings` when nobody is due, `UpdatesEnd`, **implements CachedSets** (`CachesRefine`) |
| `member_fetcher` | 2 callers, 3 members in 2 guilds, 2 batches of 1 member, 1 member who leaves, chunks for others | `WaitersAreQueued`, once; `NobodyComesBack`; `EveryRequestIsAnswered`; `MissingWasAskedFor` |
| `control_panel` | 3 pages, 3 forms (one with an address of its own, one that keeps the page), 2 edits, a history of 2, 1 kind of accident | `CleanMeansStored`, `StoredIsOwn`, `LinksKeepChanges`, `SavingEnds` |
| `message_creator` | 3 messages, 2 of the bot, 5 changes of the page by hand (modes, action, link, channel, contents), 2 loads, 2 submissions, 1 row, 4 components | `OnlyOwnIsOpen`, `LoadedIsUnchanged`, `IdsAreApart`, `EditsWhatWasLoaded`, `TypesStay` |

The modules state more than the runs check: the type invariants, `HandlesAreUnique`,
`SendsApart`, `AddressIsShown`, `CachesFollow`, `QueuesAreServed`, `NoNodeIsOverfull` and
`ServerAgrees`, which are proved instead (section 4), `FollowsLink`, which holds on the
same instance, and `StaysUp` and `FullMigrationEnds`,
which do not (section 5).

Bounds and why they suffice: a migration concerns two nodes and one shard, so the third
node is what a second migration, or a message for the wrong one, needs, and shard 0 must
be among the shards since it is the zero value of the code's fields. Two user events are
the fewest of which one may be overtaken. Three commands are a migration there, back, and
something in between; with failures one command is enough for each message to be hit by
each failure, and two failures for a failure during recovery; a second command finds what
the first one left behind, and its properties fail (section 5). Two old nodes make a full
migration repeat its loop. Three shards in buckets of two give a full and a partial
bucket; with one slot of them down at first, or a node lost, the monitor has starts under
way when the next tick comes. One scheduled event has all of its races with itself (the
two processes, two goroutines and the worker); the sets of the model are per event, and
more events only share the goroutines. Two messages for one channel are what the rule "one
per channel" is about; `MaxLoad` keeps that case and the case of two processes apart, for
time. Two changes of settings are what a lost update needs, with two plugins so that the
one's flags can be overtaken by the other's update; one trouble hits each stage, and
`MaxLoad` leaves out only the cases in which changes, a failure and fetches all come
together. Three members in two guilds give a queue of two, a batch that leaves one of them
out, and a second guild; two batches an answer with an old nonce; `Foreign` is one set of
two members. Two edits tell the text typed from the text saved and the text being saved; a
history of two entries has a place to go back to; the accidents are each looked at alone,
since every property names the ones it excuses. Two loads cross, and two submissions are
one on top of what the other changed, or a Submit and the popup that sends its payload
again; five changes are: to edit, a link, a change, another link, and one more. One row in
four components meets both limits of the page. Each bound on commands, events, failures or
goroutines is a guard of the actions it names, so a behaviour may stop when they are used
up: most runs therefore do not look for deadlock (`CHECK_DEADLOCK FALSE`), and the
liveness properties say that it stops in the right place. KeyLock never stops, and is
checked for it.

Fairness, which liveness properties rest on:

* `ShardMigration`: `WF(Step)`, messages that were written are read, their handlers
  finish and an opening gateway opens; `WF(Recovery)`, a lost connection is
  noticed and the node reconnects, as its loop does for ever. Commands and failures
  are not fair. The full migration's loops poll (`WF(JobStep)`), the monitor's
  ticker ticks (`WF(Tick)`).
* `ScheduledEvents`: every process's check loop, goroutine, and both worker loops go
  on, time passes, and some process gets the shard. `Release` is strongly fair: it
  waits for a mutex that `check` takes again and again, and Go's mutexes hand
  over to a waiter that starves. A worker that stops is started again: its queries
  are the weakly fair steps.
* `MessageQueue`: the server loop and the senders of each process go on, a process
  that ended is started again, a shard becomes ready, an append is followed by
  its publish unless that fails (`lost`).
* `KeyLock`: time passes and a caller inside Lock is scheduled. Holders owe nothing.
* `FeatureFlags`: requests, the worker (which is started again when its process ends),
  the goroutines that mark again and each process's event loop go on.
* `MemberFetcher`: `run` handles what is sent to it and calls of the API end. Nothing is
  assumed of the gateway: it may never answer.
* `ControlPanel`: a request is answered or fails. The user owes nothing.

## 4. Proofs

`tlapm` checks each of these for all values of the constants that satisfy the
named assumptions of the modules.

| Theorem | States | Argument |
|---|---|---|
| `KeyLockProofs!Typing` | `[]TypeOK` | by action |
| `KeyLockProofs!LockExcludes` | `[]MutualExclusion` | `LockInv`: a running lease is backed by a bucket with its handle and its remaining time, handles in use are unique and were given out |
| `KeyLockProofs!UniqueHandles` | `[]HandlesAreUnique` | a conjunct of `LockInv`: a new handle is above all that were given out |
| `KeyLockProofs!OwnerReleases` | `OnlyTheOwnerReleases` | from the same invariant, by action |
| `ShardMigrationProofs!Typing` | `[]TypeOK`, all switches, any number of failures | a lemma per message kind says what its fields hold; then by action |
| `ShardMigrationProofs!OneGateway` | `[](Undisturbed => Alone /\ OneGatewayPerShard)`, if `~SlowOpen`: `Alone` excuses nothing | `Safe`, see below |
| `ShardMigrationProofs!Implements` | `OwnsShards`: without failures every step is one of `ShardOwnership` or a stutter | from `Safe`: who opens a shard finds it down |
| `ShardMigrationProofs!NewestSession`, `CompleteState` | `ResumesNewestSession`, `ResumesWithAllState`, without failures | `Newest` and `Counted`, see below |
| `ShardMigrationProofs!ViewsAgreeWhenQuiet` | `[](Undisturbed => ViewsAgree)`, if `~SlowOpen` | `Accounted`, see below |
| `ShardMigrationProofs!WhatRunsIsKnown`, `OneGatewayWithOneCommand` | `[]((Undisturbed \/ ops <= 1) => RunningIsKnown)`, `[](ops <= 1 => OneGatewayPerShard)`, any number of failures, if `~SlowOpen` | `Solo`, see below |
| `ShardMigrationProofs!MonitorTyping` | `MSpec => []MonitorTypeOK`, any number of failures | by action, from `Typing`'s lemmas |
| `ShardMigrationProofs!MonitorKeepsSlotsApart`, `MonitorOverfillsNoNode` | `MSpec => []SlotsAreApart`, `MSpec => []NoNodeIsOverfull`, any number of failures and of late answers (`hasty`), for placements that begin so | `MonitorInv`, see below |
| `ShardMigrationProofs!FullMigrationTyping` | `FSpec => []FullTypeOK`, any number of failures | with `JobTyped`: a goroutine at work has two nodes |
| `ShardMigrationProofs!FullMigrationLosesNoShard`, `FullMigrationShutsDownEmptyNodes`, `FullMigrationKeepsOneGateway` | `FSpec => []NoShardLost` if every shard was placed, `FSpec => ShutsDownEmptyNode`, `FSpec => [](drops = 0 => Alone /\ OneGatewayPerShard)`, if `~SlowOpen` | `FullInv`, see below |
| `ScheduledEventsProofs!Typing` | `[]TypeOK` | by action; `GoesTyped`, `SpawnTyped` say what a step of a goroutine keeps |
| `ScheduledEventsProofs!NoneDropped` | `[]NothingIsDropped`, any number of failures | `Known` (everything the sets, workers and goroutines mention has been inserted) and `SettledInv` (marks and cleanup batches are of settled events) |
| `ScheduledEventsProofs!RunsOncePerBreak` | `[]RunsOnce`, any number of crashes, moves and failed writes | `CountInv`, see below |
| `MessageQueueProofs!SendsAreExcused`, `SendsKeepApart` | `[]SentOnce`, `[]SendsApart`, whatever fails | `SendsInv`, see below; and `ApartInv`: a server starts a send only where it has none for that channel, and fewer than `MaxSends` |
| `MessageQueueProofs!Typing`, `NoneDropped`, `WorkIsStarted` | `[]TypeOK`, `[]NothingIsDropped`, `[]WorkGoesOn` | `QueueInv`: what leaves the queue was marked by a sender, and `RunNextStarts`: findWork leaves no process with work and idle senders |
| `FeatureFlagsProofs!CachesImplement` | `CachesRefine`: every step of the caches is one of `CachedSets` or a stutter | see below |
| `FeatureFlagsProofs!CachesAreCurrent` | `[]CachesFollow` | by the same: a view is what is stored, or owed |
| `FeatureFlagsProofs!FlagsFollow`, `Typing` | `[]FlagsFollowSettings`, `[]TypeOK` | `FollowInv`, see below |
| `MemberFetcherProofs!NobodyIsBroughtBack` | `[]NobodyComesBack` | `FetcherInv`: answers under way hold only members who are here, are leaving, or were overtaken |
| `MemberFetcherProofs!WaitersStayQueued`, `OneCallAtATime`, `MissingIsAskedFor`, `Typing` | `[]WaitersAreQueued`, `[]QueuesAreServed`, `MissingWasAskedFor`, `[]TypeOK` | see below |
| `ControlPanelProofs!Typing`, `CleanIsStored`, `OwnIsStored`, `LinkKeepsChanges`, `AddressIsThePages` | `[]TypeOK`, `[]CleanMeansStored`, `[]StoredIsOwn`, `LinksKeepChanges`, `[]AddressIsShown` | see below |
| `MessageCreatorProofs!OwnIsOpen`, `TypeIsKept`, `LoadedIsEdited` | `[]OnlyOwnIsOpen`, `TypesStay`, `EditsWhatWasLoaded` | `CreatorInv` ties the lock and the button to what was loaded, and a payload, posted or waiting in the form, to the page it was composed on; `TargetInv` the link to the message, unless there are doubts |
| `MessageCreatorProofs!UnchangedIsSentBack`, `BlanksAreApart`, `ServerLetsThrough`, `Typing` | `[]LoadedIsUnchanged`, `[]IdsAreApart`, `[]ServerAgrees`, `[]TypeOK` | `ShapeInv` and lemmas about the walks, see below |

*Exclusion of key locks.* `MutualExclusion` says nothing of `locks`, so it is not
inductive: a caller could be given a key whose bucket is free although another
one's lease runs. `LeaseIsBacked` ties the two together.

*The shard protocol.* `Undisturbed` says that no connection or process has failed yet
(`drops = 0`) and the orchestrator has not ended; the theorems hold for any nodes, shards,
placements, numbers of commands and of user events. Those that say `Undisturbed` hold in
any behaviour up to its first failure; the three about whole behaviours assume `MaxDrops =
0` and `~BusyTargets`, with which there is none. All assume `~SlowOpen`, without which
they are false (section 5). They are about `ShardMigration!Spec`; the modules that extend
it have theorems of their own.

No handler looks at what another process does, so one gateway for each shard rests
on which messages exist. `Safe` says it in five parts: a node has no messages before it
has identified (`Joined`); one command about a shard is on its way at a time, and
while a destination takes it over only that migration's (`OneAtATime`); a message
about a shard says who has it open, and a shard is down from the origin's answer to
the destination's resume (`Custody`); both ends of a migration name each other
(`Pairs`); and the messages of a migration follow one another, the user events before
the total (`Follows`). Each part needs the others: `Custody` alone does not survive
a stop that arrives during a migration, which `OneAtATime` excludes, and that does
not survive a Prepare that is forwarded to the wrong node, which `Pairs` excludes.

`Newest` adds where the newest session is: in the gateway, in the message that carries
it or in the destination. `Counted` adds that what a destination has counted
(`processed`) and the user events of its migration still on their way are together
as many as the origin `sent`; the code's one counter is shared by all migrations of
a node, so this needs that two destinations never wait for the same migration,
and that no message of an older one is left when the next begins. `Accounted` adds
what each busy node waits for: a message that leads on, brings the shard, or
carries the total, or events that are still missing. With nothing on its way there is
nothing to wait for, so nobody is busy.

*One command, whatever fails.* With `MaxOps = 1`, as in `shard_drops`, `ops <= 1` always
holds, and the two theorems are the properties of that run for all nodes and any number of
failures. Before any command there are only nodes that identify. What is sent to a node
reaches it or is lost with its connection (`Reaches`), a node has counted what it runs and
identifies with all it has counted (`Believes`), and so the orchestrator knows what a node
it sees runs, or is being told (`Seen`): with the property itself they are `Core`, which
no failure breaks. After the command every message that is not an identify belongs to it.
A start on its way to a node is the only one, about shards that run nowhere but in nodes
it overlooked, and then they are `doubled`; who answers a stop has closed the gateway. A
migration of s from f to t goes from hand to hand, one message at a time, until the origin
has sent its state; only what comes after that, the user events and the total, may be
several, and they find s closed everywhere or the destination done with it (`OneCommand`).
A failure only takes away messages, links and gateways, so what is left is again such a
state (`Recedes`): a broken migration never goes on, and nobody else opens s. With two
commands that is false: the leftovers of the first meet the messages of the second.

*The monitor.* `NoNodeIsOverfull` is about what the orchestrator knows, and says nothing
of the shards that a node was told to start and has not answered for: from such a state
the next tick could fill it up again. So the invariant is about the `Load` of a node: what
either side has it running and what any start or identify on its way would add. Without
commands there are only such messages (`OnlyStarts`), and a reachable node runs no more
than is known of it or about to be. `StartBucket` gives shards of one slot to an empty
node, or shards of a node's slot to that node, which is why loads stay apart
(`LoadsApart`), unless a start to that node is still unanswered, and then the node is
`hasty` from here on; and then a load fits because a slot is a run of `ShardBucketSize *
BucketsPerNode` shards (`SlotSize`). The hypotheses: the shards that run at the start are
placed by slots (`BeginsApart`), are not too many (`BeginsSmall`), and `MaxShardsPerNode`
is a multiple of the bucket size, as `cmd/shardorchestrator/main.go:57-71` sets it
(`BucketsFit`). As in the properties, nothing is claimed once a shard was migrated (`ops >
0`), which the monitor does not look at.

*Full migration.* The goroutine moves one shard at a time, so at any moment every
shard but that one has a keeper: one node has its gateway, and the `NodeConn` of the
same node, and no other, has the shard (`Kept`). The shard that is moved is at one of
the stages of `Moves`: asked for, given up by its origin, offered, ready, passing (the
user events and the total, which add up to what the destination still needs: it is
the count of `Counted` again), resumed, settled in; or, when the destination had not
identified, lost, with no message on its way that would bring it back. A stage is a
statement about all messages there are (`Carrying`): what would break it is a second
command, and `WaitForShardMigration` gives none before its three loops have ended,
which is where each loop's condition excludes the earlier stages (`SeesKeeps`). The
rest of `FullInv` says who can be picked: a node that has been told to leave is never
the origin or the destination again (`Leaving`), and neither end's `NodeConn` is
replaced while no connection is lost. When all shards of a node have been moved it
has none left, hence `ShutsDownEmptyNode` (`AllMoved`); when the goroutine ends, no shard
is between two nodes, hence `NoShardLost`, which needs that every shard was placed to
begin with (`AllPlaced`). The invariant is claimed as long as `drops = 0`, as the
properties are, and holds for either value of `EarlyPicks`.

*Sent once.* A process that has a message on its list will send it, and an
announcement may put it on the list of one more. `SendsInv` counts: the sends there
were, the processes that hold the message and are not done with it (`Holders`), and one
for an announcement that can still arrive (`Told`), are together at most one more than the
`excuses`. A send that ends moves one from the second number to the first; a
refresh that adds a holder is an excuse, and so are a move of the shard or the end of a
process, after which an announcement may reach somebody else, and a send that reached
Discord and seemed to fail.

*Flags and settings.* `FollowOf` says it for each plugin by itself: its flags are what the
settings ask for, or an actor or a queue is still to bring them up to date (`Pending`);
and what an actor is writing is what the settings ask for, unless somebody else comes
after it (`Fresh`), and then it is the only one who writes them. That a writer is alone is
what `excused` takes out. Between an actor's read and its last write others' updates
may have happened, but each has left its own pending update, and so nothing stale
is ever the last word. The plugins have no flags in common, so an update of one
leaves the agreement of the others alone (`FlagsAssumption`).

*Waiting members.* `WaitersAreQueued` counts positions of a queue from which
`HandleFinishedSingle` and `HandleFinishedGateway` take some out. `NthCounts` says that the
positions that are left are renumbered without gaps and without doubling, and
`WithoutLeaves` what that means for a queue: it keeps each request of the others, once. The
invariant then is that requests in a queue are different, are of those who wait, are of
members of that guild, and that whoever waits has a request there (`QueueInv`). A guild
has one call to the API at a time, and has one whenever its queue is not empty
(`ServedInv`). Whom the gateway is asked for is of the guild of its request, and what it
finds are some of those, in answers that may be late (`AboutMembers`, `GatewayInv`).

*What the page sends back.* A message on Discord has no empty rows or boxes (`AllFilled`):
the message that was loaded and not changed is what the page shows (`LoadedInv`), and what
was posted, or waits in the hidden fields for the popup, has passed the page's checks
(`PostOK`); both with the types are `ShapeInv`. Walking in and out of the page keeps the
parts of a message and the ids of others, and trims the bot's own (`SentId`, `WalksBack`:
an id of which only the prefix is left comes back blank), and pruning leaves them alone
(`Prunes`). A number that is filled in is the rank of its place, so two of them differ
(`NumbersApart`), and given ids are names, not numbers. The page and the server count
components in two ways, which agree for all trees of the page's depth (`Agrees`).

*Run once.* `Accounts` counts, for each event, what may still come: the runs there were, the
goroutines that may reach the handler (`Left`: in it already, or about to look up a
row that is still there), and one if another goroutine may be started (`NewOne`: the
row is there, nobody has marked the event as done, and it is not in the
`currentlyProcessing` of the process that has the shard), are together at most one
more than the breaks. A goroutine that is to be released counts as well, as long as
the row is there and the event is not marked: its release takes the event out of
`currentlyProcessing` and so gives its place to another. A step leaves the account
alone (`KeepsAll`), moves one from one side to another (`TakesOne`, and `AddsOne` when
`check` starts a goroutine), or is a break. `Closes` says that a
goroutine of `markDoneID` that has got past its update leaves no pending row behind, and
that the cleanup deletes rows before it forgets ids: in the other order an event
could run again without any break.

*Caches of the flags.* The refinement maps a fetch that has read Redis to a view
already, which is sound only because an eviction waits for the lock: an
eviction handled in between would clear a view that the fetch then brings
back. `Shapes` says what jobs and caches look like at each stage; a write to Redis
is a step of a job whose eviction is still to be published, so it is owed to every
process (`FlagsWritten`), and publishing or failing to publish moves it to `inbox` or
`missed` (`PublishedOwes`).

*The panel.* The address is that of the page whenever nothing loads, and a form's
request goes to the page's address (`AddressInv`); that needs the forms that are
still to be saved to be of the page that is shown (`RequestInv`), since a save
continues from the answer to the one before. So one form takes the data
(`StoredIsTyped`), and nothing becomes `Mixed`. `CleanInv` adds that what is under way
is what the form contains, that the forms still unsaved are those of the queue, and
that a link is requested only when there are none.

Besides the assumptions about constants that were there, the newer proofs use that
there are plugins, finitely many members and shards, that the messages which exist are
typed and have no empty parts, and that ids people give are no numbers the bot would
fill in; the modules state these as named ASSUMEs.

Only model-checked: `OneGatewayPerShard` under the monitor, which starts shards of nodes
that failed or have not answered, and in a full migration that loses a connection; and
everything temporal with a `~>`: liveness under fairness and ENABLED are out of the
prover's reach, as is induction over data. Of the protocol by itself after a failure
nothing more is claimed than for one command, since with two it is false (section 5). No
module here declares a RECURSIVE operator.

## 5. What the checks found

One run must fail, `monitor_stuck`: after a migration whose one end was lost, the
other end's mode stays set and the monitor takes the shard to be migrating for
ever.

Met while modelling, reproduced by changing the constants of a run and naming the
property in its configuration:

| What | Instance | Fails |
|---|---|---|
| A migration towards a node that is migrating unlocks `toNode.mu` twice (`orchestrator.go:288` and `:297`), which ends the orchestrator process | `MCShardMigration`, `Spec`, `BusyTargets = TRUE`, 2 commands, 1 user event | `StaysUp` |
| A stop (or the preparation of an origin) that arrives while the gateway is being opened is answered, and the gateway opens after that (`gateway.go:608`) | `MCShardMigration`, `Spec`, nodes a and b, `SlowOpen = TRUE`, 2 commands | `ViewsAgree`, `OneGatewayPerShard` |
| An AllUserdataSent of a migration that was broken off is taken for that of the next one; a node whose fields are still zero opens shard 0 with an empty session (`nodeconn.go:137`, `node.go:277`) | as `shard_drops`, 2 commands, 1 user event, 1 failure; the last with 2 failures | `ResumesNewestSession`, `OneGatewayPerShard`, `RunningIsKnown` |
| A full migration picks a connection that has not identified, whose id then changes: the shard is closed and never opened again (`orchestrator.go:504`) | `MCFullMigration`, `FSpec`, nodes a and c, newcomer c, `EarlyPicks = TRUE`, 4 commands, no failures, 1 job | `FullMigrationEnds` |

The others are seen in the models or in the code they translate:

* `StartShards` is commented with "it will return ErrShardAlreadyRunning if the shard is
  running on another node already" (`orchestrator.go:349`), and does so only for nodes
  that are connected (`:354`) and for what they have answered. A shard of a node that lost
  its connection is started a second time by one command, or by the monitor after
  `MaxNodeDowntimeBeforeRestart`; and a start whose answer takes longer than the 5 s of
  `monitor.go:81` is given again. The properties say that this is the only way:
  `OneGatewayPerShard` leaves out the shards of such starts (`doubled`), `SlotsAreApart` the
  nodes that got a bucket too early (`hasty`). Without the two exceptions both fail.
* Answers while a gateway is still opening (`SlowOpen`) say that it is closed when it is
  not; nothing is proved or claimed of that case.
* WaitForShardMigration never returns if the destination reconnects in the middle,
  since it polls the replaced NodeConn (`orchestrator.go:454`, `:472`). This is why
  `UndisturbedMigrationEnds` excludes lost connections.
* If the origin's connection is lost for a moment, the waits end early and the old
  node is shut down with the shards that were not moved (`orchestrator.go:395`,
  `:462`). This is why `ShutsDownEmptyNode` says `drops = 0`.
* With ShardBucketSize unset, a bucket is all missing shards and MaxShardsPerNode
  does not limit it (`monitor.go:150`, `orchestrator.go:75`).
* GetFullNodesStatus unlocks the mutex while it iterates over the connections.
* NodeImpl.Shutdown hands Stop a WaitGroup without an Add (`bot/nodeimpl.go:112`,
  `bot/bot.go:239`).
* StopBackgroundWorker of the scheduled events stops one of its two goroutines
  (`backgroundworker.go:128`).
* The message queue sends a message twice when a refresh meets its announcement,
  when its shard has moved (localWork is not reduced and totalWork may be a minute
  old: `worker.go:43`, `:108`), when its removal from Redis failed, which nobody
  notices (`worker.go:194`), and when a crosspost fails after the send
  (`discordprocessor.go:102`). `SentOnce` counts these as `excuses`; after a refresh
  one of the senders works, however many there are.
* Control panel: a submission that is refused with status 400 counts as saved, since
  its callback looks at nothing (`spongebob.js:570`), and so does a form whose Save
  fails, which is answered with status 200 (`middleware.go:656`). The callback of a
  save takes the form's contents of that moment for what was saved
  (`spongebob.js:711`). The popup's save button during a load sends nothing, and the
  popup stays without buttons (`:705`). Back during a load changes the address only,
  and the next form without an action is posted to another page's handler (`:46`).
  `CleanMeansStored`, `SavingEnds` and `StoredIsOwn` excuse these by name.
* After a save to an address of the form's own, any popstate, an anchor for example,
  loads the page again and drops what is not saved (`spongebob.js:94`).
* Message creator: the page says that a type cannot be changed when editing
  (`messagecreator.js:145`), but switching to "create" and back unlocks it
  (`:108`); `TypesStay` excuses it. After a load that fails, or two that cross, Submit
  writes what is shown over the message of the link (`:830`). Ids that are filled
  in by position may be equal to ids that were given (`messages.go:409`). What is loaded
  and sent back loses the author's link of an embed and what else the editor has no field
  for (`:376`, `:854`), has a timestamp of now (`:380`), and trimmed text and ids (`:657`,
  `:709`); `LoadedIsUnchanged` says exactly that and that nothing else is lost.
* The popup asks "You have unsaved changes, would you like to save them?"
  (`spongebob.js:668`), but saving the message creator's form posts the mode and payload of
  the last Submit, without `onSubmit`, `validateComposed` or the closed button
  (`spongebob.js:702`, `messagecreator.html:111`): older contents, and with another link in
  the box over another message, whose type may change for good. Nothing being
  submitted yet, the server refuses the form with an alert and the page is left.
  `EditsWhatWasLoaded` excuses the first by `doubt`; `TypesStay` speaks of the message that
  the payload was loaded from.
* Feature flags: after an error the worker drops the rest of its batch
  (`bgworker.go:173`), a batch is lost with the answer of an SPOP that was executed
  (`:153`, `:160`), and two updates of one plugin's flags may leave the older
  settings (`featureflags.go:249`). `FlagsFollowSettings` excuses all three.
* Member fetcher: the state is looked at and set in two steps, so somebody who left in
  between is put back (`shardmemberfetcher.go:482`).

## 6. Not modelled, and why

`PROJECT.json` lists every component. Plugins, templates, the command framework and
premium are handlers around a table or a page, with no concurrency of their own;
the state tracker updates maps under one lock per shard; `lib/` holds third-party
code, of which the gateway is modelled as far as the shard protocol uses it.
Of the JavaScript, `spongebob.js` and `messagecreator.js` are the panel's own logic and
are modelled; nearly all the rest lies under `frontend/static/vendorr` (jQuery,
DataTables, CodeMirror, pdfmake and the like) or is the theme the panel was built
from: third-party code that is not what this program does.

## 7. Plan

Modules, in this order:

1. `CacheSet` (fetch against eviction and expiry, a fetcher that panics), which should
   implement `CachedSets`.
2. `RedisLock` (expiry, unconditional DEL by a former holder) and `MuteLock`.
3. `JoinedGuilds` (merging of joins, leaves and member counts in a batch).
4. `Shutdown` (wait groups of run, bot, feeds and workers; NodeImpl.Shutdown).
5. `TotalShards` (what Identify agrees on) and a status read in pieces, which
   removes the assumption that a command's snapshot is one step.

Abstract specifications: the scheduled events and the message queue are candidates
for one ("once per excuse").

Proofs:

`OneGatewayPerShard` under the monitor, whose starts `ops` does not count: `Core` and what
`MonitorInv` says of starts on their way are where to begin.
