---------------------------- MODULE ScheduledEvents ---------------------------
(***************************************************************************)
(* common/scheduledevents2: events that are kept in a table of Postgres,   *)
(* copied to a sorted set of Redis shortly before they are due, and        *)
(* handled by the process that has the shard of their guild.               *)
(*                                                                         *)
(* The Redis set recently_done stands between the two stores: an event     *)
(* that was handled is put there, taken out of the sorted set by the next  *)
(* check, and only then, in batches, deleted from the table by a           *)
(* background worker, which meanwhile copies rows again.                   *)
(*                                                                         *)
(* All events are of one guild.  Nothing in the repository changes when a  *)
(* scheduled event triggers: it is deleted, and another one is scheduled.  *)
(***************************************************************************)
EXTENDS Integers, FiniteSets

CONSTANTS
  Events,      \* ids of scheduled events
  Procs,       \* processes of the bot
  MaxTries,    \* how often a handler may ask to be tried again
  MaxTasks,    \* bound: goroutines that process events, over all processes
  MaxFaults,   \* bound: queries that fail, handlers that panic, workers that stop,
               \* and how often the bot is removed from the guild
  MaxBreaks    \* bound: crashes, moves of the shard, writes that fail

NoProc  == "no process"
NoEvent == "no event"

ASSUME EventsAssumption ==
  /\ NoProc \notin Procs /\ NoEvent \notin Events
  /\ {MaxTries, MaxTasks} \subseteq Nat \ {0}
  /\ {MaxFaults, MaxBreaks} \subseteq Nat

VARIABLES
  row,         \* the table: "new" before it was inserted, "gone" once deleted
  due,         \* events whose time has come
  scheduling,  \* inserted by ScheduleEvent, which has yet to copy them to Redis
  soon,        \* Redis: scheduled_events_soon
  recent,      \* Redis: recently_done_scheduled_events
  home,        \* the process that has the guild's shard, and is ready
  onGuild,     \* whether the bot is on the guild
  checking,    \* per process: what is left of the pairs that check() has read
  processing,  \* per process: currentlyProcessing
  task,        \* goroutines: processItem and markDoneID
  flusher,     \* runFlushNewEvents: rows still to be copied, the one in hand
  cleaner,     \* cleanupRecent: the ids it read, and whether it deleted the rows
  ran,         \* per event: how often its handler was done with it
  settled,     \* events that were handled, given up, cancelled or removed
  faults, breaks

redis == <<soon, recent>>
procs == <<checking, processing, task>>
bot   == <<home, onGuild>>
bgw   == <<flusher, cleaner>>
past  == <<ran, settled>>
vars  == <<row, due, scheduling, redis, bot, procs, bgw, past, faults, breaks>>

Tasks  == 1 .. MaxTasks
Places == {"find", "handle", "mark", "release", "update", "zrem"}
NoTask == [at |-> "none", proc |-> NoProc, event |-> NoEvent, tries |-> 0]
Task   == [at : Places, proc : Procs, event : Events, tries : 0 .. (MaxTries - 1)]

TypeOK ==
  /\ row \in [Events -> {"new", "pending", "processed", "gone"}]
  /\ due \subseteq Events /\ scheduling \subseteq Events
  /\ soon \subseteq Events /\ recent \subseteq Events
  /\ home \in Procs \cup {NoProc} /\ onGuild \in BOOLEAN
  /\ checking \in [Procs -> SUBSET Events]
  /\ processing \in [Procs -> SUBSET Events]
  /\ task \in [Tasks -> Task \cup {NoTask}]
  /\ flusher \in [list : SUBSET Events, item : Events \cup {NoEvent}]
  /\ cleaner \in [ids : SUBSET Events, deleted : BOOLEAN]
  /\ ran \in [Events -> Nat] /\ settled \subseteq Events
  /\ faults \in 0 .. MaxFaults /\ breaks \in 0 .. MaxBreaks

FlusherIdle == [list |-> {}, item |-> NoEvent]
CleanerIdle == [ids |-> {}, deleted |-> FALSE]

Init ==
  /\ row = [e \in Events |-> "new"]
  /\ due = {} /\ scheduling = {} /\ soon = {} /\ recent = {}
  /\ home \in Procs /\ onGuild = TRUE
  /\ checking = [p \in Procs |-> {}] /\ processing = [p \in Procs |-> {}]
  /\ task = [t \in Tasks |-> NoTask]
  /\ flusher = FlusherIdle /\ cleaner = CleanerIdle
  /\ ran = [e \in Events |-> 0] /\ settled = {}
  /\ faults = 0 /\ breaks = 0

-----------------------------------------------------------------------------
(* Scheduling.                                                             *)

\* ScheduleEvent inserts the row; within an hour of its time it goes on to copy
\* it to Redis.
ScheduleEvent(e) ==
  /\ row[e] = "new"
  /\ row' = [row EXCEPT ![e] = "pending"]
  /\ \/ scheduling' = scheduling \cup {e}
     \/ e \notin due /\ UNCHANGED scheduling
  /\ UNCHANGED <<due, redis, bot, procs, bgw, past, faults, breaks>>

FlushNow(e) ==
  /\ e \in scheduling
  /\ scheduling' = scheduling \ {e}
  /\ soon' = soon \cup {e}
  /\ UNCHANGED <<row, due, recent, bot, procs, bgw, past, faults, breaks>>

\* The process that was scheduling dies, or cannot reach Redis.
FlushNever(e) ==
  /\ e \in scheduling
  /\ scheduling' = scheduling \ {e}
  /\ UNCHANGED <<row, due, redis, bot, procs, bgw, past, faults, breaks>>

\* ScheduleRemoveRole and CancelAddRole delete what has not been processed.
Cancel(e) ==
  /\ row[e] = "pending"
  /\ row' = [row EXCEPT ![e] = "gone"]
  /\ settled' = settled \cup {e}
  /\ UNCHANGED <<due, scheduling, redis, bot, procs, bgw, ran, faults, breaks>>

BecomesDue(e) ==
  /\ e \notin due
  /\ due' = due \cup {e}
  /\ UNCHANGED <<row, scheduling, redis, bot, procs, bgw, past, faults, breaks>>

-----------------------------------------------------------------------------
(* check(): once a second, in every process, under currentlyProcessingMU.  *)

\* The bound on goroutines leaves room for those that this check may start.
Room(S) ==
  \E T \in SUBSET Tasks :
    Cardinality(T) = Cardinality(S) /\ \A t \in T : task[t] = NoTask

CheckStarts(p) ==
  /\ home = p /\ checking[p] = {}
  /\ Room(due \cap soon)
  /\ checking' = [checking EXCEPT ![p] = due \cap soon]
  /\ UNCHANGED <<row, due, scheduling, redis, bot, processing, task, bgw, past,
                 faults, breaks>>

Locked(p) == checking[p] # {}

Checked(p, e) == checking' = [checking EXCEPT ![p] = @ \ {e}]

\* A goroutine is started, for which there is room.
Spawn(place, p, e) ==
  \E t \in Tasks :
    /\ task[t] = NoTask /\ \A u \in 1 .. (t - 1) : task[u] # NoTask
    /\ task' = [task EXCEPT ![t] =
                  [at |-> place, proc |-> p, event |-> e, tries |-> 0]]

\* checkShouldSkipRemove: the shard is not ready here, or the event is being
\* processed.
Skip(p, e) ==
  /\ e \in checking[p]
  /\ home # p \/ (onGuild /\ e \in processing[p])
  /\ Checked(p, e)
  /\ UNCHANGED <<row, due, scheduling, redis, bot, processing, task, bgw, past,
                 faults, breaks>>

\* The bot is not on the guild any more: markDoneID, also if it is being processed.
Remove(p, e) ==
  /\ e \in checking[p]
  /\ home = p /\ ~onGuild
  /\ Checked(p, e)
  /\ Spawn("update", p, e)
  /\ UNCHANGED <<row, due, scheduling, redis, bot, processing, bgw, past,
                 faults, breaks>>

Considers(p, e) ==
  e \in checking[p] /\ home = p /\ onGuild /\ e \notin processing[p]

\* It was done recently: it leaves the sorted set.
Unlist(p, e) ==
  /\ Considers(p, e) /\ e \in recent
  /\ Checked(p, e)
  /\ soon' = soon \ {e}
  /\ UNCHANGED <<row, due, scheduling, recent, bot, processing, task, bgw, past,
                 faults, breaks>>

\* Mutant: what was done recently is not looked at.
DoneOrNot(e) == TRUE

NotDone(e) == e \notin recent

Process(p, e) ==
  /\ Considers(p, e) /\ NotDone(e)
  /\ Checked(p, e)
  /\ processing' = [processing EXCEPT ![p] = @ \cup {e}]
  /\ Spawn("find", p, e)
  /\ UNCHANGED <<row, due, scheduling, redis, bot, bgw, past, faults, breaks>>

CheckStep(p) ==
  \/ CheckStarts(p)
  \/ \E e \in Events : Skip(p, e) \/ Remove(p, e) \/ Unlist(p, e) \/ Process(p, e)

-----------------------------------------------------------------------------
(* processItem and markDoneID, in goroutines of their own.                 *)

At(t, place) == task[t].at = place
Goes(t, place) == task' = [task EXCEPT ![t].at = place]

Finds(t) ==
  /\ At(t, "find")
  /\ Goes(t, IF row[task[t].event] = "pending" THEN "handle" ELSE "mark")
  /\ UNCHANGED <<row, due, scheduling, redis, bot, checking, processing, bgw, past,
                 faults, breaks>>

\* No handler is registered for it, or its data cannot be decoded.
CannotHandle(t) ==
  /\ At(t, "find") /\ row[task[t].event] = "pending"
  /\ faults < MaxFaults
  /\ faults' = faults + 1
  /\ settled' = settled \cup {task[t].event}
  /\ Goes(t, "mark")
  /\ UNCHANGED <<row, due, scheduling, redis, bot, checking, processing, bgw, ran,
                 breaks>>

\* Mutant: an event that could not be read is taken for one that is gone.
TakenForGone == "mark"

NotFound == "release"

\* The query fails: the event is left to the next check.
CannotFind(t) ==
  /\ At(t, "find") /\ faults < MaxFaults
  /\ faults' = faults + 1
  /\ Goes(t, NotFound)
  /\ UNCHANGED <<row, due, scheduling, redis, bot, checking, processing, bgw, past,
                 breaks>>

\* The handler returns, and does not ask for a retry.
Handles(t) ==
  /\ At(t, "handle")
  /\ ran' = [ran EXCEPT ![task[t].event] = @ + 1]
  /\ settled' = settled \cup {task[t].event}
  /\ Goes(t, "mark")
  /\ UNCHANGED <<row, due, scheduling, redis, bot, checking, processing, bgw,
                 faults, breaks>>

Again(t) == task[t].tries + 1 < MaxTries

\* It does: after a pause it is called again, so many times.
Retries(t) ==
  /\ At(t, "handle") /\ Again(t)
  /\ task' = [task EXCEPT ![t].tries = @ + 1]
  /\ UNCHANGED <<row, due, scheduling, redis, bot, checking, processing, bgw, past,
                 faults, breaks>>

GivesUp(t) ==
  /\ At(t, "handle") /\ ~Again(t)
  /\ settled' = settled \cup {task[t].event}
  /\ Goes(t, "mark")
  /\ UNCHANGED <<row, due, scheduling, redis, bot, checking, processing, bgw, ran,
                 faults, breaks>>

\* A panic is recovered from; nothing is marked.
Panics(t) ==
  /\ At(t, "handle") /\ faults < MaxFaults
  /\ faults' = faults + 1
  /\ Goes(t, "release")
  /\ UNCHANGED <<row, due, scheduling, redis, bot, checking, processing, bgw, past,
                 breaks>>

\* markDoneFast.
Marks(t) ==
  /\ At(t, "mark")
  /\ recent' = recent \cup {task[t].event}
  /\ Goes(t, "release")
  /\ UNCHANGED <<row, due, scheduling, soon, bot, checking, processing, bgw, past,
                 faults, breaks>>

CannotMark(t) ==
  /\ At(t, "mark") /\ breaks < MaxBreaks
  /\ breaks' = breaks + 1
  /\ Goes(t, "release")
  /\ UNCHANGED <<row, due, scheduling, redis, bot, checking, processing, bgw, past,
                 faults>>

\* markDoneID updates the row, which may have been deleted, whatever it says.
Updates(t) ==
  /\ At(t, "update")
  /\ LET e == task[t].event
     IN  /\ row' = [row EXCEPT ![e] = IF @ = "pending" THEN "processed" ELSE @]
         /\ settled' = settled \cup {e}
  /\ Goes(t, "zrem")
  /\ UNCHANGED <<due, scheduling, redis, bot, checking, processing, bgw, ran,
                 faults, breaks>>

\* The update fails: the event is left, but not as one that is being processed.
CannotUpdate(t) ==
  /\ At(t, "update") /\ breaks < MaxBreaks
  /\ breaks' = breaks + 1
  /\ Goes(t, "release")
  /\ UNCHANGED <<row, due, scheduling, redis, bot, checking, processing, bgw, past,
                 faults>>

Unlists(t) ==
  /\ At(t, "zrem")
  /\ soon' = soon \ {task[t].event}
  /\ Goes(t, "release")
  /\ UNCHANGED <<row, due, scheduling, recent, bot, checking, processing, bgw, past,
                 faults, breaks>>

\* Mutant: the event goes on being processed.
StillProcessing(t) == processing

Released(t) == [processing EXCEPT ![task[t].proc] = @ \ {task[t].event}]

\* The deferred function of both, which waits for check().
Release(t) ==
  /\ At(t, "release") /\ ~Locked(task[t].proc)
  /\ processing' = Released(t)
  /\ task' = [task EXCEPT ![t] = NoTask]
  /\ UNCHANGED <<row, due, scheduling, redis, bot, checking, bgw, past,
                 faults, breaks>>

TaskStep(t) ==
  \/ Finds(t) \/ Handles(t) \/ Retries(t) \/ GivesUp(t) \/ Marks(t)
  \/ Updates(t) \/ Unlists(t)

-----------------------------------------------------------------------------
(* The background worker: two goroutines of one process.                   *)

Pending == {e \in Events : row[e] = "pending"}

\* The rows that trigger within minutes, or have triggered.
FlushSelects ==
  /\ flusher = FlusherIdle
  /\ \E L \in SUBSET Pending :
       /\ Pending \cap due \subseteq L
       /\ flusher' = [flusher EXCEPT !.list = L]
  /\ UNCHANGED <<row, due, scheduling, redis, bot, procs, cleaner, past, faults, breaks>>

FlushLooks(e) ==
  /\ e \in flusher.list /\ flusher.item = NoEvent
  /\ flusher' = [list |-> flusher.list \ {e},
                 item |-> IF e \in recent THEN NoEvent ELSE e]
  /\ UNCHANGED <<row, due, scheduling, redis, bot, procs, cleaner, past, faults, breaks>>

\* flushEventToRedis, by when the event may have been done.
FlushAdds ==
  /\ flusher.item # NoEvent
  /\ soon' = soon \cup {flusher.item}
  /\ flusher' = [flusher EXCEPT !.item = NoEvent]
  /\ UNCHANGED <<row, due, scheduling, recent, bot, procs, cleaner, past, faults, breaks>>

FlushStep == FlushSelects \/ FlushAdds \/ \E e \in Events : FlushLooks(e)

CleanReads ==
  /\ cleaner = CleanerIdle /\ recent # {}
  /\ cleaner' = [cleaner EXCEPT !.ids = recent]
  /\ UNCHANGED <<row, due, scheduling, redis, bot, procs, flusher, past, faults, breaks>>

Deleted(ids) == [e \in Events |-> IF e \in ids THEN "gone" ELSE row[e]]

\* First the rows, then the ids: in between nothing can run them again.
CleanDeletes ==
  /\ cleaner.ids # {} /\ ~cleaner.deleted
  /\ row' = Deleted(cleaner.ids)
  /\ cleaner' = [cleaner EXCEPT !.deleted = TRUE]
  /\ UNCHANGED <<due, scheduling, redis, bot, procs, flusher, past, faults, breaks>>

CleanForgets ==
  /\ cleaner.deleted
  /\ recent' = recent \ cleaner.ids
  /\ cleaner' = CleanerIdle
  /\ UNCHANGED <<row, due, scheduling, soon, bot, procs, flusher, past, faults, breaks>>

CleanStep == CleanReads \/ CleanDeletes \/ CleanForgets

\* runCleanup.
CleansProcessed ==
  /\ \E e \in Events : row[e] = "processed"
  /\ row' = [e \in Events |-> IF row[e] = "processed" THEN "gone" ELSE row[e]]
  /\ UNCHANGED <<due, scheduling, redis, bot, procs, bgw, past, faults, breaks>>

\* The process stops, or a query of it fails, anywhere.
WorkerStops ==
  /\ faults < MaxFaults
  /\ faults' = faults + 1
  /\ flusher' = FlusherIdle /\ cleaner' = CleanerIdle
  /\ UNCHANGED <<row, due, scheduling, redis, bot, procs, past, breaks>>

-----------------------------------------------------------------------------
(* The bot around it.                                                      *)

LeavesGuild ==
  /\ onGuild /\ faults < MaxFaults
  /\ onGuild' = FALSE /\ faults' = faults + 1
  /\ UNCHANGED <<row, due, scheduling, redis, home, procs, bgw, past, breaks>>

JoinsGuild ==
  /\ ~onGuild /\ onGuild' = TRUE
  /\ UNCHANGED <<row, due, scheduling, redis, home, procs, bgw, past, faults, breaks>>

\* The shard is migrated away; what the process has begun goes on.
ShardRemoved ==
  /\ home # NoProc /\ breaks < MaxBreaks
  /\ breaks' = breaks + 1
  /\ home' = NoProc
  /\ UNCHANGED <<row, due, scheduling, redis, onGuild, procs, bgw, past, faults>>

ShardReady(p) ==
  /\ home = NoProc /\ home' = p
  /\ UNCHANGED <<row, due, scheduling, redis, onGuild, procs, bgw, past,
                 faults, breaks>>

\* A process ends: StopBot waits for the check loop, not for the goroutines.
Crash(p) ==
  /\ breaks < MaxBreaks
  /\ breaks' = breaks + 1
  /\ home' = IF home = p THEN NoProc ELSE home
  /\ checking' = [checking EXCEPT ![p] = {}]
  /\ processing' = [processing EXCEPT ![p] = {}]
  /\ task' = [t \in Tasks |-> IF task[t].proc = p THEN NoTask ELSE task[t]]
  /\ UNCHANGED <<row, due, scheduling, redis, onGuild, bgw, past, faults>>

Fault ==
  \/ \E e \in Events : FlushNever(e)
  \/ \E t \in Tasks : \/ CannotFind(t) \/ CannotHandle(t) \/ Panics(t)
                      \/ CannotMark(t) \/ CannotUpdate(t)
  \/ WorkerStops \/ ShardRemoved \/ \E p \in Procs : Crash(p)

Next ==
  \/ \E e \in Events : ScheduleEvent(e) \/ FlushNow(e) \/ Cancel(e) \/ BecomesDue(e)
  \/ \E p \in Procs : CheckStep(p) \/ ShardReady(p)
  \/ \E t \in Tasks : TaskStep(t) \/ Release(t)
  \/ FlushStep \/ CleanStep \/ CleansProcessed
  \/ LeavesGuild \/ JoinsGuild
  \/ Fault

Spec == Init /\ [][Next]_vars

\* Time passes, every loop and goroutine goes on, and a shard finds a process.  A
\* goroutine that waits for a mutex gets it, however often check() takes it.
FairSpec ==
  /\ Spec
  /\ \A e \in Events : WF_vars(BecomesDue(e))
  /\ \A p \in Procs : WF_vars(CheckStep(p))
  /\ \A t \in Tasks : WF_vars(TaskStep(t)) /\ SF_vars(Release(t))
  /\ WF_vars(FlushStep) /\ WF_vars(CleanStep)
  /\ WF_vars(\E p \in Procs : ShardReady(p))

-----------------------------------------------------------------------------
(* Properties.                                                             *)

(* The handler of an event is done with it once, and once more at the most for
   each crash, move of the shard or write that failed: the copies that the
   flusher makes from old rows, and the cleanup in the middle of a check, do
   not bring an event back.                                                 *)
RunsOnce == \A e \in Events : ran[e] <= 1 + breaks

(* No row is deleted whose event was not handled, given up after all its
   tries or for want of a handler, cancelled, or removed with the guild.    *)
NothingIsDropped == \A e \in Events : row[e] = "gone" => e \in settled

(* Every event that was scheduled is settled in the end, whatever fails in
   between, and its row leaves the queue of pending ones.                   *)
EventsEnd == \A e \in Events : <>[](row[e] # "pending")
=============================================================================
