---------------------------- MODULE FeatureFlags ----------------------------
(* What a guild uses, as flags in Redis that are derived from the plugins'   *)
(* tables (common/featureflags): the updates that the control panel makes or *)
(* leaves to the background worker, and every process's cache of the flags,  *)
(* which is kept up to date with published evictions.                        *)
EXTENDS Integers, Sequences

CONSTANTS
  Guilds,
  Procs,       \* processes, each with a cache
  Web,         \* requests of the control panel
  Worker,      \* the background worker
  ProcOf,      \* ProcOf[a]: the process a runs in
  Plugins,
  FlagsOf,     \* FlagsOf[p]: AllFeatureFlags of plugin p
  None,
  Settings,    \* bound: what the plugins' tables may ask for at first
  MaxChanges,  \* bound on the changes of settings
  MaxTroubles, \* bound on crashes, failed queries and lost messages
  MaxFetches,  \* bound on the flags fetched from Redis
  MaxLoad,     \* bound on the sum of the three
  Watched      \* bound: the guilds whose settings change and whose flags are fetched

Actors == Web \cup {Worker}
Flags == UNION {FlagsOf[p] : p \in Plugins}

ASSUME FlagsAssumption ==
  /\ Worker \notin Web
  /\ ProcOf \in [Actors -> Procs]
  /\ Plugins # {} /\ \A p, q \in Plugins : p # q => FlagsOf[p] \cap FlagsOf[q] = {}
  /\ Settings \subseteq [Guilds -> SUBSET Flags]
  /\ None \notin Guilds /\ Watched \subseteq Guilds
  /\ MaxChanges \in Nat /\ MaxTroubles \in Nat /\ MaxFetches \in Nat /\ MaxLoad \in Nat

VARIABLES
  config,       \* config[g]: the flags that the plugins' tables ask for
  flags,        \* flags[g]: the set f_flags:<g> in Redis
  high, low,    \* feature_flags_dirty_high_priority and _low_priority
  initialized,  \* whether feature_flags_initialized has the plugins' flags
  job,          \* job[a]: what a is doing
  popped,       \* guilds the worker has taken and not begun
  remark,       \* guilds a goroutine of the worker is about to mark again
  cache,        \* cache[p][g]: {what is cached}, or {}
  fetch,        \* fetch[p][g]: {what was read from Redis} with the cache locked, or {}
  inbox,        \* inbox[p]: the evictions on their way to p
  missed,       \* missed[p]: guilds whose eviction never gets to p
  excused,      \* guilds of whose update something went wrong for good
  changes, troubles, fetches

sets == <<high, low, popped, remark>>
caches == <<cache, fetch, inbox, missed>>
bounds == <<changes, troubles, fetches>>
vars == <<config, flags, sets, initialized, job, caches, excused, bounds>>

Idle == [at |-> "idle", guild |-> None, todo |-> {}, active |-> {}, failed |-> FALSE]

(* What a cache may hold for a guild.                                        *)
Copies == {{}} \cup {{F} : F \in SUBSET Flags}

Stages == {"down", "init", "idle", "low", "mark", "read", "add", "remove", "publish", "evict"}

Jobs == [at : Stages, guild : Guilds \cup {None}, todo : SUBSET Plugins,
         active : SUBSET Flags, failed : BOOLEAN]

Init ==
  /\ config \in Settings
  /\ flags = [g \in Guilds |-> {}]
  /\ high = {} /\ low = {} /\ popped = {} /\ remark = {}
  /\ initialized = FALSE
  /\ job = [a \in Actors |-> IF a = Worker THEN [Idle EXCEPT !.at = "down"] ELSE Idle]
  /\ cache = [p \in Procs |-> [g \in Guilds |-> {}]] /\ fetch = cache
  /\ inbox = [p \in Procs |-> <<>>]
  /\ missed = [p \in Procs |-> {}]
  /\ excused = {}
  /\ changes = 0 /\ troubles = 0 /\ fetches = 0

Room == changes + troubles + fetches < MaxLoad

Trouble ==
  /\ Room /\ troubles < MaxTroubles /\ troubles' = troubles + 1
  /\ UNCHANGED <<changes, fetches>>

Updating == {"read", "add", "remove", "publish"}

-----------------------------------------------------------------------------
(* Settings are changed in the control panel: the handler saves them, and    *)
(* then either updates the flags of its plugin or marks the guild.           *)

Saved(w, g, p, job1) ==
  /\ job[w].at = "idle"
  /\ Room /\ changes < MaxChanges /\ changes' = changes + 1
  /\ \E on \in SUBSET FlagsOf[p] : config' = [config EXCEPT ![g] = (@ \ FlagsOf[p]) \cup on]
  /\ job' = [job EXCEPT ![w] = job1]
  /\ UNCHANGED <<flags, sets, initialized, caches, excused, troubles, fetches>>

SaveAndUpdate(w, g, p) ==
  Saved(w, g, p, [Idle EXCEPT !.at = "read", !.guild = g, !.todo = {p}])

SaveAndMark(w, g, p) == Saved(w, g, p, [Idle EXCEPT !.at = "mark", !.guild = g])

\* Mutant: MarkGuildDirty marks a guild only if the worker does not have it.
MarkedUnlessPopped(g) == IF g \in popped \cup {job[Worker].guild} THEN high ELSE high \cup {g}

Marked(g) == high \cup {g}

(* MarkGuildDirty tries until it succeeds.                                   *)
MarkDirty(w) ==
  /\ job[w].at = "mark"
  /\ high' = Marked(job[w].guild)
  /\ job' = [job EXCEPT ![w] = Idle]
  /\ UNCHANGED <<config, flags, low, popped, remark, initialized, caches, excused, bounds>>

Remark(g) ==
  /\ g \in remark
  /\ remark' = remark \ {g} /\ high' = high \cup {g}
  /\ UNCHANGED <<config, flags, low, popped, initialized, job, caches, excused, bounds>>

-----------------------------------------------------------------------------
(* updatePluginFeatureFlags                                                  *)

Plugin(j) == CHOOSE p \in j.todo : TRUE

(* The plugin reads its tables. If another update of the same flags is       *)
(* between its read and its last write, nothing says whose flags stay.       *)
Raced(a, g, p) ==
  \E b \in Actors \ {a} :
    job[b].guild = g /\ job[b].at \in {"add", "remove"} /\ Plugin(job[b]) = p

Read(a) ==
  LET j == job[a]
      p == Plugin(j)
  IN /\ j.at = "read"
     /\ job' = [job EXCEPT ![a].at = "add", ![a].active = config[j.guild] \cap FlagsOf[p]]
     /\ excused' = excused \cup IF Raced(a, j.guild, p) THEN {j.guild} ELSE {}
     /\ UNCHANGED <<config, flags, sets, initialized, caches, bounds>>

Add(a) ==
  LET j == job[a]
  IN /\ j.at = "add"
     /\ flags' = [flags EXCEPT ![j.guild] = @ \cup j.active]
     /\ job' = [job EXCEPT ![a].at = "remove"]
     /\ UNCHANGED <<config, sets, initialized, caches, excused, bounds>>

Inactive(p, active) == FlagsOf[p] \ active

\* Mutant: the evictions are published only if nothing failed.
OnlyOnSuccess(j, failed) ==
  LET rest == j.todo \ {Plugin(j)}
  IN [j EXCEPT !.todo = rest, !.active = {}, !.failed = @ \/ failed,
               !.at = IF rest # {} THEN "read"
                      ELSE IF j.failed \/ failed THEN "idle" ELSE "publish"]

(* The next plugin, or the deferred publications.                            *)
PluginDone(j, failed) ==
  LET rest == j.todo \ {Plugin(j)}
  IN [j EXCEPT !.todo = rest, !.active = {}, !.failed = @ \/ failed,
               !.at = IF rest = {} THEN "publish" ELSE "read"]

Remove(a) ==
  LET j == job[a]
  IN /\ j.at = "remove"
     /\ flags' = [flags EXCEPT ![j.guild] = @ \ Inactive(Plugin(j), j.active)]
     /\ job' = [job EXCEPT ![a] = PluginDone(j, FALSE)]
     /\ UNCHANGED <<config, sets, initialized, caches, excused, bounds>>

(* A query or a command of Redis fails. Nobody repeats an update of the      *)
(* control panel; the worker marks the guild again.                          *)
UpdateFails(a) ==
  LET j == job[a]
  IN /\ j.at \in {"read", "add", "remove"}
     /\ Trouble
     /\ job' = [job EXCEPT ![a] = PluginDone(j, TRUE)]
     /\ excused' = excused \cup IF a = Worker THEN {} ELSE {j.guild}
     /\ UNCHANGED <<config, flags, sets, initialized, caches>>

(* Both events are published, one of them for the processes that serve the   *)
(* guild and one for all: the latter stands for the two. Processes that are  *)
(* subscribing again do not get it.                                          *)
Published(g, got) ==
  /\ inbox' = [p \in Procs |-> IF p \in got THEN Append(inbox[p], g) ELSE inbox[p]]
  /\ missed' = [p \in Procs |-> IF p \in got THEN missed[p] ELSE missed[p] \cup {g}]
  /\ IF got = Procs THEN UNCHANGED bounds ELSE Trouble
  /\ UNCHANGED <<cache, fetch>>

PublishWeb(w) ==
  /\ job[w].at = "publish"
  /\ \E got \in SUBSET Procs : Published(job[w].guild, got)
  /\ job' = [job EXCEPT ![w].at = "evict"]
  /\ UNCHANGED <<config, flags, sets, initialized, excused>>

EvictHere(w) ==
  LET p == ProcOf[w]
      g == job[w].guild
  IN /\ job[w].at = "evict"
     /\ fetch[p][g] = {}
     /\ cache' = [cache EXCEPT ![p][g] = {}]
     /\ missed' = [missed EXCEPT ![p] = @ \ {g}]
     /\ job' = [job EXCEPT ![w] = Idle]
     /\ UNCHANGED <<config, flags, sets, initialized, fetch, inbox, excused, bounds>>

-----------------------------------------------------------------------------
(* The background worker.                                                    *)

(* checkInitFeatureFlags: all guilds are marked, then the flags are known.   *)
StartWorker ==
  /\ job[Worker].at = "down"
  /\ IF initialized
     THEN low' = low /\ job' = [job EXCEPT ![Worker].at = "idle"]
     ELSE low' = Guilds /\ job' = [job EXCEPT ![Worker].at = "init"]
  /\ UNCHANGED <<config, flags, high, popped, remark, initialized, caches, excused, bounds>>

Initialized ==
  /\ job[Worker].at = "init"
  /\ initialized' = TRUE
  /\ job' = [job EXCEPT ![Worker].at = "idle"]
  /\ UNCHANGED <<config, flags, sets, caches, excused, bounds>>

Begin(g) == [Idle EXCEPT !.at = "read", !.guild = g, !.todo = Plugins]

(* runUpdateDirtyFlags takes up to 25 guilds, more than there are here.      *)
Take(batch) ==
  \E g \in batch : popped' = batch \ {g} /\ job' = [job EXCEPT ![Worker] = Begin(g)]

PopHigh ==
  /\ job[Worker].at = "idle"
  /\ \/ Take(high)
     \/ high = {} /\ job' = [job EXCEPT ![Worker].at = "low"] /\ UNCHANGED popped
  /\ high' = {}
  /\ UNCHANGED <<config, flags, low, remark, initialized, caches, excused, bounds>>

\* Mutant: guilds with low priority are left to the next start.
LeaveLow ==
  /\ job[Worker].at = "low"
  /\ job' = [job EXCEPT ![Worker] = Idle]
  /\ UNCHANGED <<config, flags, sets, initialized, caches, excused, bounds>>

(* Those with low priority only if there were no others.                     *)
PopLow ==
  /\ job[Worker].at = "low"
  /\ \/ Take(low)
     \/ low = {} /\ job' = [job EXCEPT ![Worker] = Idle] /\ UNCHANGED popped
  /\ low' = {}
  /\ UNCHANGED <<config, flags, high, remark, initialized, caches, excused, bounds>>

(* A pop fails, or is executed and its answer lost: the worker returns, and  *)
(* tries again at the next tick, without the guilds that were taken.         *)
PopFails ==
  /\ \/ job[Worker].at = "idle" /\ high' \in {{}, high} /\ low' = low
     \/ job[Worker].at = "low" /\ low' \in {{}, low} /\ high' = high
  /\ Trouble
  /\ job' = [job EXCEPT ![Worker] = Idle]
  /\ excused' = excused \cup (high \ high') \cup (low \ low')
  /\ UNCHANGED <<config, flags, popped, remark, initialized, caches>>

MarkedAgain(j) == IF j.failed THEN {j.guild} ELSE {}

(* After an error the rest of the batch is dropped.                          *)
PublishWorker ==
  LET j == job[Worker]
  IN /\ j.at = "publish"
     /\ \E got \in SUBSET Procs : Published(j.guild, got)
     /\ remark' = remark \cup MarkedAgain(j)
     /\ IF j.failed \/ popped = {}
        THEN /\ popped' = {} /\ job' = [job EXCEPT ![Worker] = Idle]
             /\ excused' = excused \cup popped
        ELSE /\ \E g \in popped :
                  popped' = popped \ {g} /\ job' = [job EXCEPT ![Worker] = Begin(g)]
             /\ UNCHANGED excused
     /\ UNCHANGED <<config, flags, high, low, initialized>>

-----------------------------------------------------------------------------
(* The caches.                                                               *)

(* getGuildFlags: Redis is asked with the cache locked.                      *)
Fetch(p, g) ==
  /\ cache[p][g] = {} /\ fetch[p][g] = {}
  /\ Room /\ fetches < MaxFetches /\ fetches' = fetches + 1
  /\ fetch' = [fetch EXCEPT ![p][g] = {flags[g]}]
  /\ UNCHANGED <<config, flags, sets, initialized, job, cache, inbox, missed, excused,
                 changes, troubles>>

Fetched(p, g) ==
  /\ fetch[p][g] # {}
  /\ cache' = [cache EXCEPT ![p][g] = fetch[p][g]]
  /\ fetch' = [fetch EXCEPT ![p][g] = {}]
  /\ UNCHANGED <<config, flags, sets, initialized, job, inbox, missed, excused, bounds>>

Unlocked(p, g) == fetch[p][g] = {}

(* The goroutine that polls for events handles one after the other.          *)
HandleEvict(p) ==
  /\ inbox[p] # <<>>
  /\ LET g == Head(inbox[p])
     IN /\ Unlocked(p, g)
        /\ cache' = [cache EXCEPT ![p][g] = {}]
        /\ missed' = [missed EXCEPT ![p] = @ \ {g}]
  /\ inbox' = [inbox EXCEPT ![p] = Tail(@)]
  /\ UNCHANGED <<config, flags, sets, initialized, job, fetch, excused, bounds>>

(* A process ends, with its cache and whatever its goroutines were doing.    *)
Crash(p) ==
  LET dead == {a \in Actors : ProcOf[a] = p}
      At(S) == {job[a].guild : a \in {b \in dead : job[b].at \in S}}
      half == {job[a].guild : a \in {b \in dead : job[b].at = "publish" /\ job[b].failed}}
      lost == At({"mark", "read", "add", "remove"}) \cup half
              \cup IF Worker \in dead THEN popped \cup remark ELSE {}
  IN /\ Trouble
     /\ job' = [a \in Actors |-> IF a \notin dead THEN job[a]
                                 ELSE IF a = Worker THEN [Idle EXCEPT !.at = "down"] ELSE Idle]
     /\ excused' = excused \cup lost
     /\ popped' = IF Worker \in dead THEN {} ELSE popped
     /\ remark' = IF Worker \in dead THEN {} ELSE remark
     /\ cache' = [cache EXCEPT ![p] = [g \in Guilds |-> {}]]
     /\ fetch' = [fetch EXCEPT ![p] = [g \in Guilds |-> {}]]
     /\ inbox' = [inbox EXCEPT ![p] = <<>>]
     /\ missed' = [q \in Procs |-> IF q = p THEN {} ELSE missed[q] \cup At(Updating)]
     /\ UNCHANGED <<config, flags, high, low, initialized>>

Update(a) == Read(a) \/ Add(a) \/ Remove(a)

WebStep(w) == MarkDirty(w) \/ Update(w) \/ PublishWeb(w) \/ EvictHere(w)

WorkerStep == StartWorker \/ Initialized \/ PopHigh \/ PopLow \/ Update(Worker) \/ PublishWorker

CacheStep(p) == HandleEvict(p) \/ \E g \in Guilds : Fetched(p, g)

Next ==
  \/ \E w \in Web, g \in Watched, p \in Plugins : SaveAndUpdate(w, g, p) \/ SaveAndMark(w, g, p)
  \/ \E w \in Web : WebStep(w)
  \/ WorkerStep \/ PopFails
  \/ \E a \in Actors : UpdateFails(a)
  \/ \E g \in Guilds : Remark(g)
  \/ \E p \in Procs : CacheStep(p) \/ Crash(p) \/ \E g \in Watched : Fetch(p, g)

(* Requests and the goroutines of a process go on, a worker that ended is    *)
(* started again, events are handled.                                        *)
Fairness ==
  /\ \A w \in Web : WF_vars(WebStep(w))
  /\ WF_vars(WorkerStep)
  /\ \A g \in Guilds : WF_vars(Remark(g))
  /\ \A p \in Procs : WF_vars(CacheStep(p))

Spec == Init /\ [][Next]_vars /\ Fairness

-----------------------------------------------------------------------------
(* Properties *)

(* Types of the sets, the jobs and the caches.                               *)
TypeOK ==
  /\ config \in [Guilds -> SUBSET Flags] /\ flags \in [Guilds -> SUBSET Flags]
  /\ high \subseteq Guilds /\ low \subseteq Guilds
  /\ popped \subseteq Guilds /\ remark \subseteq Guilds
  /\ initialized \in BOOLEAN
  /\ job \in [Actors -> Jobs]
  /\ \A a \in Actors : job[a].at \in Updating \cup {"mark", "evict"} => job[a].guild \in Guilds
  /\ \A a \in Actors : job[a].at \in {"read", "add", "remove"} => job[a].todo # {}
  /\ cache \in [Procs -> [Guilds -> Copies]]
  /\ fetch \in [Procs -> [Guilds -> Copies]]
  /\ inbox \in [Procs -> Seq(Guilds)]
  /\ missed \in [Procs -> SUBSET Guilds]
  /\ excused \subseteq Guilds
  /\ changes \in 0..MaxChanges /\ troubles \in 0..MaxTroubles /\ fetches \in 0..MaxFetches

(* Somebody still has to bring the flags of g up to date.                    *)
Due(g) ==
  \/ ~initialized
  \/ g \in high \cup low \cup popped \cup remark
  \/ \E a \in Actors : /\ job[a].guild = g
                       /\ \/ job[a].at \in {"mark", "read", "add", "remove"}
                          \/ job[a].failed

(* Flags that nobody has to update any more are those that the settings ask  *)
(* for. Excused: updates of the same plugin's flags that overlap, a failed   *)
(* update of the control panel, what a process that ends has begun, the rest *)
(* of a batch after an error, and a batch that was popped but not received.  *)
FlagsFollowSettings == \A g \in Guilds \ excused : Due(g) \/ flags[g] = config[g]

(* Whoever is due is updated in the end.                                     *)
UpdatesEnd == \A g \in Guilds : []<>(~Due(g) \/ g \in excused)

(* What p is going to be told, or has missed.                                *)
Owed ==
  [p \in Procs |->
     missed[p] \cup {inbox[p][i] : i \in DOMAIN inbox[p]}
     \cup {job[a].guild : a \in {b \in Actors : job[b].at \in Updating}}]

(* What a cache shows or is about to show.                                   *)
Seen ==
  [p \in Procs |-> [g \in Guilds |-> IF fetch[p][g] # {} THEN fetch[p][g] ELSE cache[p][g]]]

Cached == INSTANCE CachedSets WITH
  Keys <- Guilds, Readers <- Procs, Values <- Copies \ {{}}, None <- {},
  truth <- [g \in Guilds |-> {flags[g]}], view <- Seen, owed <- Owed

(* The caches implement the abstract ones: what a process has cached was     *)
(* stored when it was fetched, and it is owed an eviction if it has changed. *)
CachesRefine == Cached!CSpec

(* What is cached is what Redis has, or an eviction is on its way or missed. *)
CachesFollow == Cached!ViewsAreCurrent
=============================================================================
