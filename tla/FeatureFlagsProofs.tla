------------------------- MODULE FeatureFlagsProofs -------------------------
(***************************************************************************)
(* For any guilds, processes, requests and plugins: the caches of the      *)
(* feature flags implement CachedSets, and the flags follow the settings.  *)
(***************************************************************************)
EXTENDS FeatureFlags, TLAPS

\* The part of the type invariant that the proofs need.
JobShapes ==
  /\ job \in [Actors -> Jobs]
  /\ \A a \in Actors : job[a].at \in Updating \cup {"mark", "evict"} => job[a].guild \in Guilds

CacheShapes ==
  /\ cache \in [Procs -> [Guilds -> Copies]] /\ fetch \in [Procs -> [Guilds -> Copies]]
  /\ inbox \in [Procs -> Seq(Guilds)] /\ missed \in [Procs -> SUBSET Guilds]

Shapes ==
  /\ config \in [Guilds -> SUBSET Flags] /\ flags \in [Guilds -> SUBSET Flags]
  /\ high \subseteq Guilds /\ low \subseteq Guilds
  /\ popped \subseteq Guilds /\ remark \subseteq Guilds
  /\ JobShapes /\ CacheShapes

LEMMA IdleTyped ==
  /\ Idle \in Jobs /\ [Idle EXCEPT !.at = "down"] \in Jobs
  /\ Idle.at = "idle" /\ [Idle EXCEPT !.at = "down"].at = "down"
  BY DEF Idle, Jobs, Stages

LEMMA InitShapes == Init => Shapes
  <1> SUFFICES ASSUME Init PROVE Shapes
    OBVIOUS
  <1>1. JobShapes
    BY IdleTyped DEF Init, JobShapes, Updating
  <1>2. CacheShapes
    BY DEF Init, CacheShapes, Copies
  <1> QED BY <1>1, <1>2, FlagsAssumption DEF Init, Shapes

(* An actor goes on with a job of the right type, on a guild if it needs one. *)
LEMMA JobGoesOn ==
  ASSUME JobShapes, NEW a \in Actors, NEW j \in Jobs, job' = [job EXCEPT ![a] = j],
         j.at \in Updating \cup {"mark", "evict"} => j.guild \in Guilds
  PROVE  JobShapes'
  BY DEF JobShapes

LEMMA BeginTyped ==
  ASSUME NEW g \in Guilds
  PROVE  Begin(g) \in Jobs /\ Begin(g).guild = g /\ Begin(g).at = "read"
  BY DEF Begin, Idle, Jobs, Stages

(* updatePluginFeatureFlags goes to the next plugin, or to the publications. *)
LEMMA PluginDoneTyped ==
  ASSUME NEW j \in Jobs, NEW failed \in BOOLEAN
  PROVE  /\ PluginDone(j, failed) \in Jobs
         /\ PluginDone(j, failed).guild = j.guild
         /\ PluginDone(j, failed).at \in {"read", "publish"}
  <1> DEFINE rest  == j.todo \ {Plugin(j)}
             stage == IF rest = {} THEN "publish" ELSE "read"
             err   == j.failed \/ failed
  <1>1. PluginDone(j, failed) =
          [j EXCEPT !.todo = rest, !.active = {}, !.failed = err, !.at = stage]
    BY Zenon DEF PluginDone
  <1>2. rest \in SUBSET Plugins /\ stage \in {"read", "publish"}
    BY DEF Jobs
  <1>3. err \in BOOLEAN
    OBVIOUS
  <1> HIDE DEF rest, stage, err
  <1>4. [j EXCEPT !.todo = rest, !.active = {}, !.failed = err, !.at = stage] \in Jobs
    BY <1>2, <1>3 DEF Jobs, Stages
  <1>5. /\ [j EXCEPT !.todo = rest, !.active = {}, !.failed = err, !.at = stage].guild = j.guild
        /\ [j EXCEPT !.todo = rest, !.active = {}, !.failed = err, !.at = stage].at = stage
    BY <1>2 DEF Jobs
  <1> QED BY <1>1, <1>2, <1>4, <1>5

LEMMA ActorsHere == Worker \in Actors /\ Web \subseteq Actors
  BY DEF Actors

(* Whether a pop succeeds or not, the guilds that leave a list are those that
   the worker begins or holds, or they are excused.                         *)
Taken(g) ==
  /\ job' = [job EXCEPT ![Worker] = Begin(g)]
  /\ popped' \subseteq Guilds /\ excused' = excused
  /\ (high \ high') \cup (low \ low') \subseteq popped' \cup {g}

Rests(j) ==
  /\ job' = [job EXCEPT ![Worker] = j]
  /\ popped' = popped
  /\ excused' = excused \cup (high \ high') \cup (low \ low')

LEMMA Popping ==
  ASSUME Shapes, PopHigh \/ PopLow \/ PopFails
  PROVE  /\ job[Worker].at \in {"idle", "low"}
         /\ UNCHANGED <<config, flags, remark, initialized, caches>>
         /\ high' \subseteq high /\ low' \subseteq low
         /\ \/ \E g \in Guilds : Taken(g)
            \/ \E j \in Jobs : /\ j.at \in {"idle", "low"}
                               /\ j.failed \in {FALSE, job[Worker].failed}
                               /\ Rests(j)
  <1>1. /\ Idle \in Jobs /\ Idle.at = "idle" /\ Idle.failed = FALSE
    BY DEF Idle, Jobs, Stages
  <1>2. job[Worker] \in Jobs /\ high \subseteq Guilds /\ low \subseteq Guilds
    BY ActorsHere DEF Shapes, JobShapes
  <1>3. ASSUME NEW batch \in SUBSET Guilds, Take(batch), excused' = excused,
               (high \ high') \cup (low \ low') \subseteq batch
        PROVE  \E g \in Guilds : Taken(g)
    <2>1. PICK g \in batch :
            popped' = batch \ {g} /\ job' = [job EXCEPT ![Worker] = Begin(g)]
      BY <1>3 DEF Take
    <2>2. Taken(g) /\ g \in Guilds
      BY <1>3, <2>1 DEF Taken
    <2> QED BY <2>2
  <1>4. CASE PopHigh
    <2>1. /\ job[Worker].at = "idle" /\ high' = {}
          /\ UNCHANGED <<config, flags, low, remark, initialized, caches, excused>>
      BY <1>4 DEF PopHigh
    <2>2. CASE Take(high)
      BY <1>2, <1>3, <2>1, <2>2
    <2>3. CASE high = {} /\ job' = [job EXCEPT ![Worker].at = "low"] /\ UNCHANGED popped
      <3> DEFINE j == [job[Worker] EXCEPT !.at = "low"]
      <3>1. j \in Jobs /\ j.at = "low" /\ j.failed = job[Worker].failed
        BY <1>2 DEF Jobs, Stages
      <3>2. job' = [job EXCEPT ![Worker] = j]
        BY <2>3, ActorsHere DEF Shapes, JobShapes
      <3>3. Rests(j)
        BY <2>1, <2>3, <3>2 DEF Rests
      <3> QED BY <2>1, <3>1, <3>3
    <2> QED BY <1>4, <2>2, <2>3 DEF PopHigh
  <1>5. CASE PopLow
    <2>1. /\ job[Worker].at = "low" /\ low' = {}
          /\ UNCHANGED <<config, flags, high, remark, initialized, caches, excused>>
      BY <1>5 DEF PopLow
    <2>2. CASE Take(low)
      BY <1>2, <1>3, <2>1, <2>2
    <2>3. CASE low = {} /\ job' = [job EXCEPT ![Worker] = Idle] /\ UNCHANGED popped
      <3>1. Rests(Idle)
        BY <2>1, <2>3 DEF Rests
      <3> QED BY <1>1, <2>1, <3>1
    <2> QED BY <1>5, <2>2, <2>3 DEF PopLow
  <1>6. CASE PopFails
    <2>1. /\ job[Worker].at \in {"idle", "low"} /\ Rests(Idle)
          /\ high' \subseteq high /\ low' \subseteq low
          /\ UNCHANGED <<config, flags, remark, initialized, caches>>
      BY <1>6 DEF PopFails, Rests
    <2> QED BY <1>1, <2>1
  <1> QED BY <1>4, <1>5, <1>6

LEMMA ShapesStep == Shapes /\ [Next]_vars => Shapes'
  <1> SUFFICES ASSUME Shapes, [Next]_vars PROVE Shapes'
    OBVIOUS
  <1> USE DEF Shapes
  <1>1. ASSUME NEW w \in Web, NEW g \in Guilds, NEW p \in Plugins,
               SaveAndUpdate(w, g, p) \/ SaveAndMark(w, g, p)
        PROVE  Shapes'
    <2>1. PICK j \in Jobs : j.guild \in Guilds /\ Saved(w, g, p, j)
      <3>1. /\ [Idle EXCEPT !.at = "read", !.guild = g, !.todo = {p}] \in Jobs
            /\ [Idle EXCEPT !.at = "read", !.guild = g, !.todo = {p}].guild = g
            /\ [Idle EXCEPT !.at = "mark", !.guild = g] \in Jobs
            /\ [Idle EXCEPT !.at = "mark", !.guild = g].guild = g
        BY DEF Idle, Jobs, Stages
      <3> QED BY <1>1, <3>1 DEF SaveAndUpdate, SaveAndMark
    <2>2. JobShapes'
      BY <2>1, JobGoesOn, ActorsHere DEF Saved
    <2>3. config' \in [Guilds -> SUBSET Flags]
      <3>1. PICK on \in SUBSET FlagsOf[p] :
              config' = [config EXCEPT ![g] = (@ \ FlagsOf[p]) \cup on]
        BY <2>1 DEF Saved
      <3>2. FlagsOf[p] \subseteq Flags
        BY DEF Flags
      <3> QED BY <3>1, <3>2
    <2> QED BY <2>1, <2>2, <2>3 DEF Saved, sets, caches, CacheShapes
  <1>2. ASSUME NEW w \in Web, MarkDirty(w) PROVE Shapes'
    <2>1. JobShapes'
      BY <1>2, JobGoesOn, IdleTyped, ActorsHere DEF MarkDirty, Updating
    <2>2. job[w].guild \in Guilds
      BY <1>2, ActorsHere DEF MarkDirty, JobShapes
    <2> QED BY <1>2, <2>1, <2>2 DEF MarkDirty, Marked, caches, CacheShapes
  <1>3. ASSUME NEW a \in Actors, Read(a) \/ Add(a) \/ Remove(a) \/ UpdateFails(a)
        PROVE  Shapes'
    <2>1. job[a] \in Jobs /\ job[a].guild \in Guilds
      BY <1>3 DEF Read, Add, Remove, UpdateFails, JobShapes, Updating
    <2>2. JobShapes'
      <3>1. CASE Read(a)
        <4>1. job' = [job EXCEPT ![a] = [job[a] EXCEPT
                !.at = "add", !.active = config[job[a].guild] \cap FlagsOf[Plugin(job[a])]]]
          BY <3>1 DEF Read, JobShapes
        <4>2. config[job[a].guild] \cap FlagsOf[Plugin(job[a])] \subseteq Flags
          BY <2>1
        <4>3. ASSUME NEW F \in SUBSET Flags
              PROVE  /\ [job[a] EXCEPT !.at = "add", !.active = F] \in Jobs
                     /\ [job[a] EXCEPT !.at = "add", !.active = F].guild = job[a].guild
          BY <2>1 DEF Jobs, Stages
        <4> QED BY <2>1, <4>1, <4>2, <4>3, JobGoesOn
      <3>2. CASE Add(a)
        <4>1. job' = [job EXCEPT ![a] = [job[a] EXCEPT !.at = "remove"]]
          BY <3>2 DEF Add, JobShapes
        <4>2. /\ [job[a] EXCEPT !.at = "remove"] \in Jobs
              /\ [job[a] EXCEPT !.at = "remove"].guild = job[a].guild
          BY <2>1 DEF Jobs, Stages
        <4> QED BY <2>1, <4>1, <4>2, JobGoesOn
      <3>3. CASE Remove(a) \/ UpdateFails(a)
        <4>1. PICK failed \in BOOLEAN : job' = [job EXCEPT ![a] = PluginDone(job[a], failed)]
          BY <3>3 DEF Remove, UpdateFails
        <4> QED BY <2>1, <4>1, PluginDoneTyped, JobGoesOn
      <3> QED BY <1>3, <3>1, <3>2, <3>3
    <2>3. flags' \in [Guilds -> SUBSET Flags]
      <3>1. job[a].active \subseteq Flags
        BY <2>1 DEF Jobs
      <3>2. PICK F \in SUBSET Flags : flags' \in {flags, [flags EXCEPT ![job[a].guild] = F]}
        <4>1. CASE Add(a)
          BY <2>1, <3>1, <4>1 DEF Add
        <4>2. CASE Remove(a)
          <5>1. flags[job[a].guild] \ Inactive(Plugin(job[a]), job[a].active) \in SUBSET Flags
            BY <2>1
          <5> QED BY <4>2, <5>1 DEF Remove
        <4>3. CASE Read(a) \/ UpdateFails(a)
          BY <4>3 DEF Read, UpdateFails
        <4> QED BY <1>3, <4>1, <4>2, <4>3
      <3> QED BY <2>1, <3>2
    <2>4. UNCHANGED <<config, sets, caches>>
      BY <1>3 DEF Read, Add, Remove, UpdateFails
    <2> QED BY <2>2, <2>3, <2>4 DEF sets, caches, CacheShapes
  <1>4. ASSUME NEW g \in Guilds, NEW got \in SUBSET Procs, Published(g, got) PROVE CacheShapes'
    <2>1. \A p \in Procs : Append(inbox[p], g) \in Seq(Guilds) /\ inbox[p] \in Seq(Guilds)
      BY DEF CacheShapes
    <2> QED BY <1>4, <2>1 DEF Published, CacheShapes
  <1>5. ASSUME NEW w \in Web, PublishWeb(w) PROVE Shapes'
    <2>1. job[w] \in Jobs /\ job[w].guild \in Guilds
      BY <1>5, ActorsHere DEF PublishWeb, JobShapes, Updating
    <2>2. /\ [job[w] EXCEPT !.at = "evict"] \in Jobs
          /\ [job[w] EXCEPT !.at = "evict"].guild \in Guilds
      BY <2>1 DEF Jobs, Stages
    <2>3. job' = [job EXCEPT ![w] = [job[w] EXCEPT !.at = "evict"]]
      BY <1>5, ActorsHere DEF PublishWeb, JobShapes
    <2>4. JobShapes'
      BY <2>2, <2>3, JobGoesOn, ActorsHere
    <2>5. CacheShapes'
      BY <1>4, <1>5, <2>1 DEF PublishWeb
    <2> QED BY <1>5, <2>4, <2>5 DEF PublishWeb, sets
  <1>6. ASSUME NEW w \in Web, EvictHere(w) PROVE Shapes'
    <2>1. JobShapes'
      BY <1>6, JobGoesOn, IdleTyped, ActorsHere DEF EvictHere, Updating
    <2>2. CacheShapes'
      <3>1. /\ cache' = [cache EXCEPT ![ProcOf[w]][job[w].guild] = {}]
            /\ missed' = [missed EXCEPT ![ProcOf[w]] = @ \ {job[w].guild}]
            /\ UNCHANGED <<fetch, inbox>>
        BY <1>6 DEF EvictHere
      <3> QED BY <3>1 DEF CacheShapes, Copies
    <2> QED BY <1>6, <2>1, <2>2 DEF EvictHere, sets
  <1>7. CASE StartWorker \/ Initialized
    <2>1. PICK s \in {"idle", "init"} : job' = [job EXCEPT ![Worker] = [job[Worker] EXCEPT !.at = s]]
      BY <1>7, ActorsHere DEF StartWorker, Initialized, JobShapes
    <2>2. /\ [job[Worker] EXCEPT !.at = s] \in Jobs
          /\ [job[Worker] EXCEPT !.at = s].at = s
      BY ActorsHere DEF JobShapes, Jobs, Stages
    <2>3. JobShapes'
      BY <2>1, <2>2, JobGoesOn, ActorsHere DEF Updating
    <2> QED BY <1>7, <2>3 DEF StartWorker, Initialized, sets, caches, CacheShapes
  <1>8. CASE PopHigh \/ PopLow \/ PopFails
    <2>1. /\ UNCHANGED <<config, flags, remark, caches>>
          /\ high' \subseteq high /\ low' \subseteq low
      BY <1>8, Popping
    <2>2. ASSUME NEW g \in Guilds, Taken(g) PROVE JobShapes' /\ popped' \subseteq Guilds
      BY <2>2, BeginTyped, JobGoesOn, ActorsHere DEF Taken
    <2>3. ASSUME NEW j \in Jobs, j.at \in {"idle", "low"}, Rests(j)
          PROVE  JobShapes' /\ popped' \subseteq Guilds
      BY <2>3, JobGoesOn, ActorsHere DEF Rests, Updating
    <2>4. JobShapes' /\ popped' \subseteq Guilds
      BY <1>8, <2>2, <2>3, Popping
    <2> QED BY <2>1, <2>4 DEF caches, CacheShapes
  <1>9. CASE PublishWorker
    <2>1. job[Worker].guild \in Guilds
      BY <1>9, ActorsHere DEF PublishWorker, JobShapes, Updating
    <2>2. CacheShapes'
      BY <1>4, <1>9, <2>1 DEF PublishWorker
    <2>3. JobShapes' /\ popped' \subseteq Guilds
      <3>1. CASE popped' = {} /\ job' = [job EXCEPT ![Worker] = Idle]
        BY <3>1, JobGoesOn, IdleTyped, ActorsHere DEF Updating
      <3>2. CASE \E g \in popped :
                   popped' = popped \ {g} /\ job' = [job EXCEPT ![Worker] = Begin(g)]
        BY <3>2, BeginTyped, JobGoesOn, ActorsHere
      <3> QED BY <1>9, <3>1, <3>2 DEF PublishWorker
    <2>4. remark' \subseteq Guilds
      BY <1>9, <2>1 DEF PublishWorker, MarkedAgain
    <2> QED BY <1>9, <2>2, <2>3, <2>4 DEF PublishWorker
  <1>10. ASSUME NEW g \in Guilds, Remark(g) PROVE Shapes'
    BY <1>10 DEF Remark, caches, JobShapes, CacheShapes
  <1>11. ASSUME NEW p \in Procs, NEW g \in Guilds, Fetch(p, g) \/ Fetched(p, g) PROVE Shapes'
    <2>1. CacheShapes'
      <3>1. {flags[g]} \in Copies /\ {} \in Copies
        BY DEF Copies
      <3>2. CASE Fetch(p, g)
        <4>1. fetch' = [fetch EXCEPT ![p][g] = {flags[g]}] /\ UNCHANGED <<cache, inbox, missed>>
          BY <3>2 DEF Fetch
        <4> QED BY <3>1, <4>1 DEF CacheShapes
      <3>3. CASE Fetched(p, g)
        <4>1. /\ cache' = [cache EXCEPT ![p][g] = fetch[p][g]]
              /\ fetch' = [fetch EXCEPT ![p][g] = {}] /\ UNCHANGED <<inbox, missed>>
          BY <3>3 DEF Fetched
        <4>2. fetch[p][g] \in Copies
          BY DEF CacheShapes
        <4> QED BY <3>1, <4>1, <4>2 DEF CacheShapes
      <3> QED BY <1>11, <3>2, <3>3
    <2> QED BY <1>11, <2>1 DEF Fetch, Fetched, sets, JobShapes
  <1>12. ASSUME NEW p \in Procs, HandleEvict(p) PROVE Shapes'
    <2>1. CacheShapes'
      <3>1. /\ cache' = [cache EXCEPT ![p][Head(inbox[p])] = {}]
            /\ missed' = [missed EXCEPT ![p] = @ \ {Head(inbox[p])}]
            /\ inbox' = [inbox EXCEPT ![p] = Tail(@)] /\ fetch' = fetch /\ inbox[p] # <<>>
        BY <1>12 DEF HandleEvict
      <3>2. Tail(inbox[p]) \in Seq(Guilds)
        BY <3>1 DEF CacheShapes
      <3>3. inbox' \in [Procs -> Seq(Guilds)]
        BY <3>1, <3>2 DEF CacheShapes
      <3> QED BY <3>1, <3>3 DEF CacheShapes, Copies
    <2> QED BY <1>12, <2>1 DEF HandleEvict, sets, JobShapes
  <1>13. ASSUME NEW p \in Procs, Crash(p) PROVE Shapes'
    <2>1. CacheShapes'
      <3>1. /\ cache' = [cache EXCEPT ![p] = [g \in Guilds |-> {}]]
            /\ fetch' = [fetch EXCEPT ![p] = [g \in Guilds |-> {}]]
            /\ inbox' = [inbox EXCEPT ![p] = <<>>]
        BY <1>13 DEF Crash
      <3>2. [g \in Guilds |-> {}] \in [Guilds -> Copies]
        BY DEF Copies
      <3>3. missed' \in [Procs -> SUBSET Guilds]
        <4> DEFINE lost == {job[a].guild : a \in {b \in {c \in Actors : ProcOf[c] = p} :
                                                   job[b].at \in Updating}}
        <4>1. lost \subseteq Guilds
          BY DEF JobShapes
        <4>2. missed' = [q \in Procs |-> IF q = p THEN {} ELSE missed[q] \cup lost]
          BY <1>13 DEF Crash
        <4> QED BY <4>1, <4>2 DEF CacheShapes
      <3>4. inbox' \in [Procs -> Seq(Guilds)]
        <4>1. <<>> \in Seq(Guilds)
          OBVIOUS
        <4> QED BY <3>1, <4>1 DEF CacheShapes
      <3>5. cache' \in [Procs -> [Guilds -> Copies]] /\ fetch' \in [Procs -> [Guilds -> Copies]]
        BY <3>1, <3>2 DEF CacheShapes
      <3> QED BY <3>3, <3>4, <3>5 DEF CacheShapes
    <2>2. JobShapes'
      <3>1. \A a \in Actors : job'[a] \in {job[a], Idle, [Idle EXCEPT !.at = "down"]}
        BY <1>13 DEF Crash
      <3>2. job' = [a \in Actors |-> job'[a]]
        BY <1>13 DEF Crash
      <3> QED BY <3>1, <3>2, IdleTyped DEF JobShapes, Updating
    <2> QED BY <1>13, <2>1, <2>2 DEF Crash
  <1>14. CASE UNCHANGED vars
    BY <1>14 DEF vars, sets, caches, JobShapes, CacheShapes
  <1>15. CASE Next
    BY <1>1, <1>2, <1>3, <1>5, <1>6, <1>7, <1>8, <1>9, <1>10, <1>11, <1>12, <1>13, <1>15,
       FlagsAssumption, ActorsHere
    DEF Next, WebStep, WorkerStep, Update, CacheStep
  <1> QED BY <1>14, <1>15

LEMMA ShapesInvariant == Spec => []Shapes
  BY InitShapes, ShapesStep, PTL DEF Spec

-----------------------------------------------------------------------------
(* The refinement.                                                          *)

Stored == [g \in Guilds |-> {flags[g]}]

(* Three ways of owing p the eviction of g.                                 *)
Owes(p, g) ==
  \/ g \in missed[p]
  \/ \E i \in DOMAIN inbox[p] : inbox[p][i] = g
  \/ \E a \in Actors : job[a].at \in Updating /\ job[a].guild = g

OwedInv ==
  /\ Owed \in [Procs -> SUBSET Guilds]
  /\ \A p \in Procs, g \in Guilds : g \in Owed[p] <=> Owes(p, g)

SeenInv ==
  /\ Seen \in [Procs -> [Guilds -> Copies]]
  /\ \A p \in Procs, g \in Guilds :
       Seen[p][g] = IF fetch[p][g] # {} THEN fetch[p][g] ELSE cache[p][g]

LEMMA OwedFacts == Shapes => OwedInv
  <1> SUFFICES ASSUME Shapes PROVE OwedInv
    OBVIOUS
  <1>1. ASSUME NEW p \in Procs
        PROVE  Owed[p] \subseteq Guilds /\ \A g \in Guilds : g \in Owed[p] <=> Owes(p, g)
    <2>1. \A i \in DOMAIN inbox[p] : inbox[p][i] \in Guilds
      BY DEF Shapes, CacheShapes
    <2>2. \A a \in Actors : job[a].at \in Updating => job[a].guild \in Guilds
      BY DEF Shapes, JobShapes
    <2>3. Owed[p] = missed[p] \cup {inbox[p][i] : i \in DOMAIN inbox[p]}
                    \cup {job[a].guild : a \in {b \in Actors : job[b].at \in Updating}}
      BY DEF Owed
    <2>4. missed[p] \subseteq Guilds
      BY DEF Shapes, CacheShapes
    <2> QED BY <2>1, <2>2, <2>3, <2>4 DEF Owes
  <1>2. Owed = [p \in Procs |-> Owed[p]]
    BY DEF Owed
  <1> QED BY <1>1, <1>2 DEF OwedInv

LEMMA SeenFacts == Shapes => SeenInv
  BY DEF Shapes, CacheShapes, Seen, SeenInv

LEMMA FactsThen == (Shapes => OwedInv /\ SeenInv)'
  <1>1. Shapes => OwedInv /\ SeenInv
    BY OwedFacts, SeenFacts
  <1> QED BY <1>1, PTL

(* Nothing is written, and whoever is owed something still is.              *)
LEMMA OwedGrows ==
  ASSUME Shapes, Shapes', UNCHANGED <<flags, cache, fetch>>,
         \A p \in Procs, g \in Guilds : Owes(p, g) => Owes(p, g)'
  PROVE  Cached!CNext
  <1>1. PICK r \in Procs : TRUE
    BY FlagsAssumption, ActorsHere
  <1>2. OwedInv /\ OwedInv'
    BY OwedFacts, FactsThen
  <1>3. \A q \in Procs : Owed[q] \ (IF q = r THEN {} ELSE {}) \subseteq Owed'[q]
    BY <1>2 DEF OwedInv
  <1>4. Seen' = [Seen EXCEPT ![r] = [k \in Guilds |-> IF k \in {} THEN {} ELSE Seen[r][k]]]
    <2>1. Seen' = Seen /\ Seen \in [Procs -> [Guilds -> Copies]]
      BY SeenFacts DEF Seen, SeenInv
    <2> QED BY <1>1, <2>1
  <1>5. [g \in Guilds |-> {flags[g]}]' = [g \in Guilds |-> {flags[g]}]
    OBVIOUS
  <1>6. Cached!Evict(r, {})
    BY <1>2, <1>3, <1>4, <1>5 DEF Cached!Evict, OwedInv
  <1> QED BY <1>1, <1>6 DEF Cached!CNext

(* updatePluginFeatureFlags writes a guild's flags before it publishes.     *)
LEMMA FlagsWritten ==
  ASSUME Shapes, Shapes', NEW a \in Actors, NEW g \in Guilds, NEW F \in SUBSET Flags,
         flags' = [flags EXCEPT ![g] = F], UNCHANGED caches,
         job'[a].at \in Updating, job'[a].guild = g,
         \A b \in Actors : job[b].at \in Updating =>
                             job'[b].at \in Updating /\ job'[b].guild = job[b].guild
  PROVE  Cached!CNext
  <1>1. OwedInv /\ OwedInv'
    BY OwedFacts, FactsThen
  <1>2. \A p \in Procs : Owes(p, g)'
    BY DEF Owes
  <1>3. \A p \in Procs, k \in Guilds : Owes(p, k) => Owes(p, k)'
    BY DEF Owes, caches
  <1>4. \A p \in Procs : Owed[p] \subseteq Owed'[p] /\ g \in Owed'[p]
    BY <1>1, <1>2, <1>3 DEF OwedInv
  <1>5. Seen' = Seen
    BY DEF Seen, caches
  <1>6. [k \in Guilds |-> {flags[k]}]' = [[k \in Guilds |-> {flags[k]}] EXCEPT ![g] = {F}]
    BY DEF Shapes
  <1>7. {F} \in Copies \ {{}}
    BY DEF Copies
  <1>8. Cached!Write(g)
    BY <1>1, <1>4, <1>5, <1>6, <1>7 DEF Cached!Write, OwedInv
  <1> QED BY <1>8 DEF Cached!CNext

(* p forgets what it has cached of K, and is owed no more than before, but for
   K; the others are owed what they were.                                   *)
LEMMA Evicted ==
  ASSUME Shapes, Shapes', NEW p \in Procs, NEW K \in SUBSET Guilds, UNCHANGED flags,
         \A q \in Procs, g \in Guilds :
           Seen'[q][g] = IF q = p /\ g \in K THEN {} ELSE Seen[q][g],
         \A q \in Procs, g \in Guilds : Owes(q, g) /\ ~(q = p /\ g \in K) => Owes(q, g)'
  PROVE  Cached!CNext
  <1>1. OwedInv /\ OwedInv'
    BY OwedFacts, FactsThen
  <1>2. Seen \in [Procs -> [Guilds -> Copies]] /\ Seen' \in [Procs -> [Guilds -> Copies]]
    BY SeenFacts, FactsThen DEF SeenInv
  <1>3. Seen' = [Seen EXCEPT ![p] = [k \in Guilds |-> IF k \in K THEN {} ELSE Seen[p][k]]]
    <2>1. Seen'[p] = [k \in Guilds |-> IF k \in K THEN {} ELSE Seen[p][k]]
      BY <1>2
    <2>2. \A q \in Procs \ {p} : Seen'[q] = Seen[q]
      <3> SUFFICES ASSUME NEW q \in Procs \ {p} PROVE Seen'[q] = Seen[q]
        OBVIOUS
      <3>1. \A g \in Guilds : Seen'[q][g] = Seen[q][g]
        OBVIOUS
      <3>2. Seen'[q] \in [Guilds -> Copies] /\ Seen[q] \in [Guilds -> Copies]
        BY <1>2
      <3> QED BY <3>1, <3>2
    <2> QED BY <1>2, <2>1, <2>2
  <1>4. \A q \in Procs : Owed[q] \ (IF q = p THEN K ELSE {}) \subseteq Owed'[q]
    BY <1>1 DEF OwedInv
  <1>5. [g \in Guilds |-> {flags[g]}]' = [g \in Guilds |-> {flags[g]}]
    OBVIOUS
  <1>6. Cached!Evict(p, K)
    BY <1>1, <1>3, <1>4, <1>5 DEF Cached!Evict, OwedInv
  <1> QED BY <1>6 DEF Cached!CNext

(* Redis is asked for what is not cached.                                   *)
LEMMA Filled ==
  ASSUME Shapes, Shapes', NEW p \in Procs, NEW g \in Guilds, Fetch(p, g)
  PROVE  Cached!CNext
  <1>1. /\ cache[p][g] = {} /\ fetch[p][g] = {} /\ fetch' = [fetch EXCEPT ![p][g] = {flags[g]}]
        /\ UNCHANGED <<flags, job, cache, inbox, missed>>
    BY DEF Fetch
  <1>2. Owed' = Owed
    BY <1>1 DEF Owed
  <1>3. SeenInv /\ SeenInv' /\ Seen[p][g] = {}
    BY ZenonT(60), <1>1, SeenFacts, FactsThen DEF SeenInv
  <1>4. Seen' = [Seen EXCEPT ![p][g] = {flags[g]}]
    <2>1. \A q \in Procs, k \in Guilds :
            fetch'[q][k] = IF q = p /\ k = g THEN {flags[g]} ELSE fetch[q][k]
      BY <1>1 DEF Shapes, CacheShapes
    <2>2. \A q \in Procs, k \in Guilds :
            Seen'[q][k] = IF q = p /\ k = g THEN {flags[g]} ELSE Seen[q][k]
      <3> SUFFICES ASSUME NEW q \in Procs, NEW k \in Guilds
                   PROVE  Seen'[q][k] = IF q = p /\ k = g THEN {flags[g]} ELSE Seen[q][k]
        OBVIOUS
      <3>1. Seen'[q][k] = IF fetch'[q][k] # {} THEN fetch'[q][k] ELSE cache[q][k]
        BY <1>1, <1>3 DEF SeenInv
      <3>2. CASE q = p /\ k = g
        BY <2>1, <3>1, <3>2
      <3>3. CASE ~(q = p /\ k = g)
        BY SMTT(30), <1>3, <2>1, <3>1, <3>3 DEF SeenInv
      <3> QED BY <3>2, <3>3
    <2>3. Seen \in [Procs -> [Guilds -> Copies]] /\ Seen' \in [Procs -> [Guilds -> Copies]]
      BY <1>3 DEF SeenInv
    <2>4. Seen'[p] = [Seen[p] EXCEPT ![g] = {flags[g]}]
      BY <2>2, <2>3
    <2>5. ASSUME NEW q \in Procs \ {p} PROVE Seen'[q] = Seen[q]
      <3>1. \A k \in Guilds : Seen'[q][k] = Seen[q][k]
        BY <2>2
      <3> QED BY <2>3, <3>1
    <2> QED BY <2>3, <2>4, <2>5
  <1>5. /\ [k \in Guilds |-> {flags[k]}]' = [k \in Guilds |-> {flags[k]}]
        /\ [k \in Guilds |-> {flags[k]}][g] = {flags[g]}
    BY <1>1
  <1>6. Cached!Fill(p, g)
    BY <1>2, <1>3, <1>4, <1>5 DEF Cached!Fill
  <1> QED BY <1>6 DEF Cached!CNext

(* The jobs go on as they are, or change where nothing is owed.             *)
LEMMA OwedStays ==
  ASSUME UNCHANGED <<inbox, missed>>,
         \A b \in Actors : job[b].at \in Updating =>
                             job'[b].at \in Updating /\ job'[b].guild = job[b].guild
  PROVE  \A p \in Procs, g \in Guilds : Owes(p, g) => Owes(p, g)'
  BY DEF Owes

(* A job is given to an actor that was not updating, or was updating the same
   guild.                                                                   *)
LEMMA OthersStay ==
  ASSUME JobShapes, NEW a \in Actors, NEW j, job' = [job EXCEPT ![a] = j],
         job[a].at \in Updating => j.at \in Updating /\ j.guild = job[a].guild
  PROVE  \A b \in Actors : job[b].at \in Updating =>
                             job'[b].at \in Updating /\ job'[b].guild = job[b].guild
  BY DEF JobShapes

LEMMA LastOfAppend ==
  ASSUME NEW s \in Seq(Guilds), NEW g \in Guilds
  PROVE  Len(s) + 1 \in DOMAIN Append(s, g) /\ Append(s, g)[Len(s) + 1] = g
  OBVIOUS

LEMMA InTail ==
  ASSUME NEW s \in Seq(Guilds), s # <<>>, NEW i \in DOMAIN s, s[i] # Head(s)
  PROVE  i - 1 \in DOMAIN Tail(s) /\ Tail(s)[i - 1] = s[i]
  <1>1. i \in 1 .. Len(s) /\ Len(s) \in Nat /\ i # 1
    OBVIOUS
  <1>2. Len(Tail(s)) = Len(s) - 1 /\ Tail(s) \in Seq(Guilds)
    OBVIOUS
  <1>3. i - 1 \in 1 .. Len(Tail(s))
    BY <1>1, <1>2
  <1> QED BY <1>1, <1>2, <1>3

(* Both events are on their way, or missed, when the job is left.           *)
LEMMA PublishedOwes ==
  ASSUME Shapes, NEW a \in Actors, NEW got \in SUBSET Procs, Published(job[a].guild, got),
         \A b \in Actors \ {a} : job'[b] = job[b]
  PROVE  \A p \in Procs, g \in Guilds : Owes(p, g) => Owes(p, g)'
  <1> SUFFICES ASSUME NEW p \in Procs, NEW g \in Guilds, Owes(p, g) PROVE Owes(p, g)'
    OBVIOUS
  <1>1. /\ inbox'[p] = IF p \in got THEN Append(inbox[p], job[a].guild) ELSE inbox[p]
        /\ missed'[p] = IF p \in got THEN missed[p] ELSE missed[p] \cup {job[a].guild}
        /\ inbox[p] \in Seq(Guilds)
    BY DEF Published, Shapes, CacheShapes
  <1>2. CASE g \in missed[p]
    BY <1>1, <1>2 DEF Owes
  <1>3. CASE \E i \in DOMAIN inbox[p] : inbox[p][i] = g
    <2>1. PICK i \in DOMAIN inbox[p] : inbox[p][i] = g
      BY <1>3
    <2>2. i \in DOMAIN inbox'[p] /\ inbox'[p][i] = g
      BY <1>1, <2>1
    <2> QED BY <2>2 DEF Owes
  <1>4. CASE \E b \in Actors : job[b].at \in Updating /\ job[b].guild = g
    <2>1. PICK b \in Actors : job[b].at \in Updating /\ job[b].guild = g
      BY <1>4
    <2>2. CASE b = a /\ p \in got
      <3>1. inbox'[p] = Append(inbox[p], g) /\ inbox[p] \in Seq(Guilds)
        BY <1>1, <2>1, <2>2
      <3>2. /\ Len(inbox[p]) + 1 \in DOMAIN inbox'[p]
            /\ inbox'[p][Len(inbox[p]) + 1] = g
        BY <3>1, LastOfAppend
      <3> QED BY <3>2 DEF Owes
    <2>3. CASE b = a /\ p \notin got
      BY <1>1, <2>1, <2>3 DEF Owes
    <2>4. CASE b # a
      BY <2>1, <2>4 DEF Owes
    <2> QED BY <2>2, <2>3, <2>4
  <1> QED BY <1>2, <1>3, <1>4 DEF Owes

(* A cache forgets one guild, whose eviction is owed no more.               *)
LEMMA OneEvicted ==
  ASSUME Shapes, Shapes', NEW p \in Procs, NEW g \in Guilds,
         fetch[p][g] = {}, cache' = [cache EXCEPT ![p][g] = {}], UNCHANGED <<flags, fetch>>,
         \A q \in Procs, k \in Guilds : Owes(q, k) /\ ~(q = p /\ k \in {g}) => Owes(q, k)'
  PROVE  Cached!CNext
  <1>1. SeenInv /\ SeenInv'
    BY SeenFacts, FactsThen
  <1>2. ASSUME NEW q \in Procs, NEW k \in Guilds
        PROVE  Seen'[q][k] = IF q = p /\ k \in {g} THEN {} ELSE Seen[q][k]
    <2>1. /\ Seen'[q][k] = IF fetch[q][k] # {} THEN fetch[q][k] ELSE cache'[q][k]
          /\ Seen[q][k] = IF fetch[q][k] # {} THEN fetch[q][k] ELSE cache[q][k]
      BY <1>1 DEF SeenInv
    <2>2. cache'[q][k] = IF q = p /\ k = g THEN {} ELSE cache[q][k]
      BY DEF Shapes, CacheShapes
    <2>3. CASE q = p /\ k = g
      BY <2>1, <2>2, <2>3
    <2>4. CASE ~(q = p /\ k = g)
      BY <2>1, <2>2, <2>4
    <2> QED BY <2>3, <2>4
  <1>3. {g} \in SUBSET Guilds
    OBVIOUS
  <1> QED BY <1>2, <1>3, Evicted

(* Every step of the code is one of the abstract caches, or none.           *)
LEMMA CachesStep == Shapes /\ Shapes' /\ [Next]_vars => [Cached!CNext]_(Cached!cvars)
  <1> SUFFICES ASSUME Shapes, Shapes', [Next]_vars PROVE [Cached!CNext]_(Cached!cvars)
    OBVIOUS
  <1>1. ASSUME NEW w \in Web, NEW g \in Guilds, NEW p \in Plugins,
               SaveAndUpdate(w, g, p) \/ SaveAndMark(w, g, p)
        PROVE  Cached!CNext
    <2>1. PICK j : Saved(w, g, p, j)
      BY <1>1 DEF SaveAndUpdate, SaveAndMark
    <2>2. /\ job[w].at = "idle" /\ job' = [job EXCEPT ![w] = j]
          /\ UNCHANGED <<flags, cache, fetch, inbox, missed>>
      BY <2>1 DEF Saved, caches
    <2> QED BY <2>2, OthersStay, OwedStays, OwedGrows, ActorsHere DEF Shapes, Updating
  <1>2. ASSUME NEW w \in Web, MarkDirty(w) PROVE Cached!CNext
    <2>1. /\ job[w].at = "mark" /\ job' = [job EXCEPT ![w] = Idle]
          /\ UNCHANGED <<flags, cache, fetch, inbox, missed>>
      BY <1>2 DEF MarkDirty, caches
    <2> QED BY <2>1, OthersStay, OwedStays, OwedGrows, ActorsHere DEF Shapes, Updating
  <1>3. ASSUME NEW a \in Actors, Read(a) \/ Add(a) \/ Remove(a) \/ UpdateFails(a)
        PROVE  Cached!CNext
    <2>1. job[a] \in Jobs /\ job[a].guild \in Guilds /\ UNCHANGED caches
      BY <1>3 DEF Read, Add, Remove, UpdateFails, Shapes, JobShapes, Updating
    <2>2. PICK j : /\ job' = [job EXCEPT ![a] = j]
                   /\ j.at \in Updating /\ j.guild = job[a].guild
      <3>1. CASE Read(a)
        <4> DEFINE j == [job[a] EXCEPT
              !.at = "add", !.active = config[job[a].guild] \cap FlagsOf[Plugin(job[a])]]
        <4>1. job' = [job EXCEPT ![a] = j]
          BY <3>1 DEF Read, Shapes, JobShapes
        <4>2. j.at = "add" /\ j.guild = job[a].guild
          BY <2>1 DEF Jobs
        <4> QED BY <4>1, <4>2 DEF Updating
      <3>2. CASE Add(a)
        <4> DEFINE j == [job[a] EXCEPT !.at = "remove"]
        <4>1. job' = [job EXCEPT ![a] = j]
          BY <3>2 DEF Add, Shapes, JobShapes
        <4>2. j.at = "remove" /\ j.guild = job[a].guild
          BY <2>1 DEF Jobs
        <4> QED BY <4>1, <4>2 DEF Updating
      <3>3. CASE Remove(a) \/ UpdateFails(a)
        <4>1. PICK failed \in BOOLEAN : job' = [job EXCEPT ![a] = PluginDone(job[a], failed)]
          BY <3>3 DEF Remove, UpdateFails
        <4> QED BY <2>1, <4>1, PluginDoneTyped DEF Updating
      <3> QED BY <1>3, <3>1, <3>2, <3>3
    <2>3. \A b \in Actors : job[b].at \in Updating =>
                              job'[b].at \in Updating /\ job'[b].guild = job[b].guild
      BY <2>2, OthersStay DEF Shapes
    <2>4. job'[a].at \in Updating /\ job'[a].guild = job[a].guild
      BY <2>2 DEF Shapes, JobShapes
    <2>5. CASE Read(a) \/ UpdateFails(a)
      <3>1. UNCHANGED <<flags, cache, fetch, inbox, missed>>
        BY <2>5 DEF Read, UpdateFails, caches
      <3> QED BY <2>3, <3>1, OwedStays, OwedGrows
    <2>6. CASE Add(a) \/ Remove(a)
      <3>1. PICK F : flags' = [flags EXCEPT ![job[a].guild] = F]
        BY <2>6 DEF Add, Remove
      <3>2. F \in SUBSET Flags
        BY <2>1, <3>1 DEF Shapes
      <3> QED BY <2>1, <2>3, <2>4, <3>1, <3>2, FlagsWritten
    <2> QED BY <1>3, <2>5, <2>6
  <1>4. ASSUME NEW w \in Web, PublishWeb(w) PROVE Cached!CNext
    <2>1. PICK got \in SUBSET Procs : Published(job[w].guild, got)
      BY <1>4 DEF PublishWeb
    <2>2. /\ \A b \in Actors \ {w} : job'[b] = job[b]
          /\ UNCHANGED <<flags, cache, fetch>>
      BY <1>4, <2>1 DEF PublishWeb, Published, Shapes, JobShapes
    <2> QED BY <2>1, <2>2, PublishedOwes, OwedGrows, ActorsHere
  <1>5. CASE PublishWorker
    <2>1. PICK got \in SUBSET Procs : Published(job[Worker].guild, got)
      BY <1>5 DEF PublishWorker
    <2>2. /\ \A b \in Actors \ {Worker} : job'[b] = job[b]
          /\ UNCHANGED <<flags, cache, fetch>>
      <3>1. PICK j : job' = [job EXCEPT ![Worker] = j]
        BY <1>5 DEF PublishWorker
      <3> QED BY <1>5, <2>1, <3>1 DEF PublishWorker, Published, Shapes, JobShapes
    <2> QED BY <2>1, <2>2, PublishedOwes, OwedGrows, ActorsHere
  <1>6. ASSUME NEW w \in Web, EvictHere(w) PROVE Cached!CNext
    <2> DEFINE p == ProcOf[w]
               g == job[w].guild
    <2>1. /\ p \in Procs /\ g \in Guilds
          /\ fetch[p][g] = {} /\ cache' = [cache EXCEPT ![p][g] = {}]
          /\ missed' = [missed EXCEPT ![p] = @ \ {g}] /\ job' = [job EXCEPT ![w] = Idle]
          /\ job[w].at = "evict" /\ UNCHANGED <<flags, fetch, inbox>>
      BY <1>6, FlagsAssumption, ActorsHere DEF EvictHere, Shapes, JobShapes
    <2>2. \A b \in Actors : job[b].at \in Updating =>
                              job'[b].at \in Updating /\ job'[b].guild = job[b].guild
      BY <2>1, OthersStay, ActorsHere DEF Shapes, Updating
    <2> HIDE DEF p, g
    <2>3. \A q \in Procs, k \in Guilds : Owes(q, k) /\ ~(q = p /\ k \in {g}) => Owes(q, k)'
      BY ZenonT(60), <2>1, <2>2 DEF Owes, Shapes, CacheShapes
    <2> QED BY <2>1, <2>3, OneEvicted
  <1>7. CASE StartWorker \/ Initialized \/ PopHigh \/ PopLow \/ PopFails
    <2>1. PICK j : job' = [job EXCEPT ![Worker] = j]
      <3>1. CASE StartWorker \/ Initialized
        BY <3>1, ActorsHere DEF StartWorker, Initialized
      <3>2. CASE PopHigh \/ PopLow \/ PopFails
        BY <3>2, Popping DEF Taken, Rests
      <3> QED BY <1>7, <3>1, <3>2
    <2>2. /\ job[Worker].at \in {"down", "init", "idle", "low"}
          /\ UNCHANGED <<flags, cache, fetch, inbox, missed>>
      <3>1. CASE StartWorker \/ Initialized
        BY <3>1 DEF StartWorker, Initialized, caches
      <3>2. CASE PopHigh \/ PopLow \/ PopFails
        BY <3>2, Popping DEF caches
      <3> QED BY <1>7, <3>1, <3>2
    <2> QED BY <2>1, <2>2, OthersStay, OwedStays, OwedGrows, ActorsHere DEF Shapes, Updating
  <1>8. ASSUME NEW g \in Guilds, Remark(g) PROVE Cached!CNext
    <2>1. UNCHANGED <<flags, cache, fetch, inbox, missed, job>>
      BY <1>8 DEF Remark, caches
    <2> QED BY <2>1, OwedStays, OwedGrows
  <1>9. ASSUME NEW p \in Procs, NEW g \in Guilds, Fetched(p, g) PROVE Cached!CNext
    <2>1. /\ fetch[p][g] # {} /\ cache' = [cache EXCEPT ![p][g] = fetch[p][g]]
          /\ fetch' = [fetch EXCEPT ![p][g] = {}] /\ UNCHANGED <<flags, job, inbox, missed>>
      BY <1>9 DEF Fetched
    <2>2. SeenInv /\ SeenInv'
      BY SeenFacts, FactsThen
    <2>3. ASSUME NEW q \in Procs, NEW k \in Guilds PROVE Seen'[q][k] = Seen[q][k]
      <3>1. /\ Seen'[q][k] = IF fetch'[q][k] # {} THEN fetch'[q][k] ELSE cache'[q][k]
            /\ Seen[q][k] = IF fetch[q][k] # {} THEN fetch[q][k] ELSE cache[q][k]
        BY <2>2 DEF SeenInv
      <3>2. CASE q = p /\ k = g
        BY <2>1, <3>1, <3>2 DEF Shapes, CacheShapes
      <3>3. CASE ~(q = p /\ k = g)
        BY <2>1, <3>1, <3>3 DEF Shapes, CacheShapes
      <3> QED BY <3>2, <3>3
    <2>4. \A q \in Procs, k \in Guilds : Owes(q, k) => Owes(q, k)'
      BY <2>1, OwedStays
    <2> QED BY <2>1, <2>3, <2>4, Evicted, {} \in SUBSET Guilds
  <1>10. ASSUME NEW p \in Procs, HandleEvict(p) PROVE Cached!CNext
    <2> DEFINE g == Head(inbox[p])
    <2>1. /\ fetch[p][g] = {} /\ cache' = [cache EXCEPT ![p][g] = {}]
          /\ missed' = [missed EXCEPT ![p] = @ \ {g}] /\ inbox' = [inbox EXCEPT ![p] = Tail(@)]
          /\ inbox[p] # <<>> /\ UNCHANGED <<flags, fetch, job>>
      BY <1>10 DEF HandleEvict, Unlocked
    <2>2. inbox[p] \in Seq(Guilds) /\ inbox'[p] = Tail(inbox[p]) /\ g \in Guilds
      BY <2>1 DEF Shapes, CacheShapes
    <2>3. ASSUME NEW q \in Procs, NEW k \in Guilds, Owes(q, k), ~(q = p /\ k \in {g})
          PROVE  Owes(q, k)'
      <3>1. CASE k \in missed[q]
        BY <2>1, <2>3, <3>1 DEF Owes, Shapes, CacheShapes
      <3>2. CASE \E i \in DOMAIN inbox[q] : inbox[q][i] = k
        <4>1. CASE q # p
          BY <2>1, <3>2, <4>1 DEF Owes, Shapes, CacheShapes
        <4>2. CASE q = p
          <5>1. PICK i \in DOMAIN inbox[p] : inbox[p][i] = k
            BY <3>2, <4>2
          <5>2. i - 1 \in DOMAIN inbox'[p] /\ inbox'[p][i - 1] = k
            <6>1. inbox[p][i] # Head(inbox[p])
              BY <2>3, <4>2, <5>1
            <6> QED BY <2>1, <2>2, <5>1, <6>1, InTail
          <5> QED BY <4>2, <5>2 DEF Owes
        <4> QED BY <4>1, <4>2
      <3>3. CASE \E a \in Actors : job[a].at \in Updating /\ job[a].guild = k
        BY <2>1, <3>3 DEF Owes
      <3> QED BY <2>3, <3>1, <3>2, <3>3 DEF Owes
    <2> HIDE DEF g
    <2> QED BY <2>1, <2>2, <2>3, OneEvicted
  <1>11. ASSUME NEW p \in Procs, Crash(p) PROVE Cached!CNext
    <2>1. /\ cache' = [cache EXCEPT ![p] = [g \in Guilds |-> {}]]
          /\ fetch' = [fetch EXCEPT ![p] = [g \in Guilds |-> {}]]
          /\ inbox' = [inbox EXCEPT ![p] = <<>>] /\ UNCHANGED flags
          /\ \A a \in Actors : ProcOf[a] # p => job'[a] = job[a]
      BY <1>11 DEF Crash
    <2>2. \A q \in Procs \ {p} :
            missed'[q] = missed[q] \cup {job[a].guild : a \in
              {b \in {c \in Actors : ProcOf[c] = p} : job[b].at \in Updating}}
      BY <1>11 DEF Crash
    <2>3. SeenInv /\ SeenInv'
      BY SeenFacts, FactsThen
    <2>4. ASSUME NEW q \in Procs, NEW k \in Guilds
          PROVE  Seen'[q][k] = IF q = p /\ k \in Guilds THEN {} ELSE Seen[q][k]
      <3>1. /\ Seen'[q][k] = IF fetch'[q][k] # {} THEN fetch'[q][k] ELSE cache'[q][k]
            /\ Seen[q][k] = IF fetch[q][k] # {} THEN fetch[q][k] ELSE cache[q][k]
        BY <2>3 DEF SeenInv
      <3>2. CASE q = p
        BY <2>1, <3>1, <3>2 DEF Shapes, CacheShapes
      <3>3. CASE q # p
        BY <2>1, <3>1, <3>3 DEF Shapes, CacheShapes
      <3> QED BY <3>2, <3>3
    <2>5. ASSUME NEW q \in Procs, NEW k \in Guilds, Owes(q, k), ~(q = p /\ k \in Guilds)
          PROVE  Owes(q, k)'
      <3>1. q # p
        BY <2>5
      <3>2. CASE k \in missed[q]
        BY <2>2, <3>1, <3>2 DEF Owes
      <3>3. CASE \E i \in DOMAIN inbox[q] : inbox[q][i] = k
        BY <2>1, <3>1, <3>3 DEF Owes, Shapes, CacheShapes
      <3>4. CASE \E a \in Actors : job[a].at \in Updating /\ job[a].guild = k
        <4>1. PICK a \in Actors : job[a].at \in Updating /\ job[a].guild = k
          BY <3>4
        <4>2. CASE ProcOf[a] = p
          BY <2>2, <3>1, <4>1, <4>2 DEF Owes
        <4>3. CASE ProcOf[a] # p
          BY <2>1, <4>1, <4>3 DEF Owes
        <4> QED BY <4>2, <4>3
      <3> QED BY <2>5, <3>2, <3>3, <3>4 DEF Owes
    <2> QED BY <2>1, <2>4, <2>5, Evicted, Guilds \in SUBSET Guilds
  <1>12. CASE UNCHANGED vars
    <2>1. UNCHANGED <<flags, cache, fetch, inbox, missed, job>>
      BY <1>12 DEF vars, caches
    <2> QED BY <2>1, OwedStays, OwedGrows
  <1>13. CASE Next
    BY <1>1, <1>2, <1>3, <1>4, <1>5, <1>6, <1>7, <1>8, <1>9, <1>10, <1>11, <1>13,
       Filled, FlagsAssumption, ActorsHere
    DEF Next, WebStep, WorkerStep, Update, CacheStep
  <1> QED BY <1>12, <1>13

LEMMA CachesInit == Init => Cached!CInit
  <1> SUFFICES ASSUME Init PROVE Cached!CInit
    OBVIOUS
  <1>1. Shapes
    BY InitShapes
  <1>2. [g \in Guilds |-> {flags[g]}] \in [Guilds -> Copies \ {{}}]
    BY <1>1 DEF Shapes, Copies
  <1>3. Seen = [p \in Procs |-> [g \in Guilds |-> {}]]
    BY DEF Init, Seen
  <1>4. Owed \in [Procs -> SUBSET Guilds]
    BY <1>1, OwedFacts DEF OwedInv
  <1> QED BY <1>2, <1>3, <1>4 DEF Cached!CInit

(* The caches of the flags, with the evictions that are published, missed and
   handled in any order, implement caches that owe their readers evictions. *)
THEOREM CachesImplement == Spec => CachesRefine
  <1>1. Shapes /\ Shapes' /\ [Next]_vars => [Cached!CNext]_(Cached!cvars)
    BY CachesStep
  <1> QED BY <1>1, CachesInit, ShapesInvariant, PTL DEF Spec, CachesRefine, Cached!CSpec

(* What the abstract caches promise, kept by their three operations.        *)
LEMMA CurrentStep ==
  ASSUME Shapes, CachesFollow, [Cached!CNext]_(Cached!cvars)
  PROVE  CachesFollow'
  <1> DEFINE truth == [k \in Guilds |-> {flags[k]}]
  <1>1. Seen \in [Procs -> [Guilds -> Copies]] /\ Owed \in [Procs -> SUBSET Guilds]
    BY SeenFacts, OwedFacts DEF SeenInv, OwedInv
  <1>2. \A p \in Procs, k \in Guilds : Seen[p][k] \in {{}, truth[k]} \/ k \in Owed[p]
    BY DEF CachesFollow, Cached!ViewsAreCurrent
  <1>3. SUFFICES ASSUME NEW p \in Procs, NEW k \in Guilds
                 PROVE  Seen'[p][k] \in {{}, truth'[k]} \/ k \in Owed'[p]
    BY DEF CachesFollow, Cached!ViewsAreCurrent
  <1>4. ASSUME NEW g \in Guilds, Cached!Write(g)
        PROVE  Seen'[p][k] \in {{}, truth'[k]} \/ k \in Owed'[p]
    <2>1. /\ \E v : truth' = [truth EXCEPT ![g] = v]
          /\ Owed[p] \subseteq Owed'[p] /\ (Seen[p][g] # {} => g \in Owed'[p])
          /\ Seen' = Seen
      BY <1>4 DEF Cached!Write
    <2>2. k # g => truth'[k] = truth[k]
      BY <2>1
    <2> HIDE DEF truth
    <2> QED BY <1>2, <2>1, <2>2
  <1>5. ASSUME NEW r \in Procs, NEW g \in Guilds, Cached!Fill(r, g)
        PROVE  Seen'[p][k] \in {{}, truth'[k]} \/ k \in Owed'[p]
    <2>1. /\ Seen' = [Seen EXCEPT ![r][g] = truth[g]]
          /\ truth' = truth /\ Owed' = Owed
      BY <1>5 DEF Cached!Fill
    <2> HIDE DEF truth
    <2>2. CASE p = r /\ k = g
      BY <1>1, <2>1, <2>2
    <2>3. CASE ~(p = r /\ k = g)
      BY <1>1, <1>2, <2>1, <2>3
    <2> QED BY <2>2, <2>3
  <1>6. ASSUME NEW r \in Procs, NEW K \in SUBSET Guilds, Cached!Evict(r, K)
        PROVE  Seen'[p][k] \in {{}, truth'[k]} \/ k \in Owed'[p]
    <2>1. /\ Seen' = [Seen EXCEPT ![r] = [x \in Guilds |-> IF x \in K THEN {} ELSE Seen[r][x]]]
          /\ Owed[p] \ (IF p = r THEN K ELSE {}) \subseteq Owed'[p]
          /\ truth' = truth
      BY <1>6 DEF Cached!Evict
    <2> HIDE DEF truth
    <2>2. CASE p = r /\ k \in K
      BY <1>1, <2>1, <2>2
    <2>3. CASE ~(p = r /\ k \in K)
      BY <1>1, <1>2, <2>1, <2>3
    <2> QED BY <2>2, <2>3
  <1>7. CASE UNCHANGED Cached!cvars
    <2>1. truth' = truth /\ Seen' = Seen /\ Owed' = Owed
      BY <1>7 DEF Cached!cvars
    <2> HIDE DEF truth
    <2> QED BY <1>2, <2>1
  <1> QED BY <1>4, <1>5, <1>6, <1>7 DEF Cached!CNext

(* What a process has cached of a guild is what Redis has, or the process is
   owed its eviction, however many processes, guilds and updates there are. *)
THEOREM CachesAreCurrent == Spec => []CachesFollow
  <1>1. Init => CachesFollow
    BY DEF Init, CachesFollow, Cached!ViewsAreCurrent, Seen
  <1>2. CachesFollow /\ Shapes /\ Shapes' /\ [Next]_vars => CachesFollow'
    BY CachesStep, CurrentStep
  <1> QED BY <1>1, <1>2, ShapesInvariant, PTL DEF Spec

-----------------------------------------------------------------------------
(* The flags and the settings.                                              *)

Busy == {"read", "add", "remove"}

\* Between its read of the tables of p, for g, and its last write.
Writes(a, g, p) ==
  job[a].guild = g /\ job[a].at \in {"add", "remove"} /\ Plugin(job[a]) = p

\* a is still to bring the flags of p in g up to date, or to mark the guild.
Pends(a, g, p) ==
  /\ job[a].guild = g
  /\ job[a].at = "mark" \/ job[a].failed \/ (job[a].at \in Busy /\ p \in job[a].todo)

Waits(g) == ~initialized \/ g \in high \cup low \cup popped \cup remark

Pending(g, p) == Waits(g) \/ \E a \in Actors : Pends(a, g, p)

PendingElse(a, g, p) == Waits(g) \/ \E b \in Actors \ {a} : Pends(b, g, p)

JobOf(a) ==
  /\ job[a].at \in Busy => job[a].todo # {}
  /\ job[a].at \in {"add", "remove"} => job[a].active \subseteq FlagsOf[Plugin(job[a])]
  /\ job[a].failed => IF a = Worker THEN job[a].at \in Updating ELSE job[a].guild \in excused

(* What the jobs are like: the worker holds guilds only during an update, and
   a failure that nobody repeats is excused.                                *)
JobInv ==
  /\ job[Worker].at \notin {"mark", "evict"}
  /\ job[Worker].at = "init" => low = Guilds
  /\ job[Worker].at \notin Updating => popped = {}
  /\ \A a \in Actors : JobOf(a)

Agree(g, p) == flags[g] \cap FlagsOf[p] = config[g] \cap FlagsOf[p]

\* What a is writing is what the settings ask for, or somebody comes after it.
Fresh(a, g, p) ==
  \/ PendingElse(a, g, p)
  \/ /\ job[a].active = config[g] \cap FlagsOf[p]
     /\ job[a].at = "remove" => job[a].active \subseteq flags[g]

(* The flags of each plugin are what the settings ask for or are still to be
   brought up to date, and what is being written is not already stale.      *)
FollowOf(g) ==
  \A p \in Plugins :
    /\ Pending(g, p) \/ Agree(g, p)
    /\ \A a \in Actors : Writes(a, g, p) =>
         Fresh(a, g, p) /\ \A b \in Actors \ {a} : ~Writes(b, g, p)

FollowInv == \A g \in Guilds \ excused : FollowOf(g)

LEMMA PluginSame ==
  ASSUME NEW j, NEW k, j.todo = k.todo
  PROVE  Plugin(j) = Plugin(k)
  BY Zenon DEF Plugin

LEMMA PluginOfJob ==
  ASSUME NEW j, j \in Jobs, j.todo # {}
  PROVE  Plugin(j) \in j.todo /\ Plugin(j) \in Plugins
  <1>1. Plugin(j) \in j.todo
    BY Zenon DEF Plugin
  <1> QED BY <1>1 DEF Jobs

(* The plugin that was written is done, and the others are still to do.     *)
LEMMA PluginDoneFields ==
  ASSUME NEW j \in Jobs, NEW failed \in BOOLEAN
  PROVE  /\ PluginDone(j, failed).todo = j.todo \ {Plugin(j)}
         /\ PluginDone(j, failed).failed = (j.failed \/ failed)
         /\ PluginDone(j, failed).at =
              IF j.todo \ {Plugin(j)} = {} THEN "publish" ELSE "read"
  <1> DEFINE rest  == j.todo \ {Plugin(j)}
             stage == IF rest = {} THEN "publish" ELSE "read"
             err   == j.failed \/ failed
  <1>1. PluginDone(j, failed) =
          [j EXCEPT !.todo = rest, !.active = {}, !.failed = err, !.at = stage]
    BY Zenon DEF PluginDone
  <1>2. ASSUME NEW r, NEW e, NEW s
        PROVE  LET k == [j EXCEPT !.todo = r, !.active = {}, !.failed = e, !.at = s]
               IN  k.todo = r /\ k.failed = e /\ k.at = s
    BY DEF Jobs
  <1> HIDE DEF rest, stage, err
  <1>3. /\ PluginDone(j, failed).todo = rest /\ PluginDone(j, failed).failed = err
        /\ PluginDone(j, failed).at = stage
    BY <1>1, <1>2
  <1> QED BY <1>3, Zenon DEF rest, stage, err

(* A guild whose flags and settings are left alone stays as it is when nobody
   who was to update it forgets to, and nobody begins to write its flags.   *)
LEMMA FollowKept ==
  ASSUME NEW g \in Guilds, FollowOf(g),
         flags'[g] = flags[g], config'[g] = config[g],
         Waits(g) => \/ Waits(g)'
                     \/ \E b \in Actors : /\ job'[b].at = "read"
                                          /\ \A p \in Plugins : Pends(b, g, p)',
         \A a \in Actors, p \in Plugins : Pends(a, g, p) => Pends(a, g, p)' \/ Waits(g)',
         \A a \in Actors : job'[a].guild = g /\ job'[a].at \in {"add", "remove"} =>
                             job'[a] = job[a]
  PROVE  FollowOf(g)'
  <1> SUFFICES ASSUME NEW p \in Plugins
               PROVE  /\ Pending(g, p)' \/ Agree(g, p)'
                      /\ \A a \in Actors : Writes(a, g, p)' =>
                           Fresh(a, g, p)' /\ \A b \in Actors \ {a} : ~Writes(b, g, p)'
    BY DEF FollowOf
  <1>1. Agree(g, p)' = Agree(g, p)
    BY DEF Agree
  <1>2. Pending(g, p) => Pending(g, p)'
    BY DEF Pending
  <1>3. ASSUME NEW a \in Actors, Writes(a, g, p)' PROVE Writes(a, g, p) /\ job'[a] = job[a]
    BY <1>3 DEF Writes
  <1>4. ASSUME NEW a \in Actors, Writes(a, g, p)' PROVE Fresh(a, g, p)'
    <2>1. Fresh(a, g, p) /\ job'[a] = job[a] /\ job[a].at # "read"
      BY <1>3, <1>4 DEF FollowOf, Writes
    <2>2. PendingElse(a, g, p) => PendingElse(a, g, p)'
      BY <2>1 DEF PendingElse
    <2> QED BY <2>1, <2>2 DEF Fresh
  <1>5. Pending(g, p) \/ Agree(g, p)
    BY DEF FollowOf
  <1>6. ASSUME NEW a \in Actors, Writes(a, g, p)', NEW b \in Actors \ {a}
        PROVE  ~Writes(b, g, p)'
    BY <1>3, <1>6 DEF FollowOf
  <1> QED BY <1>1, <1>2, <1>4, <1>5, <1>6

(* What the three steps of updatePluginFeatureFlags do to the job.          *)
LEMMA ReadFields ==
  ASSUME Shapes, NEW a \in Actors, Read(a)
  PROVE  /\ job[a] \in Jobs /\ job[a].guild \in Guilds /\ job[a].at = "read"
         /\ job'[a].at = "add" /\ job'[a].guild = job[a].guild
         /\ job'[a].todo = job[a].todo /\ job'[a].failed = job[a].failed
         /\ job'[a].active = config[job[a].guild] \cap FlagsOf[Plugin(job[a])]
         /\ \A b \in Actors \ {a} : job'[b] = job[b]
  <1>1. job[a] \in Jobs /\ job[a].guild \in Guilds /\ job[a].at = "read"
    BY DEF Read, Shapes, JobShapes, Updating
  <1> DEFINE F == config[job[a].guild] \cap FlagsOf[Plugin(job[a])]
  <1>2. job' = [job EXCEPT ![a] = [job[a] EXCEPT !.at = "add", !.active = F]]
    BY DEF Read, Shapes, JobShapes
  <1> HIDE DEF F
  <1>3. /\ job'[a] = [job[a] EXCEPT !.at = "add", !.active = F]
        /\ \A b \in Actors \ {a} : job'[b] = job[b]
    BY <1>2 DEF Shapes, JobShapes
  <1>4. ASSUME NEW j, j = [job[a] EXCEPT !.at = "add", !.active = F]
        PROVE  /\ j.at = "add" /\ j.guild = job[a].guild /\ j.todo = job[a].todo
               /\ j.failed = job[a].failed /\ j.active = F
    BY <1>1, <1>4 DEF Jobs
  <1> QED BY <1>1, <1>3, <1>4 DEF F

LEMMA AddFields ==
  ASSUME Shapes, NEW a \in Actors, Add(a)
  PROVE  /\ job[a] \in Jobs /\ job[a].guild \in Guilds /\ job[a].at = "add"
         /\ job'[a].at = "remove" /\ job'[a].guild = job[a].guild
         /\ job'[a].todo = job[a].todo /\ job'[a].failed = job[a].failed
         /\ job'[a].active = job[a].active
         /\ \A b \in Actors \ {a} : job'[b] = job[b]
  <1>1. job[a] \in Jobs /\ job[a].guild \in Guilds /\ job[a].at = "add"
    BY DEF Add, Shapes, JobShapes, Updating
  <1>2. job' = [job EXCEPT ![a] = [job[a] EXCEPT !.at = "remove"]]
    BY DEF Add, Shapes, JobShapes
  <1>3. /\ job'[a] = [job[a] EXCEPT !.at = "remove"]
        /\ \A b \in Actors \ {a} : job'[b] = job[b]
    BY <1>2 DEF Shapes, JobShapes
  <1>4. ASSUME NEW j, j = [job[a] EXCEPT !.at = "remove"]
        PROVE  /\ j.at = "remove" /\ j.guild = job[a].guild /\ j.todo = job[a].todo
               /\ j.failed = job[a].failed /\ j.active = job[a].active
    BY <1>1, <1>4 DEF Jobs
  <1> QED BY <1>1, <1>3, <1>4

LEMMA DoneFields ==
  ASSUME Shapes, NEW a \in Actors, NEW failed \in BOOLEAN, job[a].at \in Busy,
         job' = [job EXCEPT ![a] = PluginDone(job[a], failed)]
  PROVE  /\ job[a] \in Jobs /\ job[a].guild \in Guilds
         /\ job'[a].guild = job[a].guild
         /\ job'[a].todo = job[a].todo \ {Plugin(job[a])}
         /\ job'[a].failed = (job[a].failed \/ failed)
         /\ job'[a].at = IF job'[a].todo = {} THEN "publish" ELSE "read"
         /\ \A b \in Actors \ {a} : job'[b] = job[b]
  <1>1. job[a] \in Jobs /\ job[a].guild \in Guilds
    BY DEF Shapes, JobShapes, Updating, Busy
  <1>2. job'[a] = PluginDone(job[a], failed) /\ \A b \in Actors \ {a} : job'[b] = job[b]
    BY DEF Shapes, JobShapes
  <1> QED BY <1>1, <1>2, PluginDoneTyped, PluginDoneFields

LEMMA IdleFields ==
  /\ Idle.at = "idle" /\ Idle.failed = FALSE /\ Idle.guild = None
  /\ \A g \in Guilds : /\ Begin(g).at = "read" /\ Begin(g).guild = g /\ Begin(g).todo = Plugins
                      /\ Begin(g).failed = FALSE
  BY DEF Idle, Begin

(* Whoever is left alone stays, when no guild is excused no more.           *)
LEMMA JobStays ==
  ASSUME NEW a \in Actors, JobOf(a), job'[a] = job[a], excused \subseteq excused'
  PROVE  JobOf(a)'
  BY DEF JobOf

LEMMA InitJobInv == Init => JobInv
  <1> SUFFICES ASSUME Init PROVE JobInv
    OBVIOUS
  <1>1. ASSUME NEW a \in Actors
        PROVE  job[a].failed = FALSE /\ job[a].at \in {"idle", "down"}
               /\ (a = Worker => job[a].at = "down")
    BY DEF Init, Idle
  <1>2. \A a \in Actors : JobOf(a)
    BY <1>1 DEF JobOf, Busy
  <1> QED BY <1>1, <1>2, ActorsHere DEF JobInv, Init, Updating

(* A step of one actor that leaves the worker's own sets alone.             *)
LEMMA JobInvKept ==
  ASSUME JobInv, NEW a \in Actors, \A b \in Actors \ {a} : job'[b] = job[b],
         excused \subseteq excused', low' = low, popped' = popped, JobOf(a)',
         a = Worker => /\ job'[a].at \notin {"mark", "evict", "init"}
                       /\ job'[a].at \in Updating \/ popped = {}
  PROVE  JobInv'
  <1>1. \A b \in Actors : JobOf(b)'
    BY JobStays DEF JobInv
  <1>2. CASE a = Worker
    BY <1>1, <1>2 DEF JobInv
  <1>3. CASE a # Worker
    BY <1>1, <1>3, ActorsHere DEF JobInv
  <1> QED BY <1>2, <1>3

LEMMA JobInvStep == Shapes /\ JobInv /\ [Next]_vars => JobInv'
  <1> SUFFICES ASSUME Shapes, JobInv, [Next]_vars PROVE JobInv'
    OBVIOUS
  <1>0. Worker \notin Web /\ Worker \in Actors /\ Web \subseteq Actors
    BY FlagsAssumption, ActorsHere
  <1>1. ASSUME NEW w \in Web, NEW g \in Guilds, NEW p \in Plugins,
               SaveAndUpdate(w, g, p) \/ SaveAndMark(w, g, p)
        PROVE  JobInv'
    <2>1. PICK j : /\ Saved(w, g, p, j) /\ j.failed = FALSE
                   /\ j.at \in {"read", "mark"} /\ j.todo \in {{}, {p}}
                   /\ j.at = "read" => j.todo = {p}
      <3> DEFINE j1 == [Idle EXCEPT !.at = "read", !.guild = g, !.todo = {p}]
                 j2 == [Idle EXCEPT !.at = "mark", !.guild = g]
      <3>1. /\ j1.failed = FALSE /\ j1.at = "read" /\ j1.todo = {p}
            /\ j2.failed = FALSE /\ j2.at = "mark" /\ j2.todo = {}
        BY DEF Idle
      <3>2. Saved(w, g, p, j1) \/ Saved(w, g, p, j2)
        BY <1>1 DEF SaveAndUpdate, SaveAndMark
      <3> HIDE DEF j1, j2
      <3> QED BY <3>1, <3>2
    <2>2. /\ job'[w] = j /\ \A b \in Actors \ {w} : job'[b] = job[b]
          /\ UNCHANGED <<excused, low, popped>>
      BY <2>1, <1>0 DEF Saved, sets, Shapes, JobShapes
    <2>3. JobOf(w)'
      BY <2>1, <2>2 DEF JobOf, Busy
    <2> QED BY <1>0, <2>2, <2>3, JobInvKept
  <1>2. ASSUME NEW w \in Web, MarkDirty(w) \/ EvictHere(w) PROVE JobInv'
    <2>1. /\ job' = [job EXCEPT ![w] = Idle] /\ UNCHANGED <<excused, low, popped>>
      BY <1>2 DEF MarkDirty, EvictHere, sets
    <2>2. job'[w] = Idle /\ \A b \in Actors \ {w} : job'[b] = job[b]
      BY <1>0, <2>1 DEF Shapes, JobShapes
    <2>3. JobOf(w)'
      BY <2>2, IdleFields DEF JobOf, Busy
    <2> QED BY <1>0, <2>1, <2>2, <2>3, JobInvKept
  <1>3. ASSUME NEW a \in Actors, Read(a) PROVE JobInv'
    <2>1. /\ excused \subseteq excused' /\ low' = low /\ popped' = popped
      BY <1>3 DEF Read, sets
    <2>2. /\ job[a] \in Jobs /\ job[a].guild \in Guilds /\ job[a].at = "read"
          /\ job'[a].at = "add" /\ job'[a].guild = job[a].guild
          /\ job'[a].todo = job[a].todo /\ job'[a].failed = job[a].failed
          /\ job'[a].active = config[job[a].guild] \cap FlagsOf[Plugin(job[a])]
          /\ \A b \in Actors \ {a} : job'[b] = job[b]
      BY <1>3, ReadFields
    <2>3. Plugin(job'[a]) = Plugin(job[a])
      BY <2>2, PluginSame
    <2>4. job'[a].active \subseteq FlagsOf[Plugin(job'[a])]
      BY <2>2, <2>3
    <2>5. JobOf(a)
      BY DEF JobInv
    <2>6. JobOf(a)'
      BY <2>1, <2>2, <2>4, <2>5 DEF JobOf, Busy, Updating
    <2> QED BY <2>1, <2>2, <2>6, JobInvKept DEF Updating
  <1>4. ASSUME NEW a \in Actors, Add(a) PROVE JobInv'
    <2>1. /\ excused' = excused /\ low' = low /\ popped' = popped
      BY <1>4 DEF Add, sets
    <2>2. /\ job[a] \in Jobs /\ job[a].guild \in Guilds /\ job[a].at = "add"
          /\ job'[a].at = "remove" /\ job'[a].guild = job[a].guild
          /\ job'[a].todo = job[a].todo /\ job'[a].failed = job[a].failed
          /\ job'[a].active = job[a].active
          /\ \A b \in Actors \ {a} : job'[b] = job[b]
      BY <1>4, AddFields
    <2>3. Plugin(job'[a]) = Plugin(job[a])
      BY <2>2, PluginSame
    <2>4. JobOf(a)'
      BY <2>1, <2>2, <2>3 DEF JobInv, JobOf, Busy, Updating
    <2> QED BY <2>1, <2>2, <2>4, JobInvKept DEF Updating
  <1>5. ASSUME NEW a \in Actors, Remove(a) \/ UpdateFails(a) PROVE JobInv'
    <2>1. PICK failed \in BOOLEAN :
            /\ job' = [job EXCEPT ![a] = PluginDone(job[a], failed)]
            /\ job[a].at \in Busy /\ excused \subseteq excused'
            /\ low' = low /\ popped' = popped
            /\ failed /\ a # Worker => job[a].guild \in excused'
      <3>1. CASE Remove(a)
        BY <3>1 DEF Remove, Busy, sets
      <3>2. CASE UpdateFails(a)
        BY <3>2 DEF UpdateFails, Busy, sets
      <3> QED BY <1>5, <3>1, <3>2
    <2>2. /\ job'[a].guild = job[a].guild
          /\ job'[a].failed = (job[a].failed \/ failed)
          /\ job'[a].at = IF job'[a].todo = {} THEN "publish" ELSE "read"
          /\ \A b \in Actors \ {a} : job'[b] = job[b]
      BY <2>1, DoneFields
    <2>3. JobOf(a)'
      BY <2>1, <2>2 DEF JobInv, JobOf, Busy, Updating
    <2> QED BY <2>1, <2>2, <2>3, JobInvKept DEF Updating
  <1>6. ASSUME NEW w \in Web, PublishWeb(w) PROVE JobInv'
    <2>1. /\ job' = [job EXCEPT ![w] = [job[w] EXCEPT !.at = "evict"]]
          /\ UNCHANGED <<excused, low, popped>> /\ job[w] \in Jobs
      BY <1>0, <1>6 DEF PublishWeb, sets, Shapes, JobShapes
    <2>2. /\ job'[w] = [job[w] EXCEPT !.at = "evict"]
          /\ \A b \in Actors \ {w} : job'[b] = job[b]
      BY <1>0, <2>1 DEF Shapes, JobShapes
    <2>3. job'[w].at = "evict" /\ job'[w].failed = job[w].failed /\ job'[w].guild = job[w].guild
      BY <2>1, <2>2 DEF Jobs
    <2>4. JobOf(w)'
      BY <1>0, <2>1, <2>3 DEF JobInv, JobOf, Busy
    <2> QED BY <1>0, <2>1, <2>2, <2>4, JobInvKept
  <1>7. CASE StartWorker \/ Initialized
    <2>1. PICK s \in {"idle", "init"} : job' = [job EXCEPT ![Worker] = [job[Worker] EXCEPT !.at = s]]
      BY <1>0, <1>7 DEF StartWorker, Initialized, Shapes, JobShapes
    <2>2. /\ job'[Worker].at = s /\ job'[Worker].failed = job[Worker].failed
          /\ \A b \in Actors \ {Worker} : job'[b] = job[b]
      BY <1>0, <2>1 DEF Shapes, JobShapes, Jobs
    <2>3. /\ job[Worker].at \in {"down", "init"} /\ excused' = excused /\ popped' = popped
          /\ s = "init" => low' = Guilds
      <3>1. CASE StartWorker
        <4>1. \/ low' = Guilds
              \/ job' = [job EXCEPT ![Worker].at = "idle"]
          BY <3>1 DEF StartWorker
        <4>2. job' = [job EXCEPT ![Worker].at = "idle"] => s = "idle"
          BY <1>0, <2>2 DEF Shapes, JobShapes, Jobs
        <4> QED BY <3>1, <4>1, <4>2 DEF StartWorker
      <3>2. CASE Initialized
        <4>1. job' = [job EXCEPT ![Worker].at = "idle"] => s = "idle"
          BY <1>0, <2>2 DEF Shapes, JobShapes, Jobs
        <4> QED BY <3>2, <4>1 DEF Initialized, sets
      <3> QED BY <1>7, <3>1, <3>2
    <2>4. JobOf(Worker)' /\ popped = {}
      BY <1>0, <2>2, <2>3 DEF JobInv, JobOf, Busy, Updating
    <2>5. \A b \in Actors : JobOf(b)'
      BY <2>2, <2>3, <2>4, JobStays DEF JobInv
    <2> QED BY <2>2, <2>3, <2>4, <2>5 DEF JobInv
  <1>8. ASSUME NEW g \in Guilds, job' = [job EXCEPT ![Worker] = Begin(g)],
               excused \subseteq excused'
        PROVE  JobInv'
    <2>1. job'[Worker] = Begin(g) /\ \A b \in Actors \ {Worker} : job'[b] = job[b]
      BY <1>0, <1>8 DEF Shapes, JobShapes
    <2>2. JobOf(Worker)'
      BY <1>0, <2>1, IdleFields, FlagsAssumption DEF JobOf, Busy, Updating
    <2>3. \A b \in Actors : JobOf(b)'
      BY <1>8, <2>1, <2>2, JobStays DEF JobInv
    <2> QED BY <2>1, <2>3, IdleFields DEF JobInv, Updating
  <1>9. CASE PopHigh \/ PopLow \/ PopFails
    <2>1. job[Worker].at \in {"idle", "low"} /\ popped = {} /\ ~job[Worker].failed
      BY <1>0, <1>9, Popping DEF JobInv, JobOf, Updating
    <2>2. ASSUME NEW g \in Guilds, Taken(g) PROVE JobInv'
      BY <1>8, <2>2 DEF Taken
    <2>3. ASSUME NEW j \in Jobs, j.at \in {"idle", "low"},
                 j.failed \in {FALSE, job[Worker].failed}, Rests(j)
          PROVE  JobInv'
      <3>1. job'[Worker] = j /\ \A b \in Actors \ {Worker} : job'[b] = job[b]
        BY <1>0, <2>3 DEF Rests, Shapes, JobShapes
      <3>2. JobOf(Worker)'
        BY <2>1, <2>3, <3>1 DEF JobOf, Busy
      <3>3. excused \subseteq excused' /\ popped' = {}
        BY <2>1, <2>3 DEF Rests
      <3>4. \A b \in Actors : JobOf(b)'
        BY <3>1, <3>2, <3>3, JobStays DEF JobInv
      <3> QED BY <2>3, <3>1, <3>3, <3>4 DEF JobInv
    <2> QED BY <1>9, <2>2, <2>3, Popping
  <1>10. CASE PublishWorker
    <2>1. CASE popped' = {} /\ job' = [job EXCEPT ![Worker] = Idle] /\ excused' = excused \cup popped
      <3>1. job'[Worker] = Idle /\ \A b \in Actors \ {Worker} : job'[b] = job[b]
        BY <1>0, <2>1 DEF Shapes, JobShapes
      <3>2. JobOf(Worker)'
        BY <3>1, IdleFields DEF JobOf, Busy
      <3>3. \A b \in Actors : JobOf(b)'
        BY <2>1, <3>1, <3>2, JobStays DEF JobInv
      <3> QED BY <2>1, <3>1, <3>3, IdleFields DEF JobInv, Updating
    <2>2. CASE \E g \in popped : job' = [job EXCEPT ![Worker] = Begin(g)] /\ excused' = excused
      BY <1>8, <2>2 DEF Shapes
    <2> QED BY <1>10, <2>1, <2>2 DEF PublishWorker
  <1>11. ASSUME UNCHANGED <<job, low, popped, excused>> PROVE JobInv'
    <2>1. \A b \in Actors : JobOf(b)'
      BY <1>11, JobStays DEF JobInv
    <2> QED BY <1>11, <2>1 DEF JobInv
  <1>12. ASSUME NEW g \in Guilds, Remark(g) PROVE JobInv'
    BY <1>11, <1>12 DEF Remark
  <1>13. ASSUME NEW p \in Procs, NEW g \in Guilds, Fetch(p, g) \/ Fetched(p, g) PROVE JobInv'
    BY <1>11, <1>13 DEF Fetch, Fetched, sets
  <1>14. ASSUME NEW p \in Procs, HandleEvict(p) PROVE JobInv'
    BY <1>11, <1>14 DEF HandleEvict, sets
  <1>15. ASSUME NEW p \in Procs, Crash(p) PROVE JobInv'
    <2>1. /\ \A a \in Actors : job'[a] = IF ProcOf[a] # p THEN job[a]
                                 ELSE IF a = Worker THEN [Idle EXCEPT !.at = "down"] ELSE Idle
          /\ excused \subseteq excused' /\ low' = low
          /\ popped' = IF ProcOf[Worker] = p THEN {} ELSE popped
      BY <1>0, <1>15 DEF Crash
    <2>2. [Idle EXCEPT !.at = "down"].failed = FALSE /\ [Idle EXCEPT !.at = "down"].at = "down"
      BY DEF Idle
    <2>3. ASSUME NEW a \in Actors PROVE JobOf(a)'
      <3>1. CASE ProcOf[a] # p
        BY <2>1, <3>1, JobStays DEF JobInv
      <3>2. CASE ProcOf[a] = p
        <4>1. job'[a].failed = FALSE /\ job'[a].at \in {"idle", "down"}
          BY <2>1, <2>2, <3>2, IdleFields
        <4> QED BY <4>1 DEF JobOf, Busy
      <3> QED BY <3>1, <3>2
    <2> QED BY <1>0, <2>1, <2>2, <2>3 DEF JobInv
  <1>16. CASE UNCHANGED vars
    BY <1>11, <1>16 DEF vars, sets
  <1>17. CASE Next
    BY <1>1, <1>2, <1>3, <1>4, <1>5, <1>6, <1>7, <1>9, <1>10, <1>12, <1>13, <1>14, <1>15, <1>17,
       FlagsAssumption, ActorsHere
    DEF Next, WebStep, WorkerStep, Update, CacheStep
  <1> QED BY <1>16, <1>17

(* The flags of one plugin are none of another's.                           *)
LEMMA FlagsApart ==
  ASSUME NEW p \in Plugins, NEW q \in Plugins, p # q
  PROVE  FlagsOf[p] \cap FlagsOf[q] = {}
  BY FlagsAssumption

(* The tables are read for the only one who writes these flags, or the guild
   is excused.                                                              *)
LEMMA FollowRead ==
  ASSUME Shapes, JobInv, NEW a \in Actors, Read(a), NEW g \in Guilds \ excused',
         g = job[a].guild, FollowOf(g)
  PROVE  FollowOf(g)'
  <1>1. /\ job[a] \in Jobs /\ job[a].at = "read"
        /\ job'[a].at = "add" /\ job'[a].guild = g
        /\ job'[a].todo = job[a].todo /\ job'[a].failed = job[a].failed
        /\ job'[a].active = config[g] \cap FlagsOf[Plugin(job[a])]
        /\ \A b \in Actors \ {a} : job'[b] = job[b]
    BY ReadFields
  <1>2. /\ UNCHANGED <<config, flags, sets, initialized>> /\ ~Raced(a, g, Plugin(job[a]))
    BY DEF Read
  <1>3. \A b \in Actors \ {a} : ~Writes(b, g, Plugin(job[a]))
    BY <1>2, Zenon DEF Raced, Writes
  <1>4. Plugin(job'[a]) = Plugin(job[a])
    BY <1>1, PluginSame
  <1>5. \A b \in Actors, p \in Plugins : Pends(b, g, p) => Pends(b, g, p)'
    BY <1>1 DEF Pends, Busy
  <1>6. Waits(g)' = Waits(g)
    BY <1>2 DEF Waits, sets
  <1> SUFFICES ASSUME NEW p \in Plugins
               PROVE  /\ Pending(g, p)' \/ Agree(g, p)'
                      /\ \A b \in Actors : Writes(b, g, p)' =>
                           Fresh(b, g, p)' /\ \A c \in Actors \ {b} : ~Writes(c, g, p)'
    BY DEF FollowOf
  <1>7. Pending(g, p)' \/ Agree(g, p)'
    <2>1. Agree(g, p)' = Agree(g, p)
      BY <1>2 DEF Agree
    <2>2. Pending(g, p) => Pending(g, p)'
      BY <1>5, <1>6 DEF Pending
    <2> QED BY <2>1, <2>2 DEF FollowOf
  <1>8. Writes(a, g, p)' => p = Plugin(job[a])
    BY <1>4, Zenon DEF Writes
  <1>9. \A b \in Actors \ {a} : Writes(b, g, p)' = Writes(b, g, p)
    BY <1>1 DEF Writes
  <1>10. ASSUME NEW b \in Actors, Writes(b, g, p)' PROVE Fresh(b, g, p)'
    <2>1. CASE b = a
      <3>1. job'[a].active = config'[g] \cap FlagsOf[p] /\ job'[a].at # "remove"
        BY <1>1, <1>2, <1>8, <1>10, <2>1
      <3> QED BY <2>1, <3>1 DEF Fresh
    <2>2. CASE b # a
      <3>1. Fresh(b, g, p) /\ job'[b] = job[b]
        BY <1>1, <1>9, <1>10, <2>2 DEF FollowOf
      <3>2. PendingElse(b, g, p) => PendingElse(b, g, p)'
        BY <1>5, <1>6 DEF PendingElse
      <3> QED BY <1>2, <3>1, <3>2 DEF Fresh
    <2> QED BY <2>1, <2>2
  <1>11. ASSUME NEW b \in Actors, Writes(b, g, p)', NEW c \in Actors \ {b}
         PROVE  ~Writes(c, g, p)'
    <2>1. CASE b = a
      BY <1>3, <1>8, <1>9, <1>11, <2>1
    <2>2. CASE c = a
      BY <1>3, <1>8, <1>9, <1>11, <2>2
    <2>3. CASE b # a /\ c # a
      BY <1>9, <1>11, <2>3 DEF FollowOf
    <2> QED BY <2>1, <2>2, <2>3
  <1> QED BY <1>7, <1>10, <1>11

(* The flags that are on are added.                                         *)
LEMMA FollowAdd ==
  ASSUME Shapes, JobInv, NEW a \in Actors, Add(a), NEW g \in Guilds, g = job[a].guild, FollowOf(g)
  PROVE  FollowOf(g)'
  <1>0. PICK pa : pa = Plugin(job[a])
    OBVIOUS
  <1>1. /\ job[a] \in Jobs /\ job[a].at = "add"
        /\ job'[a].at = "remove" /\ job'[a].guild = g
        /\ job'[a].todo = job[a].todo /\ job'[a].failed = job[a].failed
        /\ job'[a].active = job[a].active
        /\ \A b \in Actors \ {a} : job'[b] = job[b]
    BY AddFields
  <1>2. /\ UNCHANGED <<config, sets, initialized>>
        /\ flags'[g] = flags[g] \cup job[a].active
    BY DEF Add, Shapes
  <1>3. pa \in job[a].todo /\ pa \in Plugins /\ job[a].active \subseteq FlagsOf[pa]
    BY <1>0, <1>1, PluginOfJob DEF JobInv, JobOf, Busy
  <1>4. Plugin(job'[a]) = pa
    BY <1>0, <1>1, PluginSame
  <1>5. \A b \in Actors, p \in Plugins : Pends(b, g, p) => Pends(b, g, p)'
    BY <1>1 DEF Pends, Busy
  <1>6. Waits(g)' = Waits(g)
    BY <1>2 DEF Waits, sets
  <1>7. Writes(a, g, pa) /\ Pends(a, g, pa)'
    BY <1>0, <1>1, <1>3 DEF Writes, Pends, Busy
  <1> SUFFICES ASSUME NEW p \in Plugins
               PROVE  /\ Pending(g, p)' \/ Agree(g, p)'
                      /\ \A b \in Actors : Writes(b, g, p)' =>
                           Fresh(b, g, p)' /\ \A c \in Actors \ {b} : ~Writes(c, g, p)'
    BY DEF FollowOf
  <1>8. Pending(g, p)' \/ Agree(g, p)'
    <2>1. CASE p = pa
      BY <1>7, <2>1 DEF Pending
    <2>2. CASE p # pa
      <3>1. FlagsOf[p] \cap FlagsOf[pa] = {}
        BY <1>3, <2>2, FlagsApart
      <3>2. Agree(g, p) => Agree(g, p)'
        BY <1>2, <1>3, <3>1 DEF Agree
      <3>3. Pending(g, p) => Pending(g, p)'
        BY <1>5, <1>6 DEF Pending
      <3> QED BY <3>2, <3>3 DEF FollowOf
    <2> QED BY <2>1, <2>2
  <1>9. \A b \in Actors : Writes(b, g, p)' = Writes(b, g, p)
    <2>1. Writes(a, g, p)' = Writes(a, g, p)
      <3>1. Writes(a, g, p)' <=> pa = p
        BY <1>1, <1>4 DEF Writes
      <3>2. Writes(a, g, p) <=> pa = p
        BY <1>0, <1>1 DEF Writes
      <3> QED BY <3>1, <3>2 DEF Writes
    <2> QED BY <1>1, <2>1 DEF Writes
  <1>10. ASSUME NEW b \in Actors, Writes(b, g, p)' PROVE Fresh(b, g, p)'
    <2>1. Fresh(b, g, p)
      BY <1>9, <1>10 DEF FollowOf
    <2>2. PendingElse(b, g, p) => PendingElse(b, g, p)'
      BY <1>5, <1>6 DEF PendingElse
    <2>3. job'[b].active = job[b].active /\ config' = config
      BY <1>1, <1>2
    <2>4. CASE b = a
      BY <1>2, <2>1, <2>2, <2>3, <2>4 DEF Fresh
    <2>5. CASE b # a
      <3>1. job'[b] = job[b]
        BY <1>1, <2>5
      <3> QED BY <1>2, <2>1, <2>2, <2>3, <3>1 DEF Fresh
    <2> QED BY <2>4, <2>5
  <1>11. ASSUME NEW b \in Actors, Writes(b, g, p)', NEW c \in Actors \ {b}
         PROVE  ~Writes(c, g, p)'
    BY <1>9, <1>11 DEF FollowOf
  <1> QED BY <1>8, <1>10, <1>11

(* The flags that are off are removed: those of the plugin are now what was
   read, and whoever comes after does it again.                             *)
LEMMA FollowRemove ==
  ASSUME Shapes, JobInv, NEW a \in Actors, Remove(a), NEW g \in Guilds, g = job[a].guild,
         FollowOf(g)
  PROVE  FollowOf(g)'
  <1>0. PICK pa : pa = Plugin(job[a])
    OBVIOUS
  <1>1. /\ job[a] \in Jobs /\ job[a].at = "remove" /\ job'[a].guild = g
        /\ job'[a].todo = job[a].todo \ {pa}
        /\ job'[a].failed = job[a].failed
        /\ job'[a].at = IF job'[a].todo = {} THEN "publish" ELSE "read"
        /\ \A b \in Actors \ {a} : job'[b] = job[b]
    <2>1. /\ job[a].at = "remove" /\ job[a].at \in Busy
          /\ job' = [job EXCEPT ![a] = PluginDone(job[a], FALSE)]
      BY DEF Remove, Busy
    <2>2. job[a] \in Jobs /\ job[a].failed \in BOOLEAN
      BY DEF Shapes, JobShapes, Jobs
    <2>3. /\ job'[a].guild = job[a].guild
          /\ job'[a].todo = job[a].todo \ {Plugin(job[a])}
          /\ job'[a].failed = (job[a].failed \/ FALSE)
          /\ job'[a].at = IF job'[a].todo = {} THEN "publish" ELSE "read"
          /\ \A b \in Actors \ {a} : job'[b] = job[b]
      BY <2>1, DoneFields
    <2> QED BY <1>0, <2>1, <2>2, <2>3
  <1>2. /\ UNCHANGED <<config, sets, initialized>>
        /\ flags'[g] = flags[g] \ (FlagsOf[pa] \ job[a].active)
    BY <1>0 DEF Remove, Inactive, Shapes
  <1>3. pa \in job[a].todo /\ pa \in Plugins
    BY <1>0, <1>1, PluginOfJob DEF JobInv, JobOf, Busy
  <1>4. Writes(a, g, pa)
    BY <1>0, <1>1 DEF Writes
  <1>5. ASSUME NEW b \in Actors, NEW p \in Plugins, b # a \/ p # pa, Pends(b, g, p)
        PROVE  Pends(b, g, p)'
    <2>1. CASE b # a
      BY <1>1, <1>5, <2>1 DEF Pends
    <2>2. CASE b = a
      <3>1. job[a].failed \/ p \in job[a].todo
        BY <1>1, <1>5, <2>2 DEF Pends
      <3>2. CASE job[a].failed
        BY <1>1, <2>2, <3>2 DEF Pends
      <3>3. CASE p \in job[a].todo
        BY <1>1, <1>5, <2>2, <3>3 DEF Pends, Busy
      <3> QED BY <3>1, <3>2, <3>3
    <2> QED BY <2>1, <2>2
  <1>6. Waits(g)' = Waits(g)
    BY <1>2 DEF Waits, sets
  <1> SUFFICES ASSUME NEW p \in Plugins
               PROVE  /\ Pending(g, p)' \/ Agree(g, p)'
                      /\ \A b \in Actors : Writes(b, g, p)' =>
                           Fresh(b, g, p)' /\ \A c \in Actors \ {b} : ~Writes(c, g, p)'
    BY DEF FollowOf
  <1>7. Pending(g, p)' \/ Agree(g, p)'
    <2>1. CASE p = pa
      <3>1. Fresh(a, g, p)
        BY <1>4, <2>1 DEF FollowOf
      <3>2. CASE PendingElse(a, g, p)
        <4>1. Pending(g, p)'
          BY <1>5, <1>6, <3>2 DEF PendingElse, Pending
        <4> QED BY <4>1
      <3>3. CASE job[a].active = config[g] \cap FlagsOf[p] /\ job[a].active \subseteq flags[g]
        BY <1>2, <2>1, <3>3 DEF Agree
      <3> QED BY <1>1, <3>1, <3>2, <3>3 DEF Fresh
    <2>2. CASE p # pa
      <3>1. FlagsOf[p] \cap FlagsOf[pa] = {}
        BY <1>3, <2>2, FlagsApart
      <3>2. Agree(g, p) => Agree(g, p)'
        BY <1>2, <3>1 DEF Agree
      <3>3. Pending(g, p) => Pending(g, p)'
        BY <1>5, <1>6, <2>2 DEF Pending
      <3> QED BY <3>2, <3>3 DEF FollowOf
    <2> QED BY <2>1, <2>2
  <1>8. ASSUME NEW b \in Actors, Writes(b, g, p)'
        PROVE  b # a /\ p # pa /\ job'[b] = job[b] /\ Writes(b, g, p)
    <2>1. b # a
      BY <1>1, <1>8 DEF Writes
    <2>2. job'[b] = job[b] /\ Writes(b, g, p)
      BY <1>1, <1>8, <2>1 DEF Writes
    <2> QED BY <1>4, <2>1, <2>2 DEF FollowOf
  <1>9. ASSUME NEW b \in Actors, Writes(b, g, p)' PROVE Fresh(b, g, p)'
    <2>1. b # a /\ p # pa /\ job'[b] = job[b] /\ Fresh(b, g, p)
      BY <1>8, <1>9 DEF FollowOf
    <2>2. PendingElse(b, g, p) => PendingElse(b, g, p)'
      BY <1>5, <1>6, <2>1 DEF PendingElse
    <2>3. FlagsOf[p] \cap FlagsOf[pa] = {}
      BY <1>3, <2>1, FlagsApart
    <2>4. job[b].active = config[g] \cap FlagsOf[p] /\ job[b].active \subseteq flags[g]
          => job[b].active \subseteq flags'[g]
      BY <1>2, <2>3
    <2> QED BY <1>2, <2>1, <2>2, <2>4 DEF Fresh
  <1>10. ASSUME NEW b \in Actors, Writes(b, g, p)', NEW c \in Actors \ {b}
         PROVE  ~Writes(c, g, p)'
    BY <1>8, <1>10 DEF FollowOf
  <1> QED BY <1>7, <1>9, <1>10

(* The settings change, and the request will see to the flags of its plugin. *)
LEMMA FollowSaved ==
  ASSUME Shapes, JobInv, NEW w \in Web, NEW g \in Guilds, NEW pw \in Plugins, NEW j,
         Saved(w, g, pw, j), j.guild = g,
         j.at = "mark" \/ (j.at = "read" /\ j.todo = {pw}),
         g \notin excused, FollowOf(g)
  PROVE  FollowOf(g)'
  <1>0. w \in Actors /\ w # Worker
    BY ActorsHere, FlagsAssumption
  <1>1. /\ job[w].at = "idle" /\ job'[w] = j /\ \A b \in Actors \ {w} : job'[b] = job[b]
        /\ UNCHANGED <<flags, sets, initialized>>
    BY <1>0 DEF Saved, Shapes, JobShapes
  <1>2. PICK on \in SUBSET FlagsOf[pw] : config'[g] = (config[g] \ FlagsOf[pw]) \cup on
    BY DEF Saved, Shapes
  <1>3. \A b \in Actors, p \in Plugins : Pends(b, g, p) => b # w /\ Pends(b, g, p)'
    BY <1>0, <1>1 DEF Pends, JobInv, JobOf, Busy
  <1>4. Waits(g)' = Waits(g)
    BY <1>1 DEF Waits, sets
  <1>5. Pends(w, g, pw)'
    BY <1>1 DEF Pends, Busy
  <1> SUFFICES ASSUME NEW p \in Plugins
               PROVE  /\ Pending(g, p)' \/ Agree(g, p)'
                      /\ \A b \in Actors : Writes(b, g, p)' =>
                           Fresh(b, g, p)' /\ \A c \in Actors \ {b} : ~Writes(c, g, p)'
    BY DEF FollowOf
  <1>6. p # pw => config'[g] \cap FlagsOf[p] = config[g] \cap FlagsOf[p]
    <2> SUFFICES ASSUME p # pw PROVE config'[g] \cap FlagsOf[p] = config[g] \cap FlagsOf[p]
      OBVIOUS
    <2>1. FlagsOf[p] \cap FlagsOf[pw] = {}
      BY FlagsApart
    <2> QED BY <1>2, <2>1
  <1>7. Pending(g, p)' \/ Agree(g, p)'
    <2>1. CASE p = pw
      BY <1>0, <1>5, <2>1 DEF Pending
    <2>2. CASE p # pw
      <3>1. Agree(g, p) => Agree(g, p)'
        BY <1>1, <1>6, <2>2 DEF Agree
      <3>2. Pending(g, p) => Pending(g, p)'
        BY <1>3, <1>4 DEF Pending
      <3> QED BY <3>1, <3>2 DEF FollowOf
    <2> QED BY <2>1, <2>2
  <1>8. ASSUME NEW b \in Actors, Writes(b, g, p)'
        PROVE  b # w /\ job'[b] = job[b] /\ Writes(b, g, p)
    BY <1>1, <1>8 DEF Writes
  <1>9. ASSUME NEW b \in Actors, Writes(b, g, p)' PROVE Fresh(b, g, p)'
    <2>1. b # w /\ job'[b] = job[b] /\ Fresh(b, g, p)
      BY <1>8, <1>9 DEF FollowOf
    <2>2. CASE p = pw
      BY <1>0, <1>5, <2>1, <2>2 DEF Fresh, PendingElse
    <2>3. CASE p # pw
      <3>1. PendingElse(b, g, p) => PendingElse(b, g, p)'
        BY <1>3, <1>4 DEF PendingElse
      <3> QED BY <1>1, <1>6, <2>1, <2>3, <3>1 DEF Fresh
    <2> QED BY <2>2, <2>3
  <1>10. ASSUME NEW b \in Actors, Writes(b, g, p)', NEW c \in Actors \ {b}
         PROVE  ~Writes(c, g, p)'
    BY <1>8, <1>10 DEF FollowOf
  <1> QED BY <1>7, <1>9, <1>10

(* A step that leaves the flags and the settings of g alone: what it does to
   the guilds that wait is given, and to the job of one actor.              *)
LEMMA FollowOthers ==
  ASSUME NEW g \in Guilds, FollowOf(g), NEW a \in Actors,
         flags'[g] = flags[g], config'[g] = config[g],
         \A b \in Actors \ {a} : job'[b] = job[b],
         job'[a].at \notin {"add", "remove"} \/ job'[a].guild # g,
         Waits(g) => \/ Waits(g)'
                     \/ job'[a].at = "read" /\ \A p \in Plugins : Pends(a, g, p)',
         \A p \in Plugins : Pends(a, g, p) => Pends(a, g, p)' \/ Waits(g)'
  PROVE  FollowOf(g)'
  <1>1. \A b \in Actors, p \in Plugins : Pends(b, g, p) => Pends(b, g, p)' \/ Waits(g)'
    <2>1. \A b \in Actors \ {a}, p \in Plugins : Pends(b, g, p) => Pends(b, g, p)'
      BY DEF Pends
    <2> QED BY <2>1
  <1>2. \A b \in Actors : job'[b].guild = g /\ job'[b].at \in {"add", "remove"} => job'[b] = job[b]
    OBVIOUS
  <1> QED BY <1>1, <1>2, FollowKept

LEMMA FollowStep ==
  ASSUME Shapes, JobInv, JobInv', FollowInv, [Next]_vars
  PROVE  FollowInv'
  <1>0. Worker \notin Web /\ Worker \in Actors /\ Web \subseteq Actors
    BY FlagsAssumption, ActorsHere
  <1> SUFFICES ASSUME NEW g \in Guilds, g \notin excused' PROVE FollowOf(g)'
    BY DEF FollowInv
  <1>1. ASSUME excused \subseteq excused' PROVE g \notin excused /\ FollowOf(g)
    BY <1>1 DEF FollowInv
  <1>2. ASSUME NEW w \in Web, NEW gw \in Guilds, NEW p \in Plugins,
               SaveAndUpdate(w, gw, p) \/ SaveAndMark(w, gw, p)
        PROVE  FollowOf(g)'
    <2>1. PICK j : /\ Saved(w, gw, p, j) /\ j.guild = gw
                   /\ j.at = "mark" \/ (j.at = "read" /\ j.todo = {p})
      <3> DEFINE j1 == [Idle EXCEPT !.at = "read", !.guild = gw, !.todo = {p}]
                 j2 == [Idle EXCEPT !.at = "mark", !.guild = gw]
      <3>1. /\ j1.guild = gw /\ j1.at = "read" /\ j1.todo = {p}
            /\ j2.guild = gw /\ j2.at = "mark"
        BY DEF Idle
      <3>2. Saved(w, gw, p, j1) \/ Saved(w, gw, p, j2)
        BY <1>2 DEF SaveAndUpdate, SaveAndMark
      <3> HIDE DEF j1, j2
      <3> QED BY <3>1, <3>2
    <2>2. g \notin excused /\ FollowOf(g)
      BY <1>1, <2>1 DEF Saved
    <2>3. CASE g = gw
      BY <2>1, <2>2, <2>3, FollowSaved
    <2>4. CASE g # gw
      <3>1. /\ job[w].at = "idle" /\ job'[w] = j /\ \A b \in Actors \ {w} : job'[b] = job[b]
            /\ UNCHANGED <<flags, sets, initialized>>
            /\ config'[g] = config[g]
        BY <1>0, <2>1, <2>4 DEF Saved, Shapes, JobShapes
      <3>2. \A q \in Plugins : ~Pends(w, g, q)
        BY <1>0, <2>2, <3>1 DEF Pends, JobInv, JobOf, Busy
      <3>3. Waits(g)' = Waits(g)
        BY <3>1 DEF Waits, sets
      <3> QED BY <1>0, <2>1, <2>2, <2>4, <3>1, <3>2, <3>3, FollowOthers
    <2> QED BY <2>3, <2>4
  <1>3. ASSUME NEW w \in Web, MarkDirty(w) PROVE FollowOf(g)'
    <2>1. /\ job[w].at = "mark" /\ high' = high \cup {job[w].guild}
          /\ job'[w] = Idle /\ \A b \in Actors \ {w} : job'[b] = job[b]
          /\ UNCHANGED <<config, flags, low, popped, remark, initialized, excused>>
      BY <1>0, <1>3 DEF MarkDirty, Marked, Shapes, JobShapes
    <2>2. Waits(g) => Waits(g)'
      BY <2>1 DEF Waits
    <2>3. \A p \in Plugins : Pends(w, g, p) => Waits(g)'
      BY <2>1 DEF Pends, Waits
    <2>4. FollowOf(g)
      BY <1>1, <2>1
    <2> QED BY <1>0, <2>1, <2>2, <2>3, <2>4, IdleFields, FollowOthers
  <1>4. ASSUME NEW w \in Web, EvictHere(w) PROVE FollowOf(g)'
    <2>1. /\ job[w].at = "evict"
          /\ job'[w] = Idle /\ \A b \in Actors \ {w} : job'[b] = job[b]
          /\ UNCHANGED <<config, flags, sets, initialized, excused>>
      BY <1>0, <1>4 DEF EvictHere, Shapes, JobShapes
    <2>2. Waits(g) => Waits(g)'
      BY <2>1 DEF Waits, sets
    <2>3. FollowOf(g) /\ g \notin excused
      BY <1>1, <2>1
    <2>4. \A p \in Plugins : ~Pends(w, g, p)
      BY <1>0, <2>1, <2>3 DEF Pends, JobInv, JobOf, Busy
    <2> QED BY <1>0, <2>1, <2>2, <2>3, <2>4, IdleFields, FollowOthers
  <1>5. ASSUME NEW a \in Actors, Read(a) PROVE FollowOf(g)'
    <2>1. FollowOf(g)
      BY <1>1, <1>5 DEF Read
    <2>2. CASE g = job[a].guild
      BY <1>5, <2>1, <2>2, FollowRead
    <2>3. CASE g # job[a].guild
      <3>1. /\ job'[a].guild = job[a].guild /\ \A b \in Actors \ {a} : job'[b] = job[b]
        BY <1>5, ReadFields
      <3>2. Waits(g)' = Waits(g) /\ flags' = flags /\ config' = config
        BY <1>5 DEF Read, Waits, sets
      <3>3. \A p \in Plugins : ~Pends(a, g, p)
        BY <2>3 DEF Pends
      <3> QED BY <2>1, <2>3, <3>1, <3>2, <3>3, FollowOthers
    <2> QED BY <2>2, <2>3
  <1>6. ASSUME NEW a \in Actors, Add(a) PROVE FollowOf(g)'
    <2>1. FollowOf(g)
      BY <1>1, <1>6 DEF Add
    <2>2. CASE g = job[a].guild
      BY <1>6, <2>1, <2>2, FollowAdd
    <2>3. CASE g # job[a].guild
      <3>1. /\ job'[a].guild = job[a].guild /\ \A b \in Actors \ {a} : job'[b] = job[b]
        BY <1>6, AddFields
      <3>2. Waits(g)' = Waits(g) /\ flags'[g] = flags[g] /\ config' = config
        BY <1>6, <2>3 DEF Add, Waits, sets, Shapes
      <3>3. \A p \in Plugins : ~Pends(a, g, p)
        BY <2>3 DEF Pends
      <3> QED BY <2>1, <2>3, <3>1, <3>2, <3>3, FollowOthers
    <2> QED BY <2>2, <2>3
  <1>7. ASSUME NEW a \in Actors, Remove(a) PROVE FollowOf(g)'
    <2>1. FollowOf(g)
      BY <1>1, <1>7 DEF Remove
    <2>2. CASE g = job[a].guild
      BY <1>7, <2>1, <2>2, FollowRemove
    <2>3. CASE g # job[a].guild
      <3>1. /\ job'[a].guild = job[a].guild /\ \A b \in Actors \ {a} : job'[b] = job[b]
        <4>1. job[a].at \in Busy /\ job' = [job EXCEPT ![a] = PluginDone(job[a], FALSE)]
          BY <1>7 DEF Remove, Busy
        <4> QED BY <4>1, DoneFields
      <3>2. Waits(g)' = Waits(g) /\ flags'[g] = flags[g] /\ config' = config
        BY <1>7, <2>3 DEF Remove, Waits, sets, Shapes
      <3>3. \A p \in Plugins : ~Pends(a, g, p)
        BY <2>3 DEF Pends
      <3> QED BY <2>1, <2>3, <3>1, <3>2, <3>3, FollowOthers
    <2> QED BY <2>2, <2>3
  <1>8. ASSUME NEW a \in Actors, UpdateFails(a) PROVE FollowOf(g)'
    <2>1. /\ job[a].at \in Busy /\ job' = [job EXCEPT ![a] = PluginDone(job[a], TRUE)]
          /\ UNCHANGED <<config, flags, sets, initialized>>
          /\ excused' = excused \cup IF a = Worker THEN {} ELSE {job[a].guild}
      BY <1>8 DEF UpdateFails, Busy
    <2>2. /\ job'[a].guild = job[a].guild /\ \A b \in Actors \ {a} : job'[b] = job[b]
          /\ job'[a].at \in {"publish", "read"} /\ job'[a].failed
      BY <2>1, DoneFields
    <2>3. Waits(g)' = Waits(g)
      BY <2>1 DEF Waits, sets
    <2>4. \A p \in Plugins : Pends(a, g, p) => Pends(a, g, p)'
      BY <2>2 DEF Pends
    <2>5. FollowOf(g)
      BY <1>1, <2>1
    <2> QED BY <2>1, <2>2, <2>3, <2>4, <2>5, FollowOthers
  <1>9. ASSUME NEW w \in Web, PublishWeb(w) PROVE FollowOf(g)'
    <2>1. /\ job' = [job EXCEPT ![w] = [job[w] EXCEPT !.at = "evict"]] /\ job[w].at = "publish"
          /\ UNCHANGED <<config, flags, sets, initialized, excused>> /\ job[w] \in Jobs
      BY <1>0, <1>9 DEF PublishWeb, Shapes, JobShapes
    <2>2. /\ job'[w] = [job[w] EXCEPT !.at = "evict"]
          /\ \A b \in Actors \ {w} : job'[b] = job[b]
      BY <1>0, <2>1 DEF Shapes, JobShapes
    <2>3. job'[w].at = "evict"
      BY <2>1, <2>2 DEF Jobs
    <2>4. FollowOf(g) /\ g \notin excused
      BY <1>1, <2>1
    <2>5. \A p \in Plugins : ~Pends(w, g, p)
      BY <1>0, <2>1, <2>4 DEF Pends, JobInv, JobOf, Busy
    <2>6. Waits(g)' = Waits(g)
      BY <2>1 DEF Waits, sets
    <2> QED BY <1>0, <2>1, <2>2, <2>3, <2>4, <2>5, <2>6, FollowOthers
  <1>10. CASE StartWorker \/ Initialized
    <2>1. PICK s \in {"idle", "init"} : job' = [job EXCEPT ![Worker] = [job[Worker] EXCEPT !.at = s]]
      BY <1>0, <1>10 DEF StartWorker, Initialized, Shapes, JobShapes
    <2>2. /\ job'[Worker].at = s /\ \A b \in Actors \ {Worker} : job'[b] = job[b]
      BY <1>0, <2>1 DEF Shapes, JobShapes, Jobs
    <2>3. /\ job[Worker].at \in {"down", "init"}
          /\ UNCHANGED <<config, flags, high, popped, remark, excused>>
          /\ low \subseteq low' \/ low' = Guilds
          /\ initialized' = initialized \/ (initialized' = TRUE /\ low' = Guilds)
      <3>1. CASE StartWorker
        BY <3>1 DEF StartWorker
      <3>2. CASE Initialized
        BY <3>2 DEF Initialized, sets, JobInv
      <3> QED BY <1>10, <3>1, <3>2
    <2>4. Waits(g) => Waits(g)'
      BY <2>3 DEF Waits
    <2>5. FollowOf(g)
      BY <1>1, <2>3
    <2>6. \A p \in Plugins : ~Pends(Worker, g, p)
      BY <1>0, <2>3 DEF Pends, JobInv, JobOf, Busy, Updating
    <2> QED BY <1>0, <2>2, <2>3, <2>4, <2>5, <2>6, FollowOthers
  <1>11. ASSUME NEW gw \in Guilds, job' = [job EXCEPT ![Worker] = Begin(gw)],
                UNCHANGED <<config, flags, initialized, excused>>,
                Waits(g) => Waits(g)' \/ g = gw,
                \A p \in Plugins : Pends(Worker, g, p) => Waits(g)'
         PROVE  FollowOf(g)'
    <2>1. job'[Worker] = Begin(gw) /\ \A b \in Actors \ {Worker} : job'[b] = job[b]
      BY <1>0, <1>11 DEF Shapes, JobShapes
    <2>2. job'[Worker].at = "read" /\ job'[Worker].guild = gw /\ job'[Worker].todo = Plugins
      BY <2>1, IdleFields
    <2>3. g = gw => \A p \in Plugins : Pends(Worker, g, p)'
      BY <2>2 DEF Pends, Busy
    <2>4. FollowOf(g)
      BY <1>1, <1>11
    <2> QED BY <1>0, <1>11, <2>1, <2>2, <2>3, <2>4, FollowOthers
  <1>12. CASE PopHigh \/ PopLow \/ PopFails
    <2>1. /\ job[Worker].at \in {"idle", "low"}
          /\ UNCHANGED <<config, flags, remark, initialized>>
      BY <1>12, Popping
    <2>2. popped = {} /\ \A p \in Plugins : ~Pends(Worker, g, p)
      BY <1>0, <2>1 DEF Pends, JobInv, JobOf, Busy, Updating
    <2>3. ASSUME NEW gw \in Guilds, Taken(gw) PROVE FollowOf(g)'
      <3>1. Waits(g) => Waits(g)' \/ g = gw
        BY <2>1, <2>2, <2>3 DEF Waits, Taken
      <3> QED BY <1>11, <2>1, <2>2, <2>3, <3>1 DEF Taken
    <2>4. ASSUME NEW j \in Jobs, j.at \in {"idle", "low"}, Rests(j) PROVE FollowOf(g)'
      <3>1. job'[Worker] = j /\ \A b \in Actors \ {Worker} : job'[b] = job[b]
        BY <1>0, <2>4 DEF Rests, Shapes, JobShapes
      <3>2. g \notin high \ high' /\ g \notin low \ low' /\ FollowOf(g)
        BY <1>1, <2>4 DEF Rests
      <3>3. Waits(g) => Waits(g)'
        BY <2>1, <2>4, <3>2 DEF Waits, Rests
      <3> QED BY <1>0, <2>1, <2>2, <2>4, <3>1, <3>2, <3>3, FollowOthers
    <2> QED BY <1>12, <2>3, <2>4, Popping
  <1>13. CASE PublishWorker
    <2>1. /\ job[Worker].at = "publish" /\ remark' = remark \cup MarkedAgain(job[Worker])
          /\ UNCHANGED <<config, flags, high, low, initialized>>
      BY <1>13 DEF PublishWorker
    <2>2. \A p \in Plugins : Pends(Worker, g, p) => Waits(g)'
      BY <2>1 DEF Pends, Waits, MarkedAgain, Busy
    <2>3. CASE /\ popped' = {} /\ job' = [job EXCEPT ![Worker] = Idle]
               /\ excused' = excused \cup popped
      <3>1. job'[Worker] = Idle /\ \A b \in Actors \ {Worker} : job'[b] = job[b]
        BY <1>0, <2>3 DEF Shapes, JobShapes
      <3>2. FollowOf(g) /\ g \notin popped
        BY <1>1, <2>3
      <3>3. Waits(g) => Waits(g)'
        BY <2>1, <3>2 DEF Waits
      <3> QED BY <1>0, <2>1, <2>2, <3>1, <3>2, <3>3, IdleFields, FollowOthers
    <2>4. CASE /\ \E gw \in popped :
                    popped' = popped \ {gw} /\ job' = [job EXCEPT ![Worker] = Begin(gw)]
               /\ excused' = excused
      <3>1. PICK gw \in popped :
              popped' = popped \ {gw} /\ job' = [job EXCEPT ![Worker] = Begin(gw)]
        BY <2>4
      <3>2. gw \in Guilds
        BY DEF Shapes
      <3>3. Waits(g) => Waits(g)' \/ g = gw
        BY <2>1, <3>1 DEF Waits
      <3> QED BY <1>11, <2>1, <2>2, <2>4, <3>1, <3>2, <3>3
    <2> QED BY <1>13, <2>3, <2>4 DEF PublishWorker
  <1>14. ASSUME UNCHANGED <<config, flags, job, excused>>, Waits(g) => Waits(g)'
         PROVE  FollowOf(g)'
    <2>1. FollowOf(g)
      BY <1>1, <1>14
    <2>2. \A p \in Plugins : Pends(Worker, g, p) => Pends(Worker, g, p)'
      BY <1>14 DEF Pends
    <2>3. \A a \in Actors, p \in Plugins : Pends(a, g, p) => Pends(a, g, p)'
      BY <1>14 DEF Pends
    <2> QED BY <1>14, <2>1, <2>3, FollowKept
  <1>15. ASSUME NEW gr \in Guilds, Remark(gr) PROVE FollowOf(g)'
    BY <1>14, <1>15 DEF Remark, Waits
  <1>16. ASSUME NEW p \in Procs, NEW gf \in Guilds, Fetch(p, gf) \/ Fetched(p, gf)
         PROVE  FollowOf(g)'
    BY <1>14, <1>16 DEF Fetch, Fetched, Waits, sets
  <1>17. ASSUME NEW p \in Procs, HandleEvict(p) PROVE FollowOf(g)'
    BY <1>14, <1>17 DEF HandleEvict, Waits, sets
  <1>18. ASSUME NEW p \in Procs, Crash(p) PROVE FollowOf(g)'
    <2> DEFINE dead == {a \in Actors : ProcOf[a] = p}
               lost == {job[a].guild : a \in {b \in dead : job[b].at \in {"mark", "read", "add", "remove"}}}
               half == {job[a].guild : a \in {b \in dead : job[b].at = "publish" /\ job[b].failed}}
               held == IF Worker \in dead THEN popped \cup remark ELSE {}
    <2>1. /\ \A a \in Actors : job'[a] = IF a \notin dead THEN job[a]
                                 ELSE IF a = Worker THEN [Idle EXCEPT !.at = "down"] ELSE Idle
          /\ excused' = excused \cup (lost \cup half \cup held)
          /\ popped' = IF Worker \in dead THEN {} ELSE popped
          /\ remark' = IF Worker \in dead THEN {} ELSE remark
          /\ UNCHANGED <<config, flags, high, low, initialized>>
      BY <1>18 DEF Crash
    <2>2. /\ FollowOf(g) /\ g \notin excused
      BY <1>1, <2>1
    <2>3. Waits(g) => Waits(g)'
      BY <2>1 DEF Waits
    <2>4. ASSUME NEW a \in Actors, NEW q \in Plugins, Pends(a, g, q) PROVE Pends(a, g, q)'
      <3>1. CASE a \notin dead
        BY <2>1, <2>4, <3>1 DEF Pends
      <3>2. CASE a \in dead
        <4>1. g \notin lost /\ g \notin half
          BY <2>1
        <4>2. job[a].guild = g /\ job[a].at \notin {"mark", "read", "add", "remove"}
          BY <2>4, <3>2, <4>1 DEF Pends
        <4>3. job[a].failed /\ job[a].at # "publish"
          BY <2>4, <3>2, <4>1, <4>2 DEF Pends, Busy
        <4> QED BY <2>2, <4>2, <4>3 DEF JobInv, JobOf, Updating
      <3> QED BY <3>1, <3>2
    <2>5. ASSUME NEW a \in Actors, job'[a].at \in {"add", "remove"} PROVE job'[a] = job[a]
      <3>1. [Idle EXCEPT !.at = "down"].at = "down" /\ Idle.at = "idle"
        BY DEF Idle
      <3> QED BY <2>1, <2>5, <3>1
    <2> HIDE DEF dead, lost, half, held
    <2> QED BY <2>1, <2>2, <2>3, <2>4, <2>5, FollowKept
  <1>19. CASE UNCHANGED vars
    BY <1>14, <1>19 DEF vars, Waits, sets
  <1>20. CASE Next
    BY <1>2, <1>3, <1>4, <1>5, <1>6, <1>7, <1>8, <1>9, <1>10, <1>12, <1>13, <1>15, <1>16, <1>17,
       <1>18, <1>20, FlagsAssumption, ActorsHere
    DEF Next, WebStep, WorkerStep, Update, CacheStep
  <1> QED BY <1>19, <1>20

(* The flags of a guild that nobody has to update any more are those that the
   settings ask for, with any plugins, requests, processes and crashes, but for
   the guilds whose update was given up or raced with another.              *)
THEOREM FlagsFollow == Spec => []FlagsFollowSettings
  <1>1. Init => JobInv /\ FollowInv
    <2> SUFFICES ASSUME Init PROVE FollowInv
      BY InitJobInv
    <2>1. \A a \in Actors : job[a].at \in {"idle", "down"}
      BY DEF Init, Idle
    <2>2. ~initialized
      BY DEF Init
    <2> QED BY <2>1, <2>2 DEF FollowInv, FollowOf, Pending, Waits, Writes
  <1>2. /\ Shapes /\ JobInv /\ FollowInv /\ [Next]_vars => JobInv' /\ FollowInv'
    BY JobInvStep, FollowStep
  <1>3. Shapes /\ JobInv /\ FollowInv => FlagsFollowSettings
    <2> SUFFICES ASSUME Shapes, JobInv, FollowInv, NEW g \in Guilds, g \notin excused, ~Due(g)
                 PROVE  flags[g] = config[g]
      BY DEF FlagsFollowSettings
    <2>1. ASSUME NEW p \in Plugins PROVE Agree(g, p)
      <3>1. ~Pending(g, p)
        BY DEF Due, Pending, Waits, Pends, Busy
      <3> QED BY <3>1 DEF FollowInv, FollowOf
    <2>2. flags[g] \subseteq Flags /\ config[g] \subseteq Flags
      BY DEF Shapes
    <2>3. ASSUME NEW f \in Flags PROVE f \in flags[g] <=> f \in config[g]
      <3>1. PICK p \in Plugins : f \in FlagsOf[p]
        BY DEF Flags
      <3> QED BY <2>1, <3>1 DEF Agree
    <2> QED BY <2>2, <2>3
  <1> QED BY <1>1, <1>2, <1>3, ShapesInvariant, PTL DEF Spec

-----------------------------------------------------------------------------
(* Types.                                                                   *)

Counters ==
  /\ initialized \in BOOLEAN /\ excused \subseteq Guilds
  /\ changes \in 0..MaxChanges /\ troubles \in 0..MaxTroubles /\ fetches \in 0..MaxFetches

LEMMA TroubleTyped ==
  ASSUME Counters, Trouble
  PROVE  UNCHANGED <<changes, fetches>> /\ troubles' \in 0..MaxTroubles
  BY FlagsAssumption DEF Trouble, Counters

LEMMA CountersStep == Shapes /\ Counters /\ [Next]_vars => Counters'
  <1> SUFFICES ASSUME Shapes, Counters, [Next]_vars PROVE Counters'
    OBVIOUS
  <1>1. ASSUME NEW w \in Web, NEW g \in Guilds, NEW p \in Plugins,
               SaveAndUpdate(w, g, p) \/ SaveAndMark(w, g, p)
        PROVE  Counters'
    <2>1. PICK j : Saved(w, g, p, j)
      BY <1>1 DEF SaveAndUpdate, SaveAndMark
    <2>2. changes' \in 0..MaxChanges /\ UNCHANGED <<initialized, excused, troubles, fetches>>
      BY <2>1, FlagsAssumption DEF Saved, Counters
    <2> QED BY <2>2 DEF Counters
  <1>2. ASSUME NEW w \in Web, MarkDirty(w) \/ EvictHere(w) PROVE Counters'
    BY <1>2 DEF MarkDirty, EvictHere, bounds, Counters
  <1>3. ASSUME NEW a \in Actors, Read(a) \/ Add(a) \/ Remove(a) PROVE Counters'
    <2>1. job[a].guild \in Guilds
      BY <1>3 DEF Read, Add, Remove, Shapes, JobShapes, Updating
    <2> QED BY <1>3, <2>1 DEF Read, Add, Remove, bounds, Counters
  <1>4. ASSUME NEW a \in Actors, UpdateFails(a) PROVE Counters'
    <2>1. /\ job[a].guild \in Guilds /\ initialized' = initialized /\ Trouble
          /\ excused' = excused \cup IF a = Worker THEN {} ELSE {job[a].guild}
      BY <1>4 DEF UpdateFails, Shapes, JobShapes, Updating
    <2> QED BY <2>1, TroubleTyped DEF Counters
  <1>5. ASSUME NEW g \in Guilds, NEW got \in SUBSET Procs, Published(g, got),
               initialized' = initialized, excused' \subseteq Guilds
        PROVE  Counters'
    <2>1. UNCHANGED bounds \/ Trouble
      BY <1>5 DEF Published
    <2> QED BY <1>5, <2>1, TroubleTyped DEF bounds, Counters
  <1>6. ASSUME NEW w \in Web, PublishWeb(w) PROVE Counters'
    <2>1. job[w].guild \in Guilds /\ excused' = excused /\ initialized' = initialized
      BY <1>6, ActorsHere DEF PublishWeb, Shapes, JobShapes, Updating
    <2> QED BY <1>5, <1>6, <2>1 DEF PublishWeb, Counters
  <1>7. CASE PublishWorker
    <2>1. job[Worker].guild \in Guilds /\ excused' \subseteq Guilds /\ initialized' = initialized
      BY <1>7, ActorsHere DEF PublishWorker, Shapes, JobShapes, Updating, Counters
    <2> QED BY <1>5, <1>7, <2>1 DEF PublishWorker
  <1>8. CASE StartWorker \/ Initialized \/ PopHigh \/ PopLow \/ PopFails
    <2>1. CASE StartWorker \/ Initialized \/ PopHigh \/ PopLow
      BY <2>1 DEF StartWorker, Initialized, PopHigh, PopLow, bounds, Counters
    <2>2. CASE PopFails
      BY <2>2, TroubleTyped DEF PopFails, Shapes, Counters
    <2> QED BY <1>8, <2>1, <2>2
  <1>9. ASSUME NEW g \in Guilds, Remark(g) PROVE Counters'
    BY <1>9 DEF Remark, bounds, Counters
  <1>10. ASSUME NEW p \in Procs, NEW g \in Guilds, Fetch(p, g) \/ Fetched(p, g) PROVE Counters'
    <2>1. CASE Fetch(p, g)
      BY <2>1, FlagsAssumption DEF Fetch, Counters
    <2>2. CASE Fetched(p, g)
      BY <2>2 DEF Fetched, bounds, Counters
    <2> QED BY <1>10, <2>1, <2>2
  <1>11. ASSUME NEW p \in Procs, HandleEvict(p) PROVE Counters'
    BY <1>11 DEF HandleEvict, bounds, Counters
  <1>12. ASSUME NEW p \in Procs, Crash(p) PROVE Counters'
    <2> DEFINE dead == {a \in Actors : ProcOf[a] = p}
               lost == {job[a].guild : a \in {b \in dead : job[b].at \in {"mark", "read", "add", "remove"}}}
               half == {job[a].guild : a \in {b \in dead : job[b].at = "publish" /\ job[b].failed}}
               held == IF Worker \in dead THEN popped \cup remark ELSE {}
    <2>1. /\ excused' = excused \cup (lost \cup half \cup held)
          /\ Trouble /\ initialized' = initialized
      BY <1>12 DEF Crash
    <2>2. lost \subseteq Guilds /\ half \subseteq Guilds /\ held \subseteq Guilds
      BY DEF Shapes, JobShapes, Updating
    <2> HIDE DEF lost, half, held
    <2> QED BY <2>1, <2>2, TroubleTyped DEF Counters
  <1>13. CASE UNCHANGED vars
    BY <1>13 DEF vars, bounds, Counters
  <1>14. CASE Next
    BY <1>1, <1>2, <1>3, <1>4, <1>6, <1>7, <1>8, <1>9, <1>10, <1>11, <1>12, <1>14,
       FlagsAssumption, ActorsHere
    DEF Next, WebStep, WorkerStep, Update, CacheStep
  <1> QED BY <1>13, <1>14

(* Type correctness of the flags, the jobs and the caches.                  *)
THEOREM Typing == Spec => []TypeOK
  <1>1. Init => Counters
    <2>1. /\ 0 \in 0..MaxChanges /\ 0 \in 0..MaxTroubles /\ 0 \in 0..MaxFetches
      BY FlagsAssumption
    <2> QED BY <2>1 DEF Init, Counters
  <1>2. Shapes /\ JobInv /\ Counters => TypeOK
    <2> SUFFICES ASSUME Shapes, JobInv, Counters PROVE TypeOK
      OBVIOUS
    <2>1. \A a \in Actors : job[a].at \in {"read", "add", "remove"} => job[a].todo # {}
      BY DEF JobInv, JobOf, Busy
    <2>2. /\ job \in [Actors -> Jobs]
          /\ \A a \in Actors : job[a].at \in Updating \cup {"mark", "evict"} => job[a].guild \in Guilds
      BY DEF Shapes, JobShapes
    <2>3. /\ cache \in [Procs -> [Guilds -> Copies]] /\ fetch \in [Procs -> [Guilds -> Copies]]
          /\ inbox \in [Procs -> Seq(Guilds)] /\ missed \in [Procs -> SUBSET Guilds]
      BY DEF Shapes, CacheShapes
    <2> QED BY <2>1, <2>2, <2>3 DEF Shapes, Counters, TypeOK
  <1> QED BY <1>1, <1>2, InitJobInv, CountersStep, JobInvStep, ShapesInvariant, PTL DEF Spec
=============================================================================
