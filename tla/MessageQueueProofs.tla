-------------------------- MODULE MessageQueueProofs --------------------------
(***************************************************************************)
(* Proofs about the message queue, for any messages, processes and number  *)
(* of troubles.                                                            *)
(***************************************************************************)
EXTENDS MessageQueue, FiniteSetTheorems, TLAPS

(* What a goroutine has ended with Discord has got, or has refused.         *)
DoneInv ==
  \A p \in Procs, i \in Items : active[p][i] = "done" => sends[i] > 0 \/ i \in refused

(* Nobody works on a message that was never queued.                         *)
ActiveInv == \A p \in Procs, i \in Items : active[p][i] # "idle" => i \in created

QueueInv == TypeOK /\ DoneInv /\ ActiveInv /\ NothingIsDropped /\ WorkGoesOn

(* What checkRunNextWork does to the work of its process: it starts one of
   the messages or none, and none only if something is being sent or nothing
   is to be.                                                                *)
LEMMA RunNextStarts ==
  ASSUME TypeOK, NEW p \in Procs, NEW loc \in SUBSET Items,
         NEW act \in [Items -> Stages], RunNext(p, loc, act)
  PROVE  /\ active' \in [Procs -> [Items -> Stages]]
         /\ \A q \in Procs \ {p} : active'[q] = active[q]
         /\ \A i \in Items : \/ active'[p][i] = act[i]
                             \/ active'[p][i] = "sending" /\ act[i] = "idle" /\ i \in loc
         /\ loc # {} => Busy(active'[p]) # {}
<1>1. CASE active' = [active EXCEPT ![p] = act]
           /\ (Cardinality(Busy(act)) >= MaxSends \/ Free(loc, act) = {})
  <2>1. active'[p] = act
    BY <1>1 DEF TypeOK
  <2>2. ASSUME loc # {}, Busy(act) = {} PROVE FALSE
    <3>1. Free(loc, act) = loc
      BY <2>2 DEF Free
    <3>2. Cardinality(Busy(act)) = 0
      BY <2>2, FS_EmptySet
    <3> QED BY <1>1, <2>2, <3>1, <3>2, QueueAssumption
  <2> QED BY <1>1, <2>1, <2>2 DEF TypeOK
<1>2. CASE \E i \in Free(loc, act) :
             active' = [active EXCEPT ![p] = [act EXCEPT ![i] = "sending"]]
  <2>1. PICK i \in Free(loc, act) :
          active' = [active EXCEPT ![p] = [act EXCEPT ![i] = "sending"]]
    BY <1>2
  <2>2. i \in Items /\ i \in loc /\ act[i] = "idle"
    BY DEF Free, Busy
  <2>3. active'[p] = [act EXCEPT ![i] = "sending"]
    BY <2>1 DEF TypeOK
  <2>4. i \in Busy(active'[p])
    BY <2>2, <2>3 DEF Busy
  <2>5. [act EXCEPT ![i] = "sending"] \in [Items -> Stages]
    BY <2>2 DEF Stages
  <2> QED BY <2>1, <2>2, <2>3, <2>4, <2>5 DEF TypeOK
<1> QED BY <1>1, <1>2 DEF RunNext

LEMMA InitQueueInv == Init => QueueInv
  <1> SUFFICES ASSUME Init PROVE QueueInv
    OBVIOUS
  <1>1. Idle \in [Items -> Stages]
    BY DEF Idle, Stages
  <1>2. TypeOK
    <2>1. active \in [Procs -> [Items -> Stages]]
      BY <1>1 DEF Init
    <2>2. /\ sends \in [Items -> Nat] /\ present \in [Procs -> BOOLEAN]
          /\ \A p \in Procs : ~present[p] => total[p] = {}
      BY DEF Init
    <2>3. /\ refresh \in [Procs -> SUBSET BOOLEAN] /\ inbox \in [Procs -> SUBSET created]
          /\ total \in [Procs -> SUBSET created] /\ local \in [Procs -> SUBSET created]
      BY DEF Init
    <2>4. excuses \in Nat /\ troubles \in 0 .. MaxTroubles
      BY QueueAssumption DEF Init
    <2>5. lost \in BOOLEAN /\ kept \subseteq created
      BY DEF Init
    <2> QED BY <2>1, <2>2, <2>3, <2>4, <2>5 DEF Init, TypeOK
  <1>3. DoneInv /\ ActiveInv /\ NothingIsDropped /\ WorkGoesOn
    BY DEF Init, DoneInv, ActiveInv, NothingIsDropped, WorkGoesOn, Idle
  <1> QED BY <1>2, <1>3 DEF QueueInv

LEMMA QueueStep == QueueInv /\ [Next]_vars => QueueInv'
  <1> SUFFICES ASSUME QueueInv, [Next]_vars PROVE QueueInv'
    OBVIOUS
  <1> USE DEF QueueInv
  <1>1. ASSUME NEW i \in Items, AppendItem(i) \/ Publish(i) PROVE QueueInv'
    <2>1. TypeOK'
      BY SMTT(30), <1>1 DEF AppendItem, Publish, TypeOK, cache, counters
    <2>2. DoneInv' /\ ActiveInv' /\ NothingIsDropped' /\ WorkGoesOn'
      BY <1>1 DEF TypeOK, AppendItem, Publish, DoneInv, ActiveInv, NothingIsDropped, WorkGoesOn, Busy,
                  cache, counters
    <2> QED BY <2>1, <2>2
  <1>2. ASSUME NEW p \in Procs, NEW i \in Items, AddWork(p, i) PROVE QueueInv'
    <2>1. CASE home = p /\ i \notin local[p]
      <3>1. local' = [local EXCEPT ![p] = @ \cup {i}] /\ RunNext(p, local'[p], active[p])
        BY <1>2, <2>1 DEF AddWork
      <3>2. local'[p] \in SUBSET Items /\ active[p] \in [Items -> Stages]
        BY <3>1 DEF TypeOK
      <3>3. /\ active' \in [Procs -> [Items -> Stages]]
            /\ \A q \in Procs \ {p} : active'[q] = active[q]
            /\ \A j \in Items : \/ active'[p][j] = active[p][j]
                                \/ active'[p][j] = "sending" /\ active[p][j] = "idle" /\ j \in local'[p]
            /\ local'[p] # {} => Busy(active'[p]) # {}
        BY <3>1, <3>2, RunNextStarts
      <3>4. /\ i \in inbox[p] /\ inbox' = [inbox EXCEPT ![p] = @ \ {i}] /\ total' = total
            /\ UNCHANGED <<redis, home, up, refresh, present, created, sends, refused, counters>>
        BY <1>2, <2>1 DEF AddWork
      <3>5. local' \in [Procs -> SUBSET created']
        BY <3>1, <3>4 DEF TypeOK
      <3>6. TypeOK'
        BY ZenonT(60), <3>3, <3>4, <3>5 DEF TypeOK, redis, counters
      <3>7. DoneInv'
        BY ZenonT(60), <3>3, <3>4 DEF DoneInv, TypeOK
      <3>8. NothingIsDropped'
        BY <3>4 DEF NothingIsDropped, redis, counters
      <3>9. WorkGoesOn'
        BY ZenonT(60), <3>1, <3>3 DEF WorkGoesOn, TypeOK
      <3>10. ActiveInv'
        BY <3>3, <3>4, <3>5 DEF ActiveInv
      <3> QED BY <3>6, <3>7, <3>8, <3>9, <3>10
    <2>2. CASE ~(home = p /\ i \notin local[p])
      <3>1. UNCHANGED <<local, active>> /\ total' \in {total, [total EXCEPT ![p] = Tracked(p, i)]}
        BY <1>2, <2>2 DEF AddWork
      <3>2. TypeOK'
        <4>1. /\ i \in inbox[p] /\ inbox' = [inbox EXCEPT ![p] = @ \ {i}]
              /\ UNCHANGED <<redis, home, up, refresh, present, created, sends, refused, counters>>
          BY <1>2 DEF AddWork
        <4>2. /\ total' \in [Procs -> SUBSET created]
              /\ \A q \in Procs : ~present[q] => total'[q] = {}
          <5>1. /\ total \in [Procs -> SUBSET created]
                /\ \A q \in Procs : ~present[q] => total[q] = {}
                /\ i \in created
            BY <4>1 DEF TypeOK
          <5>2. CASE present[p]
            BY <3>1, <5>1, <5>2 DEF Tracked
          <5>3. CASE ~present[p]
            BY <3>1, <5>1, <5>3 DEF Tracked
          <5> QED BY <5>2, <5>3
        <4> QED BY <3>1, <4>1, <4>2 DEF TypeOK, redis, counters
      <3>3. UNCHANGED <<queue, created, kept, sends, refused, local, active>>
        BY <1>2, <3>1 DEF AddWork, redis, counters
      <3>4. DoneInv' /\ ActiveInv' /\ NothingIsDropped' /\ WorkGoesOn'
        BY <3>3 DEF DoneInv, ActiveInv, NothingIsDropped, WorkGoesOn, Busy
      <3> QED BY <3>2, <3>4
    <2> QED BY <2>1, <2>2
  <1>3. ASSUME NEW p \in Procs, NEW force \in BOOLEAN, DoRefreshWork(p, force)
        PROVE  QueueInv'
    <2>1. /\ local' = [local EXCEPT ![p] = IF home = p THEN @ \cup total'[p] ELSE @]
          /\ RunNext(p, local'[p], active[p])
      BY <1>3 DEF DoRefreshWork, RefreshLocal
    <2>2. total' \in [Procs -> SUBSET created] /\ created' = created
      BY <1>3 DEF DoRefreshWork, TypeOK
    <2>3. local' \in [Procs -> SUBSET created] /\ active[p] \in [Items -> Stages]
      BY <2>1, <2>2 DEF TypeOK
    <2>4. /\ active' \in [Procs -> [Items -> Stages]]
          /\ \A q \in Procs \ {p} : active'[q] = active[q]
          /\ \A j \in Items : \/ active'[p][j] = active[p][j]
                              \/ active'[p][j] = "sending" /\ active[p][j] = "idle" /\ j \in local'[p]
          /\ local'[p] # {} => Busy(active'[p]) # {}
      <3>1. local'[p] \in SUBSET Items /\ created \subseteq Items
        BY <2>3, <2>2 DEF TypeOK
      <3>2. RunNext(p, local'[p], active[p])
        BY <2>1
      <3>3. TypeOK /\ active[p] \in [Items -> Stages]
        BY <2>3
      <3> QED BY <3>1, <3>2, <3>3, RunNextStarts
    <2>5. TypeOK'
      BY <1>3, <2>2, <2>3, <2>4 DEF DoRefreshWork, TypeOK, redis
    <2>6. DoneInv' /\ NothingIsDropped'
      BY <1>3, <2>4 DEF DoRefreshWork, DoneInv, NothingIsDropped, redis, TypeOK
    <2>7. WorkGoesOn'
      BY <2>1, <2>4 DEF WorkGoesOn, TypeOK
    <2>8. ActiveInv'
      BY SMTT(30), <2>2, <2>3, <2>4 DEF ActiveInv, TypeOK
    <2> QED BY <2>5, <2>6, <2>7, <2>8
  <1>4. ASSUME NEW p \in Procs, NEW i \in Items, Finish(p, i) PROVE QueueInv'
    <2> DEFINE act == [active[p] EXCEPT ![i] = "idle"]
    <2>1. act \in [Items -> Stages]
      BY DEF TypeOK, Stages
    <2>2. RunNext(p, local'[p], act) /\ local' \in {local, [local EXCEPT ![p] = @ \ {i}]}
      BY <1>4 DEF Finish, FinishWork, DelItemFails, Forget, FinishRetry, Unlisted
    <2>3. local' \in [Procs -> SUBSET created] /\ local'[p] \in SUBSET Items
      BY <2>2 DEF TypeOK
    <2>4. /\ active' \in [Procs -> [Items -> Stages]]
          /\ \A q \in Procs \ {p} : active'[q] = active[q]
          /\ \A j \in Items : \/ active'[p][j] = act[j]
                              \/ active'[p][j] = "sending" /\ act[j] = "idle" /\ j \in local'[p]
          /\ local'[p] # {} => Busy(active'[p]) # {}
      <3>1. TypeOK /\ RunNext(p, local'[p], act) /\ local'[p] \in SUBSET Items
        BY <2>2, <2>3
      <3> HIDE DEF act
      <3> QED BY <2>1, <3>1, RunNextStarts
    <2>5. TypeOK'
      <3>1. CASE FinishWork(p, i)
        BY <2>3, <2>4, <3>1 DEF FinishWork, Forget, TypeOK, counters
      <3>3. CASE DelItemFails(p, i)
        <4>1. i \in created
          BY <3>3 DEF DelItemFails, Forget, Over, ActiveInv
        <4>2. kept' \subseteq created /\ troubles' \in 0 .. MaxTroubles
          BY <3>3, <4>1, QueueAssumption DEF DelItemFails, Trouble, TypeOK
        <4>3. UNCHANGED <<queue, lost, excuses>> /\ Forget(p, i)
          BY <3>3 DEF DelItemFails
        <4> QED BY <2>3, <2>4, <4>2, <4>3 DEF Forget, TypeOK
      <3>2. CASE FinishRetry(p, i)
        BY <2>3, <2>4, <3>2 DEF FinishRetry, TypeOK, redis, cache, counters
      <3> QED BY <1>4, <3>1, <3>2, <3>3 DEF Finish
    <2>6. DoneInv'
      <3>1. sends' = sends /\ refused' = refused
        BY <1>4 DEF Finish, FinishWork, DelItemFails, Forget, FinishRetry, counters
      <3>2. ASSUME NEW q \in Procs, NEW j \in Items, active'[q][j] = "done"
            PROVE  active[q][j] = "done"
        BY ZenonT(60), <2>4, <3>2 DEF TypeOK
      <3> QED BY <3>1, <3>2 DEF DoneInv
    <2>7. NothingIsDropped'
      BY <1>4 DEF Finish, FinishWork, DelItemFails, Forget, FinishRetry, NothingIsDropped, DoneInv, Over,
                  redis, cache, counters
    <2>8. WorkGoesOn'
      BY ZenonT(60), <2>2, <2>4 DEF WorkGoesOn, TypeOK
    <2>9. ActiveInv'
      <3>1. created' = created
        BY <1>4 DEF Finish, FinishWork, DelItemFails, Forget, FinishRetry
      <3> QED BY SMTT(30), <2>3, <2>4, <3>1 DEF ActiveInv, TypeOK
    <2> QED BY <2>5, <2>6, <2>7, <2>8, <2>9
  <1>5. ASSUME NEW p \in Procs, NEW i \in Items,
               Sends(p, i) \/ Refuses(p, i) \/ Fails(p, i) \/ FailsAfterSend(p, i)
        PROVE  QueueInv'
    <2>1. PICK s \in {"done", "retry"} : active' = [active EXCEPT ![p][i] = s]
      BY <1>5 DEF Sends, Refuses, Fails, FailsAfterSend, Stage
    <2>2. active' \in [Procs -> [Items -> Stages]]
      BY <2>1 DEF TypeOK, Stages
    <2>3. UNCHANGED <<queue, unannounced, home, up, inbox, refresh, total, present, local,
                      created, lost, kept>>
      BY <1>5 DEF Sends, Refuses, Fails, FailsAfterSend, redis, cache, counters
    <2>4. active[p][i] = "sending"
      BY <1>5 DEF Sends, Refuses, Fails, FailsAfterSend
    <2>5. i \in created
      BY <2>4 DEF ActiveInv
    <2>6. /\ sends' \in {sends, [sends EXCEPT ![i] = @ + 1]}
          /\ refused' \in {refused, refused \cup {i}}
          /\ excuses' \in {excuses, excuses + 1}
          /\ troubles' = troubles \/ Trouble
          /\ s = "done" => sends' # sends \/ i \in refused'
      <3>1. CASE Sends(p, i)
        BY <3>1 DEF Sends, counters, TypeOK
      <3>2. CASE Refuses(p, i)
        BY <3>2 DEF Refuses, counters
      <3>3. ASSUME Fails(p, i) \/ FailsAfterSend(p, i) PROVE s # "done"
        <4>1. active' = [active EXCEPT ![p][i] = "retry"]
          BY <3>3 DEF Fails, FailsAfterSend, Stage
        <4> QED BY <2>1, <4>1 DEF TypeOK
      <3>4. CASE Fails(p, i)
        BY <3>3, <3>4 DEF Fails
      <3>5. CASE FailsAfterSend(p, i)
        BY <3>3, <3>5 DEF FailsAfterSend
      <3> QED BY <1>5, <3>1, <3>2, <3>4, <3>5
    <2>7. TypeOK'
      <3>1. /\ sends' \in [Items -> Nat] /\ refused' \subseteq created
            /\ excuses' \in Nat /\ troubles' \in 0 .. MaxTroubles
        BY <2>5, <2>6, QueueAssumption DEF TypeOK, Trouble
      <3> QED BY <2>2, <2>3, <3>1 DEF TypeOK
    <2>8. DoneInv'
      BY <2>1, <2>2, <2>6 DEF DoneInv, TypeOK
    <2>9. ActiveInv'
      BY <2>1, <2>3, <2>5 DEF ActiveInv, TypeOK
    <2>10. NothingIsDropped'
      BY <2>3, <2>6 DEF NothingIsDropped, TypeOK
    <2>11. WorkGoesOn'
      BY <2>1, <2>3 DEF WorkGoesOn, Busy, TypeOK
    <2> QED BY <2>7, <2>8, <2>9, <2>10, <2>11
  <1>6. ASSUME NEW p \in Procs,
               \/ ClearTotalWork(p) \/ Start(p) \/ ShardReady(p) \/ LoseInbox(p)
               \/ \E force \in BOOLEAN : RefreshFails(p, force)
        PROVE  QueueInv'
    <2>1. UNCHANGED <<queue, created, kept, sends, refused, local, active>>
      BY <1>6 DEF ClearTotalWork, Start, ShardReady, LoseInbox, RefreshFails, redis, counters
    <2>2. DoneInv' /\ ActiveInv' /\ NothingIsDropped' /\ WorkGoesOn'
      BY <2>1 DEF DoneInv, ActiveInv, NothingIsDropped, WorkGoesOn, Busy
    <2>3. ASSUME ClearTotalWork(p) \/ Start(p) PROVE TypeOK'
      <3>1. CASE ClearTotalWork(p)
        <4>1. /\ present' = [present EXCEPT ![p] = FALSE] /\ total' = [total EXCEPT ![p] = {}]
              /\ UNCHANGED <<redis, home, up, inbox, refresh, local, active, created, sends,
                            refused, counters>>
          BY <3>1 DEF ClearTotalWork
        <4>2. /\ present' \in [Procs -> BOOLEAN] /\ total' \in [Procs -> SUBSET created]
              /\ \A q \in Procs : ~present'[q] => total'[q] = {}
          BY <4>1 DEF TypeOK
        <4> QED BY <4>1, <4>2 DEF TypeOK, redis, counters
      <3>2. CASE Start(p)
        BY <3>2 DEF Start, TypeOK, redis, cache, counters
      <3> QED BY <2>3, <3>1, <3>2
    <2>4. ASSUME ShardReady(p) PROVE TypeOK'
      BY <2>4 DEF ShardReady, Asked, TypeOK, redis, cache, counters
    <2>5. ASSUME LoseInbox(p) \/ \E force \in BOOLEAN : RefreshFails(p, force)
          PROVE  TypeOK'
      <3>1. /\ UNCHANGED <<redis, home, up, cache, local, active, created, sends, refused, kept,
                         excuses>>
            /\ Trouble /\ lost' = TRUE
            /\ inbox' \in {inbox, [inbox EXCEPT ![p] = {}]}
            /\ refresh' = refresh \/ \E force \in BOOLEAN : refresh' = [refresh EXCEPT ![p] = @ \ {force}]
        BY <2>5 DEF LoseInbox, RefreshFails, Loses
      <3>2. troubles' \in 0 .. MaxTroubles
        BY <3>1, QueueAssumption DEF Trouble, TypeOK
      <3>3. inbox' \in [Procs -> SUBSET created] /\ refresh' \in [Procs -> SUBSET BOOLEAN]
        BY ZenonT(60), <3>1 DEF TypeOK
      <3> QED BY <3>1, <3>2, <3>3 DEF TypeOK, redis, cache
    <2> QED BY <1>6, <2>2, <2>3, <2>4, <2>5
  <1>7. ASSUME NEW i \in Items, PublishNever(i) PROVE QueueInv'
    <2>1. UNCHANGED <<queue, created, kept, sends, refused, local, active>>
      BY <1>7 DEF PublishNever
    <2>2. DoneInv' /\ ActiveInv' /\ NothingIsDropped' /\ WorkGoesOn'
      BY <2>1 DEF DoneInv, ActiveInv, NothingIsDropped, WorkGoesOn, Busy
    <2>3. TypeOK'
      BY <1>7, QueueAssumption DEF PublishNever, Loses, Trouble, TypeOK, cache
    <2> QED BY <2>2, <2>3
  <1>8. CASE ShardRemoved
    <2>1. UNCHANGED <<queue, created, kept, sends, refused, local, active>>
      BY <1>8 DEF ShardRemoved, redis
    <2>2. DoneInv' /\ ActiveInv' /\ NothingIsDropped' /\ WorkGoesOn'
      BY <2>1 DEF DoneInv, ActiveInv, NothingIsDropped, WorkGoesOn, Busy
    <2>3. TypeOK'
      BY <1>8, QueueAssumption DEF ShardRemoved, Trouble, TypeOK, redis, cache
    <2> QED BY <2>2, <2>3
  <1>9. ASSUME NEW p \in Procs, Ends(p) PROVE QueueInv'
    <2>1. /\ active' = [active EXCEPT ![p] = Idle] /\ local' = [local EXCEPT ![p] = {}]
          /\ UNCHANGED <<queue, created, kept, sends, refused>>
      BY <1>9 DEF Ends, redis
    <2>2. Idle \in [Items -> Stages] /\ \A i \in Items : Idle[i] = "idle"
      BY DEF Idle, Stages
    <2>3. active' \in [Procs -> [Items -> Stages]]
      BY <2>1, <2>2 DEF TypeOK
    <2>4. TypeOK'
      BY <1>9, <2>1, <2>3, QueueAssumption DEF Ends, Trouble, TypeOK, redis
    <2>5. DoneInv' /\ ActiveInv' /\ NothingIsDropped'
      BY <2>1, <2>2 DEF DoneInv, ActiveInv, NothingIsDropped, TypeOK
    <2>6. WorkGoesOn'
      BY <2>1 DEF WorkGoesOn, TypeOK
    <2> QED BY <2>4, <2>5, <2>6
  <1>10. CASE UNCHANGED vars
    <2>1. TypeOK'
      BY <1>10 DEF vars, redis, cache, counters, TypeOK
    <2>2. DoneInv' /\ ActiveInv' /\ NothingIsDropped' /\ WorkGoesOn'
      BY <1>10 DEF vars, redis, counters, DoneInv, ActiveInv, NothingIsDropped, WorkGoesOn, Busy
    <2> QED BY <2>1, <2>2
  <1>11. CASE Next
    BY <1>1, <1>2, <1>3, <1>4, <1>5, <1>6, <1>7, <1>8, <1>9, <1>11
    DEF Next, ServerStep, SendStep, Failure
  <1> QED BY <1>10, <1>11

LEMMA QueueInvariant == Spec => []QueueInv
  BY InitQueueInv, QueueStep, PTL DEF Spec

(* Type correctness of the queue, whatever is lost and fails.               *)
THEOREM Typing == Spec => []TypeOK
  <1>1. QueueInv => TypeOK
    BY DEF QueueInv
  <1> QED BY <1>1, QueueInvariant, PTL

(* No message leaves the queue (finishWork is the one that takes it out)
   before Discord has got it or refused it, with any number of processes and
   of failures.                                                             *)
THEOREM NoneDropped == Spec => []NothingIsDropped
  <1>1. QueueInv => NothingIsDropped
    BY DEF QueueInv
  <1> QED BY <1>1, QueueInvariant, PTL

(* A process with work is sending some of it: every handler that adds work or
   ends a send starts the next one.                                         *)
THEOREM WorkIsStarted == Spec => []WorkGoesOn
  <1>1. QueueInv => WorkGoesOn
    BY DEF QueueInv
  <1> QED BY <1>1, QueueInvariant, PTL
-----------------------------------------------------------------------------
(* How often Discord gets a message.                                       *)

(* What is being sent is on the list of the process until finishWork.       *)
ListedInv == \A p \in Procs, i \in Items : active[p][i] # "idle" => i \in local[p]

(* A message is announced once.                                             *)
AnnouncedOnce == \A p \in Procs : inbox[p] \cap unannounced = {}

\* The processes that will send i, without hearing of it again.
Holders(i) == {p \in Procs : i \in local[p] /\ active[p][i] # "done"}

\* An announcement of i can still make the shard's process send it.
Told(i) ==
  \/ i \notin created
  \/ i \in unannounced
  \/ home # NoProc /\ i \in inbox[home]
  \/ home = NoProc /\ \E p \in Procs : i \in inbox[p]

Chance(i) == IF Told(i) THEN 1 ELSE 0

(* The sends of a message, those to come from the processes that have it on
   their list, and one for its announcement, together are excused.          *)
SendsInv ==
  \A i \in Items :
    /\ IsFiniteSet(Holders(i))
    /\ sends[i] + Cardinality(Holders(i)) + Chance(i) <= 1 + excuses

(* One process more, at the most, is one send more.                         *)
LEMMA OneMore ==
  ASSUME NEW S, IsFiniteSet(S), NEW p, NEW T, T \subseteq S \cup {p}
  PROVE  /\ IsFiniteSet(T) /\ Cardinality(T) \in Nat /\ Cardinality(S) \in Nat
         /\ Cardinality(T) <= Cardinality(S) + 1
<1>1. IsFiniteSet(S \cup {p}) /\ Cardinality(S \cup {p}) <= Cardinality(S) + 1
  <2>1. Cardinality(S) \in Nat
    BY FS_CardinalityType
  <2>2. /\ IsFiniteSet(S \cup {p})
        /\ Cardinality(S \cup {p}) = IF p \in S THEN Cardinality(S) ELSE Cardinality(S) + 1
    BY FS_AddElement
  <2> QED BY <2>1, <2>2
<1>2. IsFiniteSet(T) /\ Cardinality(T) <= Cardinality(S \cup {p})
  BY <1>1, FS_Subset
<1> QED BY <1>1, <1>2, FS_CardinalityType

(* No process more is no send more.                                         *)
LEMMA NoneMore ==
  ASSUME NEW S, IsFiniteSet(S), NEW T, T \subseteq S
  PROVE  /\ IsFiniteSet(T) /\ Cardinality(T) \in Nat /\ Cardinality(S) \in Nat
         /\ Cardinality(T) <= Cardinality(S)
BY FS_Subset, FS_CardinalityType

(* A process that is done is one less.                                      *)
LEMMA OneLess ==
  ASSUME NEW S, IsFiniteSet(S), NEW p \in S, NEW T, T \subseteq S \ {p}
  PROVE  /\ IsFiniteSet(T) /\ Cardinality(T) \in Nat /\ Cardinality(S) \in Nat
         /\ Cardinality(T) + 1 <= Cardinality(S)
<1>1. IsFiniteSet(S \ {p}) /\ Cardinality(S \ {p}) = Cardinality(S) - 1
  BY FS_RemoveElement
<1>2. IsFiniteSet(T) /\ Cardinality(T) <= Cardinality(S \ {p})
  BY <1>1, FS_Subset
<1> QED BY <1>1, <1>2, FS_CardinalityType

(* The next message is one that was not being sent, so that starting it
   changes nothing about who will send.                                     *)
LEMMA RunNextHolders ==
  ASSUME TypeOK, NEW p \in Procs, NEW loc \in SUBSET Items,
         NEW act \in [Items -> Stages], RunNext(p, loc, act), local'[p] = loc,
         \A q \in Procs \ {p} : local'[q] = local[q],
         \A i \in Items : act[i] # "idle" => i \in loc
  PROVE  /\ \A i \in Items : active'[p][i] # "idle" => i \in local'[p]
         /\ \A q \in Procs \ {p} : active'[q] = active[q]
         /\ \A i \in Items, q \in Procs :
              q \in Holders(i)' <=>
                IF q = p THEN i \in loc /\ act[i] # "done" ELSE q \in Holders(i)
<1>1. /\ \A q \in Procs \ {p} : active'[q] = active[q]
      /\ \A i \in Items : \/ active'[p][i] = act[i]
                          \/ active'[p][i] = "sending" /\ act[i] = "idle" /\ i \in loc
  BY RunNextStarts
<1>2. \A i \in Items : active'[p][i] = "done" <=> act[i] = "done"
  BY <1>1
<1> QED BY <1>1, <1>2 DEF Holders

LEMMA InitSendsInv == Init => ListedInv /\ SendsInv
  <1> SUFFICES ASSUME Init PROVE ListedInv /\ SendsInv
    OBVIOUS
  <1>1. ListedInv
    BY DEF Init, ListedInv, Idle
  <1>2. ASSUME NEW i \in Items
        PROVE  /\ IsFiniteSet(Holders(i))
               /\ sends[i] + Cardinality(Holders(i)) + Chance(i) <= 1 + excuses
    <2>1. Holders(i) = {}
      BY DEF Init, Holders
    <2>2. IsFiniteSet(Holders(i)) /\ Cardinality(Holders(i)) = 0
      BY <2>1, FS_EmptySet
    <2> QED BY <2>2 DEF Init, Chance
  <1> QED BY <1>1, <1>2 DEF SendsInv

(* Where neither the lists nor the sends change, only the chance that an
   announcement is still of use can.                                        *)
LEMMA ListsStay ==
  ASSUME TypeOK, ListedInv, SendsInv, UNCHANGED <<local, active, sends>>, excuses' \in Nat,
         \/ excuses' = excuses /\ \A i \in Items : Told(i)' => Told(i)
         \/ excuses' = excuses + 1
  PROVE  ListedInv' /\ SendsInv'
<1>1. ListedInv'
  BY DEF ListedInv
<1>2. ASSUME NEW i \in Items
      PROVE  /\ IsFiniteSet(Holders(i)')
             /\ sends'[i] + Cardinality(Holders(i)') + Chance(i)' <= 1 + excuses'
  <2>1. Holders(i)' = Holders(i) /\ sends'[i] = sends[i]
    BY DEF Holders
  <2>2. /\ IsFiniteSet(Holders(i)) /\ Cardinality(Holders(i)) \in Nat
        /\ sends[i] + Cardinality(Holders(i)) + Chance(i) <= 1 + excuses
    BY FS_CardinalityType DEF SendsInv
  <2>3. sends[i] \in Nat /\ excuses \in Nat
    BY DEF TypeOK
  <2>4. /\ Chance(i) \in 0 .. 1 /\ Chance(i)' \in 0 .. 1
        /\ (Told(i)' => Told(i)) => Chance(i)' <= Chance(i)
    BY DEF Chance
  <2> HIDE DEF Holders, Chance
  <2> QED BY <2>1, <2>2, <2>3, <2>4
<1> QED BY <1>1, <1>2 DEF SendsInv

LEMMA AnnouncedOnceStep ==
  ASSUME TypeOK, AnnouncedOnce, [Next]_vars
  PROVE  AnnouncedOnce'
<1>1. ASSUME NEW i \in Items, AppendItem(i) PROVE AnnouncedOnce'
  BY <1>1 DEF AppendItem, AnnouncedOnce, TypeOK
<1>2. ASSUME NEW i \in Items, Publish(i) PROVE AnnouncedOnce'
  BY <1>2 DEF Publish, AnnouncedOnce
<1>3. ASSUME UNCHANGED unannounced \/ \E i \in Items : unannounced' = unannounced \ {i},
             \/ UNCHANGED inbox
             \/ \E p \in Procs : \E W : inbox' = [inbox EXCEPT ![p] = @ \ W]
      PROVE  AnnouncedOnce'
  <2>1. \A q \in Procs : inbox'[q] \subseteq inbox[q]
    BY <1>3 DEF TypeOK
  <2> QED BY <1>3, <2>1 DEF AnnouncedOnce
<1>4. ASSUME NEW p \in Procs, ServerStep(p) PROVE AnnouncedOnce'
  BY <1>3, <1>4 DEF ServerStep, DoRefreshWork, AddWork, Finish, FinishWork, DelItemFails, Forget, FinishRetry, redis
<1>5. ASSUME NEW p \in Procs, SendStep(p) PROVE AnnouncedOnce'
  BY <1>3, <1>5 DEF SendStep, Sends, Refuses, redis
<1>6. ASSUME NEW p \in Procs, ClearTotalWork(p) \/ Start(p) \/ ShardReady(p)
      PROVE  AnnouncedOnce'
  BY <1>3, <1>6 DEF ClearTotalWork, Start, ShardReady, redis
<1>7. CASE Failure
  <2>1. ASSUME NEW p \in Procs, LoseInbox(p) \/ Ends(p) PROVE AnnouncedOnce'
    <3>1. inbox' = [inbox EXCEPT ![p] = @ \ inbox[p]] /\ UNCHANGED unannounced
      BY <2>1 DEF LoseInbox, Ends, redis, TypeOK
    <3> QED BY <1>3, <3>1
  <2>2. ASSUME NEW p \in Procs, NEW i \in Items, Fails(p, i) \/ FailsAfterSend(p, i)
        PROVE  AnnouncedOnce'
    BY <1>3, <2>2 DEF Fails, FailsAfterSend, redis
  <2>3. ASSUME NEW p \in Procs, NEW force \in BOOLEAN, RefreshFails(p, force)
        PROVE  AnnouncedOnce'
    BY <1>3, <2>3 DEF RefreshFails, redis
  <2>4. ASSUME NEW i \in Items, PublishNever(i) PROVE AnnouncedOnce'
    BY <1>3, <2>4 DEF PublishNever
  <2>5. ASSUME ShardRemoved PROVE AnnouncedOnce'
    BY <1>3, <2>5 DEF ShardRemoved, redis
  <2> QED BY <1>7, <2>1, <2>2, <2>3, <2>4, <2>5 DEF Failure
<1>8. CASE UNCHANGED vars
  BY <1>3, <1>8 DEF vars, redis
<1> QED BY <1>1, <1>2, <1>4, <1>5, <1>6, <1>7, <1>8 DEF Next

(* Each step of Next, in turn: it takes from what is to come what it adds to
   the sends, or is excused.                                                *)
LEMMA SendsStep ==
  ASSUME QueueInv, AnnouncedOnce, ListedInv, SendsInv, [Next]_vars
  PROVE  ListedInv' /\ SendsInv'
<1> USE DEF QueueInv
<1>0. QueueInv'
  BY QueueStep
<1>1. ASSUME NEW i \in Items, AppendItem(i) \/ Publish(i) PROVE ListedInv' /\ SendsInv'
  <2>1. UNCHANGED <<local, active, sends, excuses, home>>
    BY <1>1 DEF AppendItem, Publish, counters
  <2>2. ASSUME NEW j \in Items, Told(j)' PROVE Told(j)
    <3>1. CASE AppendItem(i)
      BY <2>1, <2>2, <3>1 DEF AppendItem, Told
    <3>2. CASE Publish(i)
      <4>1. /\ i \in unannounced /\ unannounced' = unannounced \ {i} /\ created' = created
            /\ inbox' = [q \in Procs |-> IF q \in up THEN inbox[q] \cup {i} ELSE inbox[q]]
        BY <3>2 DEF Publish
      <4>2. home \in Procs \cup {NoProc}
        BY DEF TypeOK
      <4>3. CASE j = i
        BY <4>1, <4>3 DEF Told
      <4>4. ASSUME j # i, NEW q \in Procs, j \in inbox'[q] PROVE j \in inbox[q]
        BY <4>1, <4>4
      <4> QED BY <2>1, <2>2, <4>1, <4>2, <4>3, <4>4 DEF Told
    <3> QED BY <1>1, <3>1, <3>2
  <2>3. excuses' \in Nat
    BY <1>0 DEF TypeOK
  <2> QED BY <2>1, <2>2, <2>3, ListsStay
<1>2. ASSUME NEW p \in Procs,
             \/ ClearTotalWork(p) \/ Start(p) \/ ShardReady(p) \/ LoseInbox(p)
             \/ \E force \in BOOLEAN : RefreshFails(p, force)
      PROVE  ListedInv' /\ SendsInv'
  <2>1. /\ UNCHANGED <<local, active, sends, excuses, created, unannounced>>
        /\ inbox' \in {inbox, [inbox EXCEPT ![p] = {}]}
        /\ home' = home \/ (home = NoProc /\ home' = p)
    <3>1. CASE ClearTotalWork(p) \/ Start(p)
      BY <3>1 DEF ClearTotalWork, Start, redis, counters
    <3>2. CASE ShardReady(p)
      BY <3>2 DEF ShardReady, redis, counters
    <3>3. CASE LoseInbox(p)
      BY <3>3 DEF LoseInbox, redis
    <3>4. ASSUME NEW force \in BOOLEAN, RefreshFails(p, force) PROVE <2>1!:
      BY <3>4 DEF RefreshFails, redis
    <3> QED BY <1>2, <3>1, <3>2, <3>3, <3>4
  <2>2. \A j \in Items, q \in Procs : j \in inbox'[q] => j \in inbox[q]
    BY <2>1 DEF TypeOK
  <2>3. ASSUME NEW j \in Items, Told(j)' PROVE Told(j)
    <3>1. home \in Procs \cup {NoProc} /\ p # NoProc
      BY QueueAssumption DEF TypeOK
    <3> QED BY <2>1, <2>2, <2>3, <3>1 DEF Told
  <2>4. excuses' \in Nat
    BY <1>0 DEF TypeOK
  <2> QED BY <2>1, <2>3, <2>4, ListsStay
<1>3. ASSUME NEW i \in Items, PublishNever(i) PROVE ListedInv' /\ SendsInv'
  <2>1. /\ UNCHANGED <<local, active, sends, excuses, created, inbox, home>>
        /\ unannounced' = unannounced \ {i}
    BY <1>3 DEF PublishNever
  <2>2. \A j \in Items : Told(j)' => Told(j)
    BY <2>1 DEF Told
  <2>3. excuses' \in Nat
    BY <1>0 DEF TypeOK
  <2> QED BY <2>1, <2>2, <2>3, ListsStay
<1>4. CASE ShardRemoved
  <2>1. UNCHANGED <<local, active, sends>> /\ excuses' = excuses + 1
    BY <1>4 DEF ShardRemoved
  <2>2. excuses' \in Nat
    BY <1>0 DEF TypeOK
  <2> QED BY <2>1, <2>2, ListsStay
<1>5. ASSUME NEW p \in Procs, Ends(p) PROVE ListedInv' /\ SendsInv'
  <2>1. /\ local' = [local EXCEPT ![p] = {}] /\ active' = [active EXCEPT ![p] = Idle]
        /\ sends' = sends /\ excuses' = excuses + 1
    BY <1>5 DEF Ends
  <2>2. ListedInv'
    BY <2>1 DEF ListedInv, Idle, TypeOK
  <2>3. ASSUME NEW j \in Items
        PROVE  /\ IsFiniteSet(Holders(j)')
               /\ sends'[j] + Cardinality(Holders(j)') + Chance(j)' <= 1 + excuses'
    <3>1. Holders(j)' \subseteq Holders(j)
      BY <2>1 DEF Holders, TypeOK
    <3>2. IsFiniteSet(Holders(j)) /\ sends[j] + Cardinality(Holders(j)) + Chance(j) <= 1 + excuses
      BY DEF SendsInv
    <3>3. /\ IsFiniteSet(Holders(j)') /\ Cardinality(Holders(j)') \in Nat
          /\ Cardinality(Holders(j)) \in Nat
          /\ Cardinality(Holders(j)') <= Cardinality(Holders(j))
      <4> HIDE DEF Holders
      <4> QED BY <3>1, <3>2, NoneMore
    <3>4. Chance(j) \in 0 .. 1 /\ Chance(j)' \in 0 .. 1 /\ sends[j] \in Nat /\ excuses \in Nat
      BY DEF Chance, TypeOK
    <3> HIDE DEF Holders, Chance
    <3> QED BY <2>1, <3>2, <3>3, <3>4
  <2> QED BY <2>2, <2>3 DEF SendsInv
<1>6. ASSUME NEW p \in Procs, NEW i \in Items,
             Sends(p, i) \/ Refuses(p, i) \/ Fails(p, i) \/ FailsAfterSend(p, i)
      PROVE  ListedInv' /\ SendsInv'
  <2>1. PICK s \in {"done", "retry"} : active' = [active EXCEPT ![p][i] = s]
    BY <1>6 DEF Sends, Refuses, Fails, FailsAfterSend, Stage
  <2>2. active[p][i] = "sending" /\ i \in local[p]
    BY <1>6 DEF Sends, Refuses, Fails, FailsAfterSend, ListedInv
  <2>3. UNCHANGED <<local, home, inbox, unannounced, created>>
    BY <1>6 DEF Sends, Refuses, Fails, FailsAfterSend, redis
  <2>4. /\ active'[p][i] = s
        /\ \A q \in Procs, j \in Items : q # p \/ j # i => active'[q][j] = active[q][j]
    BY <2>1 DEF TypeOK
  <2>5. ListedInv'
    BY <2>2, <2>3, <2>4 DEF ListedInv
  <2>6. \/ s = "done" /\ excuses' = excuses /\ sends' \in {sends, [sends EXCEPT ![i] = @ + 1]}
        \/ s = "retry" /\ sends' = sends /\ excuses' = excuses
        \/ s = "retry" /\ sends' = [sends EXCEPT ![i] = @ + 1] /\ excuses' = excuses + 1
    <3>1. CASE Sends(p, i) \/ Refuses(p, i)
      <4>1. active' = [active EXCEPT ![p][i] = "done"]
        BY <3>1 DEF Sends, Refuses, Stage
      <4>2. s = "done"
        BY <2>4, <4>1 DEF TypeOK
      <4> QED BY <3>1, <4>2 DEF Sends, Refuses, counters
    <3>2. CASE Fails(p, i) \/ FailsAfterSend(p, i)
      <4>1. active' = [active EXCEPT ![p][i] = "retry"]
        BY <3>2 DEF Fails, FailsAfterSend, Stage
      <4>2. s = "retry"
        BY <2>4, <4>1 DEF TypeOK
      <4> QED BY <3>2, <4>2 DEF Fails, FailsAfterSend
    <3> QED BY <1>6, <3>1, <3>2
  <2>7. ASSUME NEW j \in Items
        PROVE  /\ IsFiniteSet(Holders(j)')
               /\ sends'[j] + Cardinality(Holders(j)') + Chance(j)' <= 1 + excuses'
    <3>1. IsFiniteSet(Holders(j)) /\ sends[j] + Cardinality(Holders(j)) + Chance(j) <= 1 + excuses
      BY DEF SendsInv
    <3>2. Chance(j) \in 0 .. 1 /\ sends[j] \in Nat /\ excuses \in Nat
      BY DEF Chance, TypeOK
    <3>3. Chance(j)' = Chance(j)
      BY <2>3 DEF Chance, Told
    <3>4. /\ Holders(j)' \subseteq Holders(j)
          /\ j = i /\ s = "done" => Holders(j)' \subseteq Holders(j) \ {p}
      <4>1. \A q \in Procs : q \in Holders(j)' <=> j \in local[q] /\ active'[q][j] # "done"
        BY <2>3 DEF Holders
      <4>2. \A q \in Procs : q \in Holders(j) <=> j \in local[q] /\ active[q][j] # "done"
        BY DEF Holders
      <4>3. Holders(j) \subseteq Procs /\ Holders(j)' \subseteq Procs
        BY DEF Holders
      <4> HIDE DEF Holders
      <4> QED BY <2>2, <2>4, <4>1, <4>2, <4>3
    <3>5. j = i => p \in Holders(j)
      BY <2>2 DEF Holders
    <3>6. sends'[j] = sends[j] \/ (j = i /\ sends'[j] = sends[j] + 1)
      <4>1. CASE sends' = sends
        BY <4>1
      <4>2. CASE sends' = [sends EXCEPT ![i] = @ + 1]
        BY <4>2 DEF TypeOK
      <4> QED BY <2>6, <4>1, <4>2
    <3> HIDE DEF Holders, Chance
    <3>7. /\ IsFiniteSet(Holders(j)') /\ Cardinality(Holders(j)') \in Nat
          /\ Cardinality(Holders(j)) \in Nat
          /\ Cardinality(Holders(j)') <= Cardinality(Holders(j))
      BY <3>1, <3>4, NoneMore
    <3>8. j = i /\ s = "done" => Cardinality(Holders(j)') + 1 <= Cardinality(Holders(j))
      BY <3>1, <3>4, <3>5, OneLess
    <3>9. CASE s = "done"
      <4>1. excuses' = excuses
        BY <2>6, <3>9
      <4> QED BY <3>1, <3>2, <3>3, <3>6, <3>7, <3>8, <3>9, <4>1
    <3>10. CASE s = "retry" /\ sends' = sends /\ excuses' = excuses
      BY <3>1, <3>2, <3>3, <3>7, <3>10
    <3>11. CASE excuses' = excuses + 1
      BY <3>1, <3>2, <3>3, <3>6, <3>7, <3>11
    <3> QED BY <2>6, <3>9, <3>10, <3>11, <3>7
  <2> QED BY <2>5, <2>7 DEF SendsInv
<1>7. ASSUME NEW p \in Procs, NEW i \in Items, AddWork(p, i) PROVE ListedInv' /\ SendsInv'
  <2>1. /\ i \in inbox[p] /\ inbox' = [inbox EXCEPT ![p] = @ \ {i}]
        /\ UNCHANGED <<unannounced, home, created, sends, excuses>>
    BY <1>7 DEF AddWork, redis, counters
  <2>2. \A q \in Procs, j \in Items : j \in inbox'[q] => j \in inbox[q]
    BY <2>1 DEF TypeOK
  <2>3. excuses' \in Nat
    BY <1>0 DEF TypeOK
  <2>4. \A j \in Items : Told(j)' => Told(j)
    <3>1. home \in Procs \cup {NoProc}
      BY DEF TypeOK
    <3> QED BY <2>1, <2>2, <3>1 DEF Told
  <2>5. CASE ~(home = p /\ i \notin local[p])
    <3>1. UNCHANGED <<local, active>>
      BY <1>7, <2>5 DEF AddWork
    <3> QED BY <2>1, <2>3, <2>4, <3>1, ListsStay
  <2>6. CASE home = p /\ i \notin local[p]
    <3>1. local' = [local EXCEPT ![p] = @ \cup {i}] /\ RunNext(p, local'[p], active[p])
      BY <1>7, <2>6 DEF AddWork
    <3>2. /\ local'[p] \in SUBSET Items /\ active[p] \in [Items -> Stages]
          /\ \A q \in Procs \ {p} : local'[q] = local[q]
          /\ \A j \in Items : active[p][j] # "idle" => j \in local'[p]
      BY <3>1 DEF TypeOK, ListedInv
    <3>3. /\ \A j \in Items : active'[p][j] # "idle" => j \in local'[p]
          /\ \A q \in Procs \ {p} : active'[q] = active[q]
          /\ \A j \in Items, q \in Procs :
               q \in Holders(j)' <=>
                 IF q = p THEN j \in local'[p] /\ active[p][j] # "done" ELSE q \in Holders(j)
      BY SMTT(30), <3>1, <3>2, RunNextHolders
    <3>4. ListedInv'
      BY <3>2, <3>3 DEF ListedInv
    <3>5. ASSUME NEW j \in Items
          PROVE  /\ IsFiniteSet(Holders(j)')
                 /\ sends'[j] + Cardinality(Holders(j)') + Chance(j)' <= 1 + excuses'
      <4>1. IsFiniteSet(Holders(j)) /\ sends[j] + Cardinality(Holders(j)) + Chance(j) <= 1 + excuses
        BY DEF SendsInv
      <4>2. /\ Chance(j) \in 0 .. 1 /\ Chance(j)' \in 0 .. 1 /\ sends[j] \in Nat /\ excuses \in Nat
            /\ Chance(j)' <= Chance(j)
        BY <2>4 DEF Chance, TypeOK
      <4>3. Holders(j) \subseteq Procs /\ Holders(j)' \subseteq Procs
            /\ (p \in Holders(j) <=> j \in local[p] /\ active[p][j] # "done")
        BY DEF Holders
      <4>4. CASE j # i
        <5>1. Holders(j)' \subseteq Holders(j)
          <6>1. j \in local'[p] <=> j \in local[p]
            BY <3>1, <4>4 DEF TypeOK
          <6> HIDE DEF Holders
          <6> QED BY <3>3, <4>3, <6>1
        <5> HIDE DEF Holders, Chance
        <5> QED BY <2>1, <4>1, <4>2, <5>1, NoneMore
      <4>5. CASE j = i
        <5>1. Chance(j) = 1 /\ Chance(j)' = 0
          <6>1. Told(i)
            BY <2>1, <2>6, QueueAssumption DEF Told
          <6>2. ~Told(i)'
            <7>1. i \in created /\ i \notin unannounced /\ home # NoProc
              BY <2>1, <2>6, QueueAssumption DEF AnnouncedOnce, TypeOK
            <7>2. i \notin inbox'[p]
              BY <2>1 DEF TypeOK
            <7> QED BY <2>1, <2>6, <7>1, <7>2 DEF Told
          <6> QED BY <4>5, <6>1, <6>2 DEF Chance
        <5>2. Holders(j)' \subseteq Holders(j) \cup {p}
          <6> HIDE DEF Holders
          <6> QED BY <3>3, <4>3
        <5> HIDE DEF Holders, Chance
        <5>3. /\ IsFiniteSet(Holders(j)') /\ Cardinality(Holders(j)') \in Nat
              /\ Cardinality(Holders(j)) \in Nat
              /\ Cardinality(Holders(j)') <= Cardinality(Holders(j)) + 1
          BY <4>1, <5>2, OneMore
        <5> QED BY <2>1, <4>1, <4>2, <5>1, <5>3
      <4> QED BY <4>4, <4>5
    <3> QED BY <3>4, <3>5 DEF SendsInv
  <2> QED BY <2>5, <2>6
<1>8. ASSUME NEW p \in Procs, NEW force \in BOOLEAN, DoRefreshWork(p, force)
      PROVE  ListedInv' /\ SendsInv'
  <2>1. /\ local' = [local EXCEPT ![p] = IF home = p THEN @ \cup total'[p] ELSE @]
        /\ RunNext(p, local'[p], active[p])
        /\ sends' = sends /\ excuses' = excuses + 1
    BY <1>8 DEF DoRefreshWork, RefreshLocal
  <2>2. /\ local'[p] \in SUBSET Items /\ active[p] \in [Items -> Stages]
        /\ local[p] \subseteq local'[p]
        /\ \A q \in Procs \ {p} : local'[q] = local[q]
    <3>1. local' \in [Procs -> SUBSET created'] /\ created' \subseteq Items
      BY <1>0 DEF TypeOK
    <3> QED BY <2>1, <3>1 DEF TypeOK
  <2>3. \A j \in Items : active[p][j] # "idle" => j \in local'[p]
    BY <2>2 DEF ListedInv
  <2>4. /\ \A j \in Items : active'[p][j] # "idle" => j \in local'[p]
        /\ \A q \in Procs \ {p} : active'[q] = active[q]
        /\ \A j \in Items, q \in Procs :
             q \in Holders(j)' <=>
               IF q = p THEN j \in local'[p] /\ active[p][j] # "done" ELSE q \in Holders(j)
    <3>1. RunNext(p, local'[p], active[p]) /\ TypeOK
      BY <2>1
    <3> QED BY <2>2, <2>3, <3>1, RunNextHolders
  <2>5. ListedInv'
    BY <2>2, <2>4 DEF ListedInv
  <2>6. ASSUME NEW j \in Items
        PROVE  /\ IsFiniteSet(Holders(j)')
               /\ sends'[j] + Cardinality(Holders(j)') + Chance(j)' <= 1 + excuses'
    <3>1. IsFiniteSet(Holders(j)) /\ sends[j] + Cardinality(Holders(j)) + Chance(j) <= 1 + excuses
      BY DEF SendsInv
    <3>2. Chance(j) \in 0 .. 1 /\ Chance(j)' \in 0 .. 1 /\ sends[j] \in Nat /\ excuses \in Nat
      BY DEF Chance, TypeOK
    <3>3. Chance(j)' <= Chance(j)
      <4>1. UNCHANGED <<unannounced, home, inbox, created>>
        BY <1>8 DEF DoRefreshWork, redis
      <4> QED BY <4>1 DEF Chance, Told
    <3>4. Holders(j)' \subseteq Holders(j) \cup {p}
      <4>1. Holders(j) \subseteq Procs /\ Holders(j)' \subseteq Procs
        BY DEF Holders
      <4> HIDE DEF Holders
      <4> QED BY <2>4, <4>1
    <3> HIDE DEF Holders, Chance
    <3>5. /\ IsFiniteSet(Holders(j)') /\ Cardinality(Holders(j)') \in Nat
          /\ Cardinality(Holders(j)) \in Nat
          /\ Cardinality(Holders(j)') <= Cardinality(Holders(j)) + 1
      BY <3>1, <3>4, OneMore
    <3> QED BY <2>1, <3>1, <3>2, <3>3, <3>5
  <2> QED BY <2>5, <2>6 DEF SendsInv
<1>9. ASSUME NEW p \in Procs, NEW i \in Items, Finish(p, i) PROVE ListedInv' /\ SendsInv'
  <2> DEFINE act == [active[p] EXCEPT ![i] = "idle"]
  <2>1. /\ act \in [Items -> Stages] /\ act[i] = "idle"
        /\ \A j \in Items : j # i => act[j] = active[p][j]
    BY DEF TypeOK, Stages
  <2>2. /\ RunNext(p, local'[p], act)
        /\ UNCHANGED <<sends, excuses, home, inbox, unannounced, created>>
        /\ \/ local' = [local EXCEPT ![p] = @ \ {i}]
           \/ local' = local /\ active[p][i] = "retry"
    BY <1>9 DEF Finish, FinishWork, DelItemFails, Forget, FinishRetry, Unlisted, redis, counters
  <2>3. /\ local'[p] \in SUBSET Items
        /\ \A q \in Procs \ {p} : local'[q] = local[q]
        /\ \A j \in Items : j # i => (j \in local'[p] <=> j \in local[p])
        /\ i \in local'[p] => i \in local[p] /\ active[p][i] # "done"
    BY <2>2 DEF TypeOK
  <2>4. \A j \in Items : act[j] # "idle" => j \in local'[p]
    BY <2>1, <2>3 DEF ListedInv
  <2> HIDE DEF act
  <2>5. /\ \A j \in Items : active'[p][j] # "idle" => j \in local'[p]
        /\ \A q \in Procs \ {p} : active'[q] = active[q]
        /\ \A j \in Items, q \in Procs :
             q \in Holders(j)' <=>
               IF q = p THEN j \in local'[p] /\ act[j] # "done" ELSE q \in Holders(j)
    BY ZenonT(60), <2>1, <2>2, <2>3, <2>4, RunNextHolders
  <2>6. ListedInv'
    BY <2>3, <2>5 DEF ListedInv
  <2>7. ASSUME NEW j \in Items
        PROVE  /\ IsFiniteSet(Holders(j)')
               /\ sends'[j] + Cardinality(Holders(j)') + Chance(j)' <= 1 + excuses'
    <3>1. IsFiniteSet(Holders(j)) /\ sends[j] + Cardinality(Holders(j)) + Chance(j) <= 1 + excuses
      BY DEF SendsInv
    <3>2. Chance(j) \in 0 .. 1 /\ Chance(j)' = Chance(j) /\ sends[j] \in Nat /\ excuses \in Nat
      BY <2>2 DEF Chance, Told, TypeOK
    <3>3. Holders(j)' \subseteq Holders(j)
      <4>1. Holders(j) \subseteq Procs /\ Holders(j)' \subseteq Procs
            /\ (p \in Holders(j) <=> j \in local[p] /\ active[p][j] # "done")
        BY DEF Holders
      <4>2. j \in local'[p] /\ act[j] # "done" => j \in local[p] /\ active[p][j] # "done"
        BY <2>1, <2>3
      <4> HIDE DEF Holders
      <4> QED BY <2>5, <4>1, <4>2
    <3> HIDE DEF Holders, Chance
    <3> QED BY <2>2, <3>1, <3>2, <3>3, NoneMore
  <2> QED BY <2>6, <2>7 DEF SendsInv
<1>10. CASE UNCHANGED vars
  <2>1. UNCHANGED <<local, active, sends, excuses, home, inbox, unannounced, created>>
    BY <1>10 DEF vars, redis, counters
  <2>2. (\A j \in Items : Told(j)' => Told(j)) /\ excuses' \in Nat
    BY <2>1 DEF Told, TypeOK
  <2> QED BY <2>1, <2>2, ListsStay
<1>11. CASE Next
  BY <1>1, <1>2, <1>3, <1>4, <1>5, <1>6, <1>7, <1>8, <1>9, <1>11
  DEF Next, ServerStep, SendStep, Failure
<1> QED BY <1>10, <1>11

(* Discord gets a message once, and once more at the most for each refresh,
   each move of the shard or end of a process and each send that only seemed
   to fail, with any number of messages and processes.                      *)
THEOREM SendsAreExcused == Spec => []SentOnce
<1>1. Init => QueueInv /\ AnnouncedOnce /\ ListedInv /\ SendsInv
  <2>1. Init => AnnouncedOnce
    BY DEF Init, AnnouncedOnce
  <2> QED BY <2>1, InitQueueInv, InitSendsInv
<1>2. /\ QueueInv /\ AnnouncedOnce /\ ListedInv /\ SendsInv
      /\ [Next]_vars
      => QueueInv' /\ AnnouncedOnce' /\ ListedInv' /\ SendsInv'
  BY QueueStep, AnnouncedOnceStep, SendsStep DEF QueueInv
<1>3. QueueInv /\ SendsInv => SentOnce
  <2> SUFFICES ASSUME QueueInv, SendsInv, NEW i \in Items PROVE sends[i] <= 1 + excuses
    BY DEF SentOnce
  <2>1. /\ Cardinality(Holders(i)) \in Nat /\ Chance(i) \in 0 .. 1
        /\ sends[i] + Cardinality(Holders(i)) + Chance(i) <= 1 + excuses
    BY FS_CardinalityType DEF SendsInv, Chance
  <2>2. sends[i] \in Nat /\ excuses \in Nat
    BY DEF QueueInv, TypeOK
  <2> QED BY <2>1, <2>2
<1> QED BY <1>1, <1>2, <1>3, PTL DEF Spec

-----------------------------------------------------------------------------
(* What is sent at the same time.                                          *)

\* The sends act are few, and for different channels.
Apart(act) ==
  /\ IsFiniteSet(Busy(act)) /\ Cardinality(Busy(act)) <= MaxSends
  /\ \A i, j \in Busy(act) : i # j => Channel[i] # Channel[j]

ApartInv == \A p \in Procs : Apart(active[p])

(* Fewer sends are as much apart.                                           *)
LEMMA FewerApart ==
  ASSUME NEW act, Apart(act), NEW new, Busy(new) \subseteq Busy(act)
  PROVE  Apart(new)
<1>1. /\ IsFiniteSet(Busy(new)) /\ Cardinality(Busy(new)) \in Nat
      /\ Cardinality(Busy(act)) \in Nat
      /\ Cardinality(Busy(new)) <= Cardinality(Busy(act))
  <2>1. IsFiniteSet(Busy(act))
    BY DEF Apart
  <2> HIDE DEF Busy
  <2> QED BY <2>1, NoneMore
<1> HIDE DEF Busy
<1> QED BY <1>1, QueueAssumption DEF Apart

(* checkRunNextWork looks at how many are being sent, and at their channels. *)
LEMMA RunNextApart ==
  ASSUME TypeOK, NEW p \in Procs, NEW loc \in SUBSET Items,
         NEW act \in [Items -> Stages], Apart(act), RunNext(p, loc, act)
  PROVE  Apart(active'[p]) /\ \A q \in Procs \ {p} : active'[q] = active[q]
<1>1. CASE active' = [active EXCEPT ![p] = act]
  BY <1>1 DEF TypeOK
<1>2. CASE active' # [active EXCEPT ![p] = act]
  <2>1. /\ ~(Cardinality(Busy(act)) >= MaxSends)
        /\ \E i \in Free(loc, act) :
             active' = [active EXCEPT ![p] = [act EXCEPT ![i] = "sending"]]
    BY <1>2 DEF RunNext
  <2>2. PICK i \in Free(loc, act) :
          active' = [active EXCEPT ![p] = [act EXCEPT ![i] = "sending"]]
    BY <2>1
  <2>3. i \in Items /\ \A j \in Busy(act) : Channel[j] # Channel[i]
    BY DEF Free
  <2>4. active'[p] = [act EXCEPT ![i] = "sending"]
    BY <2>2 DEF TypeOK
  <2>5. Busy(active'[p]) = Busy(act) \cup {i}
    BY <2>3, <2>4 DEF Busy
  <2>6. /\ IsFiniteSet(Busy(act)) /\ Cardinality(Busy(act)) \in Nat
        /\ Cardinality(Busy(act)) < MaxSends
    BY <2>1, FS_CardinalityType, QueueAssumption DEF Apart
  <2>7. /\ IsFiniteSet(Busy(active'[p])) /\ Cardinality(Busy(active'[p])) \in Nat
        /\ Cardinality(Busy(active'[p])) <= Cardinality(Busy(act)) + 1
    <3> HIDE DEF Busy
    <3> QED BY <2>5, <2>6, OneMore
  <2>8. Apart(active'[p])
    <3> HIDE DEF Busy
    <3> QED BY <2>3, <2>5, <2>6, <2>7, QueueAssumption DEF Apart
  <2> QED BY <2>2, <2>8 DEF TypeOK
<1> QED BY <1>1, <1>2

LEMMA ApartStep ==
  ASSUME QueueInv, ApartInv, [Next]_vars
  PROVE  ApartInv'
<1> USE DEF QueueInv
<1>0. QueueInv'
  BY QueueStep
<1>1. ASSUME UNCHANGED active PROVE ApartInv'
  BY <1>1 DEF ApartInv, Apart, Busy
<1>2. ASSUME NEW p \in Procs, NEW loc \in SUBSET Items, NEW act \in [Items -> Stages],
             RunNext(p, loc, act), Busy(act) \subseteq Busy(active[p])
      PROVE  ApartInv'
  <2>1. Apart(act)
    BY <1>2, FewerApart DEF ApartInv
  <2>2. Apart(active'[p]) /\ \A q \in Procs \ {p} : active'[q] = active[q]
    BY <1>2, <2>1, RunNextApart
  <2>3. \A q \in Procs : Apart(active'[q])
    BY <2>2 DEF ApartInv
  <2> QED BY <2>3 DEF ApartInv, Apart, Busy
<1>3. ASSUME NEW p \in Procs, NEW new, active' = [active EXCEPT ![p] = new],
             Busy(new) \subseteq Busy(active[p])
      PROVE  ApartInv'
  <2>1. Apart(new)
    BY <1>3, FewerApart DEF ApartInv
  <2>2. \A q \in Procs : Apart(active'[q])
    BY <1>3, <2>1 DEF ApartInv, TypeOK
  <2> QED BY <2>2 DEF ApartInv, Apart, Busy
<1>4. ASSUME NEW p \in Procs, ServerStep(p) PROVE ApartInv'
  <2>1. local'[p] \in SUBSET Items /\ local[p] \in SUBSET Items /\ active[p] \in [Items -> Stages]
    BY <1>0 DEF TypeOK
  <2>2. ASSUME NEW force \in BOOLEAN, DoRefreshWork(p, force) PROVE ApartInv'
    BY <1>2, <2>1, <2>2 DEF DoRefreshWork, RefreshLocal
  <2>3. ASSUME NEW i \in Items, AddWork(p, i) PROVE ApartInv'
    <3>1. UNCHANGED active \/ RunNext(p, local'[p], active[p])
      BY <2>3 DEF AddWork
    <3> QED BY <1>1, <1>2, <2>1, <3>1
  <2>4. ASSUME NEW i \in Items, Finish(p, i) PROVE ApartInv'
    <3>1. RunNext(p, local'[p], [active[p] EXCEPT ![i] = "idle"])
      BY <2>4 DEF Finish, FinishWork, DelItemFails, Forget, FinishRetry
    <3>2. PICK act : act = [active[p] EXCEPT ![i] = "idle"]
      OBVIOUS
    <3>3. act \in [Items -> Stages] /\ Busy(act) \subseteq Busy(active[p])
      BY <2>1, <3>2 DEF Busy, Stages
    <3> QED BY <1>2, <2>1, <3>1, <3>2, <3>3
  <2> QED BY <1>4, <2>2, <2>3, <2>4 DEF ServerStep
<1>5. ASSUME NEW p \in Procs, NEW i \in Items,
             Sends(p, i) \/ Refuses(p, i) \/ Fails(p, i) \/ FailsAfterSend(p, i)
      PROVE  ApartInv'
  <2>1. PICK s \in {"done", "retry"} : active' = [active EXCEPT ![p][i] = s]
    BY <1>5 DEF Sends, Refuses, Fails, FailsAfterSend, Stage
  <2>2. active[p][i] = "sending"
    BY <1>5 DEF Sends, Refuses, Fails, FailsAfterSend
  <2>3. PICK new : new = [active[p] EXCEPT ![i] = s]
    OBVIOUS
  <2>4. active' = [active EXCEPT ![p] = new] /\ Busy(new) \subseteq Busy(active[p])
    BY <2>1, <2>2, <2>3 DEF Busy, TypeOK
  <2> QED BY <1>3, <2>4
<1>6. ASSUME NEW p \in Procs, Ends(p) PROVE ApartInv'
  <2>1. active' = [active EXCEPT ![p] = Idle] /\ Busy(Idle) \subseteq Busy(active[p])
    BY <1>6 DEF Ends, Idle, Busy
  <2> QED BY <1>3, <2>1
<1>7. ASSUME NEW p \in Procs,
             \/ ClearTotalWork(p) \/ Start(p) \/ ShardReady(p) \/ LoseInbox(p)
             \/ \E force \in BOOLEAN : RefreshFails(p, force)
      PROVE  ApartInv'
  BY <1>1, <1>7 DEF ClearTotalWork, Start, ShardReady, LoseInbox, RefreshFails
<1>8. ASSUME NEW i \in Items, AppendItem(i) \/ Publish(i) \/ PublishNever(i) PROVE ApartInv'
  BY <1>1, <1>8 DEF AppendItem, Publish, PublishNever
<1>9. CASE ShardRemoved \/ UNCHANGED vars
  BY <1>1, <1>9 DEF ShardRemoved, vars
<1>10. CASE Next
  BY <1>4, <1>5, <1>6, <1>7, <1>8, <1>9, <1>10 DEF Next, SendStep, Failure
<1> QED BY <1>9, <1>10

(* A process never sends two messages to one channel at the same time, nor
   more messages than max_concurrent_sends (checkRunNextWork), whatever fails. *)
THEOREM SendsKeepApart == Spec => []SendsApart
<1>1. Init => QueueInv /\ ApartInv
  <2> SUFFICES ASSUME Init, NEW p \in Procs PROVE Apart(active[p])
    BY InitQueueInv DEF ApartInv
  <2>1. Busy(active[p]) = {}
    BY DEF Init, Idle, Busy
  <2> HIDE DEF Busy
  <2> QED BY <2>1, FS_EmptySet, QueueAssumption DEF Apart
<1>2. QueueInv /\ ApartInv /\ [Next]_vars => QueueInv' /\ ApartInv'
  BY QueueStep, ApartStep
<1>3. ApartInv => SendsApart
  BY DEF ApartInv, Apart, SendsApart
<1> QED BY <1>1, <1>2, <1>3, PTL DEF Spec
=============================================================================
