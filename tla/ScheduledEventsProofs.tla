------------------------ MODULE ScheduledEventsProofs ------------------------
(***************************************************************************)
(* ScheduledEvents, for every set of events and of processes and whatever  *)
(* number of tries, goroutines and failures.                               *)
(***************************************************************************)
EXTENDS ScheduledEvents, FiniteSetTheorems, TLAPS

\* What a goroutine that has started has, and what it keeps on its way.
LEMMA TaskTyped ==
  ASSUME TypeOK, NEW t \in Tasks, task[t] # NoTask
  PROVE  /\ task[t] \in Task
         /\ task[t].proc \in Procs /\ task[t].event \in Events
         /\ task[t].at \in Places
  BY DEF TypeOK, Task

LEMMA AtTyped ==
  ASSUME TypeOK, NEW t \in Tasks, NEW place \in Places, At(t, place)
  PROVE  /\ task[t] \in Task
         /\ task[t].proc \in Procs /\ task[t].event \in Events
  <1>1. place # "none"
    BY DEF Places
  <1>2. task[t] # NoTask
    BY <1>1 DEF At, NoTask
  <1> QED BY <1>2, TaskTyped

LEMMA GoesTyped ==
  ASSUME TypeOK, NEW t \in Tasks, task[t] \in Task,
         NEW place \in Places, Goes(t, place)
  PROVE  /\ task' \in [Tasks -> Task \cup {NoTask}]
         /\ \A u \in Tasks : u # t => task'[u] = task[u]
         /\ task'[t].at = place
         /\ task'[t].proc = task[t].proc /\ task'[t].event = task[t].event
  <1>1. task \in [Tasks -> Task \cup {NoTask}]
    BY DEF TypeOK
  <1>2. task' = [task EXCEPT ![t] = [task[t] EXCEPT !.at = place]]
    BY DEF Goes
  <1>3. [task[t] EXCEPT !.at = place] \in Task
    BY DEF Task
  <1> QED BY <1>1, <1>2, <1>3 DEF Task

LEMMA SpawnTyped ==
  ASSUME TypeOK, NEW p \in Procs, NEW e \in Events, NEW place \in Places,
         Spawn(place, p, e)
  PROVE  /\ task' \in [Tasks -> Task \cup {NoTask}]
         /\ \E t \in Tasks :
              /\ task[t] = NoTask
              /\ task'[t].at = place /\ task'[t].proc = p /\ task'[t].event = e
              /\ task'[t] # NoTask
              /\ \A u \in Tasks : u # t => task'[u] = task[u]
  <1>1. task \in [Tasks -> Task \cup {NoTask}]
    BY DEF TypeOK
  <1>2. PICK t \in Tasks :
          /\ task[t] = NoTask
          /\ task' = [task EXCEPT ![t] =
                        [at |-> place, proc |-> p, event |-> e, tries |-> 0]]
    BY DEF Spawn
  <1>3. [at |-> place, proc |-> p, event |-> e, tries |-> 0] \in Task
    BY EventsAssumption DEF Task
  <1>4. place # "none"
    BY DEF Places
  <1>5. task'[t] = [at |-> place, proc |-> p, event |-> e, tries |-> 0]
    BY <1>1, <1>2
  <1>6. task'[t] # NoTask
    BY <1>4, <1>5 DEF NoTask
  <1>7. \A u \in Tasks : u # t => task'[u] = task[u]
    BY <1>1, <1>2
  <1> QED BY <1>1, <1>2, <1>3, <1>5, <1>6, <1>7

LEMMA TypingInit == Init => TypeOK
  BY EventsAssumption DEF Init, TypeOK, FlusherIdle, CleanerIdle

\* The next states of a goroutine are places.
LEMMA TypingNext == TypeOK /\ [Next]_vars => TypeOK'
  <1> SUFFICES ASSUME TypeOK, [Next]_vars PROVE TypeOK'
    OBVIOUS
  <1> USE DEF vars, redis, procs, bot, bgw, past
  <1>1. ASSUME NEW e \in Events, ScheduleEvent(e) PROVE TypeOK'
    BY <1>1 DEF ScheduleEvent, TypeOK
  <1>2. ASSUME NEW e \in Events, FlushNow(e) PROVE TypeOK'
    BY <1>2 DEF FlushNow, TypeOK
  <1>3. ASSUME NEW e \in Events, Cancel(e) PROVE TypeOK'
    BY <1>3 DEF Cancel, TypeOK
  <1>4. ASSUME NEW e \in Events, BecomesDue(e) PROVE TypeOK'
    BY <1>4 DEF BecomesDue, TypeOK
  <1>5. ASSUME NEW e \in Events, FlushNever(e) PROVE TypeOK'
    BY <1>5 DEF FlushNever, TypeOK
  <1>6. ASSUME NEW p \in Procs, CheckStarts(p) PROVE TypeOK'
    BY <1>6 DEF CheckStarts, TypeOK
  <1>7. ASSUME NEW p \in Procs, NEW e \in Events, Skip(p, e) PROVE TypeOK'
    BY <1>7 DEF Skip, Checked, TypeOK
  <1>8. ASSUME NEW p \in Procs, NEW e \in Events, Remove(p, e) PROVE TypeOK'
    <2>1. task' \in [Tasks -> Task \cup {NoTask}]
      BY <1>8, SpawnTyped DEF Remove, Places
    <2> QED BY <1>8, <2>1 DEF Remove, Checked, TypeOK
  <1>9. ASSUME NEW p \in Procs, NEW e \in Events, Unlist(p, e) PROVE TypeOK'
    BY <1>9 DEF Unlist, Checked, TypeOK
  <1>10. ASSUME NEW p \in Procs, NEW e \in Events, Process(p, e) PROVE TypeOK'
    <2>1. task' \in [Tasks -> Task \cup {NoTask}]
      BY <1>10, SpawnTyped DEF Process, Places
    <2> QED BY <1>10, <2>1 DEF Process, Checked, TypeOK
  <1>11. ASSUME NEW p \in Procs, ShardReady(p) PROVE TypeOK'
    BY <1>11 DEF ShardReady, TypeOK
  <1>12. ASSUME NEW p \in Procs, Crash(p) PROVE TypeOK'
    BY EventsAssumption, <1>12 DEF Crash, TypeOK
  <1>13. ASSUME NEW t \in Tasks, Finds(t) PROVE TypeOK'
    <2>1. task[t] \in Task /\ task[t].event \in Events
      BY <1>13, AtTyped DEF Finds, Places
    <2>2. task' \in [Tasks -> Task \cup {NoTask}]
      BY <1>13, <2>1, GoesTyped DEF Finds, Places
    <2> QED BY <1>13, <2>1, <2>2 DEF Finds, TypeOK
  <1>14. ASSUME NEW t \in Tasks, Handles(t) PROVE TypeOK'
    <2>1. task[t] \in Task /\ task[t].event \in Events
      BY <1>14, AtTyped DEF Handles, Places
    <2>2. task' \in [Tasks -> Task \cup {NoTask}]
      BY <1>14, <2>1, GoesTyped DEF Handles, Places
    <2> QED BY <1>14, <2>1, <2>2 DEF Handles, TypeOK
  <1>15. ASSUME NEW t \in Tasks, Retries(t) PROVE TypeOK'
    <2>1. task[t] \in Task
      BY <1>15, AtTyped DEF Retries, Places
    <2>2. [task[t] EXCEPT !.tries = @ + 1] \in Task
      BY <1>15, <2>1, EventsAssumption DEF Retries, Task, Again
    <2>3. task' \in [Tasks -> Task \cup {NoTask}]
      BY <1>15, <2>2 DEF Retries, TypeOK
    <2> QED BY <1>15, <2>3 DEF Retries, TypeOK
  <1>16. ASSUME NEW t \in Tasks, GivesUp(t) PROVE TypeOK'
    <2>1. task[t] \in Task /\ task[t].event \in Events
      BY <1>16, AtTyped DEF GivesUp, Places
    <2>2. task' \in [Tasks -> Task \cup {NoTask}]
      BY <1>16, <2>1, GoesTyped DEF GivesUp, Places
    <2> QED BY <1>16, <2>1, <2>2 DEF GivesUp, TypeOK
  <1>17. ASSUME NEW t \in Tasks, Marks(t) PROVE TypeOK'
    <2>1. task[t] \in Task /\ task[t].event \in Events
      BY <1>17, AtTyped DEF Marks, Places
    <2>2. task' \in [Tasks -> Task \cup {NoTask}]
      BY <1>17, <2>1, GoesTyped DEF Marks, Places
    <2> QED BY <1>17, <2>1, <2>2 DEF Marks, TypeOK
  <1>18. ASSUME NEW t \in Tasks, Updates(t) PROVE TypeOK'
    <2>1. task[t] \in Task /\ task[t].event \in Events
      BY <1>18, AtTyped DEF Updates, Places
    <2>2. task' \in [Tasks -> Task \cup {NoTask}]
      BY <1>18, <2>1, GoesTyped DEF Updates, Places
    <2> QED BY <1>18, <2>1, <2>2 DEF Updates, TypeOK
  <1>19. ASSUME NEW t \in Tasks, Unlists(t) PROVE TypeOK'
    <2>1. task[t] \in Task /\ task[t].event \in Events
      BY <1>19, AtTyped DEF Unlists, Places
    <2>2. task' \in [Tasks -> Task \cup {NoTask}]
      BY <1>19, <2>1, GoesTyped DEF Unlists, Places
    <2> QED BY <1>19, <2>1, <2>2 DEF Unlists, TypeOK
  <1>20. ASSUME NEW t \in Tasks, Release(t) PROVE TypeOK'
    <2>1. task[t].proc \in Procs /\ task[t].event \in Events
      BY <1>20, AtTyped DEF Release, Places
    <2> QED BY <1>20, <2>1 DEF Release, Released, TypeOK
  <1>21. ASSUME NEW t \in Tasks, CannotFind(t) PROVE TypeOK'
    <2>1. task[t] \in Task /\ task[t].event \in Events
      BY <1>21, AtTyped DEF CannotFind, Places
    <2>2. task' \in [Tasks -> Task \cup {NoTask}]
      BY <1>21, <2>1, GoesTyped DEF CannotFind, Places, NotFound
    <2> QED BY EventsAssumption, <1>21, <2>1, <2>2 DEF CannotFind, TypeOK
  <1>22. ASSUME NEW t \in Tasks, CannotHandle(t) PROVE TypeOK'
    <2>1. task[t] \in Task /\ task[t].event \in Events
      BY <1>22, AtTyped DEF CannotHandle, Places
    <2>2. task' \in [Tasks -> Task \cup {NoTask}]
      BY <1>22, <2>1, GoesTyped DEF CannotHandle, Places
    <2> QED BY EventsAssumption, <1>22, <2>1, <2>2 DEF CannotHandle, TypeOK
  <1>23. ASSUME NEW t \in Tasks, Panics(t) PROVE TypeOK'
    <2>1. task[t] \in Task /\ task[t].event \in Events
      BY <1>23, AtTyped DEF Panics, Places
    <2>2. task' \in [Tasks -> Task \cup {NoTask}]
      BY <1>23, <2>1, GoesTyped DEF Panics, Places
    <2> QED BY EventsAssumption, <1>23, <2>1, <2>2 DEF Panics, TypeOK
  <1>24. ASSUME NEW t \in Tasks, CannotMark(t) PROVE TypeOK'
    <2>1. task[t] \in Task /\ task[t].event \in Events
      BY <1>24, AtTyped DEF CannotMark, Places
    <2>2. task' \in [Tasks -> Task \cup {NoTask}]
      BY <1>24, <2>1, GoesTyped DEF CannotMark, Places
    <2> QED BY EventsAssumption, <1>24, <2>1, <2>2 DEF CannotMark, TypeOK
  <1>25. ASSUME NEW t \in Tasks, CannotUpdate(t) PROVE TypeOK'
    <2>1. task[t] \in Task /\ task[t].event \in Events
      BY <1>25, AtTyped DEF CannotUpdate, Places
    <2>2. task' \in [Tasks -> Task \cup {NoTask}]
      BY <1>25, <2>1, GoesTyped DEF CannotUpdate, Places
    <2> QED BY EventsAssumption, <1>25, <2>1, <2>2 DEF CannotUpdate, TypeOK
  <1>26. ASSUME FlushSelects PROVE TypeOK'
    BY EventsAssumption, <1>26 DEF FlushSelects, Pending, TypeOK
  <1>27. ASSUME NEW e \in Events, FlushLooks(e) PROVE TypeOK'
    BY EventsAssumption, <1>27 DEF FlushLooks, TypeOK
  <1>28. ASSUME FlushAdds PROVE TypeOK'
    BY EventsAssumption, <1>28 DEF FlushAdds, TypeOK
  <1>29. ASSUME CleanReads PROVE TypeOK'
    BY <1>29 DEF CleanReads, TypeOK
  <1>30. ASSUME CleanDeletes PROVE TypeOK'
    BY <1>30 DEF CleanDeletes, Deleted, TypeOK
  <1>31. ASSUME CleanForgets PROVE TypeOK'
    BY <1>31 DEF CleanForgets, CleanerIdle, TypeOK
  <1>32. ASSUME CleansProcessed PROVE TypeOK'
    BY <1>32 DEF CleansProcessed, TypeOK
  <1>33. ASSUME WorkerStops PROVE TypeOK'
    BY EventsAssumption, <1>33 DEF WorkerStops, FlusherIdle, CleanerIdle, TypeOK
  <1>34. ASSUME LeavesGuild PROVE TypeOK'
    <2>1. faults' \in 0 .. MaxFaults
      BY EventsAssumption, <1>34 DEF LeavesGuild, TypeOK
    <2>2. onGuild' \in BOOLEAN
      BY <1>34 DEF LeavesGuild
    <2> QED BY <1>34, <2>1, <2>2 DEF LeavesGuild, TypeOK
  <1>35. ASSUME JoinsGuild PROVE TypeOK'
    BY <1>35 DEF JoinsGuild, TypeOK
  <1>36. ASSUME ShardRemoved PROVE TypeOK'
    BY EventsAssumption, <1>36 DEF ShardRemoved, TypeOK
  <1>37. CASE UNCHANGED vars
    BY <1>37 DEF TypeOK
  <1> QED
    BY <1>1, <1>2, <1>3, <1>4, <1>5, <1>6, <1>7, <1>8, <1>9, <1>10, <1>11, <1>12, 
       <1>13, <1>14, <1>15, <1>16, <1>17, <1>18, <1>19, <1>20, <1>21, <1>22, <1>23, 
       <1>24, <1>25, <1>26, <1>27, <1>28, <1>29, <1>30, <1>31, <1>32, <1>33, <1>34, 
       <1>35, <1>36, <1>37
    DEF Next, CheckStep, TaskStep, FlushStep, CleanStep, Fault

(* Type correctness, whatever the number of events, processes and failures. *)
THEOREM Typing == Spec => []TypeOK
  BY TypingInit, TypingNext, PTL DEF Spec

-----------------------------------------------------------------------------
\* What Redis, the workers and the goroutines deal with has been inserted.
Inserted == {e \in Events : row[e] # "new"}

Known ==
  /\ soon \cup scheduling \cup recent \cup flusher.list \cup cleaner.ids \subseteq Inserted
  /\ flusher.item \in Inserted \cup {NoEvent}
  /\ \A p \in Procs : checking[p] \subseteq Inserted
  /\ \A t \in Tasks : task[t] # NoTask => task[t].event \in Inserted

LEMMA KnownInit == Init => Known
  BY SMTT(30) DEF Init, Known, FlusherIdle, CleanerIdle

LEMMA KnownNext == TypeOK /\ Known /\ [Next]_vars => Known'
  <1> SUFFICES ASSUME TypeOK, Known, [Next]_vars PROVE Known'
    OBVIOUS
  <1> USE DEF vars, redis, procs, bot, bgw, past, Known, Inserted
  <1>1. ASSUME NEW e \in Events, ScheduleEvent(e) PROVE Known'
    BY <1>1 DEF ScheduleEvent, TypeOK
  <1>2. ASSUME NEW e \in Events, FlushNow(e) PROVE Known'
    BY <1>2 DEF FlushNow, TypeOK
  <1>3. ASSUME NEW e \in Events, Cancel(e) PROVE Known'
    BY <1>3 DEF Cancel, TypeOK
  <1>4. ASSUME NEW e \in Events, BecomesDue(e) PROVE Known'
    BY <1>4 DEF BecomesDue, TypeOK
  <1>5. ASSUME NEW e \in Events, FlushNever(e) PROVE Known'
    BY <1>5 DEF FlushNever, TypeOK
  <1>6. ASSUME NEW p \in Procs, CheckStarts(p) PROVE Known'
    BY <1>6 DEF CheckStarts, TypeOK
  <1>7. ASSUME NEW p \in Procs, NEW e \in Events, Skip(p, e) PROVE Known'
    BY <1>7 DEF Skip, TypeOK, Checked
  <1>8. ASSUME NEW p \in Procs, NEW e \in Events, Remove(p, e) PROVE Known'
    <2>1. PICK t \in Tasks :
            /\ task'[t].event = e /\ \A u \in Tasks : u # t => task'[u] = task[u]
      BY <1>8, SpawnTyped DEF Remove, Places
    <2> QED BY <1>8, <2>1 DEF Remove, Checked, TypeOK
  <1>9. ASSUME NEW p \in Procs, NEW e \in Events, Unlist(p, e) PROVE Known'
    BY <1>9 DEF Unlist, TypeOK, Checked
  <1>10. ASSUME NEW p \in Procs, NEW e \in Events, Process(p, e) PROVE Known'
    <2>1. PICK t \in Tasks :
            /\ task'[t].event = e /\ \A u \in Tasks : u # t => task'[u] = task[u]
      BY <1>10, SpawnTyped DEF Process, Places
    <2> QED BY <1>10, <2>1 DEF Process, Considers, Checked, TypeOK
  <1>11. ASSUME NEW p \in Procs, ShardReady(p) PROVE Known'
    BY <1>11 DEF ShardReady, TypeOK
  <1>12. ASSUME NEW p \in Procs, Crash(p) PROVE Known'
    BY <1>12 DEF Crash, TypeOK
  <1>13. ASSUME NEW t \in Tasks, Finds(t) PROVE Known'
    <2>1. task[t] \in Task /\ task[t].event \in Events /\ task[t] # NoTask
      BY <1>13, AtTyped DEF Finds, At, NoTask, Places
    <2>2. /\ \A u \in Tasks : u # t => task'[u] = task[u]
          /\ task'[t].event = task[t].event
      BY <1>13, <2>1, GoesTyped DEF Finds, Places
    <2> QED BY <1>13, <2>1, <2>2 DEF Finds, TypeOK
  <1>14. ASSUME NEW t \in Tasks, Handles(t) PROVE Known'
    <2>1. task[t] \in Task /\ task[t].event \in Events /\ task[t] # NoTask
      BY <1>14, AtTyped DEF Handles, At, NoTask, Places
    <2>2. /\ \A u \in Tasks : u # t => task'[u] = task[u]
          /\ task'[t].event = task[t].event
      BY <1>14, <2>1, GoesTyped DEF Handles, Places
    <2> QED BY <1>14, <2>1, <2>2 DEF Handles, TypeOK
  <1>15. ASSUME NEW t \in Tasks, Retries(t) PROVE Known'
    <2>1. task[t] \in Task /\ task \in [Tasks -> Task \cup {NoTask}]
      BY <1>15, AtTyped DEF Retries, Places, TypeOK
    <2>2. /\ task'[t].at = task[t].at /\ task'[t].event = task[t].event /\ task[t] # NoTask
          /\ \A u \in Tasks : u # t => task'[u] = task[u]
      BY <1>15, <2>1 DEF Retries, Task, NoTask, At
    <2> QED BY <1>15, <2>1, <2>2 DEF Retries, TypeOK
  <1>16. ASSUME NEW t \in Tasks, GivesUp(t) PROVE Known'
    <2>1. task[t] \in Task /\ task[t].event \in Events /\ task[t] # NoTask
      BY <1>16, AtTyped DEF GivesUp, At, NoTask, Places
    <2>2. /\ \A u \in Tasks : u # t => task'[u] = task[u]
          /\ task'[t].event = task[t].event
      BY <1>16, <2>1, GoesTyped DEF GivesUp, Places
    <2> QED BY <1>16, <2>1, <2>2 DEF GivesUp, TypeOK
  <1>17. ASSUME NEW t \in Tasks, Marks(t) PROVE Known'
    <2>1. task[t] \in Task /\ task[t].event \in Events /\ task[t] # NoTask
      BY <1>17, AtTyped DEF Marks, At, NoTask, Places
    <2>2. /\ \A u \in Tasks : u # t => task'[u] = task[u]
          /\ task'[t].event = task[t].event
      BY SMTT(30), <1>17, <2>1, GoesTyped DEF Marks, Places
    <2> QED BY <1>17, <2>1, <2>2 DEF Marks, TypeOK
  <1>18. ASSUME NEW t \in Tasks, Updates(t) PROVE Known'
    <2>1. task[t] \in Task /\ task[t].event \in Events /\ task[t] # NoTask
      BY <1>18, AtTyped DEF Updates, At, NoTask, Places
    <2>2. /\ \A u \in Tasks : u # t => task'[u] = task[u]
          /\ task'[t].event = task[t].event
      BY <1>18, <2>1, GoesTyped DEF Updates, Places
    <2> QED BY <1>18, <2>1, <2>2 DEF Updates, TypeOK
  <1>19. ASSUME NEW t \in Tasks, Unlists(t) PROVE Known'
    <2>1. task[t] \in Task /\ task[t].event \in Events /\ task[t] # NoTask
      BY <1>19, AtTyped DEF Unlists, At, NoTask, Places
    <2>2. /\ \A u \in Tasks : u # t => task'[u] = task[u]
          /\ task'[t].event = task[t].event
      BY <1>19, <2>1, GoesTyped DEF Unlists, Places
    <2> QED BY <1>19, <2>1, <2>2 DEF Unlists, TypeOK
  <1>20. ASSUME NEW t \in Tasks, Release(t) PROVE Known'
    <2>1. \A u \in Tasks : u # t => task'[u] = task[u]
      BY <1>20 DEF Release, TypeOK
    <2>2. task'[t] = NoTask
      BY <1>20 DEF Release, TypeOK
    <2> QED BY <1>20, <2>1, <2>2 DEF Release, NoTask, TypeOK
  <1>21. ASSUME NEW t \in Tasks, CannotFind(t) PROVE Known'
    <2>1. task[t] \in Task /\ task[t].event \in Events /\ task[t] # NoTask
      BY <1>21, AtTyped DEF CannotFind, At, NoTask, Places
    <2>2. /\ \A u \in Tasks : u # t => task'[u] = task[u]
          /\ task'[t].event = task[t].event
      BY <1>21, <2>1, GoesTyped DEF CannotFind, Places, NotFound
    <2> QED BY <1>21, <2>1, <2>2 DEF CannotFind, TypeOK
  <1>22. ASSUME NEW t \in Tasks, CannotHandle(t) PROVE Known'
    <2>1. task[t] \in Task /\ task[t].event \in Events /\ task[t] # NoTask
      BY <1>22, AtTyped DEF CannotHandle, At, NoTask, Places
    <2>2. /\ \A u \in Tasks : u # t => task'[u] = task[u]
          /\ task'[t].event = task[t].event
      BY <1>22, <2>1, GoesTyped DEF CannotHandle, Places
    <2> QED BY <1>22, <2>1, <2>2 DEF CannotHandle, TypeOK
  <1>23. ASSUME NEW t \in Tasks, Panics(t) PROVE Known'
    <2>1. task[t] \in Task /\ task[t].event \in Events /\ task[t] # NoTask
      BY <1>23, AtTyped DEF Panics, At, NoTask, Places
    <2>2. /\ \A u \in Tasks : u # t => task'[u] = task[u]
          /\ task'[t].event = task[t].event
      BY <1>23, <2>1, GoesTyped DEF Panics, Places
    <2> QED BY <1>23, <2>1, <2>2 DEF Panics, TypeOK
  <1>24. ASSUME NEW t \in Tasks, CannotMark(t) PROVE Known'
    <2>1. task[t] \in Task /\ task[t].event \in Events /\ task[t] # NoTask
      BY <1>24, AtTyped DEF CannotMark, At, NoTask, Places
    <2>2. /\ \A u \in Tasks : u # t => task'[u] = task[u]
          /\ task'[t].event = task[t].event
      BY <1>24, <2>1, GoesTyped DEF CannotMark, Places
    <2> QED BY <1>24, <2>1, <2>2 DEF CannotMark, TypeOK
  <1>25. ASSUME NEW t \in Tasks, CannotUpdate(t) PROVE Known'
    <2>1. task[t] \in Task /\ task[t].event \in Events /\ task[t] # NoTask
      BY <1>25, AtTyped DEF CannotUpdate, At, NoTask, Places
    <2>2. /\ \A u \in Tasks : u # t => task'[u] = task[u]
          /\ task'[t].event = task[t].event
      BY <1>25, <2>1, GoesTyped DEF CannotUpdate, Places
    <2> QED BY <1>25, <2>1, <2>2 DEF CannotUpdate, TypeOK
  <1>26. ASSUME FlushSelects PROVE Known'
    BY <1>26 DEF FlushSelects, TypeOK, Pending
  <1>27. ASSUME NEW e \in Events, FlushLooks(e) PROVE Known'
    BY <1>27 DEF FlushLooks, TypeOK
  <1>28. ASSUME FlushAdds PROVE Known'
    BY <1>28 DEF FlushAdds, TypeOK
  <1>29. ASSUME CleanReads PROVE Known'
    BY <1>29 DEF CleanReads, TypeOK
  <1>30. ASSUME CleanDeletes PROVE Known'
    BY <1>30 DEF CleanDeletes, TypeOK, Deleted
  <1>31. ASSUME CleanForgets PROVE Known'
    BY <1>31 DEF CleanForgets, TypeOK, CleanerIdle
  <1>32. ASSUME CleansProcessed PROVE Known'
    BY <1>32 DEF CleansProcessed, TypeOK
  <1>33. ASSUME WorkerStops PROVE Known'
    BY <1>33 DEF WorkerStops, TypeOK, FlusherIdle, CleanerIdle
  <1>34. ASSUME LeavesGuild PROVE Known'
    BY <1>34 DEF LeavesGuild, TypeOK
  <1>35. ASSUME JoinsGuild PROVE Known'
    BY <1>35 DEF JoinsGuild, TypeOK
  <1>36. ASSUME ShardRemoved PROVE Known'
    BY <1>36 DEF ShardRemoved, TypeOK
  <1>37. CASE UNCHANGED vars
    BY <1>37
  <1> QED
    BY <1>1, <1>2, <1>3, <1>4, <1>5, <1>6, <1>7, <1>8, <1>9, <1>10, <1>11, <1>12,
       <1>13, <1>14, <1>15, <1>16, <1>17, <1>18, <1>19, <1>20, <1>21, <1>22, <1>23,
       <1>24, <1>25, <1>26, <1>27, <1>28, <1>29, <1>30, <1>31, <1>32, <1>33, <1>34,
       <1>35, <1>36, <1>37
    DEF Next, CheckStep, TaskStep, FlushStep, CleanStep, Fault

-----------------------------------------------------------------------------
\* Marks are made, and rows go, only of events that are settled.
SettledInv ==
  /\ \A e \in Events : row[e] \in {"processed", "gone"} => e \in settled
  /\ recent \subseteq settled /\ cleaner.ids \subseteq settled
  /\ \A t \in Tasks : At(t, "mark") => task[t].event \in settled

LEMMA SettledInit == Init => SettledInv
  BY DEF Init, SettledInv, CleanerIdle, At, NoTask

LEMMA SettledNext ==
  TypeOK /\ Known /\ SettledInv /\ [Next]_vars => SettledInv'
  <1> SUFFICES ASSUME TypeOK, Known, SettledInv, [Next]_vars PROVE SettledInv'
    OBVIOUS
  <1> USE DEF vars, redis, procs, bot, bgw, past, SettledInv, At
  <1>1. ASSUME NEW e \in Events, ScheduleEvent(e) PROVE SettledInv'
    BY <1>1 DEF ScheduleEvent, TypeOK
  <1>2. ASSUME NEW e \in Events, FlushNow(e) PROVE SettledInv'
    BY <1>2 DEF FlushNow, TypeOK
  <1>3. ASSUME NEW e \in Events, Cancel(e) PROVE SettledInv'
    BY <1>3 DEF Cancel, TypeOK
  <1>4. ASSUME NEW e \in Events, BecomesDue(e) PROVE SettledInv'
    BY <1>4 DEF BecomesDue, TypeOK
  <1>5. ASSUME NEW e \in Events, FlushNever(e) PROVE SettledInv'
    BY <1>5 DEF FlushNever, TypeOK
  <1>6. ASSUME NEW p \in Procs, CheckStarts(p) PROVE SettledInv'
    BY <1>6 DEF CheckStarts, TypeOK
  <1>7. ASSUME NEW p \in Procs, NEW e \in Events, Skip(p, e) PROVE SettledInv'
    BY <1>7 DEF Skip, TypeOK, Checked
  <1>8. ASSUME NEW p \in Procs, NEW e \in Events, Remove(p, e) PROVE SettledInv'
    <2>1. PICK t \in Tasks :
            /\ task'[t].event = e /\ task'[t].at = "update"
            /\ \A u \in Tasks : u # t => task'[u] = task[u]
      BY <1>8, SpawnTyped DEF Remove, Places
    <2> QED BY <1>8, <2>1 DEF Remove, Checked, TypeOK
  <1>9. ASSUME NEW p \in Procs, NEW e \in Events, Unlist(p, e) PROVE SettledInv'
    BY <1>9 DEF Unlist, TypeOK, Checked
  <1>10. ASSUME NEW p \in Procs, NEW e \in Events, Process(p, e) PROVE SettledInv'
    <2>1. PICK t \in Tasks :
            /\ task'[t].event = e /\ task'[t].at = "find"
            /\ \A u \in Tasks : u # t => task'[u] = task[u]
      BY <1>10, SpawnTyped DEF Process, Places
    <2> QED BY <1>10, <2>1 DEF Process, Checked, TypeOK
  <1>11. ASSUME NEW p \in Procs, ShardReady(p) PROVE SettledInv'
    BY <1>11 DEF ShardReady, TypeOK
  <1>12. ASSUME NEW p \in Procs, Crash(p) PROVE SettledInv'
    BY <1>12 DEF Crash, TypeOK, NoTask
  <1>13. ASSUME NEW t \in Tasks, Finds(t) PROVE SettledInv'
    <2>1. task[t] \in Task /\ task[t].event \in Events /\ task[t] # NoTask
      BY <1>13, AtTyped DEF Finds, At, NoTask, Places
    <2>2. /\ \A u \in Tasks : u # t => task'[u] = task[u]
          /\ task'[t].event = task[t].event
          /\ task'[t].at = IF row[task[t].event] = "pending" THEN "handle" ELSE "mark"
      BY <1>13, <2>1, GoesTyped DEF Finds, Places
    <2> QED BY <1>13, <2>1, <2>2 DEF Finds, TypeOK, Known, Inserted
  <1>14. ASSUME NEW t \in Tasks, Handles(t) PROVE SettledInv'
    <2>1. task[t] \in Task /\ task[t].event \in Events /\ task[t] # NoTask
      BY <1>14, AtTyped DEF Handles, At, NoTask, Places
    <2>2. /\ \A u \in Tasks : u # t => task'[u] = task[u]
          /\ task'[t].event = task[t].event /\ task'[t].at = "mark"
      BY <1>14, <2>1, GoesTyped DEF Handles, Places
    <2> QED BY <1>14, <2>1, <2>2 DEF Handles, TypeOK
  <1>15. ASSUME NEW t \in Tasks, Retries(t) PROVE SettledInv'
    <2>1. task[t] \in Task /\ task \in [Tasks -> Task \cup {NoTask}]
      BY <1>15, AtTyped DEF Retries, Places, TypeOK
    <2>2. /\ task'[t].at = task[t].at /\ task'[t].event = task[t].event /\ task[t] # NoTask
          /\ \A u \in Tasks : u # t => task'[u] = task[u]
      BY <1>15, <2>1 DEF Retries, Task, NoTask, At
    <2> QED BY <1>15, <2>1, <2>2 DEF Retries, TypeOK
  <1>16. ASSUME NEW t \in Tasks, GivesUp(t) PROVE SettledInv'
    <2>1. task[t] \in Task /\ task[t].event \in Events /\ task[t] # NoTask
      BY <1>16, AtTyped DEF GivesUp, At, NoTask, Places
    <2>2. /\ \A u \in Tasks : u # t => task'[u] = task[u]
          /\ task'[t].event = task[t].event /\ task'[t].at = "mark"
      BY <1>16, <2>1, GoesTyped DEF GivesUp, Places
    <2> QED BY <1>16, <2>1, <2>2 DEF GivesUp, TypeOK
  <1>17. ASSUME NEW t \in Tasks, Marks(t) PROVE SettledInv'
    <2>1. task[t] \in Task /\ task[t].event \in Events /\ task[t] # NoTask
      BY <1>17, AtTyped DEF Marks, At, NoTask, Places
    <2>2. /\ \A u \in Tasks : u # t => task'[u] = task[u]
          /\ task'[t].event = task[t].event /\ task'[t].at = "release"
      BY <1>17, <2>1, GoesTyped DEF Marks, Places
    <2> QED BY <1>17, <2>1, <2>2 DEF Marks, TypeOK
  <1>18. ASSUME NEW t \in Tasks, Updates(t) PROVE SettledInv'
    <2>1. task[t] \in Task /\ task[t].event \in Events /\ task[t] # NoTask
      BY <1>18, AtTyped DEF Updates, At, NoTask, Places
    <2>2. /\ \A u \in Tasks : u # t => task'[u] = task[u]
          /\ task'[t].event = task[t].event /\ task'[t].at = "zrem"
      BY <1>18, <2>1, GoesTyped DEF Updates, Places
    <2> QED BY <1>18, <2>1, <2>2 DEF Updates, TypeOK
  <1>19. ASSUME NEW t \in Tasks, Unlists(t) PROVE SettledInv'
    <2>1. task[t] \in Task /\ task[t].event \in Events /\ task[t] # NoTask
      BY <1>19, AtTyped DEF Unlists, At, NoTask, Places
    <2>2. /\ \A u \in Tasks : u # t => task'[u] = task[u]
          /\ task'[t].event = task[t].event /\ task'[t].at = "release"
      BY <1>19, <2>1, GoesTyped DEF Unlists, Places
    <2> QED BY <1>19, <2>1, <2>2 DEF Unlists, TypeOK
  <1>20. ASSUME NEW t \in Tasks, Release(t) PROVE SettledInv'
    <2>1. \A u \in Tasks : u # t => task'[u] = task[u]
      BY <1>20 DEF Release, TypeOK
    <2>2. task'[t] = NoTask
      BY <1>20 DEF Release, TypeOK
    <2> QED BY <1>20, <2>1, <2>2 DEF Release, NoTask, TypeOK
  <1>21. ASSUME NEW t \in Tasks, CannotFind(t) PROVE SettledInv'
    <2>1. task[t] \in Task /\ task[t].event \in Events /\ task[t] # NoTask
      BY <1>21, AtTyped DEF CannotFind, At, NoTask, Places
    <2>2. /\ \A u \in Tasks : u # t => task'[u] = task[u]
          /\ task'[t].event = task[t].event /\ task'[t].at = NotFound
      BY <1>21, <2>1, GoesTyped DEF CannotFind, Places, NotFound
    <2> QED BY <1>21, <2>1, <2>2 DEF CannotFind, TypeOK, NotFound
  <1>22. ASSUME NEW t \in Tasks, CannotHandle(t) PROVE SettledInv'
    <2>1. task[t] \in Task /\ task[t].event \in Events /\ task[t] # NoTask
      BY <1>22, AtTyped DEF CannotHandle, At, NoTask, Places
    <2>2. /\ \A u \in Tasks : u # t => task'[u] = task[u]
          /\ task'[t].event = task[t].event /\ task'[t].at = "mark"
      BY <1>22, <2>1, GoesTyped DEF CannotHandle, Places
    <2> QED BY <1>22, <2>1, <2>2 DEF CannotHandle, TypeOK
  <1>23. ASSUME NEW t \in Tasks, Panics(t) PROVE SettledInv'
    <2>1. task[t] \in Task /\ task[t].event \in Events /\ task[t] # NoTask
      BY <1>23, AtTyped DEF Panics, At, NoTask, Places
    <2>2. /\ \A u \in Tasks : u # t => task'[u] = task[u]
          /\ task'[t].event = task[t].event /\ task'[t].at = "release"
      BY <1>23, <2>1, GoesTyped DEF Panics, Places
    <2> QED BY <1>23, <2>1, <2>2 DEF Panics, TypeOK
  <1>24. ASSUME NEW t \in Tasks, CannotMark(t) PROVE SettledInv'
    <2>1. task[t] \in Task /\ task[t].event \in Events /\ task[t] # NoTask
      BY <1>24, AtTyped DEF CannotMark, At, NoTask, Places
    <2>2. /\ \A u \in Tasks : u # t => task'[u] = task[u]
          /\ task'[t].event = task[t].event /\ task'[t].at = "release"
      BY <1>24, <2>1, GoesTyped DEF CannotMark, Places
    <2> QED BY <1>24, <2>1, <2>2 DEF CannotMark, TypeOK
  <1>25. ASSUME NEW t \in Tasks, CannotUpdate(t) PROVE SettledInv'
    <2>1. task[t] \in Task /\ task[t].event \in Events /\ task[t] # NoTask
      BY <1>25, AtTyped DEF CannotUpdate, At, NoTask, Places
    <2>2. /\ \A u \in Tasks : u # t => task'[u] = task[u]
          /\ task'[t].event = task[t].event /\ task'[t].at = "release"
      BY <1>25, <2>1, GoesTyped DEF CannotUpdate, Places
    <2> QED BY <1>25, <2>1, <2>2 DEF CannotUpdate, TypeOK
  <1>26. ASSUME FlushSelects PROVE SettledInv'
    BY <1>26 DEF FlushSelects, TypeOK, Pending
  <1>27. ASSUME NEW e \in Events, FlushLooks(e) PROVE SettledInv'
    BY <1>27 DEF FlushLooks, TypeOK
  <1>28. ASSUME FlushAdds PROVE SettledInv'
    BY <1>28 DEF FlushAdds, TypeOK
  <1>29. ASSUME CleanReads PROVE SettledInv'
    BY <1>29 DEF CleanReads, TypeOK
  <1>30. ASSUME CleanDeletes PROVE SettledInv'
    BY <1>30 DEF CleanDeletes, TypeOK, Deleted
  <1>31. ASSUME CleanForgets PROVE SettledInv'
    BY <1>31 DEF CleanForgets, TypeOK, CleanerIdle
  <1>32. ASSUME CleansProcessed PROVE SettledInv'
    BY <1>32 DEF CleansProcessed, TypeOK
  <1>33. ASSUME WorkerStops PROVE SettledInv'
    BY <1>33 DEF WorkerStops, TypeOK, FlusherIdle, CleanerIdle
  <1>34. ASSUME LeavesGuild PROVE SettledInv'
    BY <1>34 DEF LeavesGuild, TypeOK
  <1>35. ASSUME JoinsGuild PROVE SettledInv'
    BY <1>35 DEF JoinsGuild, TypeOK
  <1>36. ASSUME ShardRemoved PROVE SettledInv'
    BY <1>36 DEF ShardRemoved, TypeOK
  <1>37. CASE UNCHANGED vars
    BY <1>37
  <1> QED
    BY <1>1, <1>2, <1>3, <1>4, <1>5, <1>6, <1>7, <1>8, <1>9, <1>10, <1>11, <1>12,
       <1>13, <1>14, <1>15, <1>16, <1>17, <1>18, <1>19, <1>20, <1>21, <1>22, <1>23,
       <1>24, <1>25, <1>26, <1>27, <1>28, <1>29, <1>30, <1>31, <1>32, <1>33, <1>34,
       <1>35, <1>36, <1>37
    DEF Next, CheckStep, TaskStep, FlushStep, CleanStep, Fault

\* The invariant under which rows are deleted.
DropInv == TypeOK /\ Known /\ SettledInv

(* No row is deleted whose event was not settled, for every number of events,
   processes, goroutines and failures.                                      *)
THEOREM NoneDropped == Spec => []NothingIsDropped
  <1>1. Init => DropInv
    BY TypingInit, KnownInit, SettledInit DEF DropInv
  <1>2. DropInv /\ [Next]_vars => DropInv'
    BY TypingNext, KnownNext, SettledNext DEF DropInv
  <1>3. DropInv => NothingIsDropped
    BY DEF DropInv, SettledInv, NothingIsDropped
  <1> QED BY <1>1, <1>2, <1>3, PTL DEF Spec

-----------------------------------------------------------------------------
(***************************************************************************)
(* An event runs once, and once more at the most for each break.           *)
(***************************************************************************)

\* The row of e is there, or will be, and nobody has done e.
Open(e)     == row[e] \in {"new", "pending"}
CanStart(e) == Open(e) /\ e \notin recent

(* The goroutines that may yet run the handler of e, and those that may let
   another goroutine be started for e when they are released.               *)
Left(e) ==
  {t \in Tasks : /\ task[t].event = e
                 /\ \/ At(t, "handle")
                    \/ Open(e) /\ At(t, "find")
                    \/ CanStart(e) /\ At(t, "release")}

\* A goroutine may be started for e, at once or when the shard is ready.
NewOne(e) == CanStart(e) /\ (home = NoProc \/ e \notin processing[home])

Chance(e) == IF NewOne(e) THEN 1 ELSE 0

(* The runs of e that there were and those still to come are accounted for by
   one and the breaks.                                                      *)
Accounts(e) == ran[e] + Cardinality(Left(e)) + Chance(e) <= 1 + breaks

(* A goroutine that has got past its update leaves no open row behind, and the
   cleanup deletes a row before it forgets that the event is done.          *)
Closes(e) ==
  /\ \A t \in Tasks : task[t].event = e /\ At(t, "zrem") => ~Open(e)
  /\ cleaner.deleted /\ e \in cleaner.ids => ~Open(e)

CountInv == \A e \in Events : Accounts(e) /\ Closes(e)

LEMMA LeftFinite ==
  ASSUME NEW e
  PROVE  IsFiniteSet(Left(e)) /\ Cardinality(Left(e)) \in Nat
  <1>1. IsFiniteSet(Tasks)
    BY EventsAssumption, FS_Interval DEF Tasks
  <1>2. Left(e) \subseteq Tasks
    BY DEF Left
  <1> QED BY <1>1, <1>2, FS_Subset, FS_CardinalityType

(* The same for the state after a step. *)
LEMMA LeftFiniteNext ==
  ASSUME NEW e
  PROVE  IsFiniteSet(Left(e)') /\ Cardinality(Left(e)') \in Nat
  <1>1. IsFiniteSet(Tasks)
    BY EventsAssumption, FS_Interval DEF Tasks
  <1>2. Left(e)' \subseteq Tasks
    BY DEF Left
  <1> QED BY <1>1, <1>2, FS_Subset, FS_CardinalityType

LEMMA CountInit == Init => CountInv
  <1> SUFFICES ASSUME Init, NEW e \in Events PROVE Accounts(e) /\ Closes(e)
    BY DEF CountInv
  <1>1. \A t \in Tasks : task[t] = NoTask
    BY DEF Init
  <1>2. Left(e) = {}
    BY <1>1 DEF Left, At, NoTask
  <1>3. Cardinality(Left(e)) = 0
    BY <1>2, FS_EmptySet
  <1>4. ran[e] = 0 /\ breaks = 0
    BY DEF Init
  <1>5. Accounts(e)
    BY <1>3, <1>4 DEF Accounts, Chance
  <1>6. Closes(e)
    BY <1>1 DEF Init, Closes, At, NoTask, CleanerIdle
  <1> QED BY <1>5, <1>6

-----------------------------------------------------------------------------
(***************************************************************************)
(* The ways in which a step may change the account of an event.            *)
(***************************************************************************)

\* Nothing more is left to run, or a break is to blame for one chance more.
KeepsAll(e) ==
  /\ Left(e)' \subseteq Left(e) /\ ran'[e] = ran[e]
  /\ \/ breaks' = breaks /\ (NewOne(e)' => NewOne(e))
     \/ breaks' = breaks + 1

\* One goroutine is done: it ran the handler, or it makes room for another.
TakesOne(e) ==
  /\ \E t \in Left(e) : Left(e)' \subseteq Left(e) \ {t}
  /\ breaks' = breaks
  /\ \/ ran'[e] = ran[e] + 1 /\ (NewOne(e)' => NewOne(e))
     \/ ran'[e] = ran[e]

\* One more is left to run: it was started, or a break is to blame for it.
AddsOne(e) ==
  /\ \E t \in Tasks : Left(e)' \subseteq Left(e) \cup {t}
  /\ ran'[e] = ran[e]
  /\ \/ breaks' = breaks /\ NewOne(e) /\ ~NewOne(e)'
     \/ breaks' = breaks + 1 /\ (NewOne(e)' => NewOne(e))

LEMMA AccountKept ==
  ASSUME TypeOK, NEW e \in Events, Accounts(e), KeepsAll(e) \/ TakesOne(e) \/ AddsOne(e)
  PROVE  Accounts(e)'
  <1> DEFINE L == Left(e)
             M == Left(e)'
  <1>1. /\ IsFiniteSet(L) /\ Cardinality(L) \in Nat
        /\ IsFiniteSet(M) /\ Cardinality(M) \in Nat
    BY LeftFinite, LeftFiniteNext
  <1>2. ran[e] \in Nat /\ breaks \in Nat
    BY EventsAssumption DEF TypeOK
  <1>3. ran[e] + Cardinality(L) + Chance(e) <= 1 + breaks
    BY DEF Accounts
  <1>4. Chance(e) \in {0, 1} /\ Chance(e)' \in {0, 1}
    BY DEF Chance
  <1>5. /\ NewOne(e) => Chance(e) = 1
        /\ ~NewOne(e)' => Chance(e)' = 0
        /\ (NewOne(e)' => NewOne(e)) => Chance(e)' <= Chance(e)
    BY DEF Chance
  <1>6. SUFFICES ran'[e] + Cardinality(M) + Chance(e)' <= 1 + breaks'
    BY DEF Accounts
  <1> HIDE DEF L, M
  <1>7. CASE KeepsAll(e)
    <2>1. Cardinality(M) <= Cardinality(L)
      BY <1>1, <1>7, FS_Subset DEF KeepsAll, L, M
    <2>2. CASE breaks' = breaks /\ (NewOne(e)' => NewOne(e))
      BY <1>1, <1>2, <1>3, <1>4, <1>5, <1>7, <2>1, <2>2 DEF KeepsAll
    <2>3. CASE breaks' = breaks + 1
      BY <1>1, <1>2, <1>3, <1>4, <1>7, <2>1, <2>3 DEF KeepsAll
    <2> QED BY <1>7, <2>2, <2>3 DEF KeepsAll
  <1>8. CASE TakesOne(e)
    <2>1. PICK t \in L : M \subseteq L \ {t}
      BY <1>8 DEF TakesOne, L, M
    <2>2. IsFiniteSet(L \ {t}) /\ Cardinality(L \ {t}) = Cardinality(L) - 1
      BY <1>1, <2>1, FS_RemoveElement
    <2>3. Cardinality(M) <= Cardinality(L) - 1
      BY <2>1, <2>2, FS_Subset
    <2>4. CASE ran'[e] = ran[e] + 1 /\ (NewOne(e)' => NewOne(e))
      BY <1>1, <1>2, <1>3, <1>4, <1>5, <1>8, <2>3, <2>4 DEF TakesOne
    <2>5. CASE ran'[e] = ran[e]
      BY <1>1, <1>2, <1>3, <1>4, <1>8, <2>3, <2>5 DEF TakesOne
    <2> QED BY <1>8, <2>4, <2>5 DEF TakesOne
  <1>9. CASE AddsOne(e)
    <2>1. PICK t \in Tasks : M \subseteq L \cup {t}
      BY <1>9 DEF AddsOne, L, M
    <2>2. /\ IsFiniteSet(L \cup {t})
          /\ Cardinality(L \cup {t}) = IF t \in L THEN Cardinality(L) ELSE Cardinality(L) + 1
      BY <1>1, FS_AddElement
    <2>3. Cardinality(M) <= Cardinality(L) + 1
      <3>1. Cardinality(M) <= Cardinality(L \cup {t})
        BY <2>1, <2>2, FS_Subset
      <3> QED BY <1>1, <2>2, <3>1
    <2>4. CASE breaks' = breaks /\ NewOne(e) /\ ~NewOne(e)'
      BY <1>1, <1>2, <1>3, <1>4, <1>5, <1>9, <2>3, <2>4 DEF AddsOne
    <2>5. CASE breaks' = breaks + 1 /\ (NewOne(e)' => NewOne(e))
      BY <1>1, <1>2, <1>3, <1>4, <1>5, <1>9, <2>3, <2>5 DEF AddsOne
    <2> QED BY <1>9, <2>4, <2>5 DEF AddsOne
  <1> QED BY <1>7, <1>8, <1>9

\* What a step of a goroutine leaves alone.
Stumbles(t) ==
  CannotFind(t) \/ CannotHandle(t) \/ Panics(t) \/ CannotMark(t) \/ CannotUpdate(t)

LEMMA Moves ==
  ASSUME TypeOK, NEW t \in Tasks, TaskStep(t) \/ Stumbles(t)
  PROVE  /\ task[t] # NoTask /\ task[t].event \in Events
         /\ task'[t].event = task[t].event /\ task'[t].proc = task[t].proc
         /\ \A u \in Tasks : u # t => task'[u] = task[u]
         /\ UNCHANGED <<home, checking, processing>>
  <1>1. \E place \in Places : At(t, place)
    BY DEF TaskStep, Stumbles, Finds, Handles, Retries, GivesUp, Marks, Updates, Unlists,
           CannotFind, CannotHandle, Panics, CannotMark, CannotUpdate, Places
  <1>2. task[t] \in Task /\ task[t].event \in Events /\ task[t] # NoTask
    BY <1>1, AtTyped DEF At, NoTask, Places
  <1>3. CASE Retries(t)
    <2>1. task' = [task EXCEPT ![t] = [task[t] EXCEPT !.tries = @ + 1]]
      BY <1>3 DEF Retries
    <2> QED BY <1>2, <1>3, <2>1 DEF Retries, procs, bot, Task, TypeOK
  <1>4. CASE \E place \in Places : Goes(t, place)
    <2>1. UNCHANGED <<home, checking, processing>>
      BY DEF TaskStep, Stumbles, Finds, Handles, Retries, GivesUp, Marks, Updates, Unlists,
             CannotFind, CannotHandle, Panics, CannotMark, CannotUpdate, bot, procs
    <2> QED BY <1>2, <1>4, <2>1, GoesTyped
  <1>5. Retries(t) \/ \E place \in Places : Goes(t, place)
    BY DEF TaskStep, Stumbles, Finds, Handles, Retries, GivesUp, Marks, Updates, Unlists,
           CannotFind, CannotHandle, Panics, CannotMark, CannotUpdate, Places, NotFound
  <1> QED BY <1>2, <1>3, <1>4, <1>5

-----------------------------------------------------------------------------
(* One event, in a step of the program.                                    *)
LEMMA EventNext ==
  ASSUME TypeOK, Known, [Next]_vars, NEW f \in Events, Closes(f)
  PROVE  /\ KeepsAll(f) \/ TakesOne(f) \/ AddsOne(f)
         /\ Closes(f)'
  <1> USE DEF vars, redis, procs, bot, bgw, past
  <1> DEFINE Good == (KeepsAll(f) \/ TakesOne(f) \/ AddsOne(f)) /\ Closes(f)'
  <1>1. CASE UNCHANGED <<row, recent, home, processing, task, cleaner, ran, breaks>>
    BY <1>1 DEF KeepsAll, Closes, Left, NewOne, CanStart, Open, At
  <1>2. ASSUME NEW e \in Events, ScheduleEvent(e) PROVE Good
    <2>1. row'[f] = IF f = e THEN "pending" ELSE row[f]
      BY <1>2 DEF ScheduleEvent, TypeOK
    <2>2. Open(f)' = Open(f)
      BY <1>2, <2>1 DEF ScheduleEvent, Open
    <2> QED BY <1>2, <2>2 DEF ScheduleEvent, KeepsAll, Closes, Left, NewOne, CanStart, At
  <1>3. ASSUME NEW e \in Events, Cancel(e) PROVE Good
    <2>1. Open(f)' => Open(f)
      BY <1>3 DEF Cancel, TypeOK, Open
    <2> QED BY <1>3, <2>1 DEF Cancel, KeepsAll, Closes, Left, NewOne, CanStart, At
  <1>4. ASSUME NEW p \in Procs, NEW e \in Events, Remove(p, e) PROVE Good
    <2>1. PICK t \in Tasks : /\ task'[t].at = "update"
                             /\ \A u \in Tasks : u # t => task'[u] = task[u]
      BY <1>4, SpawnTyped DEF Remove, Places
    <2>2. Left(f)' \subseteq Left(f)
      BY <1>4, <2>1 DEF Remove, Left, CanStart, Open, At
    <2>3. Closes(f)'
      BY <1>4, <2>1 DEF Remove, Closes, Open, At
    <2> QED BY <1>4, <2>2, <2>3 DEF Remove, KeepsAll, NewOne, CanStart, Open
  <1>5. ASSUME NEW p \in Procs, NEW e \in Events, Process(p, e) PROVE Good
    <2>1. PICK t \in Tasks : /\ task'[t].at = "find" /\ task'[t].event = e
                             /\ \A u \in Tasks : u # t => task'[u] = task[u]
      BY <1>5, SpawnTyped DEF Process, Places
    <2>2. home = p /\ e \notin processing[p] /\ e \notin recent /\ home # NoProc
      BY <1>5, EventsAssumption DEF Process, Considers, NotDone
    <2>3. processing'[p] = processing[p] \cup {e}
      BY <1>5 DEF Process, TypeOK
    <2>4. UNCHANGED <<row, recent, home, ran, breaks, cleaner>>
      BY <1>5 DEF Process
    <2>5. Closes(f)'
      BY <2>1, <2>4 DEF Closes, Open, At
    <2>6. CASE e = f /\ Open(f)
      <3>1. Left(f)' \subseteq Left(f) \cup {t}
        BY <2>1, <2>4 DEF Left, CanStart, Open, At
      <3>2. NewOne(f) /\ ~NewOne(f)'
        BY <2>2, <2>3, <2>4, <2>6 DEF NewOne, CanStart, Open
      <3> QED BY <2>4, <2>5, <3>1, <3>2 DEF AddsOne
    <2>7. CASE ~(e = f /\ Open(f))
      <3>1. Left(f)' \subseteq Left(f)
        BY <2>1, <2>4, <2>7 DEF Left, CanStart, Open, At
      <3>2. NewOne(f)' => NewOne(f)
        BY <2>2, <2>3, <2>4, <2>7 DEF NewOne, CanStart, Open
      <3> QED BY <2>4, <2>5, <3>1, <3>2 DEF KeepsAll
    <2> QED BY <2>6, <2>7
  <1>6. ASSUME NEW t \in Tasks, Finds(t) PROVE Good
    <2>1. /\ task[t].event \in Events /\ task'[t].event = task[t].event
          /\ \A u \in Tasks : u # t => task'[u] = task[u]
          /\ processing' = processing /\ home' = home
      BY <1>6, Moves DEF TaskStep
    <2>2. task'[t].at = IF row[task[t].event] = "pending" THEN "handle" ELSE "mark"
      BY <1>6, GoesTyped, AtTyped DEF Finds, Places
    <2>3. Left(f)' \subseteq Left(f)
      BY <1>6, <2>1, <2>2 DEF Finds, Left, CanStart, Open, At
    <2>4. Closes(f)'
      BY <1>6, <2>1, <2>2 DEF Finds, Closes, Open, At
    <2> QED BY <1>6, <2>1, <2>3, <2>4 DEF Finds, KeepsAll, NewOne, CanStart, Open
  <1>7. ASSUME NEW t \in Tasks, Handles(t) PROVE Good
    <2>1. /\ task[t].event \in Events /\ task'[t].event = task[t].event
          /\ \A u \in Tasks : u # t => task'[u] = task[u]
          /\ processing' = processing /\ home' = home
      BY <1>7, Moves DEF TaskStep
    <2>2. task'[t].at = "mark"
      BY <1>7, GoesTyped, AtTyped DEF Handles, Places
    <2>3. ran'[f] = IF task[t].event = f THEN ran[f] + 1 ELSE ran[f]
      BY <1>7, <2>1 DEF Handles, TypeOK
    <2>4. Closes(f)'
      BY <1>7, <2>1, <2>2 DEF Handles, Closes, Open, At
    <2>5. NewOne(f)' => NewOne(f)
      BY <1>7 DEF Handles, NewOne, CanStart, Open
    <2>6. CASE task[t].event = f
      <3>1. t \in Left(f)
        BY <1>7, <2>6 DEF Handles, Left
      <3>2. Left(f)' \subseteq Left(f) \ {t}
        BY <1>7, <2>1, <2>2 DEF Handles, Left, CanStart, Open, At
      <3> QED BY <1>7, <2>3, <2>4, <2>5, <2>6, <3>1, <3>2 DEF Handles, TakesOne
    <2>7. CASE task[t].event # f
      <3>1. Left(f)' \subseteq Left(f)
        BY <1>7, <2>1, <2>7 DEF Handles, Left, CanStart, Open, At
      <3> QED BY <1>7, <2>3, <2>4, <2>5, <2>7, <3>1 DEF Handles, KeepsAll
    <2> QED BY <2>6, <2>7
  <1>8. ASSUME NEW t \in Tasks, Retries(t) PROVE Good
    <2>1. /\ task[t].event \in Events /\ task'[t].event = task[t].event
          /\ \A u \in Tasks : u # t => task'[u] = task[u]
          /\ processing' = processing /\ home' = home
      BY <1>8, Moves DEF TaskStep
    <2>2. task'[t].at = task[t].at
      <3>1. task[t] \in Task
        BY <1>8, AtTyped DEF Retries, Places
      <3> QED BY <1>8, <3>1 DEF Retries, Task, TypeOK
    <2>3. Left(f)' \subseteq Left(f)
      BY <1>8, <2>1, <2>2 DEF Retries, Left, CanStart, Open, At
    <2>4. Closes(f)'
      BY <1>8, <2>1, <2>2 DEF Retries, Closes, Open, At
    <2> QED BY <1>8, <2>1, <2>3, <2>4 DEF Retries, KeepsAll, NewOne, CanStart, Open
  <1>9. ASSUME NEW t \in Tasks, GivesUp(t) PROVE Good
    <2>1. /\ task[t].event \in Events /\ task'[t].event = task[t].event
          /\ \A u \in Tasks : u # t => task'[u] = task[u]
          /\ processing' = processing /\ home' = home
      BY <1>9, Moves DEF TaskStep
    <2>2. task'[t].at = "mark"
      BY <1>9, GoesTyped, AtTyped DEF GivesUp, Places
    <2>3. Left(f)' \subseteq Left(f)
      BY <1>9, <2>1, <2>2 DEF GivesUp, Left, CanStart, Open, At
    <2>4. Closes(f)'
      BY <1>9, <2>1, <2>2 DEF GivesUp, Closes, Open, At
    <2> QED BY <1>9, <2>1, <2>3, <2>4 DEF GivesUp, KeepsAll, NewOne, CanStart, Open
  <1>10. ASSUME NEW t \in Tasks, Marks(t) PROVE Good
    <2>1. /\ task[t].event \in Events /\ task'[t].event = task[t].event
          /\ \A u \in Tasks : u # t => task'[u] = task[u]
          /\ processing' = processing /\ home' = home
      BY <1>10, Moves DEF TaskStep
    <2>2. task'[t].at = "release"
      BY <1>10, GoesTyped, AtTyped DEF Marks, Places
    <2>3. Left(f)' \subseteq Left(f)
      BY <1>10, <2>1, <2>2 DEF Marks, Left, CanStart, Open, At
    <2>4. Closes(f)'
      BY <1>10, <2>1, <2>2 DEF Marks, Closes, Open, At
    <2> QED BY <1>10, <2>1, <2>3, <2>4 DEF Marks, KeepsAll, NewOne, CanStart, Open
  <1>11. ASSUME NEW t \in Tasks, Updates(t) PROVE Good
    <2>1. /\ task[t].event \in Events /\ task'[t].event = task[t].event
          /\ \A u \in Tasks : u # t => task'[u] = task[u]
          /\ processing' = processing /\ home' = home
      BY <1>11, Moves DEF TaskStep
    <2>2. task'[t].at = "zrem"
      BY <1>11, GoesTyped, AtTyped DEF Updates, Places
    <2>3. /\ Open(f)' => Open(f)
          /\ task[t].event = f => ~Open(f)'
      <3>1. row'[f] = IF f = task[t].event /\ row[f] = "pending" THEN "processed" ELSE row[f]
        BY <1>11, <2>1 DEF Updates, TypeOK
      <3>2. task[t].event = f => row[f] # "new"
        BY <1>11, <2>1, Moves DEF TaskStep, Known, Inserted
      <3> QED BY <3>1, <3>2 DEF Open
    <2>4. Left(f)' \subseteq Left(f)
      BY <1>11, <2>1, <2>2, <2>3 DEF Updates, Left, CanStart, At
    <2>5. Closes(f)'
      BY <1>11, <2>1, <2>2, <2>3 DEF Updates, Closes, At
    <2> QED BY <1>11, <2>1, <2>3, <2>4, <2>5 DEF Updates, KeepsAll, NewOne, CanStart
  <1>12. ASSUME NEW t \in Tasks, Unlists(t) PROVE Good
    <2>1. /\ task[t].event \in Events /\ task'[t].event = task[t].event
          /\ \A u \in Tasks : u # t => task'[u] = task[u]
          /\ processing' = processing /\ home' = home
      BY <1>12, Moves DEF TaskStep
    <2>2. task'[t].at = "release"
      BY <1>12, GoesTyped, AtTyped DEF Unlists, Places
    <2>3. task[t].event = f => ~Open(f)
      BY <1>12 DEF Unlists, Closes
    <2>4. Left(f)' \subseteq Left(f)
      BY <1>12, <2>1, <2>2, <2>3 DEF Unlists, Left, CanStart, Open, At
    <2>5. Closes(f)'
      BY <1>12, <2>1, <2>2 DEF Unlists, Closes, Open, At
    <2> QED BY <1>12, <2>1, <2>4, <2>5 DEF Unlists, KeepsAll, NewOne, CanStart, Open
  <1>13. ASSUME NEW t \in Tasks, CannotFind(t) PROVE Good
    <2>1. /\ task[t].event \in Events /\ task'[t].event = task[t].event
          /\ \A u \in Tasks : u # t => task'[u] = task[u]
          /\ processing' = processing /\ home' = home
      BY <1>13, Moves DEF Stumbles
    <2>2. task'[t].at = "release"
      BY <1>13, GoesTyped, AtTyped DEF CannotFind, Places, NotFound
    <2>3. Left(f)' \subseteq Left(f)
      BY <1>13, <2>1, <2>2 DEF CannotFind, Left, CanStart, Open, At
    <2>4. Closes(f)'
      BY <1>13, <2>1, <2>2 DEF CannotFind, Closes, Open, At
    <2> QED BY <1>13, <2>1, <2>3, <2>4 DEF CannotFind, KeepsAll, NewOne, CanStart, Open
  <1>14. ASSUME NEW t \in Tasks, CannotHandle(t) PROVE Good
    <2>1. /\ task[t].event \in Events /\ task'[t].event = task[t].event
          /\ \A u \in Tasks : u # t => task'[u] = task[u]
          /\ processing' = processing /\ home' = home
      BY <1>14, Moves DEF Stumbles
    <2>2. task'[t].at = "mark"
      BY <1>14, GoesTyped, AtTyped DEF CannotHandle, Places
    <2>3. Left(f)' \subseteq Left(f)
      BY <1>14, <2>1, <2>2 DEF CannotHandle, Left, CanStart, Open, At
    <2>4. Closes(f)'
      BY <1>14, <2>1, <2>2 DEF CannotHandle, Closes, Open, At
    <2> QED BY <1>14, <2>1, <2>3, <2>4 DEF CannotHandle, KeepsAll, NewOne, CanStart, Open
  <1>15. ASSUME NEW t \in Tasks, Panics(t) PROVE Good
    <2>1. /\ task[t].event \in Events /\ task'[t].event = task[t].event
          /\ \A u \in Tasks : u # t => task'[u] = task[u]
          /\ processing' = processing /\ home' = home
      BY <1>15, Moves DEF Stumbles
    <2>2. task'[t].at = "release"
      BY <1>15, GoesTyped, AtTyped DEF Panics, Places
    <2>3. Left(f)' \subseteq Left(f)
      BY <1>15, <2>1, <2>2 DEF Panics, Left, CanStart, Open, At
    <2>4. Closes(f)'
      BY <1>15, <2>1, <2>2 DEF Panics, Closes, Open, At
    <2> QED BY <1>15, <2>1, <2>3, <2>4 DEF Panics, KeepsAll, NewOne, CanStart, Open
  <1>16. ASSUME NEW t \in Tasks, CannotMark(t) PROVE Good
    <2>1. /\ task[t].event \in Events /\ task'[t].event = task[t].event
          /\ \A u \in Tasks : u # t => task'[u] = task[u]
          /\ processing' = processing /\ home' = home
      BY <1>16, Moves DEF Stumbles
    <2>2. task'[t].at = "release"
      BY <1>16, GoesTyped, AtTyped DEF CannotMark, Places
    <2>3. Left(f)' \subseteq Left(f) \cup {t}
      BY <1>16, <2>1, <2>2 DEF CannotMark, Left, CanStart, Open, At
    <2>4. Closes(f)'
      BY <1>16, <2>1, <2>2 DEF CannotMark, Closes, Open, At
    <2> QED BY <1>16, <2>1, <2>3, <2>4 DEF CannotMark, AddsOne, NewOne, CanStart, Open
  <1>17. ASSUME NEW t \in Tasks, CannotUpdate(t) PROVE Good
    <2>1. /\ task[t].event \in Events /\ task'[t].event = task[t].event
          /\ \A u \in Tasks : u # t => task'[u] = task[u]
          /\ processing' = processing /\ home' = home
      BY <1>17, Moves DEF Stumbles
    <2>2. task'[t].at = "release"
      BY <1>17, GoesTyped, AtTyped DEF CannotUpdate, Places
    <2>3. Left(f)' \subseteq Left(f) \cup {t}
      BY <1>17, <2>1, <2>2 DEF CannotUpdate, Left, CanStart, Open, At
    <2>4. Closes(f)'
      BY <1>17, <2>1, <2>2 DEF CannotUpdate, Closes, Open, At
    <2> QED BY <1>17, <2>1, <2>3, <2>4 DEF CannotUpdate, AddsOne, NewOne, CanStart, Open
  <1>18. ASSUME NEW t \in Tasks, Release(t) PROVE Good
    <2>1. /\ task'[t] = NoTask /\ \A u \in Tasks : u # t => task'[u] = task[u]
          /\ task[t].proc \in Procs
      BY <1>18, AtTyped DEF Release, TypeOK, Places
    <2>2. processing' = [processing EXCEPT ![task[t].proc] = @ \ {task[t].event}]
      BY <1>18 DEF Release, Released
    <2>3. Left(f)' \subseteq Left(f) \ {t}
      BY <1>18, <2>1, EventsAssumption DEF Release, Left, CanStart, Open, At, NoTask
    <2>4. Closes(f)'
      BY <1>18, <2>1 DEF Release, Closes, Open, At, NoTask
    <2>5. CASE task[t].event = f /\ CanStart(f)
      <3>1. t \in Left(f)
        BY <1>18, <2>5 DEF Release, Left
      <3> QED BY <1>18, <2>3, <2>4, <3>1 DEF Release, TakesOne
    <2>6. CASE ~(task[t].event = f /\ CanStart(f))
      <3>1. NewOne(f)' => NewOne(f)
        <4>1. home \in Procs => processing'[home] \cup {task[t].event} = processing[home] \cup {task[t].event}
          BY <2>1, <2>2 DEF TypeOK
        <4> QED BY <1>18, <2>6, <4>1 DEF Release, NewOne, CanStart, Open, TypeOK
      <3> QED BY <1>18, <2>3, <2>4, <3>1 DEF Release, KeepsAll
    <2> QED BY <2>5, <2>6
  <1>19. CASE CleanReads \/ WorkerStops
    <2>1. Closes(f)'
      BY <1>19 DEF CleanReads, WorkerStops, CleanerIdle, Closes, Open, At
    <2> QED BY <1>19, <2>1 DEF CleanReads, WorkerStops, KeepsAll, Left, NewOne, CanStart, Open, At
  <1>20. CASE CleanDeletes
    <2>1. row'[f] = IF f \in cleaner.ids THEN "gone" ELSE row[f]
      BY <1>20 DEF CleanDeletes, Deleted
    <2>2. cleaner'.ids = cleaner.ids
      BY <1>20 DEF CleanDeletes, TypeOK
    <2>3. /\ Open(f)' => Open(f)
          /\ f \in cleaner'.ids => ~Open(f)'
      BY <2>1, <2>2 DEF Open
    <2>4. Closes(f)'
      BY <1>20, <2>3 DEF CleanDeletes, Closes, At
    <2> QED BY <1>20, <2>3, <2>4 DEF CleanDeletes, KeepsAll, Left, NewOne, CanStart, At
  <1>21. CASE CleanForgets
    <2>1. CanStart(f)' => CanStart(f)
      BY <1>21 DEF CleanForgets, Closes, CanStart, Open
    <2>2. Closes(f)'
      BY <1>21 DEF CleanForgets, CleanerIdle, Closes, Open, At
    <2> QED BY <1>21, <2>1, <2>2 DEF CleanForgets, KeepsAll, Left, NewOne, Open, At
  <1>22. CASE CleansProcessed
    <2>1. Open(f)' = Open(f)
      BY <1>22 DEF CleansProcessed, Open
    <2> QED BY <1>22, <2>1 DEF CleansProcessed, KeepsAll, Closes, Left, NewOne, CanStart, At
  <1>23. CASE ShardRemoved
    BY <1>23 DEF ShardRemoved, KeepsAll, Closes, Left, CanStart, Open, At
  <1>24. ASSUME NEW p \in Procs, ShardReady(p) PROVE Good
    BY <1>24 DEF ShardReady, KeepsAll, Closes, Left, NewOne, CanStart, Open, At
  <1>25. ASSUME NEW p \in Procs, Crash(p) PROVE Good
    <2>1. \A t \in Tasks : task'[t] = NoTask \/ task'[t] = task[t]
      BY <1>25 DEF Crash
    <2>2. Left(f)' \subseteq Left(f)
      BY <1>25, <2>1 DEF Crash, Left, CanStart, Open, At, NoTask
    <2>3. Closes(f)'
      BY <1>25, <2>1 DEF Crash, Closes, Open, At, NoTask
    <2> QED BY <1>25, <2>2, <2>3 DEF Crash, KeepsAll
  <1>26. ASSUME NEW e \in Events,
                FlushNow(e) \/ BecomesDue(e) \/ FlushNever(e) \/ FlushLooks(e)
         PROVE  Good
    BY <1>1, <1>26 DEF FlushNow, BecomesDue, FlushNever, FlushLooks
  <1>27. ASSUME NEW p \in Procs, NEW e \in Events, Skip(p, e) \/ Unlist(p, e)
         PROVE  Good
    BY <1>1, <1>27 DEF Skip, Unlist
  <1>28. CASE FlushSelects \/ FlushAdds \/ LeavesGuild \/ JoinsGuild
    BY <1>1, <1>28 DEF FlushSelects, FlushAdds, LeavesGuild, JoinsGuild
  <1>29. ASSUME NEW p \in Procs, CheckStarts(p) PROVE Good
    BY <1>1, <1>29 DEF CheckStarts
  <1>30. CASE UNCHANGED vars
    BY <1>1, <1>30
  <1> QED
    BY <1>2, <1>3, <1>4, <1>5, <1>6, <1>7, <1>8, <1>9, <1>10, <1>11, <1>12, <1>13, <1>14,
       <1>15, <1>16, <1>17, <1>18, <1>19, <1>20, <1>21, <1>22, <1>23, <1>24, <1>25, <1>26,
       <1>27, <1>28, <1>29, <1>30
    DEF Next, CheckStep, TaskStep, FlushStep, CleanStep, Fault

(* The handler of an event is done with it once, and once more at the most for
   each crash, each move of the shard and each write that fails: neither the
   copies of old rows, nor the cleanup between two looks at recently_done, nor
   handlers that ask for another try or panic, nor leaving the guild and coming
   back make it run again.                                                  *)
THEOREM RunsOncePerBreak == Spec => []RunsOnce
  <1> DEFINE Inv == TypeOK /\ Known /\ CountInv
  <1>1. Init => Inv
    BY TypingInit, KnownInit, CountInit
  <1>2. Inv /\ [Next]_vars => Inv'
    <2> SUFFICES ASSUME TypeOK, Known, CountInv, [Next]_vars PROVE CountInv'
      BY TypingNext, KnownNext
    <2> SUFFICES ASSUME NEW e \in Events PROVE Accounts(e)' /\ Closes(e)'
      BY DEF CountInv
    <2> QED BY EventNext, AccountKept DEF CountInv
  <1>3. Inv => RunsOnce
    <2> SUFFICES ASSUME TypeOK, CountInv, NEW e \in Events PROVE ran[e] <= 1 + breaks
      BY DEF RunsOnce
    <2>1. Cardinality(Left(e)) \in Nat /\ Chance(e) \in {0, 1}
      BY LeftFinite DEF Chance
    <2>2. ran[e] \in Nat /\ breaks \in Nat
      BY EventsAssumption DEF TypeOK
    <2>3. ran[e] + Cardinality(Left(e)) + Chance(e) <= 1 + breaks
      BY DEF CountInv, Accounts
    <2> QED BY <2>1, <2>2, <2>3
  <1> QED BY <1>1, <1>2, <1>3, PTL DEF Spec
=============================================================================
