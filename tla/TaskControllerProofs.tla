------------------------ MODULE TaskControllerProofs ------------------------
(***************************************************************************)
(* TaskController for any Specs, delays and horizon: what a Task that is   *)
(* left alone (no edit, restart or fault) can count on.  Until such a Task *)
(* is archived, the running pass works on the current copy, and a request  *)
(* in the queue and a delayed one exclude each other; so when a pass runs  *)
(* it does so because its time has come.                                   *)
(***************************************************************************)
EXTENDS TaskController, TLAPS

Copies == {task, cache, res}

\* Only edits change a spec.
Same == edits = 0 => cache.spec = task.spec /\ res.spec = task.spec

\* The running pass has the Task as it is, and there is one request for it at
\* most, in the queue, delayed or being served.
Lockstep ==
    /\ task.exists /\ cache.exists /\ ~cache.deleting /\ cache.gen = task.gen
    /\ pc # "unfinalize"
    /\ pc # "idle" => res = task /\ ~queued /\ wake = NoTime
    /\ queued => cache = task /\ wake = NoTime
    /\ wake # NoTime => wake > now \/ cache = task
    /\ pc \in {"finalizer", "archive"} => cache.phase = task.phase
    /\ pc \notin {"idle", "finalizer"} => task.finalizer

\* A request for a scheduled Task is due at its ExecuteTime or later.
Due == now = MaxTime \/ now >= task.executeAt
OnTime ==
    task.phase = "Scheduled" =>
        /\ queued \/ pc # "idle" => Due
        /\ wake # NoTime => wake >= task.executeAt \/ Due

\* A Task that runs once: it has not run, or it is archived, or it is on its way
\* there, past its RunTime.
Single(spec) == ~spec.schedule /\ spec.offset > 0 /\ spec.runTime < MaxTime
Past ==
    /\ runs = 1
    /\ \/ pc = "complete" /\ now >= task.spec.runTime
       \/ pc = "finish"
       \/ task.phase = "Archiving" /\ pc \in {"idle", "finalizer", "archive"}
       \/ /\ task.phase = "Completed" /\ ~OneTime(task.spec)
          /\ pc \in {"idle", "finalizer", "archive", "plan", "schedule"}
          /\ queued \/ pc # "idle" => now > task.spec.runTime
          /\ wake # NoTime => wake > task.spec.runTime
       \/ /\ task.phase = "Completed" /\ OneTime(task.spec)
          /\ pc = "idle" /\ ~queued /\ wake = NoTime
Once ==
    Single(task.spec) =>
        /\ task.phase = "Scheduled" => task.executeAt = task.spec.runTime
        /\ pc = "dispatch" => now >= task.spec.runTime
        /\ runs = 0 \/ Past

\* A Task is archived when no run is left, or after the only one.
Through(spec) == runs > 0 \/ spec.schedule \/ (spec.runTime # NoTime /\ spec.runTime < now)
Archived ==
    /\ \A t \in Copies : t.phase = "Archiving" => Through(task.spec)
    /\ pc \in {"complete", "finish"} => runs > 0
    /\ pc = "finish" => OneTime(task.spec) /\ (~task.deleting => task.phase = "Completed")
    /\ task.phase = "Archiving" /\ ~OneTime(task.spec) => Expired(task.spec)

\* It is deleted only then, and not scheduled any more.
Leaving ==
    ~OneTime(task.spec) => Expired(task.spec) /\ \A t \in Copies : t.phase # "Scheduled"

LeftAlone ==
    Untouched =>
        /\ Archived
        /\ task.deleting => Leaving
        /\ ~task.deleting => Lockstep /\ OnTime /\ Once

IInv == TypeOK /\ Same /\ LeftAlone

\* The times are integers.
LEMMA TimesAreInts ==
    ASSUME NEW spec \in Specs, TypeOK
    PROVE  /\ NextRun(spec) \in Int /\ ExecuteTime(spec) \in Int /\ Termination(spec) \in Int
           /\ spec.runTime \in Nat /\ spec.offset \in Int /\ spec.schedule \in BOOLEAN
           /\ OneTime(spec) \in BOOLEAN
<1>1. /\ spec.runTime \in Nat /\ spec.offset \in Int /\ spec.schedule \in BOOLEAN
    BY SpecsAssumption, TaskAssumption DEF Times, NoTime
<1>2. (now \div Period + 1) * Period \in Int
    BY TaskAssumption DEF TypeOK, Times
<1> QED BY <1>1, <1>2 DEF NextRun, ExecuteTime, Termination, OneTime

\* The clock only moves the next run of a schedule away.
LEMMA ExpiredStays ==
    ASSUME NEW spec \in Specs, TypeOK, Expired(spec), now' = now \/ now' = now + 1
    PROVE  Expired(spec)'
<1> DEFINE next(t) == (t \div Period + 1) * Period
<1>1. Period \in Nat \ {0} /\ now \in Nat
    BY TaskAssumption DEF TypeOK, Times
<1>2. next(now) \in Int /\ next(now + 1) \in Int /\ next(now) <= next(now + 1)
  <2> DEFINE a == now \div Period
             b == (now + 1) \div Period
  <2>1. a \in Int /\ b \in Int /\ a <= b
    BY <1>1
  <2> HIDE DEF a, b
  <2>2. (a + 1) * Period <= (b + 1) * Period
    BY <1>1, <2>1
  <2>3. (a + 1) * Period \in Int /\ (b + 1) * Period \in Int
    BY <1>1, <2>1
  <2> QED BY <2>2, <2>3 DEF a, b
<1>3. spec.runTime \in Nat
    BY TimesAreInts
<1> QED BY <1>1, <1>2, <1>3 DEF Expired, NextRun, NoTime

\* What the writes make of a Task.
Written(t) ==
    /\ \A phase \in Phases :
        /\ [t EXCEPT !.phase = phase] \in Objects
        /\ \A n \in Int : [t EXCEPT !.phase = phase, !.executeAt = n] \in Objects
    /\ [t EXCEPT !.finalizer = TRUE] \in Objects
    /\ [t EXCEPT !.exists = FALSE] \in Objects
    /\ [t EXCEPT !.deleting = TRUE, !.gen = @ + 1] \in Objects
    /\ \A s \in Specs : [t EXCEPT !.spec = s, !.gen = @ + 1] \in Objects
    /\ t.executeAt \in Int /\ t.spec \in Specs /\ t.exists \in BOOLEAN

LEMMA WritesKeepTypes == ASSUME NEW t \in Objects PROVE Written(t)
<1>1. t.gen \in Nat /\ t.executeAt \in Int /\ t.spec \in Specs
    BY DEF Objects
<1>2. ASSUME NEW g \in Nat
      PROVE  /\ [t EXCEPT !.deleting = TRUE, !.gen = g] \in Objects
             /\ \A s \in Specs : [t EXCEPT !.spec = s, !.gen = g] \in Objects
    BY DEF Objects
<1>3. t.gen + 1 \in Nat
    BY <1>1
<1>4. ASSUME NEW phase \in Phases
      PROVE  /\ [t EXCEPT !.phase = phase] \in Objects
             /\ \A n \in Int : [t EXCEPT !.phase = phase, !.executeAt = n] \in Objects
    BY DEF Objects
<1>5. [t EXCEPT !.finalizer = TRUE] \in Objects /\ [t EXCEPT !.exists = FALSE] \in Objects
    BY DEF Objects
<1>6. t.exists \in BOOLEAN
    BY DEF Objects
<1> QED BY <1>1, <1>2, <1>3, <1>4, <1>5, <1>6 DEF Written

\* Types hold in every reachable state.
LEMMA TypeStep == TypeOK /\ [Next]_vars => TypeOK'
<1> SUFFICES ASSUME TypeOK, [Next]_vars PROVE TypeOK'
    OBVIOUS
<1>n. /\ Period \in Nat /\ ReadyPoll \in Nat /\ RunPause \in Nat /\ DeletionDelay \in Nat
      /\ MaxTime \in Nat \ {0} /\ MaxRuns \in Nat \ {0} /\ MaxEdits \in Nat
      /\ MaxRestarts \in Nat /\ MaxFaults \in Nat
    BY TaskAssumption
<1>w. /\ task \in Objects /\ res \in Objects /\ cache \in Objects
      /\ now \in Nat /\ now >= 1 /\ now <= MaxTime
    BY <1>n DEF TypeOK, Times
<1>d. \A d \in Nat : After(d) \in Nat
    BY <1>w DEF After, TypeOK, NoTime
<1>o. Written(task) /\ Written(res)
    BY <1>w, WritesKeepTypes
<1> USE <1>n, <1>w DEF TypeOK, Done, Requeue, SetPhase, SetStatus, env, NoTime, Times
<1>1. CASE Begin \/ KeepFinalizer \/ Plan \/ Keep \/ NotReady
    BY <1>1, <1>d DEF Begin, KeepFinalizer, Plan, Keep, NotReady
<1>2. CASE Dispatch
    BY <1>2 DEF Dispatch
<1>3. CASE AddFinalizer \/ RemoveFinalizer
  <2>1. task' \in Objects /\ res' \in Objects
      BY <1>3, <1>o DEF AddFinalizer, RemoveFinalizer, Phases, Written
  <2> QED BY <1>3, <2>1 DEF AddFinalizer, RemoveFinalizer
<1>4. CASE MarkDeleting \/ NoTargets \/ StartRun \/ Complete \/ ToArchive
  <2>1. ASSUME NEW p \in Phases, SetPhase(p) PROVE task' \in Objects /\ res' \in Objects
      BY <1>o, <2>1 DEF Written
  <2>2. task' \in Objects /\ res' \in Objects
      BY <1>4, <2>1 DEF MarkDeleting, NoTargets, StartRun, Complete, ToArchive, Phases
  <2> QED BY <1>4, <1>d, <2>2 DEF MarkDeleting, NoTargets, StartRun, Complete, ToArchive
<1>5. CASE Archive \/ Delete
  <2>1. Marked(task) \in Objects
      BY <1>o DEF Marked, Written
  <2> QED BY <1>5, <2>1 DEF Archive, Delete
<1>6. CASE Schedule
  <2>1. ExecuteTime(res.spec) \in Int /\ Termination(res.spec) \in Int
      BY <1>o, TimesAreInts DEF Written
  <2>2. task' \in Objects /\ res' \in Objects
      BY <1>6, <1>o, <2>1 DEF Schedule, Phases, Written
  <2>3. wake' \in Nat
      BY <1>6, <1>d, <2>1 DEF Schedule
  <2> QED BY <1>6, <2>2, <2>3 DEF Schedule
<1>7. CASE Fail \/ FinalizerFails
  <2>1. [task EXCEPT !.phase = "Failed"] \in Objects
      BY <1>o DEF Written, Phases
  <2>2. task' \in Objects /\ res' \in Objects
      BY <1>7, <2>1 DEF Fail, FinalizerFails
  <2>3. faults' = faults \/ (faults' = faults + 1 /\ faults < MaxFaults)
      BY <1>7 DEF Fail, FinalizerFails
  <2>4. queued' \in BOOLEAN
      BY <1>7 DEF Fail, FinalizerFails
  <2>5. faults' \in 0..MaxFaults
      BY <2>3
  <2>6. pc' \in {"idle", "archive"} /\ UNCHANGED <<cache, wake, runs, now, ready, edits, restarts>>
      BY <1>7 DEF Fail, FinalizerFails
  <2> QED BY <2>2, <2>4, <2>5, <2>6
<1>8. CASE WakeUp
    BY <1>8 DEF WakeUp
<1>9. CASE SetReady
  <2>1. ready' \in BOOLEAN
      BY <1>9 DEF SetReady
  <2> QED BY <1>9, <2>1 DEF SetReady
<1>10. CASE Tick
    BY <1>10 DEF Tick
<1>11. CASE Informer
  <2>1. queued' \in BOOLEAN
      BY <1>11 DEF Informer
  <2> QED BY <1>11, <2>1 DEF Informer
<1>12. CASE Restart
  <2>1. queued' \in BOOLEAN
      BY <1>12, <1>o DEF Restart, Written
  <2> QED BY <1>12, <2>1 DEF Restart
<1>13. ASSUME NEW s \in Edits, Edit(s) PROVE TypeOK'
  <2>1. task' \in Objects
      BY <1>13, <1>o, SpecsAssumption DEF Edit, Written
  <2> QED BY <1>13, <2>1 DEF Edit
<1>14. CASE UNCHANGED vars
    BY <1>14 DEF vars
<1> QED BY <1>1, <1>2, <1>3, <1>4, <1>5, <1>6, <1>7, <1>8, <1>9, <1>10, <1>11, <1>12, <1>13, <1>14
        DEF Next, Reconcile

\* What can happen to a Task that is left alone.
Quiet ==
    \/ Reconcile \/ WakeUp \/ Informer \/ Tick \/ SetReady
    \/ ~task.exists /\ (Fail \/ FinalizerFails)
    \/ UNCHANGED vars

LEMMA LeftAloneWas ==
    TypeOK /\ [Next]_vars /\ Untouched' =>
        Untouched /\ Quiet /\ UNCHANGED <<edits, restarts, faults>>
<1> SUFFICES ASSUME TypeOK, [Next]_vars, Untouched'
             PROVE  Untouched /\ Quiet /\ UNCHANGED <<edits, restarts, faults>>
    OBVIOUS
<1> USE DEF TypeOK, Untouched, env
<1>1. CASE Reconcile
    BY <1>1 DEF Quiet, Reconcile, Begin, AddFinalizer, MarkDeleting, RemoveFinalizer, KeepFinalizer,
                Archive, NoTargets, NotReady, StartRun, Dispatch, Complete, Plan, Keep, ToArchive,
                Schedule
<1>2. CASE WakeUp \/ Informer \/ Tick \/ SetReady
    BY <1>2 DEF Quiet, WakeUp, Informer, Tick, SetReady
<1>3. CASE Fail \/ FinalizerFails
  <2>1. faults' = faults \/ faults' = faults + 1
      BY <1>3 DEF Fail, FinalizerFails
  <2>2. faults' = faults /\ faults = 0
      BY <2>1, TaskAssumption
  <2>3. ~task.exists
      BY <1>3, <2>2 DEF Fail, FinalizerFails
  <2> QED BY <1>3, <2>2, <2>3 DEF Quiet, Fail, FinalizerFails
<1>4. CASE Delete \/ Restart
    BY <1>4, TaskAssumption DEF Delete, Restart
<1>5. ASSUME NEW s \in Edits, Edit(s) PROVE FALSE
    BY <1>5, TaskAssumption DEF Edit
<1>6. CASE UNCHANGED vars
    BY <1>6 DEF Quiet, vars
<1> QED BY <1>1, <1>2, <1>3, <1>4, <1>5, <1>6 DEF Next

\* A status write, a finalizer and the watch leave the spec as it is.
LEMMA SameStep == TypeOK /\ Same /\ [Next]_vars => Same'
<1> SUFFICES ASSUME TypeOK, Same, [Next]_vars, edits' = 0 PROVE Same'
    BY DEF Same
<1> USE DEF TypeOK, Objects, Same, SetPhase, SetStatus, env
<1>1. CASE Reconcile
  <2>1. CASE Begin \/ KeepFinalizer \/ Dispatch \/ Plan \/ Keep \/ NotReady
      BY <1>1, <2>1 DEF Begin, KeepFinalizer, Dispatch, Plan, Keep, NotReady
  <2>2. CASE AddFinalizer \/ RemoveFinalizer \/ Archive
      BY <2>2 DEF AddFinalizer, RemoveFinalizer, Archive, Marked
  <2>3. CASE MarkDeleting \/ NoTargets \/ StartRun \/ Complete \/ ToArchive \/ Schedule
      BY <2>3 DEF MarkDeleting, NoTargets, StartRun, Complete, ToArchive, Schedule
  <2> QED BY <1>1, <2>1, <2>2, <2>3 DEF Reconcile
<1>2. CASE WakeUp \/ Informer \/ Tick \/ SetReady
    BY <1>2 DEF WakeUp, Informer, Tick, SetReady
<1>3. CASE Fail \/ FinalizerFails
    BY <1>3 DEF Fail, FinalizerFails
<1>4. CASE Delete \/ Restart
    BY <1>4, TaskAssumption DEF Delete, Restart, Marked
<1>5. ASSUME NEW s \in Edits, Edit(s) PROVE FALSE
    BY <1>5, TaskAssumption DEF Edit
<1>6. CASE UNCHANGED vars
    BY <1>6 DEF vars
<1> QED BY <1>1, <1>2, <1>3, <1>4, <1>5, <1>6 DEF Next

\* Whoever leaves a Task alone leaves its spec alone, and a deletion is final.
LEMMA QuietKeeps ==
    ASSUME IInv, [Next]_vars, Untouched'
    PROVE  /\ Untouched /\ Quiet
           /\ cache.spec = task.spec /\ res.spec = task.spec
           /\ task'.spec = task.spec /\ cache'.spec = task.spec /\ res'.spec = task.spec
           /\ task.deleting => task'.deleting
<1>1. Untouched /\ Quiet
    BY LeftAloneWas DEF IInv
<1>2. cache.spec = task.spec /\ res.spec = task.spec
    BY <1>1 DEF IInv, Same, Untouched
<1>3. cache'.spec = task'.spec /\ res'.spec = task'.spec
    BY SameStep DEF IInv, Same, Untouched
<1>4. task'.spec = task.spec /\ (task.deleting => task'.deleting)
  <2> USE DEF IInv, TypeOK, Objects, SetPhase, SetStatus, env
  <2>1. CASE Begin \/ KeepFinalizer \/ Dispatch \/ Plan \/ Keep \/ NotReady
      BY <2>1 DEF Begin, KeepFinalizer, Dispatch, Plan, Keep, NotReady
  <2>2. CASE AddFinalizer \/ RemoveFinalizer \/ Archive
      BY <2>2 DEF AddFinalizer, RemoveFinalizer, Archive, Marked
  <2>3. CASE MarkDeleting \/ NoTargets \/ StartRun \/ Complete \/ ToArchive \/ Schedule
      BY <2>3 DEF MarkDeleting, NoTargets, StartRun, Complete, ToArchive, Schedule
  <2>4. CASE WakeUp \/ Informer \/ Tick \/ SetReady \/ UNCHANGED vars
      BY <2>4 DEF WakeUp, Informer, Tick, SetReady, vars
  <2>5. CASE ~task.exists /\ (Fail \/ FinalizerFails)
      BY <2>5 DEF Fail, FinalizerFails
  <2> QED BY <1>1, <2>1, <2>2, <2>3, <2>4, <2>5 DEF Quiet, Reconcile
<1> QED BY <1>1, <1>2, <1>3, <1>4

\* Until it is being deleted, a Task that is left alone exists, its running pass
\* works on it, and the pass does not fail.
LEMMA LockstepStep ==
    ASSUME IInv, [Next]_vars, Untouched', ~task'.deleting
    PROVE  Lockstep'
<1> USE DEF Lockstep
<1>1. Lockstep /\ Quiet /\ ~task.deleting
    BY QuietKeeps DEF IInv, LeftAlone
<1>2. /\ ReadyPoll \in Nat \ {0} /\ RunPause \in Nat \ {0} /\ DeletionDelay \in Nat \ {0}
      /\ now \in Nat \ {0} /\ wake \in Nat
    BY TaskAssumption DEF IInv, TypeOK, Times
<1>3. /\ task \in Objects /\ cache \in Objects /\ res \in Objects
    BY DEF IInv, TypeOK
<1> USE <1>1, <1>2, <1>3 DEF SetPhase, SetStatus, env, Objects, Done
<1>4. CASE Begin
    BY <1>4 DEF Begin
<1>5. CASE AddFinalizer \/ MarkDeleting \/ KeepFinalizer
    BY <1>5 DEF AddFinalizer, MarkDeleting, KeepFinalizer
<1>6. CASE RemoveFinalizer
    BY <1>6 DEF RemoveFinalizer
<1>7. CASE Archive
    BY <1>7 DEF Archive, Marked
<1>8. CASE NotReady \/ Dispatch \/ Plan \/ Keep
    BY <1>8 DEF NotReady, Dispatch, Plan, Keep, Requeue, After, NoTime
<1>9. CASE NoTargets \/ StartRun \/ Complete \/ ToArchive
  <2>0. pc # "idle" /\ pc # "finalizer"
      BY <1>9 DEF NoTargets, StartRun, Complete, ToArchive, IsCompleted
  <2>1. ASSUME NEW d \in Nat \ {0}, Requeue(d) PROVE pc' = "idle" /\ wake' > now
      BY <2>0, <2>1 DEF Requeue, After, NoTime
  <2>2. \/ pc' = "idle" /\ (wake' = NoTime \/ wake' > now)
        \/ pc' \in {"dispatch", "finish"} /\ wake' = NoTime
      BY <1>9, <2>0, <2>1 DEF NoTargets, StartRun, Complete, ToArchive
  <2>3. UNCHANGED <<cache, queued, now>> /\ task.finalizer /\ ~queued
      BY <1>9, <2>0 DEF NoTargets, StartRun, Complete, ToArchive
  <2>4. ASSUME NEW p, SetPhase(p)
        PROVE  /\ task'.exists = task.exists /\ task'.gen = task.gen
               /\ task'.finalizer = task.finalizer /\ res' = task'
      BY <2>4
  <2>5. /\ task'.exists = task.exists /\ task'.gen = task.gen
        /\ task'.finalizer = task.finalizer /\ res' = task'
      BY <1>9, <2>4 DEF NoTargets, StartRun, Complete, ToArchive
  <2> QED BY <2>2, <2>3, <2>5
<1>10. CASE Schedule
  <2>1. ExecuteTime(res.spec) \in Int
      BY TimesAreInts DEF IInv
  <2>2. wake' # NoTime => wake' > now
      BY <1>10, <2>1 DEF Schedule, Requeue, After, NoTime
  <2> QED BY <1>10, <2>2 DEF Schedule, Requeue
<1>11. CASE WakeUp
    BY <1>11 DEF WakeUp
<1>12. CASE Informer
    BY <1>12 DEF Informer
<1>13. CASE Tick \/ SetReady \/ UNCHANGED vars
    BY <1>13 DEF Tick, SetReady, vars
<1>14. CASE ~task.exists
    BY <1>14
<1> QED BY <1>1, <1>4, <1>5, <1>6, <1>7, <1>8, <1>9, <1>10, <1>11, <1>12, <1>13, <1>14
        DEF Quiet, Reconcile

\* What a step does to a Task that is left alone and not being deleted.
LEMMA Undisturbed ==
    ASSUME IInv, [Next]_vars, Untouched', ~task'.deleting
    PROVE  /\ ~task.deleting /\ Quiet /\ Lockstep /\ OnTime /\ Once /\ Archived
           /\ task.exists /\ task.spec \in Specs /\ task'.spec = task.spec
           /\ now \in Nat \ {0} /\ now <= MaxTime /\ wake \in Nat
           /\ task.executeAt \in Int
           /\ pc # "idle" => \A d \in Int : Requeue(d) => pc' = "idle" /\ wake' = now + d
    BY QuietKeeps, TaskAssumption
       DEF IInv, LeftAlone, Lockstep, TypeOK, Objects, Times, Requeue, After

\* A request for a scheduled Task that is left alone is due no earlier.
LEMMA OnTimeStep ==
    ASSUME IInv, [Next]_vars, Untouched', ~task'.deleting
    PROVE  OnTime'
<1> SUFFICES ASSUME task'.phase = "Scheduled"
             PROVE  /\ queued' \/ pc' # "idle" => Due'
                    /\ wake' # NoTime => wake' >= task'.executeAt \/ Due'
    BY DEF OnTime
<1>1. /\ ~task.deleting /\ Quiet /\ Lockstep /\ OnTime
      /\ now \in Nat \ {0} /\ now <= MaxTime /\ wake \in Nat /\ task.executeAt \in Int
      /\ pc # "idle" => \A d \in Int : Requeue(d) => pc' = "idle" /\ wake' = now + d
    BY Undisturbed
<1>2. RunPause \in Nat \ {0} /\ MaxTime \in Nat \ {0} /\ task \in Objects
    BY TaskAssumption DEF IInv, TypeOK
<1> USE <1>1, <1>2 DEF Lockstep, OnTime, Due, SetPhase, SetStatus, Objects, env
<1>3. CASE Begin \/ KeepFinalizer \/ Archive \/ Dispatch \/ Plan
    BY <1>3 DEF Begin, KeepFinalizer, Archive, Marked, Dispatch, Plan
<1>4. CASE AddFinalizer
    BY <1>4 DEF AddFinalizer
<1>5. CASE MarkDeleting \/ RemoveFinalizer \/ NoTargets \/ StartRun \/ Complete \/ ToArchive
    BY <1>5 DEF MarkDeleting, RemoveFinalizer, NoTargets, StartRun, Complete, ToArchive
<1>6. CASE NotReady \/ Keep
    BY <1>6 DEF NotReady, Keep, IsCompleted, Done, Requeue
<1>7. CASE Schedule
  <2>1. ExecuteTime(res.spec) \in Int /\ task'.executeAt = ExecuteTime(res.spec)
      BY <1>7, TimesAreInts DEF Schedule, IInv
  <2>2. pc' = "idle" /\ ~queued' /\ now' = now
      BY <1>7 DEF Schedule, Done, Requeue
  <2>3. wake' # NoTime => wake' >= task'.executeAt \/ now >= task'.executeAt
      BY <1>7, <2>1 DEF Schedule, Done, NoTime
  <2> QED BY <2>2, <2>3
<1>8. CASE WakeUp
    BY <1>8 DEF WakeUp, NoTime
<1>9. CASE Informer \/ SetReady \/ UNCHANGED vars
    BY <1>9 DEF Informer, SetReady, vars
<1>10. CASE Tick
    BY <1>10 DEF Tick
<1> QED BY <1>3, <1>4, <1>5, <1>6, <1>7, <1>8, <1>9, <1>10 DEF Quiet, Reconcile

\* A Task that runs once and is left alone does not run again.
LEMMA OnceStep ==
    ASSUME IInv, [Next]_vars, Untouched', ~task'.deleting
    PROVE  Once'
<1> DEFINE R == task.spec.runTime
<1> SUFFICES ASSUME Single(task'.spec)
             PROVE  /\ task'.phase = "Scheduled" => task'.executeAt = task'.spec.runTime
                    /\ pc' = "dispatch" => now' >= task'.spec.runTime
                    /\ runs' = 0 \/ Past'
    BY DEF Once
<1>1. /\ ~task.deleting /\ Quiet /\ Lockstep /\ OnTime /\ Once
      /\ task.spec \in Specs /\ task'.spec = task.spec
      /\ now \in Nat \ {0} /\ now <= MaxTime /\ wake \in Nat
      /\ pc # "idle" => \A d \in Int : Requeue(d) => pc' = "idle" /\ wake' = now + d
    BY Undisturbed
<1>2. /\ RunPause \in Nat \ {0} /\ MaxTime \in Nat \ {0} /\ MaxRuns \in Nat \ {0}
      /\ task \in Objects /\ R \in Nat /\ R < MaxTime /\ ~task.spec.schedule /\ task.spec.offset > 0
      /\ OneTime(task.spec) = (R = NoTime)
    BY <1>1, TaskAssumption, TimesAreInts DEF IInv, TypeOK, Single, OneTime
<1>3. /\ task.phase = "Scheduled" => task.executeAt = R
      /\ pc = "dispatch" => now >= R
      /\ runs = 0 \/ Past
    BY <1>1, <1>2 DEF Once, Single
<1> HIDE DEF R
<1> USE DEF Lockstep, SetPhase, SetStatus, Objects, env
<1>4. CASE Begin \/ KeepFinalizer \/ Archive \/ Plan
    BY <1>1, <1>2, <1>3, <1>4 DEF Begin, KeepFinalizer, Archive, Marked, Plan, Past, R
<1>5. CASE AddFinalizer
    BY <1>1, <1>2, <1>3, <1>5 DEF AddFinalizer, Past, R
<1>6. CASE MarkDeleting \/ RemoveFinalizer
    BY <1>1, <1>6 DEF MarkDeleting, RemoveFinalizer
<1>7. CASE NoTargets
    BY <1>1, <1>2, <1>3, <1>7 DEF NoTargets, Done, Past, R
<1>8. CASE NotReady
    BY <1>1, <1>2, <1>3, <1>8 DEF NotReady, RunNow, Past, R, Requeue
<1>9. CASE StartRun
    BY <1>1, <1>2, <1>3, <1>9 DEF StartRun, RunNow, Past, R, OnTime, Due, NoTime
<1>10. CASE Dispatch
    BY <1>1, <1>2, <1>3, <1>10 DEF Dispatch, Past, R
<1>11. CASE Complete
    BY <1>1, <1>2, <1>3, <1>11 DEF Complete, Past, R
<1>12. CASE Keep
  <2>1. pc = "finish" => task.phase = "Completed" /\ R = NoTime
      BY <1>1, <1>2, Undisturbed DEF Archived
  <2> QED BY <1>1, <1>2, <1>3, <1>12, <2>1 DEF Keep, IsCompleted, Past, R, Done, Expired, NoTime
<1>17. CASE ToArchive
  <2>1. pc' = "idle" /\ task'.phase = "Archiving" /\ runs' = runs
      BY <1>1, <1>2, <1>17 DEF ToArchive, Requeue
  <2> QED BY <1>3, <2>1 DEF Past
<1>13. CASE Schedule
    BY <1>1, <1>2, <1>3, <1>13 DEF Schedule, Past, R, Expired, ExecuteTime, NextRun
<1>14. CASE WakeUp
    BY <1>1, <1>2, <1>3, <1>14 DEF WakeUp, Past, R
<1>15. CASE Informer \/ SetReady \/ UNCHANGED vars
    BY <1>1, <1>2, <1>3, <1>15 DEF Informer, SetReady, vars, Past, R
<1>16. CASE Tick
    BY <1>1, <1>2, <1>3, <1>16 DEF Tick, Past, R
<1> QED BY <1>1, <1>4, <1>5, <1>6, <1>7, <1>8, <1>9, <1>10, <1>11, <1>12, <1>13, <1>14, <1>15,
           <1>16, <1>17 DEF Quiet, Reconcile

\* Nothing is archived before its time.
LEMMA ArchivedStep ==
    ASSUME IInv, [Next]_vars, Untouched'
    PROVE  Archived'
<1>1. /\ Quiet /\ Archived /\ task'.spec = task.spec /\ res.spec = task.spec
      /\ ~task.deleting => Lockstep /\ Once
      /\ ~task'.deleting => ~task.deleting /\ Lockstep
    BY QuietKeeps DEF IInv, LeftAlone
<1>2. /\ MaxRuns \in Nat \ {0} /\ runs \in Nat /\ now \in Nat /\ task \in Objects
      /\ task.spec \in Specs /\ task.spec.runTime \in Nat
    BY TaskAssumption, TimesAreInts DEF IInv, TypeOK, Objects, Times
<1>3. now' = now \/ now' = now + 1
    BY <1>1 DEF Quiet, Reconcile, Begin, AddFinalizer, MarkDeleting, RemoveFinalizer, KeepFinalizer,
                Archive, NoTargets, NotReady, StartRun, Dispatch, Complete, Plan, Keep, ToArchive,
                Schedule, WakeUp, Informer, Tick, SetReady, Fail, FinalizerFails, env, vars
<1>4. runs' = runs \/ runs' = runs + 1
    BY <1>1 DEF Quiet, Reconcile, Begin, AddFinalizer, MarkDeleting, RemoveFinalizer, KeepFinalizer,
                Archive, NoTargets, NotReady, StartRun, Dispatch, Complete, Plan, Keep, ToArchive,
                Schedule, WakeUp, Informer, Tick, SetReady, Fail, FinalizerFails, env, vars
<1>5. Through(task.spec) => Through(task.spec)'
    BY <1>1, <1>2, <1>3, <1>4 DEF Through
<1>6. Expired(task.spec) => Expired(task.spec)'
  <2>1. PICK s \in Specs : s = task.spec
      BY <1>2
  <2>2. task'.spec = s
      BY <1>1, <2>1
  <2>3. Expired(s) => Expired(s)'
      BY <1>3, ExpiredStays DEF IInv
  <2> QED BY <2>1, <2>2, <2>3 DEF Expired, NextRun
<1> USE DEF Objects, Copies, Archived, SetPhase, SetStatus, env
<1>7. CASE Begin \/ KeepFinalizer \/ NotReady \/ Plan \/ Keep
    BY <1>1, <1>5, <1>6, <1>7
       DEF Begin, KeepFinalizer, NotReady, Plan, Keep, Requeue, Done, Lockstep
<1>8. CASE AddFinalizer \/ RemoveFinalizer
  <2>1. pc' \in {"archive", "idle"}
      BY <1>8 DEF AddFinalizer, RemoveFinalizer, Done
  <2>2. /\ task'.phase \in {task.phase, "Failed"} /\ res'.phase \in {res.phase, task'.phase}
        /\ cache' = cache
      BY <1>2, <1>8 DEF AddFinalizer, RemoveFinalizer
  <2> QED BY <1>1, <1>5, <1>6, <2>1, <2>2 DEF OneTime
<1>16. CASE Archive
    BY <1>1, <1>2, <1>5, <1>6, <1>16 DEF Archive, Marked
<1>9. CASE MarkDeleting \/ NoTargets \/ StartRun
    BY <1>1, <1>2, <1>5, <1>6, <1>9 DEF MarkDeleting, NoTargets, StartRun, Done
<1>10. CASE Dispatch
    BY <1>1, <1>2, <1>5, <1>6, <1>10 DEF Dispatch
<1>11. CASE Complete
    BY <1>1, <1>2, <1>5, <1>6, <1>11 DEF Complete, Requeue
<1>12. CASE ToArchive
    BY <1>1, <1>2, <1>5, <1>6, <1>12 DEF ToArchive, IsCompleted, Requeue, Expired, Through, NextRun
<1>13. CASE Schedule
    BY <1>1, <1>2, <1>5, <1>6, <1>13 DEF Schedule, Requeue, Done
<1>14. CASE WakeUp \/ Informer \/ Tick \/ SetReady \/ UNCHANGED vars
    BY <1>1, <1>2, <1>5, <1>6, <1>14 DEF WakeUp, Informer, Tick, SetReady, vars, Lockstep
<1>15. CASE ~task.exists /\ (Fail \/ FinalizerFails)
    BY <1>1, <1>2, <1>5, <1>6, <1>15 DEF Fail, FinalizerFails, Done
<1> QED BY <1>1, <1>7, <1>8, <1>9, <1>10, <1>11, <1>12, <1>13, <1>14, <1>15, <1>16
        DEF Quiet, Reconcile

\* A Task that is being deleted without anybody asking for it will not run again
\* at a time it was scheduled for.
LEMMA LeavingStep ==
    ASSUME IInv, [Next]_vars, Untouched', task'.deleting
    PROVE  Leaving'
<1>1. /\ Quiet /\ Archived /\ task'.spec = task.spec /\ res.spec = task.spec
      /\ task.deleting => Leaving
      /\ ~task.deleting => Lockstep
    BY QuietKeeps DEF IInv, LeftAlone
<1>2. /\ task \in Objects /\ task.spec \in Specs
    BY DEF IInv, TypeOK, Objects
<1> SUFFICES ASSUME ~OneTime(task.spec)
             PROVE  Expired(task.spec)' /\ \A t \in Copies' : t.phase # "Scheduled"
    BY <1>1 DEF Leaving, OneTime
<1>3. now' = now \/ now' = now + 1
    BY <1>1 DEF Quiet, Reconcile, Begin, AddFinalizer, MarkDeleting, RemoveFinalizer, KeepFinalizer,
                Archive, NoTargets, NotReady, StartRun, Dispatch, Complete, Plan, Keep, ToArchive,
                Schedule, WakeUp, Informer, Tick, SetReady, Fail, FinalizerFails, env, vars
<1>4. Expired(task.spec) => Expired(task.spec)'
  <2>1. PICK s \in Specs : s = task.spec
      BY <1>2
  <2>2. task'.spec = s
      BY <1>1, <2>1
  <2>3. Expired(s) => Expired(s)'
      BY <1>3, ExpiredStays DEF IInv
  <2> QED BY <2>1, <2>2, <2>3 DEF Expired, NextRun
<1> USE DEF Objects, Copies, Leaving, SetPhase, SetStatus, env
<1>5. CASE ~task.deleting
  <2>1. pc = "archive" /\ Archive /\ task.phase = "Archiving"
    <3>1. CASE Begin \/ KeepFinalizer \/ NotReady \/ Plan \/ Keep \/ Dispatch
        BY <1>5, <3>1 DEF Begin, KeepFinalizer, NotReady, Plan, Keep, Dispatch
    <3>2. CASE AddFinalizer \/ RemoveFinalizer
        BY <1>1, <1>2, <1>5, <3>2 DEF AddFinalizer, RemoveFinalizer
    <3>3. CASE MarkDeleting \/ NoTargets \/ StartRun \/ Complete \/ ToArchive \/ Schedule
        BY <1>1, <1>2, <1>5, <3>3
           DEF MarkDeleting, NoTargets, StartRun, Complete, ToArchive, Schedule
    <3>4. CASE Archive
        BY <1>1, <1>2, <1>5, <3>4 DEF Archive, Lockstep
    <3>5. CASE WakeUp \/ Informer \/ Tick \/ SetReady \/ UNCHANGED vars
        BY <1>5, <3>5 DEF WakeUp, Informer, Tick, SetReady, vars
    <3>6. CASE ~task.exists
        BY <1>1, <1>5, <3>6 DEF Lockstep
    <3> QED BY <1>1, <3>1, <3>2, <3>3, <3>4, <3>5, <3>6 DEF Quiet, Reconcile
  <2>2. Expired(task.spec)
      BY <1>1, <2>1 DEF Archived
  <2>3. task'.phase = "Archiving" /\ res'.phase = "Archiving" /\ cache'.phase = "Archiving"
      BY <1>1, <1>2, <1>5, <2>1 DEF Archive, Marked, Lockstep
  <2> QED BY <1>4, <2>2, <2>3
<1>6. CASE task.deleting
  <2>1. Expired(task.spec) /\ \A t \in Copies : t.phase # "Scheduled"
      BY <1>1, <1>6
  <2>2. CASE Begin \/ KeepFinalizer \/ NotReady \/ Plan \/ Keep \/ Dispatch
      BY <1>4, <2>1, <2>2 DEF Begin, KeepFinalizer, NotReady, Plan, Keep, Dispatch
  <2>3. CASE AddFinalizer \/ RemoveFinalizer \/ Archive
      BY <1>2, <1>4, <2>1, <2>3 DEF AddFinalizer, RemoveFinalizer, Archive, Marked
  <2>4. CASE MarkDeleting \/ NoTargets \/ StartRun \/ Complete \/ ToArchive
      BY <1>2, <1>4, <2>1, <2>4 DEF MarkDeleting, NoTargets, StartRun, Complete, ToArchive
  <2>5. CASE Schedule
      BY <1>1, <2>1, <2>5 DEF Schedule
  <2>6. CASE WakeUp \/ Informer \/ Tick \/ SetReady \/ UNCHANGED vars
      BY <1>4, <2>1, <2>6 DEF WakeUp, Informer, Tick, SetReady, vars
  <2>7. CASE ~task.exists /\ (Fail \/ FinalizerFails)
      BY <1>4, <2>1, <2>7 DEF Fail, FinalizerFails
  <2> QED BY <1>1, <2>2, <2>3, <2>4, <2>5, <2>6, <2>7 DEF Quiet, Reconcile
<1> QED BY <1>2, <1>5, <1>6

LEMMA InitHolds == Init => IInv
<1> SUFFICES ASSUME Init PROVE IInv
    OBVIOUS
<1>1. PICK s \in Specs :
        task = [exists |-> TRUE, deleting |-> FALSE, finalizer |-> FALSE, gen |-> 1,
                spec |-> s, phase |-> "", executeAt |-> NoTime]
    BY DEF Init
<1>2. task \in Objects
  <2>1. ASSUME NEW g \in Nat, NEW n \in Int
        PROVE  [exists |-> TRUE, deleting |-> FALSE, finalizer |-> FALSE, gen |-> g,
                spec |-> s, phase |-> "", executeAt |-> n] \in Objects
      BY DEF Objects, Phases
  <2>2. 1 \in Nat /\ NoTime \in Int
      BY DEF NoTime
  <2> QED BY <1>1, <2>1, <2>2
<1>3. /\ cache = task /\ res = task /\ pc = "idle" /\ queued = TRUE /\ wake = 0 /\ now = 1
      /\ ready \in BOOLEAN /\ runs = 0 /\ edits = 0 /\ restarts = 0 /\ faults = 0
    BY DEF Init, NoTime
<1>4. TypeOK
  <2>1. now \in Times /\ wake \in Nat /\ runs \in 0..MaxRuns
      BY <1>3, TaskAssumption DEF Times
  <2>2. edits \in 0..MaxEdits /\ restarts \in 0..MaxRestarts /\ faults \in 0..MaxFaults
      BY <1>3, TaskAssumption
  <2> QED BY <1>2, <1>3, <2>1, <2>2 DEF TypeOK
<1>5. task.exists /\ ~task.deleting /\ task.phase = ""
    BY <1>1
<1>6. Lockstep /\ OnTime /\ Once
    BY <1>3, <1>5 DEF Lockstep, OnTime, Once, NoTime
<1>7. Archived
    BY <1>3, <1>5 DEF Archived, Copies
<1> QED BY <1>3, <1>4, <1>5, <1>6, <1>7 DEF IInv, Same, LeftAlone

LEMMA Invariance == Spec => []IInv
<1>1. IInv /\ [Next]_vars => IInv'
  <2> SUFFICES ASSUME IInv, [Next]_vars PROVE LeftAlone'
      BY TypeStep, SameStep DEF IInv
  <2> SUFFICES ASSUME Untouched'
               PROVE  /\ Archived'
                      /\ task'.deleting => Leaving'
                      /\ ~task'.deleting => Lockstep' /\ OnTime' /\ Once'
      BY DEF LeftAlone
  <2> QED BY ArchivedStep, LeavingStep, LockstepStep, OnTimeStep, OnceStep
<1> QED BY <1>1, InitHolds, PTL DEF Spec

\* Types of the Task, of Reconcile's locals, of its queue and of the clock, for any
\* Specs, delays, horizon and bounds.
THEOREM TypesHold == Spec => []TypeOK
    BY Invariance, PTL DEF IInv

\* A Task that nobody edits, deletes or disturbs, and that runs once, is sent to
\* the agents at most once before its deletion: processEntities in a pass is followed by
\* Completed, and no later pass of Reconcile finds the Task Scheduled again.
THEOREM RunsOnceAlways == Spec => []UntouchedRunsOnce
<1>1. IInv => UntouchedRunsOnce
  <2> SUFFICES ASSUME IInv, Untouched, ~task.deleting, Single(task.spec) PROVE runs <= 1
      BY DEF UntouchedRunsOnce, Single
  <2>1. runs = 0 \/ runs = 1
      BY DEF IInv, LeftAlone, Once, Past
  <2> QED BY <2>1
<1> QED BY <1>1, Invariance, PTL

\* Reconcile archives such a Task only when it has run, or its RunTime has passed.
THEOREM ArchivedHasRunAlways == Spec => []ArchivedHasRun
<1>1. IInv => ArchivedHasRun
  <2> SUFFICES ASSUME IInv, Untouched, task.phase = "Archiving" PROVE Through(task.spec)
      BY DEF ArchivedHasRun, Through
  <2>1. Archived
      BY DEF IInv, LeftAlone
  <2> QED BY <2>1 DEF Archived, Copies
<1> QED BY <1>1, Invariance, PTL

\* And never starts a run of a scheduled Task before the ExecuteTime of its status.
THEOREM NotEarly == Spec => UntouchedNotEarly
<1> DEFINE Early ==
            Untouched /\ InHorizon /\ StartRun /\ ~OneTime(res.spec) => now >= task.executeAt
<1>1. IInv /\ [Next]_vars => [Early]_vars
  <2> SUFFICES ASSUME IInv, [Next]_vars, Untouched, InHorizon, StartRun, ~OneTime(res.spec)
               PROVE  now >= task.executeAt
      OBVIOUS
  <2>1. Untouched' /\ res.spec = task.spec
      BY DEF StartRun, Untouched, env, IInv, Same
  <2>2. res.phase = "Scheduled" /\ pc # "idle"
      BY DEF StartRun, RunNow
  <2>3. ~task.deleting
      BY <2>1, <2>2 DEF IInv, LeftAlone, Leaving, Copies
  <2>4. Lockstep /\ OnTime
      BY <2>3 DEF IInv, LeftAlone
  <2>5. Due /\ task.phase = "Scheduled"
      BY <2>2, <2>4 DEF Lockstep, OnTime
  <2> QED BY <2>5, TaskAssumption DEF Due, InHorizon, IInv, TypeOK, Times
<1> QED BY <1>1, Invariance, PTL DEF Spec, UntouchedNotEarly
=============================================================================
