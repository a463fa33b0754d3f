--------------------------- MODULE TaskController ---------------------------
(***************************************************************************)
(* One Task and TaskReconciler.Reconcile                                   *)
(* (internal/controller/task_controller.go): when a Task runs, when it is  *)
(* archived and when it goes.  A pass of Reconcile is cut at each of its   *)
(* API writes, so that users, the clock and a restart of the manager come  *)
(* in between.  UpdateStatus is one step that applies or fails             *)
(* (StatusUpdate); it refreshes the local copy res.  What processEntities  *)
(* does per entity is TaskDispatch: here it sends and then completes.      *)
(***************************************************************************)
EXTENDS Integers

CONSTANTS
    Specs,          \* the TaskSpecs users write
    Edits,          \* and what they change them to
    Period,         \* the cron expression fires at the multiples of Period
    ReadyPoll,      \* requeue while entities are not provisioned: 30 s
    RunPause,       \* requeue after a run: 60 s
    DeletionDelay,  \* deletionDelay: one hour
    MaxTime, MaxEdits, MaxRestarts, MaxFaults, \* bounds
    MaxUpsets,      \* bound: of edits, restarts and faults together
    MaxRuns         \* bound: where the counter of runs stops

ASSUME TaskAssumption ==
    /\ \A n \in {Period, ReadyPoll, RunPause, DeletionDelay} : n \in Nat \ {0}
    /\ \A n \in {MaxTime, MaxRuns} : n \in Nat \ {0}
    /\ \A n \in {MaxEdits, MaxRestarts, MaxFaults, MaxUpsets} : n \in Nat

NoTime == 0
Times == 1..MaxTime

ASSUME SpecsAssumption ==
    /\ Edits \subseteq Specs
    /\ Specs \subseteq [schedule : BOOLEAN, runTime : Times \cup {NoTime}, offset : Int \ {0},
                        persistant : BOOLEAN, unconditional : BOOLEAN, targets : BOOLEAN]

VARIABLES
    task,    \* the Task in the API server
    cache,   \* the informer's copy
    res,     \* the copy the running pass of Reconcile works on
    pc,      \* where that pass is; "idle" between passes
    queued,  \* the work queue holds a request for the Task
    wake,    \* when its delayed request is due (AddAfter), or NoTime
    now,     \* the clock
    ready,   \* every target entity is Provisoned
    runs,    \* how often the current spec was sent to the agents, up to MaxRuns
    edits, restarts, faults  \* how often each happened

env == <<now, ready, edits, restarts, faults>>
Room == edits + restarts + faults < MaxUpsets
vars == <<task, cache, res, pc, queued, wake, runs, env>>

Phases == {"", "Running", "Scheduled", "Completed", "Archiving", "Deleting", "Failed"}

OneTime(spec) == ~spec.schedule /\ spec.runTime = NoTime

Init ==
    /\ \E s \in Specs :
        task = [exists |-> TRUE, deleting |-> FALSE, finalizer |-> FALSE, gen |-> 1,
                spec |-> s, phase |-> "", executeAt |-> NoTime]
    /\ cache = task /\ res = task
    /\ pc = "idle" /\ queued = TRUE /\ wake = NoTime
    /\ now = 1 /\ ready \in BOOLEAN
    /\ runs = 0 /\ edits = 0 /\ restarts = 0 /\ faults = 0

(***************************************************************************)
(* The pieces of a pass.                                                   *)
(***************************************************************************)
\* Mutant of After: a delay without its unit, which is nanoseconds.
AfterAtOnce(d) == now

\* The workqueue keeps the earliest of the delays asked for.
After(d) == IF wake = NoTime \/ now + d < wake THEN now + d ELSE wake

\* UpdateStatus succeeds: object and copy are the same afterwards.
SetStatus(phase, executeAt) ==
    /\ task.exists
    /\ task' = [task EXCEPT !.phase = phase, !.executeAt = executeAt]
    /\ res' = task'

SetPhase(phase) == SetStatus(phase, task.executeAt)

\* Result{} and Result{RequeueAfter: d}.
Done == pc' = "idle" /\ wake' = wake
Requeue(d) == pc' = "idle" /\ wake' = After(d)

\* schedule.Next(now), or RunTime.
NextRun(spec) == IF spec.schedule THEN (now \div Period + 1) * Period ELSE spec.runTime

\* Mutant of Expired: RunTime is not compared with the clock.
ExpiredAtOnce(spec) == spec.runTime # NoTime

\* No run is left.
Expired(spec) ==
    /\ spec.runTime # NoTime
    /\ IF spec.schedule THEN NextRun(spec) > spec.runTime ELSE spec.runTime < now

ExecuteTime(spec) == IF spec.offset > 0 THEN NextRun(spec) ELSE NextRun(spec) + spec.offset
Termination(spec) == IF spec.offset > 0 THEN NextRun(spec) + spec.offset ELSE NextRun(spec)

\* A worker takes the request and reads the Task from the cache; a Task that
\* is not found is ignored.
Begin ==
    /\ pc = "idle" /\ queued
    /\ queued' = FALSE
    /\ IF cache.exists
       THEN res' = cache /\ pc' = "finalizer"
       ELSE UNCHANGED <<res, pc>>
    /\ UNCHANGED <<task, cache, wake, runs, env>>

\* handleFinalizer, first half: r.Update with a new finalizer.  A stale copy is
\* a conflict: Failed, and the error requeues the request.
AddFinalizer ==
    /\ pc = "finalizer" /\ ~res.finalizer
    /\ IF res = task
       THEN /\ task' = [task EXCEPT !.finalizer = TRUE]
            /\ res' = task' /\ pc' = "archive"
            /\ UNCHANGED queued
       ELSE /\ task.exists
            /\ task' = [task EXCEPT !.phase = "Failed"] /\ queued' = TRUE
            /\ pc' = "idle" /\ UNCHANGED res
    /\ UNCHANGED <<cache, wake, runs, env>>

\* Second half, for a Task that is being deleted: phase Deleting ...
MarkDeleting ==
    /\ pc = "finalizer" /\ res.finalizer /\ res.deleting
    /\ SetPhase("Deleting") /\ pc' = "unfinalize"
    /\ UNCHANGED <<cache, queued, wake, runs, env>>

\* ... and the finalizer goes, and the Task with it.  The pass goes on, but ends
\* at its first status write, which finds no Task.
RemoveFinalizer ==
    /\ pc = "unfinalize"
    /\ IF res = task
       THEN task' = [task EXCEPT !.exists = FALSE] /\ UNCHANGED queued
       ELSE task' = [task EXCEPT !.phase = "Failed"] /\ queued' = TRUE
    /\ Done
    /\ UNCHANGED <<cache, res, runs, env>>

\* An API call of handleFinalizer fails: because the Task is gone, or (a fault)
\* the API server or five conflicts.  Only a conflict is an error for Reconcile:
\* after any other failure ErrorDelegateHandler returns nil and the pass goes on.
FinalizerFails ==
    /\ pc = "unfinalize" \/ (pc = "finalizer" /\ (res.deleting \/ ~res.finalizer))
    /\ task.exists => faults < MaxFaults /\ Room
    /\ faults' = IF task.exists THEN faults + 1 ELSE faults
    /\ IF task.exists THEN task' \in {task, [task EXCEPT !.phase = "Failed"]}
       ELSE UNCHANGED task
    /\ res' \in {res, task'}
    /\ \/ task.exists /\ queued' = TRUE /\ pc' = "idle"
       \/ UNCHANGED queued /\ pc' = "archive"
    /\ UNCHANGED <<cache, wake, runs, now, ready, edits, restarts>>

KeepFinalizer ==
    /\ pc = "finalizer" /\ res.finalizer /\ ~res.deleting
    /\ pc' = "archive"
    /\ UNCHANGED <<task, cache, res, queued, wake, runs, env>>

Marked(t) == IF t.deleting THEN t
             ELSE IF t.finalizer THEN [t EXCEPT !.deleting = TRUE, !.gen = @ + 1]
             ELSE [t EXCEPT !.exists = FALSE]

\* r.Client.Delete of an archived Task, its error ignored; no return.
Archive ==
    /\ pc = "archive"
    /\ task' = IF res.phase = "Archiving" /\ task.exists THEN Marked(task) ELSE task
    /\ pc' = "plan"
    /\ UNCHANGED <<cache, res, queued, wake, runs, env>>

RunNow == OneTime(res.spec) \/ res.phase = "Scheduled"

NoTargets ==
    /\ pc = "plan" /\ ~res.spec.targets
    /\ SetPhase("Completed") /\ Done
    /\ UNCHANGED <<cache, queued, runs, env>>

\* Mutant of NotReady: no requeue.
NotReadyStops ==
    /\ pc = "plan" /\ res.spec.targets /\ RunNow
    /\ ~res.spec.unconditional /\ ~ready
    /\ Done
    /\ UNCHANGED <<task, cache, res, queued, runs, env>>

NotReady ==
    /\ pc = "plan" /\ res.spec.targets /\ RunNow
    /\ ~res.spec.unconditional /\ ~ready
    /\ Requeue(ReadyPoll)
    /\ UNCHANGED <<task, cache, res, queued, runs, env>>

StartRun ==
    /\ pc = "plan" /\ res.spec.targets /\ RunNow
    /\ res.spec.unconditional \/ ready
    /\ SetPhase("Running") /\ pc' = "dispatch"
    /\ UNCHANGED <<cache, queued, wake, runs, env>>

\* processEntities: the requests go to the agents ...
Dispatch ==
    /\ pc = "dispatch"
    /\ runs' = IF res.spec = task.spec /\ runs < MaxRuns THEN runs + 1 ELSE runs
    /\ pc' = "complete"
    /\ UNCHANGED <<task, cache, res, queued, wake, env>>

\* Mutant of Complete: a one-time Task is not told from the others.
CompleteOnly ==
    /\ pc = "complete"
    /\ SetPhase("Completed") /\ Requeue(RunPause)
    /\ UNCHANGED <<cache, queued, runs, env>>

\* ... and the Task is Completed.  A one-time Task goes on to be archived.
Complete ==
    /\ pc = "complete"
    /\ SetPhase("Completed")
    /\ IF OneTime(task.spec) THEN pc' = "finish" /\ wake' = wake ELSE Requeue(RunPause)
    /\ UNCHANGED <<cache, queued, runs, env>>

Plan ==
    /\ pc = "plan" /\ res.spec.targets /\ ~RunNow
    /\ pc' = "schedule"
    /\ UNCHANGED <<task, cache, res, queued, wake, runs, env>>

IsCompleted == pc = "finish" \/ (pc = "schedule" /\ Expired(res.spec))

Keep ==
    /\ IsCompleted /\ res.spec.persistant
    /\ Done
    /\ UNCHANGED <<task, cache, res, queued, runs, env>>

\* Mutant of ToArchive: no requeue.
ToArchiveStops ==
    /\ IsCompleted /\ ~res.spec.persistant
    /\ SetPhase("Archiving") /\ Done
    /\ UNCHANGED <<cache, queued, runs, env>>

ToArchive ==
    /\ IsCompleted /\ ~res.spec.persistant
    /\ SetPhase("Archiving") /\ Requeue(DeletionDelay)
    /\ UNCHANGED <<cache, queued, runs, env>>

\* ExecuteTime and phase Scheduled, and a request for that time; or, inside the
\* window before the termination time, one RunPause later.
Schedule ==
    /\ pc = "schedule" /\ ~Expired(res.spec)
    /\ SetStatus("Scheduled", ExecuteTime(res.spec))
    /\ IF ExecuteTime(res.spec) > now THEN Requeue(ExecuteTime(res.spec) - now)
       ELSE IF Termination(res.spec) > now THEN Requeue(RunPause)
       ELSE Done
    /\ UNCHANGED <<cache, queued, runs, env>>

\* The same for a later call.  Here Reconcile returns what ErrorDelegateHandler
\* does: the error of a conflict, which requeues, and nil, which stops, for
\* everything else.
Fail ==
    /\ pc \in {"plan", "complete", "finish", "schedule"}
    /\ \/ /\ ~task.exists
          /\ UNCHANGED <<task, queued, faults>>
       \/ /\ task.exists /\ faults < MaxFaults /\ Room
          /\ faults' = faults + 1
          /\ task' \in {task, [task EXCEPT !.phase = "Failed"]}
          /\ queued' \in {queued, TRUE}
    /\ Done
    /\ UNCHANGED <<cache, res, runs, now, ready, edits, restarts>>

Reconcile ==
    \/ Begin \/ AddFinalizer \/ MarkDeleting \/ RemoveFinalizer \/ KeepFinalizer
    \/ Archive \/ NoTargets \/ NotReady \/ StartRun \/ Dispatch \/ Complete \/ Plan
    \/ Keep \/ ToArchive \/ Schedule

(***************************************************************************)
(* Queue, watch, clock, users, entities and the manager's process.         *)
(***************************************************************************)
\* At the end of the horizon every delayed request is due.
WakeUp ==
    /\ wake # NoTime
    /\ wake <= now \/ (now = MaxTime /\ pc = "idle" /\ cache = task)
    /\ wake' = NoTime /\ queued' = TRUE
    /\ UNCHANGED <<task, cache, res, pc, runs, env>>

\* Mutant of Informer: the predicate compares specs, not generations.
InformerSpec ==
    /\ cache # task
    /\ cache' = task
    /\ queued' = (queued \/ task.spec # cache.spec)
    /\ UNCHANGED <<task, res, pc, wake, runs, env>>

\* GenerationChangedPredicate: status writes make no request, edits, deletion
\* marks and removals do.
Informer ==
    /\ cache # task
    /\ cache' = task
    /\ queued' = (queued \/ task.gen # cache.gen \/ ~task.exists)
    /\ UNCHANGED <<task, res, pc, wake, runs, env>>

\* A tick is 30 seconds; a watch is never that late.
Tick ==
    /\ now < MaxTime /\ cache = task
    /\ now' = now + 1
    /\ UNCHANGED <<task, cache, res, pc, queued, wake, runs, ready, edits, restarts, faults>>

SetReady ==
    /\ ready' = ~ready
    /\ UNCHANGED <<task, cache, res, pc, queued, wake, runs, now, edits, restarts, faults>>

Edit(s) ==
    /\ task.exists /\ edits < MaxEdits /\ Room /\ s # task.spec
    /\ task' = [task EXCEPT !.spec = s, !.gen = @ + 1]
    /\ edits' = edits + 1 /\ runs' = 0
    /\ UNCHANGED <<cache, res, pc, queued, wake, now, ready, restarts, faults>>

Delete ==
    /\ task.exists /\ ~task.deleting /\ edits < MaxEdits /\ Room
    /\ task' = Marked(task) /\ edits' = edits + 1
    /\ UNCHANGED <<cache, res, pc, queued, wake, runs, now, ready, restarts, faults>>

\* The manager restarts: queues and passes are lost, the initial list of the
\* informers requests every object.
Restart ==
    /\ restarts < MaxRestarts /\ Room
    /\ restarts' = restarts + 1
    /\ pc' = "idle" /\ wake' = NoTime /\ cache' = task /\ queued' = task.exists
    /\ UNCHANGED <<task, res, runs, now, ready, edits, faults>>

Next ==
    \/ Reconcile \/ Fail \/ FinalizerFails \/ WakeUp \/ Informer \/ Tick \/ SetReady
    \/ \E s \in Edits : Edit(s)
    \/ Delete \/ Restart

Spec == Init /\ [][Next]_vars

\* Workers run, watches deliver and time passes; users, entities, faults and
\* restarts owe nothing.
FairSpec ==
    /\ Spec
    /\ WF_vars(Reconcile \/ (~task.exists /\ (Fail \/ FinalizerFails)))
    /\ WF_vars(WakeUp) /\ WF_vars(Informer) /\ WF_vars(Tick)
-----------------------------------------------------------------------------
Objects == [exists : BOOLEAN, deleting : BOOLEAN, finalizer : BOOLEAN, gen : Nat,
            spec : Specs, phase : Phases, executeAt : Int]

\* Types of the Task, of Reconcile's locals, of its queue and of the clock.
TypeOK ==
    /\ task \in Objects /\ cache \in Objects /\ res \in Objects
    /\ pc \in {"idle", "finalizer", "unfinalize", "archive", "plan", "dispatch",
               "complete", "finish", "schedule"}
    /\ queued \in BOOLEAN /\ ready \in BOOLEAN
    /\ wake \in Nat /\ now \in Times /\ runs \in 0..MaxRuns
    /\ edits \in 0..MaxEdits /\ restarts \in 0..MaxRestarts /\ faults \in 0..MaxFaults

InHorizon == now < MaxTime

Untouched == edits = 0 /\ restarts = 0 /\ faults = 0

\* Left alone, a scheduled Task never starts before the ExecuteTime its status
\* shows, whatever delayed requests its earlier passes left in the queue.
UntouchedNotEarly ==
    [][Untouched /\ InHorizon /\ StartRun /\ ~OneTime(res.spec)
        => now >= task.executeAt]_vars

\* Left alone, a one-time Task, or one with a RunTime before the horizon and a
\* positive offset, is sent to the agents at most once before it is being deleted.
UntouchedRunsOnce ==
    /\ Untouched /\ ~task.deleting
    /\ ~task.spec.schedule /\ task.spec.offset > 0 /\ task.spec.runTime < MaxTime
    => runs <= 1

\* The controller never deletes a Task that did not have a chance to run with
\* the spec it was archived under: archived means run, or its RunTime passed.
ArchivedHasRun ==
    Untouched /\ task.phase = "Archiving" =>
        \/ runs > 0 \/ task.spec.schedule
        \/ task.spec.runTime # NoTime /\ task.spec.runTime < now

\* A deleted Task goes, even when it is deleted, edited or the manager restarts
\* in the middle of a pass (no faults: a pass that fails is not retried).
DeletedGoes == (task.exists /\ task.deleting) ~> (~task.exists \/ faults > 0)

\* An archived Task goes after the deletion delay, unless it is edited.
ArchivedGoes ==
    (task.exists /\ task.phase = "Archiving")
        ~> (~task.exists \/ edits > 0 \/ faults > 0)

ToRun == task.exists /\ OneTime(task.spec) /\ task.spec.targets

\* A one-time Task whose entities get ready runs, or is edited or goes before.
OneTimeRuns ==
    <>[]ready =>
        (ToRun /\ ~task.deleting) ~> (runs > 0 \/ ~ToRun \/ faults > 0)

\* ExecuteTime is "when the Task should be executed": no run starts before it.
NotBeforeExecuteTime ==
    [][InHorizon /\ StartRun /\ res.phase = "Scheduled" => now >= res.executeAt]_vars

\* "The time when the task will be scheduled to run once".
RunTimeOnce ==
    task.spec.runTime # NoTime /\ ~task.spec.schedule => runs <= 1

\* A "one time task" is sent once.
OneTimeOnce == OneTime(task.spec) => runs <= 1

\* "Persistant meaning the task will be remain after completion": the
\* controller deletes no Task that is persistent.
PersistantRemains ==
    [][Archive /\ task'.deleting # task.deleting => ~task.spec.persistant]_vars
=============================================================================
