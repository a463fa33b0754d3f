----------------------- MODULE EntityControllerProofs -----------------------
(***************************************************************************)
(* EntityController for any specs and any number of edits, restarts and    *)
(* faults: types, that an Entity that says it is provisioned is complete,  *)
(* and that one with a finalizer does not go before its pod.  Both hold    *)
(* because a pass takes its steps in order, and what it reads from a stale *)
(* copy, that the Entity is owned or locked, stays true.                   *)
(***************************************************************************)
EXTENDS EntityController, TLAPS

\* A pass has a copy of the Entity, and starts from one that existed.
Working == pc # "idle" => res \in Objects /\ (pc = "finalizer" => res.exists)

\* A copy knows of no owner and of no pod that the Entity does not have.
Known(e) == (e.owned => entity.owned) /\ (e.locked => entity.locked)
Remembers == Known(ecache) /\ (pc # "idle" => Known(res))

\* What a pass has provided when it is there.
InOrder ==
    /\ pc \in {"rb", "crt", "srv", "ing", "own", "lock", "done"} => "sa" \in made
    /\ pc \in {"ing", "own", "lock", "done"} => "srv" \in made
    /\ pc \in {"own", "lock", "done"} => "ing" \in made
    /\ pc \in {"lock", "done"} => entity.owned
    /\ pc = "done" => entity.locked

Complete ==
    entity.phase = "Provisoned" => entity.owned /\ entity.locked /\ {"sa", "srv", "ing"} \subseteq made

\* The finalizer is removed, and an Entity that has one is gone, after its pod.
PodFirst == pc = "unfinalize" \/ (~entity.exists /\ entity.finalizer) => killed

\* A generation has one spec, and unless something raced with a pass it works on
\* the spec of the Entity, and has done for it what it is past.
Generations ==
    /\ entity.observed <= entity.gen /\ ecache.gen <= entity.gen
    /\ ecache.gen = entity.gen => ecache.spec = entity.spec
Chosen == IF entity.spec.bare THEN "crt" ELSE "given"
Fitting ==
    /\ pc # "idle" => res.spec = entity.spec /\ ecache.gen = entity.gen
    /\ pc \in {"crt", "srv", "ing", "own", "lock", "done"} /\ entity.spec.privileged => "rb" \in made
    /\ pc \in {"srv", "ing", "own", "lock", "done"} /\ entity.spec.bare => "crt" \in made
    /\ pc \in {"srv", "ing"} => secret = Chosen
    /\ pc \in {"own", "lock", "done"} => tls = Chosen
    /\ Current(entity) => SpecApplied

IInv ==
    /\ TypeOK /\ Working /\ Remembers /\ InOrder /\ Complete /\ PodFirst
    /\ Generations /\ (~raced => Fitting)

LEMMA PhaseNames == {"Provisioning", "Provisoned", "Deleting", "Failed"} \subseteq Phases
BY DEF Phases

\* SetPhase sets the phase, and of the rest only the observed generation.
LEMMA WithPhaseKeeps ==
    ASSUME NEW e \in Objects, NEW f \in Phases
    PROVE  /\ WithPhase(e, f) \in Objects /\ WithPhase(e, f).phase = f
           /\ WithPhase(e, f).exists = e.exists /\ WithPhase(e, f).finalizer = e.finalizer
           /\ WithPhase(e, f).owned = e.owned /\ WithPhase(e, f).locked = e.locked
           /\ WithPhase(e, f).spec = e.spec /\ WithPhase(e, f).gen = e.gen
           /\ WithPhase(e, f).observed = (IF f = "Provisoned" THEN e.gen ELSE e.observed)
<1>1. CASE f = "Provisoned"
    BY <1>1 DEF WithPhase, Objects
<1>2. CASE f # "Provisoned"
    BY <1>2 DEF WithPhase, Objects
<1> QED BY <1>1, <1>2

\* The spec is edited, in a new generation; or it stays, and the Entity is current
\* if it was before or a pass is done.
Edited ==
    /\ entity'.gen = entity.gen + 1 /\ entity'.observed = entity.observed
    /\ UNCHANGED <<ecache, made, tls, worker>>
    /\ raced' \/ pc = "idle"
Unedited ==
    /\ entity'.spec = entity.spec /\ entity'.gen = entity.gen
    /\ entity'.observed \in {entity.observed, entity.gen}
    /\ Current(entity') => Current(entity) \/ pc = "done"

\* How the Entity can change in a step: owner, pod and removal are for good, a
\* pass that is done makes it provisioned, and one that had a finalizer goes when
\* a pass removes it.
Moves ==
    /\ Edited \/ Unedited
    /\ entity' \in Objects
    /\ entity.owned => entity'.owned
    /\ entity.locked => entity'.locked
    /\ entity'.phase = "Provisoned" => entity.phase = "Provisoned" \/ pc = "done"
    /\ ~entity'.exists /\ entity'.finalizer => pc = "unfinalize" \/ (~entity.exists /\ entity.finalizer)

LEMMA Unmoved == ASSUME entity \in Objects, entity' = entity PROVE Moves
BY DEF Moves, Unedited

LEMMA PhaseMoves ==
    ASSUME entity \in Objects, NEW f \in Phases, SetPhase(f), f # "Provisoned" \/ pc = "done"
    PROVE  Moves /\ entity.exists /\ entity'.exists
<1>1. entity.exists /\ entity' = WithPhase(entity, f)
    BY DEF SetPhase, SetStatus
<1>2. Unedited
    BY <1>1, WithPhaseKeeps DEF Unedited, Current
<1> QED BY <1>1, <1>2, WithPhaseKeeps DEF Moves

LEMMA FailedMoves ==
    ASSUME entity \in Objects, SetFailed
    PROVE  Moves /\ pc' = "idle" /\ res' = Nothing /\ secret' = "none"
<1>1. pc' = "idle" /\ res' = Nothing /\ secret' = "none"
    BY DEF SetFailed, Return
<1>2. CASE entity.exists
    BY <1>1, <1>2, PhaseMoves, PhaseNames DEF SetFailed
<1>3. CASE ~entity.exists
    BY <1>1, <1>3, Unmoved DEF SetFailed
<1> QED BY <1>2, <1>3

LEMMA EntityMoves == TypeOK /\ Working /\ [Next]_vars => Moves
<1> SUFFICES ASSUME TypeOK, Working, [Next]_vars PROVE Moves
    OBVIOUS
<1>t. entity \in Objects
    BY DEF TypeOK
<1>0. CASE entity' = entity
    BY <1>t, <1>0, Unmoved
<1>f. CASE SetFailed
    BY <1>t, <1>f, FailedMoves
<1>1. CASE AddFinalizer
    <2>1. entity.exists /\ entity' = [entity EXCEPT !.finalizer = TRUE]
        BY <1>1 DEF AddFinalizer, Working
    <2> QED BY <1>t, <2>1 DEF Moves, Unedited, Current, Objects
<1>2. CASE MarkDeleting
    BY <1>t, <1>2, PhaseMoves, PhaseNames DEF MarkDeleting
<1>3. CASE RemoveFinalizer
    <2>1. pc = "unfinalize" /\ entity' = [entity EXCEPT !.exists = FALSE]
        BY <1>3 DEF RemoveFinalizer
    <2> QED BY <1>t, <2>1 DEF Moves, Unedited, Current, Objects
<1>4. CASE Start
    <2>1. entity' = entity \/ SetPhase("Provisioning")
        BY <1>4, Zenon DEF Start
    <2> QED BY <1>t, <1>0, <2>1, PhaseMoves, PhaseNames
<1>5. CASE SetOwner
    <2>1. entity' = entity \/ entity' = [entity EXCEPT !.owned = TRUE]
        BY <1>5 DEF SetOwner, SetStatus
    <2>2. CASE entity' = [entity EXCEPT !.owned = TRUE]
        BY <1>t, <2>2 DEF Moves, Unedited, Current, Objects
    <2> QED BY <1>0, <2>1, <2>2
<1>6. CASE LockOnPod
    <2>1. entity' = entity \/ entity' = [entity EXCEPT !.locked = TRUE]
        BY <1>6 DEF LockOnPod, SetStatus
    <2>2. CASE entity' = [entity EXCEPT !.locked = TRUE]
        BY <1>t, <2>2 DEF Moves, Unedited, Current, Objects
    <2> QED BY <1>0, <2>1, <2>2
<1>7. CASE Finish
    BY <1>t, <1>7, PhaseMoves, PhaseNames DEF Finish
<1>8. CASE FinalizerConflict
    BY <1>8, <1>f DEF FinalizerConflict
<1>9. CASE Fail
    <2>1. SetFailed
        BY <1>9, Zenon DEF Fail
    <2> QED BY <1>f, <2>1
<1>10. CASE GetModel \/ \E k \in Resources : Exists(k)
    BY <1>10, <1>0, <1>f DEF GetModel, Exists
<1>11. CASE FinalizerFails
    <2>1. entity' = entity \/ SetPhase("Failed")
        BY <1>11 DEF FinalizerFails
    <2> QED BY <1>t, <1>0, <2>1, PhaseMoves, PhaseNames
<1>12. ASSUME NEW s \in Specs, Edit(s) PROVE Moves
    <2>1. entity.exists /\ entity' = [entity EXCEPT !.spec = s, !.gen = entity.gen + 1]
        BY <1>12 DEF Edit
    <2>2. entity.gen + 1 \in Nat
        BY <1>t DEF Objects
    <2>3. Edited
        <3>1. UNCHANGED <<ecache, made, tls, worker>> /\ (raced' \/ pc = "idle")
            BY <1>12 DEF Edit, Busy, things, caches
        <3> QED BY <1>t, <2>1, <2>2, <3>1 DEF Edited, Objects
    <2> QED BY <1>t, <2>1, <2>2, <2>3 DEF Moves, Objects
<1>13. CASE Delete
    <2>1. CASE entity' = [entity EXCEPT !.deleting = TRUE, !.gen = entity.gen + 1]
        <3>1. entity.gen + 1 \in Nat /\ entity.exists
            BY <1>t, <1>13 DEF Objects, Delete
        <3>2. UNCHANGED <<ecache, made, tls, worker>> /\ (raced' \/ pc = "idle")
            BY <1>13 DEF Delete, Busy, things, caches
        <3>3. Edited
            BY <1>t, <2>1, <3>1, <3>2 DEF Edited, Objects
        <3> QED BY <1>t, <2>1, <3>1, <3>3 DEF Moves, Objects
    <2>2. CASE ~entity.finalizer /\ entity' = [entity EXCEPT !.exists = FALSE]
        BY <1>t, <2>2 DEF Moves, Unedited, Current, Objects
    <2> QED BY <1>13, <2>1, <2>2 DEF Delete
<1>14. CASE Begin \/ KeepFinalizer \/ DeletePod \/ PodMissing \/ Sync \/ SyncFails
            \/ (\E k \in Resources : Skip(k) \/ Provide(k) \/ Provided(k)) \/ NoPod
            \/ FailedLost \/ SyncEntity \/ SyncOthers \/ WakeUp \/ CreateModel \/ PodComes \/ PodLost
            \/ Restart \/ UNCHANGED vars
    <2>1. entity' = entity
        BY <1>14 DEF FailedLost, Begin, KeepFinalizer, DeletePod, PodMissing, Sync, SyncFails, Skip, Provide,
                     Provided, NoPod, SyncEntity, SyncOthers, WakeUp, CreateModel, PodComes,
                     PodLost, Restart, vars
    <2> QED BY <1>0, <2>1
<1> QED
    BY <1>1, <1>2, <1>3, <1>4, <1>5, <1>6, <1>7, <1>8, <1>9, <1>10, <1>11, <1>12, <1>13, <1>14
       DEF Next, Reconcile

\* The step after a resource is the next one, or the owner.
LEMMA Follows ==
    ASSUME NEW k \in Resources
    PROVE  /\ After[k] \in {"rb", "crt", "srv", "ing", "own"}
           /\ After[k] = "rb" => k = "sa"
           /\ After[k] = "srv" => k = "crt"
           /\ After[k] = "ing" => k = "srv"
           /\ After[k] = "own" => k = "ing"
           /\ After[k] = "crt" => k = "rb"
BY DEF Resources, After

\* Types are kept, and a pass sets the name of the secret before it uses it.
LEMMA TypeStep == TypeOK /\ Working /\ [Next]_vars => TypeOK' /\ Working'
<1> SUFFICES ASSUME TypeOK, Working, [Next]_vars PROVE TypeOK' /\ Working'
    OBVIOUS
<1>g. entity' \in Objects /\ entity \in Objects
    BY EntityMoves DEF Moves, TypeOK
<1>b. entity.exists \in BOOLEAN
    BY <1>g DEF Objects
<1>n. /\ MaxEdits \in Nat /\ MaxRestarts \in Nat /\ MaxFaults \in Nat
      /\ \A f \in 0..MaxFaults : f < MaxFaults => f + 1 \in 0..MaxFaults
    BY EntityAssumption DEF EntityAssumption
<1> USE DEF TypeOK, Working, things, caches, worker, requests, bounds
<1>1. CASE Begin
    BY <1>1 DEF Begin
<1>2. CASE AddFinalizer
    BY <1>g, <1>2 DEF AddFinalizer, Go
<1>3. CASE KeepFinalizer
    BY <1>3 DEF KeepFinalizer, GoOn
<1>4. CASE MarkDeleting
    BY <1>g, <1>4 DEF MarkDeleting, Go
<1>5. CASE DeletePod
    BY <1>5 DEF DeletePod, GoOn
<1>6. CASE PodMissing \/ Sync \/ SyncFails \/ NoPod
    BY <1>6 DEF PodMissing, Sync, SyncFails, NoPod, Return
<1>7. CASE RemoveFinalizer
    BY <1>g, <1>7 DEF RemoveFinalizer, GoOn
<1>8. CASE Start
    <2>1. \/ GoOn("sync") \/ Go("model") \/ GoOn("model")
        BY <1>8, Zenon DEF Start
    <2>2. pc = "start" /\ UNCHANGED <<things, caches, requests, bounds>>
        BY <1>8, Zenon DEF Start
    <2> QED BY <1>g, <2>1, <2>2 DEF GoOn, Go
<1>9. CASE GetModel
    <2>1. CASE GoOn("sa") /\ UNCHANGED entity
        BY <1>9, <2>1 DEF GetModel, GoOn, Resources
    <2>2. CASE SetFailed
        BY <1>g, <1>9, <2>2, FailedMoves DEF GetModel
    <2> QED BY <1>9, <2>1, <2>2 DEF GetModel
<1>s. SecretName \in {"crt", "given"}
    BY DEF SecretName
<1>10. ASSUME NEW k \in Resources, Skip(k) \/ Provided(k) PROVE TypeOK' /\ Working'
    <2>1. /\ pc = k /\ pc' = After[k] /\ res' = res
          /\ secret' = IF k = "crt" THEN SecretName ELSE secret
          /\ UNCHANGED <<entity, things, caches, requests, bounds>>
        BY <1>10 DEF Skip, Provided
    <2> QED BY <1>s, <2>1, Follows DEF Resources
<1>11. ASSUME NEW k \in Resources, Provide(k) PROVE TypeOK' /\ Working'
    <2>1. made' \subseteq Resources
        BY <1>11 DEF Provide
    <2>2. tls' \in {"none", "crt", "given"}
        BY <1>11 DEF Provide, Resources
    <2>3. pc = k /\ UNCHANGED <<entity, model, pod, killed, caches, requests, bounds>>
        BY <1>11 DEF Provide
    <2>4. CASE pc' = After[k] /\ res' = entity /\ secret' = IF k = "crt" THEN SecretName ELSE secret
        BY <1>g, <1>s, <2>1, <2>2, <2>3, <2>4, Follows DEF Resources
    <2>5. CASE Return
        BY <2>1, <2>2, <2>3, <2>5 DEF Return
    <2> QED BY <1>11, <2>4, <2>5 DEF Provide
<1>12. ASSUME NEW k \in Resources, Exists(k) PROVE TypeOK' /\ Working'
    BY <1>g, <1>12, FailedMoves DEF Exists
<1>13. CASE SetOwner
    BY <1>g, <1>13 DEF SetOwner, GoOn, Go
<1>14. CASE LockOnPod
    BY <1>g, <1>14 DEF LockOnPod, GoOn, Go
<1>15. CASE Finish
    BY <1>g, <1>15 DEF Finish, Return
<1>16. CASE FinalizerConflict
    <2>1. faults' \in 0..MaxFaults
        BY <1>n, <1>16 DEF FinalizerConflict
    <2> QED BY <1>g, <1>16, <2>1, FailedMoves DEF FinalizerConflict
<1>17. CASE FinalizerFails
    <2>1. faults' \in 0..MaxFaults /\ pc' = "start" /\ UNCHANGED <<secret, things, caches, requests, raced, lost, edits, restarts>>
        BY <1>n, <1>17 DEF FinalizerFails
    <2>2. pc # "idle" /\ pc \notin {"srv", "ing"}
        BY <1>17 DEF FinalizerFails, Finalizing
    <2>3. res' \in Objects
        <3>1. res' \in {res, entity', WithPhase(ecache, "Failed")}
              \/ res' \in {WithPhase(res, f) : f \in {res.phase, "Deleting", "Failed"}}
            BY ONLY <1>17, Zenon DEF FinalizerFails
        <3>2. res \in Objects /\ ecache \in Objects
            BY <2>2
        <3>3. \A h \in Objects, f \in {res.phase, "Deleting", "Failed"} : WithPhase(h, f) \in Objects
            BY <3>2, PhaseNames, WithPhaseKeeps DEF Objects
        <3> QED BY <1>g, <3>1, <3>2, <3>3
    <2> QED BY <1>g, <2>1, <2>2, <2>3
<1>18. CASE Fail
    <2>1. SetFailed /\ faults' = (IF entity.exists THEN faults + 1 ELSE faults)
          /\ (entity.exists => faults < MaxFaults) /\ queued' \in {queued, TRUE}
          /\ UNCHANGED <<things, caches, wake, raced, lost, edits, restarts>>
        BY <1>18, Zenon DEF Fail
    <2>2. faults' \in 0..MaxFaults
        BY <1>n, <2>1
    <2> QED BY <1>g, <2>1, <2>2, FailedMoves
<1>29. CASE FailedLost
    <2>1. queued' \in BOOLEAN /\ lost' \in BOOLEAN
        BY ONLY <1>29, TypeOK, Zenon DEF FailedLost, TypeOK
    <2>2. faults' \in 0..MaxFaults
        BY <1>n, <1>29 DEF FailedLost
    <2> QED BY <1>29, <2>1, <2>2 DEF FailedLost, Return
<1>19. CASE SyncEntity
    <2>1. queued' \in BOOLEAN
        BY <1>19 DEF SyncEntity
    <2> QED BY <1>g, <1>19, <2>1 DEF SyncEntity
<1>20. CASE SyncOthers
    BY <1>20 DEF SyncOthers
<1>26. CASE WakeUp
    <2>1. UNCHANGED <<entity, made, tls, model, pod, killed, ecache, seen, res, secret, pc, raced,
                      lost, edits, restarts, faults>>
        BY <1>26 DEF WakeUp
    <2>2. queued' \in BOOLEAN /\ wake' \in BOOLEAN
        BY <1>26 DEF WakeUp
    <2> QED BY <2>1, <2>2
<1>27. CASE CreateModel
    BY <1>27 DEF CreateModel
<1>28. CASE PodComes
    BY <1>28 DEF PodComes
<1>21. ASSUME NEW s \in Specs, Edit(s) PROVE TypeOK' /\ Working'
    BY <1>g, <1>n, <1>21 DEF Edit
<1>22. CASE Delete
    BY <1>g, <1>n, <1>22 DEF Delete
<1>23. CASE PodLost
    <2>1. UNCHANGED <<entity, made, tls, model, killed, ecache, seen, res, secret, pc, queued, wake,
                      raced, lost, edits, restarts>>
        BY <1>23 DEF PodLost
    <2>2. pod' \in BOOLEAN /\ faults' \in 0..MaxFaults
        BY <1>n, <1>23 DEF PodLost
    <2> QED BY <2>1, <2>2
<1>24. CASE Restart
    <2>1. queued' \in BOOLEAN
        BY <1>b, <1>24 DEF Restart
    <2>2. restarts' \in 0..MaxRestarts
        BY <1>n, <1>24 DEF Restart
    <2> QED BY <1>g, <1>24, <2>1, <2>2 DEF Restart, Return
<1>25. CASE UNCHANGED vars
    BY <1>25 DEF vars
<1> QED
    BY <1>1, <1>2, <1>3, <1>4, <1>5, <1>6, <1>7, <1>8, <1>9, <1>10, <1>11, <1>12, <1>13, <1>14,
       <1>15, <1>16, <1>17, <1>18, <1>19, <1>20, <1>21, <1>22, <1>23, <1>24, <1>25,
       <1>26, <1>27, <1>28, <1>29 DEF Next, Reconcile
\* How a step moves the pass: to a step before it provides anything, not at all,
\* past a resource that exists or is not for every Entity, past the owner or past
\* the lock.  Its copy stays, is a newer one, or gets another phase.
Early == {"idle", "finalizer", "deleting", "pod", "unfinalize", "start", "sync", "model", "sa"}
Advances ==
    \/ pc' \in Early
    \/ UNCHANGED <<pc, secret>>
    \/ \E k \in Resources :
          /\ pc = k /\ pc' = After[k] /\ (Wanted(k) => k \in made')
          /\ secret' = IF k = "crt" THEN SecretName ELSE secret
          /\ k = "ing" => tls' = secret
    \/ pc = "own" /\ pc' = "lock" /\ entity'.owned
    \/ pc = "lock" /\ pc' = "done" /\ entity'.locked
Copies ==
    /\ ecache' = ecache \/ ecache' = entity'
    /\ pc' # "idle" =>
          \/ res' = ecache /\ (raced' \/ ecache.gen = entity.gen)
          \/ pc # "idle" /\ res' \in {res, entity'}
          \/ pc # "idle" /\ \E f \in Phases : res' \in {WithPhase(res, f), WithPhase(ecache, f)}
Grows ==
    /\ made \subseteq made' /\ (killed => killed') /\ (raced => raced')
    /\ tls' = tls \/ (pc = "ing" /\ tls' = secret)
    /\ pc' = "unfinalize" => pc = "unfinalize" \/ killed'
Passes == Advances /\ Copies /\ Grows

LEMMA FailedPasses ==
    ASSUME pc' = "idle", UNCHANGED <<things, caches, raced>> PROVE Passes
BY DEF Passes, Advances, Copies, Grows, Early, things, caches

LEMMA PassMoves == TypeOK /\ Working /\ Remembers /\ [Next]_vars => Passes
<1> SUFFICES ASSUME TypeOK, Working, Remembers, [Next]_vars PROVE Passes
    OBVIOUS
<1>t. entity \in Objects
    BY DEF TypeOK
<1> USE DEF things, caches, worker, requests, bounds
<1>1. CASE Begin
    BY <1>1 DEF Begin, Passes, Advances, Copies, Grows, Early
<1>2. CASE AddFinalizer \/ MarkDeleting
    BY <1>2 DEF AddFinalizer, MarkDeleting, Go, Passes, Advances, Copies, Grows, Early
<1>3. CASE KeepFinalizer \/ RemoveFinalizer \/ DeletePod
    BY <1>3 DEF KeepFinalizer, RemoveFinalizer, DeletePod, GoOn, Passes, Advances, Copies, Grows, Early
<1>4. CASE PodMissing \/ Sync \/ SyncFails \/ NoPod \/ Finish
    <2>1. pc' = "idle" /\ UNCHANGED <<things, caches, raced>>
        BY <1>4 DEF PodMissing, Sync, SyncFails, NoPod, Finish, Return
    <2> QED BY <2>1, FailedPasses
<1>5. CASE Start
    <2>1. \/ GoOn("sync") \/ Go("model") \/ GoOn("model")
        BY <1>5, Zenon DEF Start
    <2>2. pc = "start" /\ UNCHANGED <<things, caches, raced>>
        BY <1>5, Zenon DEF Start
    <2> QED BY <2>1, <2>2 DEF GoOn, Go, Passes, Advances, Copies, Grows, Early
<1>6. CASE GetModel
    <2>1. CASE GoOn("sa")
        BY <1>6, <2>1 DEF GetModel, GoOn, Passes, Advances, Copies, Grows, Early
    <2>2. CASE SetFailed
        BY <1>t, <1>6, <2>2, FailedMoves, FailedPasses DEF GetModel
    <2> QED BY <1>6, <2>1, <2>2 DEF GetModel
<1>7. ASSUME NEW k \in Resources, Skip(k) \/ Provided(k) PROVE Passes
    <2>1. (Wanted(k) => k \in made') /\ (k = "ing" => tls' = secret)
        BY <1>7 DEF Skip, Provided, Wanted
    <2>2. /\ pc = k /\ pc # "idle" /\ pc' = After[k] /\ res' = res
          /\ secret' = IF k = "crt" THEN SecretName ELSE secret
          /\ UNCHANGED <<things, caches, raced>>
        BY <1>7 DEF Skip, Provided, Resources
    <2> QED BY <2>1, <2>2, Follows DEF Passes, Advances, Copies, Grows
<1>8. ASSUME NEW k \in Resources, Provide(k) PROVE Passes
    <2>1. /\ made' = made \cup {k} /\ pc = k /\ UNCHANGED <<entity, killed, caches, raced>>
          /\ tls' = IF k = "ing" THEN secret ELSE tls
        BY <1>8 DEF Provide
    <2>2. CASE pc' = After[k] /\ res' = entity /\ secret' = IF k = "crt" THEN SecretName ELSE secret
        BY <2>1, <2>2, Follows DEF Passes, Advances, Copies, Grows, Resources
    <2>3. CASE pc' = "idle"
        BY <2>1, <2>3 DEF Passes, Advances, Copies, Grows, Early
    <2> QED BY <1>8, <2>2, <2>3 DEF Provide, Return
<1>9. CASE \E k \in Resources : Exists(k)
    BY <1>t, <1>9, FailedMoves, FailedPasses DEF Exists
<1>10. CASE SetOwner
    <2>1. entity'.owned
        <3>1. CASE res.owned
            BY <1>10, <3>1 DEF SetOwner, Remembers, Known
        <3>2. CASE ~res.owned
            BY <1>t, <1>10, <3>2 DEF SetOwner, SetStatus, Objects
        <3> QED BY <3>1, <3>2
    <2>2. pc = "own" /\ pc' = "lock" /\ res' \in {res, entity'}
          /\ UNCHANGED <<things, caches, raced>>
        BY <1>10 DEF SetOwner, GoOn, Go
    <2> QED BY <2>1, <2>2 DEF Passes, Advances, Copies, Grows
<1>11. CASE LockOnPod
    <2>1. entity'.locked
        <3>1. CASE res.locked
            BY <1>11, <3>1 DEF LockOnPod, Remembers, Known
        <3>2. CASE ~res.locked
            BY <1>t, <1>11, <3>2 DEF LockOnPod, SetStatus, Objects
        <3> QED BY <3>1, <3>2
    <2>2. pc = "lock" /\ pc' = "done" /\ res' \in {res, entity'}
          /\ UNCHANGED <<things, caches, raced>>
        BY <1>11 DEF LockOnPod, GoOn, Go
    <2> QED BY <2>1, <2>2 DEF Passes, Advances, Copies, Grows
<1>12. CASE FinalizerConflict
    BY <1>t, <1>12, FailedMoves, FailedPasses DEF FinalizerConflict
<1>13. CASE FinalizerFails
    <2>1. pc' = "start" /\ pc # "idle" /\ UNCHANGED <<things, caches, raced>>
        BY <1>13 DEF FinalizerFails, Finalizing
    <2>2. res' \in {res, entity'} \/ \E f \in Phases : res' \in {WithPhase(res, f), WithPhase(ecache, f)}
        <3>1. res' \in {res, entity', WithPhase(ecache, "Failed")}
              \/ res' \in {WithPhase(res, f) : f \in {res.phase, "Deleting", "Failed"}}
            BY ONLY <1>13, Zenon DEF FinalizerFails
        <3>2. {res.phase, "Deleting", "Failed"} \subseteq Phases
            BY <2>1, PhaseNames DEF Objects, Working
        <3> QED BY <3>1, <3>2
    <2> QED BY <2>1, <2>2 DEF Passes, Advances, Copies, Grows, Early
<1>14. CASE Fail
    <2>1. SetFailed /\ UNCHANGED <<things, caches, raced>>
        BY <1>14, Zenon DEF Fail
    <2> QED BY <1>t, <2>1, FailedMoves, FailedPasses
<1>18. CASE FailedLost
    BY <1>18, FailedPasses DEF FailedLost, Return
<1>15. CASE SyncEntity
    BY <1>15 DEF SyncEntity, Passes, Advances, Copies, Grows
<1>16. CASE SyncOthers \/ WakeUp \/ PodLost \/ PodComes \/ CreateModel \/ Delete \/ (\E s \in Specs : Edit(s))
            \/ UNCHANGED vars
    <2>1. UNCHANGED <<ecache, pc, res, secret, made, tls, killed>>
        BY <1>16 DEF SyncOthers, WakeUp, PodLost, PodComes, CreateModel, Delete, Edit, vars
    <2>2. raced => raced'
        BY <1>16 DEF SyncOthers, WakeUp, PodLost, PodComes, CreateModel, Delete, Edit, vars
    <2> QED BY <2>1, <2>2 DEF Passes, Advances, Copies, Grows
<1>17. CASE Restart
    BY <1>17 DEF Restart, Return, Passes, Advances, Copies, Grows, Early
<1> QED
    BY <1>1, <1>2, <1>3, <1>4, <1>5, <1>6, <1>7, <1>8, <1>9, <1>10, <1>11, <1>12, <1>13, <1>14,
       <1>15, <1>16, <1>17, <1>18 DEF Next, Reconcile

\* With that, each part of the invariant is kept.
LEMMA RemembersStep ==
    ASSUME TypeOK, Working, Remembers, Moves, Copies PROVE Remembers'
<1> DEFINE Still(e) == (e.owned => entity'.owned) /\ (e.locked => entity'.locked)
<1>1. Still(ecache) /\ Still(entity') /\ (pc # "idle" => Still(res))
    BY DEF Remembers, Known, Moves
<1>2. ASSUME pc # "idle", NEW f \in Phases PROVE Still(WithPhase(res, f)) /\ Still(WithPhase(ecache, f))
    BY <1>1, <1>2, WithPhaseKeeps DEF Working, TypeOK
<1>3. Still(ecache') /\ (pc' # "idle" => Still(res'))
    BY <1>1, <1>2 DEF Copies
<1> QED BY <1>3 DEF Remembers, Known

LEMMA InOrderStep ==
    ASSUME InOrder, Moves, Advances, Grows PROVE InOrder'
<1> USE DEF InOrder, Grows
<1>1. CASE pc' \in Early
    BY <1>1 DEF Early
<1>2. CASE UNCHANGED <<pc, secret>>
    BY <1>2 DEF Moves
<1>3. ASSUME NEW k \in Resources, pc = k, pc' = After[k], Wanted(k) => k \in made'
      PROVE  InOrder'
    <2>1. k \in made' \/ k \in {"rb", "crt"}
        BY <1>3 DEF Wanted
    <2> QED BY <1>3, <2>1, Follows DEF Resources
<1>4. CASE pc = "own" /\ pc' = "lock" /\ entity'.owned
    BY <1>4
<1>5. CASE pc = "lock" /\ pc' = "done" /\ entity'.locked
    BY <1>5 DEF Moves
<1> QED BY <1>1, <1>2, <1>3, <1>4, <1>5 DEF Advances

LEMMA CompleteStep == ASSUME InOrder, Complete, Moves, Grows PROVE Complete'
BY DEF InOrder, Complete, Moves, Grows

LEMMA PodFirstStep == ASSUME PodFirst, Moves, Grows PROVE PodFirst'
BY DEF PodFirst, Moves, Grows

LEMMA GenerationsStep ==
    ASSUME TypeOK, Generations, Moves, Copies PROVE Generations'
<1>1. /\ entity.gen \in Nat /\ entity.observed \in Nat /\ ecache.gen \in Nat
      /\ entity'.gen \in Nat
    BY DEF TypeOK, Objects, Moves
<1>2. CASE Edited
    BY <1>1, <1>2 DEF Edited, Generations
<1>3. CASE Unedited
    BY <1>1, <1>3 DEF Unedited, Generations, Copies
<1> QED BY <1>2, <1>3 DEF Moves

LEMMA FittingStep ==
    ASSUME TypeOK, Working, Generations, ~raced => Fitting, Moves, Advances, Copies, Grows
    PROVE  ~raced' => Fitting'
<1> SUFFICES ASSUME ~raced' PROVE Fitting'
    OBVIOUS
<1>f. Fitting
    BY DEF Grows
<1>g. entity.gen \in Nat /\ entity.observed \in Nat /\ entity.observed <= entity.gen
    BY DEF TypeOK, Objects, Generations
<1>1. CASE Edited
    <2>1. pc = "idle" /\ pc' = "idle"
        BY <1>1 DEF Edited, worker
    <2>2. ~Current(entity')
        BY <1>1, <1>g DEF Edited, Current
    <2> QED BY <2>1, <2>2 DEF Fitting
<1>2. CASE Unedited
    <2>s. entity'.spec = entity.spec
        BY <1>2 DEF Unedited
    <2>1. pc' # "idle" => res'.spec = entity'.spec /\ ecache'.gen = entity'.gen
        <3>1. ASSUME pc # "idle", NEW f \in Phases
              PROVE  WithPhase(res, f).spec = res.spec /\ WithPhase(ecache, f).spec = ecache.spec
            BY <3>1, WithPhaseKeeps DEF Working, TypeOK
        <3>2. pc' # "idle" => ecache.gen = entity.gen
            BY <1>f DEF Copies, Fitting
        <3> QED BY <1>f, <1>2, <2>s, <3>1, <3>2 DEF Copies, Fitting, Generations, Unedited
    <2>2. tls = Chosen => tls' = Chosen
        BY <1>f DEF Grows, Fitting
    <2>3. SpecApplied => SpecApplied'
        BY <2>s, <2>2 DEF SpecApplied, Grows, Chosen
    <2>4. Current(entity') => SpecApplied'
        <3>1. CASE Current(entity)
            BY <1>f, <2>3, <3>1 DEF Fitting
        <3>2. CASE pc = "done"
            BY <1>f, <2>3, <3>2 DEF Fitting, SpecApplied, Chosen
        <3> QED BY <1>2, <3>1, <3>2 DEF Unedited
    <2>5. Chosen' = Chosen
        BY <2>s DEF Chosen
    <2>6. CASE pc' \in Early
        BY <2>1, <2>4, <2>6 DEF Fitting, Early
    <2>7. CASE UNCHANGED <<pc, secret>>
        <3>1. /\ pc' \in {"crt", "srv", "ing", "own", "lock", "done"} /\ entity'.spec.privileged => "rb" \in made'
              /\ pc' \in {"srv", "ing", "own", "lock", "done"} /\ entity'.spec.bare => "crt" \in made'
            BY <1>f, <2>s, <2>7 DEF Fitting, Grows
        <3>2. /\ pc' \in {"srv", "ing"} => secret' = Chosen'
              /\ pc' \in {"own", "lock", "done"} => tls' = Chosen'
            BY <1>f, <2>2, <2>5, <2>7 DEF Fitting
        <3> QED BY <2>1, <2>4, <3>1, <3>2 DEF Fitting
    <2>8. ASSUME NEW k \in Resources, pc = k, pc' = After[k], Wanted(k) => k \in made',
                 secret' = (IF k = "crt" THEN SecretName ELSE secret), k = "ing" => tls' = secret
          PROVE  Fitting'
        <3>1. res.spec = entity.spec
            BY <1>f, <2>8 DEF Fitting, Resources
        <3>2. /\ k = "rb" /\ entity.spec.privileged => "rb" \in made'
              /\ k = "crt" /\ entity.spec.bare => "crt" \in made'
              /\ k = "crt" => secret' = Chosen
            BY <2>8, <3>1 DEF Wanted, SecretName, Chosen
        <3>3. /\ pc' \in {"crt", "srv", "ing", "own"} /\ entity.spec.privileged => "rb" \in made'
              /\ pc' \in {"srv", "ing", "own"} /\ entity.spec.bare => "crt" \in made'
            BY <1>f, <2>8, <3>2, Follows DEF Fitting, Grows, Resources
        <3>4. pc' \in {"srv", "ing"} => secret' = Chosen
            BY <1>f, <2>8, <3>2, Follows DEF Fitting, Resources
        <3>5. pc' = "own" => tls' = Chosen
            BY <1>f, <2>8, Follows DEF Fitting, Resources
        <3> QED BY <2>8, <2>s, <2>1, <2>4, <2>5, <3>3, <3>4, <3>5, Follows DEF Fitting
    <2>9. CASE (pc = "own" /\ pc' = "lock") \/ (pc = "lock" /\ pc' = "done")
        BY <1>f, <2>s, <2>1, <2>2, <2>4, <2>5, <2>9 DEF Fitting, Grows
    <2>10. CASE \E k \in Resources :
                    /\ pc = k /\ pc' = After[k] /\ (Wanted(k) => k \in made')
                    /\ secret' = IF k = "crt" THEN SecretName ELSE secret
                    /\ k = "ing" => tls' = secret
        BY ONLY <2>8, <2>10
    <2> QED BY <2>6, <2>7, <2>9, <2>10 DEF Advances
<1> QED BY <1>1, <1>2 DEF Moves

\* A new Entity has no phase yet, and nothing runs.
LEMMA InitHolds == Init => IInv
<1> SUFFICES ASSUME Init PROVE IInv
    OBVIOUS
<1>1. /\ entity \in Objects /\ entity.phase # "Provisoned" /\ entity.exists
      /\ entity.observed = 0 /\ entity.gen = 1
      /\ pod = entity.owned /\ model \in {TRUE, entity.owned}
    <2>1. PICK spec \in Specs, owned \in BOOLEAN :
            /\ entity = [exists |-> TRUE, deleting |-> FALSE, finalizer |-> FALSE, gen |-> 1,
                         spec |-> spec, owned |-> owned,
                         phase |-> "", observed |-> 0, locked |-> FALSE]
            /\ pod = owned /\ model \in {TRUE, owned}
        BY Zenon DEF Init
    <2>2. "" \in Phases /\ "" # "Provisoned"
        BY Zenon DEF Phases
    <2>3. 0 \in Nat /\ 1 \in Nat
        OBVIOUS
    <2>4. entity \in Objects
        BY <2>1, <2>2, <2>3, Zenon DEF Objects
    <2> QED BY <2>1, <2>2, <2>4, Zenon
<1>2. /\ made = {} /\ tls = "none" /\ killed = FALSE /\ ecache = entity /\ seen = {}
      /\ res = Nothing /\ secret = "none" /\ pc = "idle" /\ queued = TRUE /\ wake = FALSE
      /\ raced = FALSE /\ lost = FALSE /\ edits = 0 /\ restarts = 0 /\ faults = 0
    BY Zenon DEF Init
<1>3. /\ entity.owned \in BOOLEAN
      /\ MaxEdits \in Nat /\ MaxRestarts \in Nat /\ MaxFaults \in Nat
    BY <1>1, EntityAssumption DEF Objects, EntityAssumption
<1>4. TypeOK
    <2>1. model \in BOOLEAN /\ pod \in BOOLEAN
        BY <1>1, <1>3
    <2>2. entity \in Objects /\ ecache \in Objects /\ res \in Objects \cup {Nothing}
        BY <1>1, <1>2
    <2>3. edits \in 0..MaxEdits /\ restarts \in 0..MaxRestarts /\ faults \in 0..MaxFaults
        BY <1>2, <1>3
    <2> QED BY ONLY <1>2, <2>1, <2>2, <2>3 DEF TypeOK
<1>5. Working /\ Remembers /\ InOrder /\ Complete /\ PodFirst
    BY <1>1, <1>2 DEF Working, Remembers, Known, InOrder, Complete, PodFirst
<1>6. Generations /\ Fitting
    BY <1>1, <1>2 DEF Generations, Fitting, Current
<1> QED BY <1>4, <1>5, <1>6 DEF IInv

\* The parts of the invariant hold of every state that can be reached.
THEOREM Invariance == Spec => []IInv
<1>1. IInv /\ [Next]_vars => IInv'
    BY EntityMoves, TypeStep, PassMoves, RemembersStep, InOrderStep, CompleteStep, PodFirstStep,
       GenerationsStep, FittingStep
       DEF IInv, Passes
<1> QED BY <1>1, InitHolds, PTL DEF Spec

\* What the Entity, its copies and a pass can look like, for any specs and bounds;
\* no ingress names a secret that the pass did not choose.
THEOREM TypesHold == Spec => []TypeOK
<1>1. IInv => TypeOK
    BY DEF IInv
<1> QED BY <1>1, Invariance, PTL

\* SetPhase("Provisoned") at the end of Reconcile tells the truth, whatever the
\* copies the pass decided on.
THEOREM ProvisionedComplete == Spec => []ProvisionedIsComplete
<1>1. IInv => ProvisionedIsComplete
    BY DEF IInv, Complete, ProvisionedIsComplete
<1> QED BY <1>1, Invariance, PTL

\* handleFinalizer lets an Entity go only after GetObjectsToDelete's pod was deleted.
THEOREM PodGoesFirstAlways == Spec => []PodGoesFirst
<1>1. IInv => PodGoesFirst
    BY DEF IInv, PodFirst, PodGoesFirst
<1> QED BY <1>1, Invariance, PTL

\* Edits in between passes are applied before they are called observed, whatever
\* the caches showed, whichever calls failed and whichever delayed requests earlier
\* passes left (Reconcile, with the secretName it hands from step to step).
THEOREM CalmSpecsApplied == Spec => []CalmSpecApplied
<1>1. IInv => CalmSpecApplied
    BY DEF IInv, Fitting, CalmSpecApplied
<1> QED BY <1>1, Invariance, PTL
=============================================================================
