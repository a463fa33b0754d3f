-------------------------- MODULE EntityController --------------------------
(***************************************************************************)
(* One Entity: EntityReconciler.Reconcile and lockOnPod                    *)
(* (internal/controller/entity_controller.go) and the deletion function of *)
(* api/v1/entity_types.go.  A pass gives the Entity a service account, a   *)
(* role binding if it is privileged, a certificate unless its spec names a *)
(* secret, a service and an ingress; then it is owned by its Model, locks  *)
(* on the pod of its ordinal index and asks it for its status again and    *)
(* again.  A pass is cut at its API writes, and its reads are served by    *)
(* informer caches that lag.  UpdateStatus and UpdateObj apply in one step *)
(* or fail (StatusUpdate); the growth of the StatefulSet is in             *)
(* OrdinalAllocation.                                                      *)
(***************************************************************************)
EXTENDS Naturals

CONSTANTS
    Specs,      \* what users write: [privileged : BOOLEAN, bare : BOOLEAN], where a
                \* bare spec names no secret
    MaxEdits, MaxRestarts, MaxFaults,  \* bounds, each of its kind
    MaxUpsets                          \* and of the three together

ASSUME EntityAssumption ==
    /\ Specs \subseteq [privileged : BOOLEAN, bare : BOOLEAN]
    /\ {MaxEdits, MaxRestarts, MaxFaults, MaxUpsets} \subseteq Nat

\* What a pass provides, in its order, and the step that follows each.
Resources == {"sa", "rb", "crt", "srv", "ing"}
After == [sa |-> "rb", rb |-> "crt", crt |-> "srv", srv |-> "ing", ing |-> "own"]

VARIABLES
    entity,   \* the Entity in the API server
    ecache,   \* the informer's copy of it
    made,     \* the resources that exist
    seen,     \* those the informers know of
    tls,      \* the secret the ingress names
    model,    \* the Model exists
    pod,      \* the pod with the label of the Entity's index exists
    killed,   \* the Entity's deletion has deleted its pod
    res,      \* the copy the running pass works on
    secret,   \* its local secretName
    pc,       \* where it is; "idle" between passes
    queued,   \* the work queue holds a request for the Entity
    wake,     \* and its delaying queue one for later
    raced,    \* a user or a restart came in while a pass was running or due, or a
              \* pass ran on a copy from before an edit
    lost,     \* a pass ended with an error that could not be recorded either
    edits, restarts, faults  \* how often each happened

things == <<made, tls, model, pod, killed>>
caches == <<ecache, seen>>
worker == <<res, secret, pc>>
requests == <<queued, wake>>
bounds == <<raced, lost, edits, restarts, faults>>
Room == edits + restarts + faults < MaxUpsets
vars == <<entity, things, caches, worker, requests, bounds>>

Nothing == [exists |-> FALSE]

\* The Model controller creates its entities owned, and their pods exist.
Init ==
    /\ \E spec \in Specs, owned \in BOOLEAN :
        /\ entity = [exists |-> TRUE, deleting |-> FALSE, finalizer |-> FALSE, gen |-> 1,
                     spec |-> spec, owned |-> owned,
                     phase |-> "", observed |-> 0, locked |-> FALSE]
        /\ pod = owned /\ model \in {TRUE, owned}
    /\ made = {} /\ tls = "none" /\ killed = FALSE
    /\ ecache = entity /\ seen = {}
    /\ res = Nothing /\ secret = "none" /\ pc = "idle"
    /\ queued = TRUE /\ wake = FALSE
    /\ raced = FALSE /\ lost = FALSE /\ edits = 0 /\ restarts = 0 /\ faults = 0

(***************************************************************************)
(* The pieces of a pass.                                                   *)
(***************************************************************************)
\* Entity.SetPhase: Provisoned also copies the generation of the object at hand.
WithPhase(e, phase) ==
    IF phase = "Provisoned" THEN [e EXCEPT !.phase = phase, !.observed = e.gen]
    ELSE [e EXCEPT !.phase = phase]

SetStatus(e) == entity.exists /\ entity' = e
SetPhase(phase) == SetStatus(WithPhase(entity, phase))

\* The pass goes on with the copy UpdateStatus refreshed, or with the one it has;
\* or it returns, and its variables are dead.
Go(next) == pc' = next /\ res' = entity' /\ UNCHANGED secret
GoOn(next) == pc' = next /\ UNCHANGED <<res, secret>>
Return == pc' = "idle" /\ res' = Nothing /\ secret' = "none"

\* ErrorDelegateHandler.
SetFailed ==
    /\ IF entity.exists THEN SetPhase("Failed") ELSE UNCHANGED entity
    /\ Return

Begin ==
    /\ pc = "idle" /\ queued
    /\ queued' = FALSE
    /\ IF ecache.exists THEN res' = ecache /\ pc' = "finalizer" /\ UNCHANGED secret
       ELSE UNCHANGED worker
    /\ raced' = (raced \/ ecache.gen # entity.gen)
    /\ UNCHANGED <<entity, things, caches, wake, lost, edits, restarts, faults>>

\* handleFinalizer: r.Update with a new finalizer, which needs a current copy.
AddFinalizer ==
    /\ pc = "finalizer" /\ ~res.finalizer /\ res = entity
    /\ entity' = [entity EXCEPT !.finalizer = TRUE]
    /\ Go(IF res.deleting THEN "deleting" ELSE "start")
    /\ UNCHANGED <<things, caches, requests, bounds>>

KeepFinalizer ==
    /\ pc = "finalizer" /\ res.finalizer
    /\ GoOn(IF res.deleting THEN "deleting" ELSE "start")
    /\ UNCHANGED <<entity, things, caches, requests, bounds>>

MarkDeleting ==
    /\ pc = "deleting"
    /\ SetPhase("Deleting") /\ Go("pod")
    /\ UNCHANGED <<things, caches, requests, bounds>>

\* GetObjectsToDelete: delete the pod named in the status ...
DeletePod ==
    /\ pc = "pod" /\ res.locked /\ pod
    /\ pod' = FALSE /\ killed' = TRUE
    /\ GoOn("unfinalize")
    /\ UNCHANGED <<entity, made, tls, model, caches, requests, bounds>>

\* Mutants of PodMissing: the error is ignored, or not returned.
PodIgnored ==
    /\ pc = "pod" /\ ~(res.locked /\ pod)
    /\ GoOn("unfinalize")
    /\ UNCHANGED <<entity, things, caches, requests, bounds>>

PodDropped ==
    /\ pc = "pod" /\ ~(res.locked /\ pod)
    /\ Return
    /\ UNCHANGED <<entity, things, caches, requests, bounds>>

\* ... and one that is not there, or no name, is an error that is retried.
PodMissing ==
    /\ pc = "pod" /\ ~(res.locked /\ pod)
    /\ Return /\ queued' = TRUE
    /\ UNCHANGED <<entity, things, caches, wake, bounds>>

\* r.Update without the finalizer: the Entity is gone.  The pass does not end.
RemoveFinalizer ==
    /\ pc = "unfinalize" /\ res = entity
    /\ entity' = [entity EXCEPT !.exists = FALSE]
    /\ GoOn("start")
    /\ UNCHANGED <<things, caches, requests, bounds>>

Finalizing ==
    \/ pc = "finalizer" /\ ~res.finalizer
    \/ pc \in {"deleting", "unfinalize"}

\* A conflict in handleFinalizer is an error and is retried.
FinalizerConflict ==
    /\ Finalizing /\ entity.exists
    /\ \/ pc # "deleting" /\ res # entity /\ UNCHANGED faults
       \/ faults < MaxFaults /\ Room /\ faults' = faults + 1
    /\ SetFailed /\ queued' = TRUE
    /\ UNCHANGED <<things, caches, wake, raced, lost, edits, restarts>>

\* Another failure there is none, even if Failed cannot be written: Reconcile goes
\* on.  What was not written res may have: the functions of UpdateStatus set it on
\* the copy that Get refreshed, or on the old one when the Entity is gone.
FinalizerFails ==
    /\ Finalizing
    /\ entity.exists => faults < MaxFaults /\ Room
    /\ faults' = IF entity.exists THEN faults + 1 ELSE faults
    /\ \/ SetPhase("Failed") /\ res' = entity'
       \/ entity.exists /\ res' \in {res, WithPhase(ecache, "Failed")} /\ UNCHANGED entity
       \/ /\ ~entity.exists /\ UNCHANGED entity
          /\ res' \in {WithPhase(res, f) : f \in {res.phase, "Deleting", "Failed"}}
    /\ pc' = "start" /\ UNCHANGED secret
    /\ UNCHANGED <<things, caches, requests, raced, lost, edits, restarts>>

Current(e) == e.observed = e.gen /\ e.phase = "Provisoned"

\* A provisioned Entity is synced.  Another becomes Provisioning, unless only its
\* phase is another one.
Start ==
    /\ pc = "start"
    /\ \/ Current(res) /\ GoOn("sync") /\ UNCHANGED entity
       \/ ~Current(res) /\ (res.phase = "" \/ res.observed # res.gen)
          /\ SetPhase("Provisioning") /\ Go("model")
       \/ res.phase \notin {"", "Provisoned"} /\ res.observed = res.gen
          /\ GoOn("model") /\ UNCHANGED entity
    /\ UNCHANGED <<things, caches, requests, bounds>>

\* Mutant of Sync: no next one is requested.
SyncOnce ==
    /\ pc = "sync" /\ entity.exists /\ pod
    /\ Return
    /\ UNCHANGED <<entity, things, caches, requests, bounds>>

\* The agent in the pod answers the status request, SetStatusData stores the
\* answer and the next one is requested after SyncPeriod, which is never 0.
Sync ==
    /\ pc = "sync" /\ entity.exists /\ pod
    /\ Return /\ wake' = TRUE
    /\ UNCHANGED <<entity, things, caches, queued, bounds>>

\* A sync that fails is returned as an error and retried.
SyncFails ==
    /\ pc = "sync"
    /\ Return /\ queued' = TRUE
    /\ UNCHANGED <<entity, things, caches, wake, bounds>>

GetModel ==
    /\ pc = "model"
    /\ IF model THEN GoOn("sa") /\ UNCHANGED entity ELSE SetFailed
    /\ UNCHANGED <<things, caches, requests, bounds>>

(***************************************************************************)
(* The resources, by ClusterResourceHandler.Handle behind Processor.       *)
(***************************************************************************)
Wanted(k) == (k = "rb" => res.spec.privileged) /\ (k = "crt" => res.spec.bare)

\* The ingress is made with the name that the step of the certificate chose.
SecretName == IF res.spec.bare THEN "crt" ELSE "given"

Skip(k) ==
    /\ pc = k /\ ~Wanted(k)
    /\ pc' = After[k] /\ res' = res
    /\ secret' = IF k = "crt" THEN SecretName ELSE secret
    /\ UNCHANGED <<entity, things, caches, requests, bounds>>

\* Create it, or update it to what this pass wants, and record a condition; the
\* pass goes on with the refreshed copy, and ends if the Entity is gone.
Provide(k) ==
    /\ pc = k /\ Wanted(k)
    /\ k \in made => k \in seen /\ k \notin {"sa", "rb"}
    /\ made' = made \cup {k}
    /\ tls' = IF k = "ing" THEN secret ELSE tls
    /\ IF entity.exists
       THEN /\ pc' = After[k] /\ res' = entity
            /\ secret' = IF k = "crt" THEN SecretName ELSE secret
       ELSE Return
    /\ UNCHANGED <<entity, model, pod, killed, caches, requests, bounds>>

\* Mutant of Provided: nothing that exists is compared.
ProvidedAnyway(k) ==
    /\ pc = k /\ Wanted(k) /\ k \in made \cap seen
    /\ pc' = After[k] /\ res' = res
    /\ secret' = IF k = "crt" THEN SecretName ELSE secret
    /\ UNCHANGED <<entity, things, caches, requests, bounds>>

\* One that is as it should be is left alone, without a condition; Handle does
\* not compare a service account, and of a role binding the role only.
Provided(k) ==
    /\ pc = k /\ Wanted(k) /\ k \in made \cap seen
    /\ k = "ing" => tls = secret
    /\ pc' = After[k] /\ res' = res
    /\ secret' = IF k = "crt" THEN SecretName ELSE secret
    /\ UNCHANGED <<entity, things, caches, requests, bounds>>

\* One that the cache does not have yet makes Create fail.
Exists(k) ==
    /\ pc = k /\ Wanted(k) /\ k \in made \ seen
    /\ SetFailed
    /\ UNCHANGED <<things, caches, requests, bounds>>

\* handleOwnershipAndReplicas, unless somebody owns the Entity.
SetOwner ==
    /\ pc = "own"
    /\ IF res.owned THEN GoOn("lock") /\ UNCHANGED entity
       ELSE SetStatus([entity EXCEPT !.owned = TRUE]) /\ Go("lock")
    /\ UNCHANGED <<things, caches, requests, bounds>>

\* lockOnPod, once: the pod that carries the label of the index.
LockOnPod ==
    /\ pc = "lock" /\ (res.locked \/ pod)
    /\ IF res.locked THEN GoOn("done") /\ UNCHANGED entity
       ELSE SetStatus([entity EXCEPT !.locked = TRUE]) /\ Go("done")
    /\ UNCHANGED <<things, caches, requests, bounds>>

\* Mutants of NoPod: the pass goes on, or is not repeated.
NoPodNeeded ==
    /\ pc = "lock" /\ ~res.locked /\ ~pod
    /\ GoOn("done")
    /\ UNCHANGED <<entity, things, caches, requests, bounds>>

NoPodForgotten ==
    /\ pc = "lock" /\ ~res.locked /\ ~pod
    /\ Return
    /\ UNCHANGED <<entity, things, caches, requests, bounds>>

\* No such pod: again in ten seconds.
NoPod ==
    /\ pc = "lock" /\ ~res.locked /\ ~pod
    /\ Return /\ wake' = TRUE
    /\ UNCHANGED <<entity, things, caches, queued, bounds>>

Finish ==
    /\ pc = "done"
    /\ SetPhase("Provisoned") /\ Return /\ wake' = TRUE
    /\ UNCHANGED <<things, caches, queued, bounds>>

Calling ==
    \/ pc = "start" /\ ~Current(res) /\ (res.phase = "" \/ res.observed # res.gen)
    \/ pc \in Resources /\ entity.exists
    \/ pc = "own" /\ ~res.owned
    \/ pc = "lock" /\ ~res.locked /\ (pod \/ entity.exists)
    \/ pc = "done"

\* A call of the pass fails: the Entity is gone, or (a fault) the API server.
\* Only a conflict is returned as an error, which requests another pass.
Fail ==
    /\ Calling
    /\ entity.exists => faults < MaxFaults /\ Room
    /\ faults' = IF entity.exists THEN faults + 1 ELSE faults
    /\ SetFailed
    /\ queued' \in (IF entity.exists THEN {queued, TRUE} ELSE {queued})
    /\ UNCHANGED <<things, caches, wake, raced, lost, edits, restarts>>

\* The same, and those above that call SetFailed, when UpdateStatus(Failed) fails as
\* well: that is only logged.
FailedLost ==
    /\ entity.exists /\ faults < MaxFaults /\ Room
    /\ \/ (Calling \/ Finalizing) /\ queued' = TRUE /\ UNCHANGED lost
       \/ (Calling \/ (pc = "model" /\ ~model)) /\ lost' = TRUE /\ UNCHANGED queued
    /\ Return /\ faults' = faults + 1
    /\ UNCHANGED <<entity, things, caches, wake, raced, edits, restarts>>

Reconcile ==
    \/ Begin \/ AddFinalizer \/ KeepFinalizer \/ MarkDeleting \/ DeletePod \/ PodMissing
    \/ RemoveFinalizer \/ Start \/ Sync \/ SyncFails \/ GetModel
    \/ \E k \in Resources : Skip(k) \/ Provide(k) \/ Provided(k) \/ Exists(k)
    \/ SetOwner \/ LockOnPod \/ NoPod \/ Finish

(***************************************************************************)
(* Watches, the queue, users, other controllers and the manager's process. *)
(***************************************************************************)
\* GenerationChangedPredicate: only a new generation or the removal is a request.
SyncEntity ==
    /\ ecache # entity
    /\ ecache' = entity
    /\ queued' = (queued \/ ecache.gen # entity.gen \/ ~entity.exists)
    /\ UNCHANGED <<entity, things, seen, worker, wake, bounds>>

SyncOthers ==
    /\ seen # made
    /\ seen' = made
    /\ UNCHANGED <<entity, things, ecache, worker, requests, bounds>>

WakeUp ==
    /\ wake /\ wake' = FALSE /\ queued' = TRUE
    /\ UNCHANGED <<entity, things, caches, worker, bounds>>

Busy == pc # "idle" \/ queued \/ caches # <<entity, made>>

Edit(spec) ==
    /\ entity.exists /\ edits < MaxEdits /\ Room /\ spec # entity.spec
    /\ entity' = [entity EXCEPT !.spec = spec, !.gen = @ + 1]
    /\ edits' = edits + 1 /\ raced' = (raced \/ Busy)
    /\ UNCHANGED <<things, caches, worker, requests, lost, restarts, faults>>

\* An Entity with a finalizer is only marked, which is a new generation.
Delete ==
    /\ entity.exists /\ ~entity.deleting /\ edits < MaxEdits /\ Room
    /\ entity' = IF entity.finalizer THEN [entity EXCEPT !.deleting = TRUE, !.gen = @ + 1]
                 ELSE [entity EXCEPT !.exists = FALSE]
    /\ edits' = edits + 1 /\ raced' = (raced \/ Busy)
    /\ UNCHANGED <<things, caches, worker, requests, lost, restarts, faults>>

CreateModel ==
    /\ ~model /\ model' = TRUE
    /\ UNCHANGED <<entity, made, tls, pod, killed, caches, worker, requests, bounds>>

\* The StatefulSet controller replaces a pod that is gone.
PodComes ==
    /\ ~pod /\ entity.owned /\ pod' = TRUE
    /\ UNCHANGED <<entity, made, tls, model, killed, caches, worker, requests, bounds>>

PodLost ==
    /\ pod /\ faults < MaxFaults /\ Room
    /\ pod' = FALSE /\ faults' = faults + 1
    /\ UNCHANGED <<entity, made, tls, model, killed, caches, worker, requests, raced, lost,
                   edits, restarts>>

Restart ==
    /\ restarts < MaxRestarts /\ Room
    /\ restarts' = restarts + 1 /\ raced' = (raced \/ Busy)
    /\ Return
    /\ ecache' = entity /\ seen' = made /\ queued' = entity.exists /\ wake' = FALSE
    /\ UNCHANGED <<entity, things, lost, edits, faults>>

Next ==
    \/ Reconcile \/ FinalizerConflict \/ FinalizerFails \/ Fail \/ FailedLost
    \/ SyncEntity \/ SyncOthers \/ WakeUp
    \/ \E spec \in Specs : Edit(spec)
    \/ Delete \/ CreateModel \/ PodComes \/ PodLost \/ Restart

Spec == Init /\ [][Next]_vars

\* Steps of a pass that is under way need no fault to end it.
Conflicting == FinalizerConflict /\ UNCHANGED faults
Gone == ~entity.exists /\ (FinalizerFails \/ Fail)

\* The worker runs, delayed requests come due, the watches deliver and the
\* StatefulSet controller works; users, restarts and faults owe nothing.
FairSpec ==
    /\ Spec
    /\ WF_vars(Reconcile \/ Conflicting \/ Gone)
    /\ WF_vars(WakeUp) /\ WF_vars(SyncEntity) /\ WF_vars(SyncOthers) /\ WF_vars(PodComes)
-----------------------------------------------------------------------------
Phases == {"", "Provisioning", "Provisoned", "Deleting", "Failed"}
Objects == [exists : BOOLEAN, deleting : BOOLEAN, finalizer : BOOLEAN, gen : Nat,
            spec : Specs, owned : BOOLEAN, phase : Phases, observed : Nat, locked : BOOLEAN]

\* Types, and that the ingress is never made with a secretName that was not set.
TypeOK ==
    /\ entity \in Objects /\ ecache \in Objects /\ res \in Objects \cup {Nothing}
    /\ made \subseteq Resources /\ seen \subseteq Resources
    /\ tls \in {"none", "crt", "given"}
    /\ secret \in (IF pc \in {"srv", "ing"} THEN {"crt", "given"} ELSE {"none", "crt", "given"})
    /\ model \in BOOLEAN /\ pod \in BOOLEAN /\ killed \in BOOLEAN
    /\ queued \in BOOLEAN /\ wake \in BOOLEAN /\ raced \in BOOLEAN /\ lost \in BOOLEAN
    /\ pc \in {"idle", "finalizer", "deleting", "pod", "unfinalize", "start", "sync", "model",
               "own", "lock", "done"} \cup Resources
    /\ edits \in 0..MaxEdits /\ restarts \in 0..MaxRestarts /\ faults \in 0..MaxFaults

Settled == ~Busy /\ entity.exists /\ ~entity.deleting

\* Whatever stale copies, failures and restarts its passes met: an Entity that
\* says it is provisioned is owned, has locked on a pod and has the resources
\* that every Entity has.
ProvisionedIsComplete ==
    entity.exists /\ entity.phase = "Provisoned" =>
        entity.owned /\ entity.locked /\ {"sa", "srv", "ing"} \subseteq made

SpecApplied ==
    /\ entity.spec.privileged => "rb" \in made
    /\ entity.spec.bare => "crt" \in made
    /\ tls = IF entity.spec.bare THEN "crt" ELSE "given"

\* An edit that comes in between passes is applied, through the passes and
\* the delayed requests that earlier ones left behind.
CalmSpecApplied == Settled /\ Current(entity) /\ ~raced => SpecApplied

\* An Entity that had its finalizer never goes before its pod was deleted: not by
\* a crash, a conflict or a failure between the steps of its deletion.
PodGoesFirst == ~entity.exists /\ entity.finalizer => killed

\* A provisioned Entity is synced again and again (SyncPeriod), although requests
\* fail, are delayed, and their queue is lost in a restart; unless a pass that met
\* an old copy failed and could not say so.
SyncNeverStops == []<>(pc = "sync" \/ ~(entity.exists /\ Current(entity)) \/ lost)

\* A deleted Entity that has its pod goes, even when it is deleted, edited or
\* the manager restarts in the middle of a pass.
DeletedGoes ==
    (entity.exists /\ entity.deleting /\ entity.locked) ~> (~entity.exists \/ faults > 0)

\* No Entity is forgotten half way: it gets provisioned, or its phase says that
\* it failed or is being deleted, as long as its failures could be recorded.
Decided == ~entity.exists \/ entity.deleting \/ Current(entity) \/ entity.phase = "Failed"
Decides == entity.exists ~> (Decided \/ lost)

\* ErrorDelegateHandler "Failed", and SyncPeriod: both without that exemption.  (TLC
\* refutes them.)
FailureIsSaid == entity.exists ~> Decided
AlwaysSynced == []<>(pc = "sync" \/ ~(entity.exists /\ Current(entity)))

\* "handleFinalizer handles adding and removing finalizers": a deleted Entity
\* goes, also one that has not locked on a pod.  (TLC refutes it.)
UnlockedDeletedGoes == (entity.exists /\ entity.deleting) ~> (~entity.exists \/ faults > 0)

\* A settled Entity that observed its generation has applied it.  (TLC refutes
\* it: an edit in the middle of a pass is observed and not applied.)
LastSpecApplied == Settled /\ Current(entity) => SpecApplied
=============================================================================
