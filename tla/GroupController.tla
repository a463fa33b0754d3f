--------------------------- MODULE GroupController --------------------------
(***************************************************************************)
(* One Group: GroupReconciler.Reconcile                                    *)
(* (internal/controller/group_controller.go) and the deletion functions of *)
(* api/v1/group_types.go.  A Group puts a label on the entities its target *)
(* selects and on their pods, and owns a NetworkPolicy that selects by that*)
(* label.  A pass of Reconcile is cut at its API writes; reads are served  *)
(* by informer caches that lag.  UpdateStatus and UpdateObj apply in one   *)
(* step or fail (StatusUpdate).  The pods come and go, and the Pod webhook *)
(* (api/v1/pod_webhook.go) gives a new one the labels of its Entity as the *)
(* informer has them.                                                      *)
(***************************************************************************)
EXTENDS Naturals, FiniteSets

CONSTANTS
    Entities,
    Provisioned,   \* the entities whose pod can exist
    Targets,       \* what users write to spec.lastTargets:
                   \* [members : SUBSET Entities, add : BOOLEAN]
    MaxEdits, MaxRestarts, MaxFaults,  \* bounds, each of its kind
    MaxUpsets                          \* and of the three together

ASSUME GroupAssumption ==
    /\ IsFiniteSet(Entities) /\ Provisioned \subseteq Entities
    /\ Targets \subseteq [members : SUBSET Entities, add : BOOLEAN]
    /\ {MaxEdits, MaxRestarts, MaxFaults, MaxUpsets} \subseteq Nat

\* Where the label of the group can be: on an entity or on its pod.
Places == (Entities \X {"entity"}) \cup (Provisioned \X {"pod"})
PlacesOf(members) == {p \in Places : p[1] \in members}

VARIABLES
    group,    \* the Group in the API server
    gcache,   \* the informer's copy of it
    labels,   \* the places that carry the label
    lcache,   \* the informer's view of them
    pod,      \* the pod of an entity: there is "none", or one that the informer
              \* does not know yet ("new"), or one that it does ("seen")
    ready,    \* the entities whose phase is Provisoned
    netpol,   \* the NetworkPolicy exists
    ncache,   \* and does in the informer's view
    res,      \* the copy the running pass works on
    pc,       \* where that pass is; "idle" between passes
    todo,     \* places the running loop still has to visit
    queued,   \* the work queue holds a request for the Group
    event,    \* the watch still owes the event of an appended condition
    raced,    \* a user or a restart came in while a pass was running or due, or a
              \* pod between two reads that had to agree
    wentOn,   \* a pass went on after handleFinalizer failed to write the Group
    lost,     \* a pass ended with an error that could not be recorded either
    edits, restarts, faults  \* how often each happened

caches == <<gcache, lcache, ncache>>
pods == <<pod, ready>>
store == <<group, labels, netpol, pods>>
worker == <<res, pc, todo>>
bounds == <<raced, wentOn, lost, edits, restarts, faults>>
Room == edits + restarts + faults < MaxUpsets
vars == <<store, caches, worker, queued, event, bounds>>

Nothing == [exists |-> FALSE]

Init ==
    /\ \E t \in Targets :
        group = [exists |-> TRUE, deleting |-> FALSE, finalizer |-> FALSE, gen |-> 1,
                 rv |-> 1, target |-> t, phase |-> "", observed |-> 0, total |-> 0]
    /\ labels = {} /\ netpol = FALSE
    /\ pod \in [Provisioned -> {"none", "seen"}] /\ ready = {e \in Provisioned : pod[e] = "seen"}
    /\ gcache = group /\ lcache = {} /\ ncache = FALSE
    /\ res = Nothing /\ pc = "idle" /\ todo = {}
    /\ queued = TRUE /\ event = FALSE
    /\ raced = FALSE /\ wentOn = FALSE /\ lost = FALSE /\ edits = 0 /\ restarts = 0 /\ faults = 0

(***************************************************************************)
(* The pieces of a pass.                                                   *)
(***************************************************************************)
\* Versions are compared only with copies from fewer than so many writes ago.
Versions == 4

\* The group after the API server was asked to write g.
Wrote(g) == IF g = group THEN group ELSE [g EXCEPT !.rv = (@ + 1) % Versions]

\* Group.SetPhase: Provisoned also copies the generation of the object at hand.
WithPhase(g, phase) ==
    IF phase = "Provisoned" THEN [g EXCEPT !.phase = phase, !.observed = g.gen]
    ELSE [g EXCEPT !.phase = phase]

\* UpdateStatus succeeds: afterwards object and copy agree.
SetStatus(g) ==
    /\ group.exists
    /\ group' = Wrote(g)

SetPhase(phase) == SetStatus(WithPhase(group, phase))

\* The pass goes on, with the copy UpdateStatus refreshed; or it returns, and
\* its variables are dead.
Go(next) == pc' = next /\ res' = group' /\ todo' = todo
Return == pc' = "idle" /\ res' = Nothing /\ todo' = {}

\* ErrorDelegateHandler: Failed and one more condition, which is a change of the
\* Group even when the phase was Failed before.
SetFailed ==
    /\ IF group.exists THEN SetPhase("Failed") ELSE UNCHANGED group
    /\ event' = group.exists
    /\ Return

\* Mutant of Begin: the early return looks at the phase alone.
BeginOnce ==
    /\ pc = "idle" /\ queued
    /\ queued' = FALSE
    /\ IF gcache.exists /\ gcache.phase # "Provisoned"
       THEN res' = gcache /\ pc' = "finalizer"
       ELSE UNCHANGED <<res, pc>>
    /\ UNCHANGED <<store, caches, todo, event, bounds>>

\* A worker reads the Group from the cache.  A Group that is not there, or that
\* is provisioned at its generation, needs nothing.
Begin ==
    /\ pc = "idle" /\ queued
    /\ queued' = FALSE
    /\ IF gcache.exists /\ ~(gcache.observed = gcache.gen /\ gcache.phase = "Provisoned")
       THEN res' = gcache /\ pc' = "finalizer"
       ELSE UNCHANGED <<res, pc>>
    /\ UNCHANGED <<store, caches, todo, event, bounds>>

\* handleFinalizer: r.Update with a new finalizer, or a conflict, which is an
\* error and requeues.
AddFinalizer ==
    /\ pc = "finalizer" /\ ~res.finalizer /\ group.exists
    /\ IF res.rv = group.rv
       THEN /\ group' = Wrote([group EXCEPT !.finalizer = TRUE])
            /\ Go("start") /\ UNCHANGED <<queued, event>>
       ELSE SetFailed /\ queued' = TRUE
    /\ UNCHANGED <<labels, netpol, pods, caches, bounds>>

\* A Group that is being deleted: phase Deleting, then GetObjectsToDelete.
MarkDeleting ==
    /\ pc = "finalizer" /\ res.finalizer /\ res.deleting
    /\ SetPhase("Deleting") /\ Go("netpol")
    /\ UNCHANGED <<labels, netpol, pods, caches, queued, event, bounds>>

\* First function: Get (from the cache) and Delete the NetworkPolicy, then list
\* the entities that carry the label.
DeletePolicy ==
    /\ pc = "netpol" /\ ncache /\ netpol
    /\ netpol' = FALSE
    /\ todo' = {p \in lcache : p[2] = "entity"} /\ pc' = "entities"
    /\ UNCHANGED <<group, labels, pods, caches, res, queued, event, bounds>>

\* A policy that is gone already is an error; handleFinalizer returns it and the
\* request is retried.
PolicyMissing ==
    /\ pc = "netpol" /\ ~(ncache /\ netpol)
    /\ Return /\ queued' = TRUE
    /\ UNCHANGED <<store, caches, event, bounds>>

\* The places on pods that are gone or that the informer does not know yet: a
\* write to its copy is refused, and so is a Get without one.
Missing == {p \in Places : p[2] = "pod" /\ pod[p[1]] # "seen"}

\* Second and third function: strip the label place by place.
Strip(p) ==
    /\ pc \in {"entities", "pods"} /\ p \in todo \ Missing
    /\ labels' = labels \ {p}
    /\ todo' = todo \ {p}
    /\ UNCHANGED <<group, netpol, pods, caches, res, pc, queued, event, bounds>>

\* Mutant of ListPods: only the entities are stripped.
ListNoPods ==
    /\ pc = "entities" /\ todo = {}
    /\ pc' = "pods"
    /\ UNCHANGED <<store, caches, res, todo, queued, event, bounds>>

\* A pod that the informer does not know yet is not in the list.
ListPods ==
    /\ pc = "entities" /\ todo = {}
    /\ todo' = {p \in lcache : p[2] = "pod"} /\ pc' = "pods"
    /\ raced' = (raced \/ \E e \in Provisioned : pod[e] = "new" /\ <<e, "pod">> \in labels)
    /\ UNCHANGED <<store, caches, res, queued, event, wentOn, lost, edits, restarts,
                   faults>>

\* r.Update without the finalizer: the Group is gone, or a conflict.  The pass
\* does not end here: Reconcile goes on with the copy it has.
RemoveFinalizer ==
    /\ pc = "pods" /\ todo = {}
    /\ IF res.rv = group.rv
       THEN /\ group' = Wrote([group EXCEPT !.exists = FALSE])
            /\ pc' = "policy" /\ UNCHANGED <<res, todo, queued, event>>
       ELSE SetFailed /\ queued' = TRUE
    /\ UNCHANGED <<labels, netpol, pods, caches, bounds>>

\* handleFinalizer is through: at once for a Group that keeps its finalizer.
AtStart == pc = "start" \/ (pc = "finalizer" /\ res.finalizer /\ ~res.deleting)

\* GetEntityListForTarget: the places of spec.lastTargets, as the copy has it;
\* the rest of the copy is not read any more.
ResolveTargets(g) ==
    todo' = PlacesOf(g.target.members) /\ pc' = "label" /\ res' = [target |-> g.target]

\* Mutant of Start: a Group without a phase gets its labels first.
StartWithLabels ==
    /\ AtStart
    /\ \/ res.phase = "" /\ SetPhase("Provisioning") /\ ResolveTargets(group')
       \/ res.phase = "Provisoned" /\ ResolveTargets(res) /\ UNCHANGED group
       \/ res.phase \notin {"", "Provisoned"} /\ pc' = "policy" /\ UNCHANGED <<group, res, todo>>
    /\ UNCHANGED <<labels, netpol, pods, caches, queued, event, bounds>>

\* Phase "" becomes Provisioning; a provisioned Group keeps its policy.
Start ==
    /\ AtStart
    /\ \/ res.phase = "" /\ SetPhase("Provisioning") /\ Go("policy")
       \/ res.phase = "Provisoned" /\ ResolveTargets(res) /\ UNCHANGED group
       \/ res.phase \notin {"", "Provisoned"} /\ pc' = "policy" /\ UNCHANGED <<group, res, todo>>
    /\ UNCHANGED <<labels, netpol, pods, caches, queued, event, bounds>>

\* ClusterResourceHandler.Handle: create the policy unless the cache has it.
\* One that the cache does not have yet makes Create fail.
CreatePolicy ==
    /\ pc = "policy" /\ (ncache \/ ~netpol)
    /\ netpol' = (netpol \/ ~ncache)
    /\ pc' = "provisioned"
    /\ UNCHANGED <<group, labels, pods, caches, res, todo, queued, event, bounds>>

PolicyExists ==
    /\ pc = "policy" /\ netpol /\ ~ncache
    /\ SetFailed
    /\ UNCHANGED <<labels, netpol, pods, caches, queued, bounds>>

\* UpdateStatus(Provisoned) before any label is set.
MarkProvisioned ==
    /\ pc = "provisioned"
    /\ SetPhase("Provisoned") /\ ResolveTargets(group')
    /\ UNCHANGED <<labels, netpol, pods, caches, queued, event, bounds>>

\* updateLabelsForEntities: UpdateObj on the entity, then on its pod unless the
\* entity is not provisioned, each with a condition on the Group, without which
\* the pass ends.  A pod that was admitted before its entity got the label and
\* is skipped is one of the races.
Label(p) ==
    /\ pc = "label" /\ p \in todo \ Missing
    /\ p[2] = "pod" => <<p[1], "entity">> \notin todo
    /\ labels' = IF res.target.add THEN labels \cup {p} ELSE labels \ {p}
    /\ LET skipped == IF p[1] \in ready THEN {} ELSE {<<p[1], "pod">>} \cap todo
       IN  /\ IF group.exists THEN todo' = todo \ ({p} \cup skipped) /\ UNCHANGED <<res, pc>>
              ELSE Return
           /\ raced' = (raced \/ \E q \in skipped : pod[q[1]] # "none")
    /\ UNCHANGED <<group, netpol, pods, caches, queued, event, wentOn, lost, edits, restarts,
                   faults>>

\* The final status: how many entities the cache lists with the label.
Finish ==
    /\ pc = "label" /\ todo = {}
    /\ SetStatus([WithPhase(group, "Provisoned") EXCEPT
                    !.total = Cardinality({p \in lcache : p[2] = "entity"})])
    /\ Return
    /\ UNCHANGED <<labels, netpol, pods, caches, queued, event, bounds>>

\* A write of handleFinalizer fails otherwise than by a conflict:
\* ErrorDelegateHandler returns nil, even if it cannot write Failed, and Reconcile
\* goes on.  What was not written res may have: the functions of UpdateStatus set it
\* on the copy that Get refreshed, or on the old one when the Group is gone.
FinalizerFails ==
    /\ \/ pc = "finalizer" /\ (res.deleting \/ ~res.finalizer)
       \/ pc = "pods" /\ todo = {}
    /\ group.exists => faults < MaxFaults /\ Room
    /\ faults' = IF group.exists THEN faults + 1 ELSE faults
    /\ \/ SetPhase("Failed") /\ res' = group' /\ event' = TRUE
       \/ group.exists /\ res' \in {res, WithPhase(gcache, "Failed")} /\ UNCHANGED <<group, event>>
       \/ /\ ~group.exists /\ event' = FALSE /\ UNCHANGED group
          /\ res' \in {WithPhase(res, f) : f \in {res.phase, "Deleting", "Failed"}}
    /\ pc' = "start" /\ wentOn' = (wentOn \/ group.exists)
    /\ UNCHANGED <<labels, netpol, pods, caches, todo, queued, raced, lost, edits, restarts>>

\* The pod that is to be labelled next is missing.
PodMissing ==
    /\ pc = "label"
    /\ \E p \in todo \cap Missing : <<p[1], "entity">> \notin todo
    /\ SetFailed
    /\ UNCHANGED <<labels, netpol, pods, caches, queued, bounds>>

\* A later call fails: the Group is gone, or (a fault) the API server or five
\* conflicts.
Fail ==
    /\ AtStart \/ pc \in {"policy", "provisioned", "label"}
    /\ group.exists => faults < MaxFaults /\ Room
    /\ faults' = IF group.exists THEN faults + 1 ELSE faults
    /\ SetFailed /\ queued' \in {queued, queued \/ group.exists}
    /\ UNCHANGED <<labels, netpol, pods, caches, raced, wentOn, lost, edits, restarts>>

\* The same, and those above that call SetFailed, when UpdateStatus(Failed) fails as
\* well: that is only logged.  Only a conflict requeues, and after MarkProvisioned
\* the retry meets a provisioned Group.
FailedLost ==
    /\ group.exists /\ faults < MaxFaults /\ Room
    /\ \/ /\ AtStart \/ pc \in {"policy", "provisioned", "label"}
          /\ lost' = TRUE /\ queued' \in {queued, TRUE}
       \/ /\ (pc = "finalizer" /\ ~res.finalizer) \/ (pc = "pods" /\ todo = {})
          /\ res.rv # group.rv
          /\ queued' = TRUE /\ UNCHANGED lost
    /\ Return /\ faults' = faults + 1
    /\ UNCHANGED <<store, caches, event, raced, wentOn, edits, restarts>>

\* A deletion function fails half way, as on an entity whose status was written
\* since it was listed, or Deleting and Failed meet conflicts only: the error is
\* returned and the request retried.
DeletionFails ==
    /\ \/ pc \in {"netpol", "entities", "pods"}
       \/ pc = "finalizer" /\ res.finalizer /\ res.deleting /\ group.exists
    /\ faults < MaxFaults /\ Room
    /\ faults' = faults + 1
    /\ Return /\ queued' = TRUE
    /\ UNCHANGED <<store, caches, event, raced, wentOn, lost, edits, restarts>>

\* ... as it does on a pod that is missing.
StripFails ==
    /\ pc \in {"entities", "pods"} /\ todo \cap Missing # {}
    /\ Return /\ queued' = TRUE
    /\ UNCHANGED <<store, caches, event, bounds>>

Reconcile ==
    \/ Begin \/ AddFinalizer \/ MarkDeleting \/ DeletePolicy
    \/ PolicyMissing \/ ListPods \/ RemoveFinalizer \/ Start \/ CreatePolicy
    \/ PolicyExists \/ MarkProvisioned \/ PodMissing \/ StripFails \/ Finish
    \/ \E p \in Places : Strip(p) \/ Label(p)

(***************************************************************************)
(* Watches, users and the manager's process.                               *)
(***************************************************************************)
\* The Group controller has no predicate: every change of the Group is a request.
SyncGroup ==
    /\ gcache # group \/ event
    /\ gcache' = group /\ queued' = TRUE /\ event' = FALSE
    /\ UNCHANGED <<store, lcache, ncache, worker, bounds>>

Seen == [e \in Provisioned |-> IF pod[e] = "new" THEN "seen" ELSE pod[e]]

SyncOthers ==
    /\ lcache # labels \/ ncache # netpol \/ pod # Seen
    /\ lcache' = labels /\ ncache' = netpol /\ pod' = Seen
    /\ UNCHANGED <<group, labels, netpol, ready, gcache, worker, queued, event, bounds>>

Busy == pc # "idle" \/ queued \/ event \/ caches # <<group, labels, netpol>> \/ pod # Seen

(***************************************************************************)
(* The pods.                                                               *)
(***************************************************************************)
\* Mutant of PodComes: syncGroupLabels is not called.
PodComesBare(e) ==
    /\ pod[e] = "none" /\ pod' = [pod EXCEPT ![e] = "new"]
    /\ raced' = (raced \/ (<<e, "entity">> \in lcache) # (<<e, "entity">> \in labels))
    /\ UNCHANGED <<group, labels, netpol, ready, caches, worker, queued, event, wentOn, lost,
                   edits, restarts, faults>>

\* The Pod webhook admits the pod of the entity with its index, and gives it the
\* group labels of that entity, as it is in the informer.
PodComes(e) ==
    /\ pod[e] = "none" /\ pod' = [pod EXCEPT ![e] = "new"]
    /\ labels' = labels \cup (IF <<e, "entity">> \in lcache THEN {<<e, "pod">>} ELSE {})
    /\ raced' = (raced \/ (<<e, "entity">> \in lcache) # (<<e, "entity">> \in labels))
    /\ UNCHANGED <<group, netpol, ready, caches, worker, queued, event, wentOn, lost, edits,
                   restarts, faults>>

\* A pod is evicted, deleted or lost with its node; its entity stays as it is.
PodGoes(e) ==
    /\ pod[e] # "none" /\ faults < MaxFaults /\ Room
    /\ pod' = [pod EXCEPT ![e] = "none"] /\ labels' = labels \ {<<e, "pod">>}
    /\ faults' = faults + 1
    /\ UNCHANGED <<group, netpol, ready, caches, worker, queued, event, raced, wentOn, lost, edits,
                   restarts>>

\* The Entity controller locks the entity on its pod (EntityController).
Ready(e) ==
    /\ pod[e] # "none" /\ e \notin ready
    /\ ready' = ready \cup {e}
    /\ UNCHANGED <<group, labels, netpol, pod, caches, worker, queued, event, bounds>>

\* kubectl robo entity --addGroup / --removeGroup replaces spec.lastTargets.
Edit(t) ==
    /\ group.exists /\ edits < MaxEdits /\ Room /\ t # group.target
    /\ group' = Wrote([group EXCEPT !.target = t, !.gen = @ + 1])
    /\ edits' = edits + 1 /\ raced' = (raced \/ Busy)
    /\ UNCHANGED <<labels, netpol, pods, caches, worker, queued, event, wentOn, lost, restarts,
                   faults>>

\* A Group with a finalizer is only marked, which is a new generation.
Delete ==
    /\ group.exists /\ ~group.deleting /\ edits < MaxEdits /\ Room
    /\ group' = IF group.finalizer
                THEN Wrote([group EXCEPT !.deleting = TRUE, !.gen = @ + 1])
                ELSE Wrote([group EXCEPT !.exists = FALSE])
    /\ edits' = edits + 1 /\ raced' = (raced \/ Busy)
    /\ UNCHANGED <<labels, netpol, pods, caches, worker, queued, event, wentOn, lost, restarts,
                   faults>>

Restart ==
    /\ restarts < MaxRestarts /\ Room
    /\ restarts' = restarts + 1 /\ raced' = (raced \/ Busy)
    /\ Return
    /\ gcache' = group /\ lcache' = labels /\ ncache' = netpol /\ pod' = Seen
    /\ queued' = group.exists /\ event' = FALSE
    /\ UNCHANGED <<group, labels, netpol, ready, wentOn, lost, edits, faults>>

Next ==
    \/ Reconcile \/ FinalizerFails \/ Fail \/ FailedLost \/ DeletionFails
    \/ SyncGroup \/ SyncOthers
    \/ \E t \in Targets : Edit(t)
    \/ Delete \/ Restart
    \/ \E e \in Provisioned : PodComes(e) \/ PodGoes(e) \/ Ready(e)

Spec == Init /\ [][Next]_vars

\* The worker and the watches do not all rest while one of them has work; users,
\* pods, restarts and faults owe nothing.
FairSpec ==
    /\ Spec
    /\ WF_vars(SyncGroup \/ SyncOthers \/ Reconcile \/ (~group.exists /\ (FinalizerFails \/ Fail)))
-----------------------------------------------------------------------------
Phases == {"", "Provisioning", "Provisoned", "Deleting", "Failed"}
Objects == [exists : BOOLEAN, deleting : BOOLEAN, finalizer : BOOLEAN, gen : Nat, rv : Nat,
            target : Targets, phase : Phases, observed : Nat, total : Nat]

\* Types, and that Reconcile visits and labels only pods that exist.
TypeOK ==
    /\ group \in Objects /\ gcache \in Objects /\ res \in Objects \cup {Nothing} \cup [target : Targets]
    /\ labels \subseteq Places /\ lcache \subseteq Places /\ todo \subseteq Places
    /\ pod \in [Provisioned -> {"none", "new", "seen"}] /\ ready \subseteq Provisioned
    /\ netpol \in BOOLEAN /\ ncache \in BOOLEAN
    /\ pc \in {"idle", "finalizer", "netpol", "entities", "pods", "start", "policy",
               "provisioned", "label"}
    /\ queued \in BOOLEAN /\ event \in BOOLEAN /\ raced \in BOOLEAN
    /\ wentOn \in BOOLEAN /\ lost \in BOOLEAN
    /\ edits \in 0..MaxEdits /\ restarts \in 0..MaxRestarts /\ faults \in 0..MaxFaults

\* Nothing is running, due or on its way.
Settled == ~Busy /\ group.exists /\ ~group.deleting

Applied ==
    LET places == {p \in PlacesOf(group.target.members) : p[2] = "pod" => pod[p[1]] # "none"}
    IN  IF group.target.add THEN places \subseteq labels ELSE places \cap labels = {}

\* No entity carries the label of a Group that has no NetworkPolicy to protect
\* it, unless the Group is being deleted: in every interleaving of passes, edits,
\* restarts and failures.
LabelsAreGuarded == labels # {} /\ group.exists /\ ~group.deleting => netpol

\* Edits, deletions and restarts that come in between passes are handled: the
\* target is applied, however the pass itself fails on the way, as long as its
\* failures could be recorded ...
CalmApplied == Settled /\ ~raced /\ ~lost => Applied

\* ... a deleted Group goes ...
CalmDeletedGoes ==
    (group.exists /\ group.deleting) ~> (~group.exists \/ raced \/ faults > 0)

\* ... and leaves no label behind, however often its deletion fails half way and is
\* retried: only a pass that goes on after a write of handleFinalizer failed, and
\* labels for a Group that is to be deleted, lets it go uncleaned.
CalmGoneClean == ~group.exists /\ ~raced /\ ~wentOn => labels = {}

\* "syncGroupLabels syncs the group labels between the entity and the pod": pods
\* come and go, and their webhook and the passes of the Group, each writing one
\* of the two, agree on which pods carry the label, unless a failure between the two
\* writes of a pass could not be recorded.
PodsFollow ==
    Settled /\ ~raced /\ ~lost => \A e \in Provisioned :
        pod[e] # "none" => ((<<e, "pod">> \in labels) <=> (<<e, "entity">> \in labels))

\* The same with the races: a pod can come with a label that its entity has no
\* longer, or miss one that it has by now.  (TLC refutes it.)
PodsAlwaysFollow ==
    Settled /\ group.phase = "Provisoned" => \A e \in Provisioned :
        pod[e] # "none" => ((<<e, "pod">> \in labels) <=> (<<e, "entity">> \in labels))

\* ErrorDelegateHandler "Failed": a Group at rest has its target applied or a failure
\* in its phase.  (TLC refutes it: the write of Failed may fail, too.)
AppliedOrFailed == Settled /\ ~raced => Applied \/ group.phase = "Failed"

\* "Last applied targets": a Group that is settled at Provisoned has applied them.
LastTargetsApplied == Settled /\ group.phase = "Provisoned" => Applied

\* "handleFinalizer handles adding and removing finalizers": a deleted Group goes.
DeletedGoes == (group.exists /\ group.deleting) ~> ~group.exists

\* An error of a deletion function is returned and retried, so that a deleted
\* Group goes although a call failed once ("handling adding and removing
\* finalizers" is done when the retry succeeds).
FailedDeletionGoes ==
    (group.exists /\ group.deleting) ~> (~group.exists \/ raced)

\* "handleFinalizer handles adding and removing finalizers": a Group that is
\* provisioned has one, so that its deletion cleans up.
ProvisionedIsFinalized == Settled /\ group.phase = "Provisoned" => group.finalizer

\* "remove label for entities", "remove label for pods": without that exemption too,
\* for a Group that had its finalizer.  (TLC refutes it.)
FinalizedGoesClean == ~group.exists /\ ~raced /\ group.finalizer => labels = {}

\* "remove netpol": a Group that is gone has no NetworkPolicy.
PolicyGoes == ~group.exists /\ ~Busy => ~netpol

\* "TotalEntities contain the number of entities that belong to this group."
TotalIsRight ==
    Settled /\ group.phase = "Provisoned" =>
        group.total = Cardinality({p \in labels : p[2] = "entity"})
=============================================================================
