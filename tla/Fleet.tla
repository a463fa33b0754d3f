-------------------------------- MODULE Fleet -------------------------------
(***************************************************************************)
(* A Model, its entities and their pods: the Model controller              *)
(* (ModelController) with what the StatefulSet controller, the Pod webhook *)
(* (api/v1/pod_webhook.go) and the Entity controller (EntityController)    *)
(* make of the entities and the replicas it writes.  The StatefulSet       *)
(* controller adds and removes pods one at a time, in order; the webhook   *)
(* refuses a pod whose index no Entity in its cache has; an Entity locks on*)
(* its pod, and its deletion deletes that pod by the name it locked on.    *)
(***************************************************************************)
EXTENDS ModelController

VARIABLES
    pods,     \* the indexes that have a pod
    locked,   \* those whose Entity has the name of its pod in its status
    killed    \* those whose Entity's deletion deleted the pod, but did not yet
              \* remove the finalizer

fleet == <<pods, locked, killed>>
fvars == <<vars, fleet>>

\* A Model that asks for pods, and has none yet.
FleetInit ==
    /\ Init /\ model.target > 0 /\ replicas \in {Absent, 0}
    /\ pods = {} /\ locked = {} /\ killed = {}

(***************************************************************************)
(* The StatefulSet controller and the Pod webhook.                         *)
(***************************************************************************)
\* The pod that comes next: each waits for those below it.
NextPod(i) == i < replicas /\ i \notin pods /\ \A j \in 0..(i - 1) : j \in pods

\* Mutant of HasEntity: only the entities the Model created count.
HasOwnEntity(i) == i \in ecache \ adopted

\* findEntityForPod: the list comes from the informer.
HasEntity(i) == i \in ecache

\* A pod that the webhook refuses is tried again.  It refuses those of a StatefulSet
\* without an owner.
Admit(i) ==
    /\ NextPod(i) /\ owned /\ HasEntity(i)
    /\ pods' = pods \cup {i}
    /\ UNCHANGED <<vars, locked, killed>>

\* Pods beyond the replicas go, from the last, once those below are complete.
SurplusPod(i) ==
    /\ i \in pods /\ i >= replicas
    /\ \A j \in Indexes : (j < replicas => j \in pods) /\ (j > i => j \notin pods)

ScaleDown(i) ==
    /\ SurplusPod(i)
    /\ pods' = pods \ {i}
    /\ UNCHANGED <<vars, locked, killed>>

\* A pod is evicted or lost with its node.
PodLost(i) ==
    /\ i \in pods /\ faults < MaxFaults /\ Room
    /\ pods' = pods \ {i} /\ faults' = faults + 1
    /\ UNCHANGED <<store, caches, worker, queued, shrunk, raced, edits, adopts, restarts, locked,
                   killed>>

(***************************************************************************)
(* The Entity controller.                                                  *)
(***************************************************************************)
LockOnPod(i) ==
    /\ i \in entities \ dying /\ i \notin locked /\ i \in pods
    /\ locked' = locked \cup {i}
    /\ UNCHANGED <<vars, pods, killed>>

\* GetObjectsToDelete.  A pod that is not there is an error, and is tried again.
DeletePod(i) ==
    /\ i \in dying \cap locked /\ i \in pods /\ i \notin killed
    /\ pods' = pods \ {i} /\ killed' = killed \cup {i}
    /\ UNCHANGED <<vars, locked>>

\* The removal of the finalizer fails: the deletion starts again at the pod.
KillForgotten(i) ==
    /\ i \in killed /\ faults < MaxFaults /\ Room
    /\ killed' = killed \ {i} /\ faults' = faults + 1
    /\ UNCHANGED <<store, caches, worker, queued, shrunk, raced, edits, adopts, restarts, pods,
                   locked>>

EntityGone(i) ==
    /\ i \in killed /\ Vanish(i)
    /\ killed' = killed \ {i} /\ locked' = locked \ {i}
    /\ UNCHANGED pods

(***************************************************************************)
(* The composition.                                                        *)
(***************************************************************************)
Pass == Reconcile /\ UNCHANGED fleet
Others == CallFails \/ Fail \/ Adopt \/ (\E r \in Existing : Deploy(r)) \/ \E t \in Targets : Edit(t)
Watches == SyncModel \/ SyncReplicas \/ SyncEntities
RestartAll == Restart /\ killed' = {} /\ UNCHANGED <<pods, locked>>

StatefulSetController == \E i \in Indexes : Admit(i) \/ ScaleDown(i)
EntityController(i) == LockOnPod(i) \/ DeletePod(i) \/ EntityGone(i)

FleetNext ==
    \/ Pass \/ (Others /\ UNCHANGED fleet) \/ (Watches /\ UNCHANGED fleet) \/ RestartAll
    \/ StatefulSetController
    \/ \E i \in Indexes : EntityController(i) \/ PodLost(i) \/ KillForgotten(i)

FleetSpec == FleetInit /\ [][FleetNext]_fvars

\* The worker of the Model controller runs and learns of the Model; of the other
\* watches and controllers, those that have something to do do not all rest.
FleetFairSpec ==
    /\ FleetSpec
    /\ WF_fvars(Pass) /\ WF_fvars(SyncModel /\ UNCHANGED fleet)
    /\ WF_fvars((SyncReplicas \/ SyncEntities) /\ UNCHANGED fleet)
    /\ WF_fvars(StatefulSetController \/ \E i \in Indexes : EntityController(i))
-----------------------------------------------------------------------------
\* No controller has anything to do: nothing is due, under way or going, no pod
\* would be admitted or removed and no Entity could lock on one.
AtRest ==
    /\ Settled
    /\ \A i \in Indexes : ~(NextPod(i) /\ owned /\ HasEntity(i)) /\ ~SurplusPod(i)
    /\ (entities \cap pods) \subseteq locked

\* Edits and adoptions between passes, in a fleet at rest: the four controllers
\* agree.  A provisioned Model has an Entity and a pod for each of its indexes,
\* each Entity knows its pod, and there is no pod without an Entity.  (An Entity
\* that a user adds to a Model that failed is the exception: AdoptedHasPod.)
CalmFleet ==
    AtRest /\ Current(model) /\ ~raced /\ faults = 0 /\ adopted \subseteq 0..(replicas - 1) =>
        /\ Served
        /\ pods = 0..(replicas - 1)
        /\ pods \subseteq entities /\ locked = (IF model.own THEN entities ELSE pods)

\* An index that the StatefulSet covers, below which no Entity is missing or
\* going, so that nothing blocks its pod.
Covered(i) == owned /\ i < replicas /\ \A j \in 0..(i - 1) : j \in entities \ dying

\* Its Entity gets its pod, however often the webhook refuses it and whatever is
\* lost, and goes when it is deleted after that: the StatefulSet replaces a pod
\* that its deletion has to delete once more.
CoveredMovesOn == \A i \in Indexes :
    (i \in entities /\ Covered(i)) ~>
        \/ i \notin entities \/ ~Covered(i)
        \/ i \in locked \ dying \/ i \in dying \ locked

\* "increase its replicas to match ordinalIndex": the Entity that a user added between
\* passes has its pod.  (TLC refutes it: a Model that failed on a conflict of its finalizer has
\* another pass when the StatefulSet grows, which goes back to the target, and
\* deletes only the entities that its cache shows.)
AdoptedHasPod ==
    AtRest /\ Current(model) /\ ~raced /\ faults = 0 => adopted \subseteq pods

\* "delete the pod": every deleted Entity goes.  (TLC refutes it: when the
\* StatefulSet controller removes the pod of a scaled-down index first, the
\* deletion fails for ever.)
DeletedGoes == \A i \in Indexes : (i \in dying) ~> (i \notin dying \/ raced \/ faults > 0)

\* "Find the Entity associated with the Model and Pod name": a fleet at rest with a
\* provisioned Model serves every index.  (TLC refutes it: an edit that comes
\* while an Entity is going finds it in the list, and nobody creates another.)
LastTargetHasPods == AtRest /\ Current(model) => \A i \in 0..(model.target - 1) : i \in pods
=============================================================================
