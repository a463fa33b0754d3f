--------------------------- MODULE ModelController --------------------------
(***************************************************************************)
(* One Model: ModelReconciler.Reconcile and manageEntities                 *)
(* (internal/controller/model_controller.go).  A Model has an Entity for   *)
(* every index below its targetReplicas and a StatefulSet with that many   *)
(* pods.  A pass scales from the replicas of the StatefulSet to the target *)
(* with the entities a cached list shows, then sets the replicas.  Users   *)
(* may add an Entity of their own, for which the Entity controller grows   *)
(* the StatefulSet by one (OrdinalAllocation).  The StatefulSet is one that*)
(* the Model creates, or one of the customer's that the Model names and    *)
(* waits for (spec.statefulSetName).  The deletion of a Model deletes      *)
(* nothing itself and is left out.  UpdateStatus applies in one step or    *)
(* fails (StatusUpdate).                                                   *)
(***************************************************************************)
EXTENDS Integers

CONSTANTS
    MaxIndex,   \* ordinal indexes are below it
    Targets,    \* what users write to spec.targetReplicas
    Existing,   \* the replicas of the StatefulSets that Models name: Absent before
                \* the customer deploys it
    MaxEdits, MaxAdopts, MaxRestarts, MaxFaults,  \* bounds, each of its kind
    MaxUpsets                                     \* and of the four together

Absent == -1

ASSUME ModelAssumption ==
    /\ Existing \subseteq {Absent} \cup (0..MaxIndex)
    /\ Targets \subseteq 0..MaxIndex
    /\ {MaxIndex, MaxEdits, MaxAdopts, MaxRestarts, MaxFaults, MaxUpsets} \subseteq Nat

Indexes == 0..(MaxIndex - 1)
Counts == 0..MaxIndex

VARIABLES
    model,     \* the Model in the API server
    mcache,    \* the informer's copy of it
    replicas,  \* of the StatefulSet; before the Model has created its own 0, too
    owned,     \* the StatefulSet belongs to the Model, now or when it is created
    rcache,    \* the informer's view of them
    entities,  \* the indexes that have an Entity
    dying,     \* those whose Entity is being deleted and still has its finalizer
    adopted,   \* those whose Entity a user added
    ecache,    \* the informer's view of entities
    res,       \* the copy the running pass works on
    pc,        \* where it is; "idle" between passes
    from, to,  \* its currentReplicas and targetReplicas
    at,        \* the index its loop has come to
    list,      \* its entityMap
    queued,    \* the work queue holds a request for the Model
    shrunk,    \* a pass has deleted an Entity
    raced,     \* an edit, an adoption or a restart came in while a pass was running
               \* or due or an Entity was going, or a pass ran on an old copy
    edits, adopts, restarts, faults  \* how often each happened

store == <<model, replicas, owned, entities, dying, adopted>>
caches == <<mcache, rcache, ecache>>
locals == <<from, to, at, list>>
worker == <<res, pc, locals>>
bounds == <<shrunk, raced, edits, adopts, restarts, faults>>
\* After one that raced there is no other.
Room == ~raced /\ edits + adopts + restarts + faults < MaxUpsets
vars == <<store, caches, worker, queued, bounds>>

Nothing == [gen |-> 0]

Init ==
    /\ \E t \in Targets, own \in BOOLEAN :
        model = [gen |-> 1, target |-> t, own |-> own, finalizer |-> FALSE, phase |-> "",
                 observed |-> 0]
    /\ owned = model.own
    /\ IF model.own THEN replicas = 0 ELSE replicas \in Existing
    /\ entities = {} /\ dying = {} /\ adopted = {}
    /\ mcache = model /\ rcache = replicas /\ ecache = {}
    /\ res = Nothing /\ pc = "idle" /\ from = 0 /\ to = 0 /\ at = 0 /\ list = {}
    /\ queued = TRUE
    /\ shrunk = FALSE /\ raced = FALSE /\ edits = 0 /\ adopts = 0 /\ restarts = 0 /\ faults = 0

\* Model.SetPhase: Provisoned also copies the generation of the object at hand.
SetPhase(phase) ==
    model' = [model EXCEPT !.phase = phase,
                           !.observed = IF phase = "Provisoned" THEN model.gen ELSE @]

Forget == res' = Nothing /\ from' = 0 /\ to' = 0 /\ at' = 0 /\ list' = {}
Return == pc' = "idle" /\ Forget

\* ErrorDelegateHandler, which requests no other pass.
SetFailed == SetPhase("Failed") /\ Return

Begin ==
    /\ pc = "idle" /\ queued
    /\ queued' = FALSE
    /\ res' = mcache /\ pc' = "finalizer"
    /\ raced' = (raced \/ mcache.gen # model.gen)
    /\ UNCHANGED <<store, caches, locals, shrunk, edits, adopts, restarts, faults>>

\* handleFinalizer; a conflict requests another pass.
Finalizer ==
    /\ pc = "finalizer"
    /\ \/ res.finalizer /\ pc' = "start" /\ UNCHANGED <<model, res, locals, queued>>
       \/ ~res.finalizer /\ res = model
          /\ model' = [model EXCEPT !.finalizer = TRUE]
          /\ res' = model' /\ pc' = "start" /\ UNCHANGED <<locals, queued>>
       \/ ~res.finalizer /\ res # model /\ SetFailed /\ queued' = TRUE
    /\ UNCHANGED <<replicas, owned, entities, dying, adopted, caches, bounds>>

Current(m) == m.observed = m.gen /\ m.phase = "Provisoned"

\* A Model that is provisioned at its generation gets its status only.
Observed ==
    /\ pc = "start" /\ Current(res)
    /\ Return
    /\ UNCHANGED <<store, caches, queued, bounds>>

\* Phases "" and Provisoned become Provisioning; the replicas are read.
Start ==
    /\ pc = "start" /\ ~Current(res)
    /\ IF res.phase \in {"", "Provisoned"} THEN SetPhase("Provisioning") /\ res' = model'
       ELSE UNCHANGED <<model, res>>
    /\ from' = (IF rcache = Absent THEN 0 ELSE rcache) /\ pc' = "prepare"
    /\ UNCHANGED <<replicas, owned, entities, dying, adopted, caches, to, at, list, queued, bounds>>

\* Mutant of Prepare: the pass keeps the first index for itself.
PrepareShifted ==
    /\ pc = "prepare"
    /\ res' \in {res, model}
    /\ to' = res'.target /\ list' = ecache
    /\ at' = IF from < to' THEN from + 1 ELSE to'
    /\ pc' = "scale"
    /\ UNCHANGED <<store, caches, from, queued, bounds>>

\* The operator's NetworkPolicy, the namespace's label and the service, each of
\* which may refresh the copy; then manageEntities with the target it has, and
\* the list of the entities.
Prepare ==
    /\ pc = "prepare"
    /\ res' \in {res, model}
    /\ to' = res'.target /\ list' = ecache
    /\ at' = IF from < to' THEN from ELSE to'
    /\ pc' = "scale"
    /\ UNCHANGED <<store, caches, from, queued, bounds>>

\* manageEntities is at an index it has to look at, or done.
Creating == pc = "scale" /\ from < to /\ at < to
Deleting == pc = "scale" /\ to < from /\ at < from
Scaled == pc = "scale" /\ ~Creating /\ ~Deleting

\* Mutant of SetReplicas: a conflict ends the pass without another one.
SetReplicasOnce ==
    /\ Scaled
    /\ \/ rcache = replicas /\ rcache # Absent
          /\ replicas' = res.target /\ owned' = TRUE
          /\ pc' = "done" /\ Forget
       \/ rcache # replicas /\ Return /\ UNCHANGED <<replicas, owned>>
    /\ UNCHANGED <<model, entities, dying, adopted, caches, queued, bounds>>

\* Another: the StatefulSet of the customer's is left without an owner.
SetReplicasOnly ==
    /\ Scaled /\ rcache = replicas /\ rcache # Absent
    /\ replicas' = res.target /\ UNCHANGED owned
    /\ pc' = "done" /\ Forget
    /\ UNCHANGED <<model, entities, dying, adopted, caches, queued, bounds>>

\* The errors of Processor are returned, which requests another pass, and so is a
\* conflict of the finalizer, also when the write of Failed that follows is lost.
CallFails ==
    /\ \/ pc = "prepare" \/ (Scaled /\ res.own)
       \/ pc = "finalizer" /\ ~res.finalizer /\ res # model
    /\ faults < MaxFaults /\ Room
    /\ faults' = faults + 1
    /\ Return /\ queued' = TRUE
    /\ UNCHANGED <<store, caches, shrunk, raced, edits, adopts, restarts>>

\* Up, an index that the list shows has its Entity; down, one it does not show.
Skip ==
    /\ (Creating /\ at \in list) \/ (Deleting /\ at \notin list)
    /\ at' = at + 1
    /\ UNCHANGED <<store, caches, res, pc, from, to, list, queued, bounds>>

\* Another is created, with a condition that refreshes the copy.  One that exists
\* in the cache by now is updated to what it is; an index that a user took, under
\* another name, gets a second Entity, which entities does not count: the webhook
\* lets one with an owner pass.
Create ==
    /\ Creating /\ at \notin list
    /\ \/ at \notin entities /\ at \notin ecache
          /\ entities' = entities \cup {at} /\ res' = model
       \/ at \in entities \cap (ecache \cup adopted) /\ UNCHANGED entities /\ res' \in {res, model}
    /\ at' = at + 1
    /\ UNCHANGED <<model, replicas, owned, dying, adopted, caches, pc, from, to, list, queued, bounds>>

\* Create fails on an Entity the cache does not have yet, Update on one it still
\* has.
CreateFails ==
    /\ Creating /\ at \notin list
    /\ (at \in entities) # (at \in ecache)
    /\ SetFailed
    /\ UNCHANGED <<replicas, owned, entities, dying, adopted, caches, queued, bounds>>

\* Mutant of Delete: the loop visits the index and deletes nothing.
DeleteNone ==
    /\ Deleting /\ at \in list \cap entities
    /\ res' = model /\ at' = at + 1
    /\ UNCHANGED <<store, caches, pc, from, to, list, queued, bounds>>

\* Down: the Entity of every index from the target on is deleted, which marks it.
Delete ==
    /\ Deleting /\ at \in list \cap entities
    /\ dying' = dying \cup {at} /\ shrunk' = TRUE
    /\ res' = model /\ at' = at + 1
    /\ UNCHANGED <<model, replicas, owned, entities, adopted, caches, pc, from, to, list, queued, raced,
                   edits, adopts, restarts, faults>>

\* One that is gone already makes Delete fail.
DeleteFails ==
    /\ Deleting /\ at \in list \ entities
    /\ SetFailed
    /\ UNCHANGED <<replicas, owned, entities, dying, adopted, caches, queued, bounds>>

\* The StatefulSet gets the target of the copy as it is now, and its owner; nothing
\* of the pass is used after it.  On a conflict Handle calls itself again, until the
\* cache has caught up, ...
SetReplicas ==
    /\ Scaled /\ rcache = replicas /\ rcache # Absent
    /\ replicas' = res.target /\ owned' = TRUE
    /\ pc' = "done" /\ Forget
    /\ UNCHANGED <<model, entities, dying, adopted, caches, queued, bounds>>

\* ... and UpdateObj, for one of the customer's, gives up after five attempts.
ReplicasConflict ==
    /\ Scaled /\ ~res.own /\ rcache # Absent /\ rcache # replicas
    /\ SetFailed /\ queued' = TRUE
    /\ UNCHANGED <<replicas, owned, entities, dying, adopted, caches, bounds>>

\* One that the customer has not deployed yet is looked for again in 10 seconds.
NotDeployed ==
    /\ Scaled /\ ~res.own /\ rcache = Absent
    /\ Return /\ queued' = TRUE
    /\ UNCHANGED <<store, caches, bounds>>

Finish ==
    /\ pc = "done"
    /\ SetPhase("Provisoned") /\ Return
    /\ UNCHANGED <<replicas, owned, entities, dying, adopted, caches, queued, bounds>>

\* A call fails; only a conflict is returned as an error, which requests another
\* pass.  The write of Failed may fail as well, which is only logged.  (After a
\* failure in handleFinalizer the pass would go on, which is left to GroupController
\* and EntityController.)
Fail ==
    /\ pc \in {"start", "prepare", "done"} \/ Creating \/ Deleting \/ (Scaled /\ ~res.own)
    /\ faults < MaxFaults /\ Room
    /\ faults' = faults + 1
    /\ SetFailed \/ (Return /\ UNCHANGED model)
    /\ queued' \in {queued, TRUE}
    /\ UNCHANGED <<replicas, owned, entities, dying, adopted, caches, shrunk, raced, edits, adopts, restarts>>

Reconcile ==
    \/ Begin \/ Finalizer \/ Observed \/ Start \/ Prepare \/ Skip \/ Create \/ CreateFails
    \/ Delete \/ DeleteFails \/ SetReplicas \/ ReplicasConflict \/ NotDeployed \/ Finish

(***************************************************************************)
(* Watches, users, the Entity controller and the manager's process.        *)
(***************************************************************************)
\* GenerationChangedPredicate, for the Model and for a StatefulSet it owns.
SyncModel ==
    /\ mcache # model
    /\ mcache' = model /\ queued' = (queued \/ mcache.gen # model.gen)
    /\ UNCHANGED <<store, rcache, ecache, worker, bounds>>

SyncReplicas ==
    /\ rcache # replicas
    /\ rcache' = replicas /\ queued' = (queued \/ owned)
    /\ UNCHANGED <<store, mcache, ecache, worker, bounds>>

SyncEntities ==
    /\ ecache # entities
    /\ ecache' = entities
    /\ UNCHANGED <<store, mcache, rcache, worker, queued, bounds>>

Busy == pc # "idle" \/ queued \/ dying # {} \/ caches # <<model, replicas, entities>>

\* A new target, or another field: any edit is a new generation.
Edit(t) ==
    /\ edits < MaxEdits /\ Room
    /\ model' = [model EXCEPT !.target = t, !.gen = @ + 1]
    /\ edits' = edits + 1 /\ raced' = (raced \/ Busy)
    /\ UNCHANGED <<replicas, owned, entities, dying, adopted, caches, worker, queued, shrunk, adopts, restarts,
                   faults>>

\* The customer deploys the StatefulSet that the Model names.  With replicas whose
\* indexes have no Entity yet it comes too early.
Deploy(r) ==
    /\ replicas = Absent /\ r # Absent /\ edits < MaxEdits /\ Room
    /\ replicas' = r
    /\ edits' = edits + 1 /\ raced' = (raced \/ ~(0..(r - 1) \subseteq entities))
    /\ UNCHANGED <<model, owned, entities, dying, adopted, caches, worker, queued, shrunk, adopts,
                   restarts, faults>>

\* A user adds an Entity with the next index, and the Entity controller grows the
\* StatefulSet for it.
Adopt ==
    /\ adopts < MaxAdopts /\ Room /\ replicas \in Indexes \ entities
    /\ entities' = entities \cup {replicas} /\ adopted' = adopted \cup {replicas}
    /\ replicas' = replicas + 1
    /\ adopts' = adopts + 1 /\ raced' = (raced \/ Busy)
    /\ UNCHANGED <<model, owned, dying, caches, worker, queued, shrunk, edits, restarts, faults>>

\* The Entity controller removes the finalizer of an Entity that is deleted.
Vanish(i) ==
    /\ i \in dying
    /\ dying' = dying \ {i} /\ entities' = entities \ {i} /\ adopted' = adopted \ {i}
    /\ UNCHANGED <<model, replicas, owned, caches, worker, queued, bounds>>

Restart ==
    /\ restarts < MaxRestarts /\ Room
    /\ restarts' = restarts + 1 /\ raced' = (raced \/ Busy)
    /\ Return
    /\ mcache' = model /\ rcache' = replicas /\ ecache' = entities /\ queued' = TRUE
    /\ UNCHANGED <<store, shrunk, edits, adopts, faults>>

Next ==
    \/ Reconcile \/ CallFails \/ Fail \/ SyncModel \/ SyncReplicas \/ SyncEntities
    \/ \E t \in Targets : Edit(t)
    \/ Adopt \/ (\E r \in Existing : Deploy(r)) \/ (\E i \in Indexes : Vanish(i)) \/ Restart

Spec == Init /\ [][Next]_vars

\* The worker runs, the watches deliver and deleted entities go; users, restarts
\* and faults owe nothing.
FairSpec ==
    /\ Spec
    /\ WF_vars(Reconcile) /\ WF_vars(SyncModel) /\ WF_vars(SyncReplicas)
    /\ WF_vars(SyncEntities) /\ \A i \in Indexes : WF_vars(Vanish(i))
-----------------------------------------------------------------------------
Phases == {"", "Provisioning", "Provisoned", "Failed"}
Objects == [gen : Nat, target : Targets, own : BOOLEAN, finalizer : BOOLEAN, phase : Phases, observed : Nat]

\* Types, and that the loop of manageEntities stays between the two counts.
TypeOK ==
    /\ model \in Objects /\ mcache \in Objects /\ res \in Objects \cup {Nothing}
    /\ replicas \in Counts \cup {Absent} /\ rcache \in Counts \cup {Absent} /\ owned \in BOOLEAN
    /\ entities \subseteq Indexes /\ ecache \subseteq Indexes /\ list \subseteq Indexes
    /\ dying \subseteq entities /\ adopted \subseteq entities
    /\ pc \in {"idle", "finalizer", "start", "prepare", "scale", "done"}
    /\ from \in Counts /\ to \in Counts
    /\ pc = "scale" => at \in (from..to) \cup (to..from)
    /\ queued \in BOOLEAN /\ shrunk \in BOOLEAN /\ raced \in BOOLEAN
    /\ edits \in 0..MaxEdits /\ adopts \in 0..MaxAdopts
    /\ restarts \in 0..MaxRestarts /\ faults \in 0..MaxFaults

Settled == ~Busy

Served == \A i \in 0..(model.target - 1) : i \in entities /\ i < replicas

\* Edits that come in between passes are carried out: a provisioned Model has an
\* Entity and a replica for every index below its target, also when passes failed
\* on the way, as long as none of them had begun to scale down.  (A StatefulSet of
\* the customer's that exists with replicas is served in part only: TLC refutes this
\* with Existing = {2}.)
CalmServed == Settled /\ Current(model) /\ ~raced /\ (faults = 0 \/ ~shrunk) => Served

\* When only the Model adds entities there is none beyond it.  (For a StatefulSet of
\* the customer's, entities can be there before it has grown, and a target that is
\* lowered by then deletes none.)
CalmNoSurplus ==
    Settled /\ Current(model) /\ ~raced /\ adopts = 0 /\ faults = 0 /\ model.own =>
        entities = 0..(model.target - 1) /\ replicas = model.target

\* As long as no call fails no Model is forgotten half way: it gets provisioned at
\* its generation, at the latest when the StatefulSet that it names is there, or its
\* phase says that it failed.
Decides == []<>(Current(model) \/ model.phase = "Failed" \/ faults > 0 \/ replicas = Absent)

\* The same when calls fail.  (TLC refutes it: the pass that follows an error reads
\* a copy from before the phase became Provisioning, finds the Model provisioned
\* and returns, and the phase stays Provisioning.)
DecidesOnFaults == []<>(Current(model) \/ model.phase = "Failed")

\* The same after any failure: "Create sts - will be call again when scale up".
\* (TLC refutes it: a scale-down that fails half way leaves the replicas, and the
\* next, higher target creates entities only beyond those.)
ServedAfterFailure == Settled /\ Current(model) /\ ~raced => Served

\* A settled Model that observed its generation has carried it out.  (TLC refutes
\* it: the target is read for the entities and again for the StatefulSet, and the
\* generation a third time.)
LastTargetServed == Settled /\ Current(model) => Served

\* An Entity that a user added stays as long as no edit changes the target.  (TLC
\* refutes it: a pass for any other edit deletes it, since the StatefulSet has
\* grown beyond the target.)
AdoptedStays == (\A t, u \in Targets : t = u) => adopted \cap dying = {}
=============================================================================
