----------------------------- MODULE FleetProofs ----------------------------
(***************************************************************************)
(* Fleet for any number of indexes, any targets and any bounds: the Model  *)
(* controller, the StatefulSet controller, the webhook and the Entity      *)
(* controller agree on the entities and the pods of a Model that is        *)
(* provisioned, however often it was edited between the passes.            *)
(***************************************************************************)
EXTENDS Fleet, WellFoundedInduction, TLAPS

InPass == pc \in {"finalizer", "start", "prepare", "scale"}
Kept(i) == i \in entities \ dying
Down == pc = "scale" /\ to < from

FleetTypeOK ==
    /\ TypeOK
    /\ InPass => res \in Objects
    /\ pods \subseteq Indexes /\ locked \subseteq entities

\* What depends on no race: who owns the Model, what its generations stand for,
\* and what must have happened for a StatefulSet to be there.
Copies ==
    /\ mcache.own = model.own
    /\ mcache.gen <= model.gen /\ model.observed <= model.gen
    /\ mcache.gen = model.gen => mcache.target = model.target
    /\ InPass => res.own = model.own
    /\ adopts = 0 => adopted = {}
    /\ replicas = Absent => rcache = Absent
    /\ model.own => owned
    /\ rcache = Absent => ~owned /\ dying = {} /\ (pc \in {"prepare", "scale"} => from = 0)

\* A pass has the Model's generation and target.
Generations ==
    InPass =>
        /\ mcache.gen = model.gen /\ res.gen = model.gen /\ res.target = model.target
        /\ pc = "scale" => to = model.target

\* Only what is beyond the target is being deleted, and an Entity that the informer
\* shows below it is there.  One that it does not show yet is below it, or a user's.
Views ==
    /\ \A i \in dying : i >= model.target
    /\ \A i \in ecache : i < model.target => Kept(i)
    /\ \A i \in Indexes : Kept(i) /\ i >= model.target /\ i \notin adopted => i \in ecache
    /\ pc = "scale" =>
        /\ \A i \in list : i < to => Kept(i)
        /\ \A i \in Indexes : Kept(i) /\ i >= to /\ i \notin adopted => i \in list
    /\ Down => \A i \in Indexes : Kept(i) /\ to <= i /\ i < at => i \in adopted

\* A Model that is provisioned has a StatefulSet of its target or larger.
Provided ==
    pc = "done" \/ Current(model) =>
        /\ owned /\ replicas >= model.target
        /\ model.own /\ adopts = 0 => replicas = model.target

\* A pass starts from the replicas that the StatefulSet has: those that the informer
\* shows whenever one is due or about to be.
Fresh ==
    faults = 0 =>
        /\ rcache # Absent /\ (queued \/ InPass \/ mcache.gen # model.gen) => rcache = replicas
        /\ InPass => ~queued
        /\ owned /\ pc \in {"prepare", "scale"} => from = replicas

\* Every replica has an Entity, and what a pass has not come to yet, or must not
\* touch, is there.
Backed ==
    /\ ~shrunk => dying = {} /\ \A i \in Indexes : i < rcache => Kept(i)
    /\ faults = 0 \/ ~shrunk =>
        /\ (Down /\ shrunk) \/ \A i \in Indexes : i < replicas => Kept(i)
        /\ pc = "prepare" => \A i \in Indexes : i < from => Kept(i)
        /\ pc = "scale" => \A i \in Indexes :
            (i < to /\ (i < at \/ to <= from)) \/ (at <= i /\ i < from) => Kept(i)

\* No Entity that the next pass will have to create is there but not in its list,
\* so that creating it does not fail.
Listed ==
    faults = 0 /\ owned => \A i \in Indexes : Kept(i) =>
        /\ pc # "scale" /\ replicas <= i /\ i < model.target => i \in ecache
        /\ pc = "scale" /\ at <= i /\ i < to => i \in list

\* What a StatefulSet, or the pass that is changing it, accounts for.
Accounted(i) ==
    \/ i \in adopted
    \/ pc # "scale" /\ i < replicas
    \/ pc = "scale" /\ from <= to /\ i < at
    \/ Down /\ (i < to \/ (at <= i /\ i < from))

\* Those are all the entities of a Model with a StatefulSet of its own, and all that
\* ever had a pod.
Matched == faults = 0 /\ model.own => \A i \in Indexes : Kept(i) => Accounted(i)
Held == faults = 0 => \A i \in Indexes : Kept(i) /\ i \in pods \cup locked => Accounted(i)

Calm == ~raced => Generations /\ Views /\ Provided /\ Fresh /\ Backed /\ Listed /\ Matched

NoneYet == ~owned => pods = {} /\ locked = {}

IInv == FleetTypeOK /\ Copies /\ NoneYet /\ Calm /\ (~raced => Held)

Parameters ==
    /\ MaxIndex \in Nat /\ MaxEdits \in Nat /\ MaxAdopts \in Nat
    /\ MaxRestarts \in Nat /\ MaxFaults \in Nat
    /\ \A t \in Targets : t \in Nat /\ t <= MaxIndex
    /\ \A r \in Existing : r = Absent \/ (r \in Nat /\ r <= MaxIndex)

LEMMA ParametersHold == Parameters
    BY ModelAssumption DEF Parameters, Absent

\* The writes of a Model.
LEMMA ModelWritten ==
    ASSUME NEW p \in Phases, SetPhase(p), model \in Objects
    PROVE  /\ model' \in Objects /\ model'.phase = p
           /\ model'.gen = model.gen /\ model'.target = model.target /\ model'.own = model.own
           /\ model'.observed = IF p = "Provisoned" THEN model.gen ELSE model.observed
    BY DEF SetPhase, Objects

LEMMA FinalizerWritten ==
    ASSUME model \in Objects, model' = [model EXCEPT !.finalizer = TRUE]
    PROVE  /\ model' \in Objects /\ model'.phase = model.phase
           /\ model'.gen = model.gen /\ model'.target = model.target /\ model'.own = model.own
           /\ model'.observed = model.observed
    BY DEF Objects

LEMMA TargetWritten ==
    ASSUME model \in Objects, NEW t \in Targets,
           model' = [model EXCEPT !.target = t, !.gen = @ + 1]
    PROVE  /\ model' \in Objects /\ model'.phase = model.phase
           /\ model'.gen = model.gen + 1 /\ model'.target = t /\ model'.own = model.own
           /\ model'.observed = model.observed
<1>1. ASSUME NEW g \in Nat
      PROVE  [model EXCEPT !.target = t, !.gen = g] \in Objects
    BY DEF Objects
<1>2. model.gen + 1 \in Nat
    BY DEF Objects
<1>3. model' = [model EXCEPT !.target = t, !.gen = model.gen + 1]
    OBVIOUS
<1>4. model' \in Objects
    BY <1>1, <1>2, <1>3
<1> QED BY <1>3, <1>4 DEF Objects

LEMMA ObjectFields ==
    ASSUME NEW m \in Objects
    PROVE  /\ m.gen \in Nat /\ m.observed \in Nat /\ m.target \in Targets /\ m.own \in BOOLEAN
           /\ m.phase \in Phases
    BY DEF Objects

\* Types hold in every reachable state, and the loop stays between its counts.
LEMMA TypeStep == FleetTypeOK /\ [FleetNext]_fvars => FleetTypeOK'
<1> SUFFICES ASSUME FleetTypeOK, [FleetNext]_fvars PROVE FleetTypeOK'
    OBVIOUS
<1>p. Parameters
    BY ParametersHold
<1>m. model \in Objects /\ mcache \in Objects /\ model.target \in Nat /\ model.target <= MaxIndex
    BY <1>p, ObjectFields DEF FleetTypeOK, TypeOK, Parameters
<1>r. res \in Objects => res.target \in Nat /\ res.target <= MaxIndex
    BY <1>p, ObjectFields DEF Parameters
<1>f. Forget => /\ res' \in Objects \cup {Nothing} /\ from' \in Counts /\ to' \in Counts
                /\ list' \subseteq Indexes
    BY <1>p DEF Forget, Counts, Parameters
<1>s. \A p \in Phases : SetPhase(p) => model' \in Objects
    BY <1>m, ModelWritten
<1>c. "Provisoned" \in Phases /\ "Failed" \in Phases /\ "Provisioning" \in Phases
    BY DEF Phases
<1> USE DEF FleetTypeOK, TypeOK, InPass, caches, worker, locals, bounds, store, vars, fleet
<1>1. CASE Pass
  <2>1. CASE Begin
      BY <1>1, <2>1 DEF Begin, Pass
  <2>2. CASE Finalizer
    <3>1. model' \in Objects /\ (pc' # "idle" => res' \in Objects)
        BY <1>m, <1>s, <1>c, <2>2, FinalizerWritten DEF Finalizer, SetFailed, Return
    <3>2. CASE Forget /\ pc' = "idle" /\ queued' = TRUE
        BY <1>1, <1>f, <2>2, <3>1, <3>2 DEF Finalizer, Pass
    <3>3. CASE UNCHANGED locals /\ pc' = "start" /\ queued' = queued
        BY <1>1, <2>2, <3>1, <3>3 DEF Finalizer, Pass
    <3> QED BY <2>2, <3>2, <3>3 DEF Finalizer, SetFailed, Return
  <2>3. CASE Observed
      BY <1>1, <1>f, <2>3 DEF Observed, Pass, Return
  <2>4. CASE Start
    <3>1. model' \in Objects /\ res' \in Objects
        BY <1>m, <1>s, <1>c, <2>4 DEF Start
    <3>2. 0 \in Counts
        BY <1>p DEF Counts, Parameters
    <3>3. from' \in Counts
        BY <2>4, <3>2 DEF Start
    <3> QED BY <1>1, <2>4, <3>1, <3>3 DEF Start, Pass
  <2>5. CASE Prepare
    <3>1. res' \in Objects /\ list' \subseteq Indexes
        BY <1>m, <2>5 DEF Prepare
    <3>2. to' \in Counts
        BY <1>p, <2>5, <3>1, ObjectFields DEF Prepare, Parameters, Counts
    <3>3. at' \in (from'..to') \cup (to'..from')
        BY <2>5, <3>2 DEF Prepare, Counts
    <3> QED BY <1>1, <2>5, <3>1, <3>2, <3>3 DEF Prepare, Pass
  <2>6. CASE Skip
    <3>1. at' \in (from..to) \cup (to..from)
        BY <2>6 DEF Skip, Creating, Deleting, Counts
    <3> QED BY <1>1, <2>6, <3>1 DEF Skip, Pass
  <2>7. CASE Create
    <3>1. at' \in (from..to) \cup (to..from) /\ at \in Indexes
        BY <1>p, <2>7 DEF Create, Creating, Counts, Indexes, Parameters
    <3>2. res' \in Objects
        BY <1>m, <2>7 DEF Create, Creating
    <3>3. entities' \subseteq Indexes /\ entities \subseteq entities'
        BY <2>7, <3>1 DEF Create
    <3> QED BY <1>1, <2>7, <3>1, <3>2, <3>3 DEF Create, Pass
  <2>8. CASE CreateFails \/ DeleteFails
    <3>1. model' \in Objects /\ Forget /\ pc' = "idle"
        BY <1>c, <1>s, <2>8 DEF CreateFails, DeleteFails, SetFailed, Return
    <3> QED BY <1>1, <1>f, <2>8, <3>1 DEF CreateFails, DeleteFails, Pass
  <2>9. CASE Delete
    <3>1. at' \in (from..to) \cup (to..from)
        BY <2>9 DEF Delete, Deleting, Counts
    <3> QED BY <1>1, <1>m, <2>9, <3>1 DEF Delete, Pass
  <2>10. CASE SetReplicas
    <3>1. replicas' \in Counts \cup {Absent}
        BY <1>r, <2>10 DEF SetReplicas, Scaled, Counts
    <3> QED BY <1>1, <1>f, <2>10, <3>1 DEF SetReplicas, Pass
  <2>11. CASE ReplicasConflict
    <3>1. model' \in Objects /\ Forget /\ pc' = "idle"
        BY <1>c, <1>s, <2>11 DEF ReplicasConflict, SetFailed, Return
    <3> QED BY <1>1, <1>f, <2>11, <3>1 DEF ReplicasConflict, Pass
  <2>12. CASE NotDeployed
      BY <1>1, <1>f, <2>12 DEF NotDeployed, Pass, Return
  <2>13. CASE Finish
    <3>1. model' \in Objects /\ Forget /\ pc' = "idle"
        BY <1>c, <1>s, <2>13 DEF Finish, Return
    <3> QED BY <1>1, <1>f, <2>13, <3>1 DEF Finish, Pass
  <2> QED BY <1>1, <2>1, <2>2, <2>3, <2>4, <2>5, <2>6, <2>7, <2>8, <2>9, <2>10, <2>11, <2>12, <2>13
          DEF Pass, Reconcile
<1>2. CASE Others /\ UNCHANGED fleet
  <2>1. CASE CallFails
    <3>1. faults' \in 0..MaxFaults
        BY <1>p, <2>1 DEF CallFails, Parameters
    <3> QED BY <1>2, <1>f, <2>1, <3>1 DEF CallFails, Return
  <2>2. CASE Fail
    <3>1. faults' \in 0..MaxFaults
        BY <1>p, <2>2 DEF Fail, Parameters
    <3>2. model' \in Objects /\ Forget /\ pc' = "idle"
        BY <1>c, <1>s, <2>2 DEF Fail, SetFailed, Return
    <3>3. queued' \in BOOLEAN
        BY <2>2 DEF Fail
    <3> QED BY <1>2, <1>f, <2>2, <3>1, <3>2, <3>3 DEF Fail
  <2>3. CASE Adopt
    <3>1. adopts' \in 0..MaxAdopts
        BY <1>p, <2>3 DEF Adopt, Parameters
    <3>2. replicas' \in Counts /\ replicas \in Indexes
        BY <1>p, <2>3 DEF Adopt, Parameters, Indexes, Counts
    <3>3. raced' \in BOOLEAN
        BY <2>3 DEF Adopt
    <3> QED BY <1>2, <2>3, <3>1, <3>2, <3>3 DEF Adopt
  <2>4. ASSUME NEW r \in Existing, Deploy(r) PROVE FleetTypeOK'
    <3>1. edits' \in 0..MaxEdits
        BY <1>p, <2>4 DEF Deploy, Parameters
    <3>2. replicas' \in Counts
        BY <1>p, <2>4 DEF Deploy, Parameters, Counts
    <3>3. raced' \in BOOLEAN
        BY <2>4 DEF Deploy
    <3> QED BY <1>2, <2>4, <3>1, <3>2, <3>3 DEF Deploy
  <2>5. ASSUME NEW t \in Targets, Edit(t) PROVE FleetTypeOK'
    <3>1. edits' \in 0..MaxEdits
        BY <1>p, <2>5 DEF Edit, Parameters
    <3>2. model' \in Objects
        BY <1>m, <2>5, TargetWritten DEF Edit
    <3>3. raced' \in BOOLEAN
        BY <2>5 DEF Edit
    <3> QED BY <1>2, <2>5, <3>1, <3>2, <3>3 DEF Edit
  <2> QED BY <1>2, <2>1, <2>2, <2>3, <2>4, <2>5 DEF Others
<1>3. CASE Watches /\ UNCHANGED fleet
  <2>1. queued' \in BOOLEAN
      BY <1>3 DEF Watches, SyncModel, SyncReplicas, SyncEntities
  <2> QED BY <1>3, <1>m, <2>1 DEF Watches, SyncModel, SyncReplicas, SyncEntities
<1>4. CASE RestartAll
  <2>1. restarts' \in 0..MaxRestarts
      BY <1>4, <1>p DEF RestartAll, Restart, Parameters
  <2>2. raced' \in BOOLEAN
      BY <1>4 DEF RestartAll, Restart
  <2> QED BY <1>4, <1>f, <1>m, <2>1, <2>2 DEF RestartAll, Restart, Return
<1>5. CASE StatefulSetController
    BY <1>5 DEF StatefulSetController, Admit, ScaleDown
<1>6. ASSUME NEW i \in Indexes, EntityController(i) \/ PodLost(i) \/ KillForgotten(i) PROVE FleetTypeOK'
  <2>1. CASE LockOnPod(i) \/ DeletePod(i)
      BY <2>1 DEF LockOnPod, DeletePod
  <2>2. CASE EntityGone(i)
      BY <2>2 DEF EntityGone, Vanish
  <2>3. CASE PodLost(i) \/ KillForgotten(i)
    <3>1. faults' \in 0..MaxFaults
        BY <1>p, <2>3 DEF PodLost, KillForgotten, Parameters
    <3> QED BY <2>3, <3>1 DEF PodLost, KillForgotten
  <2> QED BY <1>6, <2>1, <2>2, <2>3 DEF EntityController
<1>7. CASE UNCHANGED fvars
    BY <1>7 DEF fvars
<1> QED BY <1>1, <1>2, <1>3, <1>4, <1>5, <1>6, <1>7 DEF FleetNext

(***************************************************************************)
(* The Model controller's part of the invariant.  To it, a step of the     *)
(* other controllers is a step of its own specification, a fault or none.  *)
(***************************************************************************)
Fault ==
    /\ faults' = faults + 1
    /\ UNCHANGED <<store, caches, worker, queued, shrunk, raced, edits, adopts, restarts>>

Step == Next \/ Fault \/ UNCHANGED vars

LEMMA Projects == [FleetNext]_fvars => Step
<1> SUFFICES ASSUME [FleetNext]_fvars PROVE Step
    OBVIOUS
<1>1. CASE Pass \/ (Others /\ UNCHANGED fleet) \/ (Watches /\ UNCHANGED fleet) \/ RestartAll
    BY <1>1 DEF Pass, Others, Watches, RestartAll, Step, Next
<1>2. CASE StatefulSetController
    BY <1>2 DEF StatefulSetController, Admit, ScaleDown, Step
<1>3. ASSUME NEW i \in Indexes, EntityController(i) \/ PodLost(i) \/ KillForgotten(i) PROVE Step
  <2>1. CASE LockOnPod(i) \/ DeletePod(i)
      BY <2>1 DEF LockOnPod, DeletePod, Step
  <2>2. CASE EntityGone(i)
      BY <2>2 DEF EntityGone, Step, Next
  <2>3. CASE PodLost(i) \/ KillForgotten(i)
      BY <2>3 DEF PodLost, KillForgotten, Step, Fault
  <2> QED BY <1>3, <2>1, <2>2, <2>3 DEF EntityController
<1>4. CASE UNCHANGED fvars
    BY <1>4 DEF fvars, Step
<1> QED BY <1>1, <1>2, <1>3, <1>4 DEF FleetNext

\* Who writes what: the actions by what they can change.
Writes == Finalizer \/ Start \/ CreateFails \/ DeleteFails \/ ReplicasConflict \/ Finish \/ Fail
Reads == Begin \/ Observed \/ Prepare \/ Skip \/ NotDeployed \/ CallFails
Scales == Create \/ Delete \/ SetReplicas
Syncs == SyncModel \/ SyncReplicas \/ SyncEntities
Users == Adopt \/ (\E r \in Existing : Deploy(r)) \/ (\E t \in Targets : Edit(t)) \/ Restart

LEMMA Sorted ==
    Step => \/ Writes \/ Reads \/ Scales \/ Syncs \/ Users
            \/ (\E i \in Indexes : Vanish(i)) \/ Fault \/ UNCHANGED vars
    BY DEF Step, Next, Reconcile, Writes, Reads, Scales, Syncs, Users

\* Only an edit changes what a Model asks for, and only the end of a pass provides it.
SameModel ==
    /\ model'.gen = model.gen /\ model'.target = model.target /\ model'.own = model.own
    /\ model'.observed \in {model.observed, model.gen}
    /\ Current(model)' => Current(model) \/ pc = "done"

LEMMA ModelStep ==
    ASSUME FleetTypeOK, Step
    PROVE  SameModel \/ \E t \in Targets : Edit(t)
<1>m. model \in Objects /\ (InPass => res \in Objects)
    BY DEF FleetTypeOK, TypeOK
<1>p. "Provisoned" \in Phases /\ "Failed" \in Phases /\ "Provisioning" \in Phases
    BY DEF Phases
<1>1. UNCHANGED model => SameModel
    BY DEF SameModel, Current
<1>2. SetPhase("Failed") \/ SetPhase("Provisioning") => SameModel
    BY <1>m, <1>p, ModelWritten DEF SameModel, Current
<1>3. pc = "done" /\ SetPhase("Provisoned") => SameModel
    BY <1>m, <1>p, ModelWritten DEF SameModel, Current
<1>4. model' = [model EXCEPT !.finalizer = TRUE] => SameModel
    BY <1>m, FinalizerWritten DEF SameModel, Current
<1>5. CASE Writes
    BY <1>1, <1>2, <1>3, <1>4, <1>5
       DEF Writes, Finalizer, Start, CreateFails, DeleteFails, ReplicasConflict, Finish, Fail, SetFailed
<1>6. CASE Reads \/ Scales
    BY <1>1, <1>6 DEF Reads, Scales, Begin, Observed, Prepare, Skip, NotDeployed, CallFails, Create,
                      Delete, SetReplicas, store
<1>7. CASE Syncs \/ Fault \/ UNCHANGED vars
    BY <1>1, <1>7 DEF Syncs, SyncModel, SyncReplicas, SyncEntities, Fault, vars, store
<1>8. CASE Users \/ \E i \in Indexes : Vanish(i)
    BY <1>1, <1>8 DEF Users, Adopt, Deploy, Restart, Vanish, store
<1> QED BY Sorted, <1>5, <1>6, <1>7, <1>8

\* Generations and targets as numbers.
LEMMA Numbers ==
    ASSUME FleetTypeOK
    PROVE  /\ model.gen \in Nat /\ model.observed \in Nat /\ model.target \in Nat
           /\ mcache.gen \in Nat /\ mcache.observed \in Nat
           /\ model.target <= MaxIndex /\ MaxIndex \in Nat
           /\ InPass => res.gen \in Nat /\ res.target \in Nat /\ res.target <= MaxIndex
    BY ParametersHold, ObjectFields DEF FleetTypeOK, TypeOK, Parameters

LEMMA CopiesStep ==
    ASSUME FleetTypeOK, FleetTypeOK', Copies, Step
    PROVE  Copies'
<1>n. /\ model.gen \in Nat /\ model.observed \in Nat /\ mcache.gen \in Nat
      /\ model.target \in Nat /\ (InPass => res.target \in Nat)
      /\ replicas \in Int /\ Absent = -1
    BY Numbers DEF FleetTypeOK, TypeOK, Counts, Absent
<1>w. model'.own = model.own
    <2>1. ASSUME NEW t \in Targets, Edit(t) PROVE model'.own = model.own
        BY <2>1, TargetWritten DEF Edit, FleetTypeOK, TypeOK
    <2> QED BY ModelStep, <2>1 DEF SameModel
<1>1. /\ mcache'.own = model'.own
      /\ mcache'.gen <= model'.gen /\ model'.observed <= model'.gen
      /\ mcache'.gen = model'.gen => mcache'.target = model'.target
  <2>0. mcache' = mcache \/ (mcache' = model /\ model' = model) 
      BY Sorted DEF Writes, Finalizer, Start, CreateFails, DeleteFails, ReplicasConflict, Finish, Fail,
                    Reads, Begin, Observed, Prepare, Skip, NotDeployed, CallFails,
                    Scales, Create, Delete, SetReplicas, Syncs, SyncModel, SyncReplicas, SyncEntities,
                    Users, Adopt, Deploy, Edit, Restart, Vanish, Fault, vars, caches, store
  <2>1. CASE SameModel
      BY <1>n, <2>0, <2>1 DEF SameModel, Copies
  <2>2. ASSUME NEW t \in Targets, Edit(t)
        PROVE  /\ model'.gen = model.gen + 1 /\ model'.observed = model.observed /\ mcache' = mcache
      BY <2>2, TargetWritten DEF Edit, FleetTypeOK, TypeOK, caches
  <2> QED BY <1>n, <1>w, <2>1, <2>2, ModelStep DEF Copies
<1>2. InPass' => res'.own = model'.own
  <2> USE <1>w DEF Copies, InPass
  <2>1. CASE Writes
      BY <2>1 DEF Writes, Finalizer, Start, CreateFails, DeleteFails, ReplicasConflict, Finish, Fail,
                  SetFailed, Return
  <2>2. CASE Reads
      BY <2>2 DEF Reads, Begin, Observed, Prepare, Skip, NotDeployed, CallFails, Return, locals
  <2>3. CASE Scales
      BY <2>3 DEF Scales, Create, Delete, SetReplicas, Creating, Deleting
  <2>4. CASE Syncs \/ Users
      BY <2>4 DEF Syncs, SyncModel, SyncReplicas, SyncEntities, Users, Adopt, Deploy, Edit, Restart, Return, 
                  worker
  <2>5. CASE (\E i \in Indexes : Vanish(i)) \/ Fault \/ UNCHANGED vars
      BY <2>5 DEF Vanish, Fault, vars, worker
  <2> QED BY Sorted, <2>1, <2>2, <2>3, <2>4, <2>5
<1>3. adopts' = 0 => adopted' = {}
  <2> USE DEF Copies, store, bounds
  <2>1. CASE Writes \/ Reads \/ Scales
      BY <2>1 DEF Writes, Finalizer, Start, CreateFails, DeleteFails, ReplicasConflict, Finish, Fail,
                  Reads, Begin, Observed, Prepare, Skip, NotDeployed, CallFails,
                  Scales, Create, Delete, SetReplicas
  <2>2. CASE Adopt
      BY <2>2, ModelAssumption DEF Adopt, FleetTypeOK, TypeOK
  <2>3. CASE Syncs \/ (Users /\ ~Adopt) \/ Fault \/ UNCHANGED vars
      BY <2>3 DEF Syncs, SyncModel, SyncReplicas, SyncEntities, Users, Deploy, Edit, Restart, Fault, vars
  <2>4. ASSUME NEW i \in Indexes, Vanish(i) PROVE adopts' = 0 => adopted' = {}
      BY <2>4 DEF Vanish
  <2> QED BY Sorted, <2>1, <2>2, <2>3, <2>4
<1>4. /\ replicas' = Absent => rcache' = Absent
      /\ model'.own => owned'
      /\ rcache' = Absent => ~owned' /\ dying' = {} /\ (pc' \in {"prepare", "scale"} => from' = 0)
  <2> DEFINE Goal == /\ replicas' = Absent => rcache' = Absent
                     /\ model'.own => owned'
                     /\ rcache' = Absent =>
                            ~owned' /\ dying' = {} /\ (pc' \in {"prepare", "scale"} => from' = 0)
  <2> USE <1>w, <1>n DEF Copies, store, caches, locals, worker
  <2>1. CASE Start
      BY <2>1 DEF Start
  <2>2. CASE Finalizer
      BY <2>2 DEF Finalizer, SetFailed, Return
  <2>3. CASE CreateFails \/ DeleteFails \/ ReplicasConflict \/ Finish \/ Fail
    <3>1. /\ replicas' = replicas /\ rcache' = rcache /\ owned' = owned /\ dying' = dying
          /\ pc' = "idle"
        BY <2>3 DEF CreateFails, DeleteFails, ReplicasConflict, Finish, Fail, SetFailed, Return
    <3> QED BY <3>1
  <2>4. CASE Reads
      BY <2>4 DEF Reads, Begin, Observed, Prepare, Skip, NotDeployed, CallFails, Return
  <2>5. CASE Create
      BY <2>5 DEF Create, Creating
  <2>6. CASE Delete
      BY <2>6 DEF Delete, Deleting, FleetTypeOK, TypeOK, Counts
  <2>7. CASE SetReplicas
      BY <2>7 DEF SetReplicas, Scaled, InPass
  <2>8. CASE Syncs \/ Fault \/ UNCHANGED vars
      BY <2>8 DEF Syncs, SyncModel, SyncReplicas, SyncEntities, Fault, vars
  <2>9. CASE Adopt
    <3>1. replicas' # Absent
        BY <2>9, ParametersHold DEF Adopt, Parameters, Indexes
    <3>2. rcache' = rcache /\ owned' = owned /\ dying' = dying /\ pc' = pc /\ from' = from
        BY <2>9 DEF Adopt
    <3> QED BY <3>1, <3>2
  <2>10. ASSUME NEW r \in Existing, Deploy(r) PROVE Goal
      BY <2>10 DEF Deploy
  <2>11. ASSUME NEW t \in Targets, Edit(t) PROVE Goal
      BY <2>11 DEF Edit
  <2>12. CASE Restart
      BY <2>12 DEF Restart, Return
  <2>13. ASSUME NEW i \in Indexes, Vanish(i) PROVE Goal
      BY <2>13 DEF Vanish
  <2> HIDE DEF Goal
  <2> QED BY Sorted, <2>1, <2>2, <2>3, <2>4, <2>5, <2>6, <2>7, <2>8, <2>9, <2>10, <2>11, <2>12, <2>13
          DEF Scales, Writes, Users, Goal
<1> QED BY <1>1, <1>2, <1>3, <1>4 DEF Copies

\* A step after which nothing has raced: nothing had before, and what users do came
\* when nothing was due or under way.
Quiet ==
    /\ pc = "idle" /\ queued = FALSE /\ dying = {}
    /\ mcache = model /\ rcache = replicas /\ ecache = entities

LEMMA Before ==
    ASSUME FleetTypeOK, Step, Calm, ~raced'
    PROVE  /\ ~raced
           /\ Generations /\ Views /\ Provided /\ Fresh /\ Backed /\ Listed /\ Matched
           /\ Adopt \/ (\E t \in Targets : Edit(t)) \/ Restart => Quiet
           /\ faults' = 0 => faults = 0 /\ ~CallFails /\ ~Fail /\ ~Fault
           /\ ~shrunk' => ~shrunk
<1>1. ~raced
  <2>1. CASE Writes \/ Reads \/ Scales
      BY <2>1 DEF Writes, Finalizer, Start, CreateFails, DeleteFails, ReplicasConflict, Finish, Fail,
                  Reads, Begin, Observed, Prepare, Skip, NotDeployed, CallFails,
                  Scales, Create, Delete, SetReplicas, bounds
  <2>2. CASE Syncs \/ Users \/ Fault \/ UNCHANGED vars
      BY <2>2 DEF Syncs, SyncModel, SyncReplicas, SyncEntities, Users, Adopt, Deploy, Edit, Restart,
                  Fault, vars, bounds
  <2>3. CASE \E i \in Indexes : Vanish(i)
      BY <2>3 DEF Vanish, bounds
  <2> QED BY Sorted, <2>1, <2>2, <2>3
<1>2. Adopt \/ (\E t \in Targets : Edit(t)) \/ Restart => Quiet
    BY DEF Adopt, Edit, Restart, Busy, Quiet, caches, FleetTypeOK, TypeOK
<1>3. faults' = 0 => faults = 0 /\ ~CallFails /\ ~Fail /\ ~Fault
  <2>0. faults \in Nat
      BY ParametersHold DEF FleetTypeOK, TypeOK, Parameters
  <2>1. CallFails \/ Fail \/ Fault => faults' = faults + 1
      BY DEF CallFails, Fail, Fault
  <2>2. CallFails \/ Fail \/ Fault \/ faults' = faults
    <3>1. CASE Writes \/ Reads \/ Scales
        BY <3>1 DEF Writes, Finalizer, Start, CreateFails, DeleteFails, ReplicasConflict, Finish,
                    Reads, Begin, Observed, Prepare, Skip, NotDeployed,
                    Scales, Create, Delete, SetReplicas, bounds
    <3>2. CASE Syncs \/ Users \/ UNCHANGED vars
        BY <3>2 DEF Syncs, SyncModel, SyncReplicas, SyncEntities, Users, Adopt, Deploy, Edit, Restart,
                    vars, bounds
    <3>3. CASE \E i \in Indexes : Vanish(i)
        BY <3>3 DEF Vanish, bounds
    <3> QED BY Sorted, <3>1, <3>2, <3>3
  <2> QED BY <2>0, <2>1, <2>2
<1>4. ~shrunk' => ~shrunk
  <2>1. CASE Writes \/ Reads \/ Scales
      BY <2>1 DEF Writes, Finalizer, Start, CreateFails, DeleteFails, ReplicasConflict, Finish, Fail,
                  Reads, Begin, Observed, Prepare, Skip, NotDeployed, CallFails,
                  Scales, Create, Delete, SetReplicas, bounds
  <2>2. CASE Syncs \/ Users \/ Fault \/ UNCHANGED vars
      BY <2>2 DEF Syncs, SyncModel, SyncReplicas, SyncEntities, Users, Adopt, Deploy, Edit, Restart,
                  Fault, vars, bounds
  <2>3. CASE \E i \in Indexes : Vanish(i)
      BY <2>3 DEF Vanish, bounds
  <2> QED BY Sorted, <2>1, <2>2, <2>3
<1> QED BY <1>1, <1>2, <1>3, <1>4 DEF Calm

LEMMA GenerationsStep ==
    ASSUME FleetTypeOK, Copies, Calm, Step, ~raced'
    PROVE  Generations'
<1>b. Generations /\ (Adopt \/ (\E t \in Targets : Edit(t)) \/ Restart => Quiet)
    BY Before
<1>e. ASSUME NEW t \in Targets, Edit(t) PROVE Generations'
    BY <1>b, <1>e DEF Quiet, Edit, worker, Generations, InPass
<1>s. ASSUME SameModel PROVE Generations'
  <2> USE <1>b, <1>s DEF SameModel, Generations, InPass
  <2>1. CASE Writes
      BY <2>1 DEF Writes, Finalizer, Start, CreateFails, DeleteFails, ReplicasConflict, Finish, Fail,
                  SetFailed, Return, caches
  <2>2. CASE Begin
    <3>1. mcache.gen = model.gen /\ mcache.target = model.target
        BY <2>2 DEF Begin, Copies
    <3> QED BY <2>2, <3>1 DEF Begin, caches
  <2>3. CASE Reads /\ ~Begin
      BY <2>3 DEF Reads, Observed, Prepare, Skip, NotDeployed, CallFails, Return, locals, caches
  <2>4. CASE Scales
      BY <2>4 DEF Scales, Create, Delete, SetReplicas, Creating, Deleting, caches
  <2>5. CASE Syncs
      BY <2>5 DEF Syncs, SyncModel, SyncReplicas, SyncEntities, worker, locals
  <2>6. CASE Users
      BY <1>e, <2>6 DEF Users, Adopt, Deploy, Restart, Return, worker, locals, caches
  <2>7. CASE (\E i \in Indexes : Vanish(i)) \/ Fault \/ UNCHANGED vars
      BY <2>7 DEF Vanish, Fault, vars, worker, locals, caches
  <2> QED BY Sorted, <2>1, <2>2, <2>3, <2>4, <2>5, <2>6, <2>7
<1> QED BY ModelStep, <1>e, <1>s

LEMMA ViewsStep ==
    ASSUME FleetTypeOK, FleetTypeOK', Copies, Calm, Step, ~raced'
    PROVE  Views'
<1>b. Generations /\ Views /\ (Adopt \/ (\E t \in Targets : Edit(t)) \/ Restart => Quiet)
    BY Before
<1>n. /\ model.target \in Nat /\ Indexes \subseteq Nat
      /\ from \in Nat /\ to \in Nat /\ (pc = "scale" => at \in Nat /\ to = model.target)
    BY <1>b, Numbers DEF FleetTypeOK, TypeOK, Generations, InPass, Counts, Indexes
<1>v. /\ \A i \in dying : i >= model.target
      /\ \A i \in ecache : i < model.target => Kept(i)
      /\ \A i \in Indexes : Kept(i) /\ i >= model.target /\ i \notin adopted => i \in ecache
      /\ pc = "scale" =>
          /\ \A i \in list : i < to => Kept(i)
          /\ \A i \in Indexes : Kept(i) /\ i >= to /\ i \notin adopted => i \in list
      /\ Down => \A i \in Indexes : Kept(i) /\ to <= i /\ i < at => i \in adopted
    BY <1>b DEF Views
<1>t. ecache \subseteq Indexes /\ list \subseteq Indexes /\ entities \subseteq Indexes
    BY DEF FleetTypeOK, TypeOK
<1>e. ASSUME NEW t \in Targets, Edit(t) PROVE Views'
    BY <1>b, <1>e, <1>t DEF Quiet, Edit, worker, caches, Views, Down, Kept
<1>s. ASSUME SameModel PROVE Views'
  <2>t. model'.target = model.target
      BY <1>s DEF SameModel
  \* Where the pass is not scaling, nor becomes to, the first three parts matter.
  <2>1. CASE UNCHANGED <<entities, dying, adopted, ecache>> /\ pc' # "scale"
      BY <1>v, <2>1, <2>t DEF Views, Down, Kept
  <2>2. CASE UNCHANGED <<entities, dying, adopted, ecache, pc, from, to, at, list>>
      BY <1>v, <2>2, <2>t DEF Views, Down, Kept
  <2>3. CASE Writes
    <3>1. UNCHANGED <<entities, dying, adopted, ecache>> /\ pc' # "scale"
        BY <2>3 DEF Writes, Finalizer, Start, CreateFails, DeleteFails, ReplicasConflict, Finish, Fail,
                    SetFailed, Return, caches
    <3> QED BY <2>1, <3>1
  <2>4. CASE Begin \/ Observed \/ NotDeployed \/ CallFails \/ SetReplicas
      BY <2>1, <2>4 DEF Begin, Observed, NotDeployed, CallFails, SetReplicas, Return, store, caches
  <2>5. CASE Prepare
    <3>1. /\ UNCHANGED <<entities, dying, adopted, ecache>> /\ to' = model.target /\ list' = ecache
          /\ to' < from' => at' = to'
      <4>1. UNCHANGED <<entities, dying, adopted, ecache, from>> /\ list' = ecache
          BY <2>5 DEF Prepare, store, caches
      <4>2. to' = model.target
          BY <1>b, <2>5 DEF Prepare, Generations, InPass
      <4>3. to' < from' => at' = to'
          BY <1>n, <2>5, <4>1, <4>2 DEF Prepare
      <4> QED BY <4>1, <4>2, <4>3
    <3> QED BY <1>v, <1>n, <2>t, <3>1 DEF Views, Down, Kept
  <2>6. CASE Skip
    <3>1. /\ UNCHANGED <<entities, dying, adopted, ecache, pc, from, to, list>> /\ at' = at + 1
          /\ pc = "scale" /\ (to < from => at \notin list)
        BY <1>n, <2>6 DEF Skip, Creating, Deleting, store, caches
    <3>2. ASSUME Down, NEW i \in Indexes, Kept(i), to <= i, i < at + 1 PROVE i \in adopted
      <4>1. i \notin adopted /\ i = at => FALSE
          BY <1>v, <3>1, <3>2 DEF Down
      <4> QED BY <1>v, <1>n, <3>1, <3>2, <4>1 DEF Down
    <3> QED BY <1>v, <2>t, <3>1, <3>2 DEF Views, Down, Kept
  <2>7. CASE Create
    <3>1. /\ UNCHANGED <<dying, adopted, ecache, pc, from, to, list>>
          /\ pc = "scale" /\ from < to /\ at < to /\ entities' \subseteq entities \cup {at}
          /\ entities \subseteq entities'
        BY <2>7 DEF Create, Creating, caches
    <3> QED BY <1>v, <1>n, <2>t, <3>1 DEF Views, Down, Kept
  <2>8. CASE Delete
    <3>1. /\ UNCHANGED <<entities, adopted, ecache, pc, from, to, list>> /\ at' = at + 1
          /\ dying' = dying \cup {at} /\ pc = "scale" /\ to < from
        BY <2>8 DEF Delete, Deleting, caches
    <3>2. at >= to
        BY <1>n, <3>1 DEF FleetTypeOK, TypeOK
    <3> QED BY <1>v, <1>n, <2>t, <3>1, <3>2 DEF Views, Down, Kept
  <2>9. CASE Syncs
    <3>1. CASE SyncModel \/ SyncReplicas
        BY <2>2, <3>1 DEF SyncModel, SyncReplicas, store, worker, locals
    <3>2. CASE SyncEntities
        BY <1>v, <1>n, <1>t, <2>t, <3>2 DEF SyncEntities, store, worker, locals, Views, Down, Kept
    <3> QED BY <2>9, <3>1, <3>2 DEF Syncs
  <2>10. CASE Adopt
    <3>1. /\ Quiet /\ UNCHANGED <<dying, ecache, pc>> /\ replicas \in Indexes
          /\ entities' = entities \cup {replicas} /\ adopted' = adopted \cup {replicas}
        BY <1>b, <2>10 DEF Adopt, caches, worker
    <3> QED BY <1>v, <2>t, <3>1 DEF Views, Down, Kept, Quiet
  <2>11. ASSUME NEW r \in Existing, Deploy(r) PROVE Views'
      BY <2>2, <2>11 DEF Deploy, caches, worker, locals
  <2>12. CASE Restart
    <3>1. Quiet /\ UNCHANGED <<entities, dying, adopted>> /\ ecache' = entities /\ pc' = "idle"
        BY <1>b, <2>12 DEF Restart, Return, store
    <3> QED BY <1>v, <2>t, <3>1 DEF Views, Down, Kept, Quiet
  <2>13. ASSUME NEW i \in Indexes, Vanish(i) PROVE Views'
    <3>1. /\ i \in dying /\ dying' = dying \ {i} /\ entities' = entities \ {i}
          /\ adopted' = adopted \ {i} /\ UNCHANGED <<ecache, pc, from, to, at, list>>
        BY <2>13 DEF Vanish, caches, worker, locals
    <3>2. \A j : Kept(j)' <=> Kept(j)
        BY <3>1 DEF Kept
    <3>3. \A j : Kept(j) => (j \in adopted' <=> j \in adopted)
        BY <3>1 DEF Kept
    <3> QED BY <1>v, <2>t, <3>1, <3>2, <3>3 DEF Views, Down
  <2>14. CASE Fault \/ UNCHANGED vars
      BY <2>2, <2>14 DEF Fault, vars, store, caches, worker, locals
  <2> QED BY Sorted, <1>e, <2>3, <2>4, <2>5, <2>6, <2>7, <2>8, <2>9, <2>10, <2>11, <2>12, <2>13, <2>14
          DEF Reads, Scales, Users
<1> QED BY ModelStep, <1>e, <1>s

LEMMA ProvidedStep ==
    ASSUME FleetTypeOK, Copies, Calm, Step, ~raced'
    PROVE  Provided'
<1>b. Generations /\ Provided /\ (Adopt \/ (\E t \in Targets : Edit(t)) \/ Restart => Quiet)
    BY Before
<1>n. /\ model.target \in Nat /\ model.gen \in Nat /\ model.observed \in Nat
      /\ adopts \in Nat /\ (replicas # Absent => replicas \in Nat)
      /\ Absent = -1
    BY ParametersHold, Numbers DEF FleetTypeOK, TypeOK, Counts, Absent, Parameters
<1>e. ASSUME NEW t \in Targets, Edit(t) PROVE Provided'
  <2>1. model'.gen = model.gen + 1 /\ model'.observed = model.observed
      BY <1>e, TargetWritten DEF Edit, FleetTypeOK, TypeOK
  <2>2. model'.gen # model'.observed
      BY <1>n, <2>1 DEF Copies
  <2>3. pc' = "idle"
      BY <1>b, <1>e DEF Quiet, Edit, worker
  <2> QED BY <2>2, <2>3 DEF Provided, Current
<1>s. ASSUME SameModel PROVE Provided'
  <2>t. /\ model'.target = model.target /\ model'.own = model.own
        /\ Current(model)' => Current(model) \/ pc = "done"
      BY <1>s DEF SameModel
  <2>p. pc = "done" \/ Current(model) =>
            /\ owned /\ replicas >= model.target
            /\ model.own /\ adopts = 0 => replicas = model.target
      BY <1>b DEF Provided
  <2>1. CASE SetReplicas
    <3>1. owned' = TRUE /\ replicas' = model.target
        BY <1>b, <2>1 DEF SetReplicas, Scaled, Generations, InPass
    <3> QED BY <1>n, <2>t, <3>1 DEF Provided
  <2>2. CASE UNCHANGED <<replicas, owned, adopts>> /\ (pc' = "done" => pc = "done")
      BY <2>t, <2>p, <2>2 DEF Provided
  <2>3. CASE Writes
    <3>1. UNCHANGED <<replicas, owned, adopts>> /\ pc' # "done"
        BY <2>3 DEF Writes, Finalizer, Start, CreateFails, DeleteFails, ReplicasConflict, Finish, Fail,
                    SetFailed, Return, bounds
    <3> QED BY <2>2, <3>1
  <2>4. CASE Reads
    <3>1. UNCHANGED <<replicas, owned, adopts>> /\ pc' # "done"
        BY <2>4 DEF Reads, Begin, Observed, Prepare, Skip, NotDeployed, CallFails, Return, store, bounds,
                    Creating, Deleting
    <3> QED BY <2>2, <3>1
  <2>5. CASE Create \/ Delete
    <3>1. UNCHANGED <<replicas, owned, adopts>> /\ pc' # "done"
        BY <2>5 DEF Create, Delete, Creating, Deleting, bounds
    <3> QED BY <2>2, <3>1
  <2>6. CASE Syncs \/ Fault \/ UNCHANGED vars
      BY <2>2, <2>6 DEF Syncs, SyncModel, SyncReplicas, SyncEntities, Fault, vars, store, worker, bounds
  <2>7. CASE Adopt
    <3>1. /\ replicas' = replicas + 1 /\ adopts' = adopts + 1 /\ UNCHANGED <<owned, pc>>
          /\ replicas \in Indexes
        BY <2>7 DEF Adopt, worker
    <3>2. replicas \in Nat
        BY <3>1, ParametersHold DEF Indexes, Parameters
    <3> QED BY <1>n, <2>t, <2>p, <3>1, <3>2 DEF Provided
  <2>8. ASSUME NEW r \in Existing, Deploy(r) PROVE Provided'
    <3>1. replicas = Absent /\ pc' = pc
        BY <2>8 DEF Deploy, worker
    <3>2. ~(pc = "done" \/ Current(model))
        BY <1>n, <2>p, <3>1
    <3> QED BY <2>t, <3>1, <3>2 DEF Provided
  <2>9. CASE Restart
      BY <2>2, <2>9 DEF Restart, Return, store
  <2>10. CASE \E i \in Indexes : Vanish(i)
      BY <2>2, <2>10 DEF Vanish, worker, bounds
  <2> QED BY Sorted, <1>e, <2>1, <2>3, <2>4, <2>5, <2>6, <2>7, <2>8, <2>9, <2>10 DEF Scales, Users
<1> QED BY ModelStep, <1>e, <1>s

LEMMA FreshStep ==
    ASSUME FleetTypeOK, FleetTypeOK', Copies, Calm, Step, ~raced', faults' = 0
    PROVE  Fresh'
<1>b. /\ Generations /\ Fresh /\ (Adopt \/ (\E t \in Targets : Edit(t)) \/ Restart => Quiet)
      /\ faults = 0 /\ ~CallFails /\ ~Fail /\ ~Fault
    BY Before
<1>f. /\ rcache # Absent /\ (queued \/ InPass \/ mcache.gen # model.gen) => rcache = replicas
      /\ InPass => ~queued
      /\ owned /\ pc \in {"prepare", "scale"} => from = replicas
    BY <1>b DEF Fresh
<1>c. /\ replicas = Absent => rcache = Absent
      /\ rcache = Absent => ~owned
    BY DEF Copies
<1>g. InPass => mcache.gen = model.gen
    BY <1>b DEF Generations
<1> USE DEF Fresh, InPass
<1>e. ASSUME NEW t \in Targets, Edit(t) PROVE Fresh'
    BY <1>b, <1>e DEF Quiet, Edit, worker, caches
<1>s. ASSUME SameModel PROVE Fresh'
  <2>t. model'.gen = model.gen
      BY <1>s DEF SameModel
  <2>1. CASE Begin
      BY <1>f, <1>c, <2>1, <2>t DEF Begin, store, caches
  <2>2. CASE Finalizer
    <3>1. UNCHANGED <<replicas, owned, mcache, rcache>> /\ pc = "finalizer"
          /\ (pc' = "idle" \/ (pc' = "start" /\ queued' = queued))
        BY <2>2 DEF Finalizer, SetFailed, Return, caches
    <3> QED BY <1>f, <2>t, <3>1
  <2>3. CASE Start
    <3>1. /\ UNCHANGED <<replicas, owned, mcache, rcache, queued>> /\ pc = "start" /\ pc' = "prepare"
          /\ rcache # Absent => from' = rcache
        BY <2>3 DEF Start, caches
    <3> QED BY <1>f, <1>c, <2>t, <3>1
  <2>4. CASE Prepare \/ Skip
      BY <1>f, <2>t, <2>4 DEF Prepare, Skip, Creating, Deleting, store, caches
  <2>5. CASE CreateFails \/ DeleteFails \/ Finish
    <3>1. UNCHANGED <<replicas, owned, mcache, rcache, queued>> /\ pc' = "idle"
        BY <2>5 DEF CreateFails, DeleteFails, Finish, SetFailed, Return, caches
    <3> QED BY <1>f, <2>t, <3>1
  <2>6. CASE ReplicasConflict
      BY <1>f, <2>6 DEF ReplicasConflict, Scaled
  <2>7. CASE Observed
      BY <1>f, <2>t, <2>7 DEF Observed, Return, store, caches
  <2>8. CASE NotDeployed
      BY <2>8 DEF NotDeployed, Return, caches
  <2>9. CASE Create \/ Delete
      BY <1>f, <2>t, <2>9 DEF Create, Delete, Creating, Deleting, caches
  <2>10. CASE SetReplicas
    <3>1. /\ UNCHANGED <<mcache, rcache, queued>> /\ pc = "scale" /\ pc' = "done"
        BY <2>10 DEF SetReplicas, Scaled, caches
    <3> QED BY <1>f, <1>g, <2>t, <3>1
  <2>11. CASE Syncs
    <3>1. CASE SyncModel
        BY <1>f, <1>g, <2>t, <3>1 DEF SyncModel, store, worker, locals
    <3>2. CASE SyncReplicas
        BY <1>f, <1>c, <2>t, <3>2 DEF SyncReplicas, store, worker, locals
    <3>3. CASE SyncEntities
        BY <1>f, <2>t, <3>3 DEF SyncEntities, store, worker, locals
    <3> QED BY <2>11, <3>1, <3>2, <3>3 DEF Syncs
  <2>12. CASE Adopt
      BY <1>b, <2>t, <2>12 DEF Adopt, Quiet, worker, caches
  <2>13. ASSUME NEW r \in Existing, Deploy(r) PROVE Fresh'
    <3>1. /\ UNCHANGED <<owned, mcache, rcache, queued, pc>> /\ rcache = Absent
        BY <1>c, <2>13 DEF Deploy, worker, caches
    <3> QED BY <1>f, <1>c, <2>t, <3>1
  <2>14. CASE Restart
      BY <1>b, <2>t, <2>14 DEF Restart, Return, Quiet, store
  <2>15. CASE (\E i \in Indexes : Vanish(i)) \/ UNCHANGED vars
      BY <1>f, <2>t, <2>15 DEF Vanish, vars, store, caches, worker, locals
  <2> QED BY Sorted, <1>b, <1>e, <2>1, <2>2, <2>3, <2>4, <2>5, <2>6, <2>7, <2>8, <2>9, <2>10, <2>11,
             <2>12, <2>13, <2>14, <2>15
          DEF Writes, Reads, Scales, Users
<1> QED BY ModelStep, <1>e, <1>s

\* As long as no call fails, neither does the deletion of an Entity nor, for a Model
\* with a StatefulSet, the creation of one or the write of the replicas.
LEMMA NothingFails ==
    ASSUME FleetTypeOK, Copies, Generations, Views, Fresh, Backed, Listed, faults = 0
    PROVE  ~DeleteFails /\ ~ReplicasConflict /\ (owned => ~CreateFails /\ ~NotDeployed)
<1>n. /\ pc = "scale" => at \in Nat /\ to = model.target
      /\ from \in Nat /\ to \in Nat /\ from <= MaxIndex /\ to <= MaxIndex
      /\ MaxIndex \in Nat
    BY Numbers DEF FleetTypeOK, TypeOK, Generations, InPass, Counts
<1>1. ~DeleteFails
  <2> SUFFICES ASSUME DeleteFails PROVE FALSE
      OBVIOUS
  <2>1. pc = "scale" /\ at < from /\ at \notin entities /\ at \in Indexes
      BY DEF DeleteFails, Deleting, FleetTypeOK, TypeOK
  <2>2. Kept(at)
      BY <1>n, <2>1 DEF Backed
  <2> QED BY <2>1, <2>2 DEF Kept
<1>2. ~ReplicasConflict
    BY DEF ReplicasConflict, Scaled, Fresh, InPass
<1>3. ASSUME owned, CreateFails PROVE FALSE
  <2>1. /\ pc = "scale" /\ at < to /\ at \notin list
        /\ ((at \in entities) # (at \in ecache)) \/ at \in adopted
      BY <1>3 DEF CreateFails, Creating
  <2>2. at \in Indexes
      BY <1>n, <2>1 DEF Indexes
  <2>3. at \in entities => at \notin dying
      BY <1>n, <2>1 DEF Views
  <2>4. at \notin entities
      BY <1>n, <1>3, <2>1, <2>2, <2>3 DEF Listed, Kept
  <2>5. at \notin ecache
      BY <1>n, <2>1, <2>4 DEF Views, Kept
  <2> QED BY <2>1, <2>4, <2>5 DEF FleetTypeOK, TypeOK
<1>4. ASSUME owned, NotDeployed PROVE FALSE
    BY <1>4 DEF NotDeployed, Copies
<1> QED BY <1>1, <1>2, <1>3, <1>4

LEMMA BackedStep ==
    ASSUME FleetTypeOK, FleetTypeOK', Copies, Calm, Step, ~raced'
    PROVE  Backed'
<1>b. /\ Generations /\ Views /\ Fresh /\ Backed /\ Listed
      /\ (Adopt \/ (\E t \in Targets : Edit(t)) \/ Restart => Quiet)
      /\ faults' = 0 => faults = 0 /\ ~CallFails /\ ~Fail /\ ~Fault
      /\ ~shrunk' => ~shrunk
    BY Before
<1>n. /\ model.target \in Nat /\ Indexes \subseteq Nat /\ Absent = -1
      /\ from \in Nat /\ to \in Nat /\ (pc = "scale" => at \in Nat /\ to = model.target)
      /\ replicas \in Int /\ rcache \in Int
    BY <1>b, Numbers DEF FleetTypeOK, TypeOK, Generations, InPass, Counts, Indexes, Absent
<1>1. ~shrunk => dying = {} /\ \A i \in Indexes : i < rcache => Kept(i)
    BY <1>b DEF Backed
<1>2. faults = 0 \/ ~shrunk => (Down /\ shrunk) \/ \A i \in Indexes : i < replicas => Kept(i)
    BY <1>b DEF Backed
<1>3. (faults = 0 \/ ~shrunk) /\ pc = "prepare" => \A i \in Indexes : i < from => Kept(i)
    BY <1>b DEF Backed
<1>4. (faults = 0 \/ ~shrunk) /\ pc = "scale" => \A i \in Indexes :
            (i < to /\ (i < at \/ to <= from)) \/ (at <= i /\ i < from) => Kept(i)
    BY <1>b DEF Backed
<1>f. faults = 0 => ~DeleteFails /\ ~ReplicasConflict /\ (owned => ~CreateFails /\ ~NotDeployed)
    BY <1>b, NothingFails
<1>g. faults' = 0 \/ ~shrunk' => faults = 0 \/ ~shrunk
    BY <1>b
\* What leaves the entities and the replicas alone and is not scaling.
<1>i. ASSUME UNCHANGED <<entities, dying, replicas, rcache, shrunk>>,
             pc' \notin {"prepare", "scale"},
             faults = 0 => ~(Down /\ shrunk) \/ faults' # 0
      PROVE  Backed'
    BY <1>1, <1>2, <1>g, <1>i DEF Backed, Kept, Down
<1>u. ASSUME UNCHANGED <<entities, dying, replicas, shrunk, pc, from, to, at>>,
             rcache' \in {rcache, replicas}
      PROVE  Backed'
    BY <1>1, <1>2, <1>3, <1>4, <1>g, <1>u DEF Backed, Kept, Down
<1>5. CASE Begin \/ Finalizer \/ Observed \/ Finish
  <2>1. UNCHANGED <<entities, dying, replicas, rcache, shrunk>>
      BY <1>5 DEF Begin, Finalizer, Observed, Finish, store, caches, bounds
  <2>2. pc' \notin {"prepare", "scale"} /\ pc # "scale"
      BY <1>5 DEF Begin, Finalizer, Observed, Finish, SetFailed, Return
  <2> QED BY <1>i, <2>1, <2>2 DEF Down
<1>6. CASE CreateFails \/ DeleteFails \/ ReplicasConflict \/ NotDeployed \/ CallFails \/ Fail
  <2>1. UNCHANGED <<entities, dying, replicas, rcache, shrunk>> /\ pc' = "idle"
      BY <1>6 DEF CreateFails, DeleteFails, ReplicasConflict, NotDeployed, CallFails, Fail, SetFailed,
                  Return, store, caches, bounds
  <2>2. faults = 0 => ~(Down /\ shrunk) \/ faults' # 0
    <3>1. CreateFails => ~Down
        BY <1>n DEF CreateFails, Creating, Down
    <3>2. NotDeployed => ~Down
        BY <1>n DEF NotDeployed, Copies, Down
    <3> QED BY <1>6, <1>f, <1>b, <3>1, <3>2
  <2> QED BY <1>i, <2>1, <2>2
<1>7. CASE Start
  <2>1. /\ UNCHANGED <<entities, dying, replicas, rcache, shrunk>> /\ pc' = "prepare" /\ pc = "start"
        /\ from' = (IF rcache = Absent THEN 0 ELSE rcache)
      BY <1>7 DEF Start, caches, bounds
  <2>2. faults = 0 /\ rcache # Absent => rcache = replicas
      BY <1>b, <2>1 DEF Fresh, InPass
  <2> QED BY <1>n, <1>1, <1>2, <1>g, <2>1, <2>2 DEF Backed, Kept, Down
<1>8. CASE Prepare
  <2>1. /\ UNCHANGED <<entities, dying, replicas, rcache, shrunk, from>> /\ pc = "prepare" /\ pc' = "scale"
        /\ at' = (IF from < to' THEN from ELSE to')
      BY <1>8 DEF Prepare, store, caches, bounds
  <2>2. to' \in Nat
      BY DEF FleetTypeOK, TypeOK, Counts
  <2>3. ASSUME faults' = 0 \/ ~shrunk'
        PROVE  /\ \A i \in Indexes : i < replicas' => Kept(i)'
               /\ \A i \in Indexes :
                    (i < to' /\ (i < at' \/ to' <= from')) \/ (at' <= i /\ i < from') => Kept(i)'
      BY <1>n, <1>2, <1>3, <1>g, <2>1, <2>2, <2>3 DEF Kept, Down
  <2>4. ~shrunk' => dying' = {} /\ \A i \in Indexes : i < rcache' => Kept(i)'
      BY <1>1, <2>1 DEF Kept
  <2> QED BY <2>1, <2>3, <2>4 DEF Backed
<1>9. CASE Skip
  <2>1. /\ UNCHANGED <<entities, dying, replicas, rcache, shrunk, from, to, pc>> /\ pc = "scale"
        /\ at' = at + 1 /\ (from < to => at < to /\ at \in list)
      BY <1>n, <1>9 DEF Skip, Creating, Deleting, store, caches, bounds
  <2>2. from < to => Kept(at)
      BY <1>b, <2>1 DEF Views
  <2>3. ASSUME faults' = 0 \/ ~shrunk', NEW i \in Indexes,
               (i < to /\ (i < at + 1 \/ to <= from)) \/ (at + 1 <= i /\ i < from)
        PROVE  Kept(i)
    <3>1. i = at \/ i # at
        OBVIOUS
    <3> QED BY <1>n, <1>4, <1>g, <2>1, <2>2, <2>3, <3>1
  <2>4. \A i : Kept(i)' <=> Kept(i)
      BY <2>1 DEF Kept
  <2> QED BY <1>1, <1>2, <1>g, <2>1, <2>3, <2>4 DEF Backed, Down
<1>10. CASE Create
  <2>1. /\ UNCHANGED <<dying, replicas, rcache, shrunk, from, to, pc>> /\ pc = "scale"
        /\ at' = at + 1 /\ from < to /\ at < to
        /\ entities \subseteq entities' /\ at \in entities'
      BY <1>10 DEF Create, Creating, caches, bounds
  <2>2. at \notin dying
      BY <1>b, <1>n, <2>1 DEF Views
  <2>3. \A i : Kept(i) \/ i = at => Kept(i)'
      BY <2>1, <2>2 DEF Kept
  <2>4. ASSUME faults' = 0 \/ ~shrunk', NEW i \in Indexes,
               (i < to /\ (i < at + 1 \/ to <= from)) \/ (at + 1 <= i /\ i < from)
        PROVE  Kept(i)'
      BY <1>n, <1>4, <1>g, <2>1, <2>3, <2>4
  <2>5. ~Down /\ ~Down'
      BY <1>n, <2>1 DEF Down
  <2> QED BY <1>1, <1>2, <1>g, <2>1, <2>3, <2>4, <2>5 DEF Backed
<1>11. CASE Delete
  <2>1. /\ UNCHANGED <<entities, replicas, rcache, from, to, pc>> /\ pc = "scale" /\ shrunk' = TRUE
        /\ at' = at + 1 /\ to < from /\ dying' = dying \cup {at}
      BY <1>11 DEF Delete, Deleting, caches
  <2>2. at >= to
      BY <1>n, <2>1 DEF FleetTypeOK, TypeOK
  <2>3. ASSUME faults' = 0, NEW i \in Indexes, i < to \/ (at + 1 <= i /\ i < from) PROVE Kept(i)'
    <3>1. i # at /\ Kept(i)
        BY <1>n, <1>4, <1>b, <2>1, <2>2, <2>3
    <3> QED BY <2>1, <3>1 DEF Kept
  <2> QED BY <1>n, <2>1, <2>3 DEF Backed, Down
<1>12. CASE SetReplicas
  <2>1. /\ UNCHANGED <<entities, dying, rcache, shrunk>> /\ pc = "scale" /\ pc' = "done"
        /\ replicas' = to /\ ~(from < to /\ at < to)
      BY <1>b, <1>n, <1>12 DEF SetReplicas, Scaled, Creating, Deleting, Generations, InPass, caches, bounds
  <2>2. \A i : Kept(i)' <=> Kept(i)
      BY <2>1 DEF Kept
  <2> QED BY <1>n, <1>1, <1>4, <1>g, <2>1, <2>2 DEF Backed, Down
<1>13. CASE Syncs \/ Fault \/ UNCHANGED vars
    BY <1>u, <1>13 DEF Syncs, SyncModel, SyncReplicas, SyncEntities, Fault, vars, store, caches, worker,
                       locals, bounds
<1>14. CASE Adopt
  <2>1. /\ Quiet /\ UNCHANGED <<dying, rcache, shrunk, pc>> /\ replicas \in Indexes
        /\ entities' = entities \cup {replicas} /\ replicas' = replicas + 1
      BY <1>b, <1>14 DEF Adopt, caches, worker
  <2>2. \A i : Kept(i)' <=> Kept(i) \/ i = replicas
      BY <2>1 DEF Kept, Quiet
  <2> QED BY <1>n, <1>1, <1>2, <1>g, <2>1, <2>2 DEF Backed, Down, Quiet
<1>15. ASSUME NEW r \in Existing, Deploy(r) PROVE Backed'
  <2>1. /\ UNCHANGED <<entities, dying, rcache, shrunk, pc, from, to, at>> /\ replicas = Absent
        /\ replicas' = r /\ 0..(r - 1) \subseteq entities
      BY <1>15 DEF Deploy, caches, worker, locals
  <2>2. dying = {} /\ r \in Int
      BY <2>1, ParametersHold DEF Copies, Parameters, Absent
  <2>3. \A i \in Indexes : i < r => Kept(i)
      BY <1>n, <2>1, <2>2 DEF Kept
  <2>4. \A i : Kept(i)' <=> Kept(i)
      BY <2>1 DEF Kept
  <2> QED BY <1>1, <1>3, <1>4, <1>g, <2>1, <2>3, <2>4 DEF Backed
<1>16. ASSUME NEW t \in Targets, Edit(t) PROVE Backed'
    BY <1>u, <1>16 DEF Edit, caches, worker, locals
<1>17. CASE Restart
  <2>1. /\ Quiet /\ UNCHANGED <<entities, dying, replicas, shrunk>> /\ pc' = "idle" /\ rcache' = replicas
      BY <1>b, <1>17 DEF Restart, Return, store
  <2> QED BY <1>i, <2>1 DEF Quiet, Down
<1>18. ASSUME NEW i \in Indexes, Vanish(i) PROVE Backed'
  <2>1. /\ i \in dying /\ dying' = dying \ {i} /\ entities' = entities \ {i}
        /\ UNCHANGED <<replicas, rcache, shrunk, pc, from, to, at>>
      BY <1>18 DEF Vanish, caches, worker, locals, bounds
  <2>2. \A j : Kept(j)' <=> Kept(j)
      BY <2>1 DEF Kept
  <2> QED BY <1>1, <1>2, <1>3, <1>4, <1>g, <2>1, <2>2 DEF Backed, Down
<1> QED BY Sorted, <1>5, <1>6, <1>7, <1>8, <1>9, <1>10, <1>11, <1>12, <1>13, <1>14, <1>15, <1>16, <1>17, <1>18
        DEF Writes, Reads, Scales, Users

LEMMA ListedStep ==
    ASSUME FleetTypeOK, FleetTypeOK', Copies, Calm, Step, ~raced'
    PROVE  Listed'
<1> SUFFICES ASSUME faults' = 0, owned', NEW i \in Indexes, Kept(i)'
             PROVE  /\ pc' # "scale" /\ replicas' <= i /\ i < model'.target => i \in ecache'
                    /\ pc' = "scale" /\ at' <= i /\ i < to' => i \in list'
    BY DEF Listed
<1>b. /\ Generations /\ Views /\ Fresh /\ Backed /\ Listed
      /\ (Adopt \/ (\E t \in Targets : Edit(t)) \/ Restart => Quiet)
      /\ faults = 0 /\ ~CallFails /\ ~Fail /\ ~Fault
    BY Before
<1>n. /\ model.target \in Nat /\ i \in Nat /\ Indexes \subseteq Nat
      /\ from \in Nat /\ to \in Nat /\ (pc = "scale" => at \in Nat /\ to = model.target)
      /\ replicas \in Int
    BY <1>b, Numbers DEF FleetTypeOK, TypeOK, Generations, InPass, Counts, Indexes, Absent
<1>f. ~DeleteFails /\ ~ReplicasConflict /\ (owned => ~CreateFails /\ ~NotDeployed)
    BY <1>b, NothingFails
<1>l. owned /\ Kept(i) =>
        /\ pc # "scale" /\ replicas <= i /\ i < model.target => i \in ecache
        /\ pc = "scale" /\ at <= i /\ i < to => i \in list
    BY <1>b DEF Listed
<1>e. ASSUME NEW t \in Targets, Edit(t)
      PROVE  pc' # "scale" /\ i \in ecache'
    BY <1>b, <1>e DEF Quiet, Edit, worker, caches, Kept
<1>s. ASSUME SameModel
      PROVE  /\ pc' # "scale" /\ replicas' <= i /\ i < model'.target => i \in ecache'
             /\ pc' = "scale" /\ at' <= i /\ i < to' => i \in list'
  <2>t. model'.target = model.target
      BY <1>s DEF SameModel
  <2>1. CASE UNCHANGED <<entities, dying, owned, replicas, ecache>> /\ pc # "scale" /\ pc' # "scale"
      BY <1>l, <2>t, <2>1 DEF Kept
  <2>2. CASE Begin \/ Finalizer \/ Observed \/ Start \/ Finish
      BY <2>1, <2>2 DEF Begin, Finalizer, Observed, Start, Finish, SetFailed, Return, store, caches
  <2>3. CASE CreateFails \/ NotDeployed
      BY <1>f, <2>3 DEF CreateFails, NotDeployed, store
  <2>4. CASE Prepare
    <3>1. /\ UNCHANGED <<entities, dying, owned, replicas, from>> /\ pc = "prepare" /\ pc' = "scale"
          /\ list' = ecache /\ at' = (IF from < to' THEN from ELSE to')
        BY <2>4 DEF Prepare, store, caches
    <3>2. to' = model.target
        BY <1>b, <2>4 DEF Prepare, Generations, InPass
    <3>3. from = replicas
        BY <1>b, <3>1 DEF Fresh
    <3> QED BY <1>l, <1>n, <3>1, <3>2, <3>3 DEF Kept
  <2>5. CASE Skip
    <3>1. UNCHANGED <<entities, dying, owned, to, list, pc>> /\ pc = "scale" /\ at' = at + 1
        BY <2>5 DEF Skip, Creating, Deleting, store
    <3> QED BY <1>l, <1>n, <3>1 DEF Kept
  <2>6. CASE Create
    <3>1. /\ UNCHANGED <<dying, owned, to, list, pc>> /\ pc = "scale" /\ at' = at + 1
          /\ entities' \subseteq entities \cup {at}
        BY <2>6 DEF Create, Creating
    <3> QED BY <1>l, <1>n, <3>1 DEF Kept
  <2>7. CASE Delete
    <3>1. /\ UNCHANGED <<entities, owned, to, list, pc>> /\ pc = "scale" /\ at' = at + 1
          /\ dying \subseteq dying'
        BY <2>7 DEF Delete, Deleting
    <3> QED BY <1>l, <1>n, <3>1 DEF Kept
  <2>8. CASE SetReplicas
    <3>1. replicas' = model.target /\ pc' = "done"
        BY <1>b, <2>8 DEF SetReplicas, Scaled, Generations, InPass
    <3> QED BY <1>n, <2>t, <3>1
  <2>9. CASE Syncs \/ UNCHANGED vars
    <3>1. UNCHANGED <<entities, dying, owned, replicas, pc, at, to, list>> /\ ecache' \in {ecache, entities}
        BY <2>9 DEF Syncs, SyncModel, SyncReplicas, SyncEntities, vars, store, caches, worker, locals
    <3> QED BY <1>l, <2>t, <3>1 DEF Kept
  <2>10. CASE Adopt
    <3>1. /\ Quiet /\ UNCHANGED <<dying, owned, ecache, pc>> /\ replicas' = replicas + 1
          /\ entities' = entities \cup {replicas}
        BY <1>b, <2>10 DEF Adopt, caches, worker
    <3> QED BY <1>l, <1>n, <2>t, <3>1 DEF Quiet, Kept
  <2>11. ASSUME NEW r \in Existing, Deploy(r) PROVE FALSE
      BY <2>11 DEF Deploy, Copies
  <2>12. CASE Restart
      BY <1>b, <2>12 DEF Restart, Return, Quiet, store, Kept
  <2>13. ASSUME NEW j \in Indexes, Vanish(j)
         PROVE  /\ pc' # "scale" /\ replicas' <= i /\ i < model'.target => i \in ecache'
                /\ pc' = "scale" /\ at' <= i /\ i < to' => i \in list'
    <3>1. /\ dying' = dying \ {j} /\ entities' = entities \ {j}
          /\ UNCHANGED <<replicas, owned, ecache, pc, to, at, list>>
        BY <2>13 DEF Vanish, caches, worker, locals
    <3> QED BY <1>l, <2>t, <3>1 DEF Kept
  <2> QED BY Sorted, <1>b, <1>e, <1>f, <2>2, <2>3, <2>4, <2>5, <2>6, <2>7, <2>8, <2>9, <2>10, <2>11, <2>12,
             <2>13
          DEF Writes, Reads, Scales, Users
<1> QED BY ModelStep, <1>e, <1>s

\* What a StatefulSet, or the pass that changes it, accounts for stays so, and the
\* Entity that a pass or a user adds is.
LEMMA AccountedStep ==
    ASSUME FleetTypeOK, FleetTypeOK', Copies, Calm, Step, ~raced', faults' = 0, owned,
           NEW i \in Indexes, Kept(i) => Accounted(i), Kept(i)'
    PROVE  Accounted(i)'
<1>b. /\ Generations /\ Views /\ Fresh /\ Backed /\ Listed
      /\ (Adopt \/ (\E t \in Targets : Edit(t)) \/ Restart => Quiet)
      /\ faults = 0 /\ ~CallFails /\ ~Fail /\ ~Fault
    BY Before
<1>n. /\ i \in Nat /\ from \in Nat /\ to \in Nat /\ replicas \in Int
      /\ pc = "scale" => at \in Nat /\ to = model.target /\ at \in (from..to) \cup (to..from)
    BY <1>b, Numbers DEF FleetTypeOK, TypeOK, Generations, InPass, Counts, Indexes, Absent
<1>f. ~DeleteFails /\ ~ReplicasConflict /\ ~CreateFails /\ ~NotDeployed
    BY <1>b, NothingFails
<1>a. Kept(i) => \/ i \in adopted
                 \/ pc # "scale" /\ i < replicas
                 \/ pc = "scale" /\ from <= to /\ i < at
                 \/ pc = "scale" /\ to < from /\ (i < to \/ (at <= i /\ i < from))
    BY DEF Accounted, Down
<1> USE DEF Accounted, Down
<1>1. CASE UNCHANGED <<entities, dying, adopted, replicas>> /\ pc # "scale" /\ pc' # "scale"
    BY <1>a, <1>1 DEF Kept
<1>2. CASE Begin \/ Finalizer \/ Observed \/ Start \/ Finish
    BY <1>1, <1>2 DEF Begin, Finalizer, Observed, Start, Finish, SetFailed, Return, store
<1>3. CASE Prepare
  <2>1. /\ UNCHANGED <<entities, dying, adopted, replicas, from>> /\ pc = "prepare" /\ pc' = "scale"
        /\ at' = (IF from < to' THEN from ELSE to')
      BY <1>3 DEF Prepare, store
  <2>2. to' \in Nat
      BY DEF FleetTypeOK, TypeOK, Counts
  <2>3. from = replicas
      BY <1>b, <2>1 DEF Fresh
  <2>4. i \in adopted \/ i < from
      BY <1>a, <2>1, <2>3 DEF Kept
  <2> QED BY <1>n, <2>1, <2>2, <2>4
<1>4. CASE Skip
  <2>1. /\ UNCHANGED <<entities, dying, adopted, from, to, pc>> /\ pc = "scale" /\ at' = at + 1
        /\ to < from => at \notin list
      BY <1>n, <1>4 DEF Skip, Creating, Deleting, store
  <2>2. i = at /\ to < from => i \in adopted
      BY <1>n, <1>b, <2>1 DEF Views, Kept
  <2> QED BY <1>a, <1>n, <2>1, <2>2 DEF Kept
<1>5. CASE Create
  <2>1. /\ UNCHANGED <<dying, adopted, from, to, pc>> /\ pc = "scale" /\ at' = at + 1 /\ from < to
        /\ entities' \subseteq entities \cup {at}
      BY <1>5 DEF Create, Creating
  <2> QED BY <1>a, <1>n, <2>1 DEF Kept
<1>6. CASE Delete
  <2>1. /\ UNCHANGED <<entities, adopted, from, to, pc>> /\ pc = "scale" /\ at' = at + 1 /\ to < from
        /\ dying' = dying \cup {at}
      BY <1>6 DEF Delete, Deleting
  <2> QED BY <1>a, <1>n, <2>1 DEF Kept
<1>7. CASE SetReplicas
  <2>1. /\ UNCHANGED <<entities, dying, adopted>> /\ pc = "scale" /\ pc' = "done" /\ replicas' = to
        /\ ~(from < to /\ at < to) /\ ~(to < from /\ at < from)
      BY <1>b, <1>n, <1>7 DEF SetReplicas, Scaled, Creating, Deleting, Generations, InPass
  <2> QED BY <1>a, <1>n, <2>1 DEF Kept
<1>8. CASE Syncs \/ UNCHANGED vars
  <2>1. UNCHANGED <<entities, dying, adopted, replicas, pc, from, to, at>>
      BY <1>8 DEF Syncs, SyncModel, SyncReplicas, SyncEntities, vars, store, worker, locals
  <2> QED BY <1>a, <2>1 DEF Kept
<1>9. CASE Adopt
  <2>1. /\ Quiet /\ UNCHANGED <<dying, pc>> /\ replicas' = replicas + 1
        /\ entities' = entities \cup {replicas} /\ adopted' = adopted \cup {replicas}
      BY <1>b, <1>9 DEF Adopt, worker
  <2> QED BY <1>a, <1>n, <2>1 DEF Kept, Quiet
<1>10. ASSUME NEW r \in Existing, Deploy(r) PROVE FALSE
    BY <1>10 DEF Deploy, Copies
<1>11. ASSUME NEW t \in Targets, Edit(t) PROVE Accounted(i)'
    BY <1>b, <1>a, <1>11 DEF Edit, Quiet, worker, Kept
<1>12. CASE Restart
  <2>1. Quiet /\ UNCHANGED <<entities, dying, adopted, replicas>> /\ pc' = "idle"
      BY <1>b, <1>12 DEF Restart, Return, store
  <2> QED BY <1>1, <2>1 DEF Quiet
<1>13. ASSUME NEW j \in Indexes, Vanish(j) PROVE Accounted(i)'
  <2>1. /\ dying' = dying \ {j} /\ entities' = entities \ {j} /\ adopted' = adopted \ {j}
        /\ UNCHANGED <<replicas, pc, from, to, at>>
      BY <1>13 DEF Vanish, worker, locals
  <2> QED BY <1>a, <2>1 DEF Kept
<1> QED BY Sorted, <1>b, <1>f, <1>2, <1>3, <1>4, <1>5, <1>6, <1>7, <1>8, <1>9, <1>10, <1>11, <1>12, <1>13
        DEF Writes, Reads, Scales, Users

\* Who owns a Model does not change, and a StatefulSet stays its own.
LEMMA OwnedStep ==
    ASSUME FleetTypeOK, FleetTypeOK', Copies, Step
    PROVE  model'.own = model.own /\ owned' \in {owned, TRUE}
<1>1. model'.own = model.own
  <2>1. ASSUME NEW t \in Targets, Edit(t) PROVE model'.own = model.own
      BY <2>1, TargetWritten DEF Edit, FleetTypeOK, TypeOK
  <2> QED BY ModelStep, <2>1 DEF SameModel
<1>2. CASE Writes \/ Reads \/ Scales
    BY <1>1, <1>2 DEF Writes, Finalizer, Start, CreateFails, DeleteFails, ReplicasConflict, Finish, Fail,
                Reads, Begin, Observed, Prepare, Skip, NotDeployed, CallFails,
                Scales, Create, Delete, SetReplicas, store
<1>3. CASE Syncs \/ Users \/ Fault \/ UNCHANGED vars
    BY <1>1, <1>3 DEF Syncs, SyncModel, SyncReplicas, SyncEntities, Users, Adopt, Deploy, Edit, Restart,
                Fault, vars, store
<1>4. CASE \E i \in Indexes : Vanish(i)
    BY <1>1, <1>4 DEF Vanish
<1> QED BY Sorted, <1>2, <1>3, <1>4

LEMMA MatchedStep ==
    ASSUME FleetTypeOK, FleetTypeOK', Copies, Calm, Step, ~raced'
    PROVE  Matched'
<1> SUFFICES ASSUME faults' = 0, model'.own, NEW i \in Indexes, Kept(i)' PROVE Accounted(i)'
    BY DEF Matched
<1>1. owned /\ model.own /\ faults = 0 /\ Matched
    BY OwnedStep, Before DEF Copies
<1>2. Kept(i) => Accounted(i)
    BY <1>1 DEF Matched
<1> QED BY <1>1, <1>2, AccountedStep

\* Only the webhook admits pods, those of a StatefulSet that has an owner.
LEMMA OnlyAdmitted ==
    ASSUME FleetTypeOK, [FleetNext]_fvars
    PROVE  (pods \cup locked)' \subseteq (pods \cup locked) \/ \E i \in Indexes : Admit(i)
<1>1. CASE Pass \/ (Others /\ UNCHANGED fleet) \/ (Watches /\ UNCHANGED fleet) \/ RestartAll
    BY <1>1 DEF Pass, RestartAll, fleet
<1>2. CASE StatefulSetController
    BY <1>2 DEF StatefulSetController, ScaleDown
<1>3. ASSUME NEW i \in Indexes, EntityController(i) \/ PodLost(i) \/ KillForgotten(i)
      PROVE  (pods \cup locked)' \subseteq (pods \cup locked)
    BY <1>3 DEF EntityController, LockOnPod, DeletePod, EntityGone, PodLost, KillForgotten
<1>4. CASE UNCHANGED fvars
    BY <1>4 DEF fvars, fleet
<1> QED BY <1>1, <1>2, <1>3, <1>4 DEF FleetNext

LEMMA NoneYetStep ==
    ASSUME FleetTypeOK, FleetTypeOK', Copies, NoneYet, [FleetNext]_fvars
    PROVE  NoneYet'
<1>1. owned => owned'
    BY Projects, OwnedStep
<1>2. (\E i \in Indexes : Admit(i)) => owned
    BY DEF Admit
<1>3. ~owned' => (pods \cup locked)' = {}
    BY <1>1, <1>2, OnlyAdmitted DEF NoneYet
<1> QED BY <1>3 DEF NoneYet

LEMMA HeldStep ==
    ASSUME FleetTypeOK, FleetTypeOK', Copies, NoneYet, Calm, Held, [FleetNext]_fvars, ~raced'
    PROVE  Held'
<1> SUFFICES ASSUME faults' = 0, NEW i \in Indexes, Kept(i)', i \in (pods \cup locked)'
             PROVE  Accounted(i)'
    BY DEF Held
<1>s. Step
    BY Projects
<1>b. Generations /\ Views /\ Fresh /\ faults = 0
    BY <1>s, Before
<1>1. CASE i \in pods \cup locked
  <2>1. owned /\ (Kept(i) => Accounted(i))
      BY <1>b, <1>1 DEF NoneYet, Held
  <2> QED BY <1>s, <2>1, AccountedStep
<1>2. CASE i \notin pods \cup locked
  <2>1. PICK j \in Indexes : Admit(j)
      BY <1>2, OnlyAdmitted
  <2>2. UNCHANGED vars /\ i = j /\ i < replicas /\ owned
      BY <1>2, <2>1 DEF Admit, NextPod
  <2>3. Kept(i) /\ UNCHANGED <<adopted, pc, from, to, at, replicas>>
      BY <2>2 DEF vars, store, worker, locals, Kept
  <2>4. /\ i \in Nat /\ from \in Nat /\ to \in Nat /\ replicas \in Int
        /\ pc = "scale" => at \in Nat /\ at \in (from..to) \cup (to..from) /\ from = replicas
      BY <1>b, <2>2, Numbers DEF FleetTypeOK, TypeOK, Counts, Indexes, Absent, Fresh
  <2>5. Down /\ to <= i /\ i < at => i \in adopted
      BY <1>b, <2>3 DEF Views
  <2>6. Accounted(i)
      BY <2>2, <2>4, <2>5 DEF Accounted, Down
  <2> QED BY <2>3, <2>6 DEF Accounted, Down
<1> QED BY <1>1, <1>2

LEMMA InitHolds == FleetInit => IInv
<1> SUFFICES ASSUME FleetInit PROVE IInv
    OBVIOUS
<1>p. Parameters
    BY ParametersHold
<1>1. /\ model \in Objects /\ model.gen = 1 /\ model.observed = 0 /\ model.phase = ""
      /\ model.target \in Nat
  <2>1. PICK t \in Targets, own \in BOOLEAN :
            model = [gen |-> 1, target |-> t, own |-> own, finalizer |-> FALSE, phase |-> "", observed |-> 0]
      BY DEF FleetInit, Init
  <2> QED BY <1>p, <2>1 DEF Objects, Phases, Parameters
<1>2. /\ mcache = model /\ rcache = replicas /\ owned = model.own
      /\ replicas \in {Absent, 0} /\ (owned => replicas = 0)
      /\ entities = {} /\ dying = {} /\ adopted = {} /\ ecache = {} /\ list = {}
      /\ res = Nothing /\ pc = "idle" /\ from = 0 /\ to = 0 /\ at = 0 /\ queued = TRUE
      /\ shrunk = FALSE /\ raced = FALSE /\ edits = 0 /\ adopts = 0 /\ restarts = 0 /\ faults = 0
      /\ pods = {} /\ locked = {}
    BY DEF FleetInit, Init, Absent
<1>3. FleetTypeOK
  <2>1. owned \in BOOLEAN
      BY <1>1, <1>2 DEF Objects
  <2>2. replicas \in Counts \cup {Absent} /\ 0 \in Counts
      BY <1>p, <1>2 DEF Counts, Parameters
  <2>3. edits \in 0..MaxEdits /\ adopts \in 0..MaxAdopts /\ restarts \in 0..MaxRestarts
        /\ faults \in 0..MaxFaults
      BY <1>p, <1>2 DEF Parameters
  <2> QED BY <1>1, <1>2, <2>1, <2>2, <2>3 DEF FleetTypeOK, TypeOK, InPass
<1>4. Copies /\ NoneYet
  <2>1. mcache.gen <= model.gen /\ model.observed <= model.gen
    <3>1. mcache.gen = model.gen /\ model.gen = 1 /\ model.observed = 0
        BY <1>1, <1>2
    <3> QED BY <3>1
  <2>2. rcache = Absent => ~owned
    <3>1. 0 # Absent
        BY DEF Absent
    <3> QED BY <1>2, <3>1
  <2>3. model.own => owned
      BY <1>2
  <2>4. mcache.own = model.own /\ (mcache.gen = model.gen => mcache.target = model.target) /\ ~InPass
      BY <1>2 DEF InPass
  <2> QED BY <1>2, <2>1, <2>2, <2>3, <2>4 DEF Copies, NoneYet
<1>5. Generations /\ Views /\ Provided /\ Fresh
    BY <1>1, <1>2 DEF Generations, Views, Provided, Fresh, InPass, Kept, Down, Current
<1>6. Backed /\ Listed /\ Matched /\ Held
  <2>1. \A i \in Indexes : ~(i < replicas) /\ ~Kept(i)
      BY <1>2 DEF Indexes, Absent, Kept
  <2> QED BY <1>2, <2>1 DEF Backed, Listed, Matched, Held
<1> QED BY <1>2, <1>3, <1>4, <1>5, <1>6 DEF IInv, Calm

LEMMA Inductive == IInv /\ [FleetNext]_fvars => IInv'
<1> SUFFICES ASSUME FleetTypeOK, Copies, NoneYet, Calm, ~raced => Held, [FleetNext]_fvars
             PROVE  IInv'
    BY DEF IInv
<1>1. FleetTypeOK' /\ Step
    BY TypeStep, Projects
<1>2. Copies' /\ NoneYet'
    BY <1>1, CopiesStep, NoneYetStep
<1>3. ASSUME ~raced'
      PROVE  /\ (Generations /\ Views /\ Provided /\ Fresh /\ Backed /\ Listed /\ Matched)'
             /\ Held'
  <2>1. Generations' /\ Views' /\ Provided'
      BY <1>1, <1>3, GenerationsStep, ViewsStep, ProvidedStep
  <2>2. Fresh'
    <3>1. faults' = 0 => Fresh'
        BY <1>1, <1>3, FreshStep
    <3> QED BY <3>1 DEF Fresh
  <2>3. Backed' /\ Listed' /\ Matched'
      BY <1>1, <1>3, BackedStep, ListedStep, MatchedStep
  <2>4. ~raced
      BY <1>1, <1>3, Before
  <2>5. Held'
      BY <1>1, <1>3, <2>4, HeldStep
  <2> QED BY <2>1, <2>2, <2>3, <2>5
<1> QED BY <1>1, <1>2, <1>3 DEF IInv, Calm

LEMMA Invariance == FleetSpec => []IInv
    BY InitHolds, Inductive, PTL DEF FleetSpec

-----------------------------------------------------------------------------
\* A nonempty set of naturals has a least element, and one below a bound a greatest.
LEMMA LeastNatural ==
    ASSUME NEW T, T \subseteq Nat, T # {}
    PROVE  \E x \in T : \A y \in T : x <= y
<1> DEFINE R == OpToRel(<, Nat)
<1>1. \A x, y \in Nat : y < x => <<y, x>> \in R
    BY Zenon DEF OpToRel
<1>2. IsWellFoundedOn(R, Nat)
    BY NatLessThanWellFounded, Zenon
<1> HIDE DEF R
<1>3. PICK x \in T : \A y \in T : ~(<<y, x>> \in R)
    BY <1>2, WFMin, Zenon
<1>4. \A y \in T : ~(y < x)
    BY <1>1, <1>3, Zenon
<1> QED BY <1>4

LEMMA GreatestNatural ==
    ASSUME NEW N \in Nat, NEW T, T \subseteq 0..N, T # {}
    PROVE  \E x \in T : \A y \in T : y <= x
<1> DEFINE U == {N - y : y \in T}
<1>1. U \subseteq Nat /\ U # {}
  <2>1. ASSUME NEW y \in T PROVE N - y \in Nat
      OBVIOUS
  <2>2. PICK y \in T : TRUE
      OBVIOUS
  <2>3. N - y \in U
      BY <2>2
  <2> QED BY <2>1, <2>3
<1>2. PICK u \in U : \A v \in U : u <= v
    BY <1>1, LeastNatural
<1>3. PICK x \in T : u = N - x
    BY <1>2
<1>4. ASSUME NEW y \in T PROVE y <= x
  <2>1. u <= N - y
      BY <1>2
  <2> QED BY <1>3, <2>1
<1> QED BY <1>4

\* A fleet at rest has the pods of its replicas, all of them, when they have entities.
LEMMA PodsAtRest ==
    ASSUME FleetTypeOK, AtRest, owned, replicas \in Counts,
           \A i \in Indexes : i < replicas => i \in entities
    PROVE  pods = 0..(replicas - 1)
<1>n. /\ MaxIndex \in Nat /\ Indexes = 0..(MaxIndex - 1) /\ replicas \in Nat /\ replicas <= MaxIndex
      /\ pods \subseteq Indexes
    BY ParametersHold DEF Parameters, Indexes, Counts, FleetTypeOK
<1>c. ecache = entities
    BY DEF AtRest, Settled, Busy, caches
<1>1. ASSUME NEW i \in Indexes, i < replicas, i \notin pods PROVE FALSE
  <2> DEFINE T == {j \in Indexes : j < replicas /\ j \notin pods}
  <2>1. T \subseteq Nat /\ T # {}
      BY <1>n, <1>1
  <2>2. PICK j \in T : \A k \in T : j <= k
      BY <2>1, LeastNatural
  <2>3. NextPod(j)
      BY <1>n, <2>2 DEF NextPod
  <2>4. HasEntity(j)
      BY <1>c, <2>2 DEF HasEntity
  <2> QED BY <2>2, <2>3, <2>4 DEF AtRest
<1>2. ASSUME NEW i \in pods, i >= replicas PROVE FALSE
  <2> DEFINE T == {j \in pods : j >= replicas}
  <2>1. T \subseteq 0..MaxIndex
    <3>1. ASSUME NEW j \in 0..(MaxIndex - 1) PROVE j \in 0..MaxIndex
        BY <1>n
    <3>2. T \subseteq pods
        OBVIOUS
    <3> HIDE DEF T
    <3> QED BY <1>n, <3>1, <3>2
  <2>2. i \in T
      BY <1>2
  <2>3. T # {}
      BY <2>2
  <2>4. PICK j \in T : \A k \in T : k <= j
      BY <1>n, <2>1, <2>3, GreatestNatural
  <2>5. j \in pods /\ j >= replicas /\ j \in Indexes
      BY <1>n, <2>4 DEF T
  <2>6. ASSUME NEW k \in Indexes PROVE (k < replicas => k \in pods) /\ (k > j => k \notin pods)
    <3>1. k \in pods /\ k >= replicas => k <= j
        BY <2>4 DEF T
    <3> QED BY <1>n, <1>1, <2>5, <2>6, <3>1
  <2> QED BY <2>5, <2>6 DEF AtRest, SurplusPod
<1>3. ASSUME NEW i PROVE i \in pods <=> i \in 0..(replicas - 1)
  <2>1. CASE i \in Indexes
      BY <1>n, <1>1, <1>2, <2>1
  <2>2. CASE i \notin Indexes
    <3>1. i \notin 0..(replicas - 1)
        BY <1>n, <2>2
    <3> QED BY <1>n, <2>2, <3>1
  <2> QED BY <2>1, <2>2
<1> QED BY <1>3

\* What the invariant says of a Model that is provisioned and settled.
LEMMA SettledModel ==
    ASSUME IInv, Settled, Current(model), ~raced
    PROVE  /\ pc = "idle" /\ owned /\ replicas \in Counts /\ replicas >= model.target
           /\ \A i : Kept(i) <=> i \in entities
           /\ faults = 0 \/ ~shrunk => \A i \in Indexes : i < replicas => i \in entities
<1>1. FleetTypeOK /\ Provided /\ Backed
    BY DEF IInv, Calm
<1>2. pc = "idle" /\ dying = {}
    BY DEF Settled, Busy
<1>3. owned /\ replicas >= model.target /\ model.target \in Nat
    BY <1>1, Numbers DEF Provided
<1>4. replicas \in Counts
    BY <1>1, <1>3 DEF FleetTypeOK, TypeOK, Absent
<1> QED BY <1>1, <1>2, <1>3, <1>4 DEF Backed, Down, Kept

\* The model's types, and that a loop of manageEntities stays between the counts it
\* was given, in every execution.
THEOREM TypesHold == FleetSpec => []TypeOK
<1>1. IInv => TypeOK
    BY DEF IInv, FleetTypeOK
<1> QED BY Invariance, <1>1, PTL

\* A provisioned Model whose edits, adoptions and restarts came between passes has an
\* Entity and a replica for every index below its target, also when calls failed
\* before any scale-down (manageEntities).
THEOREM CalmServedAlways == FleetSpec => []CalmServed
<1>1. IInv => CalmServed
  <2> SUFFICES ASSUME IInv, Settled, Current(model), ~raced, faults = 0 \/ ~shrunk PROVE Served
      BY DEF CalmServed
  <2>1. model.target \in Nat /\ model.target <= MaxIndex /\ MaxIndex \in Nat
      BY Numbers DEF IInv
  <2>2. replicas \in Nat /\ replicas >= model.target
      BY <2>1, SettledModel DEF Counts
  <2>3. \A i \in Indexes : i < replicas => i \in entities
      BY SettledModel
  <2> QED BY <2>1, <2>2, <2>3 DEF Served, Indexes
<1> QED BY Invariance, <1>1, PTL

\* When nobody else adds entities and no call failed, a provisioned Model with a
\* StatefulSet of its own has exactly those of its target, and as many replicas.
THEOREM CalmNoSurplusAlways == FleetSpec => []CalmNoSurplus
<1>1. IInv => CalmNoSurplus
  <2> SUFFICES ASSUME IInv, Settled, Current(model), ~raced, adopts = 0, faults = 0, model.own
               PROVE  entities = 0..(model.target - 1) /\ replicas = model.target
      BY DEF CalmNoSurplus
  <2>1. FleetTypeOK /\ Provided /\ Matched /\ adopted = {}
      BY DEF IInv, Calm, Copies
  <2>2. /\ model.target \in Nat /\ model.target <= MaxIndex /\ MaxIndex \in Nat
        /\ Indexes = 0..(MaxIndex - 1) /\ entities \subseteq Indexes
      BY <2>1, Numbers DEF FleetTypeOK, TypeOK, Indexes
  <2>3. replicas = model.target
      BY <2>1 DEF Provided
  <2>4. pc = "idle" /\ (\A i : Kept(i) <=> i \in entities)
        /\ \A i \in Indexes : i < replicas => i \in entities
      BY SettledModel
  <2>5. ASSUME NEW i \in entities PROVE i < replicas
      BY <2>1, <2>2, <2>4, <2>5 DEF Matched, Accounted, Down
  <2>6. entities \subseteq 0..(model.target - 1)
      BY <2>2, <2>3, <2>5
  <2>7. 0..(model.target - 1) \subseteq entities
      BY <2>2, <2>3, <2>4
  <2> QED BY <2>3, <2>6, <2>7
<1> QED BY Invariance, <1>1, PTL

\* The four controllers agree: in a fleet at rest whose users acted between passes
\* and where no call failed, a provisioned Model has an Entity and a pod for each
\* index that its StatefulSet covers, each Entity knows its pod, and no pod is
\* without an Entity.
THEOREM CalmFleetAlways == FleetSpec => []CalmFleet
<1>1. IInv => CalmFleet
  <2> SUFFICES ASSUME IInv, AtRest, Current(model), ~raced, faults = 0, adopted \subseteq 0..(replicas - 1)
               PROVE  /\ Served
                      /\ pods = 0..(replicas - 1)
                      /\ pods \subseteq entities
                      /\ locked = (IF model.own THEN entities ELSE pods)
      BY DEF CalmFleet
  <2>1. Settled /\ FleetTypeOK /\ Matched /\ Held
      BY DEF IInv, Calm, AtRest
  <2>2. /\ model.target \in Nat /\ model.target <= MaxIndex /\ MaxIndex \in Nat
        /\ Indexes = 0..(MaxIndex - 1) /\ entities \subseteq Indexes /\ locked \subseteq entities
      BY <2>1, Numbers DEF FleetTypeOK, TypeOK, Indexes
  <2>3. /\ pc = "idle" /\ owned /\ replicas \in Counts /\ replicas >= model.target
        /\ \A i : Kept(i) <=> i \in entities
        /\ \A i \in Indexes : i < replicas => i \in entities
      BY <2>1, SettledModel
  <2>4. replicas \in Nat /\ replicas <= MaxIndex
      BY <2>2, <2>3 DEF Counts
  <2>5. pods = 0..(replicas - 1)
      BY <2>1, <2>3, PodsAtRest
  <2>6. Served /\ pods \subseteq entities
      BY <2>2, <2>3, <2>4, <2>5 DEF Served
  <2>7. pods \subseteq locked
      BY <2>6 DEF AtRest
  <2>8. ASSUME NEW i \in entities, Accounted(i) PROVE i \in pods
      BY <2>2, <2>3, <2>4, <2>5, <2>8 DEF Accounted, Down
  <2>9. locked \subseteq pods
      BY <2>1, <2>2, <2>3, <2>8 DEF Held
  <2>10. model.own => entities \subseteq pods
      BY <2>1, <2>2, <2>3, <2>8 DEF Matched
  <2> QED BY <2>2, <2>5, <2>6, <2>7, <2>9, <2>10
<1> QED BY Invariance, <1>1, PTL
=============================================================================
