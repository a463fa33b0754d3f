# RoboKube in TLA+

RoboKube is a Kubernetes operator for fleets of robots.  Users write four kinds
of objects, a manager reconciles them, and an agent in each robot's pod takes
messages.  This directory models the operator's controllers, the way they write
statuses, the admission of entities and pods, the agent with its message queue
and its images, and two compositions: the fleet of a Model with its pods, and the
delivery of Tasks from a client to an agent.  TLC checks the models on small
instances; TLAPS proves types, the safety properties that the passing runs check, and
both refinements, for every size.

Run everything from this directory:

    tlasany M.tla                                   # parse
    tlc -workers 2 -config X.cfg M                  # model-check a run
    tlapm MProofs.tla                               # check the proofs

## 1. The system

| Component | Source | State | Operations |
|---|---|---|---|
| Status writes | `internal/controller/processor_handler.go`, `handler/cluster_object_processor.go` | none of its own; the object, its `resourceVersion`, the informer's copy | `UpdateStatus`, `UpdateObj`, `Processor`, `ErrorDelegateHandler`, `handleFinalizer` |
| Model controller | `internal/controller/model_controller.go` | Model status, replicas of a StatefulSet (its own or a customer's), the entities it owns | `Reconcile`, `manageEntities` |
| Entity controller | `internal/controller/entity_controller.go`, `api/v1/entity_types.go` | Entity status (phase, observed generation, pod name), five resources, the pod | `Reconcile`, `lockOnPod`, `handleOwnershipAndReplicas`, deletion of the pod |
| Entity webhooks | `api/v1/entity_webhook.go` | none; a cached list of entities | mutator (finds an ordinal index), validator |
| Group controller | `internal/controller/group_controller.go`, `api/v1/group_types.go` | Group status, labels on entities and pods, a NetworkPolicy | `Reconcile`, `updateLabelsForEntities`, three deletion functions |
| Task controller | `internal/controller/task_controller.go`, `api/v1/task_types.go` | Task status (phase, execute time), delayed requests | `Reconcile` |
| Task dispatch | the same file, `handler/request_processor.go` | a goroutine per entity, one copy of the Task that they share | `processEntities`, `RequestHandler.Handle` |
| Agent | `cmd/agent/main.go` | a queue of messages in memory, image files on a volume | `handleTask`, `handleSync`, `handleImage`, `handleStatus` |
| CLI | `cmd/cli/main.go` | none | `task` creates a Task and waits for its phase; the other commands write one object |
| Pod webhook | `api/v1/pod_webhook.go` | none; a cached list of entities | refuses a pod without an Entity, gives it the labels of its Entity |
| Other webhooks | `model_webhook.go`, `group_webhook.go`, `task_webhook.go` | none | defaults |

**How they interact.** There are no calls between controllers: they share the
objects of the API server.  Every controller reads them from informer caches
that lag, writes with optimistic concurrency, and is called again by a watch, by
its own delayed request or by the retry of an error.  A generation changes with
a spec (or a deletion mark), never with a status; Model, Entity and Task
controllers ignore events without a new generation, the Group controller does
not.  A Model creates entities and a StatefulSet; an Entity that a user adds
grows that StatefulSet by one, which is how Model, Entity and webhooks meet in
the ordinal index.  The StatefulSet controller creates the pods in order, and the
Pod webhook refuses one whose index has no Entity yet.  An Entity locks on the pod
of its index and deletes that pod when it goes.  A Group labels entities and their
pods, and the Pod webhook labels those that come later.  A Task posts its payload to the agents in those pods,
and every run appends conditions to the Task and to the entities, whose own
controller writes the same status.  An agent's client takes the messages and can
itself create a Task for another entity.

**What is hard.** Ten workers and a goroutine per entity on shared objects;
passes that read a stale cache, are cut at any write by an edit, a deletion, a
failure or a restart; the queue and the delayed requests, which a restart
forgets; errors of which most end a pass for good; deletions in several steps
that are retried; an index that three parties choose; four controllers that each see
an old state of the others; requests without a time limit that hold a worker; a
queue that is emptied before its answer has arrived; files that two uploads
write.  `PROJECT.json` lists 40 hazards at their lines, with the properties that
would catch them.

**What makes each part correct.**

* Status writes: a call that succeeds applied its change exactly once, none
  loses another's, and each returns.
* Model: an entity and a pod for every index below the target, and no other.
* Entity: provisioned means complete; its pod is deleted before it goes; it is
  synced again and again.
* Ordinal indexes: requests that do not overlap never share one; every adopted
  entity has a pod until the Model takes it back.
* Group: a label never stands without its policy, what the status claims as
  observed is applied, a deleted Group goes and leaves no label.
* Task: runs when its status says and as often as its spec says; archived only
  after it ran; deleted at last.
* Dispatch: a condition means an answered request or a dry run, none is rolled back
  while accesses to the shared copy do not overlap, all goroutines are reaped.
* Pods: a pod carries the labels of its Entity; a fleet at rest has a pod for
  every Entity and none without.
* Delivery: a Task that completed was sent to every agent; none is forgotten;
  Tasks for agents that answer do not wait for those that do not.
* Agent: a message that was accepted is handed over once; an image that was
  acknowledged is whole.

## 2. Modules

| Module | Models | Checked by |
|---|---|---|
| `AtomicStatus` | what `UpdateStatus` promises: a call applies once and atomically, or not | (abstract) |
| `StatusUpdate` | `UpdateStatus`/`UpdateObj` attempt by attempt; implements `AtomicStatus` | `status_update`, `StatusUpdateProofs` |
| `TaskDispatch` | `processEntities` and `RequestHandler` | `task_dispatch`, `TaskDispatchProofs` |
| `TaskController` (`MCTaskController`) | `TaskReconciler.Reconcile` | `task_controller`, `task_early_run`, `TaskControllerProofs` |
| `GroupController` (`MCGroupController`) | `GroupReconciler.Reconcile`, a Group's deletion, the labels of new pods | `group_controller`, `group_lost_edit`, `GroupControllerProofs` |
| `OrdinalIndex` | the mutator's search: the loop and its closed form | `ordinal_allocation`, `OrdinalProofs` |
| `OrdinalAllocation` (`MCOrdinalAllocation`) | mutator, validator of creations and updates, storage, `handleOwnershipAndReplicas` and the Model's list, creates and replicas together; uses `OrdinalIndex` | `ordinal_allocation`, `OrdinalProofs` |
| `EntityController` (`MCEntityController`) | `EntityReconciler.Reconcile`, `lockOnPod`, an Entity's deletion | `entity_controller`, `EntityControllerProofs` |
| `ModelController` | `ModelReconciler.Reconcile`, `manageEntities` | `fleet`, `FleetProofs` |
| `Fleet` (`MCFleet`) | `ModelController` composed with the StatefulSet controller, the Pod webhook and the Entity controller's pods | `fleet`, `FleetProofs` |
| `Delivery` (`MCDelivery`) | client, workers of the Task controller and agents together; `handleSync`'s creation of a Task | `delivery`, `AgentProofs` |
| `Mailbox` | what an agent's clients rely on | (abstract) |
| `AgentQueue` (`MCAgentQueue`) | `handleTask` and `handleSync` with their lock; implements `Mailbox` | `agent_queue`, `AgentProofs` |
| `AgentImages` (`MCAgentImages`) | `handleImage` chunk by chunk, `handleStatus` | `agent_images`, `AgentProofs` |

**From code to model.**  A controller module has one object (its name in lower
case) as the API server holds it, the informer's copy (`...cache`, `seen`), the
copy `res` the running pass works on, and `pc`.  A pass is cut at each write to
the API server and at each read that a later step uses, since this is where
others come in between; code between two writes is one action.  Each action is a
piece of the Go function named in `PROJECT.json` "map".  `queued` is the work
queue (a set per object, so one bit), `wake` the delayed request.  One object has
one pass at a time, as controller-runtime guarantees; ten workers matter only
for shared objects, which is what `StatusUpdate`, `TaskDispatch` and
`OrdinalAllocation` are about.  A restart empties queue, delayed requests and
locals, refreshes the caches and requests every object.

*Layers.*  `StatusUpdate` opens `UpdateStatus` up and shows that it is atomic or
fails.  The controllers use this: their `SetStatus`, `SetPhase` are one step that
applies or (action `Fail`) does not.  `TaskDispatch` cannot: its goroutines share the
copy that `UpdateStatus` works on, so there each access to it is two steps.  `SetPhase("Provisoned")` copies the
generation of the object as it is *now*, as the code does, and not of the spec
the pass worked on.  `SetFailed` is `ErrorDelegateHandler`: phase Failed, and a
new request only for a conflict.  Its own write may fail as well, which is only
logged: a branch of `Fail`, or (`GroupController`, `EntityController`) `FailedLost`.  `TaskController` takes from `TaskDispatch` that
a dispatch is one send followed by a completion or an error.  `Fleet` keeps all of
`ModelController` and adds what the other three controllers do with the indexes it
writes; of `EntityController` it takes that an Entity locks on its pod, and that a
deletion deletes the pod, fails without one and then removes the finalizer.
`Delivery` takes from `TaskController` the way of a one-time Task without its clock
and cache, from `AgentQueue` that an accepted message is kept, and adds what each
leaves out: many Tasks on few workers, requests that are never answered, and the
clients at both ends.

*Data.*  Names are model values or strings of one kind, a payload is its
decodability, a spec has the fields that `Reconcile` branches on, time is a
counter of ticks with `NoTime`, a label is a place that carries it, resources of
an Entity are a set, a file is a sequence of chunks that know their upload.  Conditions are counted per writer (`StatusUpdate`,
`TaskDispatch`) and otherwise left out, except that for a Group an appended
condition is an event that wakes its controller.

*History variables.*  `raced` remembers that a user or a restart came in while a
pass was running or due; the properties named `Calm...` speak of the other
behaviours, in which passes still lag, fail and are retried.  `wentOn` remembers that
a pass of a Group did not end where `handleFinalizer` failed, `lost` that a pass ended
with an error that could not be recorded and is not repeated, `overlapped` that two accesses to the shared
Task did; `renumbered`, `lowered` and `base` what updates of an index and the Model
controller's writes did to the entities and the replicas.  `runs`, `posts`,
`given` count deliveries.

## 3. Runs

`CHECK_DEADLOCK FALSE` is in every configuration: users, faults and restarts are
bounded, so each instance may come to rest.

| Run | Instance | What it shows |
|---|---|---|
| `status_update` | 2 callers, 5 attempts, 3 foreign writes, a deletion | exactly once (`ExactlyOnce`), implements `AtomicStatus` (`Atomic`), every call returns (`Returns`) |
| `task_dispatch` | 2 goroutines, 5 attempts, each with or without `DryRun` | a condition means an answered request or a dry run, in every interleaving of the accesses to the shared copy; while these do not overlap no committed condition is rolled back; all are reaped |
| `task_controller` | 7 kinds of Task, 6 ticks, two of: 1 edit or deletion, 1 restart, 1 failure | a Task left alone runs once, not early, and is archived only after a run or its time; deleted and archived Tasks go, one-time Tasks run |
| `task_early_run` (violation) | no edits, 1 restart | a Scheduled Task runs before its `executeTime` |
| `group_controller` | 1 entity with a pod that comes and goes (two places for the label), 2 targets (add, remove), two of: 1 edit or deletion, 1 restart, 1 failure or lost pod | labels are guarded; calm edits are applied and pods carry the labels of their entities, unless a failure could not even be recorded; a calm deletion goes and leaves no label |
| `group_lost_edit` (violation) | 2 entities, one without a pod, 1 edit | an edit during a pass is observed and never applied |
| `ordinal_allocation` | every sorted list of at most 6 indexes up to 6; 3 entities, wishes 0 and 1 or none, 1 index that an update changes, 1 write of the replicas by the Model (0 or 2), 1 failure; symmetric in the names | loop and closed form agree; calm requests never share an index; every adopted entity has a pod until the replicas are lowered; the workers grow the StatefulSet once per index |
| `entity_controller` | 2 specs (own secret; privileged with a certificate), owned or not, two of: 1 edit or deletion, 1 restart, 1 failure or lost pod | provisioned is complete; calm edits are applied; the pod goes first; deleted entities go; syncing never stops and no Entity is forgotten, unless a failure could not even be recorded |
| `fleet` | 2 indexes, targets 0 and 1 (the second index is a user's), a StatefulSet that the Model creates, or a customer's that is deployed later with 1 replica; two of: 2 edits (or the deployment), 1 adopted entity, 1 restart, 1 failure or lost pod | a settled Model is served and has no surplus; at rest entities, pods and locks agree; none is forgotten; every Entity whose index is covered gets its pod or goes |
| `agent_queue` | 4 posts (object, object, string, undecodable), 2 clients, 1 crash | handed once, accepted is kept, implements `Mailbox` |
| `agent_images` | 3 uploads of 1 to 3 chunks to one name, 1 to another, 2 crashes or failures | an acknowledged upload that nobody came between is whole; the count is exact |
| `delivery` | 2 Tasks of the CLI (persistent; one of them for both agents) and one that an agent's client asks for, 2 workers, 2 agents of which one may hang and one is provisioned late, 1 restart or failure | completed means served; no Task is forgotten; the others are served while a worker is left |

Every module with state has a type invariant (`TypeOK`, in `AgentImages` and
`Delivery` `ImagesTypeOK` and `DeliveryTypeOK`).  No run spends time on it: it is
proved (section 4), in `OrdinalAllocation` and `AgentImages` as part of the inductive
invariant.  `Fleet` adds three sets of indexes to
`ModelController`, whose types are part of `FleetTypeOK` in `FleetProofs`.

**Why the bounds are enough.**  The interesting interleavings are of one pass
with one other actor, and of two callers of one write: one edit, restart or
failure together with the lagging caches already gives every cut of a pass, and
two of them, in every order and of every kind, those that undo or repeat one
another.  `MaxUpsets` is the bound on the kinds together (`Room` in the guards); in
`ModelController` no further upset follows one that raced, since the calm
properties say nothing then.  Two callers and three foreign writes exhaust or
survive five attempts; two goroutines refresh each other's copy; three entities
are a hole, a duplicate and a newcomer, or two that the Model listed and a user's, and one
write of the replicas to 0 or to 2 undercuts or overtakes the workers'.  Two indexes have a pod that waits for
another; targets 0 and 1 make the loops of `manageEntities` pass an index that has
to be added or removed and stop before one that a user added.  Three chunks are a first, a middle and a last one, and three uploads to one
name overlap, truncate and follow.  Two workers and one agent that hangs leave one
worker; `Frail` and `Late` say which agent may hang or come late, because the two
are not interchangeable anyway (the client of one of them sends).  Lists of up to
6 indexes hold every pattern of holes and duplicates the loop can tell apart, and
the rest is proved (section 4).  All counters that would grow (resource versions,
generations, clock) are driven by bounded causes; `MaxTime` is a horizon, and
properties that would look behind it say `InHorizon`.

**Fairness** is stated only where the code's environment gives it: workers take
queued requests, informers deliver, delayed requests come due, a started
goroutine is scheduled, a request is answered or fails, and the StatefulSet
controller replaces a pod.  Users, restarts, failures and the readiness of
entities owe nothing.  It is weak fairness throughout: an enabled step of a pass
stays enabled until the pass takes it.  For a Group the worker and
the watches are fair together.  In `Fleet` the Model's worker and its watch
are fair by themselves, the other two watches together, and so are the StatefulSet
controller and the Entity controller: no property needs more than that they do not
all rest while one of them has work.  In `Delivery` each Task has one fair `Advance`,
which is what its timer, its pass and those of its requests that an agent answers
do next (the clients owe nothing); an agent that hangs owes nothing, which is the point, since
`http.Client` has no timeout.  In liveness properties a failing call
excuses (`faults > 0`) where the code gives up on it: most errors end a pass
without another request.  `Decides` and `SyncNeverStops` of an Entity excuse less: only a failure
that could not be written into the status either (`lost`).

## 4. Proofs

All are checked by `tlapm` to the last leaf, from the modules' named assumptions
on constants alone.  These type the sets and say that counts are naturals and
attempts positive.  An offset is never 0, since the webhook replaces 0 by 60
(`task_webhook.go:45`).  Three say more.  The places of a Group and the names of
entities are finite (`GroupAssumption`, and `IsFiniteSet(Names)` in
`OrdinalAllocation`): they are counted and sorted, and what the API server lists is
finite.  `Provisioned \subseteq Entities`: a pod belongs to an Entity.  Each proof
module has one theorem that its inductive invariant `IInv` holds in every state, and
the others follow from it.

The invariants are built in the same way.  A property that a run checks is
seldom inductive, because it says nothing about a pass that is half way, or about
the copy the pass decides on.  So `IInv` adds *where the pass is* (what the steps
before `pc` have established) and *what the copies may say* (of a stale copy only
what never becomes false again, or what belongs to its version or generation).
`...Moves` and `...Passes` lemmas state once, for all actions, how the object and a
pass can change; the steps for the parts of `IInv` are then short and mention few
actions.

* `StatusUpdateProofs`, for any number of callers, attempts and foreign writes:
  `InvAlways` (`TypeOK`, and `Coherent`: a copy under the server's version is the
  server's status), `ExactlyOnceAlways`, `NothingLost` (no condition of another
  writer is dropped) and
  `UpdateStatusIsAtomic`, that every step is a step of `AtomicStatus` or a
  stutter.  `ExactlyOnce` is not inductive: an update could write a copy in which
  the caller's condition is already contained.  `Coherent` excludes it: a copy
  whose `resourceVersion` the server still has *is* the server's status with the
  caller's one change.
* `TaskDispatchProofs`, for any number of goroutines and attempts: `CommitsAreKept`
  (as long as no access to the shared copy began inside another's, a write of it rolls no
  committed condition back), and `ConditionsMeanPosts`, which needs no such premise.
  Here `Coherent` is weaker than in `StatusUpdate`, since
  goroutines append to one copy: while accesses do not overlap at most one goroutine is inside one
  (`Alone`), and a copy under the Task's own version that nobody is writing has *at
  least* every committed condition (`SharedHolds`), and so has what a goroutine carries from
  one half of its access to the other (`Carried`) and the bodies that were encoded from it.
  `Honest` says that no copy anywhere, half written ones included, has a condition of a
  goroutine whose request was not answered or dry; without it another goroutine could commit one.  `Attempts` keeps the
  number of tries positive while there is something to try.
* `GroupControllerProofs`, for any entities, targets and numbers of edits, restarts and
  faults: `LabelsGuarded`, that no entity or pod carries the label of a Group
  without a NetworkPolicy, unless the Group is being deleted.  `Guarded` says that
  the policy stands, or that nothing was labelled yet and nothing that would skip its
  creation can be read: no copy says Provisoned, and no pass is behind the policy.
  `DeletionIsMeant` says that only a pass of a marked Group removes the policy, however old
  the copy it decided on; `Working`, that a pass has a copy at all.
  Of the calm behaviours, `CalmTargetsApplied`, `PodsAlwaysAgree` and `GoesClean` (the
  invariants `CalmApplied`, `PodsFollow` and `CalmGoneClean`).  They speak of a Group at
  rest or gone, the first two of one whose failures could at least be recorded (`~lost`; without that
  TLC refutes them: `AppliedOrFailed`); `Due` and `Fresh` carry them through the passes (a Group that
  is not provisioned at its generation has a pass, a request or an event under way, or
  a lost failure, and a
  pass that starts has the newest generation, which by `Generations` has one target).  `Calm` says
  what such a pass has applied: every member that it has not still to visit is
  labelled, an entity before its pod, and entities that are no members agree with
  their pods.  For a deletion, `Marked` and `Finalized` say that a Group which is
  deleted in peace has its finalizer and that copies know it; `Found`, that every label still
  standing is in the cache, in the list of the running function, or on a pod
  too new to be listed; `Deleting`, that a pass of a marked Group never gets to
  the labels, because no copy it can read skips the deletion.  `CalmGoneClean` needs its
  exemption: the attempt to prove it without `wentOn` failed, and TLC found that a
  pass which goes on after `handleFinalizer` failed labels the entities again, and that a later
  pass then deletes the Group from a stale list.
* `OrdinalProofs`.  Of the operators: the loop of the mutator computes the closed form
  `FreeIndex` on every sequence of naturals (`LoopIsFreeIndex`; the run's
  `LoopAgrees` says so of short lists), and for every sorted one, holes
  and duplicates included, the index found is free (`FreeIndexIsFree`), and without
  duplicates it is the least one (`FreeIndexIsLeast`).  Of the system, for any names,
  wishes, targets and bounds: in every state the mutator would pick an index that no
  entity in its cache has (`PicksFirstFree`), requests that do not overlap never share one, but for
  entities whose index a user changed (`CalmIndexesUnique`), and grow the StatefulSet once for
  each index above what the Model set (`GrowsOncePerIndex`, for the invariant `CalmGrowth`), and
  every adopted entity has a pod as long as the Model has not lowered the replicas
  (`AdoptedHavePods`).  `Stored` and `Owned` say in which steps of a request the
  entity can be stored or owned; `Cached`, that the informer knows the index of an entity
  nobody renumbered; `Backed`, that until the replicas are lowered those that the
  controller compared with are still there.  `Calm` says that without overlaps a
  user's request is alone in flight and the webhooks see every entity; and `Unshared`, that the index about to
  be stored, or that the Model's pass has listed as missing and is to create an entity for, is taken by
  nobody else: the pass counts as one request from its list to its last create, which is what
  has to be free of overlaps there.
  `CalmGrowth` needs no count of entities against replicas, but `Growing`: an entity
  that is about to grow the StatefulSet has the index `replicas`, although it compared with the
  cache, because each replica which the cache does not show yet is the index of
  another stored entity (`Shown`), and `Calm` keeps those distinct.  After a write of the
  Model that is so again as soon as the cache has it, and before that nobody compares (`Quiet`).
  That a finite set of entities *can* be listed in the order of its indexes
  (`OrderExists`) is what the sort in the code relies on.
* `EntityControllerProofs`, for any specs and bounds, failures that are recorded or not: `ProvisionedComplete` (whatever stale
  copies the pass decided on), `PodGoesFirstAlways` and `CalmSpecsApplied`.  `InOrder` says what a pass
  has provided by the time it is at a step; `Remembers`, that what a stale copy says of
  owner and lock is still so.  For the calm property `Generations` gives a
  generation one spec, and `Fitting`, which holds while nothing raced, says that
  the pass works on the Entity's spec, that the privileged binding and the certificate are there
  once it is past them, and that the secret it carries from step to step is
  the one that spec asks for.
* `TaskControllerProofs`, for any Specs, delays and horizon: `RunsOnceAlways`,
  `ArchivedHasRunAlways` and the action property `NotEarly`, of a Task that nobody
  edits, deletes or disturbs.  Nothing in `Reconcile` compares what it reads with what it is about
  to do, so the argument is about requests: `Lockstep` says that there is one at
  most, in the queue, delayed or being served, and that the pass that serves it has the Task
  as it is; `OnTime`, that a request for a Scheduled Task is due at its
  `executeTime` or later; `Once`, that a Task which ran is archived, or on its way there
  past its RunTime, where it is not planned again; `Archived` and `Leaving`, that no
  copy says Archiving before that.  `TaskClaims` shows what one edit or restart makes of it.
* `FleetProofs`, for any indexes, targets and bounds: `CalmServedAlways`,
  `CalmNoSurplusAlways` and `CalmFleetAlways`.  To `ModelController` a step of the
  other controllers is a step of its own, a fault or none (`Projects`).  Of the Model,
  `Generations` says that a pass has its target, `Views` that what the
  informer or the pass's list shows below the target is there, and that what it does not show
  beyond it is a user's; `Fresh`, that a pass starts from the replicas the
  StatefulSet has; `Backed`, that every replica has its Entity, and each index
  that the loop has passed, or has yet to delete, too; `Listed`, that nothing a pass will
  have to create is there already.  So, as long as no call fails, no creation, deletion or
  update of a Model with a StatefulSet can (`NothingFails`), which is what makes a pass
  that has begun end.  `Matched` accounts for all entities: below the replicas, below
  the loop's index, or a user's.  For a customer's StatefulSet it is false, since
  entities can be there before it is; there `Held` says so of the entities that ever had
  a pod, because the webhook admits none before the Model owns it (`NoneYet`).  At rest
  the least index without a pod would be admitted and the greatest surplus pod removed
  (`PodsAtRest`), and so the four controllers agree.
* `AgentProofs`, of `Delivery`, for any Tasks, agents, workers, restarts and failures:
  `CompletedMeansServed` and `NoTaskForgotten`.  `Reached` says that each agent of a Task that
  is being sent has an open, an answered or a failed request; `Earned`, that whatever
  stands for a Task that is through (its phase, a pass that archives it, its deletion, the answer
  its client got) stands for one that was served; `Remembered`, that a created Task
  is served, running, queued, or failed.
* `AgentProofs`, of `AgentQueue`, for any number of requests and crashes: `TypeAlways`,
  `HandedOnceAlways`, `AcceptedIsKeptAlways` and the refinement `QueueIsMailbox`.
  `HandedOnce` needs `Locked` (the lock is held exactly from the copy to the
  clearing, and then the response is the queue) and `Fresh` (what was not accepted
  is nowhere).
* `AgentProofs`, of `AgentImages`, for any number of uploads of any sizes to any names, crashes
  and failures: `UploadedIsWholeAlways` and `CountIsExactAlways`.  The inductive
  invariant adds `Alone`: an upload that nobody came between has exactly its prefix in
  its file, and no rival is open that could write there.

The library's theorems that take an operator, and so induction in its usual form, are
out of the prover's reach here; `LeastNatural` replaces it where it is needed: a
set of naturals has a least element, and the least counterexample is refuted.  So
for the recursion that stands for the loop (`LoopStates`): the variables after each
iteration, written down (`After`), solve it, and no other solution differs at a
least place.

*Only model-checked* are:

* everything temporal beyond `[]`: the liveness properties, under fairness;
* `LoopAgrees`, which is about short lists what the theorem `LoopIsFreeIndex` says of all.

## 5. Claims that TLC refutes

Two are runs of the project and findings in `PROJECT.json`.  The others are kept
as definitions in the modules, with a configuration for those of a module;
`tlc -config X.cfg M` shows a counterexample to the first it meets in at most a
minute or so, and without that claim's name the next.  None of them is excluded from a passing
property silently: the passing one names the exemption (`Calm`, `faults`, `lost`, `hit`).

| Configuration, module | Claim | What happens |
|---|---|---|
| `TaskEarlyRun`, `MCTaskController` | `NotBeforeExecuteTime` | run `task_early_run` |
| `TaskClaims`, `MCTaskController` | `RunTimeOnce` (task_types.go:43 "scheduled to run once") | with a negative offset the Task runs again every minute until its time |
| | `OneTimeOnce` (task_controller.go:134 "for one time task") | the pass that deletes an archived Task goes on and sends it again |
| | `PersistantRemains` (task_types.go:61 "will be remain after completion") | a Task made persistent while Archiving is deleted |
| `TaskDispatchClaims`, `TaskDispatch` | `EachSuccessRecorded` | a goroutine's refresh of the shared copy drops what another appended |
| | `FailureReported` (task_controller.go:247 "retrying") | a failed request is not retried and gets Tasking True |
| | `CommittedKept`, which is `CalmKept` without its premise | res has the `resourceVersion` of another's answer already and still the older conditions when a goroutine appends to these and sends them; the API server takes the list and drops a committed condition |
| `GroupLostEdit`, `MCGroupController` | `LastTargetsApplied` | run `group_lost_edit` |
| `GroupClaims`, `MCGroupController` | `AppliedOrFailed` (processor_handler.go:91 "Failed") | a label cannot be written, and then neither can Failed, which is only logged; the Group stays Provisoned without a request |
| | `LastTargetsApplied` | with `MaxEdits = 0` too: a restart after the first Provisoned, before the labels |
| | `DeletedGoes` | a deletion during a pass is observed by it; the early return comes before the finalizer |
| | `FailedDeletionGoes` | a retry fails on the policy that is gone |
| | `PolicyGoes` (group_types.go:126 "remove netpol") | the pass goes on after removing the finalizer |
| | `ProvisionedIsFinalized` | a failed write of the finalizer does not end the pass |
| | `FinalizedGoesClean` (group_types.go:139, 162 "remove label for entities", "for pods") | a failed removal of the finalizer does not end the pass, which labels the entities again; a queued request then deletes the Group from a stale list |
| | `TotalIsRight` (group_types.go:59) | counted from the cache |
| | `PodsAlwaysFollow` (pod_webhook.go:107 "syncs the group labels") | a pod comes, with the labels of a cached Entity, between the list of pods and the label on the Entity |
| `OrdinalClaims`, `MCOrdinalAllocation` | `FirstAvailable` (entity_webhook.go:189) | behind a duplicate the loop passes over a hole |
| | `IndexNotTaken` (entity_webhook.go:70) | two overlapping requests |
| | `UpdatesKeepUnique` (entity_webhook.go:105-114) | an update gives an entity the index of another |
| | `AdoptedKeepsPod` (entity_controller.go:135 "increase its replicas to match ordinalIndex") | the Model controller sets the replicas to its target, below an adopted entity's index |
| | `AdmittedIsServed` (entity_webhook.go:98-99) | an index of replicas + 1 is admitted and refused later |
| | `GrowsToOwnIndex` | compared in one read, incremented in another |
| `EntityClaims`, `MCEntityController` | `LastSpecApplied` | as for the Group |
| | `UnlockedDeletedGoes` | an Entity without a pod name never goes |
| | `FailureIsSaid` (processor_handler.go:91 "Failed"), `AlwaysSynced` (entity_types.go:65) | a write fails, or every attempt meets an old copy, and so does the write of Failed; nil is returned, and nobody comes back to the Entity |
| `ModelClaims`, `ModelController` | `LastTargetServed` | target, replicas and generation come from different reads |
| | `ServedAfterFailure` (model_controller.go:193 "will be call again when scale up") | a scale-down that fails half way leaves the replicas; the next target creates entities only beyond them |
| | `DecidesOnFaults` | the pass after an error reads an old phase and returns early |
| `ModelAdopted` | `AdoptedStays` | any edit scales down to a target that does not count adopted entities |
| `ModelExisting` | `CalmServed`, for a customer's StatefulSet that has replicas (model_types.go:45) | scaling starts from these, and the indexes below them get no Entity |
| `FleetClaims`, `Fleet` | `DeletedGoes` (entity_types.go:160 "delete the pod") | the StatefulSet controller removes the pod of a scaled-down index first, and the deletion of its Entity fails on it for ever |
| | `AdoptedHasPod` (entity_controller.go:135 "increase its replicas to match ordinalIndex") | a Model that failed on a conflict of its finalizer has another pass when the StatefulSet grows, which sets the replicas back to the target and deletes only the entities that its cache shows |
| | `LastTargetHasPods` | a target that is raised while entities are going finds them in the list and creates no others |
| `DeliveryClaims`, `MCDelivery` | `CompletedIsDelivered` | a failed request completes its Task |
| | `AllAreServed` | requests without a time limit to an agent that hangs hold every worker |
| `AgentMixedImage`, `MCAgentImages` | `FilesAreWhole` (agent/main.go:107 "Copy file contents") | two uploads to one name write into one file |
| `AgentLost`, `MCAgentQueue` | `AcceptedIsReceived` | the queue is cleared before the response arrives |

Also noticed while reading, without a model: `entity_types.go:65-67` says that a
SyncPeriod of 0 or less means no syncing, the webhook makes it 60
(`entity_webhook.go:160-162`); withdrawing `privileged` removes no role binding
(`entity_controller.go:159`).

## 6. Not modelled

* The webhooks of Model, Group and Task: they change nothing that a controller
  reads, and keep no state.
* The deletion of a Model: its deletion function is empty, entities and StatefulSet
  go with their owner.  (The Entities then go, or stay for ever, as in `Fleet`.)
* Of the agent the certificate check, which is a reason of `Refuse`, and the pages
  that list and serve the images.
* Of the CLI templates, flags and the kubeconfig; its commands are the inputs of
  `Delivery`, `OrdinalAllocation`, `GroupController` and `Fleet`.
* Of the Pod webhook its crash on an object without owners (`pod_webhook.go:53`, one
  expression) and its validator, which admits everything.
* `DryRun` of a Task is in `TaskDispatch`.  `TaskController` and `Delivery` leave it out: in
  their terms (`runs`, `got`) a dry run completes its Task and nothing is sent.
* Of the copy that the goroutines of a Task share, `TaskDispatch` cuts each access into its
  `resourceVersion` and its conditions.  Finer tears are left out: two appends that share
  a backing array, or a list that is read while its header is written.
* Entities that share an index in `ModelController`: when the Model creates one for an index that a user
  took in between (its owner lets it pass the webhook), `entities` counts the index once.  These
  steps are raced, and `OrdinalAllocation` counts entities.  There an update of an
  index is one step, webhooks and store.
* Several Models in one namespace, and so the search of an Entity for its Model.
* Wiring, manifests, generated code and tests.
* Of `ClusterResourceHandler.Handle` only what it does for the resources the
  controllers ask for, not its verification of deployments and pods (no caller
  asks for it).  In a Task the third try and the channel behind it are dead code.

## 7. Plan

Built in this order: `StatusUpdate` (all else rests on it), `TaskDispatch`
and `TaskController`, `GroupController`, the ordinal indexes, `EntityController`,
`AgentQueue`, `ModelController`; then the pods in `GroupController`, `Fleet`,
`Delivery` and `AgentImages`; then the proofs, module by module, those of
`TaskController` and `Fleet` last.  What is left:

1. *Prove.*  Of the liveness properties, the safety parts that they rest on (a
   request under way for whatever is not done), as `Due` is in `GroupControllerProofs`.
2. *Abstract.*  One level-triggered reconciler that `GroupController`,
   `EntityController` and `ModelController` implement in calm behaviours.
