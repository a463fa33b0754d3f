-------------------------- MODULE OrdinalAllocation -------------------------
(***************************************************************************)
(* How the entities of one Model get their ordinal indexes, and how the    *)
(* StatefulSet grows with them: the entity webhooks (mutator and validator *)
(* of api/v1/entity_webhook.go) and handleOwnershipAndReplicas             *)
(* (internal/controller/entity_controller.go).  The webhooks of concurrent *)
(* requests interleave, the API server stores the object only after both,  *)
(* and both read informer caches.  Ten workers reconcile different         *)
(* entities concurrently.  The Model's own passes (manageEntities and the  *)
(* write of the replicas, model_controller.go) and edits of the index come *)
(* in between.  UpdateObj is one step (StatusUpdate).                      *)
(***************************************************************************)
EXTENDS OrdinalIndex, FiniteSets, Functions

CONSTANTS
    Names,         \* names of the entities that are created
    Wishes,        \* the indexes a request, or the Model controller, may ask for
    Targets,       \* target replicas of the Model
    Replicas,      \* replicas of the StatefulSet at first
    MaxRenumbered, \* bounds
    MaxScales,
    MaxFaults

ASSUME AllocationAssumption ==
    /\ IsFiniteSet(Names) /\ Wishes \subseteq Nat /\ Targets \subseteq Nat
    /\ {Replicas, MaxRenumbered, MaxScales, MaxFaults} \subseteq Nat

VARIABLES
    stored,    \* names of the entities in the API server
    index,     \* their OrdinalIndex, which the label repeats
    seen,      \* the informer's view of the names
    icache,    \* and of the indexes
    owned,     \* entities with an owner reference to the Model
    replicas,  \* of the StatefulSet
    rcache,    \* the informer's view of it
    base,      \* what the Model controller last set the replicas to
    step,      \* [Names -> where the request, later the reconciler, is]
    raced,     \* requests overlapped, or came before the informers had caught up
    renumbered,\* entities whose index was edited
    lowered,   \* the Model controller has lowered the replicas
    scales,    \* its writes of them
    faults

store == <<stored, index, seen, icache, owned>>
sts == <<replicas, rcache, base>>
scaling == <<lowered, scales>>
vars == <<store, sts, step, raced, renumbered, scaling, faults>>

Nil == -1   \* spec.ordinalIndex is nil
InFlight == {"listed", "mutate", "validate", "persist"}

Init ==
    /\ stored = {} /\ seen = {} /\ owned = {}
    /\ index = [n \in Names |-> Nil] /\ icache = index
    /\ replicas = Replicas /\ rcache = Replicas /\ base = Replicas
    /\ step = [n \in Names |-> "none"]
    /\ raced = FALSE /\ renumbered = {} /\ lowered = FALSE /\ scales = 0 /\ faults = 0

Goto(n, s) == step' = [step EXCEPT ![n] = s]

\* The Model's pass: one that it created is on its way, or is to be created for an
\* index that the list of the pass did not have.
Creating(n) == n \in owned /\ step[n] \in InFlight
Managed(n) == step[n] = "listed" \/ Creating(n)
Managing == \E n \in Names : Managed(n)

\* A request overlaps another one, or a write the webhooks cannot see yet.
Overlaps == seen # stored \/ rcache # replicas \/ \E m \in Names : step[m] \in InFlight

\* A user creates an Entity, with an index or without.
Submit(n, i) ==
    /\ step[n] = "none"
    /\ index' = [index EXCEPT ![n] = i]
    /\ raced' = (raced \/ Overlaps)
    /\ Goto(n, "mutate")
    /\ UNCHANGED <<stored, seen, icache, owned, sts, renumbered, scaling, faults>>

\* manageEntities lists the entities and is to create one for each index that the
\* list does not have.
List(A, f) ==
    /\ A # {} /\ ~Managing
    /\ \A n \in A : step[n] = "none" /\ \A m \in seen : icache[m] # f[n]
    /\ index' = [n \in Names |-> IF n \in A THEN f[n] ELSE index[n]]
    /\ step' = [n \in Names |-> IF n \in A THEN "listed" ELSE step[n]]
    /\ raced' = (raced \/ Overlaps)
    /\ UNCHANGED <<stored, seen, icache, owned, sts, renumbered, scaling, faults>>

\* It creates them one after the other, with an owner reference.
Create(n) ==
    /\ step[n] = "listed" /\ \A m \in Names : ~Creating(m)
    /\ owned' = owned \cup {n}
    /\ Goto(n, "mutate")
    /\ UNCHANGED <<stored, index, seen, icache, sts, raced, renumbered, scaling, faults>>

\* One of its requests fails, or the manager restarts: the rest are not created.
GiveUp ==
    /\ \E n \in Names : step[n] = "listed"
    /\ faults < MaxFaults /\ faults' = faults + 1
    /\ step' = [n \in Names |-> IF step[n] = "listed" THEN "none" ELSE step[n]]
    /\ index' = [n \in Names |-> IF step[n] = "listed" THEN Nil ELSE index[n]]
    /\ UNCHANGED <<stored, seen, icache, owned, sts, raced, renumbered, scaling>>

\* The listed indexes in ascending order.
Indexes(order) == [k \in 1..Cardinality(seen) |-> icache[order[k]]]
Listed == Indexes(CHOOSE order \in Bijection(1..Cardinality(seen), seen) : Sorted(Indexes(order)))

\* entityMutator.Handle
Mutate(n) ==
    /\ step[n] = "mutate"
    /\ index' = [index EXCEPT ![n] = IF @ = Nil THEN FreeIndex(Listed) ELSE @]
    /\ Goto(n, "validate")
    /\ UNCHANGED <<stored, seen, icache, owned, sts, raced, renumbered, scaling, faults>>

Taken(n) == \E m \in seen : icache[m] = index[n]

\* Mutant of Admissible: an index that is taken is not looked for.
InRange(n) == n \in owned \/ index[n] <= rcache + 1

\* entityValidator.ValidateCreate: an entity with an owner passes; any other has
\* an index that is not taken and at most one above the replicas.
Admissible(n) == n \in owned \/ (~Taken(n) /\ index[n] <= rcache + 1)

Validate(n) ==
    /\ step[n] = "validate"
    /\ Goto(n, IF Admissible(n) THEN "persist" ELSE "rejected")
    /\ UNCHANGED <<store, sts, raced, renumbered, scaling, faults>>

\* The API server stores the admitted object.
Persist(n) ==
    /\ step[n] = "persist"
    /\ stored' = stored \cup {n}
    /\ Goto(n, IF n \in owned THEN "made" ELSE "check")
    /\ UNCHANGED <<index, seen, icache, owned, sts, raced, renumbered, scaling, faults>>

\* Mutants of Check: the StatefulSet grows for the index of its last replica; for
\* every index it does not refuse.
CheckLast(n) ==
    /\ step[n] = "check" /\ n \in seen
    /\ Goto(n, IF rcache < icache[n] THEN "failed"
               ELSE IF rcache = icache[n] + 1 THEN "grow" ELSE "own")
    /\ UNCHANGED <<store, sts, raced, renumbered, scaling, faults>>

CheckAnyway(n) ==
    /\ step[n] = "check" /\ n \in seen
    /\ Goto(n, IF rcache < icache[n] THEN "failed" ELSE "grow")
    /\ UNCHANGED <<store, sts, raced, renumbered, scaling, faults>>

\* handleOwnershipAndReplicas: an index above the replicas is an error that is
\* not retried; the next one grows the StatefulSet; a lower one has a pod.
Check(n) ==
    /\ step[n] = "check" /\ n \in seen
    /\ Goto(n, IF rcache < icache[n] THEN "failed"
               ELSE IF rcache = icache[n] THEN "grow" ELSE "own")
    /\ UNCHANGED <<store, sts, raced, renumbered, scaling, faults>>

\* UpdateObj adds one to the replicas it reads, which need not be the replicas
\* that were compared.
Grow(n) ==
    /\ step[n] = "grow"
    /\ replicas' = replicas + 1
    /\ Goto(n, "own")
    /\ UNCHANGED <<store, rcache, base, raced, renumbered, scaling, faults>>

SetOwner(n) ==
    /\ step[n] = "own"
    /\ owned' = owned \cup {n}
    /\ Goto(n, "done")
    /\ UNCHANGED <<stored, index, seen, icache, sts, raced, renumbered, scaling, faults>>

\* A write fails after five conflicts: the error requeues the request, and
\* Reconcile starts over; or the manager restarts and does.
StartOver(n) ==
    /\ step[n] \in {"grow", "own"} /\ faults < MaxFaults
    /\ faults' = faults + 1
    /\ Goto(n, "check")
    /\ UNCHANGED <<store, sts, raced, renumbered, scaling>>

\* An entity is deleted; its index is free again, the replicas stay.
Delete(n) ==
    /\ n \in stored /\ step[n] \in {"made", "done", "failed"}
    /\ stored' = stored \ {n}
    /\ raced' = (raced \/ Overlaps)
    /\ Goto(n, "deleted")
    /\ UNCHANGED <<index, seen, icache, owned, sts, renumbered, scaling, faults>>

\* A user changes the index of an Entity: ValidateUpdate admits any, the mutator
\* sets the label, and picks one when it is taken away.  One that failed has
\* another pass.
Renumber(n, i) ==
    /\ n \in stored \ renumbered /\ Cardinality(renumbered) < MaxRenumbered
    /\ index' = [index EXCEPT ![n] = IF i = Nil THEN FreeIndex(Listed) ELSE i]
    /\ renumbered' = renumbered \cup {n}
    /\ Goto(n, IF step[n] = "failed" THEN "check" ELSE step[n])
    /\ UNCHANGED <<stored, seen, icache, owned, sts, raced, scaling, faults>>

\* A pass of the Model that has created what it had to sets the replicas to the
\* target.  It races with requests and with workers that look at the replicas.
Scale(r) ==
    /\ ~Managing /\ scales < MaxScales
    /\ replicas' = r /\ base' = r
    /\ lowered' = (lowered \/ r < replicas) /\ scales' = scales + 1
    /\ raced' = (raced \/ \E n \in Names : step[n] \in InFlight \cup {"check", "grow"})
    /\ UNCHANGED <<store, rcache, step, renumbered, faults>>

SyncEntities ==
    /\ seen # stored \/ \E n \in stored : icache[n] # index[n]
    /\ seen' = stored
    /\ icache' = [n \in Names |-> IF n \in stored THEN index[n] ELSE Nil]
    /\ UNCHANGED <<stored, index, owned, sts, step, raced, renumbered, scaling, faults>>

SyncSts ==
    /\ rcache # replicas
    /\ rcache' = replicas
    /\ UNCHANGED <<store, replicas, base, step, raced, renumbered, scaling, faults>>

Next ==
    \/ \E n \in Names :
        \/ \E i \in Wishes \cup {Nil} : Submit(n, i) \/ Renumber(n, i)
        \/ Create(n) \/ Mutate(n) \/ Validate(n) \/ Persist(n)
        \/ Check(n) \/ Grow(n) \/ SetOwner(n) \/ StartOver(n) \/ Delete(n)
    \/ \E A \in SUBSET Names : \E f \in Injection(A, Wishes) : List(A, f)
    \/ \E r \in Targets : Scale(r)
    \/ GiveUp \/ SyncEntities \/ SyncSts

Spec == Init /\ [][Next]_vars
-----------------------------------------------------------------------------
Steps == InFlight \cup {"none", "rejected", "check", "grow", "own", "made", "done", "failed", "deleted"}

\* Types, and that every request that the mutator has answered has an index.
TypeOK ==
    /\ stored \subseteq Names /\ seen \subseteq Names /\ owned \subseteq Names
    /\ index \in [Names -> Nat \cup {Nil}]
    /\ \A n \in Names : step[n] \notin {"none", "mutate"} => index[n] # Nil
    /\ icache \in [Names -> Nat \cup {Nil}] /\ \A n \in seen : icache[n] # Nil
    /\ replicas \in Nat /\ rcache \in Nat /\ base \in Nat
    /\ step \in [Names -> Steps]
    /\ raced \in BOOLEAN /\ renumbered \subseteq Names /\ lowered \in BOOLEAN
    /\ scales \in 0..MaxScales /\ faults \in 0..MaxFaults

Unique(names) == \A m, n \in names : m # n => index[m] # index[n]

\* Requests that come one after the other, the Model's list and creates counted as
\* one, never give two entities one index, whoever made them and whichever were
\* deleted, renumbered or scaled in between: those that share one were renumbered.
CalmUnique == ~raced => Unique(stored \ renumbered)

\* While nobody renumbers an entity the StatefulSet never has a pod above what the
\* Model controller set, without an index that some entity was admitted with: the
\* workers grow it once per index, in every interleaving with each other and with
\* the Model's writes of the same replicas between their passes.
Admitted == {n \in Names : step[n] \in Steps \ (InFlight \cup {"none", "rejected"})}
CalmGrowth ==
    ~raced /\ faults = 0 /\ renumbered = {} =>
        \A r \in base..(replicas - 1) : \E n \in Admitted : index[n] = r

\* An entity that the reconciler adopted under the index it still has, has a pod or
\* will get it, however stale the StatefulSet was that it compared with and however
\* often it started over, until the Model controller lowers the replicas.
HasPod(n) == step[n] = "done" => index[n] < replicas
AdoptedHasPod == ~lowered => \A n \in Names \ renumbered : HasPod(n)

\* "ordinalIndex" as what an adopted entity was given a replica for: it keeps it,
\* also when the Model controller sets the replicas.
AdoptedKeepsPod == \A n \in Names \ renumbered : HasPod(n)

\* The validator as what keeps the indexes of calm requests apart, when one of them
\* is an update: ValidateUpdate does not look.
UpdatesKeepUnique == ~raced => Unique(stored)

\* "the OrdinalIndex already taken by another entity" is what the validator
\* rejects: no two entities share one.
IndexNotTaken == Unique(stored)

\* "the index is out of range" is what the validator rejects: it admits no entity
\* that the reconciler then refuses for its index.
AdmittedIsServed == ~raced /\ faults = 0 => \A n \in Names : step[n] # "failed"

\* "the next available replicas": an entity grows the StatefulSet only to the
\* replica of its own index.
GrowsToOwnIndex ==
    [][\A n \in Names : step[n] = "grow" /\ replicas' # replicas /\ step'[n] = "own"
        => replicas = index[n]]_vars
=============================================================================
