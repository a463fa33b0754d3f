------------------------ MODULE GroupControllerProofs -----------------------
(***************************************************************************)
(* GroupController for any entities, targets and number of edits, restarts *)
(* and faults: types, that no entity carries the label of a Group that has *)
(* no NetworkPolicy, and that a Group at rest, when no edit or restart hit *)
(* a pass, has applied its target, and entities and pods agree.  The       *)
(* policy is there because nothing is labelled before a pass has created   *)
(* it, and nothing but the deletion removes it; the target is applied      *)
(* because a Group that is not current has a pass, and a pass becomes      *)
(* idle with the target applied or with an error.                          *)
(***************************************************************************)
EXTENDS GroupController, FiniteSetTheorems, TLAPS

\* Between two API writes the pass has a copy of the Group.
Working == pc \notin {"idle", "label"} => res \in Objects

Leaving == ~group.exists \/ group.deleting

\* Reconcile deletes because the Group was marked, and a mark is never taken back.
DeletionIsMeant ==
    /\ gcache.deleting => Leaving
    /\ pc \in {"netpol", "entities", "pods"} => Leaving
    /\ pc = "finalizer" /\ res.deleting => Leaving

\* What holds until a pass has created the NetworkPolicy for the first time.
Untouched ==
    /\ labels = {} /\ lcache = {} /\ ~ncache
    /\ group.phase # "Provisoned" /\ gcache.phase # "Provisoned"
    /\ pc \in {"finalizer", "start"} => res.phase # "Provisoned"
    /\ pc \notin {"provisioned", "label"}

Guarded == Leaving \/ netpol \/ Untouched

\* A generation has one target.
Generations ==
    /\ group.observed <= group.gen /\ gcache.gen <= group.gen
    /\ gcache.gen = group.gen => gcache.target = group.target

Current(g) == g.observed = g.gen /\ g.phase = "Provisoned"

\* A Group that is not provisioned at its generation has a pass, or gets one, unless a
\* failure of a pass was not recorded.
Due ==
    ~Leaving /\ ~Current(group) =>
        pc # "idle" \/ queued \/ event \/ gcache # group \/ lost

\* Only pods that exist carry labels.
OnPods == \A e \in Provisioned : <<e, "pod">> \in labels => pod[e] # "none"

\* The label of place p is as the target asks, unless it is on a pod that is not there.
Right(p) == (p[2] = "pod" => pod[p[1]] # "none") => (p \in labels <=> group.target.add)

Members == PlacesOf(group.target.members)

\* What a pass that labels has still to do: it has labelled the members that are not
\* in todo, and visits an entity before its pod.
Labelling ==
    /\ todo \subseteq Members
    /\ \A p \in Members \ todo : Right(p)
    /\ \A e \in Provisioned : <<e, "entity">> \in todo => <<e, "pod">> \in todo

\* Entities that are no members agree with their pods.
Agree(e) == pod[e] # "none" => (<<e, "pod">> \in labels <=> <<e, "entity">> \in labels)

\* While nothing raced with a pass: one that starts has the newest generation ...
Fresh == gcache.gen # group.gen => pc = "idle" /\ ~queued

\* ... it works on the target of the Group, and what the status claims is applied.
Calm ==
    /\ pc # "idle" => res.target = group.target
    /\ pc = "label" => Labelling
    /\ \A e \in Provisioned \ group.target.members : Agree(e)
    /\ Current(group) /\ pc # "label" => \A p \in Members : Right(p)

\* A mark is put on a Group with a finalizer, is a generation, and a copy knows of no
\* finalizer that the Group does not have.
Marked ==
    /\ group.deleting => group.finalizer
    /\ (gcache.deleting => gcache.finalizer) /\ (gcache.finalizer => group.finalizer)
    /\ pc \notin {"idle", "label"} =>
          (res.deleting => res.finalizer) /\ (res.finalizer => group.finalizer)
    /\ gcache.gen = group.gen => gcache.deleting = group.deleting

\* A provisioned Group has its finalizer, and so has one that a pass works on or left.
Finalized ==
    /\ Current(group) \/ pc \in {"start", "policy", "provisioned", "label"} => group.finalizer
    /\ pc = "idle" /\ ~queued /\ ~event /\ gcache = group => group.finalizer

\* The labels that the deletion finds in the cache, or in its lists.
Found ==
    /\ \A e \in Entities : <<e, "entity">> \in labels =>
          <<e, "entity">> \in lcache /\ (pc = "entities" => <<e, "entity">> \in todo) /\ pc # "pods"
    /\ \A e \in Provisioned : <<e, "pod">> \in labels =>
          (<<e, "pod">> \in lcache \/ pod[e] = "new") /\ (pc = "pods" => <<e, "pod">> \in todo)

\* What a pass of a Group that is marked can do, and what it can know: the first one
\* finds a Group that was provisioned, the others do not read that any more.
Deleting ==
    /\ group.deleting /\ ~Current(group)
    /\ pc # "label"
    /\ pc \notin (IF group.exists THEN {"start", "policy", "provisioned"} ELSE {"netpol", "entities", "pods"})
    /\ pc = "finalizer" => res.deleting
    /\ group.phase = "Provisoned" =>
          /\ group.exists /\ ~event
          /\ (pc = "idle" /\ ~queued) \/ (gcache = group /\ pc \in {"idle", "finalizer"})
          /\ pc = "finalizer" => ~queued
    /\ group.phase # "Provisoned" /\ queued /\ gcache.exists =>
          gcache.phase # "Provisoned" \/ (pc = "idle" /\ group.exists)
    /\ ~group.exists /\ pc \in {"finalizer", "start"} => res.phase # "Provisoned"
    /\ group.exists => pc # "idle" \/ queued \/ event \/ gcache # group
    /\ ~group.exists => labels = {}

Clean == IF Leaving THEN Deleting /\ Found ELSE Finalized

IInv ==
    /\ TypeOK /\ Working /\ DeletionIsMeant /\ Guarded /\ Generations /\ Due /\ OnPods
    /\ Marked /\ (raced \/ Fresh) /\ (raced \/ lost \/ Leaving \/ Calm)
    /\ (raced \/ wentOn \/ Clean)

\* A list of entities is counted.
LEMMA Counted == ASSUME NEW S \in SUBSET Places PROVE Cardinality({p \in S : p[2] = "entity"}) \in Nat
<1> DEFINE T == {p \in S : p[2] = "entity"}
<1>1. IsFiniteSet(Provisioned)
    BY GroupAssumption, FS_Subset DEF GroupAssumption
<1>2. IsFiniteSet({"entity"}) /\ IsFiniteSet({"pod"})
    BY FS_Singleton
<1>3. IsFiniteSet(Entities \X {"entity"}) /\ IsFiniteSet(Provisioned \X {"pod"})
    BY <1>1, <1>2, GroupAssumption, FS_Product DEF GroupAssumption
<1>4. IsFiniteSet(Places)
    BY <1>3, FS_Union DEF Places
<1>5. T \in SUBSET Places
    OBVIOUS
<1>6. IsFiniteSet(T)
    BY <1>4, <1>5, FS_Subset
<1> QED BY <1>6, FS_CardinalityType

\* What the API server makes of a write: another resourceVersion at most.
LEMMA WroteKeeps ==
    ASSUME NEW h \in Objects
    PROVE  /\ Wrote(h) \in Objects
           /\ Wrote(h).exists = h.exists /\ Wrote(h).deleting = h.deleting
           /\ Wrote(h).phase = h.phase /\ Wrote(h).observed = h.observed
           /\ Wrote(h).target = h.target /\ Wrote(h).gen = h.gen
           /\ Wrote(h).finalizer = h.finalizer
<1>1. CASE h = group
    BY <1>1 DEF Wrote
<1>2. CASE h # group
    <2>1. Wrote(h) = [h EXCEPT !.rv = (h.rv + 1) % Versions]
        BY <1>2 DEF Wrote
    <2>2. (h.rv + 1) % Versions \in Nat
        BY DEF Objects, Versions
    <2> QED BY <2>1, <2>2 DEF Objects
<1> QED BY <1>1, <1>2

\* SetPhase sets the phase, and of the rest only the observed generation.
LEMMA WithPhaseKeeps ==
    ASSUME NEW h \in Objects, NEW f \in Phases
    PROVE  /\ WithPhase(h, f) \in Objects
           /\ WithPhase(h, f).exists = h.exists /\ WithPhase(h, f).deleting = h.deleting
           /\ WithPhase(h, f).phase = f
           /\ WithPhase(h, f).target = h.target /\ WithPhase(h, f).gen = h.gen
           /\ WithPhase(h, f).finalizer = h.finalizer
           /\ WithPhase(h, f).observed = (IF f = "Provisoned" THEN h.gen ELSE h.observed)
<1>1. CASE f = "Provisoned"
    BY <1>1 DEF WithPhase, Objects
<1>2. CASE f # "Provisoned"
    BY <1>2 DEF WithPhase, Objects
<1> QED BY <1>1, <1>2

\* UpdateStatus of a phase, and ErrorDelegateHandler, leave the marks of the object.
LEMMA PhaseSet ==
    ASSUME group \in Objects, NEW f \in Phases, SetPhase(f)
    PROVE  /\ group' \in Objects /\ group.exists
           /\ group'.exists = group.exists /\ group'.deleting = group.deleting
           /\ group'.phase = f
           /\ group'.target = group.target /\ group'.gen = group.gen
           /\ group'.finalizer = group.finalizer
           /\ group'.observed = (IF f = "Provisoned" THEN group.gen ELSE group.observed)
<1>1. WithPhase(group, f) \in Objects
    BY WithPhaseKeeps
<1>2. group.exists /\ group' = Wrote(WithPhase(group, f))
    BY DEF SetPhase, SetStatus
<1> DEFINE h == WithPhase(group, f)
<1>3. /\ h \in Objects /\ h.exists = group.exists /\ h.deleting = group.deleting /\ h.phase = f
      /\ h.target = group.target /\ h.gen = group.gen /\ h.finalizer = group.finalizer
      /\ h.observed = (IF f = "Provisoned" THEN group.gen ELSE group.observed)
    BY WithPhaseKeeps
<1>4. group' = Wrote(h)
    BY <1>2
<1> HIDE DEF h
<1> QED BY <1>2, <1>3, <1>4, WroteKeeps

LEMMA FailedSet ==
    ASSUME group \in Objects, SetFailed
    PROVE  /\ group' \in Objects
           /\ group'.exists = group.exists /\ group'.deleting = group.deleting
           /\ group' = group \/ group'.phase = "Failed"
           /\ group.exists => group'.phase = "Failed"
           /\ group'.target = group.target /\ group'.gen = group.gen
           /\ group'.finalizer = group.finalizer
           /\ group'.observed = group.observed
           /\ event' \in BOOLEAN /\ pc' = "idle" /\ res' = Nothing /\ todo' = {}
<1>1. event' = group.exists /\ group.exists \in BOOLEAN /\ "Failed" \in Phases
    BY DEF SetFailed, Objects, Phases
<1>2. pc' = "idle" /\ res' = Nothing /\ todo' = {}
    BY DEF SetFailed, Return
<1>3. CASE group.exists
    BY <1>1, <1>2, <1>3, PhaseSet DEF SetFailed
<1>4. CASE ~group.exists
    BY <1>1, <1>2, <1>4 DEF SetFailed
<1> QED BY <1>3, <1>4

\* A new generation is an edit or a mark; otherwise the target stays, and the Group
\* is current if it was before or a pass claims it.
Edited ==
    /\ group'.gen = group.gen + 1 /\ group'.observed = group.observed /\ gcache' = gcache
    /\ Delete \/ \E t \in Targets : Edit(t)
Unedited ==
    /\ group'.target = group.target /\ group'.gen = group.gen /\ group'.deleting = group.deleting
    /\ group'.observed \in {group.observed, group.gen}
    /\ Current(group') => Current(group) \/ pc = "provisioned" \/ (pc = "label" /\ todo = {})

\* A Group that is gone or marked stays so, and only a pass that found or created
\* the policy calls the Group provisioned.
Moves ==
    /\ group' \in Objects
    /\ group'.exists => group.exists
    /\ group.deleting => group'.deleting
    /\ Leaving' => Leaving \/ Delete \/ pc = "pods"
    /\ group.finalizer => group'.finalizer
    /\ group'.deleting => group.deleting \/ group'.finalizer
    /\ group'.phase = "Provisoned" => group.phase = "Provisoned" \/ pc \in {"provisioned", "label"}
    /\ Edited \/ Unedited

LEMMA PhaseMoves ==
    ASSUME group \in Objects, NEW f \in Phases, SetPhase(f), f # "Provisoned" \/ pc = "provisioned"
    PROVE  Moves
<1>1. Unedited
    BY PhaseSet DEF Unedited, Current
<1> QED BY <1>1, PhaseSet DEF Moves, Leaving

LEMMA Gone ==
    ASSUME group \in Objects, group' = Wrote([group EXCEPT !.exists = FALSE]), Delete \/ pc = "pods"
    PROVE  Moves
<1> DEFINE h == [group EXCEPT !.exists = FALSE]
<1>1. /\ h \in Objects /\ ~h.exists /\ h.deleting = group.deleting /\ h.phase = group.phase
      /\ h.target = group.target /\ h.gen = group.gen /\ h.observed = group.observed
      /\ h.finalizer = group.finalizer
    BY DEF Objects
<1> HIDE DEF h
<1>2. group' = Wrote(h)
    BY DEF h
<1>3. Unedited
    BY <1>1, <1>2, WroteKeeps DEF Unedited, Current
<1> QED BY <1>1, <1>2, <1>3, WroteKeeps DEF Moves, Leaving

LEMMA GroupMoves == TypeOK /\ [Next]_vars => Moves
<1> SUFFICES ASSUME TypeOK, [Next]_vars PROVE Moves
    OBVIOUS
<1>t. group \in Objects
    BY DEF TypeOK
<1>g. group.gen + 1 \in Nat
    BY <1>t DEF Objects
<1>0. CASE group' = group
    BY <1>t, <1>0 DEF Moves, Unedited, Leaving
<1>f. CASE SetFailed
    <2>1. Unedited
        BY <1>t, <1>f, FailedSet DEF Unedited, Current
    <2>2. group' = group \/ group'.phase = "Failed"
        BY <1>t, <1>f, FailedSet
    <2> QED BY <1>t, <1>f, <1>0, <2>1, <2>2, FailedSet DEF Moves, Leaving
<1>1. CASE AddFinalizer
    <2> DEFINE h == [group EXCEPT !.finalizer = TRUE]
    <2>1. /\ h \in Objects /\ h.exists = group.exists /\ h.deleting = group.deleting
          /\ h.phase = group.phase /\ h.target = group.target /\ h.gen = group.gen
          /\ h.observed = group.observed /\ h.finalizer
        BY <1>t DEF Objects
    <2>2. CASE group' = Wrote(h)
        <3> HIDE DEF h
        <3>1. Unedited
            BY <2>1, <2>2, WroteKeeps DEF Unedited, Current
        <3> QED BY <2>1, <2>2, <3>1, WroteKeeps DEF Moves, Leaving
    <2> QED BY <1>1, <1>f, <2>2 DEF AddFinalizer
<1>2. CASE MarkDeleting
    BY <1>t, <1>2, PhaseMoves DEF MarkDeleting, Phases
<1>3. CASE RemoveFinalizer
    BY <1>3, <1>f, <1>t, Gone DEF RemoveFinalizer
<1>4. CASE Start
    BY <1>t, <1>4, <1>0, PhaseMoves DEF Start, Phases
<1>5. CASE PolicyExists \/ PodMissing \/ Fail
    BY <1>5, <1>f DEF PolicyExists, PodMissing, Fail
<1>6. CASE MarkProvisioned
    BY <1>t, <1>6, PhaseMoves DEF MarkProvisioned, Phases
<1>7. CASE Finish
    <2> DEFINE n == Cardinality({p \in lcache : p[2] = "entity"})
               h == WithPhase(group, "Provisoned")
               k == [h EXCEPT !.total = n]
    <2>1. /\ h \in Objects /\ h.exists = group.exists /\ h.deleting = group.deleting
          /\ h.target = group.target /\ h.gen = group.gen /\ h.observed = group.gen
          /\ h.finalizer = group.finalizer
        BY <1>t, WithPhaseKeeps DEF Phases
    <2>2. n \in Nat
        BY Counted DEF TypeOK
    <2>4. pc = "label" /\ todo = {} /\ group' = Wrote(k)
        BY <1>7 DEF Finish, SetStatus
    <2> HIDE DEF n, h
    <2>3. /\ k \in Objects /\ k.exists = group.exists /\ k.deleting = group.deleting
          /\ k.target = group.target /\ k.gen = group.gen /\ k.observed = group.gen
          /\ k.finalizer = group.finalizer
        BY <2>1, <2>2 DEF Objects
    <2> HIDE DEF k
    <2>5. Unedited
        BY <2>3, <2>4, WroteKeeps DEF Unedited
    <2> QED BY <2>3, <2>4, <2>5, WroteKeeps DEF Moves, Leaving
<1>8. CASE FinalizerFails
    BY <1>t, <1>8, <1>0, PhaseMoves DEF FinalizerFails, Phases
<1>9. ASSUME NEW t \in Targets, Edit(t) PROVE Moves
    <2> DEFINE h == [group EXCEPT !.target = t, !.gen = group.gen + 1]
    <2>1. /\ h \in Objects /\ h.exists = group.exists /\ h.deleting = group.deleting
          /\ h.phase = group.phase /\ h.gen = group.gen + 1 /\ h.observed = group.observed
          /\ h.finalizer = group.finalizer
        BY <1>t, <1>g DEF Objects
    <2>2. group' = Wrote(h) /\ gcache' = gcache
        BY <1>9 DEF Edit, caches
    <2> HIDE DEF h
    <2>3. Edited
        BY <1>9, <2>1, <2>2, WroteKeeps DEF Edited
    <2> QED BY <2>1, <2>2, <2>3, WroteKeeps DEF Moves, Leaving
<1>10. CASE Delete
    <2> DEFINE h == [group EXCEPT !.deleting = TRUE, !.gen = group.gen + 1]
    <2>1. /\ h \in Objects /\ h.exists = group.exists /\ h.deleting
          /\ h.phase = group.phase /\ h.gen = group.gen + 1 /\ h.observed = group.observed
          /\ h.finalizer = group.finalizer
        BY <1>t, <1>g DEF Objects
    <2>2. CASE group.finalizer /\ group' = Wrote(h)
        <3>1. gcache' = gcache
            BY <1>10 DEF Delete, caches
        <3> HIDE DEF h
        <3>2. Edited
            BY <1>10, <2>1, <2>2, <3>1, WroteKeeps DEF Edited
        <3> QED BY <1>10, <2>1, <2>2, <3>2, WroteKeeps DEF Moves, Leaving
    <2>3. CASE group' = Wrote([group EXCEPT !.exists = FALSE])
        BY <1>10, <2>3, <1>t, Gone
    <2> QED BY <1>10, <2>2, <2>3 DEF Delete
<1>11. CASE Begin \/ DeletePolicy \/ PolicyMissing \/ ListPods \/ CreatePolicy \/ StripFails
            \/ (\E p \in Places : Strip(p) \/ Label(p)) \/ FailedLost \/ DeletionFails
            \/ SyncGroup \/ SyncOthers \/ Restart \/ (\E e \in Provisioned : PodComes(e) \/ PodGoes(e) \/ Ready(e))
            \/ UNCHANGED vars
    <2>1. group' = group
        BY <1>11 DEF Begin, DeletePolicy, PolicyMissing, ListPods, CreatePolicy, StripFails, Strip,
                     Label, FailedLost, DeletionFails, SyncGroup, SyncOthers, Restart, PodComes, PodGoes,
                     Ready, vars, store
    <2> QED BY <1>0, <2>1
<1> QED
    BY <1>1, <1>2, <1>3, <1>4, <1>5, <1>6, <1>7, <1>8, <1>9, <1>10, <1>11 DEF Next, Reconcile

\* What Finish, Edit and Delete make of the Group.
LEMMA Finished ==
    ASSUME group \in Objects, lcache \subseteq Places, Finish PROVE Current(group')
<1> DEFINE n == Cardinality({p \in lcache : p[2] = "entity"})
           h == WithPhase(group, "Provisoned")
           k == [h EXCEPT !.total = n]
<1>1. h \in Objects /\ h.gen = group.gen /\ h.observed = group.gen /\ h.phase = "Provisoned"
    BY WithPhaseKeeps DEF Phases
<1>2. n \in Nat
    BY Counted
<1>3. group' = Wrote(k)
    BY DEF Finish, SetStatus
<1> HIDE DEF n, h
<1>4. k \in Objects /\ k.gen = k.observed /\ k.phase = "Provisoned"
    BY <1>1, <1>2 DEF Objects
<1> HIDE DEF k
<1> QED BY <1>3, <1>4, WroteKeeps DEF Current

LEMMA EditMoves ==
    ASSUME group \in Objects, NEW t \in Targets, Edit(t)
    PROVE  group'.gen = group.gen + 1 /\ group'.target = t /\ group'.observed = group.observed
<1> DEFINE h == [group EXCEPT !.target = t, !.gen = group.gen + 1]
<1>0. group.gen + 1 \in Nat
    BY DEF Objects
<1>1. /\ h \in Objects /\ h.gen = group.gen + 1 /\ h.target = t /\ h.observed = group.observed
    BY <1>0 DEF Objects
<1>2. group' = Wrote(h)
    BY DEF Edit
<1> HIDE DEF h
<1> QED BY <1>1, <1>2, WroteKeeps

LEMMA DeleteLeaves == ASSUME group \in Objects, Delete PROVE Leaving'
<1> DEFINE h == [group EXCEPT !.deleting = TRUE, !.gen = group.gen + 1]
           k == [group EXCEPT !.exists = FALSE]
<1>1. group' = Wrote(h) \/ group' = Wrote(k)
    BY DEF Delete
<1>0. group.gen + 1 \in Nat
    BY DEF Objects
<1>2. h \in Objects /\ k \in Objects /\ h.deleting /\ ~k.exists
    BY <1>0 DEF Objects
<1> HIDE DEF h, k
<1> QED BY <1>1, <1>2, WroteKeeps DEF Leaving

\* What was lost is remembered.
LEMMA LostStays == [Next]_vars => (lost => lost')
<1> SUFFICES ASSUME [Next]_vars, lost PROVE lost'
    OBVIOUS
<1>1. CASE FailedLost
    BY ONLY <1>1, lost, Zenon DEF FailedLost
<1>2. CASE ~FailedLost
    BY <1>2 DEF Next, Reconcile, Begin, AddFinalizer, MarkDeleting, DeletePolicy, PolicyMissing, ListPods,
             RemoveFinalizer, Start, CreatePolicy, PolicyExists, MarkProvisioned, PodMissing,
             StripFails, Finish, Strip, Label, FinalizerFails, Fail, DeletionFails, SyncGroup,
             SyncOthers, Edit, Delete, Restart, PodComes, PodGoes, Ready, vars, bounds
<1> QED BY <1>1, <1>2

\* The informer's copy is the old one or the Group, and races are remembered.
LEMMA CacheMoves ==
    [Next]_vars => gcache' \in {gcache, group'} /\ (raced => raced')
<1> SUFFICES ASSUME [Next]_vars PROVE gcache' \in {gcache, group'} /\ (raced => raced')
    OBVIOUS
<1> USE DEF caches, bounds
<1>1. CASE SyncGroup
    BY <1>1 DEF SyncGroup, store
<1>3. CASE Restart
    <2>1. gcache' = group /\ group' = group
        BY <1>3 DEF Restart
    <2>2. raced => raced'
        BY ONLY <1>3, Zenon DEF Restart
    <2> QED BY <2>1, <2>2
<1>2. CASE ~(SyncGroup \/ Restart)
    <2>1. gcache' = gcache
        BY <1>2 DEF Next, Reconcile, Begin, AddFinalizer, MarkDeleting, DeletePolicy, PolicyMissing,
                    ListPods, RemoveFinalizer, Start, CreatePolicy, PolicyExists, MarkProvisioned,
                    PodMissing, StripFails, Finish, Strip, Label, FinalizerFails, Fail, FailedLost,
                    DeletionFails, SyncOthers, Edit, Delete, PodComes, PodGoes, Ready, vars
    <2> DEFINE Racing == \/ ListPods \/ (\E p \in Places : Label(p)) \/ Delete
                         \/ (\E t \in Targets : Edit(t)) \/ \E e \in Provisioned : PodComes(e)
    <2>2. CASE Racing
        <3>1. ListPods \/ Delete => (raced => raced')
            BY ONLY Zenon DEF ListPods, Delete
        <3>2. ASSUME NEW p \in Places, Label(p) PROVE raced => raced'
            BY ONLY <3>2, Zenon DEF Label
        <3>3. ASSUME NEW t \in Targets, Edit(t) PROVE raced => raced'
            BY ONLY <3>3, Zenon DEF Edit
        <3>4. ASSUME NEW e \in Provisioned, PodComes(e) PROVE raced => raced'
            BY ONLY <3>4, Zenon DEF PodComes
        <3> QED BY <2>1, <2>2, <3>1, <3>2, <3>3, <3>4
    <2>3. CASE ~Racing
        <3>1. raced' = raced
            BY <1>2, <2>3 DEF Next, Reconcile, Begin, AddFinalizer, MarkDeleting, DeletePolicy,
                       PolicyMissing, RemoveFinalizer, Start, CreatePolicy, PolicyExists,
                       MarkProvisioned, PodMissing, StripFails, Finish, Strip, FinalizerFails, Fail, FailedLost,
                       DeletionFails, SyncOthers, PodGoes, Ready, vars
        <3> QED BY <2>1, <3>1
    <2> QED BY <2>1, <2>2, <2>3
<1> QED BY <1>1, <1>2, <1>3

\* Types are kept; the pass's copy is one of the Group until its targets are resolved.
LEMMA TypeStep == TypeOK /\ Working /\ [Next]_vars => TypeOK' /\ Working'
<1> SUFFICES ASSUME TypeOK, Working, [Next]_vars PROVE TypeOK' /\ Working'
    OBVIOUS
<1>g. group' \in Objects /\ group \in Objects
    BY GroupMoves DEF Moves, TypeOK
<1>b. group.exists \in BOOLEAN
    BY <1>g DEF Objects
<1>n. /\ MaxEdits \in Nat /\ MaxRestarts \in Nat /\ MaxFaults \in Nat
      /\ \A f \in 0..MaxFaults : f < MaxFaults => f + 1 \in 0..MaxFaults
    BY GroupAssumption DEF GroupAssumption
<1> USE DEF TypeOK, Working, caches, pods, store, worker, bounds
<1>1. CASE Begin
    BY <1>1 DEF Begin
<1>2. CASE AddFinalizer
    <2>1. CASE SetFailed
        BY <1>g, <1>2, <2>1, FailedSet DEF AddFinalizer
    <2>2. CASE Go("start")
        BY <1>g, <1>2, <2>2 DEF AddFinalizer, Go, SetFailed
    <2> QED BY <1>2, <2>1, <2>2 DEF AddFinalizer
<1>3. CASE MarkDeleting
    BY <1>g, <1>3 DEF MarkDeleting, Go
<1>4. CASE DeletePolicy
    BY <1>4 DEF DeletePolicy
<1>5. CASE PolicyMissing \/ StripFails \/ DeletionFails
    BY <1>n, <1>5 DEF PolicyMissing, StripFails, DeletionFails, Return
<1>6. CASE ListPods
    BY <1>6 DEF ListPods
<1>7. CASE RemoveFinalizer
    <2>1. CASE SetFailed
        BY <1>g, <1>7, <2>1, FailedSet DEF RemoveFinalizer
    <2>2. CASE pc' = "policy" /\ UNCHANGED <<res, todo, queued, event>>
        BY <1>g, <1>7, <2>2 DEF RemoveFinalizer
    <2> QED BY <1>7, <2>1, <2>2 DEF RemoveFinalizer
<1>8. CASE Start
    <2>t. res \in Objects
        BY <1>8 DEF Start, AtStart
    <2>1. CASE Go("policy")
        BY <1>g, <1>8, <2>1 DEF Start, Go
    <2>2. CASE ResolveTargets(res)
        <3>1. todo' \subseteq Places /\ pc' = "label"
            BY <2>2 DEF ResolveTargets, PlacesOf
        <3>2. res' \in [target : Targets]
            BY <2>2, <2>t DEF ResolveTargets, Objects
        <3> QED BY <1>g, <1>8, <3>1, <3>2 DEF Start
    <2>3. CASE pc' = "policy" /\ UNCHANGED <<group, res, todo>>
        BY <1>8, <2>3, <2>t DEF Start
    <2> QED BY <1>8, <2>1, <2>2, <2>3 DEF Start
<1>9. CASE CreatePolicy
    BY <1>9 DEF CreatePolicy
<1>10. CASE PolicyExists \/ PodMissing
    BY <1>g, <1>10, FailedSet DEF PolicyExists, PodMissing
<1>11. CASE MarkProvisioned
    <2>1. todo' \subseteq Places /\ pc' = "label"
        BY <1>11 DEF MarkProvisioned, ResolveTargets, PlacesOf
    <2>2. res' \in [target : Targets]
        BY <1>g, <1>11 DEF MarkProvisioned, ResolveTargets, Objects
    <2> QED BY <1>g, <1>11, <2>1, <2>2 DEF MarkProvisioned
<1>12. CASE Finish
    BY <1>g, <1>12 DEF Finish, Return
<1>13. ASSUME NEW p \in Places, Strip(p) PROVE TypeOK' /\ Working'
    BY <1>13 DEF Strip
<1>14. ASSUME NEW p \in Places, Label(p) PROVE TypeOK' /\ Working'
    <2>1. labels' \subseteq Places
        BY <1>14 DEF Label
    <2>2. raced' \in BOOLEAN
        BY <1>14 DEF Label
    <2>3. todo' \subseteq Places /\ (res' = res \/ res' = Nothing) /\ pc' \in {"label", "idle"}
        BY <1>14 DEF Label, Return
    <2> QED BY <1>g, <1>14, <2>1, <2>2, <2>3 DEF Label
<1>15. CASE FinalizerFails
    <2>1. CASE group.exists
        <3>1. res \in Objects /\ "Failed" \in Phases
            BY <1>15 DEF FinalizerFails, Phases
        <3>2. WithPhase(gcache, "Failed") \in Objects
            BY <3>1, WithPhaseKeeps
        <3>3. res' \in Objects /\ event' \in BOOLEAN
            BY <1>g, <1>15, <2>1, <3>1, <3>2 DEF FinalizerFails
        <3>4. faults' \in 0..MaxFaults /\ wentOn' \in BOOLEAN
            BY <1>n, <1>15, <2>1 DEF FinalizerFails
        <3>5. pc' = "start" /\ UNCHANGED <<labels, netpol, pods, caches, todo, queued, raced, lost, edits, restarts>>
            BY <1>15 DEF FinalizerFails
        <3> QED BY <1>g, <3>3, <3>4, <3>5
    <2>2. CASE ~group.exists
        <3>1. \A f \in Phases : WithPhase(res, f) \in Objects
            BY <1>15, WithPhaseKeeps DEF FinalizerFails
        <3>2. res.phase \in Phases
            BY <1>15 DEF FinalizerFails, Objects
        <3>7. res' \in {WithPhase(res, f) : f \in {res.phase, "Deleting", "Failed"}}
            BY ONLY <1>15, <2>2 DEF FinalizerFails, SetPhase, SetStatus
        <3>3. res' \in Objects
            BY <3>1, <3>2, <3>7 DEF Phases
        <3>4. event' \in BOOLEAN /\ faults' \in 0..MaxFaults
            BY <1>b, <1>15, <2>2 DEF FinalizerFails
        <3>5. pc' = "start" /\ UNCHANGED <<labels, netpol, pods, caches, todo, queued, raced, lost, edits, restarts>>
            BY <1>15 DEF FinalizerFails
        <3>6. wentOn' \in BOOLEAN
            BY <1>15 DEF FinalizerFails
        <3> QED BY <1>g, <3>3, <3>4, <3>5, <3>6
    <2> QED BY <2>1, <2>2
<1>16. CASE Fail
    <2>1. faults' \in 0..MaxFaults
        BY <1>n, <1>16 DEF Fail
    <2>2. queued' \in BOOLEAN
        BY ONLY <1>b, <1>16, TypeOK, Zenon DEF Fail, TypeOK
    <2> QED BY <1>g, <1>16, <2>1, <2>2, FailedSet DEF Fail
<1>24. CASE FailedLost
    <2>1. faults' \in 0..MaxFaults
        BY <1>n, <1>24 DEF FailedLost
    <2>2. queued' \in BOOLEAN /\ lost' \in BOOLEAN
        BY ONLY <1>24, TypeOK, Zenon DEF FailedLost, TypeOK
    <2> QED BY <1>g, <1>24, <2>1, <2>2 DEF FailedLost, Return
<1>17. CASE SyncGroup
    BY <1>17 DEF SyncGroup
<1>18. CASE SyncOthers
    BY <1>18 DEF SyncOthers, Seen
<1>19. ASSUME NEW t \in Targets, Edit(t) PROVE TypeOK' /\ Working'
    BY <1>g, <1>n, <1>19 DEF Edit
<1>20. CASE Delete
    BY <1>g, <1>n, <1>20 DEF Delete
<1>21. CASE Restart
    <2>0. restarts' \in 0..MaxRestarts
        BY <1>n, <1>21 DEF Restart
    <2>1. queued' \in BOOLEAN /\ event' \in BOOLEAN
        BY ONLY <1>b, <1>21 DEF Restart
    <2>2. pod' \in [Provisioned -> {"none", "new", "seen"}]
        BY <1>21 DEF Restart, Seen
    <2>3. pc' = "idle" /\ res' = Nothing /\ todo' = {}
        BY <1>21 DEF Restart, Return
    <2>4. raced' \in BOOLEAN /\ wentOn' \in BOOLEAN /\ lost' \in BOOLEAN
        BY <1>21 DEF Restart
    <2> QED BY <1>g, <1>21, <2>0, <2>1, <2>2, <2>3, <2>4 DEF Restart
<1>22. ASSUME NEW e \in Provisioned, PodComes(e) \/ PodGoes(e) \/ Ready(e) PROVE TypeOK' /\ Working'
    <2>1. <<e, "pod">> \in Places
        BY DEF Places
    <2>2. CASE PodComes(e)
        BY <2>1, <2>2 DEF PodComes
    <2>3. CASE PodGoes(e)
        BY <1>n, <2>3 DEF PodGoes
    <2>4. CASE Ready(e)
        BY <2>4 DEF Ready
    <2> QED BY <1>22, <2>2, <2>3, <2>4
<1>23. CASE UNCHANGED vars
    BY <1>23 DEF vars
<1> QED
    BY <1>1, <1>2, <1>3, <1>4, <1>5, <1>6, <1>7, <1>8, <1>9, <1>10, <1>11, <1>12, <1>13, <1>14,
       <1>15, <1>16, <1>17, <1>18, <1>19, <1>20, <1>21, <1>22, <1>23, <1>24 DEF Next, Reconcile

\* A deletion is carried out only for a Group that is marked, or gone since.
LEMMA MeantStep == TypeOK /\ Working /\ DeletionIsMeant /\ [Next]_vars => DeletionIsMeant'
<1> SUFFICES ASSUME TypeOK, Working, DeletionIsMeant, [Next]_vars PROVE DeletionIsMeant'
    OBVIOUS
<1>l. Leaving => Leaving'
    BY GroupMoves DEF Moves, Leaving
<1>d. \A h \in {group, group'} : h.deleting => Leaving'
    BY GroupMoves DEF Moves, Leaving
<1>1. CASE Begin
    BY <1>1, <1>l DEF Begin, DeletionIsMeant, caches
<1>2. CASE AddFinalizer \/ RemoveFinalizer
    <2>1. CASE SetFailed
        BY <1>2, <2>1, <1>l DEF AddFinalizer, RemoveFinalizer, SetFailed, Return, DeletionIsMeant, caches
    <2>2. CASE pc' \in {"start", "policy"}
        BY <1>2, <2>2, <1>l DEF AddFinalizer, RemoveFinalizer, DeletionIsMeant, caches
    <2> QED BY <1>2, <2>1, <2>2 DEF AddFinalizer, RemoveFinalizer, Go
<1>3. CASE MarkDeleting
    BY <1>3, <1>l DEF MarkDeleting, Go, DeletionIsMeant, caches
<1>4. CASE DeletePolicy \/ ListPods
    BY <1>4, <1>l DEF DeletePolicy, ListPods, DeletionIsMeant, caches
<1>5. CASE PolicyMissing \/ StripFails \/ DeletionFails \/ FailedLost
    BY <1>5, <1>l DEF PolicyMissing, StripFails, DeletionFails, FailedLost, Return, DeletionIsMeant, caches
<1>6. CASE Start \/ CreatePolicy \/ MarkProvisioned
    <2>1. pc' \in {"policy", "label", "provisioned"} /\ UNCHANGED gcache
        BY <1>6 DEF Start, Go, ResolveTargets, CreatePolicy, MarkProvisioned, caches
    <2> QED BY <1>l, <2>1 DEF DeletionIsMeant
<1>7. CASE PolicyExists \/ PodMissing \/ Fail
    BY <1>7, <1>l DEF PolicyExists, PodMissing, Fail, SetFailed, Return, DeletionIsMeant, caches
<1>8. CASE Finish
    BY <1>8, <1>l DEF Finish, Return, DeletionIsMeant, caches
<1>9. ASSUME NEW p \in Places, Strip(p) \/ Label(p) PROVE DeletionIsMeant'
    <2>1. UNCHANGED gcache /\ (pc' = pc \/ pc' = "idle") /\ (pc = "label" \/ res' = res)
        BY <1>9 DEF Strip, Label, Return, caches
    <2>2. pc \in {"entities", "pods", "label"}
        BY <1>9 DEF Strip, Label
    <2> QED BY <1>l, <2>1, <2>2 DEF DeletionIsMeant
<1>10. CASE FinalizerFails
    BY <1>10, <1>l DEF FinalizerFails, DeletionIsMeant, caches
<1>11. CASE SyncGroup
    BY <1>11, <1>l, <1>d DEF SyncGroup, DeletionIsMeant, worker
<1>12. CASE Restart
    BY <1>12, <1>l, <1>d DEF Restart, Return, DeletionIsMeant
<1>13. CASE UNCHANGED <<gcache, pc, res>>
    BY <1>13, <1>l DEF DeletionIsMeant
<1>14. CASE SyncOthers \/ (\E t \in Targets : Edit(t)) \/ Delete \/ UNCHANGED vars
            \/ (\E e \in Provisioned : PodComes(e) \/ PodGoes(e) \/ Ready(e))
    <2>1. UNCHANGED <<gcache, pc, res>>
        BY <1>14 DEF SyncOthers, Edit, Delete, PodComes, PodGoes, Ready, worker, caches, vars
    <2> QED BY <1>13, <2>1
<1> QED
    BY <1>1, <1>2, <1>3, <1>4, <1>5, <1>6, <1>7, <1>8, <1>9, <1>10, <1>11, <1>12, <1>14
       DEF Next, Reconcile

\* The policy is created before anything is labelled, and only a deletion removes it.
LEMMA GuardedStep == TypeOK /\ DeletionIsMeant /\ Guarded /\ [Next]_vars => Guarded'
<1> SUFFICES ASSUME TypeOK, DeletionIsMeant, Guarded, ~Leaving', [Next]_vars
             PROVE  netpol' \/ Untouched'
    BY DEF Guarded
<1>m. ~Leaving /\ Moves
    BY GroupMoves DEF Moves, Leaving
<1>i. netpol \/ Untouched
    BY <1>m DEF Guarded
<1>e. pc \notin {"netpol", "entities", "pods"} /\ (pc = "finalizer" => ~res.deleting) /\ group'.exists
    BY <1>m DEF DeletionIsMeant, Leaving
<1>1. CASE netpol /\ (netpol' = netpol)
    BY <1>1
<1>2. CASE DeletePolicy \/ PolicyMissing \/ ListPods \/ RemoveFinalizer \/ StripFails \/ DeletionFails
            \/ \E p \in Places : Strip(p)
    BY <1>2, <1>e DEF DeletePolicy, PolicyMissing, ListPods, RemoveFinalizer, StripFails,
                      DeletionFails, Strip
<1>3. CASE CreatePolicy
    BY <1>3, <1>i DEF CreatePolicy, Untouched, TypeOK
<1>4. CASE netpol /\ ~(\/ DeletePolicy \/ CreatePolicy)
    <2>1. netpol' = netpol
        BY <1>4 DEF Next, Reconcile, Begin, AddFinalizer, MarkDeleting, PolicyMissing, ListPods,
                    RemoveFinalizer, Start, PolicyExists, MarkProvisioned, PodMissing, StripFails,
                    Finish, Strip, Label, FinalizerFails, Fail, FailedLost, DeletionFails, SyncGroup,
                    SyncOthers, Edit, Delete, Restart, PodComes, PodGoes, Ready, vars, store
    <2> QED BY <1>4, <2>1
<1>5. ASSUME Untouched PROVE netpol' \/ Untouched'
    <2>g. group'.phase # "Provisoned"
        BY <1>5, <1>m DEF Moves, Untouched
    <2>n. pc \notin {"provisioned", "label"}
        BY <1>5 DEF Untouched
    <2>1. CASE Begin
        BY <1>5, <2>1, <2>g DEF Begin, Untouched, store, caches, pods
    <2>2. CASE AddFinalizer
        <3>1. (pc' = "start" /\ res' = group') \/ pc' = "idle"
            BY <2>2 DEF AddFinalizer, Go, SetFailed, Return
        <3> QED BY <1>5, <2>2, <2>g, <3>1 DEF AddFinalizer, Untouched, caches
    <2>3. CASE MarkDeleting
        BY <1>5, <2>3, <2>g DEF MarkDeleting, Go, Untouched, caches
    <2>4. CASE Start
        <3>1. res.phase # "Provisoned"
            BY <1>5, <2>4 DEF Start, AtStart, Untouched
        <3>2. pc' = "policy"
            BY <2>4, <3>1 DEF Start, Go
        <3> QED BY <1>5, <2>4, <2>g, <3>2 DEF Start, Untouched, caches
    <2>5. CASE PolicyExists \/ PodMissing \/ Fail \/ FailedLost
        BY <1>5, <2>5, <2>g DEF PolicyExists, PodMissing, Fail, FailedLost, SetFailed, Return, Untouched,
                                caches, store
    <2>6. CASE FinalizerFails
        <3>1. res' \in {group', res, WithPhase(gcache, "Failed")} /\ pc = "finalizer" /\ pc' = "start"
            BY <2>6, <1>m, <1>e DEF FinalizerFails, Leaving
        <3>2. WithPhase(gcache, "Failed").phase = "Failed"
            BY WithPhaseKeeps DEF TypeOK, Phases
        <3>3. res'.phase # "Provisoned"
            BY <1>5, <2>g, <3>1, <3>2 DEF Untouched
        <3> QED BY <1>5, <2>6, <2>g, <3>1, <3>3 DEF FinalizerFails, Untouched, caches
    <2>7. CASE SyncGroup
        BY <1>5, <2>7, <2>g DEF SyncGroup, Untouched, store, worker
    <2>8. CASE SyncOthers
        BY <1>5, <2>8, <2>g DEF SyncOthers, Untouched, worker
    <2>9. ASSUME NEW e \in Provisioned, PodComes(e) \/ PodGoes(e) \/ Ready(e) PROVE Untouched'
        BY <1>5, <2>9, <2>g DEF PodComes, PodGoes, Ready, Untouched, caches, worker
    <2>10. CASE Delete \/ \E t \in Targets : Edit(t)
        BY <1>5, <2>10, <2>g DEF Delete, Edit, Untouched, caches, worker
    <2>11. CASE Restart
        BY <1>5, <2>11, <2>g DEF Restart, Return, Untouched
    <2>12. CASE UNCHANGED vars
        BY <1>5, <2>12 DEF vars, Untouched, store, caches, pods, worker
    <2>13. CASE MarkProvisioned \/ Finish \/ \E p \in Places : Label(p)
        BY <2>13, <2>n DEF MarkProvisioned, Finish, Label
    <2> QED
        BY <1>2, <1>3, <2>1, <2>2, <2>3, <2>4, <2>5, <2>6, <2>7, <2>8, <2>9, <2>10, <2>11, <2>12,
           <2>13 DEF Next, Reconcile
<1> QED BY <1>i, <1>2, <1>3, <1>4, <1>5

LEMMA InitHolds == Init => IInv
<1> SUFFICES ASSUME Init PROVE IInv
    OBVIOUS
<1>1. /\ group \in Objects /\ group.exists /\ group.phase = "" /\ group.deleting = FALSE
      /\ group.gen = 1 /\ group.observed = 0
    <2>1. PICK t \in Targets :
            group = [exists |-> TRUE, deleting |-> FALSE, finalizer |-> FALSE, gen |-> 1, rv |-> 1,
                     target |-> t, phase |-> "", observed |-> 0, total |-> 0]
        BY DEF Init
    <2>2. "" \in Phases
        BY DEF Phases
    <2> QED BY <2>1, <2>2 DEF Objects
<1>2. /\ labels = {} /\ lcache = {} /\ todo = {} /\ netpol = FALSE /\ ncache = FALSE
      /\ gcache = group /\ res = Nothing /\ pc = "idle"
    BY DEF Init
<1>3. /\ pod \in [Provisioned -> {"none", "new", "seen"}] /\ ready \subseteq Provisioned
      /\ queued \in BOOLEAN /\ event \in BOOLEAN /\ raced \in BOOLEAN /\ wentOn \in BOOLEAN
      /\ lost \in BOOLEAN
    BY DEF Init
<1>4. edits \in 0..MaxEdits /\ restarts \in 0..MaxRestarts /\ faults \in 0..MaxFaults
    <2>1. MaxEdits \in Nat /\ MaxRestarts \in Nat /\ MaxFaults \in Nat
        BY GroupAssumption DEF GroupAssumption
    <2>2. edits = 0 /\ restarts = 0 /\ faults = 0
        BY DEF Init
    <2> QED BY <2>1, <2>2
<1>8. queued = TRUE
    BY DEF Init
<1>5. TypeOK
    BY <1>1, <1>2, <1>3, <1>4 DEF TypeOK
<1>6. Working /\ DeletionIsMeant /\ Guarded
    BY <1>1, <1>2 DEF Working, DeletionIsMeant, Guarded, Untouched
<1>7. Generations
    <2>1. group.gen = 1 /\ group.observed = 0 /\ gcache = group
        BY <1>1, <1>2
    <2> QED BY ONLY <2>1 DEF Generations
<1>9. Due /\ OnPods
    BY <1>2, <1>8 DEF Due, OnPods
<1>10. Fresh /\ Calm
    BY <1>1, <1>2 DEF Fresh, Calm, Agree, Current
<1>11. Marked /\ Clean
    BY <1>1, <1>2, <1>8 DEF Marked, Clean, Leaving, Finalized, Current
<1> QED BY <1>5, <1>6, <1>7, <1>9, <1>10, <1>11 DEF IInv

-----------------------------------------------------------------------------
\* A Group that needs something has a pass, a request, or an event under way: a pass
\* becomes idle with a provisioned Group or with an error, and both are written.
LEMMA DueStep == TypeOK /\ Generations /\ Due /\ [Next]_vars => Due'
<1> SUFFICES ASSUME TypeOK, Generations, Due, [Next]_vars,
                    ~Leaving', ~Current(group'), pc' = "idle", ~queued', ~event', gcache' = group', ~lost'
             PROVE  FALSE
    BY DEF Due
<1>m. Moves /\ ~Leaving /\ group.exists
    BY GroupMoves DEF Moves, Leaving
<1>t. group \in Objects /\ gcache \in Objects
    BY DEF TypeOK
<1>f. ~SetFailed
    BY <1>m, <1>t DEF SetFailed
<1>1. CASE UNCHANGED <<group, gcache, pc, queued, event>>
    BY <1>1, <1>m, LostStays DEF Due
<1>2. CASE Begin
    BY <1>2, <1>m DEF Begin, caches, store, Current
<1>3. CASE AddFinalizer \/ RemoveFinalizer
    BY <1>3, <1>f DEF AddFinalizer, RemoveFinalizer, Go
<1>4. CASE MarkDeleting \/ DeletePolicy \/ ListPods \/ Start \/ CreatePolicy \/ MarkProvisioned \/ FinalizerFails
    <2>1. pc' # "idle"
        BY <1>4, Zenon DEF MarkDeleting, DeletePolicy, ListPods, Start, Go, ResolveTargets, CreatePolicy,
                    MarkProvisioned, FinalizerFails
    <2> QED BY <2>1
<1>5. CASE PolicyMissing \/ StripFails \/ DeletionFails \/ FailedLost \/ SyncGroup \/ Restart
    BY <1>5, <1>m DEF PolicyMissing, StripFails, DeletionFails, FailedLost, SyncGroup, Restart
<1>6. CASE PolicyExists \/ PodMissing \/ Fail
    BY <1>6, <1>f DEF PolicyExists, PodMissing, Fail
<1>7. CASE Finish
    BY <1>7, <1>t, Finished DEF Finish, TypeOK
<1>8. ASSUME NEW p \in Places, Strip(p) \/ Label(p) PROVE FALSE
    BY <1>8, <1>m DEF Strip, Label
<1>9. ASSUME NEW t \in Targets, Edit(t) PROVE FALSE
    <2>1. group'.gen = group.gen + 1 \/ group'.gen = group.gen
        BY <1>m DEF Moves, Edited, Unedited
    <2>2. gcache' = gcache
        BY <1>9 DEF Edit, caches
    <2> QED BY <1>9, <1>t, <2>1, <2>2, EditMoves DEF Generations, Objects
<1>10. CASE Delete
    BY <1>10, <1>t, DeleteLeaves
<1>11. CASE SyncOthers \/ (\E e \in Provisioned : PodComes(e) \/ PodGoes(e) \/ Ready(e)) \/ UNCHANGED vars
    <2>1. UNCHANGED <<group, gcache, pc, queued, event>>
        BY <1>11 DEF SyncOthers, PodComes, PodGoes, Ready, vars, store, caches, worker
    <2> QED BY <1>1, <2>1
<1> QED
    BY <1>2, <1>3, <1>4, <1>5, <1>6, <1>7, <1>8, <1>9, <1>10, <1>11 DEF Next, Reconcile

\* A write of a generation finds one target; a cache gets the newest.
LEMMA GenerationsStep == TypeOK /\ Generations /\ [Next]_vars => Generations'
<1> SUFFICES ASSUME TypeOK, Generations, [Next]_vars PROVE Generations'
    OBVIOUS
<1>m. Moves /\ gcache' \in {gcache, group'}
    BY GroupMoves, CacheMoves
<1>t. /\ group.gen \in Nat /\ group.observed \in Nat /\ gcache.gen \in Nat /\ group'.gen \in Nat
    BY <1>m DEF TypeOK, Objects, Moves
<1>1. CASE Edited
    BY <1>t, <1>1 DEF Edited, Generations
<1>2. CASE Unedited
    BY <1>m, <1>t, <1>2 DEF Unedited, Generations
<1> QED BY <1>m, <1>1, <1>2 DEF Moves

\* A label is put on a pod that is there, and goes with it.
LEMMA OnPodsStep == TypeOK /\ OnPods /\ [Next]_vars => OnPods'
<1> SUFFICES ASSUME TypeOK, OnPods, [Next]_vars PROVE OnPods'
    OBVIOUS
<1>1. CASE UNCHANGED <<labels, pod>>
    BY <1>1 DEF OnPods
<1>2. ASSUME NEW p \in Places, Strip(p) \/ Label(p) PROVE OnPods'
    <2>1. pod' = pod /\ p \notin Missing /\ labels' \subseteq labels \cup {p}
        BY <1>2 DEF Strip, Label, pods
    <2>2. p[2] = "pod" => pod[p[1]] = "seen"
        BY <2>1 DEF Missing
    <2> QED BY <2>1, <2>2 DEF OnPods
<1>3. ASSUME NEW e \in Provisioned, PodComes(e) PROVE OnPods'
    <2>1. pod' = [pod EXCEPT ![e] = "new"] /\ labels' \subseteq labels \cup {<<e, "pod">>}
        BY <1>3 DEF PodComes
    <2> QED BY <2>1 DEF OnPods, TypeOK
<1>4. ASSUME NEW e \in Provisioned, PodGoes(e) PROVE OnPods'
    <2>1. pod' = [pod EXCEPT ![e] = "none"] /\ labels' = labels \ {<<e, "pod">>}
        BY <1>4 DEF PodGoes
    <2> QED BY <2>1 DEF OnPods, TypeOK
<1>5. CASE SyncOthers \/ Restart
    <2>1. labels' = labels /\ pod' = Seen
        BY <1>5 DEF SyncOthers, Restart
    <2> QED BY <2>1 DEF OnPods, Seen, TypeOK
<1>6. CASE ~\/ (\E p \in Places : Strip(p) \/ Label(p))
            \/ (\E e \in Provisioned : PodComes(e) \/ PodGoes(e)) \/ SyncOthers \/ Restart
    <2>1. UNCHANGED <<labels, pod>>
        BY <1>6 DEF Next, Reconcile, Begin, AddFinalizer, MarkDeleting, DeletePolicy, PolicyMissing,
                    ListPods, RemoveFinalizer, Start, CreatePolicy, PolicyExists, MarkProvisioned,
                    PodMissing, StripFails, Finish, FinalizerFails, Fail, FailedLost, DeletionFails, SyncGroup,
                    Edit, Delete, Ready, vars, store, pods
    <2> QED BY <1>1, <2>1
<1> QED BY <1>2, <1>3, <1>4, <1>5, <1>6

\* A pass starts on a request, and a request comes with a new copy or from a pass.
LEMMA FreshStep ==
    ASSUME TypeOK, Generations, [Next]_vars, raced \/ Fresh PROVE raced' \/ Fresh'
<1> SUFFICES ASSUME ~raced' PROVE Fresh'
    OBVIOUS
<1>m. Moves /\ Fresh /\ gcache' \in {gcache, group'}
    BY GroupMoves, CacheMoves
<1>1. CASE Delete \/ \E t \in Targets : Edit(t)
    <2>1. pc = "idle" /\ ~queued
        BY <1>1 DEF Delete, Edit, Busy
    <2>2. UNCHANGED <<pc, queued>>
        BY <1>1 DEF Delete, Edit, worker
    <2> QED BY <2>1, <2>2 DEF Fresh
<1>2. CASE ~(Delete \/ \E t \in Targets : Edit(t))
    <2>1. pc' # "idle" => pc # "idle" \/ queued
        BY <1>2 DEF Next, Reconcile, Begin, AddFinalizer, MarkDeleting, DeletePolicy, PolicyMissing,
                    ListPods, RemoveFinalizer, Start, AtStart, CreatePolicy, PolicyExists,
                    MarkProvisioned, PodMissing, StripFails, Finish, Strip, Label, FinalizerFails,
                    Fail, FailedLost, DeletionFails, SyncGroup, SyncOthers, Restart, Return, PodComes, PodGoes,
                    Ready, vars, worker
    <2>2. CASE SyncGroup \/ Restart
        BY <1>m, <2>2 DEF SyncGroup, Restart, store, Fresh
    <2>3. CASE ~(SyncGroup \/ Restart)
        <3>1. queued' => queued \/ pc # "idle"
            BY <1>2, <2>3 DEF Next, Reconcile, Begin, AddFinalizer, MarkDeleting, DeletePolicy,
                    PolicyMissing, ListPods, RemoveFinalizer, Start, AtStart, CreatePolicy, PolicyExists,
                    MarkProvisioned, PodMissing, StripFails, Finish, Strip, Label, FinalizerFails,
                    Fail, FailedLost, DeletionFails, SyncOthers, PodComes, PodGoes, Ready, vars
        <3>2. group'.gen = group.gen
            BY <1>2, <1>m DEF Moves, Edited, Unedited
        <3> QED BY <1>m, <2>1, <3>1, <3>2 DEF Fresh
    <2> QED BY <2>2, <2>3
<1> QED BY <1>1, <1>2


\* How a pass moves while nothing races or is lost and the Group stands: it ends, with an error
\* or without anything left to label; takes a step before the labels; starts to
\* label; or rests.
Ends ==
    /\ pc' = "idle"
    /\ pc \in {"provisioned", "label"} => (pc = "label" /\ todo = {}) \/ ~Current(group')
Prepares ==
    /\ pc \notin {"provisioned", "label"} /\ pc' \notin {"label", "idle"}
    /\ IF pc = "idle" THEN queued /\ res' = gcache
       ELSE res'.target \in {res.target, group'.target, gcache.target}
Resolves ==
    /\ pc \notin {"label", "idle"} /\ pc' = "label"
    /\ res'.target \in {res.target, group'.target} /\ todo' = PlacesOf(res'.target.members)
Rests == UNCHANGED <<pc, res, todo>> /\ (pc = "provisioned" => group' = group)

Stands == labels' = labels /\ \A e \in Provisioned : pod'[e] = "none" <=> pod[e] = "none"

Passes ==
    \/ Stands /\ (Ends \/ Prepares \/ Resolves \/ Rests)
    \/ \E p \in Places : Label(p)
    \/ \E e \in Provisioned : PodComes(e) \/ PodGoes(e)
    \/ \E t \in Targets : Edit(t)

LEMMA PassMoves ==
    ASSUME TypeOK, Working, DeletionIsMeant, [Next]_vars, ~Leaving', ~raced', ~lost'
    PROVE  Passes
<1> DEFINE Changing == \/ \E p \in Places : Label(p)
                       \/ \E e \in Provisioned : PodComes(e) \/ PodGoes(e)
                       \/ \E t \in Targets : Edit(t)
<1> SUFFICES ASSUME ~Changing PROVE Stands /\ (Ends \/ Prepares \/ Resolves \/ Rests)
    BY DEF Passes
<1>m. ~Leaving /\ group.exists /\ ~group.deleting
    BY GroupMoves DEF Moves, Leaving
<1>t. group \in Objects
    BY DEF TypeOK
<1>d. pc \notin {"netpol", "entities", "pods"} /\ (pc = "finalizer" => ~res.deleting)
    BY <1>m DEF DeletionIsMeant
<1>f. SetFailed => pc' = "idle" /\ ~Current(group')
    BY <1>m, <1>t, FailedSet DEF Current
<1>s. UNCHANGED <<labels, pod>> => Stands
    BY DEF Stands
<1> USE DEF store, pods
<1>1. CASE Begin
    BY <1>1, <1>s DEF Begin, Prepares, Rests
<1>2. CASE AddFinalizer
    BY <1>2, <1>f, <1>s DEF AddFinalizer, Go, Prepares, Ends
<1>3. CASE Start
    <2>1. /\ pc \in {"start", "finalizer"} /\ UNCHANGED <<labels, pod, queued>>
          /\ Go("policy") \/ (pc' = "policy" /\ res' = res) \/ ResolveTargets(res)
        BY <1>3, Zenon DEF Start, AtStart
    <2> QED BY <2>1, <1>s DEF Go, ResolveTargets, Prepares, Resolves
<1>4. CASE CreatePolicy
    BY <1>4, <1>s DEF CreatePolicy, Prepares
<1>5. CASE PolicyExists \/ PodMissing \/ Fail
    BY <1>5, <1>f, <1>s DEF PolicyExists, PodMissing, Fail, AtStart, Ends
<1>6. CASE MarkProvisioned
    BY <1>6, <1>s DEF MarkProvisioned, ResolveTargets, Resolves
<1>7. CASE Finish
    BY <1>7, <1>s DEF Finish, Return, Ends
<1>8. CASE FinalizerFails
    <2>1. WithPhase(gcache, "Failed").target = gcache.target
        BY WithPhaseKeeps DEF TypeOK, Phases
    <2>2. pc \in {"finalizer", "pods"} /\ pc' = "start" /\ UNCHANGED <<labels, pod>>
          /\ res' \in {res, group', WithPhase(gcache, "Failed")}
        BY <1>8, <1>m DEF FinalizerFails
    <2> QED BY <2>1, <2>2, <1>s DEF Prepares
<1>15. CASE FailedLost
    <2>1. pc = "finalizer" /\ pc' = "idle" /\ UNCHANGED <<labels, pod>>
        BY <1>15, <1>d DEF FailedLost, Return
    <2> QED BY <2>1, <1>s DEF Ends
<1>9. CASE MarkDeleting \/ DeletePolicy \/ PolicyMissing \/ ListPods \/ RemoveFinalizer \/ StripFails
           \/ DeletionFails \/ \E p \in Places : Strip(p)
    BY <1>9, <1>d DEF MarkDeleting, DeletePolicy, PolicyMissing, ListPods, RemoveFinalizer,
                      StripFails, DeletionFails, Strip
<1>10. CASE SyncGroup
    BY <1>10, <1>s DEF SyncGroup, worker, Rests
<1>11. CASE SyncOthers
    <2>1. Stands
        BY <1>11 DEF SyncOthers, Stands, Seen, TypeOK
    <2> QED BY <1>11, <2>1 DEF SyncOthers, worker, Rests
<1>12. CASE Delete
    BY <1>12, <1>t, DeleteLeaves
<1>13. CASE Restart
    <2>1. pc = "idle"
        BY <1>13 DEF Restart, Busy
    <2>2. Stands
        BY <1>13 DEF Restart, Stands, Seen, TypeOK
    <2> QED BY <1>13, <2>1, <2>2 DEF Restart, Return, Ends
<1>14. CASE (\E e \in Provisioned : Ready(e)) \/ UNCHANGED vars
    BY <1>14, <1>s DEF Ready, vars, worker, Rests
<1> QED
    BY <1>1, <1>2, <1>3, <1>4, <1>5, <1>6, <1>7, <1>8, <1>9, <1>10, <1>11, <1>12, <1>13, <1>14,
       <1>15 DEF Next, Reconcile

\* A label is where the target asks for it, as it was before, when label, target and
\* pod stayed.
LEMMA RightStays ==
    ASSUME NEW p \in Places, Right(p), group'.target = group.target, p \in labels' <=> p \in labels,
           p[2] = "pod" => (pod'[p[1]] = "none" <=> pod[p[1]] = "none")
    PROVE  Right(p)'
BY DEF Right

\* Where a place is.
LEMMA OfPlaces ==
    /\ \A p \in Places : p[2] = "pod" => p[1] \in Provisioned /\ p = <<p[1], "pod">>
    /\ \A p \in Places : p[2] # "pod" => p = <<p[1], "entity">>
    /\ \A e \in Provisioned : <<e, "pod">> \in Places /\ <<e, "entity">> \in Places
BY GroupAssumption DEF Places, GroupAssumption

\* A pass that claims the target has labelled everything.
LEMMA ClaimsAreTrue ==
    ASSUME Calm, Unedited, Ends \/ Prepares \/ Rests, Current(group'), pc' # "label"
    PROVE  \A p \in Members : Right(p)
<1>1. CASE pc = "label"
    BY <1>1 DEF Ends, Prepares, Rests, Calm, Labelling
<1>2. CASE pc # "label"
    <2>1. Current(group)
        BY <1>2 DEF Unedited, Ends, Prepares, Rests
    <2> QED BY <1>2, <2>1 DEF Calm
<1> QED BY <1>1, <1>2

\* A pass that takes a step other than labelling, while labels and pods stand.
LEMMA StandingStep ==
    ASSUME TypeOK, Generations, Fresh, Calm, Unedited, Stands, Ends \/ Prepares \/ Resolves \/ Rests
    PROVE  Calm'
<1>u. group'.target = group.target /\ group'.gen = group.gen /\ Members' = Members
    BY DEF Unedited, Members
<1>p. Members \subseteq Places
    BY DEF Members, PlacesOf
<1>r. ASSUME NEW p \in Members, Right(p) PROVE Right(p)'
    BY <1>r, <1>u, <1>p, RightStays, OfPlaces DEF Stands
<1>2. pc' # "idle" => res'.target = group'.target
    BY <1>u DEF Fresh, Calm, Generations, Ends, Prepares, Resolves, Rests
<1>3. pc' = "label" => Labelling'
    <2>1. CASE Resolves
        <3>1. todo' = Members'
            BY <1>u, <2>1 DEF Resolves, Calm, Members
        <3>2. \A e \in Provisioned : <<e, "entity">> \in Members => <<e, "pod">> \in Members
            BY OfPlaces DEF Members, PlacesOf
        <3> QED BY <1>u, <3>1, <3>2 DEF Labelling
    <2>2. CASE pc' = "label" /\ Rests
        <3>1. Labelling /\ todo' = todo
            BY <2>2 DEF Calm, Rests
        <3> QED BY <1>u, <1>r, <3>1 DEF Labelling
    <2> QED BY <2>1, <2>2 DEF Ends, Prepares
<1>4. \A e \in Provisioned \ group'.target.members : Agree(e)'
    BY <1>u DEF Calm, Agree, Stands
<1>5. Current(group') /\ pc' # "label" => \A p \in Members' : Right(p)'
    BY <1>u, <1>r, ClaimsAreTrue DEF Resolves
<1> QED BY <1>2, <1>3, <1>4, <1>5 DEF Calm

\* The pass labels a member, and skips one of which there is no pod.
LEMMA LabelStep ==
    ASSUME TypeOK, Calm, ~Leaving, ~raced', NEW p \in Places, Label(p)
    PROVE  Calm'
<1> DEFINE skipped == IF p[1] \in ready THEN {} ELSE {<<p[1], "pod">>} \cap todo
<1>1. /\ pc = "label" /\ p \in todo /\ (p[2] = "pod" => <<p[1], "entity">> \notin todo)
      /\ UNCHANGED <<group, gcache, pod, queued, res, pc>>
      /\ todo' = todo \ ({p} \cup skipped)
    BY DEF Label, Leaving, pods, caches
<1>2. \A q \in skipped : pod[q[1]] = "none"
    BY DEF Label
<1>3. Labelling /\ res.target = group.target
    BY <1>1 DEF Calm
<1>4. labels' = IF group.target.add THEN labels \cup {p} ELSE labels \ {p}
    BY <1>3 DEF Label
<1>5. Members' = Members /\ Members \subseteq Places /\ group'.target = group.target
    BY <1>1 DEF Members, PlacesOf
<1>6. ASSUME NEW q \in Members \ todo' PROVE Right(q)'
    <2>1. CASE q = p
        BY <1>1, <1>4, <2>1 DEF Right
    <2>2. CASE q \in skipped
        <3>1. q[2] = "pod"
            BY <2>2
        <3> QED BY <1>1, <1>2, <2>2, <3>1 DEF Right
    <2>3. CASE q \in Members \ todo
        <3>1. q # p /\ Right(q)
            BY <1>1, <1>3, <2>3 DEF Labelling
        <3> QED BY <1>1, <1>4, <1>5, <3>1, RightStays
    <2> QED BY <1>1, <2>1, <2>2, <2>3
<1>7. ASSUME NEW e \in Provisioned, <<e, "entity">> \in todo' PROVE <<e, "pod">> \in todo'
    <2>1. <<e, "entity">> \in todo /\ <<e, "entity">> # p
        BY <1>1, <1>7
    <2>2. <<e, "pod">> \in todo
        BY <1>3, <2>1 DEF Labelling
    <2>3. p[1] # e
        BY <1>1, <2>1, OfPlaces
    <2> QED BY <1>1, <2>2, <2>3
<1>8. Labelling'
    BY <1>1, <1>3, <1>5, <1>6, <1>7 DEF Labelling
<1>9. ASSUME NEW e \in Provisioned \ group.target.members PROVE Agree(e)'
    <2>1. Agree(e)
        BY DEF Calm
    <2>2. p[1] # e
        BY <1>1, <1>3 DEF Labelling, Members, PlacesOf
    <2> QED BY <1>1, <1>4, <2>1, <2>2 DEF Agree
<1> QED BY <1>1, <1>3, <1>5, <1>8, <1>9 DEF Calm

\* A pod comes with the label of its entity, or goes with its own.
LEMMA PodStep ==
    ASSUME TypeOK, OnPods, Calm, ~raced', NEW e \in Provisioned, PodComes(e) \/ PodGoes(e)
    PROVE  Calm'
<1> DEFINE place == <<e, "pod">>
           own == <<e, "entity">>
<1>1. /\ UNCHANGED <<group, gcache, pc, res, todo, queued>>
      /\ \A d \in Provisioned \ {e} : pod'[d] = pod[d]
      /\ \A q \in Places \ {place} : q \in labels' <=> q \in labels
    BY DEF PodComes, PodGoes, caches, worker, TypeOK
<1>2. pod'[e] = "none" \/ (place \in labels' <=> own \in labels)
    <2>1. CASE PodComes(e)
        <3>1. place \notin labels
            BY <2>1 DEF PodComes, OnPods
        <3>2. own \in lcache <=> own \in labels
            BY <2>1 DEF PodComes
        <3>3. labels' = labels \cup (IF own \in lcache THEN {place} ELSE {})
            BY <2>1 DEF PodComes
        <3> QED BY <3>1, <3>2, <3>3
    <2>2. CASE PodGoes(e)
        BY <2>2 DEF PodGoes, TypeOK
    <2> QED BY <2>1, <2>2
<1>3. place \in Places /\ own \in Places /\ own # place /\ (own \in labels' <=> own \in labels)
    BY <1>1, OfPlaces
<1>4. Members' = Members /\ Members \subseteq Places /\ group'.target = group.target
      /\ (place \in Members => own \in Members)
    BY <1>1, <1>3 DEF Members, PlacesOf
<1>5. ASSUME NEW q \in Members, Right(q), q = place => Right(own) PROVE Right(q)'
    <2>1. CASE q = place
        BY <1>1, <1>2, <1>4, <1>5, <2>1 DEF Right
    <2>2. CASE q # place
        <3>1. q[2] = "pod" => q[1] # e /\ q[1] \in Provisioned
            BY <1>4, <2>2, OfPlaces
        <3> QED BY <1>1, <1>4, <1>5, <2>2, <3>1, RightStays
    <2> QED BY <2>1, <2>2
<1>6. ASSUME pc = "label" PROVE Labelling'
    <2>1. Labelling
        BY <1>6 DEF Calm
    <2>2. place \notin todo => own \notin todo
        BY <2>1 DEF Labelling
    <2>3. \A q \in Members \ todo : Right(q)'
        BY <1>4, <1>5, <2>1, <2>2 DEF Labelling
    <2> QED BY <1>1, <1>4, <2>1, <2>3 DEF Labelling
<1>7. ASSUME NEW d \in Provisioned \ group.target.members PROVE Agree(d)'
    <2>1. CASE d = e
        BY <1>2, <1>3, <2>1 DEF Agree
    <2>2. CASE d # e
        <3>1. <<d, "pod">> \in Places \ {place} /\ <<d, "entity">> \in Places \ {place} /\ Agree(d)
            BY <2>2, OfPlaces DEF Calm
        <3> QED BY <1>1, <2>2, <3>1 DEF Agree
    <2> QED BY <2>1, <2>2
<1>8. Current(group) /\ pc # "label" => \A q \in Members : Right(q)'
    BY <1>4, <1>5 DEF Calm
<1> QED BY <1>1, <1>4, <1>6, <1>7, <1>8 DEF Calm

\* Where the target is applied every entity agrees with its pod.
LEMMA AppliedAgree ==
    ASSUME Calm, Current(group), pc # "label" PROVE \A e \in Provisioned : Agree(e)
<1> SUFFICES ASSUME NEW e \in Provisioned, e \in group.target.members PROVE Agree(e)
    BY DEF Calm
<1>1. <<e, "pod">> \in Members /\ <<e, "entity">> \in Members
    BY OfPlaces DEF Members, PlacesOf
<1>2. Right(<<e, "pod">>) /\ Right(<<e, "entity">>)
    BY <1>1 DEF Calm
<1> QED BY <1>2 DEF Right, Agree

\* An edit that races with nothing finds the last target applied.
LEMMA EditStep ==
    ASSUME TypeOK, Generations, Due, Calm, ~Leaving, ~lost, ~raced', NEW t \in Targets, Edit(t)
    PROVE  Calm'
<1>1. pc = "idle" /\ ~queued /\ ~event /\ gcache = group
    BY DEF Edit, Busy, caches
<1>2. Current(group)
    BY <1>1 DEF Due
<1>3. UNCHANGED <<labels, pod, gcache, pc, queued>>
    BY DEF Edit, pods, caches, worker
<1>4. \A e \in Provisioned : Agree(e)'
    BY <1>1, <1>2, <1>3, AppliedAgree DEF Agree
<1>5. ~Current(group')
    BY EditMoves DEF TypeOK, Objects, Generations, Current
<1> QED BY <1>1, <1>3, <1>4, <1>5 DEF Calm

LEMMA CalmStep ==
    ASSUME TypeOK, Working, DeletionIsMeant, Generations, Due, OnPods, [Next]_vars,
           raced \/ Fresh, raced \/ lost \/ Leaving \/ Calm
    PROVE  raced' \/ lost' \/ Leaving' \/ Calm'
<1> SUFFICES ASSUME ~raced', ~lost', ~Leaving' PROVE Calm'
    OBVIOUS
<1>m. Moves /\ ~Leaving /\ ~lost
    BY GroupMoves, LostStays DEF Moves, Leaving
<1>c. Fresh /\ Calm
    BY <1>m, CacheMoves
<1>p. Passes
    BY PassMoves
<1>1. CASE \E t \in Targets : Edit(t)
    BY <1>1, <1>m, <1>c, EditStep
<1>2. CASE \E p \in Places : Label(p)
    BY <1>2, <1>m, <1>c, LabelStep
<1>3. CASE \E e \in Provisioned : PodComes(e) \/ PodGoes(e)
    BY <1>3, <1>c, PodStep
<1>4. CASE Stands /\ (Ends \/ Prepares \/ Resolves \/ Rests) /\ ~\E t \in Targets : Edit(t)
    <2>1. Unedited
        BY <1>m, <1>4, DeleteLeaves DEF Moves, Edited, TypeOK
    <2> QED BY <1>4, <1>c, <1>p, <2>1, StandingStep
<1> QED BY <1>p, <1>1, <1>2, <1>3, <1>4 DEF Passes

-----------------------------------------------------------------------------
\* The marks in the copy of a pass are the informer's, or of the Group as it was written.
LEMMA Copies ==
    ASSUME TypeOK, Working, [Next]_vars, pc' \notin {"idle", "label"}
    PROVE  \/ \E h \in {gcache, group, group'} :
                  res'.deleting = h.deleting /\ res'.finalizer = h.finalizer
           \/ /\ pc \notin {"idle", "label"}
              /\ res'.deleting = res.deleting /\ res'.finalizer = res.finalizer
<1> USE DEF worker
<1>1. CASE Begin
    BY <1>1 DEF Begin
<1>2. CASE AddFinalizer \/ MarkDeleting \/ Start
    <2>1. Go("start") \/ Go("netpol") \/ Go("policy") => res' = group'
        BY DEF Go
    <2>2. SetFailed \/ ResolveTargets(res) \/ ResolveTargets(group') => pc' \in {"idle", "label"}
        BY DEF SetFailed, Return, ResolveTargets
    <2> QED BY <1>2, <2>1, <2>2 DEF AddFinalizer, MarkDeleting, Start, AtStart
<1>3. CASE UNCHANGED res /\ pc \notin {"idle", "label"}
    BY <1>3
<1>4. CASE DeletePolicy \/ ListPods \/ RemoveFinalizer \/ CreatePolicy
    <2>1. SetFailed => pc' = "idle"
        BY DEF SetFailed, Return
    <2>2. UNCHANGED res /\ pc \notin {"idle", "label"}
        BY <1>4, <2>1 DEF DeletePolicy, ListPods, RemoveFinalizer, CreatePolicy
    <2> QED BY <1>3, <2>2
<1>5. CASE PolicyMissing \/ PolicyExists \/ MarkProvisioned \/ PodMissing \/ StripFails \/ Finish
            \/ Fail \/ FailedLost \/ DeletionFails \/ Restart
    BY <1>5 DEF PolicyMissing, PolicyExists, MarkProvisioned, ResolveTargets, PodMissing, StripFails,
                Finish, Fail, FailedLost, DeletionFails, Restart, SetFailed, Return
<1>6. ASSUME NEW p \in Places, Strip(p) \/ Label(p)
      PROVE  UNCHANGED res /\ pc \notin {"idle", "label"}
    BY <1>6 DEF Strip, Label, Return
<1>7. CASE FinalizerFails
    <2>1. CASE group.exists
        <3>1. res' \in {res, group', WithPhase(gcache, "Failed")} /\ pc \notin {"idle", "label"}
            BY <1>7, <2>1 DEF FinalizerFails
        <3>2. /\ WithPhase(gcache, "Failed").deleting = gcache.deleting
              /\ WithPhase(gcache, "Failed").finalizer = gcache.finalizer
            BY WithPhaseKeeps DEF TypeOK, Phases
        <3> QED BY <3>1, <3>2
    <2>2. CASE ~group.exists
        <3>1. res \in Objects /\ pc \notin {"idle", "label"}
            BY <1>7 DEF FinalizerFails, Working
        <3>3. res' \in {WithPhase(res, f) : f \in {res.phase, "Deleting", "Failed"}}
            BY ONLY <1>7, <2>2 DEF FinalizerFails, SetPhase, SetStatus
        <3>2. \E f \in Phases : res' = WithPhase(res, f)
            BY <3>1, <3>3 DEF Objects, Phases
        <3> QED BY <3>1, <3>2, WithPhaseKeeps
    <2> QED BY <2>1, <2>2
<1>8. CASE SyncGroup \/ SyncOthers \/ (\E t \in Targets : Edit(t)) \/ Delete \/ UNCHANGED vars
            \/ (\E e \in Provisioned : PodComes(e) \/ PodGoes(e) \/ Ready(e))
    <2>1. UNCHANGED <<res, pc>>
        BY <1>8 DEF SyncGroup, SyncOthers, Edit, Delete, PodComes, PodGoes, Ready, vars
    <2> QED BY <1>3, <2>1
<1> QED
    BY <1>1, <1>2, <1>3, <1>4, <1>5, <1>6, <1>7, <1>8 DEF Next, Reconcile

LEMMA MarkedStep ==
    ASSUME TypeOK, Working, Generations, Marked, [Next]_vars PROVE Marked'
<1>m. Moves /\ gcache' \in {gcache, group'}
    BY GroupMoves, CacheMoves
<1>t. /\ group.gen \in Nat /\ gcache.gen \in Nat
      /\ \A h \in {group, group', gcache} : h.deleting \in BOOLEAN /\ h.finalizer \in BOOLEAN
    BY <1>m DEF TypeOK, Objects, Moves
<1>1. /\ group.finalizer => group'.finalizer
      /\ group'.deleting => group'.finalizer
    BY <1>m DEF Moves, Marked
<1>2. (gcache'.deleting => gcache'.finalizer) /\ (gcache'.finalizer => group'.finalizer)
    BY <1>m, <1>1 DEF Marked
<1>3. ASSUME pc' \notin {"idle", "label"}
      PROVE  (res'.deleting => res'.finalizer) /\ (res'.finalizer => group'.finalizer)
    <2>1. CASE \E h \in {gcache, group, group'} : res'.deleting = h.deleting /\ res'.finalizer = h.finalizer
        BY <1>1, <2>1 DEF Marked
    <2>2. CASE pc \notin {"idle", "label"} /\ res'.deleting = res.deleting /\ res'.finalizer = res.finalizer
        BY <1>1, <2>2 DEF Marked
    <2> QED BY <1>3, <2>1, <2>2, Copies
<1>4. ASSUME gcache'.gen = group'.gen PROVE gcache'.deleting = group'.deleting
    <2>1. CASE Edited
        BY <1>m, <1>t, <1>4, <2>1 DEF Edited, Generations
    <2>2. CASE Unedited
        BY <1>m, <1>4, <2>2 DEF Unedited, Marked
    <2> QED BY <1>m, <2>1, <2>2 DEF Moves
<1> QED BY <1>1, <1>2, <1>3, <1>4 DEF Marked

\* A pass goes on to the policy and the labels only with a finalizer on the Group, and
\* one that ended before that is repeated.
LEMMA FinalizedStep ==
    ASSUME TypeOK, Working, DeletionIsMeant, Generations, Marked, Finalized, ~Leaving, ~Leaving',
           [Next]_vars, ~wentOn'
    PROVE  Finalized'
<1> DEFINE S == {"start", "policy", "provisioned", "label"}
<1>m. Moves /\ group.exists /\ (group.finalizer => group'.finalizer)
    BY GroupMoves DEF Moves, Leaving
<1>1. ASSUME Current(group') PROVE group'.finalizer
    <2>1. ~Edited
        BY <1>1, <1>m DEF Edited, Current, Generations, TypeOK, Objects
    <2>2. Current(group) \/ pc \in S
        BY <1>m, <1>1, <2>1 DEF Moves, Unedited
    <2> QED BY <1>m, <2>2 DEF Finalized
<1>2. pc' \in S => pc \in S \/ group'.finalizer
    <2>d. pc \notin {"netpol", "entities", "pods"}
        BY DEF DeletionIsMeant
    <2>1. CASE AddFinalizer
        <3> DEFINE h == [group EXCEPT !.finalizer = TRUE]
        <3>1. h \in Objects /\ h.finalizer
            BY DEF TypeOK, Objects
        <3>2. SetFailed => pc' = "idle"
            BY DEF SetFailed, Return
        <3>3. CASE group' = Wrote(h)
            <4> HIDE DEF h
            <4> QED BY <3>1, <3>3, WroteKeeps
        <3> QED BY <2>1, <3>2, <3>3 DEF AddFinalizer
    <2>2. CASE Start
        BY <2>2, <1>m DEF Start, AtStart, Marked
    <2>3. CASE FinalizerFails
        BY <2>3, <1>m DEF FinalizerFails
    <2>4. CASE ~(AddFinalizer \/ Start \/ FinalizerFails)
        BY <2>4, <2>d DEF Next, Reconcile, Begin, MarkDeleting, Go, DeletePolicy, PolicyMissing, ListPods,
                    RemoveFinalizer, CreatePolicy, PolicyExists, MarkProvisioned, PodMissing,
                    StripFails, Finish, Strip, Label, Fail, FailedLost, DeletionFails, SyncGroup, SyncOthers,
                    Edit, Delete, Restart, SetFailed, Return, PodComes, PodGoes, Ready, vars, worker
    <2> QED BY <2>1, <2>2, <2>3, <2>4
<1>3. ASSUME pc' = "idle", ~queued', ~event', gcache' = group' PROVE group'.finalizer
    <2>d. pc \notin {"netpol", "entities", "pods"} /\ (pc = "finalizer" => ~res.deleting)
        BY DEF DeletionIsMeant
    <2>f. ~SetFailed
        BY <1>m, <1>3 DEF SetFailed
    <2>1. CASE UNCHANGED <<group, gcache, pc, queued, event>>
        BY <1>3, <2>1 DEF Finalized
    <2>2. CASE Begin
        <3>1. group' = group /\ gcache = group
            BY <1>3, <2>2 DEF Begin, store, caches
        <3>2. Current(group)
            BY <1>3, <1>m, <2>2, <3>1 DEF Begin, Current
        <3> QED BY <3>1, <3>2 DEF Finalized
    <2>3. CASE AddFinalizer \/ RemoveFinalizer \/ PolicyExists \/ PodMissing \/ Fail
        BY <1>3, <2>3, <2>f DEF AddFinalizer, RemoveFinalizer, Go, PolicyExists, PodMissing, Fail
    <2>4. CASE MarkDeleting \/ DeletePolicy \/ ListPods \/ Start \/ CreatePolicy \/ MarkProvisioned
                \/ FinalizerFails
        <3>1. pc' # "idle"
            BY <2>4, Zenon DEF MarkDeleting, DeletePolicy, ListPods, Start, Go, ResolveTargets,
                        CreatePolicy, MarkProvisioned, FinalizerFails
        <3> QED BY <1>3, <3>1
    <2>5. CASE PolicyMissing \/ StripFails \/ DeletionFails \/ SyncGroup \/ Restart
        BY <1>3, <1>m, <2>5 DEF PolicyMissing, StripFails, DeletionFails, SyncGroup, Restart
    <2>6. CASE Finish
        BY <1>m, <2>6 DEF Finish, Finalized
    <2>7. CASE FailedLost
        <3>1. pc \in S \/ (pc = "finalizer" /\ res.finalizer)
            BY <1>3, <2>7 DEF FailedLost, AtStart
        <3> QED BY <1>m, <3>1 DEF Finalized, Marked
    <2>8. ASSUME NEW p \in Places, Strip(p) \/ Label(p) PROVE FALSE
        BY <1>3, <1>m, <2>d, <2>8 DEF Strip, Label
    <2>9. ASSUME NEW t \in Targets, Edit(t) PROVE FALSE
        <3>1. gcache' = gcache
            BY <2>9 DEF Edit, caches
        <3> QED BY <1>3, <2>9, <3>1, EditMoves DEF Generations, TypeOK, Objects
    <2>10. ~Delete
        BY DeleteLeaves DEF TypeOK
    <2>11. CASE SyncOthers \/ (\E e \in Provisioned : PodComes(e) \/ PodGoes(e) \/ Ready(e)) \/ UNCHANGED vars
        <3>1. UNCHANGED <<group, gcache, pc, queued, event>>
            BY <2>11 DEF SyncOthers, PodComes, PodGoes, Ready, vars, store, caches, worker
        <3> QED BY <2>1, <3>1
    <2> QED
        BY <2>2, <2>3, <2>4, <2>5, <2>6, <2>7, <2>8, <2>9, <2>10, <2>11 DEF Next, Reconcile
<1> QED BY <1>m, <1>1, <1>2, <1>3 DEF Finalized

\* A Group that is deleted in peace has its finalizer, and the informer knows its labels.
LEMMA DeleteStep ==
    ASSUME TypeOK, Generations, Finalized, ~Leaving, Delete, ~raced'
    PROVE  Deleting' /\ Found'
<1> DEFINE h == [group EXCEPT !.deleting = TRUE, !.gen = group.gen + 1]
<1>1. /\ pc = "idle" /\ ~queued /\ ~event /\ gcache = group /\ lcache = labels
      /\ UNCHANGED <<pc, queued, event, gcache, lcache, labels>>
    BY DEF Delete, Busy, caches, worker
<1>2. group.finalizer
    BY <1>1 DEF Finalized
<1>3. /\ group.gen \in Nat /\ group.gen + 1 \in Nat /\ group.exists
      /\ group.observed \in Nat /\ group.observed <= group.gen
    BY DEF TypeOK, Objects, Leaving, Generations
<1>4. /\ h \in Objects /\ h.deleting /\ h.exists /\ h.gen = group.gen + 1 /\ h.observed = group.observed
    BY <1>3 DEF TypeOK, Objects
<1>5. group' = Wrote(h)
    BY <1>2 DEF Delete
<1> HIDE DEF h
<1>6. /\ group'.deleting /\ group'.exists /\ group'.gen = group.gen + 1
      /\ group'.observed = group.observed
    BY <1>4, <1>5, WroteKeeps
<1>7. ~Current(group') /\ gcache' # group'
    BY <1>1, <1>3, <1>6 DEF Current
<1>8. Deleting'
    BY <1>1, <1>6, <1>7 DEF Deleting
<1> QED BY <1>1, <1>8 DEF Found

\* What is gone stays gone, and the pass that let it go writes nothing any more.
LEMMA GoneStep ==
    ASSUME TypeOK, Working, Generations, Marked, Fresh, Deleting, ~group.exists, [Next]_vars, ~raced'
    PROVE  Deleting' /\ Found'
<1>d. /\ labels = {} /\ group.deleting /\ ~Current(group) /\ group.phase # "Provisoned"
      /\ pc \notin {"label", "netpol", "entities", "pods"}
      /\ pc \in {"finalizer", "start"} => res.phase # "Provisoned"
    BY DEF Deleting
<1>g. group' = group
    BY <1>d DEF Next, Reconcile, Begin, AddFinalizer, MarkDeleting, DeletePolicy, PolicyMissing, ListPods,
             RemoveFinalizer, Start, CreatePolicy, PolicyExists, MarkProvisioned, PodMissing,
             StripFails, Finish, Strip, Label, FinalizerFails, Fail, FailedLost, DeletionFails, SyncGroup,
             SyncOthers, Edit, Delete, Restart, SetPhase, SetStatus, SetFailed, PodComes, PodGoes,
             Ready, vars, store
<1>c. gcache' \in {gcache, group}
    BY <1>g, CacheMoves
<1>l. labels' = {}
    <2>1. ASSUME NEW e \in Provisioned, PodComes(e) PROVE labels' = {}
        BY <1>d, <2>1 DEF PodComes
    <2>2. ASSUME NEW e \in Provisioned, PodGoes(e) PROVE labels' = {}
        BY <1>d, <2>2 DEF PodGoes
    <2>3. CASE ~\E e \in Provisioned : PodComes(e) \/ PodGoes(e)
        BY <1>d, <2>3 DEF Next, Reconcile, Begin, AddFinalizer, MarkDeleting, DeletePolicy, PolicyMissing,
             ListPods, RemoveFinalizer, Start, CreatePolicy, PolicyExists, MarkProvisioned,
             PodMissing, StripFails, Finish, Strip, Label, FinalizerFails, Fail, FailedLost, DeletionFails,
             SyncGroup, SyncOthers, Edit, Delete, Restart, Ready, vars, store
    <2> QED BY <2>1, <2>2, <2>3
<1>q. queued' /\ gcache'.exists => queued /\ gcache' = gcache
    <2>1. CASE SyncGroup \/ Restart
        BY <1>g, <2>1 DEF SyncGroup, Restart, store
    <2>2. CASE Fail
        <3>1. queued' => queued
            BY ONLY <2>2, ~group.exists, TypeOK, Zenon DEF Fail, TypeOK
        <3> QED BY <2>2, <3>1 DEF Fail, caches
    <2>3. CASE ~(SyncGroup \/ Restart \/ Fail)
        BY <1>d, <2>3 DEF Next, Reconcile, Begin, AddFinalizer, MarkDeleting, DeletePolicy, PolicyMissing,
             ListPods, RemoveFinalizer, Start, CreatePolicy, PolicyExists, MarkProvisioned,
             PodMissing, StripFails, Finish, Strip, Label, FinalizerFails, FailedLost, DeletionFails,
             SyncOthers, Edit, Delete, PodComes, PodGoes, Ready, vars, caches
    <2> QED BY <2>1, <2>2, <2>3
<1>p. /\ pc' \notin {"label", "netpol", "entities", "pods"}
      /\ pc' = "finalizer" => res'.deleting
      /\ pc' \in {"finalizer", "start"} => res'.phase # "Provisoned"
    <2>1. CASE Begin
        <3>1. CASE UNCHANGED <<res, pc>>
            BY <2>1, <3>1, <1>d DEF Begin
        <3>2. CASE pc' = "finalizer" /\ res' = gcache /\ gcache.exists
            BY <2>1, <3>2, <1>d DEF Begin, Deleting, Fresh, Marked
        <3> QED BY <2>1, <3>1, <3>2 DEF Begin
    <2>2. CASE FinalizerFails
        <3>1. pc = "finalizer" /\ res \in Objects /\ res.phase # "Provisoned" /\ pc' = "start"
            BY <2>2, <1>d DEF FinalizerFails, Working
        <3>3. res' \in {WithPhase(res, f) : f \in {res.phase, "Deleting", "Failed"}}
            BY ONLY <2>2, ~group.exists DEF FinalizerFails, SetPhase, SetStatus
        <3>2. \E f \in Phases \ {"Provisoned"} : res' = WithPhase(res, f)
            BY <3>1, <3>3 DEF Objects, Phases
        <3> QED BY <3>1, <3>2, WithPhaseKeeps
    <2>3. CASE Start
        BY <2>3, <1>d DEF Start, AtStart, SetPhase, SetStatus
    <2>4. CASE SetFailed \/ Return
        BY <2>4 DEF SetFailed, Return
    <2>5. CASE UNCHANGED <<pc, res>>
        BY <2>5, <1>d DEF Deleting
    <2>6. CASE ~(Begin \/ FinalizerFails \/ Start)
        <3>1. SetFailed \/ Return \/ UNCHANGED <<pc, res>> \/ pc' = "provisioned"
            BY <2>6, <1>d DEF Next, Reconcile, AddFinalizer, MarkDeleting, DeletePolicy, PolicyMissing,
                 ListPods, RemoveFinalizer, CreatePolicy, PolicyExists, MarkProvisioned, PodMissing,
                 StripFails, Finish, Strip, Label, Fail, FailedLost, DeletionFails, SyncGroup, SyncOthers, Edit,
                 Delete, Restart, SetPhase, SetStatus, PodComes, PodGoes, Ready, vars, worker
        <3> QED BY <2>4, <2>5, <3>1
    <2> QED BY <2>1, <2>2, <2>3, <2>6
<1>1. queued' /\ gcache'.exists => gcache'.phase # "Provisoned"
    BY <1>d, <1>q DEF Deleting
<1>2. Deleting'
    BY <1>d, <1>g, <1>l, <1>p, <1>1 DEF Deleting
<1> QED BY <1>l, <1>2 DEF Found

\* How a pass of a marked Group moves: a new request is a pass's or comes with a new copy.
LEMMA DeletionStep ==
    ASSUME TypeOK, Working, Generations, OnPods, Marked, Fresh, Deleting, Found, group.exists,
           [Next]_vars, ~raced', ~wentOn'
    PROVE  Deleting' /\ Found'
<1>d. /\ group.deleting /\ ~Current(group) /\ group \in Objects /\ group' \in Objects
      /\ pc \in {"idle", "finalizer", "netpol", "entities", "pods"}
      /\ pc # "idle" \/ queued \/ event \/ gcache # group
    BY GroupMoves DEF Deleting, TypeOK, Moves
<1>f. pc = "finalizer" => res.deleting /\ res.finalizer
    BY DEF Deleting, Marked
<1>e. pc \in {"netpol", "entities", "pods"} => group.phase # "Provisoned"
    BY DEF Deleting
<1>q. queued /\ gcache.exists /\ pc # "idle" => gcache.phase # "Provisoned"
    BY DEF Deleting
<1> DEFINE Retries == /\ pc \in {"finalizer", "netpol", "entities", "pods"} /\ pc' = "idle" /\ queued'
                      /\ UNCHANGED <<group, gcache, labels, lcache, pod, event>>
<1>1. CASE Begin
    <2>1. UNCHANGED <<group, gcache, labels, lcache, pod, event>> /\ ~queued' /\ queued /\ pc = "idle"
        BY <1>1 DEF Begin, store, caches, pods
    <2>2. gcache.deleting
        BY <1>d, <2>1 DEF Fresh, Marked
    <2>3. CASE pc' = "finalizer" /\ res' = gcache
        <3>1. Deleting'
            BY <1>d, <2>1, <2>2, <2>3 DEF Deleting
        <3> QED BY <2>1, <2>3, <3>1 DEF Found
    <2>4. CASE pc' = "idle" /\ gcache # group
        <3>1. Deleting'
            BY <1>d, <2>1, <2>4 DEF Deleting
        <3> QED BY <2>1, <2>4, <3>1 DEF Found
    <2>5. gcache = group => pc' = "finalizer" /\ res' = gcache
        BY <1>1, <1>d DEF Begin, Current
    <2> QED BY <1>1, <2>1, <2>3, <2>4, <2>5 DEF Begin
<1>2. CASE MarkDeleting
    <2>1. /\ group'.exists /\ group'.deleting /\ group'.phase = "Deleting" /\ pc = "finalizer"
          /\ pc' = "netpol"
        BY <1>2, <1>d, PhaseSet DEF MarkDeleting, Go, Phases
    <2>2. UNCHANGED <<gcache, labels, lcache, pod, queued>>
        BY <1>2 DEF MarkDeleting, caches, pods
    <2>3. queued /\ gcache.exists => gcache.phase # "Provisoned"
        BY <1>q, <2>1
    <2>4. Deleting'
        BY <2>1, <2>2, <2>3 DEF Deleting, Current
    <2> QED BY <2>1, <2>2, <2>4 DEF Found
<1>3. CASE DeletePolicy
    <2>1. /\ UNCHANGED <<group, gcache, labels, lcache, pod, queued>> /\ pc = "netpol"
          /\ pc' = "entities" /\ todo' = {p \in lcache : p[2] = "entity"}
        BY <1>3 DEF DeletePolicy, caches, pods
    <2>2. Deleting'
        BY <1>d, <1>e, <1>q, <2>1 DEF Deleting
    <2> QED BY <2>1, <2>2 DEF Found
<1>4. CASE Retries
    <2>1. Deleting'
        BY <1>4, <1>d, <1>e DEF Deleting
    <2> QED BY <1>4, <2>1 DEF Found
<1>5. CASE PolicyMissing \/ StripFails \/ DeletionFails \/ FailedLost
    <2>1. Retries
        BY <1>5, <1>d, <1>f DEF PolicyMissing, StripFails, DeletionFails, FailedLost, AtStart, Return,
                            store, caches, pods
    <2> QED BY <1>4, <2>1
<1>6. ASSUME NEW p \in Places, Strip(p) PROVE Deleting' /\ Found'
    <2>1. /\ UNCHANGED <<group, gcache, lcache, pod, queued, pc>> /\ pc \in {"entities", "pods"}
          /\ labels' = labels \ {p} /\ todo' = todo \ {p}
        BY <1>6 DEF Strip, caches, pods
    <2>2. Deleting'
        BY <1>d, <1>e, <1>q, <2>1 DEF Deleting
    <2>3. Found'
        BY <2>1 DEF Found
    <2> QED BY <2>2, <2>3
<1>7. CASE ListPods
    <2>1. /\ UNCHANGED <<group, gcache, labels, lcache, pod, queued>> /\ pc = "entities" /\ todo = {}
          /\ pc' = "pods" /\ todo' = {p \in lcache : p[2] = "pod"}
        BY <1>7 DEF ListPods, store, caches, pods
    <2>2. \A e \in Provisioned : pod[e] = "new" => <<e, "pod">> \notin labels
        BY ONLY <1>7, ~raced', Zenon DEF ListPods
    <2>3. Deleting'
        BY <1>d, <1>e, <1>q, <2>1 DEF Deleting
    <2>4. Found'
        BY <2>1, <2>2 DEF Found
    <2> QED BY <2>3, <2>4
<1>8. CASE RemoveFinalizer
    <2>1. pc = "pods" /\ todo = {} /\ UNCHANGED <<gcache, lcache, labels, pod>>
        BY <1>8 DEF RemoveFinalizer, caches, pods
    <2>2. labels = {}
        <3>1. \A e \in Entities : <<e, "entity">> \notin labels
            BY <2>1 DEF Found
        <3>2. \A e \in Provisioned : <<e, "pod">> \notin labels
            BY <2>1 DEF Found
        <3> QED BY <3>1, <3>2 DEF TypeOK, Places
    <2>3. CASE SetFailed /\ queued'
        <3>1. /\ group'.exists /\ group'.deleting /\ group'.phase = "Failed" /\ pc' = "idle"
            BY <1>d, <2>3, FailedSet
        <3>2. Deleting'
            BY <2>3, <3>1 DEF Deleting, Current
        <3> QED BY <2>1, <2>2, <3>2 DEF Found
    <2>4. CASE /\ group' = Wrote([group EXCEPT !.exists = FALSE]) /\ pc' = "policy"
               /\ UNCHANGED queued
        <3> DEFINE h == [group EXCEPT !.exists = FALSE]
        <3>1. h \in Objects /\ ~h.exists /\ h.deleting /\ h.phase = group.phase
            BY <1>d DEF Objects
        <3>2. group' = Wrote(h)
            BY <2>4
        <3> HIDE DEF h
        <3>3. ~group'.exists /\ group'.deleting /\ group'.phase = group.phase
            BY <3>1, <3>2, WroteKeeps
        <3>4. Deleting'
            BY <1>e, <1>q, <2>1, <2>2, <2>4, <3>3 DEF Deleting, Current
        <3> QED BY <2>1, <2>2, <3>4 DEF Found
    <2> QED BY <1>8, <2>3, <2>4 DEF RemoveFinalizer
<1>9. CASE SyncGroup
    <2>1. /\ UNCHANGED <<group, labels, lcache, pod, pc, res, todo>> /\ gcache' = group /\ queued'
          /\ ~event' /\ (gcache # group \/ event)
        BY <1>9 DEF SyncGroup, store, pods, worker
    <2>2. group.phase = "Provisoned" => pc = "idle"
        BY <2>1 DEF Deleting
    <2>3. pc = "finalizer" => res.deleting
        BY <1>f
    <2>4. Deleting'
        BY <1>d, <2>1, <2>2, <2>3 DEF Deleting
    <2> QED BY <2>1, <2>4 DEF Found
<1>10. CASE SyncOthers
    <2>1. /\ UNCHANGED <<group, gcache, labels, pc, res, todo, queued, event>> /\ lcache' = labels
        BY <1>10 DEF SyncOthers, worker
    <2>2. Deleting'
        BY <2>1 DEF Deleting
    <2> QED BY <2>1, <2>2 DEF Found
<1>11. ASSUME NEW e \in Provisioned, PodComes(e) \/ PodGoes(e) \/ Ready(e) PROVE Deleting' /\ Found'
    <2>1. /\ UNCHANGED <<group, gcache, lcache, pc, res, todo, queued, event>>
        BY <1>11 DEF PodComes, PodGoes, Ready, caches, worker
    <2>2. Deleting'
        BY <2>1, <1>d DEF Deleting
    <2>3. CASE PodComes(e)
        <3>1. /\ pod'[e] = "new" /\ (\A d \in Provisioned \ {e} : pod'[d] = pod[d])
              /\ labels' = labels \cup (IF <<e, "entity">> \in lcache THEN {<<e, "pod">>} ELSE {})
            BY <2>3 DEF PodComes, TypeOK
        <3>2. <<e, "entity">> \in lcache <=> <<e, "entity">> \in labels
            BY <2>3 DEF PodComes
        <3>3. <<e, "pod">> \notin labels
            BY <2>3 DEF PodComes, OnPods
        <3>4. \A d \in Entities : <<d, "entity">> \in labels' <=> <<d, "entity">> \in labels
            BY <3>1
        <3>5. \A d \in Provisioned \ {e} : <<d, "pod">> \in labels' <=> <<d, "pod">> \in labels
            BY <3>1
        <3>6. pc = "pods" => <<e, "pod">> \notin labels'
            <4>1. pc = "pods" => <<e, "entity">> \notin labels
                BY GroupAssumption DEF Found, GroupAssumption
            <4> QED BY <3>1, <3>2, <3>3, <4>1
        <3> QED BY <2>1, <2>2, <3>1, <3>4, <3>5, <3>6 DEF Found
    <2>4. CASE PodGoes(e)
        <3>1. /\ labels' = labels \ {<<e, "pod">>} /\ (\A d \in Provisioned \ {e} : pod'[d] = pod[d])
            BY <2>4 DEF PodGoes, TypeOK
        <3> QED BY <2>1, <2>2, <3>1 DEF Found
    <2>5. CASE Ready(e)
        BY <2>1, <2>2, <2>5 DEF Ready, Found
    <2> QED BY <1>11, <2>3, <2>4, <2>5
<1>12. CASE UNCHANGED vars
    BY <1>12 DEF vars, store, caches, pods, worker, Deleting, Found
<1>13. CASE (\E t \in Targets : Edit(t)) \/ Restart
    <2>1. ~Busy
        BY <1>13 DEF Edit, Restart
    <2> QED BY <1>d, <2>1 DEF Busy, caches
<1>14. CASE AddFinalizer \/ Start \/ FinalizerFails \/ Fail \/ CreatePolicy \/ PolicyExists
             \/ MarkProvisioned \/ PodMissing \/ Finish \/ (\E p \in Places : Label(p)) \/ Delete
    <2>1. ~FinalizerFails
        BY ONLY group.exists, ~wentOn', Zenon DEF FinalizerFails
    <2> QED
        BY <1>14, <1>d, <1>f, <2>1 DEF AddFinalizer, Start, AtStart, Fail, CreatePolicy, PolicyExists,
                  MarkProvisioned, PodMissing, Finish, Label, Delete
<1> QED
    BY <1>1, <1>2, <1>3, <1>5, <1>6, <1>7, <1>8, <1>9, <1>10, <1>11, <1>12, <1>13, <1>14
       DEF Next, Reconcile

LEMMA WentOnStays == [Next]_vars => (wentOn => wentOn')
<1> SUFFICES ASSUME [Next]_vars, wentOn PROVE wentOn'
    OBVIOUS
<1>1. CASE FinalizerFails
    BY ONLY <1>1, wentOn, Zenon DEF FinalizerFails
<1>2. CASE ~FinalizerFails
    BY <1>2 DEF Next, Reconcile, Begin, AddFinalizer, MarkDeleting, DeletePolicy, PolicyMissing, ListPods,
             RemoveFinalizer, Start, CreatePolicy, PolicyExists, MarkProvisioned, PodMissing,
             StripFails, Finish, Strip, Label, Fail, FailedLost, DeletionFails, SyncGroup, SyncOthers, Edit,
             Delete, Restart, PodComes, PodGoes, Ready, vars, bounds
<1> QED BY <1>1, <1>2

LEMMA CleanStep ==
    ASSUME TypeOK, Working, DeletionIsMeant, Generations, Due, OnPods, Marked, [Next]_vars,
           raced \/ Fresh, raced \/ wentOn \/ Clean
    PROVE  raced' \/ wentOn' \/ Clean'
<1> SUFFICES ASSUME ~raced', ~wentOn' PROVE Clean'
    OBVIOUS
<1>1. Fresh /\ Clean /\ Moves
    BY GroupMoves, CacheMoves, WentOnStays
<1>2. CASE ~Leaving /\ ~Leaving'
    BY <1>1, <1>2, FinalizedStep DEF Clean
<1>3. CASE ~Leaving /\ Leaving'
    <2>1. Delete
        BY <1>1, <1>3 DEF Moves, DeletionIsMeant
    <2> QED BY <1>1, <1>3, <2>1, DeleteStep DEF Clean
<1>4. CASE Leaving
    <2>1. Leaving' /\ Deleting /\ Found
        BY <1>1, <1>4 DEF Moves, Leaving, Clean
    <2> QED BY <1>1, <2>1, GoneStep, DeletionStep DEF Clean
<1> QED BY <1>2, <1>3, <1>4

\* Types, and that a pass has a copy of the Group, means the deletion it carries
\* out, creates the policy before it labels, and in calm behaviours applies the target
\* of the Group (GroupReconciler.Reconcile).
THEOREM Invariance == Spec => []IInv
<1>1. IInv /\ [Next]_vars => IInv'
    <2>1. IInv /\ [Next]_vars => TypeOK' /\ Working' /\ DeletionIsMeant' /\ Guarded'
        BY TypeStep, MeantStep, GuardedStep DEF IInv
    <2>2. IInv /\ [Next]_vars => Generations' /\ Due' /\ OnPods'
        BY GenerationsStep, DueStep, OnPodsStep DEF IInv
    <2>3. IInv /\ [Next]_vars => (raced \/ Fresh)' /\ (raced \/ lost \/ Leaving \/ Calm)'
        BY FreshStep, CalmStep DEF IInv
    <2>4. IInv /\ [Next]_vars => Marked' /\ (raced \/ wentOn \/ Clean)'
        BY MarkedStep, CleanStep DEF IInv
    <2> QED BY <2>1, <2>2, <2>3, <2>4 DEF IInv
<1> QED BY InitHolds, <1>1, PTL DEF Spec

\* The variables of Reconcile and of the caches keep their types.
THEOREM TypesHold == Spec => []TypeOK
<1>1. IInv => TypeOK
    BY DEF IInv
<1> QED BY Invariance, <1>1, PTL

\* In every interleaving of passes, edits, restarts, faults and pods, no entity or
\* pod carries the label of a Group without a NetworkPolicy, unless the Group is
\* being deleted (Reconcile, ClusterResourceHandler.Handle).
THEOREM LabelsGuarded == Spec => []LabelsAreGuarded
<1>1. IInv => LabelsAreGuarded
    BY DEF IInv, Guarded, Leaving, Untouched, LabelsAreGuarded
<1> QED BY Invariance, <1>1, PTL

\* A Group that is left in peace, and at rest, and whose failures were recorded: its
\* status is the one of its generation, and nothing is being labelled.
LEMMA AtRest == ASSUME IInv, Settled, ~raced, ~lost PROVE Calm /\ Current(group) /\ pc # "label"
BY DEF IInv, Settled, Busy, Leaving, Due, caches

\* Edits and restarts in between passes, and calls that fail in any place of a pass and
\* are recorded, leave no Group at rest whose target is not on its entities and their
\* pods (Reconcile, updateLabelsForEntities, ErrorDelegateHandler).
THEOREM CalmTargetsApplied == Spec => []CalmApplied
<1>1. ASSUME IInv, Settled, ~raced, ~lost PROVE Applied
    <2>1. \A p \in Members : Right(p)
        BY <1>1, AtRest DEF Calm
    <2> QED BY <2>1 DEF Right, Members, Applied
<1>2. IInv => CalmApplied
    BY <1>1 DEF CalmApplied
<1> QED BY <1>2, Invariance, PTL

\* However pods come and go, a Group at rest, whose failures were recorded, has put its
\* label on a pod just if it has put it on the entity (Reconcile; podMutator, which
\* copies the labels).
THEOREM PodsAlwaysAgree == Spec => []PodsFollow
<1>1. IInv => PodsFollow
    BY AtRest, AppliedAgree DEF PodsFollow, Agree
<1> QED BY <1>1, Invariance, PTL

\* A Group that is deleted in peace leaves no label behind, whichever calls of its
\* deletion fail and however often it is retried (GetObjectsToDelete), unless Reconcile
\* went on after a failed write of handleFinalizer.
THEOREM GoesClean == Spec => []CalmGoneClean
<1>1. IInv => CalmGoneClean
    BY DEF IInv, Clean, Leaving, Deleting, CalmGoneClean
<1> QED BY <1>1, Invariance, PTL
=============================================================================
