---------------------------- MODULE TaskDispatch ----------------------------
(***************************************************************************)
(* TaskReconciler.processEntities (internal/controller/task_controller.go):*)
(* one goroutine per entry of the entity list posts the payload to the     *)
(* entity's agent, and on success appends a condition to the Task with     *)
(* UpdateStatus.  All the goroutines pass the same pointer res to          *)
(* UpdateStatus, so the read-modify-write loops that StatusUpdate shows    *)
(* atomic for callers with a copy of their own here share one copy.        *)
(* No lock guards res, so each access takes two steps: r.Get and the       *)
(* decoder of an answer write the resourceVersion and then the status,     *)
(* setCondition reads the conditions and then stores a longer list, Update *)
(* encodes the resourceVersion and then the status.                        *)
(***************************************************************************)
EXTENDS Naturals

CONSTANTS
    N,      \* len(entityList.Items): one goroutine each
    Steps   \* attempts of UpdateStatus: 5 in the code

ASSUME DispatchAssumption == N \in Nat /\ Steps \in Nat \ {0}

Goroutines == 1..N

VARIABLES
    task,    \* the Task in the API server: [rv, conds, phase]
    cache,   \* the informer's copy
    res,     \* the copy the goroutines share: [rv, conds]
    g,       \* [Goroutines -> [pc, left, dry, body, ok]]
    posts,   \* [Goroutines -> Nat]: payloads the agent of the entity took
    conds,   \* [Goroutines -> {"none", "True"}]: the entity's own condition
    main,    \* the reconcile goroutine: "wait" for the group, "report", "done", "error"
    overlapped  \* history: an access to res began inside another goroutine's

vars == <<task, cache, res, g, posts, conds, main, overlapped>>

None == [i \in Goroutines |-> 0]
Inside == {"loading", "appending", "encoding", "decoding"}
Running == Inside \cup {"post", "get", "load", "append", "encode", "serve", "decode", "record"}

\* Every RequestHandler takes Spec.DryRun of res when it is made; goroutines that
\* have started refresh res in the meantime, so the values may differ.
Init ==
    /\ task = [rv |-> 1, conds |-> None, phase |-> "Running"]
    /\ cache = task
    /\ res = [rv |-> 1, conds |-> None]
    /\ \E dry \in [Goroutines -> BOOLEAN] :
          g = [i \in Goroutines |-> [pc |-> "post", left |-> Steps, dry |-> dry[i], ok |-> FALSE,
                                     body |-> [rv |-> 0, conds |-> None]]]
    /\ posts = None
    /\ conds = [i \in Goroutines |-> "none"]
    /\ main = "wait"
    /\ overlapped = FALSE

Goto(i, pc) == g' = [g EXCEPT ![i].pc = pc]

\* The first half of an access to res.
Enter(i) ==
    overlapped' = (overlapped \/ \E j \in Goroutines \ {i} : g[j].pc \in Inside)

\* RequestHandler.Handle gets a 200 from the agent, or with DryRun sends nothing.
PostOk(i) ==
    /\ g[i].pc = "post"
    /\ posts' = IF g[i].dry THEN posts ELSE [posts EXCEPT ![i] = @ + 1]
    /\ Goto(i, "get")
    /\ UNCHANGED <<task, cache, res, conds, main, overlapped>>

\* What a request that fails may leave at the agent: with DryRun none is sent.
Failed(i) == IF g[i].dry THEN {posts} ELSE {posts, [posts EXCEPT ![i] = @ + 1]}

\* Mutant of PostFails: the result of a failed request is recorded as well.
PostFailsRecorded(i) ==
    /\ g[i].pc = "post"
    /\ posts' \in Failed(i)
    /\ Goto(i, "get")
    /\ UNCHANGED <<task, cache, res, conds, main, overlapped>>

\* The agent is unreachable, answers another code, or its answer is lost:
\* Processor returns the error.  Before the third try the loop only sleeps, then
\* goes on as if the entity had been tasked and breaks, so the third try, the
\* channel failedEntities and the phase Failed behind it are never reached.
PostFails(i) ==
    /\ g[i].pc = "post"
    /\ posts' \in Failed(i)
    /\ Goto(i, "record")
    /\ UNCHANGED <<task, cache, res, conds, main, overlapped>>

\* UpdateStatus(res, setCondition): r.Get takes the informer's object ...
Get(i) ==
    /\ g[i].pc = "get"
    /\ g' = [g EXCEPT ![i].pc = "load", ![i].body = [rv |-> cache.rv, conds |-> cache.conds]]
    /\ UNCHANGED <<task, cache, res, posts, conds, main, overlapped>>

\* ... and copies it into the shared res, metadata first; the answer of an update
\* is decoded into res in that order, too.
Fill(i) ==
    /\ g[i].pc \in {"load", "decode"}
    /\ Enter(i)
    /\ res' = [res EXCEPT !.rv = g[i].body.rv]
    /\ Goto(i, IF g[i].pc = "load" THEN "loading" ELSE "decoding")
    /\ UNCHANGED <<task, cache, posts, conds, main>>

Loaded(i) ==
    /\ g[i].pc = "loading"
    /\ res' = [res EXCEPT !.conds = g[i].body.conds]
    /\ Goto(i, "append")
    /\ UNCHANGED <<task, cache, posts, conds, main, overlapped>>

\* append(GetConditions(), ...): the list that res has now.
Append(i) ==
    /\ g[i].pc = "append"
    /\ Enter(i)
    /\ g' = [g EXCEPT ![i].pc = "appending", ![i].body = [@ EXCEPT !.conds = res.conds]]
    /\ UNCHANGED <<task, cache, res, posts, conds, main>>

\* SetConditions stores it with the entity's own condition.
Store(i) ==
    /\ g[i].pc = "appending"
    /\ res' = [res EXCEPT !.conds = [g[i].body.conds EXCEPT ![i] = @ + 1]]
    /\ Goto(i, "encode")
    /\ UNCHANGED <<task, cache, posts, conds, main, overlapped>>

\* Update encodes whatever res holds, metadata first.
Encode(i) ==
    /\ g[i].pc = "encode"
    /\ Enter(i)
    /\ g' = [g EXCEPT ![i].pc = "encoding", ![i].body = [@ EXCEPT !.rv = res.rv]]
    /\ UNCHANGED <<task, cache, res, posts, conds, main>>

Send(i) ==
    /\ g[i].pc = "encoding"
    /\ g' = [g EXCEPT ![i].pc = "serve", ![i].body = [@ EXCEPT !.conds = res.conds]]
    /\ UNCHANGED <<task, cache, res, posts, conds, main, overlapped>>

\* Mutants of Serve: no resourceVersion is compared; the last attempt is not the
\* last; attempts do not count.
ServeBlind(i) ==
    /\ g[i].pc = "serve"
    /\ task' = [task EXCEPT !.rv = @ + 1, !.conds = g[i].body.conds]
    /\ g' = [g EXCEPT ![i].pc = "decode", ![i].body.rv = task.rv + 1]
    /\ UNCHANGED <<cache, res, posts, conds, main, overlapped>>

ServeForever(i) ==
    \/ g[i].body.rv = task.rv /\ ServeBlind(i)
    \/ /\ g[i].pc = "serve" /\ g[i].body.rv # task.rv
       /\ Goto(i, "get")
       /\ UNCHANGED <<task, cache, res, posts, conds, main, overlapped>>

\* The API server takes the body, or refuses it as stale.
Serve(i) ==
    /\ g[i].pc = "serve"
    /\ IF g[i].body.rv = task.rv
       THEN /\ task' = [task EXCEPT !.rv = @ + 1, !.conds = g[i].body.conds]
            /\ g' = [g EXCEPT ![i].pc = "decode", ![i].body.rv = task.rv + 1]
       ELSE /\ g' = [g EXCEPT ![i].left = @ - 1, ![i].pc =
                        IF g[i].left > 1 THEN "get" ELSE "record"]
            /\ UNCHANGED task
    /\ UNCHANGED <<cache, res, posts, conds, main, overlapped>>

\* The API server does not take the request, or its answer is lost: no retry.
UpdateFails(i) ==
    /\ g[i].pc \in {"serve", "decode"}
    /\ Goto(i, "record")
    /\ UNCHANGED <<task, cache, res, posts, conds, main, overlapped>>

\* The answer is decoded, and Processor returns nil.
Decoded(i) ==
    /\ g[i].pc = "decoding"
    /\ res' = [res EXCEPT !.conds = g[i].body.conds]
    /\ g' = [g EXCEPT ![i].pc = "record", ![i].ok = TRUE]
    /\ UNCHANGED <<task, cache, posts, conds, main, overlapped>>

\* UpdateStatus(&entity, Tasking True), its error ignored; break; wg.Done.
Record(i) ==
    /\ g[i].pc = "record"
    /\ conds' \in {conds, [conds EXCEPT ![i] = "True"]}
    /\ Goto(i, "done")
    /\ UNCHANGED <<task, cache, res, posts, main, overlapped>>

\* wg.Wait returns; the channel is closed and drained, and was empty.
Reap ==
    /\ main = "wait"
    /\ \A i \in Goroutines : g[i].pc = "done"
    /\ main' = "report"
    /\ UNCHANGED <<task, cache, res, g, posts, conds, overlapped>>

\* UpdateStatus(res) by the only goroutine left: atomic, or an error that
\* processEntities returns (StatusUpdate).
Report ==
    /\ main = "report"
    /\ \/ /\ task' = [task EXCEPT !.rv = @ + 1, !.phase = "Completed"]
          /\ main' = "done"
       \/ /\ main' = "error"
          /\ UNCHANGED task
    /\ UNCHANGED <<cache, res, g, posts, conds, overlapped>>

Informer ==
    /\ cache /= task
    /\ cache' = task
    /\ UNCHANGED <<task, res, g, posts, conds, main, overlapped>>

Goroutine(i) ==
    \/ PostOk(i) \/ PostFails(i) \/ Get(i) \/ Fill(i) \/ Loaded(i) \/ Append(i) \/ Store(i)
    \/ Encode(i) \/ Send(i) \/ Serve(i) \/ UpdateFails(i) \/ Decoded(i) \/ Record(i)

Next == Reap \/ Report \/ Informer \/ \E i \in Goroutines : Goroutine(i)

\* Goroutines are scheduled and every request is answered or fails.
Fairness ==
    /\ \A i \in Goroutines : WF_vars(Goroutine(i))
    /\ WF_vars(Reap \/ Report)

Spec == Init /\ [][Next]_vars
FairSpec == Spec /\ Fairness
-----------------------------------------------------------------------------
Copies == [rv : Nat, conds : [Goroutines -> Nat]]
Objects == [rv : Nat, conds : [Goroutines -> Nat], phase : {"Running", "Completed"}]
Locals == [pc : Running \cup {"done"}, left : 0..Steps, dry : BOOLEAN, ok : BOOLEAN, body : Copies]

\* Types, and that a goroutine of processEntities posts at most once.
TypeOK ==
    /\ task \in Objects /\ cache \in Objects /\ res \in Copies
    /\ g \in [Goroutines -> Locals]
    /\ posts \in [Goroutines -> 0..1]
    /\ conds \in [Goroutines -> {"none", "True"}]
    /\ main \in {"wait", "report", "done", "error"}
    /\ overlapped \in BOOLEAN

\* As long as no access to res began inside another one, sharing res cannot roll
\* a committed condition back: what a goroutine sends under the server's
\* resourceVersion holds all the server has.
CalmKept ==
    [][~overlapped' => \A i \in Goroutines : task'.conds[i] >= task.conds[i]]_vars

\* A condition of goroutine i in the Task means that its agent answered 200, or
\* that the request was a dry run, whoever's Update carried it there and whatever
\* accesses to res it was carried through.
ConditionMeansPosted ==
    \A i \in Goroutines : task.conds[i] > 0 => posts[i] > 0 \/ g[i].dry

\* The group is always reaped: no goroutine is lost in a retry.
Reaped == <>(main \in {"done", "error"})

\* One setCondition per successful request ("Conditions represents the latest
\* available observations of a Task's current state").
EachSuccessRecorded ==
    main = "done" => \A i \in Goroutines : g[i].ok => task.conds[i] >= 1

\* An entity whose request failed is retried or reported: it does not end up
\* with Tasking True ("Error processing entity (retrying)").
FailureReported ==
    \A i \in Goroutines : posts[i] = 0 /\ ~g[i].dry => conds[i] # "True"

\* CalmKept without its premise: UpdateStatus takes a copy that has every
\* committed condition, or is refused as stale.
CommittedKept ==
    [][\A i \in Goroutines : task'.conds[i] >= task.conds[i]]_vars
=============================================================================
