------------------------------ MODULE Delivery ------------------------------
(***************************************************************************)
(* One-time Tasks from the client that asks for them to the agents that    *)
(* take them: kubectl robo task, which creates a Task and waits for its    *)
(* phase (cmd/cli/main.go); POST /sync with a target, which makes an agent *)
(* create a Task for another (cmd/agent/main.go); the workers of the Task  *)
(* controller, each of which stays with its Task until the last agent has  *)
(* answered (internal/controller/task_controller.go); and the agents,      *)
(* which may not answer, since the requests have no time limit.  The queue *)
(* of an agent is AgentQueue, the informer's view of a Task, its edits and *)
(* its clock are TaskController.                                           *)
(***************************************************************************)
EXTENDS FiniteSets, Naturals

CONSTANTS
    Tasks,      \* requests of clients, each of which creates one Task
    Agents,     \* and the entities they serve
    Cli,        \* stands for the command line as a sender
    Sender,     \* [Tasks -> Agents \cup {Cli}]: who creates the Task
    Target,     \* [Tasks -> SUBSET Agents]: the entities of spec.targets
    Late,       \* the entities that do not exist at first
    Permanent,  \* the Tasks with spec.persistant
    Workers,    \* MaxConcurrentReconciles: 10
    Frail,      \* the agents that may hang, and requests to whom may fail
    MaxUpsets   \* bound: of restarts and failures together

ASSUME DeliveryAssumption ==
    /\ Cli \notin Agents
    /\ Sender \in [Tasks -> Agents \cup {Cli}] /\ Target \in [Tasks -> SUBSET Agents]
    /\ Late \subseteq Agents /\ Permanent \subseteq Tasks
    /\ Workers \in Nat \ {0} /\ MaxUpsets \in Nat
    /\ Frail \subseteq Agents

VARIABLES
    phase,     \* [Tasks -> Phases]: of the Task in the API server; "none" before it exists
    deleting,  \* Tasks that are being deleted
    queued,    \* [Tasks -> {"no", "later", "due"}]: its request in the work queue
    pc,        \* [Tasks -> {"idle", "resolve", "send", "archive"}]: its pass
    open,      \* [Tasks -> SUBSET Agents]: the requests of the pass that have not ended
    got,       \* [Agents -> SUBSET Tasks]: what handleTask has put into the queue
    client,    \* [Tasks -> {"start", "waiting", "created", "ok", "lost", ...}]
    entity,    \* [Agents -> {"absent", "created", "Provisoned"}]
    hung,      \* agents that do not answer
    failed,    \* <<task, agent>>: requests that failed
    hit,       \* Tasks one of whose status writes failed
    restarts

api == <<phase, deleting>>
manager == <<queued, pc, open>>
env == <<entity, hung, failed, hit, restarts>>
deliveryVars == <<api, manager, got, client, env>>

Phases == {"none", "", "Running", "Completed", "Archiving", "Failed", "gone"}

DeliveryInit ==
    /\ phase = [t \in Tasks |-> "none"] /\ deleting = {}
    /\ queued = [t \in Tasks |-> "no"] /\ pc = [t \in Tasks |-> "idle"]
    /\ open = [t \in Tasks |-> {}] /\ got = [a \in Agents |-> {}]
    /\ client = [t \in Tasks |-> "start"]
    /\ entity = [a \in Agents |-> IF a \in Late THEN "absent" ELSE "Provisoned"]
    /\ hung = {}
    /\ failed = {} /\ hit = {} /\ restarts = 0

Goto(t, l) == pc' = [pc EXCEPT ![t] = l]
SetPhase(t, p) == phase' = [phase EXCEPT ![t] = p]
Request(t, q) == queued' = [queued EXCEPT ![t] = q]

Exists(t) == phase[t] \notin {"none", "gone"}
Room == restarts + Cardinality(failed) + Cardinality(hit) < MaxUpsets

(***************************************************************************)
(* Clients.                                                                *)
(***************************************************************************)
\* The Task is new, and the watch requests a pass for it.
New(t) == client[t] = "start" /\ SetPhase(t, "") /\ Request(t, "due")

Says(t, c) == client' = [client EXCEPT ![t] = c]

\* kubectl robo task creates the Task ...
CliCreate(t) ==
    /\ Sender[t] = Cli /\ New(t) /\ Says(t, "waiting")
    /\ UNCHANGED <<deleting, pc, open, got, env>>

\* ... and looks at its phase every two seconds, ...
Poll(t) ==
    /\ client[t] = "waiting" /\ phase[t] \in {"Completed", "Archiving"}
    /\ Says(t, "completed")
    /\ UNCHANGED <<api, manager, got, env>>

\* ... until five minutes are over, or the Task cannot be read.
GiveUp(t) ==
    /\ client[t] = "waiting"
    /\ Says(t, "panic")
    /\ UNCHANGED <<api, manager, got, env>>

\* handleSync with a target creates a Task, or answers 500; ...
SyncCreate(t) ==
    /\ Sender[t] \in Agents \ hung /\ client[t] = "start"
    /\ \/ New(t) /\ Says(t, "created")
       \/ Says(t, "refused") /\ UNCHANGED <<phase, queued>>
    /\ UNCHANGED <<deleting, pc, open, got, env>>

\* ... and answers 200, unless the agent stops before that.
SyncAnswer(t) ==
    /\ client[t] = "created"
    /\ \E c \in {"ok", "lost"} : Says(t, c)
    /\ UNCHANGED <<api, manager, got, env>>

(***************************************************************************)
(* The Task controller.                                                    *)
(***************************************************************************)
Busy == {t \in Tasks : pc[t] # "idle"}
Takes(t) == queued[t] = "due" /\ pc[t] = "idle" /\ Cardinality(Busy) < Workers

\* Mutant of Begin: a worker takes a Task only when another one is left.
BeginSpare(t) ==
    /\ Takes(t) /\ Cardinality(Busy) + 1 < Workers
    /\ t \notin deleting /\ phase[t] # "Archiving"
    /\ Request(t, "no") /\ Goto(t, "resolve")
    /\ UNCHANGED <<api, open, got, client, env>>

\* A worker takes the request of a Task.
Begin(t) ==
    /\ Takes(t) /\ t \notin deleting /\ phase[t] # "Archiving"
    /\ Request(t, "no") /\ Goto(t, "resolve")
    /\ UNCHANGED <<api, open, got, client, env>>

\* One that is archived is deleted, which requests another pass, and this one
\* goes on with it.
BeginArchived(t) ==
    /\ Takes(t) /\ t \notin deleting /\ phase[t] = "Archiving"
    /\ deleting' = deleting \cup {t}
    /\ Goto(t, "resolve")
    /\ UNCHANGED <<phase, queued, open, got, client, env>>

\* handleFinalizer of one that is deleted removes it.
Remove(t) ==
    /\ Takes(t) /\ t \in deleting
    /\ SetPhase(t, "gone") /\ deleting' = deleting \ {t} /\ Request(t, "no")
    /\ UNCHANGED <<pc, open, got, client, env>>

Found(t) == \A a \in Target[t] : entity[a] # "absent"
Ready(t) == \A a \in Target[t] : entity[a] = "Provisoned"

\* A target that is not found ends the Task's passes.
Unresolved(t) ==
    /\ pc[t] = "resolve" /\ ~Found(t)
    /\ SetPhase(t, "Failed") /\ Goto(t, "idle")
    /\ UNCHANGED <<deleting, queued, open, got, client, env>>

\* Mutant of NotReady: no other pass is requested.
NotReadyStops(t) ==
    /\ pc[t] = "resolve" /\ Found(t) /\ ~Ready(t)
    /\ Goto(t, "idle")
    /\ UNCHANGED <<api, queued, open, got, client, env>>

Later(t) == queued' = [queued EXCEPT ![t] = IF @ = "due" THEN @ ELSE "later"]

\* An Entity is not provisioned: again in 30 seconds.
NotReady(t) ==
    /\ pc[t] = "resolve" /\ Found(t) /\ ~Ready(t)
    /\ Goto(t, "idle") /\ Later(t)
    /\ UNCHANGED <<api, open, got, client, env>>

\* Phase Running, and a goroutine for each Entity.
Send(t) ==
    /\ pc[t] = "resolve" /\ Ready(t)
    /\ SetPhase(t, "Running") /\ Goto(t, "send")
    /\ open' = [open EXCEPT ![t] = Target[t]]
    /\ UNCHANGED <<deleting, queued, got, client, env>>

Ended(t, a) == a \in open[t] /\ open' = [open EXCEPT ![t] = @ \ {a}]

\* An agent takes the request, and answers 200.
Take(t, a) ==
    /\ Ended(t, a) /\ a \notin hung
    /\ got' = [got EXCEPT ![a] = @ \cup {t}]
    /\ UNCHANGED <<api, queued, pc, client, env>>

\* A request fails, or its answer is lost: the goroutine ends with Tasking True.
RequestFails(t, a) ==
    /\ Ended(t, a) /\ a \in Frail /\ Room
    /\ failed' = failed \cup {<<t, a>>}
    /\ got' \in {got, [got EXCEPT ![a] = @ \cup {t}]}
    /\ UNCHANGED <<api, queued, pc, client, entity, hung, hit, restarts>>

\* Mutant of Complete: the first answer is enough.
CompleteEarly(t) ==
    /\ pc[t] = "send" /\ open[t] # Target[t]
    /\ open' = [open EXCEPT ![t] = {}]
    /\ SetPhase(t, "Completed") /\ Goto(t, "archive")
    /\ UNCHANGED <<deleting, queued, got, client, env>>

\* wg.Wait returns when all of them have ended.
Complete(t) ==
    /\ pc[t] = "send" /\ open[t] = {}
    /\ SetPhase(t, "Completed") /\ Goto(t, "archive")
    /\ UNCHANGED <<deleting, queued, open, got, client, env>>

\* A one-time Task is archived at once, and deleted an hour later.
Archive(t) ==
    /\ pc[t] = "archive" /\ Goto(t, "idle")
    /\ IF t \in Permanent THEN UNCHANGED <<phase, queued>>
       ELSE SetPhase(t, "Archiving") /\ Later(t)
    /\ UNCHANGED <<deleting, open, got, client, env>>

\* A status write fails; most errors end a Task's passes for good.
Fail(t) ==
    /\ pc[t] \in {"resolve", "archive"} \/ (pc[t] = "send" /\ open[t] = {})
    /\ Room /\ hit' = hit \cup {t}
    /\ phase' \in {phase, [phase EXCEPT ![t] = "Failed"]}
    /\ queued' \in {queued, [queued EXCEPT ![t] = "due"]}
    /\ Goto(t, "idle")
    /\ UNCHANGED <<deleting, open, got, client, entity, hung, failed, restarts>>

WakeUp(t) ==
    /\ queued[t] = "later" /\ Request(t, "due")
    /\ UNCHANGED <<api, pc, open, got, client, env>>

\* The manager restarts: passes, their requests and the work queue are lost, and
\* the initial list requests every Task.
Restart ==
    /\ Room /\ restarts' = restarts + 1
    /\ pc' = [t \in Tasks |-> "idle"] /\ open' = [t \in Tasks |-> {}]
    /\ queued' = [t \in Tasks |-> IF Exists(t) THEN "due" ELSE "no"]
    /\ UNCHANGED <<api, got, client, entity, hung, failed, hit>>

(***************************************************************************)
(* Entities and agents.                                                    *)
(***************************************************************************)
\* The Entity controller.
Provision(a) ==
    /\ entity[a] # "Provisoned"
    /\ entity' = [entity EXCEPT ![a] = IF @ = "absent" THEN "created" ELSE "Provisoned"]
    /\ UNCHANGED <<api, manager, got, client, hung, failed, hit, restarts>>

\* An agent stops to answer without closing its connections, and may go on later.
Hang(a) ==
    /\ a \in Frail
    /\ hung' = IF a \in hung THEN hung \ {a} ELSE hung \cup {a}
    /\ UNCHANGED <<api, manager, got, client, entity, failed, hit, restarts>>

Client(t) == CliCreate(t) \/ Poll(t) \/ GiveUp(t) \/ SyncCreate(t) \/ SyncAnswer(t)
TakeUp(t) == Begin(t) \/ BeginArchived(t) \/ Remove(t)
Pass(t) == Unresolved(t) \/ NotReady(t) \/ Send(t) \/ Complete(t) \/ Archive(t)

Advance(t) == TakeUp(t) \/ Pass(t) \/ WakeUp(t) \/ \E a \in Agents : Take(t, a)

DeliveryNext ==
    \/ Restart
    \/ \E t \in Tasks : Client(t) \/ Advance(t) \/ Fail(t)
    \/ \E t \in Tasks, a \in Agents : RequestFails(t, a)
    \/ \E a \in Agents : Provision(a) \/ Hang(a)

DeliverySpec == DeliveryInit /\ [][DeliveryNext]_deliveryVars

\* Goroutines run, delays end, a free worker takes what is due, and an agent that
\* is not hung answers.
FairSpec == DeliverySpec /\ \A t \in Tasks : WF_deliveryVars(Advance(t))
-----------------------------------------------------------------------------
Requests == Tasks \X Agents
Answers == {"start", "waiting", "completed", "panic", "created", "refused", "ok", "lost"}

\* Types, and that a request is open only in a pass that sends.
DeliveryTypeOK ==
    /\ phase \in [Tasks -> Phases] /\ deleting \subseteq Tasks
    /\ queued \in [Tasks -> {"no", "later", "due"}]
    /\ pc \in [Tasks -> {"idle", "resolve", "send", "archive"}]
    /\ open \in [Tasks -> SUBSET Agents] /\ got \in [Agents -> SUBSET Tasks]
    /\ \A t \in Tasks : open[t] # {} => pc[t] = "send"
    /\ entity \in [Agents -> {"absent", "created", "Provisoned"}]
    /\ client \in [Tasks -> Answers]
    /\ hung \subseteq Agents /\ hit \subseteq Tasks /\ failed \subseteq Requests
    /\ restarts \in Nat

\* Every agent the Task is for has it, or its request failed.
Served(t) == \A a \in Target[t] : t \in got[a] \/ <<t, a>> \in failed

\* "Task Completed!": every agent has put the payload into its queue, unless the
\* request to that agent failed; and so whatever restarts came in between.  (Of a Task
\* with DryRun, which is left out here, nothing is sent.)
CompletedIsServed ==
    \A t \in Tasks : client[t] = "completed" => Served(t)

\* A Task that a client was told of is not forgotten: it is served, a pass for it
\* is running or requested, or its phase says that it failed.  (One that met a failing
\* status write, t \in hit, is exempt: when the write of Failed fails as well, nothing
\* says so and nobody comes back to it.)
NoneForgotten ==
    \A t \in Tasks : client[t] \in {"waiting", "ok"} =>
        Served(t) \/ pc[t] # "idle" \/ queued[t] # "no" \/ phase[t] = "Failed" \/ t \in hit

\* Tasks whose worker waits for an agent that is hung.
Stuck == {t \in Tasks : open[t] \cap hung # {}}

\* The Tasks that are still to be served although nothing stands in their way: no
\* Entity is in the making and the agents of their own ones answer.
Owed == {t \in Tasks :
    /\ Exists(t) /\ ~Served(t) /\ phase[t] # "Failed" /\ t \notin hit
    /\ \A a \in Agents : entity[a] # "created"
    /\ Target[t] \cap hung = {}}

\* As long as agents that do not answer hold fewer workers than there are, such a
\* Task is served.
OthersAreServed == []<>(Owed = {} \/ Cardinality(Stuck) = Workers)

\* The same without that condition.  (TLC refutes it: as many Tasks for one agent
\* that hangs as there are workers stop all Tasks.)
AllAreServed == []<>(Owed = {})

\* "Task Completed!" means that the agents have it.  (TLC refutes it: a request
\* that failed completes the Task as well.)
CompletedIsDelivered ==
    \A t \in Tasks : client[t] = "completed" => \A a \in Target[t] : t \in got[a]
=============================================================================
