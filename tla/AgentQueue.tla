------------------------------ MODULE AgentQueue ----------------------------
(***************************************************************************)
(* The message queue of an agent (cmd/agent/main.go), in the memory of the *)
(* agent's process: handleTask appends what the Task controller posts, and *)
(* handleSync hands all of it to a client that asks with an empty body.    *)
(* Every request runs in a goroutine of its own.  Its answer may not       *)
(* reach the client, and the process may crash.  A request that is sent    *)
(* again, as by a second run of a Task, is a request of its own.           *)
(***************************************************************************)
EXTENDS Naturals, Sequences

CONSTANTS
    Posts,      \* POST /task requests
    Payload,    \* [Posts -> {"object", "string", "other"}]: what the body decodes as
    Syncs,      \* POST /sync requests without a body
    MaxCrashes  \* bound

ASSUME AgentAssumption ==
    /\ Payload \in [Posts -> {"object", "string", "other"}]
    /\ "free" \notin Syncs
    /\ MaxCrashes \in Nat

VARIABLES
    queue,   \* messageQueue.messages: the posts it holds
    mutex,   \* the sync that holds messageQueue's lock across two steps, or "free"
    post,    \* [Posts -> {"sent", "queued", "ok", "refused", "lost"}]
    sync,    \* [Syncs -> {"sent", "copied", "cleared", "ok", "lost"}]
    batch,   \* [Syncs -> Seq(Posts)]: response.Messages
    crashes

vars == <<queue, mutex, post, sync, batch, crashes>>

Init ==
    /\ queue = <<>> /\ mutex = "free"
    /\ post = [p \in Posts |-> "sent"]
    /\ sync = [s \in Syncs |-> "sent"]
    /\ batch = [s \in Syncs |-> <<>>]
    /\ crashes = 0

\* A body is a QueueMessage, or a JSON string that contains one.
Decodable(p) == Payload[p] \in {"object", "string"}
Messages == {p \in Posts : Decodable(p)}

\* Mutant of Accept: the lock is not taken.
AcceptUnlocked(p) ==
    /\ post[p] = "sent" /\ Decodable(p)
    /\ queue' = Append(queue, p)
    /\ post' = [post EXCEPT ![p] = "queued"]
    /\ UNCHANGED <<mutex, sync, batch, crashes>>

\* handleTask decodes the body, appends under the lock ...
Accept(p) ==
    /\ post[p] = "sent" /\ Decodable(p) /\ mutex = "free"
    /\ queue' = Append(queue, p)
    /\ post' = [post EXCEPT ![p] = "queued"]
    /\ UNCHANGED <<mutex, sync, batch, crashes>>

\* ... and answers 200, which may get lost; or it answers 400.
AnswerPost(p) ==
    /\ post[p] = "queued"
    /\ \E r \in {"ok", "lost"} : post' = [post EXCEPT ![p] = r]
    /\ UNCHANGED <<queue, mutex, sync, batch, crashes>>

RefusePost(p) ==
    /\ post[p] = "sent" /\ ~Decodable(p)
    /\ post' = [post EXCEPT ![p] = "refused"]
    /\ UNCHANGED <<queue, mutex, sync, batch, crashes>>

LosePost(p) ==
    /\ post[p] = "sent"
    /\ post' = [post EXCEPT ![p] = "lost"]
    /\ UNCHANGED <<queue, mutex, sync, batch, crashes>>

\* Mutant of Copy: the lock is not taken.
CopyUnlocked(s) ==
    /\ sync[s] = "sent"
    /\ mutex' = s
    /\ batch' = [batch EXCEPT ![s] = queue]
    /\ sync' = [sync EXCEPT ![s] = "copied"]
    /\ UNCHANGED <<queue, post, crashes>>

\* handleSync: lock, and copy the messages into the response ...
Copy(s) ==
    /\ sync[s] = "sent" /\ mutex = "free"
    /\ mutex' = s
    /\ batch' = [batch EXCEPT ![s] = queue]
    /\ sync' = [sync EXCEPT ![s] = "copied"]
    /\ UNCHANGED <<queue, post, crashes>>

\* Mutant of Clear: the messages stay.
ClearNothing(s) ==
    /\ sync[s] = "copied"
    /\ mutex' = "free"
    /\ sync' = [sync EXCEPT ![s] = "cleared"]
    /\ UNCHANGED <<queue, post, batch, crashes>>

\* ... clear the queue and unlock.
Clear(s) ==
    /\ sync[s] = "copied"
    /\ queue' = <<>> /\ mutex' = "free"
    /\ sync' = [sync EXCEPT ![s] = "cleared"]
    /\ UNCHANGED <<post, batch, crashes>>

\* The response is encoded after that, and may not arrive.
AnswerSync(s) ==
    /\ sync[s] = "cleared"
    /\ \E r \in {"ok", "lost"} : sync' = [sync EXCEPT ![s] = r]
    /\ UNCHANGED <<queue, mutex, post, batch, crashes>>

\* The process crashes with the requests it was serving.
Crash ==
    /\ crashes < MaxCrashes
    /\ crashes' = crashes + 1
    /\ queue' = <<>> /\ mutex' = "free"
    /\ post' = [p \in Posts |-> IF post[p] = "queued" THEN "lost" ELSE post[p]]
    /\ batch' = [s \in Syncs |-> IF sync[s] = "copied" THEN <<>> ELSE batch[s]]
    /\ sync' = [s \in Syncs |-> IF sync[s] \in {"copied", "cleared"} THEN "lost" ELSE sync[s]]

HandleTask(p) == Accept(p) \/ AnswerPost(p) \/ RefusePost(p) \/ LosePost(p)
HandleSync(s) == Copy(s) \/ Clear(s) \/ AnswerSync(s)

Next == Crash \/ (\E p \in Posts : HandleTask(p)) \/ (\E s \in Syncs : HandleSync(s))

Spec == Init /\ [][Next]_vars
-----------------------------------------------------------------------------
In(p, seq) == \E i \in DOMAIN seq : seq[i] = p

\* What a sync has taken out of the queue for good.
Handed(s) == IF sync[s] = "copied" THEN <<>> ELSE batch[s]

\* Types, and that what cannot be decoded is never in the queue.
TypeOK ==
    /\ queue \in Seq(Messages)
    /\ mutex \in Syncs \cup {"free"}
    /\ post \in [Posts -> {"sent", "queued", "ok", "refused", "lost"}]
    /\ sync \in [Syncs -> {"sent", "copied", "cleared", "ok", "lost"}]
    /\ batch \in [Syncs -> Seq(Messages)]
    /\ crashes \in 0..MaxCrashes

\* No message is handed to two clients, twice to one, or handed and kept.
HandedOnce ==
    /\ \A s, t \in Syncs : \A i \in DOMAIN Handed(s) : \A j \in DOMAIN Handed(t) :
        Handed(s)[i] = Handed(t)[j] => s = t /\ i = j
    /\ \A s \in Syncs : \A i \in DOMAIN Handed(s) : ~In(Handed(s)[i], queue)
    /\ \A i, j \in DOMAIN queue : queue[i] = queue[j] => i = j

\* A message whose post was answered with 200 is in the queue or was handed to a
\* client, unless the process crashed: no interleaving of the handlers drops it.
AcceptedIsKept ==
    \A p \in Posts : post[p] = "ok" /\ crashes = 0 =>
        In(p, queue) \/ \E s \in Syncs : In(p, Handed(s))

\* The handlers and their lock implement an atomic mailbox: messages are handed
\* over in the order in which they were accepted, all at a time.
Box == INSTANCE Mailbox WITH
    Takers <- Syncs, box <- queue, given <- [s \in Syncs |-> Handed(s)]

ImplementsMailbox == Box!BoxSpec

\* A message that was answered with 200 reaches a client.  (TLC refutes it: the
\* queue is cleared before the response is on its way.)
AcceptedIsReceived ==
    \A p \in Posts : post[p] = "ok" /\ crashes = 0 =>
        In(p, queue) \/ \E s \in Syncs : In(p, batch[s]) /\ sync[s] # "lost"
=============================================================================
