---------------------------- MODULE StatusUpdate ----------------------------
(***************************************************************************)
(* UpdateStatus and UpdateObj: read the object, apply the mutations, write *)
(* it back under its resourceVersion, and start over on a conflict, at     *)
(* most Steps times (retry.RetryOnConflict(retry.DefaultRetry, ...), five  *)
(* attempts).  Every controller of the operator changes every status this  *)
(* way, and an Entity's status is changed by its own reconciler and by the *)
(* reconcilers of several Tasks at once.                                   *)
(*                                                                         *)
(* The read is served by the manager's informer cache, which lags the API  *)
(* server; the write goes to the API server and may lose its answer.       *)
(***************************************************************************)
EXTENDS Naturals

CONSTANTS
    Calls,      \* the concurrent calls of UpdateStatus on one object
    Steps,      \* attempts of retry.DefaultRetry: 5 in the code
    MaxWrites   \* bound: writes of other clients (users, labels, specs)

ASSUME StepsAssumption == Steps \in Nat \ {0}
ASSUME MaxWritesAssumption == MaxWrites \in Nat

VARIABLES
    server,  \* the object in the API server: [live, rv, conds]
    cache,   \* the informer's copy of it
    call,    \* [Calls -> [pc, left, rv, conds]]: each caller's res and loop
    writes   \* how many writes other clients made

vars == <<server, cache, call, writes>>

\* The conditions in a status, as the number of entries each call appended.
Conds == [Calls -> Nat]
Objects == [live : BOOLEAN, rv : Nat, conds : Conds]
Running == {"get", "update"}
Returned == {"ok", "conflict", "error"}
Locals == [pc : Running \cup Returned, left : 0..Steps, rv : Nat, conds : Conds]

NoConds == [c \in Calls |-> 0]

Init ==
    /\ server = [live |-> TRUE, rv |-> 1, conds |-> NoConds]
    /\ cache = server
    /\ call = [c \in Calls |->
                 [pc |-> "get", left |-> Steps, rv |-> 0, conds |-> NoConds]]
    /\ writes = 0

\* updateFns applied to the copy: the call's own condition is appended.
Mutate(conds, c) == [conds EXCEPT ![c] = @ + 1]

\* r.Get fills res from the cache and the functions change it.
Get(c) ==
    /\ call[c].pc = "get"
    /\ cache.live
    /\ call' = [call EXCEPT ![c].pc = "update", ![c].rv = cache.rv,
                            ![c].conds = Mutate(cache.conds, c)]
    /\ UNCHANGED <<server, cache, writes>>

\* Mutant of GetFails: an object that is not found is no error.
GetIgnored(c) ==
    /\ call[c].pc = "get" /\ ~cache.live
    /\ call' = [call EXCEPT ![c].pc = "ok"]
    /\ UNCHANGED <<server, cache, writes>>

\* r.Get fails: NotFound is no conflict, so the loop returns it.
GetFails(c) ==
    /\ call[c].pc = "get"
    /\ ~cache.live
    /\ call' = [call EXCEPT ![c].pc = "error"]
    /\ UNCHANGED <<server, cache, writes>>

Fresh(c) == server.live /\ call[c].rv = server.rv

\* Mutant of Commit: a lost answer is one more reason to try again.
CommitRetried(c) ==
    /\ call[c].pc = "update" /\ Fresh(c)
    /\ server' = [server EXCEPT !.rv = @ + 1, !.conds = call[c].conds]
    /\ \E r \in {"ok", "get"} : call' = [call EXCEPT ![c].pc = r]
    /\ UNCHANGED <<cache, writes>>

\* r.Status().Update succeeds.  The caller hears it, or loses the answer and
\* returns an error that is not a conflict.
Commit(c) ==
    /\ call[c].pc = "update"
    /\ Fresh(c)
    /\ server' = [server EXCEPT !.rv = @ + 1, !.conds = call[c].conds]
    /\ \E r \in {"ok", "error"} : call' = [call EXCEPT ![c].pc = r]
    /\ UNCHANGED <<cache, writes>>

\* Mutant of Conflict: attempts do not count.
ConflictForever(c) ==
    /\ call[c].pc = "update" /\ server.live /\ ~Fresh(c)
    /\ call' = [call EXCEPT ![c].pc = "get"]
    /\ UNCHANGED <<server, cache, writes>>

\* The API server refuses a copy that is not the latest: another attempt, or
\* the conflict itself after the last one.
Conflict(c) ==
    /\ call[c].pc = "update"
    /\ server.live /\ ~Fresh(c)
    /\ call' = [call EXCEPT ![c].left = @ - 1,
                            ![c].pc = IF call[c].left > 1 THEN "get" ELSE "conflict"]
    /\ UNCHANGED <<server, cache, writes>>

\* The object is gone, or the server did not take the request.
UpdateFails(c) ==
    /\ call[c].pc = "update"
    /\ call' = [call EXCEPT ![c].pc = "error"]
    /\ UNCHANGED <<server, cache, writes>>

\* A user edits the spec, a group sets labels, the API server marks it deleted.
OtherWrite ==
    /\ server.live
    /\ writes < MaxWrites
    /\ server' = [server EXCEPT !.rv = @ + 1]
    /\ writes' = writes + 1
    /\ UNCHANGED <<cache, call>>

\* The last finalizer is removed and the object is gone.
Remove ==
    /\ server.live
    /\ server' = [server EXCEPT !.live = FALSE, !.rv = @ + 1]
    /\ UNCHANGED <<cache, call, writes>>

\* The watch catches up.
Informer ==
    /\ cache /= server
    /\ cache' = server
    /\ UNCHANGED <<server, call, writes>>

CallStep(c) == Get(c) \/ GetFails(c) \/ Commit(c) \/ Conflict(c) \/ UpdateFails(c)

Next ==
    \/ \E c \in Calls : CallStep(c)
    \/ OtherWrite \/ Remove \/ Informer

\* A goroutine that can run does run; nothing is assumed of the informer or
\* of the other writers.
Fairness == \A c \in Calls : WF_vars(CallStep(c))

Spec == Init /\ [][Next]_vars
FairSpec == Spec /\ Fairness
-----------------------------------------------------------------------------
\* Types of the object, of the calls of UpdateStatus and of the bound: in
\* particular the attempts of retry.DefaultRetry never go below zero.
TypeOK ==
    /\ server \in Objects
    /\ cache \in Objects
    /\ call \in [Calls -> Locals]
    /\ writes \in 0..MaxWrites

\* A copy under a resourceVersion the server still has holds exactly what the
\* server has plus the call's own mutation; no copy is newer than the server;
\* and a call gives up with a conflict exactly when its attempts are spent.
Coherent ==
    /\ cache.rv <= server.rv
    /\ cache.rv = server.rv => cache = server
    /\ \A c \in Calls : call[c].pc = "update" =>
        /\ call[c].rv <= server.rv
        /\ call[c].rv = server.rv => call[c].conds = Mutate(server.conds, c)
    /\ \A c \in Calls : call[c].left = 0 <=> call[c].pc = "conflict"

\* However the attempts of concurrent callers interleave, a call that returned
\* nil from UpdateStatus put its condition into the status exactly once, a
\* conflict left none there, an error at most one, a running call none yet.
ExactlyOnce ==
    \A c \in Calls :
        CASE call[c].pc = "ok" -> server.conds[c] = 1
          [] call[c].pc = "error" -> server.conds[c] \in {0, 1}
          [] OTHER -> server.conds[c] = 0

Inv == TypeOK /\ Coherent /\ ExactlyOnce

\* No write of a status loses a condition that another caller wrote: although
\* setCondition appends to a copy and the whole status is replaced.
NeverLost ==
    [][\A c \in Calls : server'.conds[c] >= server.conds[c]]_vars

\* Every call returns, even when others never stop writing and the cache never
\* catches up: the reconcile worker that made it is not lost.
Returns == \A c \in Calls : <>(call[c].pc \in Returned)

\* UpdateStatus is atomic.
Result == [c \in Calls |-> IF call[c].pc \in Running THEN "pending" ELSE call[c].pc]

Abs == INSTANCE AtomicStatus WITH
    exists <- server.live, applied <- server.conds, result <- Result

Atomic == Abs!AbsSpec
=============================================================================
