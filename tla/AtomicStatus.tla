---------------------------- MODULE AtomicStatus ----------------------------
(***************************************************************************)
(* What a caller of UpdateStatus (internal/controller/processor_handler.go)*)
(* relies on: one call changes the status of one API object atomically, or *)
(* not at all.  There are no retries here, no cached copies and no         *)
(* resource versions: StatusUpdate has those, and implements this.         *)
(***************************************************************************)
EXTENDS Naturals

CONSTANT Calls

VARIABLES
    exists,   \* whether the API object is still there
    applied,  \* [Calls -> Nat]: how often the mutation of a call is in the status
    result    \* [Calls -> {"pending", "ok", "conflict", "error"}]

absVars == <<exists, applied, result>>

AbsInit ==
    /\ exists = TRUE
    /\ applied = [c \in Calls |-> 0]
    /\ result = [c \in Calls |-> "pending"]

\* The call takes effect; "error" is a write whose answer was lost.
Apply(c) ==
    /\ result[c] = "pending"
    /\ exists
    /\ applied' = [applied EXCEPT ![c] = @ + 1]
    /\ \E r \in {"ok", "error"} : result' = [result EXCEPT ![c] = r]
    /\ UNCHANGED exists

\* The call gives up and leaves no trace.
Refuse(c) ==
    /\ result[c] = "pending"
    /\ \E r \in {"conflict", "error"} : result' = [result EXCEPT ![c] = r]
    /\ UNCHANGED <<exists, applied>>

Vanish ==
    /\ exists
    /\ exists' = FALSE
    /\ UNCHANGED <<applied, result>>

AbsNext == Vanish \/ \E c \in Calls : Apply(c) \/ Refuse(c)

AbsSpec == AbsInit /\ [][AbsNext]_absVars
=============================================================================
