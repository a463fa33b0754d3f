---------------------------- MODULE OrdinalIndex ----------------------------
(***************************************************************************)
(* The ordinal index that entityMutator.Handle (api/v1/entity_webhook.go)  *)
(* picks for an Entity that asks for none, from the sorted indexes of the  *)
(* entities of its Model.  The loop counts ordinalIndex up from -1 and     *)
(* breaks where an index is larger than the count, so that the count is    *)
(* k - 1 in its k-th iteration.                                            *)
(***************************************************************************)
EXTENDS Integers, Sequences

Sorted(s) == \A i, j \in 1..Len(s) : i <= j => s[i] <= s[j]

\* The iterations in which the loop breaks.
Breaks(s) == {k \in 1..Len(s) : s[k] > k - 1}

\* Mutant of FreeIndex: without the increment behind the loop.
UncountedIndex(s) ==
    IF Breaks(s) # {} THEN (CHOOSE k \in Breaks(s) : \A j \in Breaks(s) : k <= j) - 1
    ELSE IF s = <<>> THEN 0 ELSE Len(s) - 1

\* After a break the count is the index; after the last iteration it is one more
\* when the list was empty or its last index is the count.
FreeIndex(s) ==
    IF Breaks(s) # {} THEN (CHOOSE k \in Breaks(s) : \A j \in Breaks(s) : k <= j) - 1
    ELSE IF s # <<>> /\ s[Len(s)] < Len(s) - 1 THEN Len(s) - 1 ELSE Len(s)

\* The loop itself, as a recursion over the list: one iteration, and the variables
\* after each.
Iteration(before, item) ==
    IF before.broke THEN before
    ELSE [ordinal |-> before.ordinal + 1, max |-> item, broke |-> item > before.ordinal + 1]

Iterations(s) ==
    LET at[k \in 0..Len(s)] ==
            IF k = 0 THEN [ordinal |-> -1, max |-> 0, broke |-> FALSE] ELSE Iteration(at[k - 1], s[k])
    IN  at

Loop(s) ==
    LET end == Iterations(s)[Len(s)]
    IN  IF end.max = end.ordinal \/ end.ordinal = -1 THEN end.ordinal + 1 ELSE end.ordinal
=============================================================================
