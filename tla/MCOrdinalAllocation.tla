------------------------ MODULE MCOrdinalAllocation -------------------------
EXTENDS OrdinalAllocation, TLC

CONSTANTS MaxLen, MaxIndex

Symmetry == Permutations(Names)

\* Every sorted list of at most MaxLen indexes up to MaxIndex, with its holes and
\* the indexes that are taken twice.
Lists == {s \in UNION {[1..n -> 0..MaxIndex] : n \in 0..MaxLen} : Sorted(s)}

\* The closed form is what the loop of the mutator computes, on every list.  (It is
\* about no state: the initial ones are where it is looked at.)
LoopAgrees == Init => \A s \in Lists : FreeIndex(s) = Loop(s)

\* "the first available ordinalIndex": also when an index is taken twice.  (TLC
\* refutes it: behind a duplicate the loop passes over a hole.)
FirstAvailable ==
    Init => \A s \in Lists : 0..(FreeIndex(s) - 1) \subseteq {s[k] : k \in 1..Len(s)}
=============================================================================
