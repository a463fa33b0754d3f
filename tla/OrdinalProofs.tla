---------------------------- MODULE OrdinalProofs ---------------------------
(***************************************************************************)
(* What entityMutator.Handle computes from any list of indexes, and what   *)
(* OrdinalAllocation keeps for any finite set of names and any wishes: the *)
(* mutator picks the first free index of the list it sees, requests that   *)
(* do not overlap never share an index and grow the StatefulSet once for   *)
(* each, and an adopted entity has a pod.                                  *)
(***************************************************************************)
EXTENDS OrdinalAllocation, FiniteSetTheorems, WellFoundedInduction, TLAPS

\* A nonempty set of naturals has a least element: what the break of the loop and
\* the induction over the sorted list below rest on.
LEMMA LeastNatural ==
    ASSUME NEW T, T \subseteq Nat, T # {}
    PROVE  \E x \in T : \A y \in T : x <= y
<1> DEFINE R == OpToRel(<, Nat)
<1>1. \A x, y \in Nat : y < x => <<y, x>> \in R
  BY Zenon DEF OpToRel
<1>2. IsWellFoundedOn(R, Nat)
  BY NatLessThanWellFounded, Zenon
<1> HIDE DEF R
<1>3. PICK x \in T : \A y \in T : ~(<<y, x>> \in R)
  BY <1>2, WFMin, Zenon
<1>4. \A y \in T : ~(y < x)
  BY <1>1, <1>3, Zenon
<1> QED  BY <1>4

\* The loop breaks in its first iteration with a larger index.
LEMMA FirstBreak ==
    ASSUME NEW s \in Seq(Nat), Breaks(s) # {}
    PROVE  \E k \in 1..Len(s) :
              /\ FreeIndex(s) = k - 1
              /\ s[k] > k - 1
              /\ \A j \in 1..(k - 1) : s[j] <= j - 1
<1> DEFINE First == CHOOSE k \in Breaks(s) : \A j \in Breaks(s) : k <= j
<1>1. Breaks(s) \subseteq Nat
  BY DEF Breaks
<1>2. First \in Breaks(s) /\ \A j \in Breaks(s) : First <= j
  BY <1>1, LeastNatural
<1>3. FreeIndex(s) = First - 1
  BY DEF FreeIndex
<1> HIDE DEF First
<1>4. First \in 1..Len(s) /\ s[First] > First - 1
  BY <1>2 DEF Breaks
<1>5. ASSUME NEW j \in 1..(First - 1) PROVE s[j] <= j - 1
  <2>1. j \in 1..Len(s) /\ j \notin Breaks(s)
    BY <1>2, <1>4
  <2> QED  BY <2>1 DEF Breaks
<1> QED  BY <1>3, <1>4, <1>5

\* The index that the mutator picks belongs to no entity it listed, whatever the
\* list is: holes and duplicate indexes included.
THEOREM FreeIndexIsFree ==
    ASSUME NEW s \in Seq(Nat), Sorted(s)
    PROVE  FreeIndex(s) \in Nat /\ \A k \in 1..Len(s) : s[k] # FreeIndex(s)
<1>0. Len(s) \in Nat /\ \A k \in 1..Len(s) : s[k] \in Nat
  OBVIOUS
<1>1. CASE Breaks(s) # {}
  <2>1. PICK k \in 1..Len(s) : /\ FreeIndex(s) = k - 1
                               /\ s[k] > k - 1
                               /\ \A j \in 1..(k - 1) : s[j] <= j - 1
    BY <1>1, FirstBreak
  <2>2. \A j \in 1..Len(s) : j >= k => s[j] >= s[k]
    BY DEF Sorted
  <2>3. \A j \in 1..Len(s) : j < k => s[j] < k - 1
    BY <1>0, <2>1
  <2> QED  BY <1>0, <2>1, <2>2, <2>3
<1>2. CASE Breaks(s) = {}
  <2>1. \A k \in 1..Len(s) : s[k] <= k - 1
    BY <1>0, <1>2 DEF Breaks
  <2>2. \A k \in 1..Len(s) : s[k] <= s[Len(s)]
    BY <1>0 DEF Sorted
  <2>3. CASE s # <<>> /\ s[Len(s)] < Len(s) - 1
    <3>1. FreeIndex(s) = Len(s) - 1 /\ Len(s) > 0
      BY <1>0, <1>2, <2>3 DEF FreeIndex
    <3> QED  BY <1>0, <2>2, <2>3, <3>1
  <2>4. CASE ~(s # <<>> /\ s[Len(s)] < Len(s) - 1)
    <3>1. FreeIndex(s) = Len(s)
      BY <1>2, <2>4 DEF FreeIndex
    <3> QED  BY <1>0, <2>1, <3>1
  <2> QED  BY <2>3, <2>4
<1> QED  BY <1>1, <1>2

\* When no index is taken twice it is the least free one: the mutator leaves no
\* hole that a StatefulSet would fill with a pod that has no entity.
THEOREM FreeIndexIsLeast ==
    ASSUME NEW s \in Seq(Nat), Sorted(s),
           \A i, j \in 1..Len(s) : s[i] = s[j] => i = j
    PROVE  \A n \in Nat : n < FreeIndex(s) => \E k \in 1..Len(s) : s[k] = n
<1>0. Len(s) \in Nat /\ \A k \in 1..Len(s) : s[k] \in Nat
  OBVIOUS
<1>1. \A k \in 1..Len(s) : s[k] >= k - 1
  <2> DEFINE T == {k \in 1..Len(s) : s[k] < k - 1}
  <2>1. SUFFICES ASSUME T # {} PROVE FALSE
    BY <1>0
  <2>2. T \subseteq Nat
    BY <1>0
  <2>3. PICK k \in T : \A j \in T : k <= j
    BY <2>1, <2>2, LeastNatural
  <2>4. k \in 1..Len(s) /\ s[k] < k - 1
    BY <2>3
  <2>5. k - 1 \in 1..Len(s)
    BY <1>0, <2>4
  <2>6. k - 1 \notin T
    BY <1>0, <2>3, <2>4
  <2>7. s[k - 1] >= k - 2
    BY <1>0, <2>5, <2>6
  <2>8. s[k - 1] <= s[k] /\ s[k - 1] # s[k]
    BY <1>0, <2>4, <2>5 DEF Sorted
  <2> QED  BY <1>0, <2>4, <2>5, <2>7, <2>8
<1>2. SUFFICES ASSUME NEW n \in Nat, n < FreeIndex(s)
               PROVE  n + 1 \in 1..Len(s) /\ s[n + 1] <= n
  BY <1>0, <1>1
<1>3. CASE Breaks(s) # {}
  <2>1. PICK k \in 1..Len(s) : /\ FreeIndex(s) = k - 1
                               /\ s[k] > k - 1
                               /\ \A j \in 1..(k - 1) : s[j] <= j - 1
    BY <1>3, FirstBreak
  <2>2. n + 1 \in 1..(k - 1)
    BY <1>0, <1>2, <2>1
  <2> QED  BY <1>0, <2>1, <2>2
<1>4. CASE Breaks(s) = {}
  <2>1. \A k \in 1..Len(s) : s[k] <= k - 1
    BY <1>0, <1>4 DEF Breaks
  <2>2. FreeIndex(s) <= Len(s)
    BY <1>0, <1>4 DEF FreeIndex
  <2>3. FreeIndex(s) \in Int
    BY <1>0, <1>4 DEF FreeIndex
  <2>4. n + 1 \in 1..Len(s)
    BY <1>0, <1>2, <2>2, <2>3
  <2> QED  BY <2>1, <2>4
<1> QED  BY <1>3, <1>4
-----------------------------------------------------------------------------
\* The variables of the loop after k iterations, when it breaks in iteration b, or,
\* with b behind the list, does not.
After(s, b) ==
    [k \in 0..Len(s) |->
        IF k < b THEN [ordinal |-> k - 1, max |-> IF k = 0 THEN 0 ELSE s[k], broke |-> FALSE]
        ELSE [ordinal |-> b - 1, max |-> s[b], broke |-> TRUE]]

\* The recursion has a solution, and no other one: the least iteration after which
\* they differ would start from the same variables.
LEMMA LoopStates ==
    ASSUME NEW s \in Seq(Nat), NEW b \in 1..(Len(s) + 1), b \in 1..Len(s) => s[b] > b - 1,
           \A j \in 1..(b - 1) : s[j] <= j - 1
    PROVE  Iterations(s) = After(s, b)
<1> DEFINE n == Len(s)
           Start == [ordinal |-> -1, max |-> 0, broke |-> FALSE]
           Solves(at) == at = [k \in 0..n |-> IF k = 0 THEN Start ELSE Iteration(at[k - 1], s[k])]
           g == After(s, b)
<1>0. n \in Nat /\ b \in Nat /\ b >= 1 /\ b <= n + 1 /\ \A k \in 1..n : s[k] \in Nat
    OBVIOUS
<1> HIDE DEF n
<1>g. /\ g = [k \in 0..n |-> g[k]]
      /\ \A k \in 0..n :
            g[k] = IF k < b
                   THEN [ordinal |-> k - 1, max |-> IF k = 0 THEN 0 ELSE s[k], broke |-> FALSE]
                   ELSE [ordinal |-> b - 1, max |-> s[b], broke |-> TRUE]
    BY DEF After, n
<1> HIDE DEF g
<1>1. \A k \in 0..n : g[k] = IF k = 0 THEN Start ELSE Iteration(g[k - 1], s[k])
    <2> SUFFICES ASSUME NEW k \in 0..n PROVE g[k] = IF k = 0 THEN Start ELSE Iteration(g[k - 1], s[k])
        OBVIOUS
    <2>1. CASE k = 0
        <3>1. 0 \in 0..n /\ 0 < b
            BY <1>0
        <3>2. g[0] = [ordinal |-> 0 - 1, max |-> 0, broke |-> FALSE] /\ 0 - 1 = -1
            BY <1>g, <3>1
        <3> QED BY <2>1, <3>2
    <2>2. CASE k # 0 /\ k < b
        <3>1. k - 1 \in 0..n /\ k - 1 < b /\ k \in 1..n /\ k \in 1..(b - 1)
            BY <1>0, <2>2
        <3>2. g[k - 1].broke = FALSE /\ g[k - 1].ordinal = k - 2
            BY <1>g, <3>1
        <3>3. g[k] = [ordinal |-> k - 1, max |-> s[k], broke |-> FALSE]
            BY <1>g, <2>2
        <3>4. (s[k] > k - 1) = FALSE /\ (k - 2) + 1 = k - 1
            BY <1>0, <3>1
        <3>5. Iteration(g[k - 1], s[k]) = [ordinal |-> k - 1, max |-> s[k], broke |-> FALSE]
            BY <3>2, <3>4 DEF Iteration
        <3> QED BY <2>2, <3>3, <3>5
    <2>3. CASE k = b
        <3>1. k - 1 \in 0..n /\ k - 1 < b /\ k \in 1..n /\ s[k] > k - 1
            BY <1>0, <2>3 DEF n
        <3>2. g[k - 1].broke = FALSE /\ g[k - 1].ordinal = k - 2
            BY <1>g, <3>1
        <3>3. g[k] = [ordinal |-> k - 1, max |-> s[k], broke |-> TRUE]
            BY <1>g, <1>0, <2>3
        <3>4. (s[k] > k - 1) = TRUE /\ (k - 2) + 1 = k - 1
            BY <1>0, <3>1
        <3>5. Iteration(g[k - 1], s[k]) = [ordinal |-> k - 1, max |-> s[k], broke |-> TRUE]
            BY <3>2, <3>4 DEF Iteration
        <3> QED BY <1>0, <2>3, <3>3, <3>5
    <2>4. CASE k > b
        <3>1. k - 1 \in 0..n /\ ~(k - 1 < b) /\ ~(k < b) /\ k # 0
            BY <1>0, <2>4
        <3>2. g[k] = [ordinal |-> b - 1, max |-> s[b], broke |-> TRUE]
            BY <1>g, <3>1
        <3>3. g[k - 1] = [ordinal |-> b - 1, max |-> s[b], broke |-> TRUE]
            BY <1>g, <3>1
        <3> QED BY <3>1, <3>2, <3>3 DEF Iteration
    <2> QED BY <1>0, <2>1, <2>2, <2>3, <2>4
<1>2. Solves(g)
    BY <1>g, <1>1
<1>3. Iterations(s) = CHOOSE at : Solves(at)
    BY DEF Iterations, n
<1> DEFINE f == Iterations(s)
<1>4. Solves(f)
    <2> HIDE DEF Solves
    <2> QED BY <1>2, <1>3
<1> HIDE DEF f
<1>5. \A k \in 0..n : f[k] = g[k]
    <2> DEFINE T == {k \in 0..n : f[k] # g[k]}
    <2>1. SUFFICES ASSUME T # {} PROVE FALSE
        OBVIOUS
    <2>2. T \subseteq Nat
        OBVIOUS
    <2>3. PICK k \in T : \A j \in T : k <= j
        BY <2>1, <2>2, LeastNatural
    <2>4. k \in 0..n /\ f[k] # g[k] /\ f[k] = IF k = 0 THEN Start ELSE Iteration(f[k - 1], s[k])
        BY <1>4, <2>3
    <2>5. k # 0
        BY <1>1, <2>4
    <2>6. k - 1 \in 0..n /\ k - 1 \notin T
        BY <1>0, <2>3, <2>4, <2>5
    <2>7. f[k - 1] = g[k - 1]
        BY <2>6
    <2> QED BY <1>1, <2>4, <2>5, <2>7
<1>6. f = [k \in 0..n |-> f[k]]
    BY <1>4
<1>7. f = g
    BY <1>5, <1>6, <1>g
<1> QED BY <1>7 DEF f, g

\* The loop of entityMutator.Handle computes the closed form, on every list.
THEOREM LoopIsFreeIndex == \A s \in Seq(Nat) : Loop(s) = FreeIndex(s)
<1> SUFFICES ASSUME NEW s \in Seq(Nat) PROVE Loop(s) = FreeIndex(s)
    OBVIOUS
<1> DEFINE n == Len(s)
           end == Iterations(s)[n]
<1>0. n \in Nat /\ \A k \in 1..n : s[k] \in Nat
    OBVIOUS
<1>1. Loop(s) = IF end.max = end.ordinal \/ end.ordinal = -1 THEN end.ordinal + 1 ELSE end.ordinal
    BY DEF Loop
<1>2. CASE Breaks(s) # {}
    <2>1. PICK b \in 1..n : /\ FreeIndex(s) = b - 1
                            /\ s[b] > b - 1
                            /\ \A j \in 1..(b - 1) : s[j] <= j - 1
        BY <1>2, FirstBreak
    <2>2. Iterations(s) = After(s, b)
        BY <2>1, LoopStates
    <2>3. end.max = s[b] /\ end.ordinal = b - 1
        BY <1>0, <2>2 DEF After
    <2> QED BY <1>0, <1>1, <2>1, <2>3
<1>3. CASE Breaks(s) = {}
    <2>1. \A j \in 1..n : s[j] <= j - 1
        BY <1>0, <1>3 DEF Breaks
    <2>2. Iterations(s) = After(s, n + 1)
        BY <1>0, <2>1, LoopStates
    <2>3. end.max = (IF n = 0 THEN 0 ELSE s[n]) /\ end.ordinal = n - 1
        BY <1>0, <2>2 DEF After
    <2>4. CASE n = 0
        <3>1. s = <<>> /\ FreeIndex(s) = 0
            BY <1>3, <2>4 DEF FreeIndex
        <3> QED BY <1>1, <2>3, <2>4, <3>1
    <2>5. CASE n # 0
        <3>1. s # <<>> /\ n \in 1..n
            BY <1>0, <2>5
        <3>2. FreeIndex(s) = IF s[n] < n - 1 THEN n - 1 ELSE n
            BY <1>3, <3>1 DEF FreeIndex
        <3> QED BY <1>0, <1>1, <2>1, <2>3, <2>5, <3>1, <3>2
    <2> QED BY <2>4, <2>5
<1> QED BY <1>2, <1>3
-----------------------------------------------------------------------------
\* Every finite list of entities can be put in the order of their indexes, the
\* equal ones among them too: take out one with the least index.
Ordered(order, S, rank) ==
    /\ order \in Bijection(1..Cardinality(S), S)
    /\ \A i, j \in 1..Cardinality(S) : i <= j => rank[order[i]] <= rank[order[j]]

LEMMA OrderExtends ==
    ASSUME NEW S, IsFiniteSet(S), NEW rank, \A x \in S : rank[x] \in Nat,
           NEW x \in S, \A y \in S : rank[x] <= rank[y],
           NEW rest, Ordered(rest, S \ {x}, rank)
    PROVE  \E order : Ordered(order, S, rank)
<1> DEFINE n == Cardinality(S)
           order == [i \in 1..n |-> IF i = 1 THEN x ELSE rest[i - 1]]
<1>1. n \in Nat /\ n # 0 /\ Cardinality(S \ {x}) = n - 1
    BY FS_CardinalityType, FS_EmptySet, FS_RemoveElement
<1> HIDE DEF n
<1>2. /\ rest \in [1..(n - 1) -> S \ {x}]
      /\ \A i, j \in 1..(n - 1) : rest[i] = rest[j] => i = j
      /\ \A y \in S \ {x} : \E i \in 1..(n - 1) : rest[i] = y
      /\ \A i, j \in 1..(n - 1) : i <= j => rank[rest[i]] <= rank[rest[j]]
    BY <1>1 DEF Ordered, Bijection, Injection, Surjection, IsInjective
<1>3. \A i \in 1..n : i = 1 \/ (i # 1 /\ i - 1 \in 1..(n - 1))
    BY <1>1
<1>4. order \in [1..n -> S]
    BY <1>2, <1>3
<1>5. ASSUME NEW i \in 1..n, NEW j \in 1..n, order[i] = order[j] PROVE i = j
    BY <1>2, <1>3, <1>5
<1>6. ASSUME NEW y \in S PROVE \E i \in 1..n : order[i] = y
    <2>1. CASE y = x
        BY <1>1, <2>1
    <2>2. CASE y # x
        <3>1. PICK i \in 1..(n - 1) : rest[i] = y
            BY <1>2, <2>2
        <3>2. i + 1 \in 1..n /\ i + 1 # 1 /\ (i + 1) - 1 = i
            BY <1>1
        <3> QED BY <3>1, <3>2
    <2> QED BY <2>1, <2>2
<1>7. ASSUME NEW i \in 1..n, NEW j \in 1..n, i <= j PROVE rank[order[i]] <= rank[order[j]]
    <2>1. CASE i = 1
        BY <1>4, <2>1
    <2>2. CASE i # 1
        <3>1. i - 1 \in 1..(n - 1) /\ j - 1 \in 1..(n - 1) /\ i - 1 <= j - 1 /\ j # 1
            BY <1>1, <1>7, <2>2
        <3> QED BY <1>2, <2>2, <3>1
    <2> QED BY <2>1, <2>2
<1>8. order \in Bijection(1..n, S)
    BY <1>4, <1>5, <1>6 DEF Bijection, Injection, Surjection, IsInjective
<1> QED BY <1>7, <1>8 DEF Ordered, n

LEMMA OrderExists ==
    ASSUME NEW S, IsFiniteSet(S), NEW rank, \A x \in S : rank[x] \in Nat
    PROVE  \E order : Ordered(order, S, rank)
<1> DEFINE Unordered == {n \in Nat : \E T \in SUBSET S :
                            Cardinality(T) = n /\ ~ \E order : Ordered(order, T, rank)}
<1>1. SUFFICES ASSUME Unordered # {} PROVE FALSE
    BY FS_CardinalityType
<1>2. PICK n \in Unordered : \A m \in Unordered : n <= m
    BY <1>1, LeastNatural
<1>3. PICK T \in SUBSET S : Cardinality(T) = n /\ ~ \E order : Ordered(order, T, rank)
    BY <1>2
<1>4. IsFiniteSet(T) /\ n \in Nat
    BY <1>2, FS_Subset
<1>5. T # {}
    <2>1. SUFFICES ASSUME T = {} PROVE Ordered([i \in 1..0 |-> i], {}, rank)
        BY <1>3
    <2>2. Cardinality({}) = 0 /\ 1..0 = {}
        BY FS_EmptySet
    <2> QED BY <2>2 DEF Ordered, Bijection, Injection, Surjection, IsInjective
<1>6. PICK x \in T : \A y \in T : rank[x] <= rank[y]
    <2>1. {rank[y] : y \in T} \subseteq Nat /\ {rank[y] : y \in T} # {}
        BY <1>5
    <2>2. PICK r \in {rank[y] : y \in T} : \A q \in {rank[y] : y \in T} : r <= q
        BY <2>1, LeastNatural
    <2> QED BY <2>2
<1>7. Cardinality(T \ {x}) = n - 1 /\ n - 1 \in Nat
    <2>1. Cardinality(T \ {x}) = n - 1
        BY <1>3, <1>4, <1>6, FS_RemoveElement
    <2>2. n # 0
        BY <1>3, <1>4, <1>5, FS_EmptySet
    <2> QED BY <1>4, <2>1, <2>2
<1>8. PICK rest : Ordered(rest, T \ {x}, rank)
    <2>1. n - 1 \notin Unordered
        BY <1>2, <1>4
    <2> QED BY <1>7, <2>1
<1>9. \E order : Ordered(order, T, rank)
    BY <1>4, <1>6, <1>8, OrderExtends
<1> QED BY <1>3, <1>9
-----------------------------------------------------------------------------
\* An admitted entity: the API server has stored it, and may have deleted it again.
Kept == {"check", "grow", "own", "made", "done", "failed", "deleted"}

\* Stored entities, and those the informers list, were admitted; owned ones ask
\* for an index from the start; the informer knows the index of an entity that
\* nobody renumbered; an entity that a worker reconciles is stored.
Stored == \A n \in stored \cup seen : step[n] \in Kept
Owned == \A n \in owned : step[n] \notin {"none", "listed"} /\ index[n] # Nil
Cached == \A n \in seen \ renumbered : icache[n] = index[n]
Served == \A n \in Names : step[n] \in {"check", "grow", "own"} => n \in stored

\* Until the Model controller lowers the replicas, the index that Check compared with
\* the cached ones is not above the real ones, and is below them once the
\* StatefulSet grew or had the pod before.
Backed ==
    ~lowered =>
        /\ rcache <= replicas
        /\ \A n \in Names \ renumbered : /\ step[n] = "grow" => index[n] <= replicas
                                         /\ step[n] \in {"own", "done"} => index[n] < replicas

\* Without overlaps a user's request is alone in flight and the webhooks see every
\* entity; and the index that an entity is about to be stored with, or that the
\* Model's pass creates one for, no other entity has or is to have, unless an edit
\* gave it one.
Alone(n) == seen = stored /\ \A m \in Names : step[m] \in InFlight => m = n
Unshared(n) ==
    \A m \in Names \ renumbered : m # n /\ (m \in stored \/ Managed(m)) => index[m] # index[n]
Calm ==
    /\ Unique(stored \ renumbered)
    /\ \A n \in Names : step[n] \in InFlight => Managed(n) \/ Alone(n)
    /\ \A n \in Names : Managed(n) \/ step[n] = "persist" => Unshared(n)

\* Without failures and edits either: an entity about to grow the StatefulSet has the
\* index of the next replica, whatever the cache shows, because the replicas that
\* the cache does not show yet are those of stored entities; but for those the
\* Model controller set while no request or worker was there.
Quiet == \A n \in Names : step[n] \notin InFlight \cup {"check", "grow"}
Shown ==
    /\ rcache <= replicas
    /\ \A r \in rcache..(replicas - 1) :
          \E n \in stored : step[n] \in {"own", "done"} /\ index[n] = r
Growing ==
    /\ \A n \in Names : step[n] = "grow" => index[n] = replicas
    /\ Quiet \/ Shown
    /\ \A r \in base..(replicas - 1) : \E n \in Admitted : index[n] = r

Steady == ~raced /\ faults = 0 /\ renumbered = {}
IInv ==
    /\ TypeOK /\ Stored /\ Owned /\ Cached /\ Served /\ Backed
    /\ (~raced => Calm) /\ (Steady => Growing)

LEMMA ListedInOrder ==
    ASSUME TypeOK
    PROVE  /\ Listed \in Seq(Nat) /\ Sorted(Listed)
           /\ \A m \in seen : \E k \in 1..Len(Listed) : Listed[k] = icache[m]
           /\ \A k \in 1..Len(Listed) : \E m \in seen : Listed[k] = icache[m]
           /\ (\A m, n \in seen : m # n => icache[m] # icache[n])
              => \A i, j \in 1..Len(Listed) : Listed[i] = Listed[j] => i = j
<1> DEFINE c == Cardinality(seen)
           order == CHOOSE o \in Bijection(1..c, seen) : Sorted(Indexes(o))
<1>1. IsFiniteSet(seen) /\ c \in Nat
    BY AllocationAssumption, FS_Subset, FS_CardinalityType DEF AllocationAssumption, TypeOK
<1>2. \A m \in seen : icache[m] \in Nat
    BY DEF TypeOK, Nil
<1>3. ASSUME NEW o \in [1..c -> seen]
      PROVE  /\ Indexes(o) \in Seq(Nat) /\ Len(Indexes(o)) = c
             /\ \A k \in 1..c : Indexes(o)[k] = icache[o[k]]
    <2>1. Indexes(o) = [k \in 1..c |-> icache[o[k]]]
        BY DEF Indexes
    <2>2. \A k \in 1..c : icache[o[k]] \in Nat
        BY <1>2
    <2> HIDE DEF c
    <2> QED BY ONLY <1>1, <2>1, <2>2
<1>4. PICK o : Ordered(o, seen, icache)
    BY <1>1, <1>2, OrderExists
<1>5. o \in Bijection(1..c, seen) /\ Sorted(Indexes(o))
    <2>1. o \in [1..c -> seen]
        BY <1>4 DEF Ordered, Bijection, Injection
    <2> QED BY <1>3, <1>4, <2>1 DEF Ordered, Sorted
<1>6. order \in Bijection(1..c, seen) /\ Sorted(Indexes(order))
    BY <1>5
<1>7. Listed = Indexes(order)
    BY DEF Listed
<1> HIDE DEF order, c
<1>8. /\ order \in [1..c -> seen]
      /\ \A i, j \in 1..c : order[i] = order[j] => i = j
      /\ \A m \in seen : \E k \in 1..c : order[k] = m
    BY <1>6 DEF Bijection, Injection, Surjection, IsInjective
<1>9. /\ Listed \in Seq(Nat) /\ Len(Listed) = c /\ Sorted(Listed)
      /\ \A k \in 1..c : order[k] \in seen /\ Listed[k] = icache[order[k]]
    BY <1>3, <1>6, <1>7, <1>8
<1>10. ASSUME NEW m \in seen PROVE \E k \in 1..c : Listed[k] = icache[m]
    BY <1>8, <1>9
<1>11. ASSUME \A m, n \in seen : m # n => icache[m] # icache[n],
              NEW i \in 1..c, NEW j \in 1..c, Listed[i] = Listed[j]
       PROVE  i = j
    BY <1>8, <1>9, <1>11
<1> QED BY <1>9, <1>10, <1>11

\* What the mutator picks for an entity without an index is in use by none that it
\* lists, and with distinct indexes in use it leaves no lower one free.
PicksFirst ==
    /\ FreeIndex(Listed) \in Nat /\ \A m \in seen : icache[m] # FreeIndex(Listed)
    /\ (\A m, n \in seen : m # n => icache[m] # icache[n])
       => \A i \in Nat : i < FreeIndex(Listed) => \E m \in seen : icache[m] = i

LEMMA Picks == TypeOK => PicksFirst
<1> SUFFICES ASSUME TypeOK PROVE PicksFirst
    OBVIOUS
<1>1. FreeIndex(Listed) \in Nat /\ \A k \in 1..Len(Listed) : Listed[k] # FreeIndex(Listed)
    BY ListedInOrder, FreeIndexIsFree
<1>2. \A m \in seen : icache[m] # FreeIndex(Listed)
    BY <1>1, ListedInOrder
<1>3. ASSUME \A m, n \in seen : m # n => icache[m] # icache[n], NEW i \in Nat, i < FreeIndex(Listed)
      PROVE  \E m \in seen : icache[m] = i
    <2>1. \A j, k \in 1..Len(Listed) : Listed[j] = Listed[k] => j = k
        BY <1>3, ListedInOrder
    <2>2. PICK k \in 1..Len(Listed) : Listed[k] = i
        BY <1>3, <2>1, ListedInOrder, FreeIndexIsLeast
    <2> QED BY <2>2, ListedInOrder
<1> QED BY <1>1, <1>2, <1>3 DEF PicksFirst

LEMMA InitHolds == Init => IInv
<1> SUFFICES ASSUME Init PROVE IInv
    OBVIOUS
<1>1. /\ stored = {} /\ seen = {} /\ owned = {} /\ renumbered = {}
      /\ raced = FALSE /\ lowered = FALSE /\ scales = 0 /\ faults = 0
      /\ replicas = Replicas /\ rcache = Replicas /\ base = Replicas
      /\ index \in [Names -> {Nil}] /\ icache = index /\ step \in [Names -> {"none"}]
    BY DEF Init
<1>2. Replicas \in Nat /\ MaxFaults \in Nat /\ MaxScales \in Nat
    BY AllocationAssumption DEF AllocationAssumption
<1>3. \A n \in Names : step[n] = "none"
    BY <1>1
<1>4. TypeOK
    <2>1. index \in [Names -> Nat \cup {Nil}] /\ icache \in [Names -> Nat \cup {Nil}]
        BY <1>1
    <2>2. step \in [Names -> Steps]
        BY <1>1 DEF Steps
    <2>3. scales \in 0..MaxScales /\ faults \in 0..MaxFaults
        BY <1>1, <1>2
    <2> QED BY <1>1, <1>2, <1>3, <2>1, <2>2, <2>3 DEF TypeOK
<1>5. Stored /\ Owned /\ Cached /\ Served
    BY <1>1, <1>3 DEF Stored, Owned, Cached, Served
<1>6. Backed
    BY <1>1, <1>2, <1>3 DEF Backed
<1>7. Calm
    BY <1>1, <1>3 DEF Calm, Unique, InFlight, Managed, Creating
<1>8. Growing
    <2>1. Quiet
        BY <1>3 DEF Quiet, InFlight
    <2>2. base..(replicas - 1) = {}
        BY <1>1, <1>2
    <2> QED BY <1>3, <2>1, <2>2 DEF Growing
<1> QED BY <1>4, <1>5, <1>6, <1>7, <1>8 DEF IInv

\* A calm behaviour was calm all along.
LEMMA Lasting == TypeOK /\ [Next]_vars => (~raced' => ~raced) /\ (Steady' => Steady)
<1> SUFFICES ASSUME TypeOK, [Next]_vars PROVE (~raced' => ~raced) /\ (Steady' => Steady)
    OBVIOUS
<1>1. ~raced' => ~raced
    BY DEF Next, Submit, List, Create, GiveUp, Mutate, Validate, Persist, Check, Grow, SetOwner,
           StartOver, Delete, Renumber, Scale, SyncEntities, SyncSts, vars
<1>2. faults' = faults \/ faults' = faults + 1
    BY DEF Next, Submit, List, Create, GiveUp, Mutate, Validate, Persist, Check, Grow, SetOwner,
           StartOver, Delete, Renumber, Scale, SyncEntities, SyncSts, vars
<1>3. faults \in Nat
    BY AllocationAssumption DEF AllocationAssumption, TypeOK
<1>4. renumbered \subseteq renumbered'
    BY DEF Next, Submit, List, Create, GiveUp, Mutate, Validate, Persist, Check, Grow, SetOwner,
           StartOver, Delete, Renumber, Scale, SyncEntities, SyncSts, vars
<1> QED BY <1>1, <1>2, <1>3, <1>4 DEF Steady

\* Types, and the steps of those that were admitted, one action at a time.
LEMMA TypeStep == TypeOK /\ Stored /\ [Next]_vars => TypeOK' /\ Stored'
<1> SUFFICES ASSUME TypeOK, Stored, [Next]_vars PROVE TypeOK' /\ Stored'
    OBVIOUS
<1>n. /\ MaxFaults \in Nat /\ MaxScales \in Nat /\ Wishes \subseteq Nat /\ Targets \subseteq Nat
    BY AllocationAssumption DEF AllocationAssumption
<1>p. FreeIndex(Listed) \in Nat
    BY Picks DEF PicksFirst
<1> USE DEF TypeOK, Stored, Steps, InFlight, Kept, Goto, store, sts, scaling, Nil
<1>1. ASSUME NEW n \in Names, NEW i \in Wishes \cup {Nil}, Submit(n, i) PROVE TypeOK' /\ Stored'
    BY <1>n, <1>1 DEF Submit
<1>2. ASSUME NEW A \in SUBSET Names, NEW f \in Injection(A, Wishes), List(A, f)
      PROVE  TypeOK' /\ Stored'
    <2>1. f \in [A -> Wishes]
        BY DEF Injection
    <2>2. index' \in [Names -> Nat \cup {Nil}] /\ step' \in [Names -> Steps]
        BY <1>n, <1>2, <2>1 DEF List
    <2>3. \A n \in Names : step'[n] \notin {"none", "mutate"} => index'[n] # Nil
        <3>1. \A n \in A : index'[n] = f[n] /\ f[n] # Nil
            BY <1>n, <1>2, <2>1 DEF List
        <3>2. \A n \in Names \ A : index'[n] = index[n] /\ step'[n] = step[n]
            BY <1>2 DEF List
        <3> QED BY <3>1, <3>2
    <2>4. UNCHANGED <<stored, seen, icache, owned, sts, renumbered, scaling, faults>> /\ raced' \in BOOLEAN
        BY <1>2 DEF List
    <2>5. \A n \in stored \cup seen : step'[n] = step[n]
        BY <1>2 DEF List
    <2> QED BY <2>2, <2>3, <2>4, <2>5
<1>3. ASSUME NEW n \in Names, Mutate(n) PROVE TypeOK' /\ Stored'
    BY <1>p, <1>3 DEF Mutate
<1>4. ASSUME NEW n \in Names, Create(n) \/ Validate(n) PROVE TypeOK' /\ Stored'
    BY <1>4 DEF Create, Validate
<1>5. ASSUME NEW n \in Names, Persist(n) PROVE TypeOK' /\ Stored'
    BY <1>5 DEF Persist
<1>6. ASSUME NEW n \in Names, Check(n) PROVE TypeOK' /\ Stored'
    BY <1>6 DEF Check
<1>7. ASSUME NEW n \in Names, Grow(n) PROVE TypeOK' /\ Stored'
    BY <1>n, <1>7 DEF Grow
<1>8. ASSUME NEW n \in Names, SetOwner(n) PROVE TypeOK' /\ Stored'
    BY <1>8 DEF SetOwner
<1>9. ASSUME NEW n \in Names, StartOver(n) PROVE TypeOK' /\ Stored'
    BY <1>n, <1>9 DEF StartOver
<1>10. ASSUME NEW n \in Names, Delete(n) PROVE TypeOK' /\ Stored'
    BY <1>10 DEF Delete
<1>11. ASSUME NEW n \in Names, NEW i \in Wishes \cup {Nil}, Renumber(n, i) PROVE TypeOK' /\ Stored'
    BY <1>n, <1>p, <1>11 DEF Renumber
<1>12. ASSUME NEW r \in Targets, Scale(r) PROVE TypeOK' /\ Stored'
    BY <1>n, <1>12 DEF Scale
<1>13. CASE GiveUp
    BY <1>n, <1>13 DEF GiveUp
<1>14. CASE SyncEntities
    <2>1. \A n \in stored : index[n] # Nil
        OBVIOUS
    <2> QED BY <1>14, <2>1 DEF SyncEntities
<1>15. CASE SyncSts
    BY <1>15 DEF SyncSts
<1>16. CASE UNCHANGED vars
    BY <1>16 DEF vars
<1> QED
    BY <1>1, <1>2, <1>3, <1>4, <1>5, <1>6, <1>7, <1>8, <1>9, <1>10, <1>11, <1>12, <1>13, <1>14,
       <1>15, <1>16 DEF Next

LEMMA OwnedStep == TypeOK /\ Stored /\ Owned /\ [Next]_vars => Owned'
<1> SUFFICES ASSUME TypeOK, Stored, Owned, [Next]_vars PROVE Owned'
    OBVIOUS
<1>t. step \in [Names -> Steps] /\ index \in [Names -> Nat \cup {Nil}] /\ owned \subseteq Names
    BY DEF TypeOK
<1>n. \A i \in Wishes : i # Nil
    BY AllocationAssumption DEF AllocationAssumption, Nil
<1> USE DEF Owned, Goto, store, sts
<1>1. ASSUME NEW n \in Names, NEW i \in Wishes \cup {Nil}, Submit(n, i) PROVE Owned'
    BY <1>t, <1>1 DEF Submit
<1>2. ASSUME NEW A \in SUBSET Names, NEW f \in Injection(A, Wishes), List(A, f) PROVE Owned'
    <2>1. \A n \in owned : n \notin A
        BY <1>2 DEF List
    <2> QED BY <1>t, <1>2, <2>1 DEF List
<1>3. ASSUME NEW n \in Names, Create(n) PROVE Owned'
    BY <1>t, <1>3 DEF Create, TypeOK
<1>4. ASSUME NEW n \in Names, Mutate(n) PROVE Owned'
    BY <1>t, <1>4 DEF Mutate
<1>5. ASSUME NEW n \in Names,
             Validate(n) \/ Persist(n) \/ Check(n) \/ Grow(n) \/ StartOver(n) \/ Delete(n)
      PROVE  Owned'
    <2>1. /\ UNCHANGED <<index, owned>>
          /\ \E s : step' = [step EXCEPT ![n] = s] /\ s \notin {"none", "listed"}
        BY <1>5 DEF Validate, Persist, Check, Grow, StartOver, Delete
    <2> QED BY <1>t, <2>1
<1>6. ASSUME NEW n \in Names, SetOwner(n) PROVE Owned'
    BY <1>t, <1>6 DEF SetOwner, TypeOK
<1>7. ASSUME NEW n \in Names, NEW i \in Wishes \cup {Nil}, Renumber(n, i) PROVE Owned'
    <2>1. FreeIndex(Listed) # Nil
        BY Picks DEF PicksFirst, Nil
    <2> QED BY <1>t, <1>n, <1>7, <2>1 DEF Renumber
<1>8. CASE GiveUp
    BY <1>t, <1>8 DEF GiveUp
<1>9. ASSUME NEW r \in Targets, Scale(r) PROVE Owned'
    BY <1>9 DEF Scale
<1>10. CASE SyncEntities \/ SyncSts \/ UNCHANGED vars
    BY <1>10 DEF SyncEntities, SyncSts, vars
<1> QED BY <1>1, <1>2, <1>3, <1>4, <1>5, <1>6, <1>7, <1>8, <1>9, <1>10 DEF Next

\* The index of an entity that was stored only an edit changes.
LEMMA IndexStays ==
    ASSUME TypeOK, Stored, [Next]_vars
    PROVE  \A n \in Names : step[n] \in Kept /\ n \notin renumbered' => index'[n] = index[n]
<1>t. step \in [Names -> Steps] /\ index \in [Names -> Nat \cup {Nil}]
    BY DEF TypeOK
<1> USE DEF Kept, Goto, store
<1>1. ASSUME NEW m \in Names,
             (\E i \in Wishes \cup {Nil} : Submit(m, i)) \/ Create(m) \/ Mutate(m) \/ Validate(m)
                \/ Persist(m)
      PROVE  \A n \in Names : step[n] \in Kept => index'[n] = index[n]
    BY <1>t, <1>1 DEF Submit, Create, Mutate, Validate, Persist
<1>2. ASSUME NEW m \in Names, Check(m) \/ Grow(m) \/ SetOwner(m) \/ StartOver(m) \/ Delete(m)
      PROVE  index' = index
    BY <1>2 DEF Check, Grow, SetOwner, StartOver, Delete
<1>3. ASSUME NEW m \in Names, NEW i \in Wishes \cup {Nil}, Renumber(m, i)
      PROVE  \A n \in Names : n \notin renumbered' => index'[n] = index[n]
    BY <1>t, <1>3 DEF Renumber
<1>4. ASSUME NEW A \in SUBSET Names, NEW f \in Injection(A, Wishes), List(A, f)
      PROVE  \A n \in Names : step[n] \in Kept => index'[n] = index[n]
    BY <1>t, <1>4 DEF List
<1>5. CASE GiveUp
    BY <1>t, <1>5 DEF GiveUp
<1>6. ASSUME (\E r \in Targets : Scale(r)) \/ SyncEntities \/ SyncSts \/ UNCHANGED vars
      PROVE  index' = index
    BY <1>6 DEF Scale, SyncEntities, SyncSts, vars
<1> QED BY <1>1, <1>2, <1>3, <1>4, <1>5, <1>6 DEF Next

LEMMA CachedStep == TypeOK /\ Stored /\ Cached /\ [Next]_vars => Cached'
<1> SUFFICES ASSUME TypeOK, Stored, Cached, [Next]_vars PROVE Cached'
    OBVIOUS
<1>1. \A n \in stored \cup seen : n \in Names /\ (n \notin renumbered' => index'[n] = index[n])
    BY IndexStays DEF TypeOK, Stored
<1>2. renumbered \subseteq renumbered' /\ (SyncEntities \/ UNCHANGED <<seen, icache>>)
    BY DEF Next, Submit, List, Create, GiveUp, Mutate, Validate, Persist, Check, Grow, SetOwner,
           StartOver, Delete, Renumber, Scale, SyncEntities, SyncSts, vars, store
<1>3. CASE SyncEntities
    BY <1>1, <1>3 DEF SyncEntities, Cached
<1> QED BY <1>1, <1>2, <1>3 DEF Cached

\* Only entities that no worker has are deleted.
LEMMA ServedStep == TypeOK /\ Served /\ [Next]_vars => Served'
<1> SUFFICES ASSUME TypeOK, Served, [Next]_vars PROVE Served'
    OBVIOUS
<1>t. step \in [Names -> Steps]
    BY DEF TypeOK
<1> USE DEF Served, Goto, store
<1>1. ASSUME NEW n \in Names,
             (\E i \in Wishes \cup {Nil} : Submit(n, i)) \/ Create(n) \/ Mutate(n) \/ Validate(n)
      PROVE  Served'
    BY <1>t, <1>1 DEF Submit, Create, Mutate, Validate
<1>2. ASSUME NEW A \in SUBSET Names, NEW f \in Injection(A, Wishes), List(A, f) PROVE Served'
    BY <1>t, <1>2 DEF List
<1>3. ASSUME NEW n \in Names,
             Check(n) \/ Grow(n) \/ SetOwner(n) \/ StartOver(n)
                \/ \E i \in Wishes \cup {Nil} : Renumber(n, i)
      PROVE  Served'
    <2>1. stored' = stored /\ n \in stored
        BY <1>3 DEF Check, Grow, SetOwner, StartOver, Renumber
    <2>2. \A m \in Names : m # n => step'[m] = step[m]
        BY <1>t, <1>3 DEF Check, Grow, SetOwner, StartOver, Renumber
    <2> QED BY <2>1, <2>2
<1>4. ASSUME NEW n \in Names, Persist(n) \/ Delete(n) PROVE Served'
    BY <1>t, <1>4 DEF Persist, Delete
<1>5. CASE GiveUp
    BY <1>t, <1>5 DEF GiveUp
<1>6. CASE (\E r \in Targets : Scale(r)) \/ SyncEntities \/ SyncSts \/ UNCHANGED vars
    BY <1>6 DEF Scale, SyncEntities, SyncSts, vars
<1> QED BY <1>1, <1>2, <1>3, <1>4, <1>5, <1>6 DEF Next

\* Until they are lowered, the cached replicas are at most the real ones.
LEMMA BackedStep == TypeOK /\ Stored /\ Cached /\ Backed /\ [Next]_vars => Backed'
<1> SUFFICES ASSUME TypeOK, Stored, Cached, Backed, [Next]_vars, ~lowered' PROVE Backed'
    BY DEF Backed
<1>l. ~lowered
    BY DEF Next, Submit, List, Create, GiveUp, Mutate, Validate, Persist, Check, Grow, SetOwner,
           StartOver, Delete, Renumber, Scale, SyncEntities, SyncSts, vars, scaling
<1>n. /\ replicas \in Int /\ rcache \in Int /\ rcache <= replicas
      /\ \A n \in Names : index[n] \in Int /\ icache[n] \in Int
    BY <1>l DEF TypeOK, Nil, Backed
<1>t. step \in [Names -> Steps]
    BY DEF TypeOK
<1>b. \A n \in Names \ renumbered : /\ step[n] = "grow" => index[n] <= replicas
                                    /\ step[n] \in {"own", "done"} => index[n] < replicas
    BY <1>l DEF Backed
<1>i. \A n \in Names \ renumbered' : step[n] \in {"check", "grow", "own", "done"} => index'[n] = index[n]
    BY IndexStays DEF Kept
<1> USE DEF Goto, store, sts
<1>1. ASSUME UNCHANGED <<replicas, rcache>>, renumbered \subseteq renumbered',
             \A n \in Names : step'[n] # step[n] => step'[n] \notin {"grow", "own", "done"}
      PROVE  Backed'
    BY <1>n, <1>b, <1>i, <1>1 DEF Backed
<1>2. ASSUME NEW n \in Names,
             (\E i \in Wishes \cup {Nil} : Submit(n, i) \/ Renumber(n, i)) \/ Create(n) \/ Mutate(n)
                \/ Validate(n) \/ Persist(n) \/ StartOver(n) \/ Delete(n)
      PROVE  Backed'
    <2>1. UNCHANGED <<replicas, rcache>> /\ renumbered \subseteq renumbered'
        BY <1>2 DEF Submit, Renumber, Create, Mutate, Validate, Persist, StartOver, Delete
    <2>2. \E s : step' = [step EXCEPT ![n] = s] /\ (s = step[n] \/ s \notin {"grow", "own", "done"})
        BY <1>2 DEF Submit, Renumber, Create, Mutate, Validate, Persist, StartOver, Delete
    <2> QED BY <1>1, <1>t, <2>1, <2>2
<1>3. ASSUME NEW A \in SUBSET Names, NEW f \in Injection(A, Wishes), List(A, f) PROVE Backed'
    BY <1>1, <1>t, <1>3 DEF List
<1>4. CASE GiveUp
    BY <1>1, <1>t, <1>4 DEF GiveUp
<1>5. ASSUME NEW n \in Names, Check(n) PROVE Backed'
    <2>1. n \notin renumbered => icache[n] = index[n]
        BY <1>5 DEF Check, Cached
    <2>2. UNCHANGED <<index, replicas, rcache, renumbered>>
        BY <1>5 DEF Check
    <2>3. step'[n] = "grow" => rcache = icache[n]
        BY <1>5, <1>t DEF Check
    <2>4. step'[n] \in {"own", "done"} => rcache # icache[n] /\ ~(rcache < icache[n])
        BY <1>5, <1>t DEF Check
    <2>5. \A m \in Names : m # n => step'[m] = step[m]
        BY <1>5, <1>t DEF Check
    <2> QED BY <1>n, <1>b, <2>1, <2>2, <2>3, <2>4, <2>5 DEF Backed
<1>6. ASSUME NEW n \in Names, Grow(n) PROVE Backed'
    <2>1. /\ replicas' = replicas + 1 /\ UNCHANGED <<index, rcache, renumbered>>
          /\ step[n] = "grow" /\ step'[n] = "own" /\ \A m \in Names : m # n => step'[m] = step[m]
        BY <1>6, <1>t DEF Grow
    <2> QED BY <1>n, <1>b, <2>1 DEF Backed
<1>7. ASSUME NEW n \in Names, SetOwner(n) PROVE Backed'
    <2>1. /\ UNCHANGED <<index, replicas, rcache, renumbered>>
          /\ step[n] = "own" /\ step'[n] = "done" /\ \A m \in Names : m # n => step'[m] = step[m]
        BY <1>7, <1>t DEF SetOwner
    <2> QED BY <1>n, <1>b, <2>1 DEF Backed
<1>8. ASSUME NEW r \in Targets, Scale(r) PROVE Backed'
    <2>0. lowered' = (lowered \/ r < replicas)
        BY <1>8, Zenon DEF Scale
    <2>4. ~(r < replicas)
        BY <2>0, Zenon
    <2>1. r \in Int /\ ~(r < replicas)
        BY <2>4, AllocationAssumption DEF AllocationAssumption
    <2>2. replicas' = r /\ UNCHANGED <<index, rcache, renumbered, step>>
        BY <1>8 DEF Scale
    <2> QED BY <1>n, <1>b, <2>1, <2>2 DEF Backed
<1>9. CASE SyncSts
    <2>1. rcache' = replicas /\ UNCHANGED <<index, replicas, renumbered, step>>
        BY <1>9 DEF SyncSts
    <2> QED BY <1>n, <1>b, <2>1 DEF Backed
<1>10. CASE SyncEntities \/ UNCHANGED vars
    BY <1>1, <1>10 DEF SyncEntities, vars
<1> QED BY <1>2, <1>3, <1>4, <1>5, <1>6, <1>7, <1>8, <1>9, <1>10 DEF Next

\* A request that overlaps no other one finds every entity in the list, and keeps
\* the others out until it is stored; so does a pass of the Model, from its list to
\* its last create.
LEMMA CalmStep ==
    TypeOK /\ Stored /\ Owned /\ Cached /\ (~raced => Calm) /\ [Next]_vars => (~raced' => Calm')
<1> SUFFICES ASSUME TypeOK, Stored, Owned, Cached, ~raced => Calm, [Next]_vars, ~raced' PROVE Calm'
    OBVIOUS
<1>t. /\ step \in [Names -> Steps] /\ index \in [Names -> Nat \cup {Nil}]
      /\ stored \subseteq Names /\ seen \subseteq Names /\ owned \subseteq Names
    BY DEF TypeOK
<1>c. Calm
    BY Lasting
<1>u. Unique(stored \ renumbered)
    BY <1>c DEF Calm
<1>a. \A n \in Names : step[n] \in InFlight => Managed(n) \/ Alone(n)
    BY <1>c DEF Calm
<1>h. \A n \in Names : Managed(n) \/ step[n] = "persist" => Unshared(n)
    BY <1>c DEF Calm
<1>s. \A n \in stored \cup seen : step[n] \in Kept
    BY DEF Stored
<1>k. \A f \in Kept : f \notin InFlight /\ f # "none" /\ f # "listed" /\ f # "mutate" /\ f # "persist"
    BY DEF Kept, InFlight
<1>o. \A n \in owned : step[n] # "none" /\ step[n] # "listed" /\ index[n] # Nil
    BY DEF Owned
<1>m. \A n \in Names : Managed(n) <=> step[n] = "listed" \/ (n \in owned /\ step[n] \in InFlight)
    BY DEF Managed, Creating
<1>f. {"listed", "mutate", "validate", "persist"} = InFlight
    BY DEF InFlight
<1> DEFINE Quietly ==
              /\ stored' \subseteq stored /\ renumbered \subseteq renumbered'
              /\ \A n \in Names : step[n] \in Kept /\ n \notin renumbered' => index'[n] = index[n]
              /\ \A n \in Names : step'[n] \in InFlight =>
                    /\ step[n] \in InFlight /\ index'[n] = index[n]
                    /\ Managed(n) <=> Managed(n)'
                    /\ step'[n] = "persist" => Managed(n) \/ step[n] = "persist"
              /\ seen = stored => seen' = stored'
\* Nothing new is in flight, no index that counts changes.
<1>1. ASSUME Quietly PROVE Calm'
    <2>1. Unique(stored \ renumbered)'
        BY <1>u, <1>s, <1>t, <1>1 DEF Unique
    <2>2. ASSUME NEW n \in Names, step'[n] \in InFlight PROVE Managed(n)' \/ Alone(n)'
        BY <1>a, <1>1, <2>2 DEF Alone
    <2>3. ASSUME NEW n \in Names, Managed(n)' \/ step'[n] = "persist" PROVE Unshared(n)'
        <3>1. step'[n] \in InFlight
            BY <1>f, <2>3 DEF Managed, Creating
        <3>2. Unshared(n) /\ index'[n] = index[n]
            BY <1>h, <1>1, <2>3, <3>1
        <3>3. ASSUME NEW m \in Names, m \notin renumbered', m # n, m \in stored' \/ Managed(m)'
              PROVE  index'[m] # index'[n]
            <4>1. CASE m \in stored'
                <5>1. m \in stored /\ m \notin renumbered /\ index'[m] = index[m]
                    BY <1>1, <1>s, <3>3, <4>1
                <5> QED BY <3>2, <3>3, <5>1 DEF Unshared
            <4>2. CASE Managed(m)'
                <5>1. step'[m] \in InFlight
                    BY <1>f, <4>2 DEF Managed, Creating
                <5>2. Managed(m) /\ m \notin renumbered /\ index'[m] = index[m]
                    BY <1>1, <3>3, <4>2, <5>1
                <5> QED BY <3>2, <3>3, <5>2 DEF Unshared
            <4> QED BY <3>3, <4>1, <4>2
        <3> QED BY <3>3 DEF Unshared
    <2> QED BY <2>1, <2>2, <2>3 DEF Calm
<1> HIDE DEF Quietly
<1>2. ASSUME NEW n \in Names, NEW i \in Wishes \cup {Nil}, Submit(n, i) PROVE Calm'
    <2>1. /\ seen = stored /\ (\A m \in Names : step[m] \notin InFlight)
          /\ n \notin owned /\ n \notin stored /\ step[n] = "none"
        BY <1>s, <1>k, <1>o, <1>2 DEF Submit, Overlaps
    <2>2. /\ UNCHANGED <<stored, seen, owned, renumbered>>
          /\ step' = [step EXCEPT ![n] = "mutate"] /\ index' = [index EXCEPT ![n] = i]
        BY <1>2 DEF Submit, Goto
    <2>3. \A m \in Names : ~Managed(m)' /\ (step'[m] \in InFlight => m = n) /\ step'[m] # "persist"
        BY <1>t, <1>f, <2>1, <2>2 DEF Managed, Creating
    <2>4. Unique(stored \ renumbered)'
        BY <1>u, <1>t, <2>1, <2>2 DEF Unique
    <2> QED BY <2>1, <2>2, <2>3, <2>4 DEF Calm, Alone
<1>3. ASSUME NEW A \in SUBSET Names, NEW f \in Injection(A, Wishes), List(A, f) PROVE Calm'
    <2>1. /\ seen = stored /\ \A m \in Names : step[m] \notin InFlight
          /\ \A n \in A : step[n] = "none" /\ \A m \in seen : icache[m] # f[n]
        BY <1>3 DEF List, Overlaps
    <2>2. /\ UNCHANGED <<stored, seen, owned, renumbered>>
          /\ \A n \in A : step'[n] = "listed" /\ index'[n] = f[n]
          /\ \A n \in Names \ A : step'[n] = step[n] /\ index'[n] = index[n]
        BY <1>3 DEF List
    <2>3. \A n \in Names : (n \in A => Managed(n)')
                           /\ (step'[n] \in InFlight \/ Managed(n)' \/ step'[n] = "persist" => n \in A)
        BY <1>f, <2>1, <2>2 DEF Managed, Creating
    <2>4. \A n \in A : n \notin stored
        BY <1>s, <1>k, <2>1
    <2>5. Unique(stored \ renumbered)'
        BY <1>u, <1>t, <2>2, <2>4 DEF Unique
    <2>6. ASSUME NEW n \in A, NEW m \in Names \ renumbered, m # n, m \in stored \/ m \in A
          PROVE  index'[m] # index'[n]
        <3>1. CASE m \in stored
            BY <2>1, <2>2, <2>4, <2>6, <3>1 DEF Cached
        <3>2. CASE m \in A
            BY <2>2, <2>6, <3>2 DEF Injection, IsInjective
        <3> QED BY <2>6, <3>1, <3>2
    <2>7. \A n \in A : Unshared(n)'
        BY <2>2, <2>3, <2>6 DEF Unshared
    <2> QED BY <2>3, <2>5, <2>7 DEF Calm
<1>4. ASSUME NEW n \in Names, Create(n) PROVE Calm'
    <2>1. /\ UNCHANGED <<stored, index, seen, renumbered>> /\ step[n] = "listed"
          /\ owned' = owned \cup {n} /\ step' = [step EXCEPT ![n] = "mutate"]
        BY <1>4 DEF Create, Goto
    <2> QED BY <1>1, <1>t, <1>f, <1>m, <2>1 DEF Quietly, Managed, Creating
<1>5. CASE GiveUp
    <2>1. /\ UNCHANGED <<stored, seen, owned, renumbered>>
          /\ \A n \in Names : IF step[n] = "listed" THEN step'[n] = "none"
                              ELSE step'[n] = step[n] /\ index'[n] = index[n]
        BY <1>5 DEF GiveUp
    <2>2. "none" \notin InFlight
        BY DEF InFlight
    <2> QED BY <1>1, <1>t, <1>k, <1>m, <2>1, <2>2 DEF Quietly, Managed, Creating
<1>6. ASSUME NEW n \in Names, Mutate(n) PROVE Calm'
    <2>1. /\ UNCHANGED <<stored, seen, owned, renumbered>> /\ step[n] = "mutate"
          /\ step' = [step EXCEPT ![n] = "validate"]
          /\ index' = [index EXCEPT ![n] = IF @ = Nil THEN FreeIndex(Listed) ELSE @]
        BY <1>6 DEF Mutate, Goto
    <2>2. CASE n \in owned
        <3>1. index' = index
            BY <1>t, <1>o, <2>1, <2>2
        <3> QED BY <1>1, <1>t, <1>f, <1>m, <2>1, <3>1 DEF Quietly, Managed, Creating
    <2>3. CASE n \notin owned
        <3>1. Alone(n) /\ ~Managed(n) /\ n \notin stored
            BY <1>a, <1>f, <1>k, <1>m, <1>s, <2>1, <2>3
        <3>2. \A m \in Names : ~Managed(m)' /\ (step'[m] \in InFlight => m = n) /\ step'[m] # "persist"
            BY <1>t, <1>f, <2>1, <2>3, <3>1 DEF Alone, Managed, Creating
        <3>3. Unique(stored \ renumbered)'
            BY <1>u, <1>t, <2>1, <3>1 DEF Unique
        <3> QED BY <2>1, <3>1, <3>2, <3>3 DEF Calm, Alone
    <2> QED BY <2>2, <2>3
<1>7. ASSUME NEW n \in Names, Validate(n) PROVE Calm'
    <2>1. /\ UNCHANGED <<stored, index, seen, owned, renumbered>> /\ step[n] = "validate"
          /\ step' = [step EXCEPT ![n] = IF Admissible(n) THEN "persist" ELSE "rejected"]
        BY <1>7 DEF Validate, Goto, store
    <2>2. "rejected" \notin InFlight /\ "rejected" # "persist"
        BY DEF InFlight
    <2>3. CASE n \in owned \/ ~Admissible(n)
        BY <1>1, <1>t, <1>f, <1>m, <2>1, <2>2, <2>3 DEF Quietly, Managed, Creating
    <2>4. CASE n \notin owned /\ Admissible(n)
        <3>1. Alone(n) /\ ~Taken(n)
            BY <1>a, <1>f, <1>m, <2>1, <2>4 DEF Admissible
        <3>2. \A m \in Names : ~Managed(m)' /\ (step'[m] \in InFlight => m = n)
            BY <1>t, <1>f, <2>1, <2>4, <3>1 DEF Alone, Managed, Creating
        <3>3. Unique(stored \ renumbered)'
            BY <1>u, <2>1 DEF Unique
        <3>4. Unshared(n)'
            BY <2>1, <3>1, <3>2 DEF Unshared, Alone, Taken, Cached
        <3>5. \A m \in Names : step'[m] = "persist" => m = n
            BY <1>f, <3>2
        <3> QED BY <2>1, <3>1, <3>2, <3>3, <3>4, <3>5 DEF Calm, Alone
    <2> QED BY <2>3, <2>4
<1>8. ASSUME NEW n \in Names, Persist(n) PROVE Calm'
    <2>1. /\ UNCHANGED <<index, seen, owned, renumbered>> /\ step[n] = "persist"
          /\ stored' = stored \cup {n}
          /\ \A m \in Names : m # n => step'[m] = step[m]
          /\ step'[n] \in {"made", "check"}
        BY <1>8, <1>t DEF Persist, Goto
    <2>2. step'[n] \notin InFlight /\ step[n] \in InFlight
        BY <2>1 DEF InFlight
    <2>3. Unshared(n)
        BY <1>h, <2>1
    <2>4. Unique(stored \ renumbered)'
        BY <1>u, <1>t, <2>1, <2>3 DEF Unique, Unshared
    <2>5. \A m \in Names : step'[m] \in InFlight => m # n /\ Managed(m) /\ Managed(m)'
        <3> SUFFICES ASSUME NEW m \in Names, step'[m] \in InFlight
                     PROVE  m # n /\ Managed(m) /\ Managed(m)'
            OBVIOUS
        <3>1. m # n /\ step[m] \in InFlight
            BY <2>1, <2>2
        <3>2. Managed(m)
            BY <1>a, <2>2, <3>1 DEF Alone
        <3> QED BY <2>1, <3>1, <3>2 DEF Managed, Creating
    <2>6. ASSUME NEW m \in Names, Managed(m)' \/ step'[m] = "persist" PROVE Unshared(m)'
        <3>1. step'[m] \in InFlight
            BY <1>f, <2>6 DEF Managed, Creating
        <3>2. m # n /\ Managed(m) /\ Unshared(m)
            BY <1>h, <2>5, <3>1
        <3>3. ASSUME NEW l \in Names, Managed(l)' PROVE Managed(l)
            <4>1. step'[l] \in InFlight
                BY <1>f, <3>3 DEF Managed, Creating
            <4> QED BY <2>5, <4>1
        <3>4. n \notin renumbered => index[n] # index[m]
            <4>1. Managed(n)
                BY <1>a, <2>1, <2>2, <3>1, <3>2, <2>5 DEF Alone
            <4> QED BY <3>2, <4>1 DEF Unshared
        <3> QED BY <2>1, <3>2, <3>3, <3>4 DEF Unshared
    <2> QED BY <2>4, <2>5, <2>6 DEF Calm
<1>9. ASSUME NEW n \in Names,
             Check(n) \/ Grow(n) \/ SetOwner(n) \/ StartOver(n)
                \/ \E i \in Wishes \cup {Nil} : Renumber(n, i)
      PROVE  Calm'
    <2>1. step[n] \in Kept /\ stored' = stored /\ seen' = seen /\ renumbered \subseteq renumbered'
        BY <1>9, <1>s DEF Check, Grow, SetOwner, StartOver, Renumber, Kept, store
    <2>2. /\ owned' \in {owned, owned \cup {n}}
          /\ \A m \in Names : m # n => index'[m] = index[m]
          /\ n \in renumbered' \/ index' = index
        BY <1>9, <1>t DEF Check, Grow, SetOwner, StartOver, Renumber, store
    <2>3. /\ \A m \in Names : m # n => step'[m] = step[m]
          /\ step'[n] \in Kept
        BY <1>9, <1>t, <2>1 DEF Check, Grow, SetOwner, StartOver, Renumber, Goto, Kept
    <2> QED BY <1>1, <1>t, <1>k, <2>1, <2>2, <2>3 DEF Quietly, Managed, Creating
<1>10. ASSUME NEW n \in Names, Delete(n) PROVE Calm'
    <2>1. (\A m \in Names : step[m] \notin InFlight) /\ UNCHANGED <<index, owned, renumbered>>
          /\ stored' \subseteq stored /\ step' = [step EXCEPT ![n] = "deleted"]
        BY <1>10 DEF Delete, Overlaps, Goto
    <2>2. \A m \in Names : step'[m] \notin InFlight
        BY <1>t, <2>1 DEF InFlight
    <2>3. \A m \in Names : ~Managed(m)' /\ step'[m] # "persist"
        BY <1>f, <2>2 DEF Managed, Creating
    <2>4. Unique(stored \ renumbered)'
        BY <1>u, <2>1 DEF Unique
    <2> QED BY <2>2, <2>3, <2>4 DEF Calm
<1>11. CASE (\E r \in Targets : Scale(r)) \/ SyncEntities \/ SyncSts \/ UNCHANGED vars
    <2>1. UNCHANGED <<stored, index, owned, step, renumbered>> /\ seen' \in {seen, stored}
        BY <1>11 DEF Scale, SyncEntities, SyncSts, vars, store
    <2> QED BY <1>1, <2>1 DEF Quietly, Managed, Creating
<1> QED BY <1>2, <1>3, <1>4, <1>5, <1>6, <1>7, <1>8, <1>9, <1>10, <1>11 DEF Next

\* What was admitted stays so, under its index.
LEMMA AdmittedStay ==
    ASSUME TypeOK, Stored, [Next]_vars
    PROVE  \A n \in Admitted : n \in Admitted' /\ (n \notin renumbered' => index'[n] = index[n])
<1>t. step \in [Names -> Steps]
    BY DEF TypeOK
<1>k. Admitted = {n \in Names : step[n] \in Kept}
    BY <1>t DEF Admitted, Kept, Steps, InFlight
<1>i. \A n \in Admitted : n \notin renumbered' => index'[n] = index[n]
    BY <1>k, IndexStays
<1> USE DEF Admitted, Steps, InFlight, Goto, store
<1>1. ASSUME NEW m \in Names, (\E i \in Wishes \cup {Nil} : Submit(m, i) \/ Renumber(m, i)) \/ Create(m)
      PROVE  \A n \in Admitted : n \in Admitted'
    BY <1>t, <1>1 DEF Submit, Renumber, Create
<1>2. ASSUME NEW m \in Names, Mutate(m) \/ Validate(m) \/ Persist(m)
      PROVE  \A n \in Admitted : n \in Admitted'
    BY <1>t, <1>2 DEF Mutate, Validate, Persist
<1>3. ASSUME NEW m \in Names, Check(m) \/ Grow(m) \/ SetOwner(m) \/ StartOver(m) \/ Delete(m)
      PROVE  \A n \in Admitted : n \in Admitted'
    BY <1>t, <1>3 DEF Check, Grow, SetOwner, StartOver, Delete
<1>4. ASSUME NEW A \in SUBSET Names, NEW f \in Injection(A, Wishes), List(A, f)
      PROVE  \A n \in Admitted : n \in Admitted'
    BY <1>t, <1>4 DEF List
<1>5. CASE GiveUp
    BY <1>t, <1>5 DEF GiveUp
<1>6. CASE (\E r \in Targets : Scale(r)) \/ SyncEntities \/ SyncSts \/ UNCHANGED vars
    BY <1>6 DEF Scale, SyncEntities, SyncSts, vars
<1> QED BY <1>i, <1>1, <1>2, <1>3, <1>4, <1>5, <1>6 DEF Next

\* An entity decides to grow on the real replicas, though it compares with the
\* cached ones, and no other one has the same index.
LEMMA GrowingStep ==
    ASSUME TypeOK, Stored, Served, Cached, ~raced => Calm, Steady => Growing, [Next]_vars
    PROVE  Steady' => Growing'
<1> SUFFICES ASSUME Steady' PROVE Growing'
    OBVIOUS
<1>y. Steady /\ Growing /\ Unique(stored) /\ renumbered = {} /\ renumbered' = {} /\ ~raced' /\ faults' = 0
    BY Lasting DEF Steady, Calm
<1>t. /\ step \in [Names -> Steps] /\ stored \subseteq Names
      /\ rcache \in Int /\ replicas \in Int /\ base \in Int
      /\ \A n \in Names : index[n] \in Int
    BY DEF TypeOK, Nil
<1>g. \A n \in Names : step[n] = "grow" => index[n] = replicas
    BY <1>y DEF Growing
<1>v. Quiet \/ Shown
    BY <1>y DEF Growing
<1>e. \A r \in base..(replicas - 1) : \E n \in Admitted : index[n] = r
    BY <1>y DEF Growing
<1>a. \A n \in Admitted : n \in Admitted' /\ index'[n] = index[n]
    BY <1>y, AdmittedStay
<1>s. \A n \in stored : n \in Admitted /\ step[n] \in Kept
    BY <1>t DEF Stored, Admitted, Kept, Steps, InFlight
<1>i. \A n \in Names : step[n] \in Kept => index'[n] = index[n]
    BY <1>y, IndexStays
<1>k. UNCHANGED <<replicas, base>> => \A r \in base'..(replicas' - 1) : \E n \in Admitted' : index'[n] = r
    BY <1>e, <1>a
<1>q. "own" \in Kept /\ "done" \in Kept /\ "grow" \in Kept
    BY DEF Kept
\* Nothing about the replicas changes, and no other entity may grow them.
<1>1. ASSUME UNCHANGED <<replicas, base, rcache>>, stored \subseteq stored' \/ rcache = replicas,
             \A n \in Names : step'[n] = "grow" => step[n] = "grow",
             \A n \in Names : step[n] \in {"own", "done"} => step'[n] \in {"own", "done"} \/ rcache = replicas,
             \/ \A n \in Names : step'[n] \in InFlight \cup {"check", "grow"}
                                 => step[n] \in InFlight \cup {"check", "grow"}
             \/ rcache = replicas
      PROVE  Growing'
    <2>1. ASSUME NEW n \in Names, step'[n] = "grow" PROVE index'[n] = replicas'
        BY <1>1, <1>g, <1>i, <1>q, <2>1
    <2>2. CASE rcache = replicas
        <3>1. rcache'..(replicas' - 1) = {} /\ rcache' <= replicas'
            BY <1>1, <1>t, <2>2
        <3> QED BY <1>1, <1>k, <2>1, <3>1 DEF Growing, Shown
    <2>3. CASE Quiet /\ rcache # replicas
        <3>1. Quiet'
            BY <1>1, <2>3 DEF Quiet
        <3> QED BY <1>1, <1>k, <2>1, <3>1 DEF Growing
    <2>4. CASE Shown /\ rcache # replicas
        <3>1. ASSUME NEW r \in rcache'..(replicas' - 1)
              PROVE  \E n \in stored' : step'[n] \in {"own", "done"} /\ index'[n] = r
            BY <1>1, <1>i, <1>q, <1>t, <2>4 DEF Shown
        <3>2. Shown'
            BY <1>1, <2>4, <3>1 DEF Shown
        <3> QED BY <1>1, <1>k, <2>1, <3>2 DEF Growing
    <2> QED BY <1>v, <2>2, <2>3, <2>4
<1>2. ASSUME NEW n \in Names, \E i \in Wishes \cup {Nil} : Submit(n, i) PROVE Growing'
    <2>1. /\ UNCHANGED <<stored, replicas, base, rcache>> /\ step[n] = "none"
          /\ step' = [step EXCEPT ![n] = "mutate"] /\ rcache = replicas
        BY <1>2, <1>y DEF Submit, Goto, sts, Overlaps
    <2> QED BY <1>1, <1>t, <2>1
<1>3. ASSUME NEW A \in SUBSET Names, NEW f \in Injection(A, Wishes), List(A, f) PROVE Growing'
    <2>1. /\ UNCHANGED <<stored, replicas, base, rcache>> /\ rcache = replicas
          /\ \A n \in A : step[n] = "none" /\ step'[n] = "listed"
          /\ \A n \in Names \ A : step'[n] = step[n]
        BY <1>3, <1>y DEF List, sts, Overlaps
    <2> QED BY <1>1, <2>1
<1>4. ASSUME NEW n \in Names, Create(n) \/ Mutate(n) \/ Validate(n) \/ Persist(n) PROVE Growing'
    <2>1. /\ stored \subseteq stored' /\ UNCHANGED <<replicas, base, rcache>>
          /\ step[n] \in InFlight
          /\ \E s : step' = [step EXCEPT ![n] = s] /\ s # "grow"
        BY <1>4 DEF Create, Mutate, Validate, Persist, Goto, sts, store, InFlight
    <2>2. "own" \notin InFlight /\ "done" \notin InFlight
        BY DEF InFlight
    <2> QED BY <1>1, <1>t, <2>1, <2>2
<1>5. ASSUME NEW n \in Names, Check(n) PROVE Growing'
    <2>1. /\ UNCHANGED <<stored, index, replicas, base, rcache>> /\ step[n] = "check" /\ n \in stored
          /\ \A m \in Names : m # n => step'[m] = step[m]
        BY <1>5, <1>t DEF Check, Goto, store, sts, Served
    <2>2. Shown
        BY <1>v, <2>1 DEF Quiet
    <2>3. ASSUME step'[n] = "grow" PROVE index[n] = replicas
        <3>1. rcache = index[n]
            BY <1>5, <1>t, <1>y, <2>3 DEF Check, Goto, Cached
        <3>2. ~(rcache <= replicas - 1)
            <4> SUFFICES ASSUME rcache <= replicas - 1 PROVE FALSE
                OBVIOUS
            <4>1. rcache \in rcache..(replicas - 1)
                BY <1>t
            <4>2. PICK m \in stored : step[m] \in {"own", "done"} /\ index[m] = rcache
                BY <2>2, <4>1 DEF Shown
            <4> QED BY <1>y, <2>1, <3>1, <4>2 DEF Unique
        <3> QED BY <1>t, <2>2, <3>1, <3>2 DEF Shown
    <2>4. ASSUME NEW m \in Names, step'[m] = "grow" PROVE index'[m] = replicas'
        BY <1>g, <2>1, <2>3, <2>4
    <2>5. Shown'
        <3>1. rcache' <= replicas'
            BY <2>1, <2>2 DEF Shown
        <3>2. ASSUME NEW r \in rcache'..(replicas' - 1)
              PROVE  \E m \in stored' : step'[m] \in {"own", "done"} /\ index'[m] = r
            <4>1. PICK m \in stored : step[m] \in {"own", "done"} /\ index[m] = r
                BY <2>1, <2>2 DEF Shown
            <4> QED BY <1>t, <2>1, <4>1
        <3> QED BY <3>1, <3>2 DEF Shown
    <2> QED BY <1>k, <2>1, <2>4, <2>5 DEF Growing
<1>6. ASSUME NEW n \in Names, Grow(n) PROVE Growing'
    <2>1. /\ UNCHANGED <<stored, index, base, rcache>> /\ replicas' = replicas + 1
          /\ step[n] = "grow" /\ step'[n] = "own" /\ n \in stored
          /\ \A m \in Names : m # n => step'[m] = step[m]
        BY <1>6, <1>t DEF Grow, Goto, store, Served
    <2>2. index[n] = replicas /\ Shown
        BY <1>g, <1>v, <2>1 DEF Quiet
    <2>3. ASSUME NEW m \in Names, step'[m] = "grow" PROVE FALSE
        <3>1. m # n /\ step[m] = "grow" /\ index[m] = replicas
            BY <1>g, <2>1, <2>3
        <3>2. m \in stored
            BY <3>1 DEF Served
        <3> QED BY <1>y, <2>1, <2>2, <3>1, <3>2 DEF Unique
    <2>4. Shown'
        <3>1. rcache' <= replicas'
            BY <1>t, <2>1, <2>2 DEF Shown
        <3>2. ASSUME NEW r \in rcache'..(replicas' - 1)
              PROVE  \E m \in stored' : step'[m] \in {"own", "done"} /\ index'[m] = r
            <4>1. CASE r = replicas
                BY <2>1, <2>2, <4>1
            <4>2. CASE r # replicas
                <5>1. r \in rcache..(replicas - 1)
                    BY <1>t, <2>1, <4>2
                <5>2. PICK m \in stored : step[m] \in {"own", "done"} /\ index[m] = r
                    BY <2>2, <5>1 DEF Shown
                <5> QED BY <1>t, <2>1, <5>2
            <4> QED BY <4>1, <4>2
        <3> QED BY <3>1, <3>2 DEF Shown
    <2>5. ASSUME NEW r \in base'..(replicas' - 1) PROVE \E m \in Admitted' : index'[m] = r
        <3>1. CASE r = replicas
            BY <1>a, <1>s, <2>1, <2>2, <3>1
        <3>2. CASE r # replicas
            <4>1. r \in base..(replicas - 1)
                BY <1>t, <2>1, <3>2
            <4> QED BY <1>e, <1>a, <4>1
        <3> QED BY <3>1, <3>2
    <2> QED BY <2>3, <2>4, <2>5 DEF Growing
<1>7. ASSUME NEW n \in Names, SetOwner(n) PROVE Growing'
    <2>1. /\ UNCHANGED <<stored, replicas, base, rcache>>
          /\ step' = [step EXCEPT ![n] = "done"]
        BY <1>7 DEF SetOwner, Goto, sts
    <2>2. "done" \notin InFlight \cup {"check", "grow"}
        BY DEF InFlight
    <2> QED BY <1>1, <1>t, <2>1, <2>2
<1>8. ASSUME (\E n \in Names : StartOver(n) \/ \E i \in Wishes \cup {Nil} : Renumber(n, i)) \/ GiveUp
      PROVE  FALSE
    <2>1. faults = 0 /\ faults' = 0 /\ renumbered' = {}
        BY <1>y DEF Steady
    <2> QED BY <1>8, <2>1 DEF StartOver, Renumber, GiveUp
<1>9. ASSUME NEW n \in Names, Delete(n) PROVE Growing'
    <2>1. /\ UNCHANGED <<replicas, base, rcache>> /\ rcache = replicas
          /\ step' = [step EXCEPT ![n] = "deleted"]
        BY <1>9, <1>y DEF Delete, Overlaps, Goto, sts
    <2> QED BY <1>1, <1>t, <2>1
<1>10. ASSUME NEW r \in Targets, Scale(r) PROVE Growing'
    <2>0. raced' = (raced \/ \E n \in Names : step[n] \in InFlight \cup {"check", "grow"})
        BY <1>10, Zenon DEF Scale
    <2>1. /\ \A n \in Names : step[n] \notin InFlight \cup {"check", "grow"}
          /\ step' = step /\ replicas' = r /\ base' = r /\ r \in Int
        <3>1. \A n \in Names : step[n] \notin InFlight \cup {"check", "grow"}
            BY <1>y, <2>0, Zenon
        <3>2. step' = step /\ replicas' = r /\ base' = r
            BY <1>10 DEF Scale
        <3>3. r \in Int
            BY AllocationAssumption DEF AllocationAssumption
        <3> QED BY ONLY <3>1, <3>2, <3>3
    <2>2. Quiet' /\ base'..(replicas' - 1) = {}
        BY <2>1 DEF Quiet
    <2> QED BY <2>1, <2>2 DEF Growing
<1>11. CASE SyncSts
    <2>1. UNCHANGED <<stored, index, step, replicas, base>> /\ rcache' = replicas
        BY <1>11 DEF SyncSts, store
    <2>2. rcache'..(replicas' - 1) = {} /\ rcache' <= replicas'
        BY <1>t, <2>1
    <2> QED BY <1>g, <1>k, <2>1, <2>2 DEF Growing, Shown
<1>12. CASE SyncEntities \/ UNCHANGED vars
    <2>1. UNCHANGED <<stored, step, replicas, base, rcache>>
        BY <1>12 DEF SyncEntities, vars, store, sts
    <2> QED BY <1>1, <2>1
<1> QED
    BY <1>2, <1>3, <1>4, <1>5, <1>6, <1>7, <1>8, <1>9, <1>10, <1>11, <1>12 DEF Next

\* The parts of the invariant hold of every state that can be reached.
THEOREM Invariance == Spec => []IInv
<1>1. IInv /\ [Next]_vars => IInv'
    BY TypeStep, OwnedStep, CachedStep, BackedStep, ServedStep, CalmStep, GrowingStep DEF IInv
<1> QED BY <1>1, InitHolds, PTL DEF Spec

\* What the requests, the indexes and the replicas can be, for any names, wishes,
\* targets and bounds; the mutator gives every request an index that is a number.
THEOREM TypesHold == Spec => []TypeOK
<1>1. IInv => TypeOK
    BY DEF IInv
<1> QED BY <1>1, Invariance, PTL

\* In every state the loop of entityMutator.Handle would pick the first free index
\* of the entities that the informer lists.
THEOREM PicksFirstFree == Spec => []PicksFirst
<1>1. IInv => PicksFirst
    BY Picks DEF IInv
<1> QED BY <1>1, Invariance, PTL

\* Requests that do not overlap, through the mutator and the validator or created by
\* a pass of the Model from one list, never lead to two entities with one index,
\* unless an update, which ValidateUpdate does not look at, has changed one.
THEOREM CalmIndexesUnique == Spec => []CalmUnique
<1>1. IInv => CalmUnique
    BY DEF IInv, Calm, CalmUnique
<1> QED BY <1>1, Invariance, PTL

\* handleOwnershipAndReplicas adopts only entities whose pod the StatefulSet has,
\* or is to have, whatever replicas its cache showed it, and raising the replicas in
\* between takes it from none: only the Model controller's lower target does.
THEOREM AdoptedHavePods == Spec => []AdoptedHasPod
<1>1. IInv => AdoptedHasPod
    BY DEF IInv, Backed, AdoptedHasPod, HasPod
<1> QED BY <1>1, Invariance, PTL

\* While no two entities share an index, handleOwnershipAndReplicas grows the
\* StatefulSet once per index, in every interleaving of the workers and from
\* whatever replicas the Model controller set: it has no pod of theirs without one.
THEOREM GrowsOncePerIndex == Spec => []CalmGrowth
<1>1. IInv => CalmGrowth
    BY DEF IInv, Growing, Steady, CalmGrowth
<1> QED BY <1>1, Invariance, PTL
=============================================================================
