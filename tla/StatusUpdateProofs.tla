------------------------- MODULE StatusUpdateProofs -------------------------
(***************************************************************************)
(* Proofs about UpdateStatus, for any number of callers, attempts and      *)
(* foreign writes: exactly-once conditions, no lost condition, and the     *)
(* implementation of AtomicStatus.  The inductive invariant is Inv: what   *)
(* makes ExactlyOnce inductive is Coherent, that a copy whose              *)
(* resourceVersion the server still has is the server's status.            *)
(***************************************************************************)
EXTENDS StatusUpdate, TLAPS

\* The mutation of a status is a status, and touches only its caller's entry.
LEMMA MutateOne ==
    ASSUME NEW conds \in Conds, NEW c \in Calls
    PROVE  /\ Mutate(conds, c) \in Conds
           /\ Mutate(conds, c)[c] = conds[c] + 1
           /\ \A d \in Calls \ {c} : Mutate(conds, c)[d] = conds[d]
BY DEF Mutate, Conds

\* The initial object satisfies the invariant.
LEMMA InitInv == Init => Inv
<1> SUFFICES ASSUME Init PROVE Inv
  OBVIOUS
<1> USE DEF Init
<1>1. NoConds \in Conds
  BY DEF NoConds, Conds
<1>2. TypeOK
  BY <1>1, StepsAssumption, MaxWritesAssumption DEF TypeOK, Objects, Locals, Running, Returned
<1>3. Coherent
  BY StepsAssumption DEF Coherent
<1>4. ExactlyOnce
  BY DEF ExactlyOnce, NoConds
<1>5. QED
  BY <1>2, <1>3, <1>4 DEF Inv

\* Every step of a caller, of another writer or of the informer keeps it.
LEMMA StepInv == Inv /\ [Next]_vars => Inv'
<1> SUFFICES ASSUME Inv, [Next]_vars PROVE Inv'
  OBVIOUS
<1>0. TypeOK /\ Coherent /\ ExactlyOnce
  BY DEF Inv
<1>1. ASSUME NEW c \in Calls, Get(c) PROVE Inv'
  <2>1. cache.conds \in Conds /\ Mutate(cache.conds, c) \in Conds
    BY <1>0, MutateOne DEF TypeOK, Objects
  <2>2. TypeOK'
    <3>1. call[c] \in Locals /\ cache.rv \in Nat
      BY <1>0 DEF TypeOK, Objects
    <3>2. [call[c] EXCEPT !.pc = "update", !.rv = cache.rv, !.conds = Mutate(cache.conds, c)] \in Locals
      BY <2>1, <3>1 DEF Locals, Running
    <3>3. call' \in [Calls -> Locals]
      BY <1>0, <1>1, <3>2 DEF TypeOK, Get
    <3>4. QED
      BY <1>0, <1>1, <3>3 DEF TypeOK, Get
  <2>3. Coherent'
    <3>1. call'[c].pc = "update" /\ call'[c].rv = cache.rv /\ call'[c].left = call[c].left
      BY <1>0, <1>1 DEF TypeOK, Get, Locals
    <3>2. call'[c].conds = Mutate(cache.conds, c)
      BY <1>0, <1>1 DEF TypeOK, Get, Locals
    <3>3. \A d \in Calls : d # c => call'[d] = call[d]
      BY <1>0, <1>1 DEF TypeOK, Get
    <3>4. server' = server /\ cache' = cache /\ call[c].pc = "get"
      BY <1>1 DEF Get
    <3>5. QED
      BY <1>0, <3>1, <3>2, <3>3, <3>4 DEF Coherent
  <2>4. ExactlyOnce'
    BY <1>0, <1>1 DEF TypeOK, ExactlyOnce, Get, Locals
  <2>5. QED
    BY <2>2, <2>3, <2>4 DEF Inv
<1>2. ASSUME NEW c \in Calls, GetFails(c) \/ UpdateFails(c) PROVE Inv'
  <2>1. TypeOK'
    BY <1>0, <1>2 DEF TypeOK, GetFails, UpdateFails, Locals, Running, Returned
  <2>2. Coherent'
    BY <1>0, <1>2 DEF TypeOK, Coherent, GetFails, UpdateFails, Locals
  <2>3. ExactlyOnce'
    BY <1>0, <1>2 DEF TypeOK, ExactlyOnce, GetFails, UpdateFails, Locals
  <2>4. QED
    BY <2>1, <2>2, <2>3 DEF Inv
<1>3. ASSUME NEW c \in Calls, Commit(c) PROVE Inv'
  <2>1. /\ call[c].conds = Mutate(server.conds, c)
        /\ call[c].conds \in Conds
        /\ server.conds \in Conds
        /\ server.rv \in Nat
    BY <1>0, <1>3 DEF TypeOK, Coherent, Commit, Fresh, Objects, Locals
  <2>2. /\ server'.conds[c] = server.conds[c] + 1
        /\ \A d \in Calls \ {c} : server'.conds[d] = server.conds[d]
    BY <1>0, <1>3, <2>1, MutateOne DEF Commit, TypeOK, Objects
  <2>3. TypeOK'
    <3>1. server' \in Objects
      <4>1. server \in Objects /\ server.rv + 1 \in Nat
        BY <1>0, <2>1 DEF TypeOK
      <4>2. server' = [server EXCEPT !.rv = server.rv + 1, !.conds = call[c].conds]
        BY <1>3 DEF Commit
      <4>3. QED
        BY <4>1, <4>2, <2>1 DEF Objects
    <3>2. PICK r \in {"ok", "error"} : call' = [call EXCEPT ![c].pc = r]
      BY <1>3 DEF Commit
    <3>3. call' \in [Calls -> Locals]
      BY <1>0, <3>2 DEF TypeOK, Locals, Running, Returned
    <3>4. QED
      BY <1>0, <1>3, <3>1, <3>3 DEF TypeOK, Commit
  <2>4. Coherent'
    <3>1. server'.rv = server.rv + 1
      BY <1>0, <1>3 DEF Commit, TypeOK, Objects
    <3>2. cache' = cache /\ cache.rv < server'.rv
      BY <1>0, <1>3, <3>1 DEF Commit, TypeOK, Coherent, Objects
    <3>3. \A d \in Calls : call'[d].pc = "update" => call'[d].rv < server'.rv
      BY <1>0, <1>3, <3>1 DEF Commit, TypeOK, Coherent, Objects, Locals
    <3>4. cache.rv \in Nat /\ server'.rv \in Nat /\ \A d \in Calls : call'[d].rv \in Nat
      BY <1>0, <2>3 DEF TypeOK, Objects, Locals
    <3>5. \A d \in Calls : call'[d].left = 0 <=> call'[d].pc = "conflict"
      BY <1>0, <1>3 DEF Commit, TypeOK, Coherent, Locals
    <3>6. QED
      BY <3>2, <3>3, <3>4, <3>5 DEF Coherent
  <2>5. ExactlyOnce'
    <3>1. server.conds[c] = 0
      BY <1>0, <1>3 DEF ExactlyOnce, Commit
    <3>2. server'.conds[c] = 1 /\ call'[c].pc \in {"ok", "error"}
      BY <1>0, <1>3, <2>2, <3>1 DEF Commit, TypeOK, Locals
    <3>3. \A d \in Calls \ {c} : call'[d].pc = call[d].pc
      BY <1>0, <1>3 DEF Commit, TypeOK, Locals
    <3>4. QED
      BY <1>0, <2>2, <3>2, <3>3 DEF ExactlyOnce
  <2>6. QED
    BY <2>3, <2>4, <2>5 DEF Inv
<1>4. ASSUME NEW c \in Calls, Conflict(c) PROVE Inv'
  <2>1. call[c] \in Locals /\ call[c].left \in 1..Steps
    BY <1>0, <1>4, StepsAssumption DEF TypeOK, Coherent, Conflict, Locals
  <2>2. TypeOK'
    BY <1>0, <1>4, <2>1, StepsAssumption DEF TypeOK, Conflict, Locals, Running, Returned
  <2>3. Coherent'
    BY <1>0, <1>4, <2>1, StepsAssumption DEF TypeOK, Coherent, Conflict, Locals
  <2>4. ExactlyOnce'
    BY <1>0, <1>4 DEF TypeOK, ExactlyOnce, Conflict, Locals
  <2>5. QED
    BY <2>2, <2>3, <2>4 DEF Inv
<1>5. ASSUME OtherWrite \/ Remove PROVE Inv'
  <2>1. /\ server' \in Objects
        /\ server'.rv = server.rv + 1
        /\ server'.conds = server.conds
    <3>1. server \in Objects /\ server.rv + 1 \in Nat
      BY <1>0 DEF TypeOK, Objects
    <3>2. CASE OtherWrite
      BY <3>1, <3>2 DEF OtherWrite, Objects
    <3>3. CASE Remove
      BY <3>1, <3>3 DEF Remove, Objects
    <3>4. QED
      BY <1>5, <3>2, <3>3
  <2>2. cache' = cache /\ call' = call /\ writes' \in 0..MaxWrites
    BY <1>0, <1>5, MaxWritesAssumption DEF TypeOK, OtherWrite, Remove
  <2>3. TypeOK'
    BY <1>0, <2>1, <2>2 DEF TypeOK
  <2>4. /\ cache.rv \in Nat /\ server.rv \in Nat
        /\ \A c \in Calls : call[c].rv \in Nat
    BY <1>0 DEF TypeOK, Objects, Locals
  <2>5. Coherent'
    BY <1>0, <2>1, <2>2, <2>4 DEF Coherent
  <2>6. ExactlyOnce'
    BY <1>0, <2>1, <2>2 DEF ExactlyOnce
  <2>7. QED
    BY <2>3, <2>5, <2>6 DEF Inv
<1>6. CASE Informer
  <2>1. cache' = server /\ server' = server /\ call' = call /\ writes' = writes
    BY <1>6 DEF Informer
  <2>2. TypeOK'
    BY <1>0, <2>1 DEF TypeOK
  <2>3. Coherent'
    <3>1. server.rv \in Nat
      BY <1>0 DEF TypeOK, Objects
    <3>2. QED
      BY <1>0, <2>1, <3>1 DEF Coherent
  <2>4. ExactlyOnce'
    BY <1>0, <2>1 DEF ExactlyOnce
  <2>5. QED
    BY <2>2, <2>3, <2>4 DEF Inv
<1>7. CASE UNCHANGED vars
  BY <1>0, <1>7 DEF Inv, TypeOK, Coherent, ExactlyOnce, vars
<1>8. QED
  BY <1>1, <1>2, <1>3, <1>4, <1>5, <1>6, <1>7 DEF Next, CallStep

\* Whatever the interleaving, a call that returned nil put its condition into
\* the status exactly once, and a refused one not at all (UpdateStatus).
THEOREM ExactlyOnceAlways == Spec => []ExactlyOnce
<1>1. Inv => ExactlyOnce
  BY DEF Inv
<1>2. QED
  BY InitInv, StepInv, <1>1, PTL DEF Spec

\* The program's variables keep their types, and copies stay coherent.
THEOREM InvAlways == Spec => [](TypeOK /\ Coherent)
<1>1. Inv => TypeOK /\ Coherent
  BY DEF Inv
<1>2. QED
  BY InitInv, StepInv, <1>1, PTL DEF Spec

\* A step that changes the status's conditions is the commit of a call on a
\* fresh copy: its own entry grows by one and no other changes.
LEMMA OnlyCommitWrites ==
    ASSUME Inv, NEW c \in Calls, Commit(c)
    PROVE  /\ server.live /\ server'.live = server.live
           /\ server.conds \in Conds
           /\ server'.conds = Mutate(server.conds, c)
<1>1. /\ server \in Objects
      /\ call[c].conds = Mutate(server.conds, c)
  BY DEF Inv, TypeOK, Coherent, Commit, Fresh
<1>2. QED
  BY <1>1 DEF Commit, Fresh, Objects

\* No write of a status loses a condition that another caller put there.
THEOREM NothingLost == Spec => NeverLost
<1> DEFINE Kept == \A c \in Calls : server'.conds[c] >= server.conds[c]
<1>1. Inv /\ [Next]_vars => [Kept]_vars
  <2> SUFFICES ASSUME Inv, [Next]_vars PROVE Kept
    OBVIOUS
  <2>0. server.conds \in Conds
    BY DEF Inv, TypeOK, Objects
  <2>1. ASSUME NEW c \in Calls, Commit(c) PROVE Kept
    <3>1. server'.conds = Mutate(server.conds, c)
      BY <2>1, OnlyCommitWrites
    <3>2. QED
      BY <2>0, <3>1, MutateOne DEF Conds
  <2>2. ASSUME server'.conds = server.conds PROVE Kept
    BY <2>0, <2>2 DEF Conds
  <2>3. QED
    <3>1. \/ \E c \in Calls : Commit(c)
          \/ server'.conds = server.conds
      BY DEF Next, CallStep, Get, GetFails, Conflict, UpdateFails, OtherWrite,
             Remove, Informer, vars, Inv, TypeOK, Objects
    <3>2. QED
      BY <2>1, <2>2, <3>1
<1>2. QED
  BY InitInv, StepInv, <1>1, PTL DEF Spec, NeverLost

\* UpdateStatus is atomic: every step of the read-modify-write loop with its
\* stale copies, retries and lost answers is a step of AtomicStatus or none.
THEOREM UpdateStatusIsAtomic == Spec => Atomic
<1>1. Init => Abs!AbsInit
  BY DEF Init, Abs!AbsInit, Result, Running, NoConds
<1>2. Inv /\ [Next]_vars => [Abs!AbsNext]_Abs!absVars
  <2> SUFFICES ASSUME Inv, [Next]_vars
               PROVE  Abs!AbsNext \/ UNCHANGED Abs!absVars
    OBVIOUS
  <2>0. call \in [Calls -> Locals] /\ server \in Objects
    BY DEF Inv, TypeOK
  <2>1. ASSUME NEW c \in Calls, Get(c) PROVE UNCHANGED Abs!absVars
    <3>1. Result' = Result
      BY <2>0, <2>1 DEF Get, Result, Locals, Running
    <3>2. QED
      BY <2>1, <3>1 DEF Get, Abs!absVars
  <2>2. ASSUME NEW c \in Calls, GetFails(c) \/ UpdateFails(c) PROVE Abs!Refuse(c)
    <3>1. Result[c] = "pending"
      BY <2>2 DEF GetFails, UpdateFails, Result, Running
    <3>2. Result' = [Result EXCEPT ![c] = "error"]
      BY <2>0, <2>2 DEF GetFails, UpdateFails, Result, Locals, Running
    <3>3. QED
      BY <2>2, <3>1, <3>2 DEF GetFails, UpdateFails, Abs!Refuse
  <2>3. ASSUME NEW c \in Calls, Commit(c) PROVE Abs!Apply(c)
    <3>1. Result[c] = "pending" /\ server.live /\ server'.live = server.live
      BY <2>3, OnlyCommitWrites DEF Commit, Result, Running
    <3>2. server'.conds = [server.conds EXCEPT ![c] = @ + 1]
      BY <2>3, OnlyCommitWrites DEF Mutate
    <3>3. PICK r \in {"ok", "error"} : call' = [call EXCEPT ![c].pc = r]
      BY <2>3 DEF Commit
    <3>4. Result' = [Result EXCEPT ![c] = r]
      BY <2>0, <3>3 DEF Result, Locals, Running
    <3>5. QED
      BY <3>1, <3>2, <3>4 DEF Abs!Apply
  <2>4. ASSUME NEW c \in Calls, Conflict(c)
        PROVE  Abs!Refuse(c) \/ UNCHANGED Abs!absVars
    <3>1. CASE call[c].left > 1
      <4>1. Result' = Result
        BY <2>0, <2>4, <3>1 DEF Conflict, Result, Locals, Running
      <4>2. QED
        BY <2>4, <4>1 DEF Conflict, Abs!absVars
    <3>2. CASE ~(call[c].left > 1)
      <4>1. Result[c] = "pending"
        BY <2>4 DEF Conflict, Result, Running
      <4>2. Result' = [Result EXCEPT ![c] = "conflict"]
        BY <2>0, <2>4, <3>2 DEF Conflict, Result, Locals, Running
      <4>3. QED
        BY <2>4, <4>1, <4>2 DEF Conflict, Abs!Refuse
    <3>3. QED
      BY <3>1, <3>2
  <2>5. CASE OtherWrite
    BY <2>0, <2>5 DEF OtherWrite, Objects, Result, Abs!absVars
  <2>6. CASE Remove
    <3>1. /\ server.live /\ server'.live = FALSE
          /\ server'.conds = server.conds /\ call' = call
      BY <2>0, <2>6 DEF Remove, Objects
    <3>2. Result' = Result
      BY <3>1 DEF Result
    <3>3. QED
      BY <3>1, <3>2 DEF Abs!Vanish, Abs!AbsNext
  <2>7. CASE Informer \/ UNCHANGED vars
    <3>1. server' = server /\ call' = call
      BY <2>7 DEF Informer, vars
    <3>2. QED
      BY <3>1 DEF Result, Abs!absVars
  <2>8. Abs!AbsNext <=> Abs!Vanish \/ \E c \in Calls : Abs!Apply(c) \/ Abs!Refuse(c)
    BY DEF Abs!AbsNext
  <2>9. QED
    BY <2>1, <2>2, <2>3, <2>4, <2>5, <2>6, <2>7, <2>8 DEF Next, CallStep
<1>3. QED
  BY InitInv, StepInv, <1>1, <1>2, PTL DEF Spec, Atomic, Abs!AbsSpec
=============================================================================
