------------------------- MODULE TaskDispatchProofs -------------------------
(***************************************************************************)
(* TaskDispatch for any number of goroutines and of attempts: sharing one  *)
(* copy of the Task rolls no committed condition back as long as accesses  *)
(* to it do not overlap, and whether or not they do, none stands for a     *)
(* request that was not answered.                                          *)
(***************************************************************************)
EXTENDS TaskDispatch, TLAPS

AtLeast(c, d) == \A i \in Goroutines : c[i] >= d[i]

\* A copy is not newer than the Task, and under the Task's own resourceVersion it
\* has every condition that is committed.
Holds(copy) == copy.rv <= task.rv /\ (copy.rv = task.rv => AtLeast(copy.conds, task.conds))

Alone ==
    \A i, j \in Goroutines : g[i].pc \in Inside /\ g[j].pc \in Inside => i = j

\* What goroutines carry: a copy that is to be written to res or was encoded from
\* it, or, half way through an access, the half of res they have read or written.
Carried ==
    \A i \in Goroutines :
        /\ g[i].pc \in {"load", "loading", "serve", "decode", "decoding"} => Holds(g[i].body)
        /\ g[i].pc \in {"loading", "encoding", "decoding"} => g[i].body.rv = res.rv
        /\ g[i].pc = "appending" => g[i].body.conds = res.conds

\* The shared copy, unless a goroutine is about to write its second half.
SharedHolds ==
    (\A i \in Goroutines : g[i].pc \notin {"loading", "decoding"}) => Holds(res)

\* All copies, as long as accesses to res did not overlap.
Coherent ==
    /\ cache.rv <= task.rv /\ (cache.rv = task.rv => cache.conds = task.conds)
    /\ ~overlapped => Alone /\ Carried /\ SharedHolds

Trying == Running \ {"record"}

\* Attempts are left while there is something to try, and a goroutine has posted
\* nothing before it posts.
Attempts ==
    \A i \in Goroutines :
        /\ g[i].pc \in Trying => g[i].left > 0
        /\ g[i].pc = "post" => posts[i] = 0

Answered(copy) == \A i \in Goroutines : copy.conds[i] > 0 => posts[i] > 0 \/ g[i].dry

\* Conditions are appended after a 200 or a dry run, and no copy has one from
\* elsewhere.
Honest ==
    /\ Answered(task) /\ Answered(cache) /\ Answered(res)
    /\ \A i \in Goroutines : Answered(g[i].body)
    /\ \A i \in Goroutines : g[i].pc \in Trying \ {"post"} => posts[i] > 0 \/ g[i].dry

IInv == TypeOK /\ Attempts /\ Coherent /\ Honest

\* What setCondition makes of a list.
LEMMA Appended ==
    ASSUME NEW c \in [Goroutines -> Nat], NEW i \in Goroutines
    PROVE  LET d == [c EXCEPT ![i] = @ + 1]
           IN  /\ d \in [Goroutines -> Nat] /\ AtLeast(d, c)
               /\ \A j \in Goroutines \ {i} : d[j] = c[j]
BY DEF AtLeast

\* What the API server makes of the object when it takes a body or a phase.
LEMMA Written ==
    ASSUME NEW t \in Objects
    PROVE  /\ t.rv + 1 \in Nat
           /\ \A c \in [Goroutines -> Nat] : [t EXCEPT !.rv = t.rv + 1, !.conds = c] \in Objects
           /\ [t EXCEPT !.rv = t.rv + 1, !.phase = "Completed"] \in Objects
<1>1. t.rv + 1 \in Nat
    BY DEF Objects
<1>2. ASSUME NEW c \in [Goroutines -> Nat]
      PROVE  [t EXCEPT !.rv = t.rv + 1, !.conds = c] \in Objects
    BY <1>1 DEF Objects
<1>3. [t EXCEPT !.rv = t.rv + 1, !.phase = "Completed"] \in Objects
    BY <1>1 DEF Objects
<1> QED BY <1>1, <1>2, <1>3

LEMMA InitHolds == Init => IInv
<1> SUFFICES ASSUME Init PROVE IInv
    OBVIOUS
<1> USE DispatchAssumption DEF Init, None
<1>0. PICK dry \in [Goroutines -> BOOLEAN] :
        g = [i \in Goroutines |-> [pc |-> "post", left |-> Steps, dry |-> dry[i], ok |-> FALSE,
                                   body |-> [rv |-> 0, conds |-> None]]]
    OBVIOUS
<1>1. TypeOK
    <2>1. g \in [Goroutines -> Locals]
        <3>1. [rv |-> 0, conds |-> None] \in Copies
            BY DEF Copies
        <3>2. ASSUME NEW i \in Goroutines PROVE g[i] \in Locals
            <4>1. dry[i] \in BOOLEAN /\ Steps \in 0..Steps
                OBVIOUS
            <4>2. g[i] = [pc |-> "post", left |-> Steps, dry |-> dry[i], ok |-> FALSE,
                          body |-> [rv |-> 0, conds |-> None]]
                BY <1>0
            <4>3. "post" \in Running \cup {"done"} /\ FALSE \in BOOLEAN
                BY DEF Running
            <4> QED BY ONLY <3>1, <4>1, <4>2, <4>3 DEF Locals
        <3> QED BY <1>0, <3>2
    <2>2. task \in Objects /\ cache \in Objects /\ res \in Copies
        BY DEF Objects, Copies
    <2>3. /\ posts \in [Goroutines -> 0..1] /\ main = "wait" /\ overlapped \in BOOLEAN
          /\ conds \in [Goroutines -> {"none", "True"}]
        <3>1. posts \in [Goroutines -> 0..1] /\ conds \in [Goroutines -> {"none", "True"}]
            OBVIOUS
        <3>2. main = "wait"
            OBVIOUS
        <3>3. overlapped \in BOOLEAN
            BY Zenon
        <3> QED BY ONLY <3>1, <3>2, <3>3
    <2> QED BY ONLY <2>1, <2>2, <2>3 DEF TypeOK
<1>2. Attempts
    BY <1>0 DEF Attempts
<1>3. Coherent
    BY <1>0 DEF Coherent, Alone, Carried, SharedHolds, Inside, Holds, AtLeast
<1>4. Honest
    BY <1>0 DEF Honest, Answered, Trying
<1> QED BY <1>1, <1>2, <1>3, <1>4 DEF IInv

\* Types are kept, as long as attempts are left to subtract from.
LEMMA TypeStep == TypeOK /\ Attempts /\ [Next]_vars => TypeOK'
<1> SUFFICES ASSUME TypeOK, Attempts, [Next]_vars PROVE TypeOK'
    OBVIOUS
<1> USE DispatchAssumption DEF TypeOK
<1>1. CASE Reap
    BY <1>1 DEF Reap
<1>2. CASE Report
    <2>1. task' \in Objects
        <3>1. task' \in {task, [task EXCEPT !.rv = task.rv + 1, !.phase = "Completed"]}
            BY <1>2 DEF Report
        <3> QED BY <3>1, Written, Zenon
    <2>2. main' \in {"done", "error"} /\ UNCHANGED <<cache, res, g, posts, conds, overlapped>>
        BY ONLY <1>2 DEF Report
    <2> QED BY <2>1, <2>2
<1>3. CASE Informer
    BY <1>3 DEF Informer
<1>4. ASSUME NEW i \in Goroutines, Goroutine(i) PROVE TypeOK'
    <2>g. /\ g[i] \in Locals /\ g[i].body \in Copies /\ g[i].body.rv \in Nat
          /\ g[i].body.conds \in [Goroutines -> Nat]
        BY DEF Copies, Locals
    <2>r. res.rv \in Nat /\ res.conds \in [Goroutines -> Nat]
        BY DEF Copies
    <2>o. overlapped' \in BOOLEAN
        BY <1>4 DEF Goroutine, PostOk, PostFails, Get, Fill, Loaded, Append, Store, Encode, Send,
                    Serve, UpdateFails, Decoded, Record, Enter
    <2>p. ASSUME g[i].pc = "post", posts' \in Failed(i) \cup {posts, [posts EXCEPT ![i] = @ + 1]}
          PROVE  posts' \in [Goroutines -> 0..1]
        <3>1. posts[i] = 0
            BY <2>p DEF Attempts
        <3> QED BY <2>p, <3>1 DEF Failed
    <2>1. CASE PostOk(i)
        BY <2>1, <2>g, <2>p DEF PostOk, Goto, Running, Locals
    <2>2. CASE PostFails(i)
        BY <2>2, <2>g, <2>p DEF PostFails, Goto, Running, Locals
    <2>3. CASE Get(i)
        <3>1. [rv |-> cache.rv, conds |-> cache.conds] \in Copies
            BY DEF Objects, Copies
        <3> QED BY <2>3, <2>g, <3>1 DEF Get, Running, Locals
    <2>4. CASE Fill(i)
        <3>1. res' \in Copies
            BY <2>4, <2>g DEF Fill, Copies
        <3>2. g' \in [Goroutines -> Locals]
            BY <2>4, <2>g DEF Fill, Goto, Running, Inside, Locals
        <3> QED BY <2>4, <2>o, <3>1, <3>2 DEF Fill, Locals
    <2>5. CASE Loaded(i)
        <3>1. res' \in Copies
            BY <2>5, <2>g DEF Loaded, Copies
        <3> QED BY <2>5, <2>g, <3>1 DEF Loaded, Goto, Running, Locals
    <2>6. CASE Append(i)
        <3>1. [g[i].body EXCEPT !.conds = res.conds] \in Copies
            BY <2>g, <2>r DEF Copies
        <3> QED BY <2>6, <2>g, <2>o, <3>1 DEF Append, Running, Inside, Locals
    <2>7. CASE Store(i)
        <3>1. [g[i].body.conds EXCEPT ![i] = @ + 1] \in [Goroutines -> Nat]
            BY <2>g, Appended
        <3>2. res' \in Copies
            BY <2>7, <3>1 DEF Store, Copies
        <3> QED BY <2>7, <2>g, <3>2 DEF Store, Goto, Running, Locals
    <2>8. CASE Encode(i)
        <3>1. [g[i].body EXCEPT !.rv = res.rv] \in Copies
            BY <2>g, <2>r DEF Copies
        <3> QED BY <2>8, <2>g, <2>o, <3>1 DEF Encode, Running, Inside, Locals
    <2>9. CASE Send(i)
        <3>1. [g[i].body EXCEPT !.conds = res.conds] \in Copies
            BY <2>g, <2>r DEF Copies
        <3> QED BY <2>9, <2>g, <3>1 DEF Send, Running, Locals
    <2>10. CASE Serve(i)
        <3>1. CASE g[i].body.rv = task.rv
            <4>t. task' = [task EXCEPT !.rv = task.rv + 1, !.conds = g[i].body.conds]
                BY ONLY <2>10, <3>1 DEF Serve
            <4>1. task' \in Objects /\ task.rv + 1 \in Nat
                BY <4>t, <2>g, Written, Zenon
            <4>2. [g[i].body EXCEPT !.rv = task.rv + 1] \in Copies
                BY <2>g, <4>1 DEF Copies
            <4>3. g' \in [Goroutines -> Locals]
                BY <2>10, <2>g, <3>1, <4>2 DEF Serve, Running, Locals
            <4>4. UNCHANGED <<cache, res, posts, conds, main, overlapped>>
                BY <2>10 DEF Serve
            <4> QED BY <4>1, <4>3, <4>4 DEF Locals
        <3>2. CASE g[i].body.rv # task.rv
            <4>1. g[i].left - 1 \in 0..Steps
                BY <2>10, <2>g DEF Serve, Attempts, Trying, Running, Locals
            <4> QED BY <2>10, <2>g, <3>2, <4>1 DEF Serve, Running, Locals
        <3> QED BY <3>1, <3>2
    <2>11. CASE UpdateFails(i)
        BY <2>11, <2>g DEF UpdateFails, Goto, Running, Locals
    <2>12. CASE Decoded(i)
        <3>1. res' \in Copies
            BY <2>12, <2>g DEF Decoded, Copies
        <3> QED BY <2>12, <2>g, <3>1 DEF Decoded, Running, Locals
    <2>13. CASE Record(i)
        BY <2>13, <2>g DEF Record, Goto, Running, Locals
    <2> QED BY <1>4, <2>1, <2>2, <2>3, <2>4, <2>5, <2>6, <2>7, <2>8, <2>9, <2>10, <2>11, <2>12,
               <2>13 DEF Goroutine
<1>5. CASE UNCHANGED vars
    BY <1>5 DEF vars
<1> QED BY <1>1, <1>2, <1>3, <1>4, <1>5 DEF Next

\* A step of a goroutine changes no other goroutine's state, nor what is a dry run.
LEMMA OnlyItsOwn ==
    ASSUME TypeOK, NEW i \in Goroutines, Goroutine(i)
    PROVE  /\ \A j \in Goroutines \ {i} : g'[j] = g[j] /\ posts'[j] = posts[j]
           /\ g'[i].dry = g[i].dry
<1>1. g = [k \in Goroutines |-> g[k]] /\ posts = [k \in Goroutines |-> posts[k]]
    BY DEF TypeOK
<1>2. g[i] \in Locals
    BY DEF TypeOK
<1>3. \A j \in Goroutines \ {i} : g'[j] = g[j] /\ posts'[j] = posts[j]
    BY <1>1 DEF Goroutine, PostOk, PostFails, Failed, Get, Fill, Loaded, Append, Store, Encode,
                Send, Serve, UpdateFails, Decoded, Record, Goto
<1>4. g'[i].dry = g[i].dry
    BY <1>1, <1>2 DEF Goroutine, PostOk, PostFails, Get, Fill, Loaded, Append, Store, Encode,
                Send, Serve, UpdateFails, Decoded, Record, Goto, Locals
<1> QED BY <1>3, <1>4

\* Attempts are spent one at a time, and the payload is posted once.
LEMMA AttemptsStep == TypeOK /\ Attempts /\ [Next]_vars => Attempts'
<1> SUFFICES ASSUME TypeOK, Attempts, [Next]_vars PROVE Attempts'
    OBVIOUS
<1>g. \A i \in Goroutines : g[i] \in Locals /\ g[i].left \in Nat /\ posts[i] \in 0..1
    BY DispatchAssumption DEF TypeOK, Locals
<1>f. g = [i \in Goroutines |-> g[i]] /\ posts = [i \in Goroutines |-> posts[i]]
    BY DEF TypeOK
<1>1. ASSUME NEW i \in Goroutines, Goroutine(i) PROVE Attempts'
    <2>1. \A j \in Goroutines \ {i} : g'[j] = g[j] /\ posts'[j] = posts[j]
        BY <1>1, OnlyItsOwn
    <2>2. g'[i].pc \in Trying => g'[i].left > 0
        <3>1. CASE Serve(i)
            <4>1. \/ g'[i].pc = "decode" /\ g'[i].left = g[i].left
                  \/ g'[i].pc = "get" /\ g[i].left > 1 /\ g'[i].left = g[i].left - 1
                  \/ g'[i].pc = "record"
                <5>1. CASE g[i].body.rv = task.rv
                    BY <1>g, <1>f, <3>1, <5>1 DEF Serve, Locals
                <5>2. CASE g[i].body.rv # task.rv
                    <6>1. g' = [g EXCEPT ![i].left = g[i].left - 1,
                                         ![i].pc = IF g[i].left > 1 THEN "get" ELSE "record"]
                        BY <3>1, <5>2 DEF Serve
                    <6> QED BY <1>g, <1>f, <6>1 DEF Locals
                <5> QED BY <5>1, <5>2
            <4>2. g[i].left > 0
                BY <3>1 DEF Serve, Attempts, Trying, Running
            <4> QED BY <1>g, <4>1, <4>2 DEF Trying
        <3>2. CASE ~Serve(i)
            <4>1. g'[i].left = g[i].left
                BY <1>1, <1>g, <1>f, <3>2 DEF Goroutine, PostOk, PostFails, Get, Fill, Loaded, Append,
                    Store, Encode, Send, UpdateFails, Decoded, Record, Goto, Locals
            <4>2. CASE PostFails(i) \/ UpdateFails(i) \/ Decoded(i) \/ Record(i)
                <5>1. g'[i].pc \in {"record", "done"}
                    BY <1>g, <1>f, <4>2 DEF PostFails, UpdateFails, Decoded, Record, Goto, Locals
                <5> QED BY <5>1 DEF Trying, Running, Inside
            <4>3. CASE ~(PostFails(i) \/ UpdateFails(i) \/ Decoded(i) \/ Record(i))
                <5>1. g[i].pc \in Trying
                    BY <1>1, <3>2, <4>3 DEF Goroutine, PostOk, Get, Fill, Loaded, Append, Store,
                        Encode, Send, Trying, Running, Inside
                <5> QED BY <4>1, <5>1 DEF Attempts
            <4> QED BY <4>2, <4>3
        <3> QED BY <3>1, <3>2
    <2>3. g'[i].pc # "post"
        BY <1>1, <1>g, <1>f DEF Goroutine, PostOk, PostFails, Get, Fill, Loaded, Append, Store,
            Encode, Send, Serve, UpdateFails, Decoded, Record, Goto, Locals
    <2> QED BY <2>1, <2>2, <2>3 DEF Attempts
<1>2. CASE Reap \/ Report \/ Informer \/ UNCHANGED vars
    BY <1>2 DEF Reap, Report, Informer, vars, Attempts
<1> QED BY <1>1, <1>2 DEF Next

\* While accesses to res do not overlap, copies that are taken from coherent
\* copies, or changed by appending to one, are coherent.
LEMMA CoherentStep == TypeOK /\ Coherent /\ [Next]_vars => Coherent'
<1> SUFFICES ASSUME TypeOK, Coherent, [Next]_vars PROVE Coherent'
    OBVIOUS
<1>t. /\ task.rv \in Nat /\ cache.rv \in Nat /\ res.rv \in Nat
      /\ task.conds \in [Goroutines -> Nat] /\ cache.conds \in [Goroutines -> Nat]
      /\ res.conds \in [Goroutines -> Nat]
      /\ \A j \in Goroutines : g[j].body.rv \in Nat /\ g[j].body.conds \in [Goroutines -> Nat]
    BY DEF TypeOK, Objects, Copies, Locals
<1>f. g = [j \in Goroutines |-> g[j]] /\ \A j \in Goroutines : g[j] \in Locals
    BY DEF TypeOK
<1>r. res = [rv |-> res.rv, conds |-> res.conds]
    BY DEF TypeOK, Copies
<1>c. cache.rv <= task.rv /\ (cache.rv = task.rv => cache.conds = task.conds)
    BY DEF Coherent
<1>1. CASE UNCHANGED <<task, cache, res, g, overlapped>>
    BY <1>1 DEF Coherent, Alone, Carried, SharedHolds, Holds
<1>2. CASE Reap \/ UNCHANGED vars
    BY <1>1, <1>2 DEF Reap, vars
<1>3. CASE Report
    <2>1. CASE UNCHANGED task
        BY <1>1, <1>3, <2>1 DEF Report
    <2>2. CASE task' = [task EXCEPT !.rv = @ + 1, !.phase = "Completed"]
        <3>1. task'.rv = task.rv + 1
            BY <2>2 DEF TypeOK, Objects
        <3>2. UNCHANGED <<cache, res, g, overlapped>>
            BY <1>3 DEF Report
        <3>3. cache'.rv < task'.rv
            BY <1>t, <1>c, <3>1, <3>2
        <3>4. ASSUME ~overlapped' PROVE Alone' /\ Carried' /\ SharedHolds'
            <4>1. Alone /\ Carried /\ SharedHolds
                BY <3>2, <3>4 DEF Coherent
            <4> QED BY <1>t, <3>1, <3>2, <4>1 DEF Alone, Carried, SharedHolds, Holds
        <3> QED BY <1>t, <3>1, <3>2, <3>3, <3>4 DEF Coherent
    <2> QED BY <1>3, <2>1, <2>2 DEF Report
<1>4. CASE Informer
    <2>1. cache' = task /\ UNCHANGED <<task, res, g, overlapped>>
        BY <1>4 DEF Informer
    <2> QED BY <1>t, <2>1 DEF Coherent, Alone, Carried, SharedHolds, Holds
<1>5. ASSUME NEW i \in Goroutines, Goroutine(i) PROVE Coherent'
    <2>o. \A j \in Goroutines \ {i} : g'[j] = g[j]
        BY <1>5, OnlyItsOwn
    <2>1. ~overlapped' => ~overlapped
        BY <1>5 DEF Goroutine, PostOk, PostFails, Get, Fill, Loaded, Append, Store, Encode, Send,
                    Serve, UpdateFails, Decoded, Record, Enter
    <2>2. \/ UNCHANGED task
          \/ task'.rv = task.rv + 1 /\ Serve(i) /\ g[i].body.rv = task.rv
        BY <1>5 DEF Goroutine, PostOk, PostFails, Get, Fill, Loaded, Append, Store, Encode, Send,
                    Serve, UpdateFails, Decoded, Record, TypeOK, Objects
    <2>3. UNCHANGED cache
        BY <1>5 DEF Goroutine, PostOk, PostFails, Get, Fill, Loaded, Append, Store, Encode, Send,
                    Serve, UpdateFails, Decoded, Record
    <2>4. cache'.rv <= task'.rv /\ (cache'.rv = task'.rv => cache'.conds = task'.conds)
        BY <1>t, <1>c, <2>2, <2>3
    <2>5. ASSUME ~overlapped' PROVE Alone' /\ Carried' /\ SharedHolds'
        <3> DEFINE Own ==
                /\ g'[i].pc \in {"load", "loading", "serve", "decode", "decoding"} =>
                       Holds(g[i].body)'
                /\ g'[i].pc \in {"loading", "encoding", "decoding"} => g'[i].body.rv = res'.rv
                /\ g'[i].pc = "appending" => g'[i].body.conds = res'.conds
        <3>c. Alone /\ Carried /\ SharedHolds
            BY <2>1, <2>5 DEF Coherent
        <3>a. ASSUME g'[i].pc \notin Inside \/ \A j \in Goroutines \ {i} : g[j].pc \notin Inside
              PROVE  Alone'
            BY <2>o, <3>a, <3>c DEF Alone
        \* When res changes, or is read, no other goroutine is inside an access.
        <3>o. ASSUME Alone', UNCHANGED task, \A j \in Goroutines \ {i} : g[j].pc \notin Inside,
                     Own, SharedHolds'
              PROVE  Alone' /\ Carried' /\ SharedHolds'
            <4>1. ASSUME NEW j \in Goroutines \ {i}, g'[j].pc \in {"load", "serve", "decode"}
                  PROVE  Holds(g[j].body)'
                BY <2>o, <3>o, <3>c, <4>1 DEF Carried, Holds
            <4>2. \A j \in Goroutines \ {i} : g'[j].pc \notin Inside
                BY <2>o, <3>o
            <4> QED BY <3>o, <4>1, <4>2 DEF Carried, Inside
        <3>u. ASSUME UNCHANGED <<task, res>>, g'[i].pc \notin Inside, Own, SharedHolds'
              PROVE  Alone' /\ Carried' /\ SharedHolds'
            <4>1. \A j \in Goroutines \ {i} : Holds(g[j].body) => Holds(g[j].body)'
                BY <2>o, <3>u DEF Holds
            <4> QED BY <2>o, <3>a, <3>c, <3>u, <4>1 DEF Carried
        <3>1. CASE PostOk(i) \/ PostFails(i) \/ UpdateFails(i) \/ Record(i)
            <4>1. /\ g'[i].pc \in {"get", "record", "done"} /\ UNCHANGED <<task, res>>
                  /\ g[i].pc \notin {"loading", "decoding"}
                BY <1>f, <3>1 DEF PostOk, PostFails, UpdateFails, Record, Goto, Locals
            <4>2. SharedHolds'
                BY <2>o, <3>c, <4>1 DEF SharedHolds, Holds
            <4> QED BY <3>u, <4>1, <4>2 DEF Inside
        <3>2. CASE Get(i)
            <4>1. /\ g'[i].pc = "load" /\ UNCHANGED <<task, res>> /\ g[i].pc = "get"
                  /\ g'[i].body.rv = cache.rv /\ g'[i].body.conds = cache.conds
                BY <1>f, <3>2 DEF Get, Locals
            <4>2. Holds(g[i].body)'
                BY <1>t, <1>c, <4>1 DEF Holds, AtLeast
            <4>3. SharedHolds'
                BY <2>o, <3>c, <4>1 DEF SharedHolds, Holds
            <4> QED BY <3>u, <4>1, <4>2, <4>3 DEF Inside
        <3>3. CASE Fill(i)
            <4>1. \A j \in Goroutines \ {i} : g[j].pc \notin Inside
                BY <2>5, <3>3 DEF Fill, Enter
            <4>2. /\ g'[i].pc \in {"loading", "decoding"} /\ g[i].pc \in {"load", "decode"}
                  /\ g'[i].body = g[i].body /\ UNCHANGED task /\ res'.rv = g[i].body.rv
                BY <1>f, <1>r, <3>3 DEF Fill, Goto, Locals
            <4>3. Holds(g[i].body)'
                BY <3>c, <4>2 DEF Carried, Holds
            <4>4. SharedHolds'
                BY <4>2 DEF SharedHolds
            <4> QED BY <3>a, <3>o, <4>1, <4>2, <4>3, <4>4
        <3>4. CASE Loaded(i) \/ Decoded(i)
            <4>1. /\ g[i].pc \in {"loading", "decoding"} /\ g'[i].pc \in {"append", "record"}
                  /\ UNCHANGED task /\ res'.rv = res.rv /\ res'.conds = g[i].body.conds
                BY <1>f, <1>r, <3>4 DEF Loaded, Decoded, Goto, Locals
            <4>2. \A j \in Goroutines \ {i} : g[j].pc \notin Inside
                BY <3>c, <4>1 DEF Alone, Inside
            <4>3. Holds(g[i].body) /\ g[i].body.rv = res.rv
                BY <3>c, <4>1 DEF Carried
            <4>4. Holds(res)'
                BY <4>1, <4>3 DEF Holds
            <4> QED BY <3>a, <3>o, <4>1, <4>2, <4>4 DEF SharedHolds
        <3>5. CASE Append(i) \/ Encode(i)
            <4>1. \A j \in Goroutines \ {i} : g[j].pc \notin Inside
                BY <2>5, <3>5 DEF Append, Encode, Enter
            <4>2. UNCHANGED <<task, res>> /\ g[i].pc \in {"append", "encode"}
                BY <3>5 DEF Append, Encode
            <4>3. \/ g'[i].pc = "appending" /\ g'[i].body.conds = res.conds
                  \/ g'[i].pc = "encoding" /\ g'[i].body.rv = res.rv
                <5>1. CASE Append(i)
                    BY <1>f, <5>1 DEF Append, Locals, Copies
                <5>2. CASE Encode(i)
                    BY <1>f, <5>2 DEF Encode, Locals, Copies
                <5> QED BY <3>5, <5>1, <5>2
            <4>4. SharedHolds'
                BY <2>o, <3>c, <4>2 DEF SharedHolds, Holds
            <4> QED BY <3>a, <3>o, <4>1, <4>2, <4>3, <4>4
        <3>6. CASE Store(i)
            <4>1. g[i].pc = "appending" /\ g'[i].pc = "encode" /\ UNCHANGED task
                BY <1>f, <3>6 DEF Store, Goto, Locals
            <4>2. \A j \in Goroutines \ {i} : g[j].pc \notin Inside
                BY <3>c, <4>1 DEF Alone, Inside
            <4>3. Holds(res) /\ g[i].body.conds = res.conds
                BY <3>c, <4>1, <4>2 DEF Carried, SharedHolds, Inside
            <4>4. res'.rv = res.rv /\ res'.conds = [res.conds EXCEPT ![i] = @ + 1]
                BY <1>r, <3>6, <4>3 DEF Store
            <4>5. AtLeast(res'.conds, res.conds) /\ res'.conds \in [Goroutines -> Nat]
                BY <1>t, <4>4, Appended
            <4>6. AtLeast(res.conds, task.conds) => AtLeast(res'.conds, task.conds)
                BY <1>t, <4>5 DEF AtLeast
            <4>7. Holds(res)'
                BY <4>1, <4>3, <4>4, <4>6 DEF Holds
            <4> QED BY <3>a, <3>o, <4>1, <4>2, <4>7 DEF SharedHolds
        <3>7. CASE Send(i)
            <4>1. /\ g[i].pc = "encoding" /\ g'[i].pc = "serve" /\ UNCHANGED <<task, res>>
                  /\ g'[i].body.rv = g[i].body.rv /\ g'[i].body.conds = res.conds
                BY <1>f, <3>7 DEF Send, Locals, Copies
            <4>2. \A j \in Goroutines \ {i} : g[j].pc \notin Inside
                BY <3>c, <4>1 DEF Alone, Inside
            <4>3. Holds(res) /\ g[i].body.rv = res.rv
                BY <3>c, <4>1, <4>2 DEF Carried, SharedHolds, Inside
            <4>4. Holds(g[i].body)' /\ Holds(res)'
                BY <4>1, <4>3 DEF Holds
            <4> QED BY <3>a, <3>o, <4>1, <4>2, <4>4 DEF SharedHolds
        <3>8. CASE Serve(i) /\ g[i].body.rv # task.rv
            <4>1. /\ g'[i].pc \in {"get", "record"} /\ UNCHANGED <<task, res>>
                  /\ g[i].pc = "serve"
                BY <1>f, <3>8 DEF Serve, Locals
            <4>2. SharedHolds'
                BY <2>o, <3>c, <4>1 DEF SharedHolds, Holds
            <4> QED BY <3>u, <4>1, <4>2 DEF Inside
        <3>9. CASE Serve(i) /\ g[i].body.rv = task.rv
            <4>0. task'.rv = task.rv + 1 /\ task'.conds = g[i].body.conds /\ UNCHANGED res
                BY <3>9 DEF Serve, TypeOK, Objects
            <4>1. /\ g[i].pc = "serve" /\ g'[i].pc = "decode"
                  /\ g'[i].body.rv = task.rv + 1 /\ g'[i].body.conds = g[i].body.conds
                <5>1. g' = [g EXCEPT ![i].pc = "decode", ![i].body.rv = task.rv + 1]
                    BY <3>9 DEF Serve
                <5>2. g'[i].body = [g[i].body EXCEPT !.rv = task.rv + 1] /\ g'[i].pc = "decode"
                    BY <1>f, <5>1 DEF Locals
                <5> QED BY <1>f, <3>9, <5>2 DEF Locals, Copies, Serve
            <4>2. Holds(g[i].body)'
                BY <1>t, <4>0, <4>1 DEF Holds, AtLeast
            <4>3. ASSUME NEW j \in Goroutines \ {i}, Holds(g[j].body) PROVE Holds(g[j].body)'
                BY <1>t, <2>o, <4>0, <4>3 DEF Holds
            <4>4. Holds(res) => Holds(res)'
                BY <1>t, <4>0 DEF Holds
            <4>5. Alone' /\ SharedHolds'
                BY <2>o, <3>a, <3>c, <4>1, <4>4 DEF SharedHolds, Inside
            <4> QED BY <2>o, <3>c, <4>0, <4>1, <4>2, <4>3, <4>5 DEF Carried
        <3> QED BY <1>5, <3>1, <3>2, <3>3, <3>4, <3>5, <3>6, <3>7, <3>8, <3>9 DEF Goroutine
    <2> QED BY <2>4, <2>5 DEF Coherent
<1> QED BY <1>2, <1>3, <1>4, <1>5 DEF Next

\* Every copy of the Task comes from a copy, and a condition is only appended by a
\* goroutine whose request was answered, or was a dry run.
LEMMA HonestStep == TypeOK /\ Honest /\ [Next]_vars => Honest'
<1> SUFFICES ASSUME TypeOK, Honest, [Next]_vars PROVE Honest'
    OBVIOUS
<1>t. posts \in [Goroutines -> Nat]
    BY DEF TypeOK
<1>f. g = [j \in Goroutines |-> g[j]] /\ \A j \in Goroutines : g[j] \in Locals
    BY DEF TypeOK
<1>r. res = [rv |-> res.rv, conds |-> res.conds] /\ res.conds \in [Goroutines -> Nat]
    BY DEF TypeOK, Copies
<1>1. CASE Reap \/ UNCHANGED vars
    BY <1>1 DEF Reap, vars, Honest, Answered
<1>2. CASE Report
    <2>1. task'.conds = task.conds
        BY <1>2 DEF Report, TypeOK, Objects
    <2>2. UNCHANGED <<cache, res, g, posts>>
        BY <1>2 DEF Report
    <2> QED BY <2>1, <2>2 DEF Honest, Answered
<1>3. CASE Informer
    BY <1>3 DEF Informer, Honest, Answered
<1>4. ASSUME NEW i \in Goroutines, Goroutine(i) PROVE Honest'
    <2> DEFINE Asked(j) == posts[j] > 0 \/ g[j].dry
    <2>o. \A j \in Goroutines \ {i} : g'[j] = g[j] /\ posts'[j] = posts[j]
        BY <1>4, OnlyItsOwn
    <2>d. g'[i].dry = g[i].dry
        BY <1>4, OnlyItsOwn
    <2>1. CASE PostOk(i) \/ PostFails(i)
        <3>1. \A j \in Goroutines : Asked(j) => Asked(j)'
            BY <2>1, <1>t, <2>o, <2>d DEF PostOk, PostFails, Failed
        <3>2. g'[i].body = g[i].body /\ (g'[i].pc \in Trying => posts'[i] > 0 \/ g'[i].dry)
            BY <2>1, <1>t, <1>f DEF PostOk, PostFails, Goto, Trying, Running, Inside, Locals
        <3>3. UNCHANGED <<task, cache, res>>
            BY <2>1 DEF PostOk, PostFails
        <3> QED BY <2>o, <2>d, <3>1, <3>2, <3>3 DEF Honest, Answered
    <2>2. CASE ~(PostOk(i) \/ PostFails(i))
        <3>p. UNCHANGED posts /\ (g[i].pc = "record" => g'[i].pc = "done")
            BY <1>4, <1>f, <2>2 DEF Goroutine, Get, Fill, Loaded, Append, Store, Encode, Send,
                Serve, UpdateFails, Decoded, Record, Goto, Locals
        <3>q. \A j \in Goroutines : Asked(j) <=> Asked(j)'
            BY <2>o, <2>d, <3>p
        <3>r. g[i].pc \in Trying \ {"post"} => Asked(i)
            BY DEF Honest
        <3>s. g'[i].pc \in Trying => Asked(i)
            BY <1>4, <1>f, <2>2, <3>p, <3>r DEF Goroutine, Get, Fill, Loaded, Append, Store,
                Encode, Send, Serve, UpdateFails, Decoded, Record, Goto, Trying, Running, Inside
        \* Where the conditions of every copy come from.
        <3>m. ASSUME \A j \in Goroutines : g'[i].body.conds[j] > 0 => Asked(j),
                     \A j \in Goroutines : res'.conds[j] > 0 => Asked(j),
                     \A j \in Goroutines : task'.conds[j] > 0 => Asked(j),
                     UNCHANGED cache
              PROVE  Honest'
            <4> HIDE DEF Asked
            <4>1. \A j \in Goroutines \ {i} : Answered(g[j].body) => Answered(g[j].body)'
                BY <2>o, <3>q DEF Answered, Asked
            <4>2. \A j \in Goroutines \ {i} :
                    (g[j].pc \in Trying \ {"post"} => Asked(j)) =>
                    (g'[j].pc \in Trying \ {"post"} => Asked(j)')
                BY <2>o, <3>q
            <4>3. Answered(task)' /\ Answered(res)' /\ Answered(g[i].body)'
                BY <3>m, <3>q DEF Answered, Asked
            <4>4. Answered(cache)'
                BY <3>m, <3>q DEF Honest, Answered, Asked
            <4> QED BY <3>q, <3>s, <4>1, <4>2, <4>3, <4>4 DEF Honest, Asked
        <3>h. /\ \A j \in Goroutines : task.conds[j] > 0 => Asked(j)
              /\ \A j \in Goroutines : cache.conds[j] > 0 => Asked(j)
              /\ \A j \in Goroutines : res.conds[j] > 0 => Asked(j)
              /\ \A j \in Goroutines : g[i].body.conds[j] > 0 => Asked(j)
            BY DEF Honest, Answered
        <3> HIDE DEF Asked
        <3>1. CASE Store(i)
            <4>1. /\ g[i].pc = "appending" /\ g'[i].body = g[i].body /\ UNCHANGED <<task, cache>>
                  /\ res'.conds = [g[i].body.conds EXCEPT ![i] = @ + 1]
                BY <1>f, <1>r, <3>1 DEF Store, Goto, Locals
            <4>2. Asked(i)
                BY <3>r, <4>1 DEF Trying, Running, Inside
            <4>3. g[i].body.conds \in [Goroutines -> Nat]
                BY <1>f DEF Locals, Copies
            <4>4. \A j \in Goroutines \ {i} : res'.conds[j] = g[i].body.conds[j]
                BY <4>1, <4>3
            <4> QED BY <3>h, <3>m, <4>1, <4>2, <4>4
        <3>2. CASE Serve(i)
            <4>1. task'.conds \in {task.conds, g[i].body.conds} /\ UNCHANGED <<cache, res>>
                BY <3>2 DEF Serve, TypeOK, Objects
            <4>2. g'[i].body \in {g[i].body, [g[i].body EXCEPT !.rv = task.rv + 1]}
                BY <1>f, <3>2 DEF Serve, Locals
            <4>3. g'[i].body.conds = g[i].body.conds
                BY <1>f, <4>2 DEF Locals, Copies
            <4> QED BY <3>h, <3>m, <4>1, <4>3
        <3>3. CASE ~(Store(i) \/ Serve(i))
            <4>1. g'[i].body.conds \in {g[i].body.conds, cache.conds, res.conds}
                <5>1. g[i].body \in Copies
                    BY <1>f DEF Locals
                <5> QED BY <1>4, <1>f, <2>2, <3>3, <5>1 DEF Goroutine, Get, Fill, Loaded, Append,
                           Encode, Send, UpdateFails, Decoded, Record, Goto, Locals, Copies
            <4>2. res'.conds \in {res.conds, g[i].body.conds} /\ UNCHANGED <<task, cache>>
                BY <1>4, <1>r, <2>2, <3>3 DEF Goroutine, Get, Fill, Loaded, Append, Encode, Send,
                           UpdateFails, Decoded, Record
            <4> QED BY <3>h, <3>m, <4>1, <4>2
        <3> QED BY <3>1, <3>2, <3>3
    <2> QED BY <2>1, <2>2
<1> QED BY <1>1, <1>2, <1>3, <1>4 DEF Next

\* The reconcile that dispatches a Task keeps types, attempts, copies and
\* conditions in order, whatever its goroutines interleave (processEntities).
THEOREM Invariance == Spec => []IInv
<1>1. IInv /\ [Next]_vars => IInv'
    BY TypeStep, AttemptsStep, CoherentStep, HonestStep DEF IInv
<1> QED BY InitHolds, <1>1, PTL DEF Spec

\* Types, and at most one payload per entity and reconcile (RequestHandler.Handle
\* is called again only by the next reconcile).
THEOREM TypesHold == Spec => []TypeOK
<1>1. IInv => TypeOK
    BY DEF IInv
<1> QED BY Invariance, <1>1, PTL

\* A condition in the Task stands for an agent that answered 200 or for a dry run,
\* although any of the goroutines that share res may have carried it there, and
\* however their unlocked accesses to res overlap (processEntities).
THEOREM ConditionsMeanPosts == Spec => []ConditionMeansPosted
<1>1. IInv => ConditionMeansPosted
    BY DEF IInv, Honest, Answered, ConditionMeansPosted
<1> QED BY Invariance, <1>1, PTL

\* As long as no two accesses to res overlapped, only what has every committed
\* condition is taken by the API server: retries, stale reads and answers decoded
\* into the shared copy roll none back (UpdateStatus of setCondition).
THEOREM CommitsAreKept == Spec => CalmKept
<1> DEFINE Kept == \A i \in Goroutines : task'.conds[i] >= task.conds[i]
<1>1. IInv /\ [Next]_vars => [~overlapped' => Kept]_vars
    <2> SUFFICES ASSUME IInv, [Next]_vars, ~overlapped' PROVE Kept
        OBVIOUS
    <2>t. TypeOK /\ Coherent /\ task.conds \in [Goroutines -> Nat]
        BY DEF IInv, TypeOK, Objects
    <2>1. CASE task'.conds = task.conds
        BY <2>t, <2>1
    <2>2. CASE Report
        BY <2>2, <2>t, <2>1 DEF Report, TypeOK, Objects
    <2>3. ASSUME NEW i \in Goroutines, Goroutine(i) PROVE Kept
        <3>1. CASE Serve(i) /\ g[i].body.rv = task.rv
            <4>1. task'.conds = g[i].body.conds /\ ~overlapped
                BY <2>t, <3>1 DEF Serve, TypeOK, Objects
            <4>2. AtLeast(g[i].body.conds, task.conds)
                BY <2>t, <3>1, <4>1 DEF Serve, Coherent, Carried, Holds
            <4> QED BY <4>1, <4>2 DEF AtLeast
        <3>2. CASE ~(Serve(i) /\ g[i].body.rv = task.rv)
            <4>1. task' = task
                BY <2>3, <3>2 DEF Goroutine, PostOk, PostFails, Get, Fill, Loaded, Append, Store,
                                  Encode, Send, Serve, UpdateFails, Decoded, Record
            <4> QED BY <2>1, <4>1
        <3> QED BY <3>1, <3>2
    <2>4. CASE Reap \/ Informer \/ UNCHANGED vars
        BY <2>1, <2>4 DEF Reap, Informer, vars
    <2> QED BY <2>2, <2>3, <2>4 DEF Next
<1> QED BY Invariance, <1>1, PTL DEF Spec, CalmKept
=============================================================================
