----------------------------- MODULE AgentProofs ----------------------------
(***************************************************************************)
(* The agents, for any number of requests, uploads, Tasks and crashes: the *)
(* queue of one (AgentQueue), its images (AgentImages) and the delivery of *)
(* Tasks to all of them (Delivery).                                        *)
(***************************************************************************)
EXTENDS AgentQueue, AgentImages, Delivery, TLAPS

(***************************************************************************)
(* AgentQueue: its handlers lose and double nothing, and implement the     *)
(* Mailbox.                                                                *)
(***************************************************************************)
\* The lock is held exactly between the copy and the clearing; meanwhile the
\* response holds what the queue holds, and before it, nothing.
Locked ==
    \A s \in Syncs :
        /\ sync[s] = "copied" <=> mutex = s
        /\ sync[s] = "copied" => batch[s] = queue
        /\ sync[s] = "sent" => batch[s] = <<>>

\* A post that was not accepted yet is nowhere.
Fresh ==
    \A p \in Posts : post[p] = "sent" =>
        ~In(p, queue) /\ \A s \in Syncs : ~In(p, Handed(s))

IInv == TypeOK /\ Locked /\ Fresh /\ HandedOnce

\* What Append does to a sequence of messages.
LEMMA Appended ==
    ASSUME NEW q \in Seq(Messages), NEW p \in Messages
    PROVE  /\ Append(q, p) \in Seq(Messages)
           /\ DOMAIN Append(q, p) = 1..(Len(q) + 1)
           /\ DOMAIN q = 1..Len(q)
           /\ Len(q) \in Nat
           /\ \A i \in DOMAIN q : Append(q, p)[i] = q[i]
           /\ Append(q, p)[Len(q) + 1] = p
    OBVIOUS

\* Types hold in every reachable state, and nothing undecodable is queued.
LEMMA TypeStep == TypeOK /\ [Next]_vars => TypeOK'
<1> SUFFICES ASSUME TypeOK, [Next]_vars PROVE TypeOK'
    OBVIOUS
<1> USE AgentAssumption DEF TypeOK
<1>1. CASE Crash
    BY <1>1 DEF Crash
<1>2. ASSUME NEW p \in Posts, HandleTask(p) PROVE TypeOK'
    <2>1. CASE Accept(p)
        <3>1. p \in Messages
            BY <2>1 DEF Accept, Messages
        <3>2. Append(queue, p) \in Seq(Messages)
            BY <3>1, Appended
        <3> QED BY <2>1, <3>2 DEF Accept
    <2>2. CASE AnswerPost(p) \/ RefusePost(p) \/ LosePost(p)
        BY <2>2 DEF AnswerPost, RefusePost, LosePost
    <2> QED BY <1>2, <2>1, <2>2 DEF HandleTask
<1>3. ASSUME NEW s \in Syncs, HandleSync(s) PROVE TypeOK'
    <2>1. CASE Copy(s)
        BY <2>1 DEF Copy
    <2>2. CASE Clear(s)
        BY <2>2 DEF Clear
    <2>3. CASE AnswerSync(s)
        BY <2>3 DEF AnswerSync
    <2> QED BY <1>3, <2>1, <2>2, <2>3 DEF HandleSync
<1>4. CASE UNCHANGED vars
    BY <1>4 DEF vars
<1> QED BY <1>1, <1>2, <1>3, <1>4 DEF Next

LEMMA LockedStep == TypeOK /\ Locked /\ [Next]_vars => Locked'
<1> SUFFICES ASSUME TypeOK, Locked, [Next]_vars PROVE Locked'
    OBVIOUS
<1> USE AgentAssumption DEF TypeOK, Locked
<1>1. CASE Crash
    BY <1>1 DEF Crash
<1>2. ASSUME NEW p \in Posts, HandleTask(p) PROVE Locked'
    <2>1. CASE Accept(p)
        BY <2>1 DEF Accept
    <2>2. CASE AnswerPost(p) \/ RefusePost(p) \/ LosePost(p)
        BY <2>2 DEF AnswerPost, RefusePost, LosePost
    <2> QED BY <1>2, <2>1, <2>2 DEF HandleTask
<1>3. ASSUME NEW s \in Syncs, HandleSync(s) PROVE Locked'
    <2>1. CASE Copy(s)
        <3>1. \A t \in Syncs : t # s => sync'[t] = sync[t] /\ batch'[t] = batch[t] /\ sync[t] # "copied"
            BY <2>1 DEF Copy
        <3>2. sync'[s] = "copied" /\ mutex' = s /\ batch'[s] = queue /\ queue' = queue
            BY <2>1 DEF Copy
        <3> QED BY <3>1, <3>2
    <2>2. CASE Clear(s)
        BY <2>2 DEF Clear
    <2>3. CASE AnswerSync(s)
        BY <2>3 DEF AnswerSync
    <2> QED BY <1>3, <2>1, <2>2, <2>3 DEF HandleSync
<1>4. CASE UNCHANGED vars
    BY <1>4 DEF vars
<1> QED BY <1>1, <1>2, <1>3, <1>4 DEF Next

\* How a step changes what was handed over: not at all, or by the whole queue to
\* a sync that had nothing.
LEMMA HandedStep ==
    ASSUME TypeOK, Locked, [Next]_vars
    PROVE  \/ \A t \in Syncs : Handed(t)' = Handed(t)
           \/ \E s \in Syncs :
                /\ Clear(s)
                /\ Handed(s) = <<>> /\ Handed(s)' = queue
                /\ \A t \in Syncs \ {s} : Handed(t)' = Handed(t)
<1> USE AgentAssumption DEF TypeOK, Locked, Handed
<1>1. CASE Crash
    BY <1>1 DEF Crash
<1>2. ASSUME NEW p \in Posts, HandleTask(p)
      PROVE  \A t \in Syncs : Handed(t)' = Handed(t)
    BY <1>2 DEF HandleTask, Accept, AnswerPost, RefusePost, LosePost
<1>3. ASSUME NEW s \in Syncs, Copy(s)
      PROVE  \A t \in Syncs : Handed(t)' = Handed(t)
    BY <1>3 DEF Copy
<1>4. ASSUME NEW s \in Syncs, Clear(s)
      PROVE  /\ Handed(s) = <<>> /\ Handed(s)' = queue
             /\ \A t \in Syncs \ {s} : Handed(t)' = Handed(t)
    BY <1>4 DEF Clear
<1>5. ASSUME NEW s \in Syncs, AnswerSync(s)
      PROVE  \A t \in Syncs : Handed(t)' = Handed(t)
    BY <1>5 DEF AnswerSync
<1>6. CASE UNCHANGED vars
    BY <1>6 DEF vars
<1> QED BY <1>1, <1>2, <1>3, <1>4, <1>5, <1>6 DEF Next, HandleSync

LEMMA FreshStep == IInv /\ [Next]_vars => Fresh'
<1> SUFFICES ASSUME IInv, [Next]_vars, NEW q \in Posts, post'[q] = "sent"
             PROVE  ~In(q, queue)' /\ \A t \in Syncs : ~In(q, Handed(t))'
    BY DEF Fresh
<1>1. post[q] = "sent"
    <2>1. CASE Crash
        BY <2>1 DEF Crash, IInv, TypeOK
    <2>2. ASSUME NEW p \in Posts, HandleTask(p) PROVE post[q] = "sent"
        BY <2>2 DEF HandleTask, Accept, AnswerPost, RefusePost, LosePost, IInv, TypeOK
    <2>3. ASSUME NEW s \in Syncs, HandleSync(s) PROVE post[q] = "sent"
        BY <2>3 DEF HandleSync, Copy, Clear, AnswerSync
    <2>4. CASE UNCHANGED vars
        BY <2>4 DEF vars
    <2> QED BY <2>1, <2>2, <2>3, <2>4 DEF Next
<1>2. ~In(q, queue) /\ \A t \in Syncs : ~In(q, Handed(t))
    BY <1>1 DEF IInv, Fresh
<1>3. ~In(q, queue)'
    <2>1. ASSUME NEW p \in Posts, Accept(p) PROVE ~In(q, queue)'
        <3>1. p # q /\ p \in Messages /\ queue \in Seq(Messages) /\ queue' = Append(queue, p)
            BY <2>1 DEF Accept, IInv, TypeOK, Messages
        <3> QED BY <3>1, <1>2, Appended DEF In
    <2>2. CASE queue' = <<>> \/ queue' = queue
        BY <2>2, <1>2 DEF In
    <2>3. (\E p \in Posts : Accept(p)) \/ queue' = <<>> \/ queue' = queue
        BY DEF Next, vars, Crash, HandleTask, AnswerPost, RefusePost, LosePost, HandleSync,
               Copy, Clear, AnswerSync
    <2> QED BY <2>1, <2>2, <2>3
<1>4. \A t \in Syncs : ~In(q, Handed(t))'
    BY <1>2, HandedStep DEF IInv, In
<1> QED BY <1>3, <1>4

LEMMA HandedOnceStep == IInv /\ [Next]_vars => HandedOnce'
<1> SUFFICES ASSUME IInv, [Next]_vars PROVE HandedOnce'
    OBVIOUS
<1>1. \/ \A t \in Syncs : Handed(t)' = Handed(t)
      \/ \E s \in Syncs :
            /\ Clear(s)
            /\ Handed(s) = <<>> /\ Handed(s)' = queue
            /\ \A t \in Syncs \ {s} : Handed(t)' = Handed(t)
    BY HandedStep DEF IInv
<1>2. CASE \A t \in Syncs : Handed(t)' = Handed(t)
    <2>1. ASSUME NEW p \in Posts, Accept(p) PROVE HandedOnce'
        <3>1. /\ p \in Messages /\ queue \in Seq(Messages) /\ queue' = Append(queue, p)
              /\ post[p] = "sent"
            BY <2>1 DEF Accept, IInv, TypeOK, Messages
        <3>2. ~In(p, queue) /\ \A s \in Syncs : ~In(p, Handed(s))
            BY <3>1 DEF IInv, Fresh
        <3>3. \A i, j \in DOMAIN queue' : queue'[i] = queue'[j] => i = j
            BY <3>1, <3>2, Appended DEF IInv, HandedOnce, In
        <3>4. \A s \in Syncs : \A i \in DOMAIN Handed(s)' : ~In(Handed(s)'[i], queue')
            BY <1>2, <3>1, <3>2, Appended DEF IInv, HandedOnce, In
        <3> QED BY <1>2, <3>3, <3>4 DEF IInv, HandedOnce, In
    <2>2. CASE queue' = <<>> \/ queue' = queue
        BY <2>2, <1>2 DEF IInv, HandedOnce, In
    <2>3. (\E p \in Posts : Accept(p)) \/ queue' = <<>> \/ queue' = queue
        BY DEF Next, vars, Crash, HandleTask, AnswerPost, RefusePost, LosePost, HandleSync,
               Copy, Clear, AnswerSync
    <2> QED BY <2>1, <2>2, <2>3
<1>3. ASSUME NEW s \in Syncs, Clear(s), Handed(s)' = queue,
             \A t \in Syncs \ {s} : Handed(t)' = Handed(t)
      PROVE  HandedOnce'
    BY <1>3 DEF IInv, HandedOnce, In, Clear
<1> QED BY <1>1, <1>2, <1>3

\* The inductive invariant.
THEOREM Inductive == Spec => []IInv
<1>1. Init => IInv
    BY AgentAssumption DEF Init, IInv, TypeOK, Locked, Fresh, HandedOnce, Handed, In
<1>2. IInv /\ [Next]_vars => IInv'
    BY TypeStep, LockedStep, FreshStep, HandedOnceStep DEF IInv
<1> QED BY <1>1, <1>2, PTL DEF Spec

\* handleSync hands no message to two clients, twice to one, or keeps one that it
\* handed over, in every interleaving of any number of requests and crashes.
THEOREM HandedOnceAlways == Spec => []HandedOnce
<1>1. IInv => HandedOnce
    BY DEF IInv
<1> QED BY <1>1, Inductive, PTL

\* The queue and the responses only ever hold messages that could be decoded.
THEOREM TypeAlways == Spec => []TypeOK
<1>1. IInv => TypeOK
    BY DEF IInv
<1> QED BY <1>1, Inductive, PTL

\* AcceptedIsKept also for the posts that wait for their answer.
Kept ==
    \A p \in Posts : post[p] \in {"queued", "ok"} /\ crashes = 0 =>
        In(p, queue) \/ \E s \in Syncs : In(p, Handed(s))

LEMMA KeptStep == IInv /\ Kept /\ [Next]_vars => Kept'
<1> SUFFICES ASSUME IInv, Kept, [Next]_vars,
                    NEW q \in Posts, post'[q] \in {"queued", "ok"}, crashes' = 0
             PROVE  In(q, queue)' \/ \E t \in Syncs : In(q, Handed(t))'
    BY DEF Kept
<1>1. CASE Crash
    BY <1>1, AgentAssumption DEF Crash, IInv, TypeOK
<1>2. ASSUME NEW p \in Posts, Accept(p)
      PROVE  In(q, queue)' \/ \E t \in Syncs : In(q, Handed(t))'
    <2>1. /\ p \in Messages /\ queue \in Seq(Messages) /\ queue' = Append(queue, p)
          /\ post' = [post EXCEPT ![p] = "queued"] /\ crashes' = crashes
          /\ post \in [Posts -> {"sent", "queued", "ok", "refused", "lost"}]
        BY <1>2 DEF Accept, IInv, TypeOK, Messages
    <2>2. \A t \in Syncs : Handed(t)' = Handed(t)
        BY <1>2 DEF Accept, Handed
    <2>3. CASE q = p
        BY <2>1, <2>3, Appended DEF In
    <2>4. CASE q # p
        <3>1. In(q, queue) \/ \E t \in Syncs : In(q, Handed(t))
            BY <2>1, <2>4 DEF Kept
        <3> QED BY <2>1, <2>2, <3>1, Appended DEF In
    <2> QED BY <2>3, <2>4
<1>3. ASSUME ~Crash, \A p \in Posts : ~Accept(p)
      PROVE  In(q, queue)' \/ \E t \in Syncs : In(q, Handed(t))'
    <2>1. post[q] \in {"queued", "ok"} /\ crashes = 0
        BY <1>3 DEF Next, vars, HandleTask, AnswerPost, RefusePost, LosePost, HandleSync,
                    Copy, Clear, AnswerSync, IInv, TypeOK
    <2>2. In(q, queue) \/ \E t \in Syncs : In(q, Handed(t))
        BY <2>1 DEF Kept
    <2>3. ASSUME NEW s \in Syncs, Clear(s), Handed(s) = <<>>, Handed(s)' = queue,
                 \A t \in Syncs \ {s} : Handed(t)' = Handed(t)
          PROVE  In(q, queue)' \/ \E t \in Syncs : In(q, Handed(t))'
        BY <2>2, <2>3 DEF In
    <2>4. CASE queue' = queue /\ \A t \in Syncs : Handed(t)' = Handed(t)
        BY <2>2, <2>4 DEF In
    <2>5. queue' = queue \/ \E s \in Syncs : Clear(s)
        BY <1>3 DEF Next, vars, HandleTask, AnswerPost, RefusePost, LosePost, HandleSync,
                    Copy, Clear, AnswerSync
    <2>6. ASSUME NEW s \in Syncs, Clear(s)
          PROVE  Handed(s) = <<>> /\ Handed(s)' = queue
                 /\ \A t \in Syncs \ {s} : Handed(t)' = Handed(t)
        BY <2>6 DEF Clear, Handed, IInv, TypeOK, Locked
    <2>7. (\A s \in Syncs : ~Clear(s)) => \A t \in Syncs : Handed(t)' = Handed(t)
        BY HandedStep DEF IInv
    <2> QED BY <2>3, <2>4, <2>5, <2>6, <2>7
<1> QED BY <1>1, <1>2, <1>3

\* While the agent runs no interleaving of its handlers drops a message that
\* handleTask has answered with 200.
THEOREM AcceptedIsKeptAlways == Spec => []AcceptedIsKept
<1>1. Init => Kept
    BY DEF Init, Kept
<1>2. IInv /\ Kept => AcceptedIsKept
    BY DEF Kept, AcceptedIsKept
<1> QED BY <1>1, <1>2, KeptStep, Inductive, PTL DEF Spec

\* The handlers of the agent and their lock are an atomic mailbox: every step is
\* a step of Mailbox, or none.
THEOREM QueueIsMailbox == Spec => ImplementsMailbox
<1> DEFINE given == [s \in Syncs |-> Handed(s)]
<1>1. Init => Box!BoxInit
    BY DEF Init, Box!BoxInit, Handed
<1>2. IInv /\ [Next]_vars => [Box!BoxNext]_(Box!boxVars)
    <2> SUFFICES ASSUME IInv, [Next]_vars PROVE [Box!BoxNext]_(Box!boxVars)
        OBVIOUS
    <2>1. ASSUME NEW s \in Syncs, Clear(s), Handed(s) = <<>>, Handed(s)' = queue,
                 \A t \in Syncs \ {s} : Handed(t)' = Handed(t)
          PROVE  Box!Take(s)
        <3>1. queue' = <<>>
            BY <2>1 DEF Clear
        <3>2. given' = [given EXCEPT ![s] = queue] /\ given[s] = <<>>
            BY <2>1
        <3> QED BY <3>1, <3>2 DEF Box!Take
    <2>2. CASE \A t \in Syncs : Handed(t)' = Handed(t)
        <3>1. given' = given
            BY <2>2
        <3>2. ASSUME NEW p \in Posts, Accept(p) PROVE Box!Put(p) /\ p \in Messages
            BY <3>1, <3>2 DEF Accept, Box!Put, Messages
        <3>3. CASE queue' = <<>>
            BY <3>1, <3>3 DEF Box!Lose, Box!BoxNext
        <3>4. CASE queue' = queue
            BY <3>1, <3>4 DEF Box!boxVars
        <3>5. (\E p \in Posts : Accept(p)) \/ queue' = <<>> \/ queue' = queue
            BY DEF Next, vars, Crash, HandleTask, AnswerPost, RefusePost, LosePost, HandleSync,
                   Copy, Clear, AnswerSync
        <3> QED BY <3>2, <3>3, <3>4, <3>5 DEF Box!BoxNext
    <2>3. \/ \A t \in Syncs : Handed(t)' = Handed(t)
          \/ \E s \in Syncs :
                /\ Clear(s)
                /\ Handed(s) = <<>> /\ Handed(s)' = queue
                /\ \A t \in Syncs \ {s} : Handed(t)' = Handed(t)
        BY HandedStep DEF IInv
    <2> QED BY <2>1, <2>2, <2>3 DEF Box!BoxNext
<1> QED BY <1>1, <1>2, Inductive, PTL DEF Spec, ImplementsMailbox, Box!BoxSpec

(***************************************************************************)
(* AgentImages: an image that was acknowledged is whole, unless another    *)
(* upload to its name came between; and the status counts names.           *)
(***************************************************************************)
Data == Uploads \cup {Nobody}

\* What an upload has written, when nobody else wrote to its file.
Prefix(u) == [i \in 1..off[u] |-> u]

\* An upload starts at the beginning, and one that nobody came between has all
\* that it wrote in its file and no rival that could write there.
Alone ==
    /\ \A u \in Uploads : up[u] = "sent" => off[u] = 0
    /\ \A u \in alone :
        /\ up[u] # "sent"
        /\ up[u] = "ok" => off[u] = Size[u]
        /\ up[u] \in {"open", "ok"} =>
            disk[Name[u]] = Prefix(u) /\ \A v \in Others(u) : up[v] # "open"

ImagesIInv == ImagesTypeOK /\ Alone

\* A chunk extends the content of a file to its place at least.
LEMMA PutIsData ==
    ASSUME NEW s \in Seq(Data), NEW k \in Nat \ {0}, NEW u \in Data
    PROVE  Put(s, k, u) \in Seq(Data)
<1> DEFINE n == IF Len(s) < k THEN k ELSE Len(s)
           f == [i \in 1..n |-> IF i = k THEN u ELSE IF i <= Len(s) THEN s[i] ELSE Nobody]
<1>1. n \in Nat
    OBVIOUS
<1>2. ASSUME NEW i \in 1..n PROVE f[i] \in Data
    BY <1>1 DEF Data
<1>3. f \in [1..n -> Data]
    BY <1>2
<1>4. f \in Seq(Data)
    <2> HIDE DEF f, n
    <2> QED BY <1>1, <1>3
<1> QED BY <1>4 DEF Put

\* Written where the upload is, it extends what the upload wrote by one.
LEMMA PutExtends ==
    ASSUME NEW u, NEW k \in Nat
    PROVE  Put([i \in 1..k |-> u], k + 1, u) = [i \in 1..(k + 1) |-> u]
<1> DEFINE s == [i \in 1..k |-> u]
<1>1. Len(s) = k
    OBVIOUS
<1>2. \A i \in 1..(k + 1) : i # k + 1 => i <= k /\ s[i] = u
    OBVIOUS
<1> HIDE DEF s
<1>3. Put(s, k + 1, u) = [i \in 1..(k + 1) |-> u]
    BY <1>1, <1>2 DEF Put
<1> QED BY <1>3 DEF s

LEMMA NamesHaveUploads == \A u \in Uploads : Name[u] \in Names
    BY DEF Names

LEMMA ImagesInitHolds == ImagesInit => ImagesIInv
<1> SUFFICES ASSUME ImagesInit PROVE ImagesIInv
    OBVIOUS
<1>1. ImagesTypeOK
    BY ImagesAssumption DEF ImagesInit, ImagesTypeOK
<1>2. Alone
    BY DEF ImagesInit, Alone
<1> QED BY <1>1, <1>2 DEF ImagesIInv

LEMMA ImagesTypeStep == ImagesTypeOK /\ [ImagesNext]_imagesVars => ImagesTypeOK'
<1> SUFFICES ASSUME ImagesTypeOK, [ImagesNext]_imagesVars PROVE ImagesTypeOK'
    OBVIOUS
<1> USE ImagesAssumption, NamesHaveUploads DEF ImagesTypeOK
<1>1. CASE ImagesCrash
    BY <1>1 DEF ImagesCrash
<1>2. ASSUME NEW u \in Uploads, Refuse(u) PROVE ImagesTypeOK'
    BY <1>2 DEF Refuse, Ends
<1>3. ASSUME NEW u \in Uploads, Create(u) PROVE ImagesTypeOK'
    <2>1. <<>> \in Seq(Uploads \cup {Nobody})
        OBVIOUS
    <2>2. alone' \subseteq Uploads
        BY <1>3 DEF Create
    <2> QED BY <1>3, <2>1, <2>2 DEF Create, Ends
<1>4. ASSUME NEW u \in Uploads, Write(u) PROVE ImagesTypeOK'
    <2>1. off[u] + 1 \in Nat \ {0}
        BY <1>4
    <2>2. Put(disk[Name[u]], off[u] + 1, u) \in Seq(Uploads \cup {Nobody})
        BY <2>1, PutIsData DEF Data
    <2>3. disk' \in [Names -> Seq(Uploads \cup {Nobody})]
        BY <1>4, <2>2 DEF Write
    <2>4. \A n \in Names \ files : disk'[n] = <<>>
        BY <1>4 DEF Write
    <2>5. off' \in [Uploads -> Nat] /\ \A v \in Uploads : off'[v] <= Size[v]
        BY <1>4 DEF Write
    <2> QED BY <1>4, <2>3, <2>4, <2>5 DEF Write
<1>5. ASSUME NEW u \in Uploads, Answer(u) PROVE ImagesTypeOK'
    BY <1>5 DEF Answer, Ends
<1>6. ASSUME NEW u \in Uploads, UploadFails(u) PROVE ImagesTypeOK'
    BY <1>6 DEF UploadFails, Ends
<1>7. CASE UNCHANGED imagesVars
    BY <1>7 DEF imagesVars
<1> QED BY <1>1, <1>2, <1>3, <1>4, <1>5, <1>6, <1>7 DEF ImagesNext, HandleImage

\* An upload writes to its file alone, since nobody else is open.
LEMMA AloneStep == ImagesIInv /\ [ImagesNext]_imagesVars => Alone'
<1> SUFFICES ASSUME ImagesIInv, [ImagesNext]_imagesVars PROVE Alone'
    OBVIOUS
<1> USE ImagesAssumption, NamesHaveUploads DEF ImagesIInv, ImagesTypeOK, Alone, Others
<1>1. CASE ImagesCrash
    BY <1>1 DEF ImagesCrash, Prefix
<1>2. ASSUME NEW w \in Uploads, Refuse(w) PROVE Alone'
    BY <1>2 DEF Refuse, Ends, Prefix
<1>3. ASSUME NEW w \in Uploads, Create(w) PROVE Alone'
    <2>1. ASSUME NEW u \in Uploads, up'[u] = "sent" PROVE off'[u] = 0
        BY <1>3, <2>1 DEF Create, Ends
    <2>2. ASSUME NEW u \in alone'
          PROVE  /\ up'[u] # "sent"
                 /\ up'[u] = "ok" => off'[u] = Size[u]
                 /\ up'[u] \in {"open", "ok"} =>
                     disk'[Name[u]] = Prefix(u)' /\ \A v \in Others(u) : up'[v] # "open"
        <3>1. CASE u = w
            <4>1. \A v \in Others(w) : up[v] # "open"
                BY <1>3, <2>2, <3>1 DEF Create
            <4>2. off[w] = 0 /\ Prefix(w)' = <<>>
                BY <1>3 DEF Create, Prefix
            <4> QED BY <1>3, <3>1, <4>1, <4>2 DEF Create, Ends
        <3>2. CASE u # w
            <4>1. u \in alone /\ u \notin Others(w)
                BY <1>3, <2>2, <3>2 DEF Create
            <4>2. Name[u] # Name[w] /\ w \notin Others(u)
                BY <3>2, <4>1
            <4>3. up'[u] = up[u] /\ disk'[Name[u]] = disk[Name[u]] /\ Prefix(u)' = Prefix(u)
                BY <1>3, <3>2, <4>1, <4>2 DEF Create, Ends, Prefix
            <4>4. \A v \in Others(u) : up'[v] = up[v]
                BY <1>3, <4>2 DEF Create, Ends
            <4> QED BY <1>3, <4>1, <4>3, <4>4 DEF Create
        <3> QED BY <3>1, <3>2
    <2> QED BY <2>1, <2>2
<1>4. ASSUME NEW w \in Uploads, Write(w) PROVE Alone'
    <2>1. ASSUME NEW u \in Uploads, up'[u] = "sent" PROVE off'[u] = 0
        BY <1>4, <2>1 DEF Write
    <2>2. ASSUME NEW u \in alone
          PROVE  /\ up[u] = "ok" => off'[u] = Size[u]
                 /\ up[u] \in {"open", "ok"} => disk'[Name[u]] = Prefix(u)'
        <3>1. CASE u = w
            <4>1. disk[Name[u]] = [i \in 1..off[u] |-> u]
                BY <1>4, <3>1 DEF Write, Prefix
            <4>2. disk'[Name[u]] = Put([i \in 1..off[u] |-> u], off[u] + 1, u) /\ off'[u] = off[u] + 1
                BY <1>4, <3>1, <4>1 DEF Write
            <4> DEFINE k == off[u]
            <4>k. k \in Nat
                BY <3>1
            <4>3. Put([i \in 1..k |-> u], k + 1, u) = [i \in 1..(k + 1) |-> u]
                <5> HIDE DEF k, ImagesTypeOK, ImagesIInv, Alone, Others
                <5> QED BY ONLY <4>k, PutExtends, Zenon
            <4>4. disk'[Name[u]] = Prefix(u)'
                BY <4>2, <4>3, Zenon DEF Prefix
            <4> QED BY <1>4, <3>1, <4>4 DEF Write
        <3>2. CASE u # w
            <4>1. off'[u] = off[u]
                BY <1>4, <3>2 DEF Write
            <4>2. up[u] \in {"open", "ok"} => Name[u] # Name[w]
                BY <1>4, <3>2 DEF Write
            <4>3. up[u] \in {"open", "ok"} => disk'[Name[u]] = disk[Name[u]]
                BY <1>4, <4>2 DEF Write
            <4> QED BY <4>1, <4>3 DEF Prefix
        <3> QED BY <3>1, <3>2
    <2> QED BY <1>4, <2>1, <2>2 DEF Write
<1>5. ASSUME NEW w \in Uploads, Answer(w) PROVE Alone'
    <2>1. \A u \in Uploads : u # w => up'[u] = up[u]
        BY <1>5 DEF Answer, Ends
    <2>2. up[w] = "open" /\ off[w] = Size[w] /\ up'[w] \in {"ok", "lost"}
        BY <1>5 DEF Answer, Ends
    <2>3. \A u \in Uploads : Prefix(u)' = Prefix(u)
        BY <1>5 DEF Answer, Prefix
    <2> QED BY <1>5, <2>1, <2>2, <2>3 DEF Answer
<1>6. ASSUME NEW w \in Uploads, UploadFails(w) PROVE Alone'
    BY <1>6 DEF UploadFails, Ends, Prefix
<1>7. CASE UNCHANGED imagesVars
    BY <1>7 DEF imagesVars, Prefix
<1> QED BY <1>1, <1>2, <1>3, <1>4, <1>5, <1>6, <1>7 DEF ImagesNext, HandleImage

\* Both hold in every reachable state.
LEMMA ImagesInvariance == ImagesSpec => []ImagesIInv
<1>1. ImagesIInv /\ [ImagesNext]_imagesVars => ImagesIInv'
    BY ImagesTypeStep, AloneStep DEF ImagesIInv
<1> QED BY ImagesInitHolds, <1>1, PTL DEF ImagesSpec

\* Uploads keep to their sizes, and only a name that has a file has content or an
\* open upload (handleImage).
THEOREM ImagesTypesHold == ImagesSpec => []ImagesTypeOK
<1>1. ImagesIInv => ImagesTypeOK
    BY DEF ImagesIInv
<1> QED BY ImagesInvariance, <1>1, PTL

\* An image that handleImage answered with 200 stays whole in its file, whatever
\* its name held before and whoever failed or crashed since.
THEOREM UploadedIsWholeAlways == ImagesSpec => []UploadedIsWhole
<1>1. ImagesIInv => UploadedIsWhole
    BY DEF ImagesIInv, ImagesTypeOK, Alone, UploadedIsWhole, Content, Prefix
<1> QED BY ImagesInvariance, <1>1, PTL

Started == {v \in Uploads : up[v] \in {"open", "ok", "lost"}}

\* Until something fails, the files are those of the uploads that were opened, and
\* an upload that was opened is still open, or answered.
Accounted == faults = 0 => files = {Name[u] : u \in Started}

LEMMA AccountedStep == ImagesTypeOK /\ Accounted /\ [ImagesNext]_imagesVars => Accounted'
<1> SUFFICES ASSUME ImagesTypeOK, Accounted, [ImagesNext]_imagesVars, faults' = 0
             PROVE  files' = {Name[u] : u \in Started'}
    BY DEF Accounted
<1>0. faults = 0 /\ UNCHANGED faults
    BY DEF ImagesTypeOK, ImagesNext, HandleImage, Refuse, Create, Write, Answer, UploadFails, ImagesCrash, imagesVars
<1>i. files = {Name[u] : u \in Started}
    BY <1>0 DEF Accounted
<1>1. CASE ImagesCrash \/ \E u \in Uploads : UploadFails(u)
    BY <1>0, <1>1 DEF ImagesCrash, UploadFails
<1>2. ASSUME NEW u \in Uploads, Refuse(u) PROVE files' = {Name[v] : v \in Started'}
    <2>1. Started' = Started /\ files' = files
        BY <1>2 DEF Refuse, Ends, Started, ImagesTypeOK
    <2> QED BY <1>i, <2>1
<1>3. ASSUME NEW u \in Uploads, Create(u) PROVE files' = {Name[v] : v \in Started'}
    <2>1. Started' = Started \cup {u} /\ files' = files \cup {Name[u]}
        BY <1>3 DEF Create, Ends, Started, ImagesTypeOK
    <2> QED BY <1>i, <2>1
<1>4. ASSUME NEW u \in Uploads, Write(u) PROVE files' = {Name[v] : v \in Started'}
    <2>1. Started' = Started /\ files' = files
        BY <1>4 DEF Write, Started
    <2> QED BY <1>i, <2>1
<1>5. ASSUME NEW u \in Uploads, Answer(u) PROVE files' = {Name[v] : v \in Started'}
    <2>1. Started' = Started /\ files' = files
        BY <1>5 DEF Answer, Ends, Started, ImagesTypeOK
    <2> QED BY <1>i, <2>1
<1>6. CASE UNCHANGED imagesVars
    <2>1. Started' = Started /\ files' = files
        BY <1>6 DEF imagesVars, Started
    <2> QED BY <1>i, <2>1
<1> QED BY <1>1, <1>2, <1>3, <1>4, <1>5, <1>6 DEF ImagesNext, HandleImage

\* handleStatus counts the names that were uploaded, no name twice and no refused
\* one, as long as nothing failed (handleImage, handleStatus).
THEOREM CountIsExactAlways == ImagesSpec => []CountIsExact
<1>1. ImagesInit => Accounted
    BY DEF ImagesInit, Accounted, Started
<1>2. ImagesTypeOK /\ Accounted => CountIsExact
    <2> SUFFICES ASSUME Accounted, Quiet, faults = 0
                 PROVE  ImageCount = Cardinality({Name[u] : u \in {v \in Uploads : up[v] \in {"ok", "lost"}}})
        BY DEF CountIsExact
    <2>1. Started = {v \in Uploads : up[v] \in {"ok", "lost"}}
        BY DEF Started, Quiet
    <2>2. files = {Name[u] : u \in Started}
        BY DEF Accounted
    <2> QED BY <2>1, <2>2 DEF ImageCount
<1>3. ImagesIInv => ImagesTypeOK
    BY DEF ImagesIInv
<1> QED BY ImagesInvariance, AccountedStep, <1>1, <1>2, <1>3, PTL DEF ImagesSpec

(***************************************************************************)
(* Delivery: a Task that its client saw completed was served to every agent *)
(* it is for, and no Task is forgotten.                                    *)
(***************************************************************************)
\* wg.Wait cannot return before every agent was served.
Reached ==
    \A t \in Tasks : pc[t] = "send" =>
        \A a \in Target[t] : a \in open[t] \/ t \in got[a] \/ <<t, a>> \in failed

\* What stands for a Task that is through, and stays when it is gone.
Through(t) ==
    \/ phase[t] \in {"Completed", "Archiving", "gone"} \/ pc[t] = "archive"
    \/ t \in deleting \/ client[t] = "completed"

Earned == \A t \in Tasks : Through(t) => Served(t)

\* NoneForgotten, from the moment the Task is created on.
Pending(t) == pc[t] # "idle" \/ queued[t] # "no" \/ phase[t] = "Failed" \/ t \in hit

Remembered ==
    \A t \in Tasks : client[t] \in {"waiting", "created", "ok"} =>
        phase[t] # "none" /\ (Served(t) \/ Pending(t))

DeliveryIInv == DeliveryTypeOK /\ Reached /\ Earned /\ Remembered

LEMMA DeliveryInitHolds == DeliveryInit => DeliveryIInv
<1> SUFFICES ASSUME DeliveryInit PROVE DeliveryIInv
    OBVIOUS
<1>1. DeliveryTypeOK
    BY DEF DeliveryInit, DeliveryTypeOK, Phases, Answers
<1>2. Reached /\ Earned /\ Remembered
    BY DEF DeliveryInit, Reached, Earned, Through, Remembered
<1> QED BY <1>1, <1>2 DEF DeliveryIInv

LEMMA DeliveryTypeStep == DeliveryTypeOK /\ [DeliveryNext]_deliveryVars => DeliveryTypeOK'
<1> SUFFICES ASSUME DeliveryTypeOK, [DeliveryNext]_deliveryVars PROVE DeliveryTypeOK'
    OBVIOUS
<1> USE DEF DeliveryTypeOK, api, manager, env, Goto, SetPhase, Request, Says
<1>p. {"Running", "Completed", "Archiving", "Failed", "gone"} \subseteq Phases
    BY DEF Phases
<1>1. ASSUME NEW t \in Tasks, Client(t) PROVE DeliveryTypeOK'
    <2>n. ASSUME New(t)
          PROVE  phase' \in [Tasks -> Phases] /\ queued' \in [Tasks -> {"no", "later", "due"}]
        BY <2>n, Zenon DEF New, Phases
    <2>c. ASSUME NEW c \in Answers, Says(t, c) PROVE client' \in [Tasks -> Answers]
        BY <2>c
    <2> HIDE DEF Says
    <2>1. CASE CliCreate(t)
        BY <2>1, <2>n, <2>c DEF CliCreate, Answers
    <2>2. CASE Poll(t)
        BY <2>2, <2>c DEF Poll, Answers
    <2>3. CASE GiveUp(t)
        BY <2>3, <2>c DEF GiveUp, Answers
    <2>4. CASE SyncCreate(t)
        <3>1. CASE New(t) /\ Says(t, "created")
            BY <2>4, <2>n, <2>c, <3>1 DEF SyncCreate, Answers
        <3>2. CASE Says(t, "refused") /\ UNCHANGED <<phase, queued>>
            BY <2>4, <2>c, <3>2 DEF SyncCreate, Answers
        <3> QED BY <2>4, <3>1, <3>2 DEF SyncCreate
    <2>5. CASE SyncAnswer(t)
        <3>1. client' \in [Tasks -> Answers]
            BY <2>5, <2>c DEF SyncAnswer, Answers
        <3> QED BY <2>5, <3>1 DEF SyncAnswer
    <2> QED BY <1>1, <2>1, <2>2, <2>3, <2>4, <2>5 DEF Client
<1>2. ASSUME NEW t \in Tasks, TakeUp(t) PROVE DeliveryTypeOK'
    <2>1. CASE Begin(t)
        BY <2>1 DEF Begin, Takes
    <2>2. CASE BeginArchived(t)
        BY <2>2 DEF BeginArchived, Takes
    <2>3. CASE Remove(t)
        BY <2>3, <1>p DEF Remove, Takes
    <2> QED BY <1>2, <2>1, <2>2, <2>3 DEF TakeUp
<1>3. ASSUME NEW t \in Tasks, Pass(t) PROVE DeliveryTypeOK'
    <2>1. CASE Unresolved(t)
        BY <2>1, <1>p DEF Unresolved
    <2>2. CASE NotReady(t)
        BY <2>2 DEF NotReady, Later
    <2>3. CASE Send(t)
        <3>1. Target[t] \in SUBSET Agents
            BY DeliveryAssumption DEF DeliveryAssumption
        <3> QED BY <2>3, <3>1, <1>p DEF Send
    <2>4. CASE Complete(t)
        BY <2>4, <1>p DEF Complete
    <2>5. CASE Archive(t)
        BY <2>5, <1>p DEF Archive, Later
    <2> QED BY <1>3, <2>1, <2>2, <2>3, <2>4, <2>5 DEF Pass
<1>4. ASSUME NEW t \in Tasks, WakeUp(t) PROVE DeliveryTypeOK'
    BY <1>4 DEF WakeUp
<1>5. ASSUME NEW t \in Tasks, NEW a \in Agents, Take(t, a) PROVE DeliveryTypeOK'
    BY <1>5 DEF Take, Ended
<1>6. ASSUME NEW t \in Tasks, NEW a \in Agents, RequestFails(t, a) PROVE DeliveryTypeOK'
    <2>r. <<t, a>> \in Requests
        BY DEF Requests
    <2>g. [got EXCEPT ![a] = @ \cup {t}] \in [Agents -> SUBSET Tasks]
        OBVIOUS
    <2>1. got' \in [Agents -> SUBSET Tasks] /\ failed' \subseteq Requests
        BY <1>6, <2>r, <2>g DEF RequestFails
    <2>2. open' \in [Tasks -> SUBSET Agents] /\ \A u \in Tasks : open'[u] \subseteq open[u]
        BY <1>6 DEF RequestFails, Ended
    <2> QED BY <1>6, <2>1, <2>2 DEF RequestFails
<1>7. ASSUME NEW t \in Tasks, Fail(t) PROVE DeliveryTypeOK'
    <2>f. /\ [phase EXCEPT ![t] = "Failed"] \in [Tasks -> Phases]
          /\ [queued EXCEPT ![t] = "due"] \in [Tasks -> {"no", "later", "due"}]
        BY <1>p
    <2>1. phase' \in [Tasks -> Phases] /\ queued' \in [Tasks -> {"no", "later", "due"}]
        BY ONLY <1>7, <2>f, DeliveryTypeOK DEF Fail, DeliveryTypeOK
    <2>2. open' = open /\ pc' = [pc EXCEPT ![t] = "idle"] /\ open[t] = {}
        BY <1>7 DEF Fail
    <2>3. pc' \in [Tasks -> {"idle", "resolve", "send", "archive"}]
          /\ \A u \in Tasks : open'[u] # {} => pc'[u] = "send"
        BY <2>2
    <2>4. hit' = hit \cup {t} /\ UNCHANGED <<deleting, open, got, client, entity, hung, failed, restarts>>
        BY ONLY <1>7 DEF Fail
    <2> QED BY <2>1, <2>3, <2>4
<1>8. CASE Restart
    <2>1. \A t \in Tasks : queued'[t] \in {"no", "later", "due"} /\ pc'[t] = "idle" /\ open'[t] = {}
        BY <1>8 DEF Restart
    <2>2. /\ queued' \in [Tasks -> {"no", "later", "due"}] /\ open' \in [Tasks -> SUBSET Agents]
          /\ pc' \in [Tasks -> {"idle", "resolve", "send", "archive"}]
        BY <1>8 DEF Restart
    <2>3. restarts' = restarts + 1 /\ UNCHANGED <<phase, deleting, got, client, entity, hung, failed, hit>>
        BY <1>8 DEF Restart
    <2> QED BY <2>1, <2>2, <2>3
<1>9. ASSUME NEW a \in Agents, Provision(a) \/ Hang(a) PROVE DeliveryTypeOK'
    BY <1>9 DEF Provision, Hang
<1>10. CASE UNCHANGED deliveryVars
    BY <1>10 DEF deliveryVars
<1> QED
    BY <1>1, <1>2, <1>3, <1>4, <1>5, <1>6, <1>7, <1>8, <1>9, <1>10 DEF DeliveryNext, Advance

\* What an agent took or did not get is never taken back.
LEMMA Grows ==
    ASSUME DeliveryTypeOK, [DeliveryNext]_deliveryVars
    PROVE  (\A a \in Agents : got[a] \subseteq got'[a]) /\ failed \subseteq failed'
<1>1. CASE UNCHANGED <<got, failed>>
    BY <1>1
<1>2. ASSUME NEW u \in Tasks, NEW b \in Agents, Take(u, b) \/ RequestFails(u, b)
      PROVE  (\A a \in Agents : got[a] \subseteq got'[a]) /\ failed \subseteq failed'
    <2> DEFINE more == [got EXCEPT ![b] = @ \cup {u}]
    <2>1. \A a \in Agents : got[a] \subseteq more[a]
        BY DEF DeliveryTypeOK
    <2>2. got' \in {got, more} /\ failed \subseteq failed'
        BY <1>2 DEF Take, RequestFails, env
    <2>3. CASE got' = more
        BY <2>1, <2>2, <2>3
    <2>4. CASE got' = got
        BY <2>2, <2>4
    <2> QED BY <2>2, <2>3, <2>4
<1>3. CASE ~\E u \in Tasks, a \in Agents : Take(u, a) \/ RequestFails(u, a)
    <2>1. UNCHANGED <<got, failed>>
        BY <1>3 DEF DeliveryNext, Advance, Client, CliCreate, Poll, GiveUp, SyncCreate, SyncAnswer, TakeUp,
                    Begin, BeginArchived, Remove, Pass, Unresolved, NotReady, Send, Complete,
                    Archive, WakeUp, Fail, Restart, Provision, Hang, deliveryVars, env
    <2> QED BY <1>1, <2>1
<1> QED BY <1>2, <1>3

LEMMA ServedStays == ASSUME DeliveryTypeOK, [DeliveryNext]_deliveryVars, NEW t \in Tasks PROVE Served(t) => Served(t)'
<1>1. Target[t] \subseteq Agents
    BY DeliveryAssumption DEF DeliveryAssumption
<1> QED BY <1>1, Grows DEF Served

\* A request ends in the agent's queue or among those that failed, and a pass waits
\* for all that it sent.
LEMMA ReachedStep == DeliveryTypeOK /\ Reached /\ [DeliveryNext]_deliveryVars => Reached'
<1> SUFFICES ASSUME DeliveryTypeOK, Reached, [DeliveryNext]_deliveryVars PROVE Reached'
    OBVIOUS
<1>t. \A t \in Tasks : Target[t] \subseteq Agents
    BY DeliveryAssumption DEF DeliveryAssumption
<1>g. (\A a \in Agents : got[a] \subseteq got'[a]) /\ failed \subseteq failed'
    BY Grows
<1>0. CASE \A u \in Tasks : pc'[u] = "send" => pc[u] = "send" /\ open'[u] = open[u]
    BY <1>0, <1>g, <1>t DEF Reached
<1>1. ASSUME NEW t \in Tasks, Send(t) PROVE Reached'
    <2>1. open'[t] = Target[t] /\ \A u \in Tasks \ {t} : open'[u] = open[u] /\ pc'[u] = pc[u]
        BY <1>1 DEF Send, Goto, DeliveryTypeOK
    <2> QED BY <2>1, <1>g, <1>t DEF Reached
<1>2. ASSUME NEW t \in Tasks, NEW a \in Agents, Take(t, a) \/ RequestFails(t, a) PROVE Reached'
    <2>1. open' = [open EXCEPT ![t] = @ \ {a}] /\ pc' = pc
        BY <1>2 DEF Take, RequestFails, Ended
    <2>2. t \in got'[a] \/ <<t, a>> \in failed'
        BY <1>2 DEF Take, RequestFails, DeliveryTypeOK
    <2>3. \A u \in Tasks, b \in Agents : b \in open[u] => b \in open'[u] \/ (u = t /\ b = a)
        BY <2>1 DEF DeliveryTypeOK
    <2> QED BY <2>1, <2>2, <2>3, <1>g, <1>t DEF Reached
<1>3. CASE Restart
    BY <1>0, <1>3 DEF Restart
<1>4. ASSUME NEW t \in Tasks,
             Begin(t) \/ BeginArchived(t) \/ Unresolved(t) \/ NotReady(t) \/ Complete(t) \/ Archive(t) \/ Fail(t)
      PROVE  Reached'
    <2>1. PICK l \in {"idle", "resolve", "archive"} : pc' = [pc EXCEPT ![t] = l]
        BY <1>4 DEF Begin, BeginArchived, Unresolved, NotReady, Complete, Archive, Fail, Goto
    <2>2. open' = open
        BY <1>4 DEF Begin, BeginArchived, Unresolved, NotReady, Complete, Archive, Fail
    <2> QED BY <1>0, <2>1, <2>2 DEF DeliveryTypeOK
<1>5. CASE UNCHANGED <<pc, open>>
    BY <1>0, <1>5
<1>6. CASE \/ \E t \in Tasks : Client(t) \/ Remove(t) \/ WakeUp(t)
           \/ (\E a \in Agents : Provision(a) \/ Hang(a)) \/ UNCHANGED deliveryVars
    BY <1>5, <1>6 DEF Client, CliCreate, Poll, GiveUp, SyncCreate, SyncAnswer, Remove, WakeUp,
                      Provision, Hang, deliveryVars, manager
<1> QED BY <1>1, <1>2, <1>3, <1>4, <1>6 DEF DeliveryNext, Advance, TakeUp, Pass

\* A Task gets through when the last of its requests has ended, and no other way.
LEMMA EarnedStep == DeliveryTypeOK /\ Reached /\ Earned /\ [DeliveryNext]_deliveryVars => Earned'
<1> SUFFICES ASSUME DeliveryTypeOK, Reached, Earned, [DeliveryNext]_deliveryVars, NEW u \in Tasks, Through(u)'
             PROVE  Served(u)
    BY ServedStays DEF Earned
<1>0. CASE Through(u)
    BY <1>0 DEF Earned
<1>1. ASSUME NEW t \in Tasks, Client(t) PROVE Through(u)
    <2>1. UNCHANGED <<deleting, pc>> /\ (phase'[u] \in {"Completed", "Archiving", "gone"} => phase'[u] = phase[u])
        BY <1>1, Zenon DEF Client, CliCreate, Poll, GiveUp, SyncCreate, SyncAnswer, New, SetPhase, api, manager,
                    DeliveryTypeOK
    <2>2. client'[u] = "completed" => client[u] = "completed" \/ phase[u] \in {"Completed", "Archiving"}
        BY <1>1 DEF Client, CliCreate, Poll, GiveUp, SyncCreate, SyncAnswer, Says, DeliveryTypeOK
    <2> QED BY <2>1, <2>2 DEF Through
<1>p. ASSUME NEW t \in Tasks, NEW l \in {"idle", "resolve", "send"}, Goto(t, l),
             UNCHANGED <<phase, deleting, client>>
      PROVE  Through(u)
    BY <1>p DEF Goto, Through, DeliveryTypeOK
<1>2. ASSUME NEW t \in Tasks, TakeUp(t) PROVE Through(u)
    <2>1. CASE Begin(t)
        BY <1>p, <2>1 DEF Begin, api
    <2>2. CASE BeginArchived(t)
        BY <2>2 DEF BeginArchived, Goto, Through, DeliveryTypeOK
    <2>3. CASE Remove(t)
        BY <2>3 DEF Remove, SetPhase, Through, DeliveryTypeOK
    <2> QED BY <1>2, <2>1, <2>2, <2>3 DEF TakeUp
<1>3. ASSUME NEW t \in Tasks, Unresolved(t) \/ NotReady(t) \/ Send(t) \/ Archive(t) \/ Fail(t)
      PROVE  Through(u)
    <2>1. CASE Unresolved(t)
        BY <2>1 DEF Unresolved, Goto, SetPhase, Through, DeliveryTypeOK
    <2>2. CASE NotReady(t)
        BY <1>p, <2>2 DEF NotReady, api
    <2>3. CASE Send(t)
        BY <2>3 DEF Send, Goto, SetPhase, Through, DeliveryTypeOK
    <2>4. CASE Archive(t)
        <3>1. CASE u = t
            BY <2>4, <3>1 DEF Archive, Through
        <3>2. CASE u # t
            BY <2>4, <3>2 DEF Archive, Goto, SetPhase, Through, DeliveryTypeOK
        <3> QED BY <3>1, <3>2
    <2>5. CASE Fail(t)
        <3>1. phase'[u] \in {phase[u], "Failed"} /\ (pc'[u] = "archive" => pc[u] = "archive")
            BY <2>5 DEF Fail, Goto, DeliveryTypeOK
        <3>2. UNCHANGED <<deleting, client>>
            BY <2>5 DEF Fail
        <3> QED BY <3>1, <3>2 DEF Through
    <2> QED BY <1>3, <2>1, <2>2, <2>3, <2>4, <2>5
<1>4. ASSUME NEW t \in Tasks, Complete(t) PROVE Through(u) \/ Served(u)
    <2>1. Served(t)
        BY <1>4 DEF Complete, Reached, Served
    <2>2. u # t => Through(u)
        BY <1>4 DEF Complete, Goto, SetPhase, Through, DeliveryTypeOK
    <2> QED BY <2>1, <2>2
<1>5. ASSUME Restart PROVE Through(u)
    BY <1>5 DEF Restart, Through, api
<1>6. ASSUME UNCHANGED <<phase, pc, deleting, client>> PROVE Through(u)
    BY <1>6 DEF Through
<1>7. ASSUME NEW t \in Tasks, NEW a \in Agents, Take(t, a) \/ RequestFails(t, a) PROVE Through(u)
    BY <1>6, <1>7 DEF Take, RequestFails, api
<1>8. ASSUME (\E t \in Tasks : WakeUp(t)) \/ (\E a \in Agents : Provision(a) \/ Hang(a)) \/ UNCHANGED deliveryVars
      PROVE  Through(u)
    BY <1>6, <1>8 DEF WakeUp, Provision, Hang, deliveryVars, api, manager
<1> QED
    BY <1>0, <1>1, <1>2, <1>3, <1>4, <1>5, <1>7, <1>8 DEF DeliveryNext, Advance, Pass, Earned

\* The request of a Task leaves the work queue only into a pass, a pass ends in
\* another request, in a phase or in Tasking, and a restart requests every Task.
LEMMA RememberedStep == DeliveryTypeOK /\ Earned /\ Remembered /\ [DeliveryNext]_deliveryVars => Remembered'
<1> SUFFICES ASSUME DeliveryTypeOK, Earned, Remembered, [DeliveryNext]_deliveryVars, NEW u \in Tasks,
                    client'[u] \in {"waiting", "created", "ok"}
             PROVE  phase'[u] # "none" /\ (Served(u) \/ Pending(u)')
    BY ServedStays DEF Remembered
<1> DEFINE Lasts == phase'[u] # "none" /\ (Served(u) \/ Pending(u)')
<1>i. client[u] \in {"waiting", "created", "ok"} => phase[u] # "none" /\ (Served(u) \/ Pending(u))
    BY DEF Remembered
<1>0. ASSUME client'[u] = client[u], UNCHANGED <<phase[u], pc[u], queued[u]>>, hit \subseteq hit' PROVE Lasts
    BY <1>0, <1>i DEF Pending
<1>1. ASSUME NEW t \in Tasks, Client(t) PROVE Lasts
    <2>1. CASE u # t
        <3>1. UNCHANGED <<client[u], phase[u], pc[u], queued[u], hit>>
            BY <1>1, <2>1, Zenon DEF Client, CliCreate, Poll, GiveUp, SyncCreate, SyncAnswer, New, Says, SetPhase,
                        Request, DeliveryTypeOK, api, manager, env
        <3> QED BY <1>0, <3>1
    <2>2. CASE u = t /\ New(t)
        <3>1. phase'[u] = "" /\ queued'[u] = "due"
            BY <2>2, Zenon DEF New, SetPhase, Request, DeliveryTypeOK
        <3>2. phase'[u] # "none"
            BY <3>1, Zenon
        <3> QED BY <3>1, <3>2, Zenon DEF Pending
    <2>3. CASE u = t /\ ~New(t)
        <3>1. SyncAnswer(t)
            BY <1>1, <2>3 DEF Client, CliCreate, Poll, GiveUp, SyncCreate, Says, DeliveryTypeOK
        <3> QED BY <2>3, <3>1, <1>i DEF SyncAnswer, Pending, api, manager, env
    <2> QED BY <2>1, <2>2, <2>3
<1>2. ASSUME NEW t \in Tasks, Advance(t) \/ Fail(t) PROVE Lasts
    <2>c. client' = client /\ hit \subseteq hit'
        BY <1>2 DEF Advance, TakeUp, Begin, BeginArchived, Remove, Pass, Unresolved, NotReady, Send,
                    Complete, Archive, WakeUp, Take, Fail, env
    <2>1. CASE u # t
        <3>1. UNCHANGED <<phase[u], pc[u], queued[u]>>
            BY <1>2, <2>1 DEF Advance, TakeUp, Begin, BeginArchived, Remove, Pass, Unresolved, NotReady,
                        Send, Complete, Archive, WakeUp, Take, Fail, Goto, SetPhase, Request, Later,
                        DeliveryTypeOK, api
        <3> QED BY <1>0, <2>c, <3>1
    <2>2. CASE u = t
        <3>i. phase[u] # "none" /\ (Served(u) \/ Pending(u))
            BY <1>i, <2>c
        <3>1. CASE Begin(t) \/ BeginArchived(t) \/ Send(t) \/ Complete(t)
            <4>1. pc'[u] # "idle"
                BY <2>2, <3>1 DEF Begin, BeginArchived, Send, Complete, Goto, DeliveryTypeOK
            <4>2. phase'[u] \in {phase[u], "Running", "Completed"}
                BY <2>2, <3>1 DEF Begin, BeginArchived, Send, Complete, SetPhase, DeliveryTypeOK, api
            <4> QED BY <3>i, <4>1, <4>2 DEF Pending
        <3>2. CASE Remove(t) \/ Archive(t)
            <4>1. Served(u)
                BY <2>2, <3>2 DEF Remove, Archive, Earned, Through
            <4>2. phase'[u] \in {phase[u], "gone", "Archiving"}
                BY <2>2, <3>2 DEF Remove, Archive, SetPhase, DeliveryTypeOK
            <4> QED BY <3>i, <4>1, <4>2
        <3>3. CASE Unresolved(t)
            BY <2>2, <3>3 DEF Unresolved, SetPhase, Pending, DeliveryTypeOK
        <3>4. CASE NotReady(t) \/ WakeUp(t)
            <4>1. queued'[u] \in {"due", "later"} /\ phase' = phase
                BY <2>2, <3>4 DEF NotReady, WakeUp, Later, Request, DeliveryTypeOK, api
            <4> QED BY <3>i, <4>1 DEF Pending
        <3>5. CASE Fail(t)
            <4>1. u \in hit' /\ phase'[u] \in {phase[u], "Failed"}
                BY <2>2, <3>5 DEF Fail, DeliveryTypeOK
            <4> QED BY <3>i, <4>1 DEF Pending
        <3>6. CASE \E a \in Agents : Take(t, a)
            BY <1>0, <2>c, <3>6 DEF Take, api
        <3> QED BY <1>2, <3>1, <3>2, <3>3, <3>4, <3>5, <3>6 DEF Advance, TakeUp, Pass
    <2> QED BY <2>1, <2>2
<1>3. ASSUME Restart PROVE Lasts
    <2>1. phase[u] # "none" /\ phase' = phase
        BY <1>3, <1>i DEF Restart, api
    <2>2. CASE phase[u] = "gone"
        BY <2>1, <2>2 DEF Earned, Through
    <2>3. CASE phase[u] # "gone"
        BY <1>3, <2>1, <2>3 DEF Restart, Exists, Pending
    <2> QED BY <2>2, <2>3
<1>4. ASSUME UNCHANGED <<phase, pc, queued, client, hit>> PROVE Lasts
    BY <1>0, <1>4
<1>5. ASSUME \/ \E t \in Tasks, a \in Agents : RequestFails(t, a)
             \/ (\E a \in Agents : Provision(a) \/ Hang(a)) \/ UNCHANGED deliveryVars
      PROVE  Lasts
    BY <1>4, <1>5 DEF RequestFails, Provision, Hang, deliveryVars, api, manager, env
<1> QED BY <1>1, <1>2, <1>3, <1>5 DEF DeliveryNext

\* The Task controller, its clients and the agents keep their types, and what
\* stands for a Task that is through or remembered (Reconcile, processEntities).
THEOREM DeliveryInvariance == DeliverySpec => []DeliveryIInv
<1>1. DeliveryIInv /\ [DeliveryNext]_deliveryVars => DeliveryIInv'
    BY DeliveryTypeStep, ReachedStep, EarnedStep, RememberedStep DEF DeliveryIInv
<1> QED BY DeliveryInitHolds, <1>1, PTL DEF DeliverySpec

\* The variables of the Task controller, of its clients and of the agents keep
\* their types, and a request is open only in a pass that sends (processEntities).
THEOREM DeliveryTypesHold == DeliverySpec => []DeliveryTypeOK
<1>1. DeliveryIInv => DeliveryTypeOK
    BY DEF DeliveryIInv
<1> QED BY DeliveryInvariance, <1>1, PTL

\* Whatever restarts and failures come in between, "Task Completed!" on the command
\* line means that every agent has the payload or that the request to it failed.
THEOREM CompletedMeansServed == DeliverySpec => []CompletedIsServed
<1>1. DeliveryIInv => CompletedIsServed
    BY DEF DeliveryIInv, Earned, Through, CompletedIsServed
<1> QED BY DeliveryInvariance, <1>1, PTL

\* No Task that a client was told of is forgotten by the manager: it is served, in
\* a pass, requested, or failed visibly or by a status write.
THEOREM NoTaskForgotten == DeliverySpec => []NoneForgotten
<1>1. DeliveryIInv => NoneForgotten
    BY DEF DeliveryIInv, Remembered, Pending, NoneForgotten
<1> QED BY DeliveryInvariance, <1>1, PTL
=============================================================================
