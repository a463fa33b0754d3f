----------------------------- MODULE AgentImages ----------------------------
(***************************************************************************)
(* The images of an agent (cmd/agent/main.go): handleImage stores what a   *)
(* client uploads under the name the client gives it, in a directory that  *)
(* outlives the agent's process, and handleStatus counts the files there.  *)
(* Each upload runs in a goroutine of its own, without a lock; io.Copy     *)
(* writes in chunks, at an offset that belongs to the upload and not to    *)
(* the file, so that one that is truncated in the meantime gets a hole.    *)
(***************************************************************************)
EXTENDS FiniteSets, Naturals, Sequences

CONSTANTS
    Uploads,    \* POST /image requests
    Name,       \* [Uploads -> Names]: header.Filename
    Size,       \* [Uploads -> Nat \ {0}]: its chunks
    Nobody,     \* what a hole holds
    MaxFaults   \* bound: of crashes and failures together

ASSUME ImagesAssumption ==
    /\ Size \in [Uploads -> Nat \ {0}] /\ DOMAIN Name = Uploads
    /\ Nobody \notin Uploads /\ MaxFaults \in Nat

Names == {Name[u] : u \in Uploads}

VARIABLES
    files,  \* the names that have a file
    disk,   \* [Names -> Seq(Uploads \cup {Nobody})]: whose chunk is where
    up,     \* [Uploads -> {"sent", "open", "ok", "lost", "refused", "failed"}]
    off,    \* [Uploads -> Nat]: chunks it has written
    alone,  \* uploads that no other upload to their name was, or has come, between
    faults

imagesVars == <<files, disk, up, off, alone, faults>>

ImagesInit ==
    /\ files = {} /\ disk = [n \in Names |-> <<>>]
    /\ up = [u \in Uploads |-> "sent"] /\ off = [u \in Uploads |-> 0]
    /\ alone = {} /\ faults = 0

Others(u) == {v \in Uploads \ {u} : Name[v] = Name[u]}
Ends(u, how) == up' = [up EXCEPT ![u] = how]

\* Mutant of Refuse: the file is created before the form is looked at.
RefuseLate(u) ==
    /\ up[u] = "sent"
    /\ Ends(u, "refused") /\ files' = files \cup {Name[u]}
    /\ UNCHANGED <<disk, off, alone, faults>>

\* The certificate is not the right one, or the form has no image.
Refuse(u) ==
    /\ up[u] = "sent"
    /\ Ends(u, "refused")
    /\ UNCHANGED <<files, disk, off, alone, faults>>

\* Mutant of Create: the file that is there is not truncated.
CreateOver(u) ==
    /\ up[u] = "sent"
    /\ Ends(u, "open") /\ files' = files \cup {Name[u]}
    /\ alone' = IF \E v \in Others(u) : up[v] = "open" THEN alone \ Others(u)
                ELSE (alone \ Others(u)) \cup {u}
    /\ UNCHANGED <<disk, off, faults>>

\* os.Create makes the file, or empties the one that is there.
Create(u) ==
    /\ up[u] = "sent"
    /\ Ends(u, "open") /\ files' = files \cup {Name[u]}
    /\ disk' = [disk EXCEPT ![Name[u]] = <<>>]
    /\ alone' = IF \E v \in Others(u) : up[v] = "open" THEN alone \ Others(u)
                ELSE (alone \ Others(u)) \cup {u}
    /\ UNCHANGED <<off, faults>>

Put(s, k, u) ==
    [i \in 1..(IF Len(s) < k THEN k ELSE Len(s)) |->
        IF i = k THEN u ELSE IF i <= Len(s) THEN s[i] ELSE Nobody]

\* io.Copy writes the next chunk.
Write(u) ==
    /\ up[u] = "open" /\ off[u] < Size[u]
    /\ disk' = [disk EXCEPT ![Name[u]] = Put(@, off[u] + 1, u)]
    /\ off' = [off EXCEPT ![u] = @ + 1]
    /\ UNCHANGED <<files, up, alone, faults>>

\* Answer 200, which may get lost.
Answer(u) ==
    /\ up[u] = "open" /\ off[u] = Size[u]
    /\ Ends(u, "ok") \/ Ends(u, "lost")
    /\ UNCHANGED <<files, disk, off, alone, faults>>

\* The client breaks off or the disk is full: 500, and the file stays as it is.
UploadFails(u) ==
    /\ up[u] \in {"sent", "open"} /\ faults < MaxFaults
    /\ faults' = faults + 1 /\ Ends(u, "failed")
    /\ UNCHANGED <<files, disk, off, alone>>

\* The process crashes; its volume remains.
ImagesCrash ==
    /\ faults < MaxFaults /\ faults' = faults + 1
    /\ up' = [u \in Uploads |-> IF up[u] = "open" THEN "failed" ELSE up[u]]
    /\ UNCHANGED <<files, disk, off, alone>>

HandleImage(u) == Refuse(u) \/ Create(u) \/ Write(u) \/ Answer(u)

ImagesNext == ImagesCrash \/ \E u \in Uploads : HandleImage(u) \/ UploadFails(u)

ImagesSpec == ImagesInit /\ [][ImagesNext]_imagesVars
-----------------------------------------------------------------------------
Content(u) == [i \in 1..Size[u] |-> u]
Quiet == \A u \in Uploads : up[u] # "open"

\* handleStatus.
ImageCount == Cardinality(files)

\* Types, and that only a name with a file has content or an open upload.
ImagesTypeOK ==
    /\ files \subseteq Names /\ \A n \in Names \ files : disk[n] = <<>>
    /\ disk \in [Names -> Seq(Uploads \cup {Nobody})]
    /\ up \in [Uploads -> {"sent", "open", "ok", "lost", "refused", "failed"}]
    /\ \A u \in Uploads : up[u] = "open" => Name[u] \in files
    /\ off \in [Uploads -> Nat] /\ \A u \in Uploads : off[u] <= Size[u]
    /\ alone \subseteq Uploads /\ faults \in 0..MaxFaults

\* An image that was answered with 200 is in its file, whole and nothing else,
\* whatever was there before, whoever failed and if the agent crashed since, as
\* long as no other upload to its name came in between.
UploadedIsWhole ==
    \A u \in alone : up[u] = "ok" => disk[Name[u]] = Content(u)

\* Without a crash or a failure the status counts the names that were uploaded.
CountIsExact ==
    Quiet /\ faults = 0 => ImageCount = Cardinality({Name[u] : u \in {v \in Uploads : up[v] \in {"ok", "lost"}}})

\* "Copy file contents": a file holds what one client sent.  (TLC refutes it: two
\* uploads to one name write into one file.)
FilesAreWhole ==
    Quiet /\ faults = 0 => \A n \in files : \E u \in Uploads : disk[n] = Content(u)
=============================================================================
