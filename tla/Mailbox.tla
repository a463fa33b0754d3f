------------------------------- MODULE Mailbox ------------------------------
(***************************************************************************)
(* What the clients of an agent (cmd/agent/main.go) rely on: a box of      *)
(* messages.  A message is put at its end; a taker gets all that is in it, *)
(* in that order, and leaves it empty, so that no other taker gets the     *)
(* same.  A crash empties it.  AgentQueue, with its handlers and its lock, *)
(* implements this.                                                        *)
(***************************************************************************)
EXTENDS Sequences

CONSTANTS Messages, Takers

VARIABLES
    box,    \* the messages in the box
    given   \* [Takers -> Seq(Messages)]: what each taker got

boxVars == <<box, given>>

BoxInit == box = <<>> /\ given = [t \in Takers |-> <<>>]

Put(m) == box' = Append(box, m) /\ UNCHANGED given

Take(t) ==
    /\ given[t] = <<>>
    /\ given' = [given EXCEPT ![t] = box]
    /\ box' = <<>>

Lose == box' = <<>> /\ UNCHANGED given

BoxNext == Lose \/ (\E m \in Messages : Put(m)) \/ (\E t \in Takers : Take(t))

BoxSpec == BoxInit /\ [][BoxNext]_boxVars
=============================================================================
