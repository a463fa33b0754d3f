----------------------------- MODULE MCDelivery -----------------------------
\* Two Tasks of the command line and one that an agent's client asks for.
EXTENDS Delivery, TLC

CONSTANTS c1, c2, s1, a, b, cli

MCSender == c1 :> cli @@ c2 :> cli @@ s1 :> a
MCTarget == c1 :> {a} @@ c2 :> {a, b} @@ s1 :> {b}
=============================================================================
