---------------------------- MODULE MCAgentImages ---------------------------
\* Three uploads to one name, of different sizes, and one to another.
EXTENDS AgentImages, TLC

CONSTANTS u1, u2, u3, u4

MCName == u1 :> "front" @@ u2 :> "front" @@ u3 :> "front" @@ u4 :> "rear"
MCSize == u1 :> 2 @@ u2 :> 3 @@ u3 :> 1 @@ u4 :> 1
=============================================================================
