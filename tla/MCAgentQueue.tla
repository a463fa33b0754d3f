----------------------------- MODULE MCAgentQueue ---------------------------
EXTENDS AgentQueue

\* Two posts of one Task, one from the CLI with a quoted payload, and one whose
\* body is no message, against two clients.
MCPosts == {"first", "again", "quoted", "bad"}
MCPayload == [p \in MCPosts |->
    IF p = "quoted" THEN "string" ELSE IF p = "bad" THEN "other" ELSE "object"]
MCSyncs == {"robot", "operator"}
=============================================================================
