SPECIFICATION Spec
CONSTANTS
    Posts <- MCPosts
    Payload <- MCPayload
    Syncs <- MCSyncs
    MaxCrashes = 1
INVARIANTS HandedOnce AcceptedIsKept
PROPERTIES ImplementsMailbox
CHECK_DEADLOCK FALSE
