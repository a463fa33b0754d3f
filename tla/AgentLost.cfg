SPECIFICATION Spec
CONSTANTS
    Posts <- MCPosts
    Payload <- MCPayload
    Syncs <- MCSyncs
    MaxCrashes = 0
INVARIANTS AcceptedIsReceived
CHECK_DEADLOCK FALSE
