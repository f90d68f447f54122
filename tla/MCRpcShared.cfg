SPECIFICATION Spec
CONSTANTS
    c1 = c1
    c2 = c2
    Caller = {c1, c2}
    None = None
    Channel = {1, 2}
    RecvSize = 8
    MaxCalls = 3
    MaxConn = 4
    MaxCloses = 2
    Replies <- MCReplies
    Setups <- Shared
INVARIANTS
    OwnAnswer
CHECK_DEADLOCK FALSE
