SPECIFICATION Spec
CONSTANTS
    Server = {0, 1}
    Leader = 0
    MaxIndex = 3
    MaxRequests = 2
INVARIANTS
    RunningServersHaveAll
CHECK_DEADLOCK FALSE
