SPECIFICATION Spec
CONSTANTS
    Server = {s1, s2, s3}
    Command = {c1}
    NoVote = NoVote
    MaxTerm = 3
    MaxLogIndex = 1
    MaxRound = 2
    MaxSnapshotIndex = 0
    MaxInFlight = 5
    MaxRounds = 2
SYMMETRY Symmetry
CONSTRAINTS
    ElectionsInFull
    BoundedRounds
INVARIANTS
    ElectionSafety
    NeverExits
CHECK_DEADLOCK FALSE
