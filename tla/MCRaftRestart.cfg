SPECIFICATION RestartSpec
CONSTANTS
    Server = {s1, s2, s3}
    Command = {c1, c2}
    NoVote = NoVote
    MaxTerm = 1
    MaxLogIndex = 1
    MaxRound = 1
    MaxSnapshotIndex = 0
    MaxInFlight = 3
    MaxRounds = 2
SYMMETRY Symmetry
CONSTRAINTS
    BoundedInFlight
    BoundedRounds
INVARIANTS
    NeverExits
CHECK_DEADLOCK FALSE
