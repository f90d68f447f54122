SPECIFICATION Spec
CONSTANTS
    Server = {s1, s2, s3}
    Command = {c1}
    NoVote = NoVote
    MaxTerm = 3
    MaxLogIndex = 3
    MaxRound = 2
    MaxSnapshotIndex = 0
    MaxInFlight = 2
    MaxRounds = 2
SYMMETRY Symmetry
CONSTRAINTS
    AlmostSequential
    BoundedRounds
    UncontestedElections
INVARIANTS
    LeaderCompleteness
CHECK_DEADLOCK FALSE
