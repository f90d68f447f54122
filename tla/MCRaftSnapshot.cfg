SPECIFICATION Spec
CONSTANTS
    Server = {s1, s2, s3}
    Command = {c1}
    NoVote = NoVote
    MaxTerm = 2
    MaxLogIndex = 2
    MaxRound = 3
    MaxSnapshotIndex = 2
    MaxInFlight = 3
    MaxRounds = 3
SYMMETRY Symmetry
CONSTRAINTS
    SnapshotsInFull
    BoundedRounds
    UncontestedElections
INVARIANTS
    TypeOK
    LogContiguous
    IndexOrder
    MatchedIsHeld
PROPERTIES
    IndexesNeverGoBack
CHECK_DEADLOCK FALSE
