SPECIFICATION Spec
CONSTANTS
    Server = {s1, s2, s3}
    Command = {c1}
    NoVote = NoVote
    MaxTerm = 1
    MaxLogIndex = 1
    MaxRound = 2
    MaxSnapshotIndex = 1
    MaxInFlight = 3
    MaxRounds = 2
SYMMETRY Symmetry
CONSTRAINTS
    BoundedInFlight
    BoundedRounds
    UncontestedElections
INVARIANTS
    NeverExits
CHECK_DEADLOCK FALSE
