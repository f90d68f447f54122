SPECIFICATION Spec
CONSTANTS
    Server = {s1, s2, s3}
    Command = {c1, c2}
    NoVote = NoVote
    MaxTerm = 2
    MaxLogIndex = 1
    MaxRound = 2
    MaxSnapshotIndex = 0
    MaxInFlight = 3
    MaxRounds = 2
SYMMETRY Symmetry
CONSTRAINTS
    BoundedInFlight
    BoundedRounds
    UncontestedElections
INVARIANTS
    SameIndexSameTermSameCommand
    CommitBackedByMajority
PROPERTIES
    LeaderUndisturbed
    IndexesNeverGoBack
CHECK_DEADLOCK FALSE
