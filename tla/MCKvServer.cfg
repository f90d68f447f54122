SPECIFICATION Spec
CONSTANTS
    N = 2
    Clerk = {c1, c2}
    ClientId = {c1, c2}
    IdOf <- OwnIds
    Operation = {"Put", "Get"}
    Nothing = Nothing
    MaxRequest = 2
    MaxCalls = 2
    MaxLogIndex = 4
    MaxElections = 2
    MaxFailures = 1
SYMMETRY Symmetry
CONSTRAINTS
    Situations
INVARIANTS
    AppliedOnce
    OkMeansApplied
    ReplicasAgree
    ReadYourWrites
CHECK_DEADLOCK FALSE
