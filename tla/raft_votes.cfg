SPECIFICATION Spec
CONSTANTS
    Server = {s1, s2, s3, s4, s5}
    Value = {v}
    MaxUint64 = 9
    Calls = {}
    Stoppable = {s1, s2, s3, s4, s5}
    MaxTerm = 1
    MaxElections = 1
    MaxLog = 0
SYMMETRY Symmetry
CHECK_DEADLOCK FALSE
INVARIANTS
    LeaderWonElection
