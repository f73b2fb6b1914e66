SPECIFICATION ElectedSpec
CONSTANTS
    First = s1
    Server = {s1, s2, s3}
    Value = {v, w}
    MaxUint64 = 9
    Calls = {c1}
    Stoppable = {}
    MaxTerm = 1
    MaxElections = 1
    MaxLog = 2
SYMMETRY Symmetry
CHECK_DEADLOCK FALSE
INVARIANTS
    StateMachineSafety
PROPERTIES
    CommitNeedsMajority
