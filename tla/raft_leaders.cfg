SPECIFICATION Spec
CONSTANTS
    Server = {s1, s2}
    Value = {v}
    MaxUint64 = 9
    Calls = {c1}
    Stoppable = {}
    MaxTerm = 2
    MaxElections = 2
    MaxLog = 2
SYMMETRY Symmetry
CHECK_DEADLOCK FALSE
INVARIANTS
    LogMatching
    NextIndexInLog
    OneCandidateSafe
PROPERTIES
    ImplementsLog
