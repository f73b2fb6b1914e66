SPECIFICATION Spec
CONSTANTS
    Server = {s1, s2}
    Value = {v, w}
    MaxUint64 = 9
    Calls = {c1, c2}
    Stoppable = {}
    MaxTerm = 1
    MaxElections = 1
    MaxLog = 2
SYMMETRY Symmetry
CHECK_DEADLOCK FALSE
INVARIANTS
    TypeOK
    AckedIsStored
    OverrunOnlyFirst
PROPERTIES
    LogOnlyGrows
