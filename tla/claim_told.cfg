SPECIFICATION Spec
CONSTANTS
    Server = {s1, s2, s3}
    Call = {k1}
    MaxChanges = 2
CHECK_DEADLOCK FALSE
INVARIANT TrueMeansAccepted
