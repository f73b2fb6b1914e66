SPECIFICATION Spec
CONSTANTS
    PoolSize = 2
    Request = {r1}
    Client = {c}
    MaxHash = 2
    MaxRetry = 1
    MaxChanges = 2
CHECK_DEADLOCK FALSE
INVARIANTS
    TypeOK
    TriesBounded
    OutOnlyForCause
PROPERTIES
    RequestsEnd
    FlagsConverge
