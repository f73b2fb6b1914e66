SPECIFICATION Spec
CONSTANTS
    Hash = {h1, h2}
    Address = {a, b}
    Worker = {w1, w2}
    NumPktBuffer = 1
    MaxPackets = 3
    MaxTables = 3
CHECK_DEADLOCK FALSE
INVARIANTS
    TypeOK
    TableIsFaithful
    TablesInOrder
    TokenBalance
    NoFlowDropped
    SignalIsHeard
PROPERTIES
    EveryFlowStored
    SignalExits
