SPECIFICATION FairSpec
CONSTANTS
    Key = {k1, k2}
    MaxUint64 = 9
    ReadyCap = 2
    ChanCap = 1
    PageLimit = 2
    MaxSubmits = 3
CHECK_DEADLOCK FALSE
INVARIANTS
    TypeOK
    IndexFollowsValue
    ReadIsFresh
    NoLostSignal
    PageShowsCommitted
    StuckOnlyWhenFull
PROPERTIES
    ImplementsStore
    CommitsAreStored
