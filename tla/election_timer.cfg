SPECIFICATION FairSpec
CONSTANTS
    Timers = {t1, t2}
    Calls = {c1}
    Peers = 2
    Patience = 1
    MaxTerm = 2
    MaxReceived = 1
    MaxChanges = 1
CHECK_DEADLOCK FALSE
INVARIANTS
    TimerAlive
PROPERTIES
    StandsAgain
