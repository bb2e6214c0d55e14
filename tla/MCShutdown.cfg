CONSTANTS
    SignalCapacity = 1
    MaxSignals = 3
    MaxLocks = 2
CHECK_DEADLOCK FALSE
SPECIFICATION FairSpec
INVARIANTS
    TypeOK
PROPERTY
    ShutdownTerminates
