CONSTANTS
    SignalCapacity = 1
    MaxSignals = 2
    MaxLocks = 2
CHECK_DEADLOCK FALSE
SPECIFICATION FairSpec
PROPERTY
    SigtermLeadsToExit
