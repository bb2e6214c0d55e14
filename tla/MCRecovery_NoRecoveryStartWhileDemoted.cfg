CONSTANTS
    r1 = r1
    r2 = r2
    r3 = r3
    RecoveryTicks <- MCRecoveryTicks
    WaitPeriod = 2
    MaxTime = 3
SPECIFICATION Spec
PROPERTY
    NoRecoveryStartWhileDemoted
