CONSTANTS
    k1 = k1
    k2 = k2
    w1 = w1
    w2 = w2
    h1 = h1
    h2 = h2
    Keys <- MCKeys
    Workers <- MCWorkers
    HealthTicks <- MCHealthTicks
    QueueCapacity = 1
    SnapshotCapacity = 1
SPECIFICATION Spec
INVARIANT
    OnboardedWhenElected
