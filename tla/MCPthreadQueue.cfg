SPECIFICATION MCSpec
CONSTANTS
    t1 = t1
    t2 = t2
    t3 = t3
    i1 = i1
    i2 = i2
    Threads = {t1, t2, t3}
    Item = {i1, i2}
    NoItem = NoItem
    Capacity = 2
    Faults = TRUE
    Spurious = TRUE
    MaxCalls = 2
CHECK_DEADLOCK FALSE
INVARIANTS
    QueueTypeOK
    SignalsSuffice
PROPERTIES
    ImplementsFifo
