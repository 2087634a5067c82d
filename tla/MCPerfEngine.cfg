SPECIFICATION MCSpec
CONSTANTS
    Workers = {w1, w2, w3}
    Configs <- MCConfigs
    Spurious = TRUE
INVARIANTS
    TypeOK
    ExactlyOnce
    NoLostWakeup
    SameAsSingleThreaded
    LockAccounting
PROPERTIES
    Terminates
CHECK_DEADLOCK FALSE
