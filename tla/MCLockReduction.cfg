SPECIFICATION Spec
CONSTANTS
    w1 = w1
    w2 = w2
    Workers = {w1, w2}
    Configs <- BatchedConfigs
    Spurious = FALSE
INVARIANTS
    BatchingReducesLocks
