SPECIFICATION BenchSpec
CONSTANTS
    w1 = w1
    w2 = w2
    w3 = w3
    Workers = {w1, w2}
    Threads <- TwoAndMain
    task_count = 3
    Item <- Three
    NoItem = NoItem
    Capacity = 2
    Faults = TRUE
    Spurious = TRUE
CHECK_DEADLOCK FALSE
INVARIANTS
    TasksConserved
    LatenciesFit
    LossIsVisible
    HangsAreExplained
