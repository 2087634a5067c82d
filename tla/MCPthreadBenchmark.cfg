SPECIFICATION FairBenchSpec
CONSTANTS
    w1 = w1
    w2 = w2
    w3 = w3
    Workers = {w1, w2, w3}
    Threads <- ThreeAndMain
    task_count = 3
    Item <- Three
    NoItem = NoItem
    Capacity = 2
    Faults = FALSE
    Spurious = FALSE
PROPERTIES
    Terminates
