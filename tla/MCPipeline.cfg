SPECIFICATION FairSpec
CONSTANTS
    Programs <- MCPrograms
    Configs <- MCConfigs
    MaxCycles = 18
INVARIANTS
    TypeOK
    EachInOnePlace
    ResourceAccounting
    DependencyOrder
    ExactLatency
    ProgramOrder
    CapacityRespected
    ReturnsComplete
    StatsMatchTrace
PROPERTIES
    NoBypass
    StagesInOrder
    Terminates
CHECK_DEADLOCK FALSE
