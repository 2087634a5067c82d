SPECIFICATION MarkSpec
CONSTANTS
    Programs <- TwoPrograms
    Configs <- NarrowIssue
    MaxCycles = 40
INVARIANTS
    IdleCycleIsNamed
CHECK_DEADLOCK FALSE
