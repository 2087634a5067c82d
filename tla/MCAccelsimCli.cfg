SPECIFICATION Spec
CONSTANTS
    Workloads <- MCWorkloads
    MissingSets <- MCMissing
    Malformed = {"malformed"}
    Stamps = {1, 2}
    MaxInvocations = 2
    MaxFaults = 1
INVARIANTS
    BadInputWritesNothing
    ReportsAreWhole
CHECK_DEADLOCK FALSE
