SPECIFICATION Spec
CONSTANTS
    Files <- MCFiles
    Configs <- MCConfigs
    Blank = Blank
    Header = Header
    BadText = BadText
    SizeT = 64
INVARIANTS
    AllRowsCounted
    PercentilesSound
    SaturationRule
    RuntimeIsBusyTime
CHECK_DEADLOCK FALSE
