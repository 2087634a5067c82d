SPECIFICATION Spec
CONSTANTS
    Files <- MCFiles
    Blank = Blank
    Header = Header
    BadText = BadText
    NoText = NoText
    OtherZero = OtherZero
    U32 = 4
INVARIANTS
    LoaderTypeOK
    LoadedIsClosed
    LoadedAsWritten
CHECK_DEADLOCK FALSE
