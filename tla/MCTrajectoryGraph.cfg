SPECIFICATION Spec
CONSTANTS
    Files <- MCFiles
    Blank = Blank
    Header = Header
    BadText = BadText
    NoNext = NoNext
INVARIANTS
    ComponentsAreClasses
    SummaryMatchesFile
CHECK_DEADLOCK FALSE
