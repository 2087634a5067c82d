SPECIFICATION DevicesSpec
CONSTANTS
    Item = {a, b}
    FW_RING_BUFFER_CAPACITY = 4
    DEPTH = 4
    half = 128
    one = 16
    Inputs <- MCInputs
    Alphas <- MCAlphas
INVARIANTS
    StaysInRange
PROPERTIES
    RingIsFifo
    RtlIsFifo
