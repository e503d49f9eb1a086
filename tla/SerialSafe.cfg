SPECIFICATION Spec
CONSTANTS
    BufSz = 4
    MaxBytes = 9
    Polite = TRUE
    Writers = {w1}
    QSize = 3
    Lwm = 1
    IndexRange = 9
    MaxWrites = 8
    SlowWire = TRUE
    Modes <- MCModes
    MaxOpens = 2
INVARIANTS
    Consistent
    NewestKept
    TxInOrder
PROPERTIES
    ReadsInOrder
    WriteReturns
