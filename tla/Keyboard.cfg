SPECIFICATION Spec
CONSTANTS
    Procs = {p1, p2}
    NULL = NULL
    BUFLEN = 2
    ReadSizes = {1, 2}
    MaxWire = 3
    MaxKeys = 5
INVARIANTS
    TypeOK
    NobodySleepsOnInput
    KeysInOrder
    NoStuckModifier
    MeaningKept
CHECK_DEADLOCK FALSE
