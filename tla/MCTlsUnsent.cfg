\* The socket's send buffer is full: a write is accepted in part.
CONSTANTS
    MaxOps = 3
    MaxSize = 2
    PartialWrites = TRUE
    StaleErrno = FALSE
    ReadSize = 3
    BioSize = 4
    NULL = NULL
SPECIFICATION Spec
CHECK_DEADLOCK FALSE
INVARIANT NothingToTransmit
