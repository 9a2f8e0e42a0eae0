\* A handshake and three exchanges, with partial writes and a stale errno.
CONSTANTS
    MaxOps = 7
    MaxSize = 2
    PartialWrites = TRUE
    StaleErrno = TRUE
    ReadSize = 3
    BioSize = 4
    NULL = NULL
SPECIFICATION FairSpec
CHECK_DEADLOCK FALSE
INVARIANTS
    CiphertextInOrder
    InputInOrder
    ReentersLiveOperation
    NeverTerminates
PROPERTY OpsComplete
