\* Two operations of two requests, two tries per request, messages that own
\* their document; no symmetry, since liveness is checked as well.
CONSTANTS
    Tasks = {t1, t2}
    MaxConns = 3
    MaxReqs = 2
    NTries = 2
    Owning = TRUE
    NULL = NULL
SPECIFICATION FairSpec
CHECK_DEADLOCK FALSE
INVARIANTS
    OneOwner
    IdleClean
    OwnAnswer
    ServedAtMostNTries
    OnlyFirstTryIsWhole
PROPERTY RequestsEnd
