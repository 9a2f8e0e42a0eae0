\* Two threads and two callbacks; no symmetry, since liveness is checked as well.
CONSTANTS
    Threads = {t1, t2}
    Callbacks = {c1, c2}
    NULL = NULL
    HEAD = HEAD
SPECIFICATION FairSpec
CHECK_DEADLOCK FALSE
INVARIANTS
    ListPointers
    ExecutedAtMostOnce
    NoUseAfterDestroy
    DestructorWaits
    FlagNotDangling
    StopReachesEveryCallback
PROPERTIES
    CallsReturn
    KeepsPromise
