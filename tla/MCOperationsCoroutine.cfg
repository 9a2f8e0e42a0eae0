\* A let continuation that returns a coroutine, around a timer.
CONSTANTS
    Sources <- EveryEmitter
    Stages <- CoroutineStages
    MaxStages = 1
    NULL = NULL
SPECIFICATION Spec
CHECK_DEADLOCK FALSE
INVARIANT NoUseAfterFree
