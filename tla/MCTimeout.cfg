\* Every kind of em, and a handler that may request a stop at any time.
CONSTANTS
    Calls = {r1, r2}
    EmKinds = {"waits", "deaf", "inline"}
    MayStop = TRUE
    Signals = {s1, s2, s3, s4}
    MaxSize = 1
    NULL = NULL
SPECIFICATION LoopSpec
CHECK_DEADLOCK FALSE
INVARIANTS
    QuiescentWhenAnswered
    CompletedOnce
    AnswerJustified
PROPERTIES
    StopResolves
    Resolves
