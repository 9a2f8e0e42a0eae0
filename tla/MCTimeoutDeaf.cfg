\* em is a read or write of the wire client, and its peer may stay silent.
CONSTANTS
    Calls = {r1, r2}
    EmKinds = {"deaf"}
    MayStop = FALSE
    Signals = {s1, s2, s3, s4}
    MaxSize = 1
    NULL = NULL
SPECIFICATION TimedSpec
CHECK_DEADLOCK FALSE
PROPERTY WinnerResolves
