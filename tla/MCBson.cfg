\* INT32_MAX is 23 bytes, so that every size check can fail.
CONSTANTS
    MaxInt = 23
    Slack = 3
    Keys <- MCKeys
    Values <- MCValues
    Reserves = {0, 12}
    Surplus = {0, 2}
    Other <- MCOther
    MaxDepth = 3
SPECIFICATION Spec
INVARIANT ReadsBack
INVARIANT ReturnsPosition
INVARIANT MutatorsPointHome
PROPERTY RelabelsEveryElement
CHECK_DEADLOCK FALSE
