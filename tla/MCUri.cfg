CONSTANTS
    Listeners = {l1, l2, l3}
    NULL = null
    Urls <- MCUrls
    Numbers <- MCNumbers
    Mixed = {m1}
    Lead <- MCLead
    Bad = bad
    MaxParams = 2
    MinHeartbeat = 1
    MaxLevel = 9
SYMMETRY Symmetric
SPECIFICATION Spec
INVARIANT HeardInOrder
INVARIANT QueryIsReadExactly
CHECK_DEADLOCK FALSE
