CONSTANTS
    reader = reader
    writer = writer
    Slots = {reader, writer}
    Menu <- MCMenu
    Ids = {1, 2}
    CursorIds = {7}
    DefaultBatch = 2
SPECIFICATION Spec
INVARIANT ReportsTheEffect
INVARIANT ShapeDecides
INVARIANT ReadsInFull
CHECK_DEADLOCK FALSE
