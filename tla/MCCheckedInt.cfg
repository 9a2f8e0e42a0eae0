\* int64 is four bits wide and int32 two.
CONSTANTS
    MAX = 7
    NarrowMax = 1
SPECIFICATION Spec
INVARIANT OneOverflowEscapes
INVARIANT UncaughtIsExact
