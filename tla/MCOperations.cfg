\* Every source, up to two stages, with userdata in and outside the box.
CONSTANTS
    Sources <- EveryEmitter
    Stages <- EveryStage
    MaxStages = 2
    NULL = NULL
SPECIFICATION FairSpec
CHECK_DEADLOCK FALSE
INVARIANTS
    NoUseAfterFree
    CompletesWithMeaning
    ConnectedIsReleased
    LeaksAreThese
PROPERTY StartedCompletes
