SPECIFICATION FairSpec
CONSTANTS
    Scripts <- MCScripts
    Limit = 2
    Window = 1
    Disturbances = 1
CHECK_DEADLOCK FALSE
INVARIANT StreamIsGapless
INVARIANT AckedWasHandled
PROPERTY RunEventuallyCurrent
