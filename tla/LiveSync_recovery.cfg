SPECIFICATION FairSpec
CONSTANTS
    Scripts <- MCScripts
    Limit = 2
    Window = 1
    Disturbances = 0
CHECK_DEADLOCK FALSE
PROPERTY ContentEventuallyCurrent
