SPECIFICATION FairSpec
CONSTANTS
    s = s
    f = f
    Controls <- MCControls
    FollowUps <- MCFollowUps
    Windows <- MCWindows
    Scenarios <- MCScenarios
    Budget = 2
    Capacity = 2
CHECK_DEADLOCK FALSE
INVARIANTS OutcomeIsTrue SettlesEmpty
PROPERTIES AbortSettles
