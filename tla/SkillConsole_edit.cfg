SPECIFICATION Spec
CONSTANTS
    Workspaces = {w1, w2}
    Keys = {k1, k2, k3}
    k1 = k1
    k2 = k2
    k3 = k3
    o1 = o1
    o2 = o2
    OpKeys = {o1, o2}
    MaxHandlers = 2
    Uploads <- MCUploads
    Edits <- MCEdits
    Seed <- MCSeed
    Scenarios <- MCScenarios
    MaxFiles = 2
    MaxFileSize = 1
    MaxExpanded = 2
    MaxEnters = 1
    None = None
CHECK_DEADLOCK FALSE
PROPERTY EditTakesEffect
