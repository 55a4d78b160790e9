SPECIFICATION Spec
CONSTANTS
    r1 = r1
    r2 = r2
    rel1 = rel1
    map1 = map1
    Requests = {r1, r2}
    Related = {rel1}
    Roadmap = {map1}
    Urgent = {r1}
    External = {r1}
    Callers = {c1, c2}
    None = None
    Scenarios <- MCScenarios
    AsyncContext = TRUE
    MaxAttempts <- MCMaxAttempts
    MaxCommands = 2
    MaxRestarts = 1
SYMMETRY Symmetry
INVARIANTS NoIdleBacklog ExternalAwaitsApproval
PROPERTIES StartsAlone SettledItemFrozen
CHECK_DEADLOCK FALSE
