SPECIFICATION Spec
CONSTANTS
    c1 = c1
    c2 = c2
    c3 = c3
    Calls = {c1, c2, c3}
    Scripts <- MCScripts
    MaxAttempts = 2
    MaxFaults = 2
    SameArgsLimit = 3
    SameFailureLimit = 2
    ToolFailureLimit = 3
SYMMETRY Symmetry
INVARIANTS TrustedCheckIsCurrent NoBlindRepeat
PROPERTY EffectsAreLedgered
CHECK_DEADLOCK FALSE
