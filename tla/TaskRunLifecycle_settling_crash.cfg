CONSTANTS
    Runs = {r1}
    MaxAttempts = 2
    MaxContinuations = 1
    MaxCrashRecoveries = 1
    MaxGenerations = 2
SPECIFICATION Spec
INVARIANT StartupInterruptPossible
CHECK_DEADLOCK FALSE
