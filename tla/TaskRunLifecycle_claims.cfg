CONSTANTS
    Runs = {r1}
    MaxAttempts = 3
    MaxContinuations = 2
    MaxCrashRecoveries = 1
    MaxGenerations = 2
SPECIFICATION Spec
INVARIANTS AmbiguityAwaitsHuman ApprovalStopsExecution CompletedAttemptIsFinal
CHECK_DEADLOCK FALSE
