\* Two Attempts and three lives of the process: a crash or a shutdown in each.
CONSTANTS
    Runs = {r1}
    MaxAttempts = 2
    MaxContinuations = 1
    MaxCrashRecoveries = 1
    MaxGenerations = 3
SPECIFICATION FairSpec
INVARIANTS RunningIffActive DeliveryAuthorized NoOrphanedRun
PROPERTIES OldAttemptsFrozen TerminalIsFinal RunEventuallyRests ContinuationEventuallyStarts
CHECK_DEADLOCK FALSE
