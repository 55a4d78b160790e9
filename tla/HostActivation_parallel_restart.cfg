\* ACTIVATE may be handled before startRelease has resumed.
SPECIFICATION HostSpec
CONSTANTS
    Releases = {r1, r2}
    FirstRelease = r1
    MaxRequests = 1
    MaxCrashes = 1
    MaxFaults = 2
    MaxEvents = 4
    MaxHostStarts = 2
INVARIANT
    NoParallelRestart
CHECK_DEADLOCK FALSE
