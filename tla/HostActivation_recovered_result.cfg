\* The answer a restarted Host derives from activation.json.
SPECIFICATION HostSpec
CONSTANTS
    Releases = {r1, r2}
    FirstRelease = r1
    MaxRequests = 1
    MaxCrashes = 1
    MaxFaults = 2
    MaxEvents = 4
    MaxHostStarts = 2
INVARIANT
    SucceededRunsTarget
CHECK_DEADLOCK FALSE
