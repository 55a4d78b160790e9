\* Two requests and a failure or one and two, a crash of the Host.
SPECIFICATION FairHostSpec
CONSTANTS
    Releases = {r1, r2}
    FirstRelease = r1
    MaxRequests = 2
    MaxCrashes = 1
    MaxFaults = 2
    MaxEvents = 3
    MaxHostStarts = 2
CHECK_DEADLOCK FALSE
INVARIANT AtMostOneGeneration
INVARIANT IdleHostSupervises
INVARIANT OneAnswer
PROPERTY CloseLeavesNoChild
PROPERTY RequestEventuallyAnswered
PROPERTY StoppedHostEnds
