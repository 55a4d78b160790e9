\* A clean directory and one process that starts in it.
CONSTANTS
  Proc = {p1}
  None = None
  MaxFence = 2
  Holder = None
  Recoverer = None
SPECIFICATION FairSpec
PROPERTIES HostHeartbeatsAreFenced
