\* A clean directory: one process may crash while it creates its lock, one starts after.
CONSTANTS
  Proc = {p1, p2}
  None = None
  MaxFence = 2
  Holder = None
  Recoverer = None
SPECIFICATION FairSpec
PROPERTIES CrashNeverPreventsStartup
