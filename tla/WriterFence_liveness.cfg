\* A crashed holder of lock and lease, and two processes that start after it.
CONSTANTS
  Proc = {p1, p2, p3}
  None = None
  MaxFence = 3
  Holder = p1
  Recoverer = None
SPECIFICATION FairSpec
PROPERTIES Takeover LostAuthorityCloses
