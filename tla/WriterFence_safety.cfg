\* A crashed holder of lock and lease, a crashed recoverer, two processes that start after.
CONSTANTS
  Proc = {p1, p2, p3, p4}
  None = None
  MaxFence = 3
  Holder = p1
  Recoverer = p2
SPECIFICATION Spec
INVARIANTS ReadyIsCurrent NoOverlappingWriters
