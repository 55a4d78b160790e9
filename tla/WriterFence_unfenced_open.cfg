\* Two crashes before: one with lock and lease, one while it recovered them.
CONSTANTS
  Proc = {p1, p2, p3, p4}
  None = None
  MaxFence = 3
  Holder = p1
  Recoverer = p2
SPECIFICATION Spec
INVARIANTS OnlyTheFencedMutates
