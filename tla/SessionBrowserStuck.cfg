\* Two threads, three requests: one session hangs, the other has nothing to do with it.
SPECIFICATION Spec
CONSTANTS
  c1 = c1  c2 = c2  d1 = d1  r1 = r1  r2 = r2  r3 = r3
  None = None
  Connects = {c1, c2}
  Discoveries = {}
  Requests = {r1, r2, r3}
  MaxSessions = 2
  PoolSize = 2
CHECK_DEADLOCK FALSE
INVARIANT
  StuckBlocksNobody
