\* Two connections, a discovery and two requests compete for one session and two threads.
SPECIFICATION Spec
CONSTANTS
  c1 = c1  c2 = c2  d1 = d1  r1 = r1  r2 = r2  r3 = r3
  None = None
  Connects = {c1, c2}
  Discoveries = {d1}
  Requests = {r1, r2}
  MaxSessions = 1
  PoolSize = 2
SYMMETRY Interchangeable
CHECK_DEADLOCK FALSE
INVARIANTS
  SessionLimit
  NoOrphan
  ClosedIsQuiet
  TimesOutOnce
CONSTRAINT Crowd
