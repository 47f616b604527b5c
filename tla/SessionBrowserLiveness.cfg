\* A connection and a discovery whose threads wait behind a worker that may hang.
SPECIFICATION Spec
CONSTANTS
  c1 = c1  c2 = c2  d1 = d1  r1 = r1  r2 = r2  r3 = r3
  None = None
  Connects = {c1}
  Discoveries = {d1}
  Requests = {r1}
  MaxSessions = 1
  PoolSize = 1
CHECK_DEADLOCK FALSE
PROPERTIES
  TasksEnd
  DeadAreReaped
  ShutdownEnds
