\* A stream is cancelled while it opens its file.
SPECIFICATION Spec
CONSTANTS
  s1 = s1  s2 = s2  w1 = w1
  Streams = {s1}
  Writes = {w1}
  MaxFiles = 1
  Chunks = 2
CHECK_DEADLOCK FALSE
INVARIANT
  StreamsClose
