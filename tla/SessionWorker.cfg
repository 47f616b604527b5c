\* A stream and an upload of two chunks share a worker that may hang, leave or crash.
SPECIFICATION Spec
CONSTANTS
  s1 = s1  s2 = s2  w1 = w1
  Streams = {s1}
  Writes = {w1}
  MaxFiles = 1
  Chunks = 2
CHECK_DEADLOCK FALSE
INVARIANTS
  PipeInStep
  PublishedIsWhole
  UploadsEnd
  StreamsEnd
  ClosedIsGone
PROPERTIES
  UploadSpec
  CallsEnd
  CloseEnds
