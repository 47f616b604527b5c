\* One unpurged job allowed; two are submitted at once.
SPECIFICATION Spec
CONSTANTS
  j1 = j1  j2 = j2  j3 = j3
  alice = alice  disk1 = disk1
  Jobs = {j1, j2}
  Owners = {alice}
  Devices = {disk1}
  Owner <- OneOwner
  Device <- OneDevice
  Disk <- LargeDisk
  PartLimit <- SplitAtTwo
  Chunks = 1
  ChunkUnits = 3
  Overhead = 2
  MaxUnpurged = 1
  MaxPurges = 1
  MaxStarts = 1
CHECK_DEADLOCK FALSE
INVARIANT
  UnpurgedLimit
