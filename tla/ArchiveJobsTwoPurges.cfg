\* Two purges of one job wait for its task.
SPECIFICATION Spec
CONSTANTS
  j1 = j1  j2 = j2  j3 = j3
  alice = alice  disk1 = disk1
  Jobs = {j1, j2}
  Owners = {alice}
  Devices = {disk1}
  Owner <- OneOwner
  Device <- OneDevice
  Disk <- SmallDisk
  PartLimit <- SplitAtTwo
  Chunks = 1
  ChunkUnits = 3
  Overhead = 2
  MaxUnpurged = 2
  MaxPurges = 2
  MaxStarts = 1
CHECK_DEADLOCK FALSE
INVARIANT
  PurgedIsEmpty
