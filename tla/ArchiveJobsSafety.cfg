\* Two jobs on one filesystem that cannot hold both, two crashes or restarts.
SPECIFICATION Spec
CONSTANTS
  j1 = j1  j2 = j2  j3 = j3
  alice = alice  disk1 = disk1
  Jobs = {j1, j2}
  Owners = {alice}
  Devices = {disk1}
  Owner <- OneOwner
  Device <- OneDevice
  Disk <- SmallDisk
  PartLimit <- SplitAtThree
  Chunks = 2
  ChunkUnits = 2
  Overhead = 1
  MaxUnpurged = 2
  MaxPurges = 1
  MaxStarts = 2
CHECK_DEADLOCK FALSE
INVARIANTS
  PackingIffLive
  ReservedWhileLive
  NoOvercommit
  ServedIsFinal
  ReadyIsWhole
