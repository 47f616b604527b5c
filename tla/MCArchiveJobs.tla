---------------------------- MODULE MCArchiveJobs ----------------------------
(* Instances of ArchiveJobs for TLC: a job split into parts and one or two
   packed as a single ZIP, whose stores share a filesystem. *)
EXTENDS ArchiveJobs

CONSTANTS j1, j2, j3, alice, disk1

OneOwner   == [j \in Jobs |-> alice]
OneDevice  == [j \in Jobs |-> disk1]
\* Room for one archive and most of a second.
SmallDisk  == [d \in Devices |-> 2 * Needed - 1]
LargeDisk  == [d \in Devices |-> 8 * Needed]
\* A write of 3 units crosses the end of a part of 2, one of 2 units that of a part of 3.
SplitAtTwo   == [j \in Jobs |-> IF j = j1 THEN 2 ELSE 0]
SplitAtThree == [j \in Jobs |-> IF j = j1 THEN 3 ELSE 0]
=============================================================================
