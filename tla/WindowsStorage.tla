--------------------------- MODULE WindowsStorage ---------------------------
(***************************************************************************)
(* The disk and volume APIs of Windows (pkg/os/disk and pkg/os/volume) as  *)
(* FormatAndMount of the mounters uses them. The content of a disk is      *)
(*   raw          no partition table                                       *)
(*   initialised  a partition table, and no partition for data             *)
(*   partitioned  a partition whose volume is not formatted                *)
(*   good         a formatted volume                                       *)
(*   offline      a formatted volume on a disk that Windows took offline,  *)
(*                as it does with the clone of a disk it has               *)
(***************************************************************************)

WindowsContents == {"raw", "initialised", "partitioned", "good", "offline"}

IsDiskInitialized(content) == content # "raw"
InitializeDisk(content) == "initialised"

(* Partitions are found on a disk that is offline, volumes are not.        *)
BasicPartitionsExist(content) == content \in {"partitioned", "good", "offline"}
CreateBasicPartition(content) == "partitioned"
ListVolumesOnDisk(content) == IF content \in {"partitioned", "good"} THEN <<content>> ELSE <<>>

SetDiskState(content) == IF content = "offline" THEN "good" ELSE content

(* PartitionDisk: what the next change makes of the disk.                  *)
PartitionDisk(content) ==
  IF ~IsDiskInitialized(content) THEN InitializeDisk(content)
  ELSE IF ~BasicPartitionsExist(content) THEN CreateBasicPartition(content)
  ELSE content

IsVolumeFormatted(volume) == volume = "good"

(* What comes next for a disk on which there is nothing left to partition: *)
(* the first of its volumes is mounted, and formatted if it is not.        *)
MountFirstVolume(content) ==
  LET volumes == ListVolumesOnDisk(content) IN
    IF volumes = <<>> THEN "fail" ELSE IF IsVolumeFormatted(volumes[1]) THEN "mount" ELSE "format"

(* A volume grows into what is unallocated behind it ("seen"), unless that *)
(* is less than 100 MB ("fits").                                           *)
ResizeVolume(room) == IF room = "seen" THEN "fits" ELSE room
=============================================================================
