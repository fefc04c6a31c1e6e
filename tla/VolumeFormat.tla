---------------------------- MODULE VolumeFormat ----------------------------
(***************************************************************************)
(* What the driver makes of the content of a disk before it mounts it:     *)
(* formatAndMount of azure_common_linux.go, and the disk and volume APIs   *)
(* of Windows. A content is                                                *)
(*   blank   no file system                                                *)
(*   torn    what a mkfs that was killed leaves: a signature, and errors   *)
(*           fsck does not correct                                         *)
(*   hidden  a file system whose first superblock is lost                  *)
(*   other   a file system of another type                                 *)
(*   good    a file system of the type asked for                           *)
(* and on Windows what WindowsStorage says.                                *)
(***************************************************************************)
EXTENDS WindowsStorage

LinuxContents == {"blank", "torn", "hidden", "other", "good"}
Contents == LinuxContents \cup WindowsContents

(* blkid. When it misses a file system it reports none.                    *)
GetDiskFormat(content, misses) ==
  IF misses \/ content \in {"blank", "hidden"} THEN "none"
  ELSE IF content = "other" THEN "other" ELSE "asked"

(* fsck -n: a file system, none ("superblock could not be read"), or one   *)
(* with errors it would have to correct, as where it goes by a copy of the *)
(* superblock.                                                             *)
detectOrRepairFilesystem(content, misses) ==
  IF content = "hidden" THEN "error"
  ELSE IF misses \/ content = "blank" THEN "none"
  ELSE IF content = "torn" THEN "error" ELSE "exists"

wipefs(content) == content \notin {"blank", "hidden"}

(* Where fsck finds none wipefs looks again. (The first definition is a    *)
(* mutant: it believes fsck.)                                              *)
detectByFsck(content, misses) == detectOrRepairFilesystem(content, misses)
detectFilesystemExistence(content, misses) ==
  LET checked == detectOrRepairFilesystem(content, misses) IN
    IF checked = "none" /\ wipefs(content) THEN "exists" ELSE checked

(* What comes next, when blkid and fsck miss what is there or not.         *)
formatAndMount(mode, content, blkidMisses, fsckMisses) ==
  LET format == GetDiskFormat(content, blkidMisses)
      checked == IF mode = "ro" THEN "mount" ELSE "repair"
      exists == detectFilesystemExistence(content, fsckMisses)
  IN CASE mode = "direct" -> "mount"
       [] mode # "direct" /\ format = "asked" -> checked
       [] mode # "direct" /\ format = "other" -> "fail"
       [] mode # "direct" /\ format = "none" ->
            IF exists = "none" THEN IF mode = "ro" THEN "fail" ELSE "format"
            ELSE IF exists = "exists" /\ GetDiskFormat(content, FALSE) = "asked" THEN checked ELSE "fail"

(* fsck -a: errors it does not correct stop the mount, a check that cannot *)
(* run (the device is in use) does not.                                    *)
repairFilesystem(content, inUse) == IF content = "torn" /\ ~inUse THEN "fail" ELSE "mount"

(* What a format that is cut off leaves.                                   *)
Interrupted(content) ==
  IF content \in WindowsContents THEN {content, "good"} ELSE {"blank", "torn"}
=============================================================================
