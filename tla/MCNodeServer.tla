----------------------------- MODULE MCNodeServer ---------------------------
(* NodeServer on the volumes and nodes that its code tells apart.          *)
EXTENDS NodeServer, TLC

Tables == INSTANCE DiskTables

CONSTANTS volDev, osDev, tempDev

Scsi(d, h) == [dev |-> d, host |-> h, lun |-> 0, vhd |-> TRUE, style |-> "GPT", nsid |-> 0]

(* udev has linked the disks of the system, or not yet; the disk of the    *)
(* system has the LUN too. With NVMe there is only the link.               *)
Linked == [devices |-> <<Scsi(tempDev, 4), Scsi(volDev, 5)>>, system |-> {tempDev}, byLun |-> <<>>]
Unlinked == [devices |-> <<Scsi(osDev, 0), Scsi(volDev, 5)>>, system |-> {}, byLun |-> <<>>]
NVMe == [devices |-> <<>>, system |-> {}, byLun |-> (0 :> volDev)]
WindowsScsi ==
  [devices |-> <<[Scsi(tempDev, 1) EXCEPT !.style = "MBR"], Scsi(osDev, 0), Scsi(volDev, 1)>>, system |-> {}, byLun |-> <<>>]
WindowsNVMe == [devices |-> <<[Scsi(volDev, 1) EXCEPT !.nsid = 1], [Scsi(osDev, 2) EXCEPT !.nsid = 2]>>, system |-> {}, byLun |-> <<>>]

Plain == [os |-> "linux", block |-> FALSE, mode |-> "rw", kata |-> FALSE, guests |-> {}, content |-> "blank",
          room |-> "fits", grows |-> FALSE, inventory |-> Linked, device |-> volDev]
Good == [Plain EXCEPT !.content = "good"]

LinuxVolumes ==
  {Plain, [Good EXCEPT !.mode = "direct", !.room = "seen", !.inventory = Unlinked],
   [Plain EXCEPT !.content = "hidden", !.inventory = NVMe], [Plain EXCEPT !.content = "other"],
   [Plain EXCEPT !.mode = "ro"], [Plain EXCEPT !.block = TRUE, !.inventory = Unlinked]}
KataVolumes ==
  {[Plain EXCEPT !.kata = TRUE, !.guests = {1}],
   [Good EXCEPT !.kata = TRUE, !.guests = {2}, !.mode = "ro", !.grows = TRUE]}
WindowsVolumes ==
  {[Plain EXCEPT !.os = "winhost", !.content = "raw", !.inventory = WindowsScsi],
   [Good EXCEPT !.os = "winhost", !.content = "offline", !.inventory = WindowsNVMe, !.grows = TRUE],
   [Good EXCEPT !.os = "winproxy", !.inventory = WindowsNVMe]}
MCVolumes == LinuxVolumes \cup KataVolumes \cup WindowsVolumes

(* The classes of disks on every machine; disks that are asked for by      *)
(* their rates; other profiles, SKUs, keys and machines.                   *)
Basic == [profile |-> "basic", key |-> "skuname", account |-> "premium_lrs", size |-> 4, iops |-> 0, bw |-> 0, settings |-> "none", node |-> <<8000, 160>>]
MCRequests ==
  {[Basic EXCEPT !.account = a, !.size = s, !.node = n] :
     a \in {"premium_lrs", "standardssd_lrs"}, s \in {4, 512, 1024, 4096, 8192, 16384, 32767}, n \in Tables!NodeInfoMap}
  \cup {[Basic EXCEPT !.iops = s.iops, !.bw = s.bw] : s \in Tables!Premium}
  \cup {[Basic EXCEPT !.account = a] : a \in {"premiumv2_lrs", "standard_lrs", "ultrassd_lrs"}}
  \cup {[Basic EXCEPT !.profile = "advanced", !.settings = x] : x \in {"none", "inside", "outside"}}
  \cup {[Basic EXCEPT !.profile = x] : x \in {"absent", "none", "other"}}
  \cup {[Basic EXCEPT !.key = "storageaccounttype"], [Basic EXCEPT !.node = <<>>]}
=============================================================================
