-------------------------- MODULE DeviceDiscovery --------------------------
(***************************************************************************)
(* Which device the driver takes for a LUN (findDiskByLun of               *)
(* pkg/azuredisk and of the Windows mounters), over what the operating     *)
(* system lists. An inventory has                                          *)
(*   devices  the disks in the order they are listed: dev, its name; host, *)
(*            the SCSI host or Windows adapter; lun; vhd, a Microsoft      *)
(*            virtual disk; style, the partition style; nsid, the NVMe     *)
(*            namespace, 0 for a SCSI disk                                 *)
(*   system   the names linked under /dev/disk/azure as root and resource  *)
(*   byLun    the LUNs linked under scsi1/lunN or data/by-lun/N            *)
(***************************************************************************)
EXTENDS Naturals, Sequences, FiniteSets, SequencesExt

CONSTANT NoDevice

OSHosts == 0..3

(* The disks of the LUN that may be the volume's: without links under      *)
(* /dev/disk/azure the first four SCSI hosts are left to the system, with  *)
(* them the linked devices are. (The first definition is a mutant: it      *)
(* trusts the links to be there.)                                          *)
HasLun(e, lun) == e.lun = lun /\ e.nsid = 0 /\ e.vhd

LinkedOnly(inv, lun) ==
  {i \in DOMAIN inv.devices : HasLun(inv.devices[i], lun) /\ inv.devices[i].dev \notin inv.system}
findDiskByLunWithConstraint(inv, lun) ==
  {i \in DOMAIN inv.devices :
     /\ HasLun(inv.devices[i], lun) /\ inv.devices[i].dev \notin inv.system
     /\ inv.system = {} => inv.devices[i].host \notin OSHosts}

(* The first of them, in the order of the listing.                         *)
findDiskByLun(inv, lun) ==
  LET found == findDiskByLunWithConstraint(inv, lun) IN
    IF found # {} THEN {inv.devices[Min(found)].dev}
    ELSE IF lun \in DOMAIN inv.byLun THEN {inv.byLun[lun]} ELSE {NoDevice}

-----------------------------------------------------------------------------
(* Windows. The LUN of an NVMe disk is its namespace less one. Disks       *)
(* partitioned the old way are left out. Those of adapter 0 are meant to   *)
(* be: the code logs that it skips them, but the fields of the location    *)
(* that follow the adapter (port, target, LUN) list them again.            *)
getNVMeLunFromPath(e) == IF e.nsid >= 1 THEN {e.nsid - 1} ELSE {}
Location(e) == IF e.nsid > 0 THEN getNVMeLunFromPath(e) ELSE {e.lun}

ListDiskLocations(inv, lun) ==
  {e.dev : e \in {x \in ToSet(inv.devices) : x.style # "MBR" /\ lun \in Location(x)}}

(* The second list leaves out SCSI port 0 and looks at no partition style. *)
ListDisksUsingCIM(inv, lun) ==
  {e.dev : e \in {x \in ToSet(inv.devices) : (x.nsid > 0 \/ x.host # 0) /\ lun \in Location(x)}}

(* Any of the disks that match, in the order of a Go map.                  *)
FindDiskByLun(inv, lun) ==
  LET first == ListDiskLocations(inv, lun)
      second == ListDisksUsingCIM(inv, lun)
  IN IF first # {} THEN first ELSE IF second # {} THEN second ELSE {NoDevice}

(* csi-proxy has one list.                                                 *)
ProxyFindDiskByLun(inv, lun) ==
  LET found == ListDiskLocations(inv, lun) IN IF found = {} THEN {NoDevice} ELSE found

-----------------------------------------------------------------------------
(* What is assumed of the machine, whose listing is a sequence. Disks of   *)
(* the LUN that are not the volume's are the system's own; udev has linked *)
(* all of these, or none yet, and then they are on the first SCSI hosts.   *)
LinuxDisks(inv, lun, device) ==
  /\ DOMAIN inv.devices \subseteq Nat
  /\ \E own \in SUBSET {e.dev : e \in ToSet(inv.devices)} :
       /\ inv.system \in {{}, own}
       /\ \A i \in DOMAIN inv.devices :
            /\ HasLun(inv.devices[i], lun) => inv.devices[i].dev \in own \cup {device}
            /\ inv.devices[i].dev \in own => inv.system # {} \/ inv.devices[i].host \in OSHosts
  /\ lun \in DOMAIN inv.byLun => inv.byLun[lun] = device

(* On Windows they are partitioned the old way or on adapter 0; the second *)
(* list, which does not look at the partitions, is not needed (the volume's*)
(* disk is in the first one) or leaves them out.                           *)
WindowsDisks(inv, lun, device) ==
  LET others == {e \in ToSet(inv.devices) : lun \in Location(e) /\ e.dev # device} IN
    /\ \A e \in others : e.style = "MBR" \/ (e.nsid = 0 /\ e.host = 0)
    /\ device \in ListDiskLocations(inv, lun) \/ \A e \in others : e.nsid = 0 /\ e.host = 0

(* The disks that the log says are skipped, and that are listed.           *)
AdapterZero(inv, lun) ==
  {e.dev : e \in {x \in ToSet(inv.devices) : x.style # "MBR" /\ x.nsid = 0 /\ x.host = 0 /\ lun \in Location(x)}}
=============================================================================
