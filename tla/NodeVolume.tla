----------------------------- MODULE NodeVolume -----------------------------
(***************************************************************************)
(* One volume on one node: NodeStageVolume, NodePublishVolume,             *)
(* NodeUnpublishVolume, NodeUnstageVolume and NodeExpandVolume of          *)
(* pkg/azuredisk/nodeserver.go, with the Kata direct volumes of kata.go    *)
(* and the mounters of Linux and Windows.                                  *)
(*                                                                         *)
(* Kubelet has one call for the volume at a time and gives it up after a   *)
(* while; the call goes on, since mounts and commands do not look at the   *)
(* context. An error decides what kubelet believes: after Aborted,         *)
(* Unavailable or DeadlineExceeded the mount may be there ("uncertain"),   *)
(* after any other it is not.                                              *)
(*                                                                         *)
(* Mounts of one device share its file system: a second mount joins the    *)
(* first, and what is shut down stays so until the last mount is gone.     *)
(***************************************************************************)
EXTENDS DeviceDiscovery, VolumeFormat

CONSTANTS
  Volumes,    \* what the volume and the node may be
  Pods,       \* the pods that may use it, numbered as they come; each has a target path of its own
  Staging,    \* the staging path
  Slots,      \* calls the plugin runs at a time
  NoPod, NoCall,
  MaxFaults   \* bound: commands that fail or miss, calls given up, restarts

ASSUME PlaceAssumption == Pods \subseteq Nat /\ Staging \notin Pods /\ NoPod \notin Pods
(* Partitions are made while a volume is staged; block volumes and Kata    *)
(* are Linux's.                                                            *)
ASSUME VolumeAssumption == \A v \in Volumes :
  /\ v.os \in {"linux", "winhost", "winproxy"} /\ v.block \in BOOLEAN /\ v.kata \in BOOLEAN
  /\ v.os = "linux" \/ (~v.block /\ ~v.kata)
  /\ v.content \in (IF v.os = "linux" THEN LinuxContents ELSE {"raw", "good", "offline"})
  /\ v.room \in {"fits", "grown", "seen"}
ASSUME DeviceAssumption == \A v \in Volumes :
  IF v.os = "linux" THEN LinuxDisks(v.inventory, 0, v.device) ELSE WindowsDisks(v.inventory, 0, v.device)
ASSUME SlotAssumption == IsFiniteSet(Slots) /\ NoCall \notin Slots
ASSUME FaultAssumption == MaxFaults \in Nat

VARIABLES
  vol,     \* the volume and the node
  disk,    \* its content; has a pod written data; does the file system fill it
  mounts,  \* how often it is mounted at the staging path and at each target
  fs,      \* the file system in the kernel: "none", "live" or "down"
  record,  \* Kata: the pod whose target has a MountInfo
  guest,   \* the pod whose guest has the disk
  calls,   \* the calls of the plugin
  current, \* the call kubelet waits for
  dev,     \* kubelet: is the volume staged
  pod,     \* kubelet: is it published, for each pod
  deleted, \* pods that are deleted
  expand,  \* kubelet: an expansion is "none", "asked" or "done"
  stuck,   \* the volume was staged on a file system that was shut down
  faults

kernel == <<mounts, fs>>
kata == <<record, guest>>
kubelet == <<dev, pod, deleted, expand>>
volumeVars == <<vol, disk, kernel, kata, calls, current, kubelet, stuck, faults>>

Idle == [op |-> "none", pc |-> "idle", pod |-> NoPod, dev |-> NoDevice]
Ops == {"stage", "publish", "unpublish", "unstage", "expand"}
Places == {Staging} \cup Pods
Linux == vol.os = "linux"

Untouched(users, n) ==
  /\ vol \in Volumes
  /\ disk = [content |-> vol.content, data |-> vol.content \notin {"blank", "raw"}, room |-> vol.room]
  /\ mounts = [x \in Places |-> 0] /\ fs = "none"
  /\ record = NoPod /\ guest = NoPod
  /\ calls = [s \in Slots |-> Idle] /\ current = NoCall
  /\ dev = "no" /\ pod = [p \in Pods |-> users] /\ deleted = {} /\ expand = "none"
  /\ stuck = FALSE /\ faults = n

VolumeInit == Untouched("new", 0)

(* No pod uses the volume.                                                 *)
Unused == Untouched("gone", MaxFaults) /\ vol = CHOOSE v \in Volumes : TRUE

Failed == faults < MaxFaults /\ faults' = faults + 1
Worked == UNCHANGED faults

-----------------------------------------------------------------------------
(* Kubelet. What it believes after an answer.                              *)
Told(c, code) ==
  /\ dev' = CASE c.op = "stage" -> [ok |-> "yes", final |-> "no", uncertain |-> "uncertain"][code]
              [] c.op = "unstage" -> IF code = "ok" THEN "unstaged" ELSE "uncertain"
              [] OTHER -> dev
  /\ pod' = CASE c.op = "publish" -> [pod EXCEPT ![c.pod] = [ok |-> "up", final |-> "wanted", uncertain |-> "trying"][code]]
              [] c.op = "unpublish" -> [pod EXCEPT ![c.pod] = IF code = "ok" THEN "gone" ELSE "trying"]
              [] OTHER -> pod
  /\ expand' = IF c.op = "expand" /\ code = "ok" THEN "done" ELSE expand
  /\ UNCHANGED deleted

Answer(s, code) ==
  /\ calls' = [calls EXCEPT ![s] = Idle]
  /\ IF current = s THEN current' = NoCall /\ Told(calls[s], code) ELSE UNCHANGED <<current, kubelet>>

Go(s, pc) == calls' = [calls EXCEPT ![s].pc = pc] /\ UNCHANGED <<current, kubelet>>

(* Staging, unstaging and expanding take the volume's lock, and with Kata  *)
(* publishing and unpublishing do too.                                     *)
Serialised(op) == op \in {"stage", "unstage"} \/ (op = "expand" /\ ~vol.block) \/ vol.kata
Busy == \E t \in Slots : calls[t].pc \notin {"idle", "lock"} /\ Serialised(calls[t].op)

Start(op) ==
  IF Serialised(op) THEN "lock"
  ELSE CASE op = "publish" -> IF vol.block THEN "device" ELSE "target"
         [] op = "unpublish" -> "unmount" [] op = "expand" -> "rescan"

Wanting(p) == pod[p] \in {"wanted", "trying"} /\ p \notin deleted

(* What kubelet has to do, for the volume or for a pod.                    *)
Due(op, p) ==
  CASE op = "stage" -> p = NoPod /\ dev # "yes" /\ \E q \in Pods : Wanting(q)
    [] op = "publish" -> p # NoPod /\ dev = "yes" /\ Wanting(p)
    [] op = "unpublish" -> p \in deleted /\ pod[p] \in {"trying", "up"}
    [] op = "unstage" -> p = NoPod /\ dev \in {"yes", "uncertain"} /\ \A q \in Pods : pod[q] \in {"new", "gone"}
    [] op = "expand" -> p = NoPod /\ dev = "yes" /\ expand = "asked" /\ \E q \in Pods : pod[q] = "up"

Kubelet(op) ==
  /\ current = NoCall /\ \E s \in Slots : calls[s] = Idle
  /\ current' = CHOOSE s \in Slots : calls[s] = Idle
  /\ \E p \in Pods \cup {NoPod} :
       Due(op, p) /\ calls' = [calls EXCEPT ![current'] = [op |-> op, pc |-> Start(op), pod |-> p, dev |-> NoDevice]]
  /\ dev' = IF op = "stage" /\ dev = "unstaged" THEN "no" ELSE dev
  /\ UNCHANGED <<vol, disk, kernel, kata, pod, deleted, expand, stuck, faults>>

(* A volume used by one pod at a time waits for the pod before.            *)
Schedule(p) ==
  /\ pod[p] = "new" /\ pod' = [pod EXCEPT ![p] = "wanted"]
  /\ \A q \in Pods : q < p => pod[q] # "new"
  /\ vol.kata => \A q \in Pods \ {p} : pod[q] \in {"new", "gone"}
  /\ UNCHANGED <<vol, disk, kernel, kata, calls, current, dev, deleted, expand, stuck, faults>>

(* The containers of a deleted pod, and its guest, end before its volumes  *)
(* are unpublished; a pod that was not published is forgotten.             *)
Delete(p) ==
  /\ pod[p] \in {"wanted", "trying", "up"} /\ p \notin deleted
  /\ deleted' = deleted \cup {p}
  /\ guest' = IF guest = p THEN NoPod ELSE guest
  /\ UNCHANGED <<vol, disk, kernel, record, calls, current, dev, pod, expand, stuck, faults>>

Forget(p) ==
  /\ p \in deleted /\ pod[p] = "wanted" /\ (current # NoCall => calls[current].pod # p)
  /\ pod' = [pod EXCEPT ![p] = "gone"]
  /\ UNCHANGED <<vol, disk, kernel, kata, calls, current, dev, deleted, expand, stuck, faults>>

(* Kata starts a guest for a target that has a MountInfo.                  *)
GuestStarts(p) ==
  /\ pod[p] = "up" /\ p \notin deleted /\ record = p /\ guest = NoPod
  /\ guest' = p
  /\ UNCHANGED <<vol, disk, kernel, record, calls, current, kubelet, stuck, faults>>

(* The disk is expanded in Azure under a running pod; Windows sees that by *)
(* itself.                                                                 *)
Grow ==
  /\ vol.grows /\ expand = "none" /\ disk.room = "fits" /\ \E p \in Pods : pod[p] = "up"
  /\ disk' = [disk EXCEPT !.room = IF Linux THEN "grown" ELSE "seen"] /\ expand' = "asked"
  /\ UNCHANGED <<vol, kernel, kata, calls, current, dev, pod, deleted, stuck, faults>>

-----------------------------------------------------------------------------
(* Mounts.                                                                 *)
Mounted(x) == mounts[x] > 0

Mount(x) ==
  /\ mounts' = [mounts EXCEPT ![x] = @ + 1]
  /\ fs' = IF fs = "none" /\ ~vol.block THEN "live" ELSE fs

(* On Windows the targets are links to the staging path, and only that is  *)
(* unmounted.                                                              *)
Unmount(x) ==
  /\ mounts' = [mounts EXCEPT ![x] = @ - 1]
  /\ fs' = IF mounts[x] = 1 /\ (~Linux \/ \A y \in Places \ {x} : mounts[y] = 0) THEN "none" ELSE fs

Same == UNCHANGED <<vol, disk, kernel, kata, stuck>>

(* A step at pc of a call for op.                                          *)
At(s, op, pc) == calls[s].op = op /\ calls[s].pc = pc

(* The lock: a call that does not get it is answered Aborted.              *)
TryAcquire(s, op) == At(s, op, "lock") /\ ~Busy
NotAcquired(s) == calls[s].pc = "lock" /\ Busy /\ Answer(s, "uncertain") /\ Same /\ Worked

(* A command or a lookup of the call fails. A mkfs that fails leaves what  *)
(* it has written.                                                         *)
CommandFails(s) ==
  /\ \/ calls[s].pc \in {"device", "astray", "check", "probe", "format", "repair", "mount", "target", "bind", "release", "assign", "restore", "unmount", "remove", "rmdir"}
     \/ At(s, "stage", "resize")
     \/ calls[s].pc = "lock" /\ ~Busy /\ vol.kata /\ calls[s].op \in {"stage", "publish", "expand"}
  /\ Failed /\ Answer(s, "final")
  /\ disk' \in IF calls[s].pc = "format" THEN {[disk EXCEPT !.content = c] : c \in Interrupted(disk.content)} ELSE {disk}
  /\ UNCHANGED <<vol, kernel, kata, stuck>>

(* Device discovery, for staging, for block volumes and for direct volumes.*)
(* A call that takes another disk for the volume's is followed no further: *)
(* it works on that disk, holding the lock, until it fails or the plugin   *)
(* starts again; that it succeeds there is left out.                       *)
FoundDevices == CASE Linux -> findDiskByLun(vol.inventory, 0)
                  [] vol.os = "winhost" -> FindDiskByLun(vol.inventory, 0)
                  [] vol.os = "winproxy" -> ProxyFindDiskByLun(vol.inventory, 0)
getDevicePathWithLUN(s) ==
  /\ calls[s].pc = "device" /\ Same /\ Worked
  /\ \E d \in FoundDevices :
       IF d = NoDevice THEN Answer(s, "final")
       ELSE IF calls[s].op = "stage" /\ vol.block THEN Answer(s, "ok")
       ELSE /\ calls' = [calls EXCEPT ![s].dev = d, ![s].pc = IF d # vol.device THEN "astray"
                                                              ELSE IF calls[s].op = "stage" THEN "check"
                                                              ELSE IF vol.block THEN "bind" ELSE "release"]
            /\ UNCHANGED <<current, kubelet>>

-----------------------------------------------------------------------------
(* NodeStageVolume. With an assignment to a guest it leaves the disk alone.*)
(* (The first definition is a mutant: it does not look for a MountInfo.)   *)
NeverAssigned == FALSE
Assigned == vol.kata /\ record # NoPod
StageBegins(s) ==
  /\ TryAcquire(s, "stage") /\ Same /\ Worked
  /\ IF Assigned THEN Answer(s, "ok") ELSE Go(s, "device")

(* What is mounted stays. A file system that was shut down may or may not  *)
(* fail the read that tells; when it does it is unmounted and the call     *)
(* fails all the same.                                                     *)
ensureMountPoint(s, x, next) ==
  /\ \/ ~Mounted(x) /\ Go(s, next) /\ UNCHANGED <<kernel, stuck>>
     \/ Mounted(x) /\ Answer(s, "ok") /\ stuck' = (stuck \/ fs = "down") /\ UNCHANGED kernel
     \/ Mounted(x) /\ fs = "down" /\ Unmount(x) /\ Answer(s, "final") /\ UNCHANGED stuck
  /\ UNCHANGED <<vol, disk, kata>>

EnsureStaging(s) == At(s, "stage", "check") /\ Worked /\ ensureMountPoint(s, Staging, "probe")

(* blkid and fsck may each miss a file system.                             *)
Probe(s) ==
  /\ At(s, "stage", "probe") /\ Linux /\ Same
  /\ \E blkidMisses, fsckMisses \in BOOLEAN :
       LET next == formatAndMount(vol.mode, disk.content, blkidMisses, fsckMisses) IN
         /\ faults' = faults + Cardinality({m \in {1, 2} : <<blkidMisses, fsckMisses>>[m]}) /\ faults' <= MaxFaults
         /\ IF next = "fail" THEN Answer(s, "final") ELSE Go(s, next)

(* Windows. A disk that stays offline is only logged, and has no volume to *)
(* mount; the proxy mounter does not try to bring it online.               *)
SetOnline(s) ==
  /\ At(s, "stage", "probe") /\ vol.os = "winhost" /\ SetDiskState(disk.content) # disk.content
  /\ \/ Worked /\ disk' = [disk EXCEPT !.content = SetDiskState(@)] /\ UNCHANGED <<calls, current, kubelet>>
     \/ Failed /\ Answer(s, "final") /\ UNCHANGED disk
  /\ UNCHANGED <<vol, kernel, kata, stuck>>

FormatAndMount(s) ==
  /\ At(s, "stage", "probe") /\ ~Linux /\ Worked
  /\ vol.os = "winhost" => SetDiskState(disk.content) = disk.content
  /\ LET next == MountFirstVolume(disk.content) IN
       IF PartitionDisk(disk.content) # disk.content
       THEN disk' = [disk EXCEPT !.content = PartitionDisk(@)] /\ UNCHANGED <<calls, current, kubelet>>
       ELSE (IF next = "fail" THEN Answer(s, "final") ELSE Go(s, next)) /\ UNCHANGED disk
  /\ UNCHANGED <<vol, kernel, kata, stuck>>

Filled == IF disk.room = "seen" THEN "fits" ELSE disk.room

Format(s) ==
  /\ At(s, "stage", "format") /\ Worked
  /\ disk' = [content |-> "good", data |-> FALSE, room |-> Filled] /\ Go(s, "mount")
  /\ UNCHANGED <<vol, kernel, kata, stuck>>

Repair(s) ==
  /\ At(s, "stage", "repair") /\ Same /\ Worked
  /\ IF repairFilesystem(disk.content, fs # "none") = "fail" THEN Answer(s, "final") ELSE Go(s, "mount")

MountStaging(s) ==
  /\ At(s, "stage", "mount") /\ Linux /\ Worked
  /\ IF disk.content = "good" THEN Mount(Staging) /\ Go(s, "resize") /\ stuck' = (stuck \/ fs = "down")
     ELSE Answer(s, "final") /\ UNCHANGED <<kernel, stuck>>
  /\ UNCHANGED <<vol, disk, kata>>

MountVolume(s) ==
  /\ At(s, "stage", "mount") /\ ~Linux /\ Worked /\ Mount(Staging) /\ Go(s, "resize")
  /\ UNCHANGED <<vol, disk, kata, stuck>>

ResizeStaged(s) ==
  /\ At(s, "stage", "resize") /\ Worked
  /\ IF fs = "down" /\ disk.room = "seen" THEN Answer(s, "final") /\ UNCHANGED disk
     ELSE Answer(s, "ok") /\ disk' = [disk EXCEPT !.room = IF Linux THEN Filled ELSE ResizeVolume(@)]
  /\ UNCHANGED <<vol, kernel, kata, stuck>>

NodeStageVolume(s) ==
  \/ StageBegins(s) \/ EnsureStaging(s) \/ Probe(s) \/ SetOnline(s) \/ FormatAndMount(s) \/ Format(s)
  \/ Repair(s) \/ MountStaging(s) \/ MountVolume(s) \/ ResizeStaged(s)

-----------------------------------------------------------------------------
(* NodePublishVolume. With Kata an earlier publication decides first.      *)
(* (The first definition is a mutant: any MountInfo of the volume counts   *)
(* as one of the target.)                                                  *)
PublishBeginsAssigned(s) ==
  LET p == calls[s].pod IN
    /\ TryAcquire(s, "publish") /\ Same /\ Worked
    /\ IF record # NoPod \/ Mounted(p) THEN Answer(s, "ok") ELSE Go(s, "runtime")

PublishBegins(s) ==
  LET p == calls[s].pod IN
    /\ TryAcquire(s, "publish") /\ Same /\ Worked
    /\ IF record = p \/ (record = NoPod /\ Mounted(p)) THEN Answer(s, "ok")
       ELSE IF record # NoPod THEN Answer(s, "final") ELSE Go(s, "runtime")

(* The pod and its runtime class are read under the call's context; where  *)
(* that fails the volume is published the ordinary way.                    *)
kataGetMountPod(s) ==
  LET guests == calls[s].pod \in vol.guests IN
    /\ At(s, "publish", "runtime") /\ Same
    /\ \/ Worked /\ Go(s, IF guests /\ current = s THEN "device" ELSE "restore")
       \/ guests /\ current = s /\ Failed /\ Go(s, "restore")

(* The host lets go of the disk, then the MountInfo is written.            *)
Release(s) ==
  /\ At(s, "publish", "release") /\ Worked /\ Go(s, "assign")
  /\ IF Mounted(Staging) THEN Unmount(Staging) ELSE UNCHANGED kernel
  /\ UNCHANGED <<vol, disk, kata, stuck>>

(* The pod of a publication that kubelet knows of writes.                  *)
Written(s) == disk' = [disk EXCEPT !.data = @ \/ (current = s /\ vol.mode # "ro")]

Assign(s) ==
  /\ At(s, "publish", "assign") /\ Worked /\ record' = calls[s].pod /\ Answer(s, "ok") /\ Written(s)
  /\ UNCHANGED <<vol, kernel, guest, stuck>>

(* An ordinary publication after one to a guest: the staging path is       *)
(* mounted again, and nothing is formatted. (The first definition is a     *)
(* mutant: it leaves the staging path as it is.)                           *)
kataLeaveStaging(s) == At(s, "publish", "restore") /\ Worked /\ Go(s, "target") /\ Same

kataRestoreStaging(s) ==
  /\ At(s, "publish", "restore") /\ Worked
  /\ IF Mounted(Staging) THEN Go(s, "target") /\ UNCHANGED kernel
     ELSE IF disk.content = "good" THEN Mount(Staging) /\ Go(s, "target")
     ELSE Answer(s, "final") /\ UNCHANGED kernel
  /\ UNCHANGED <<vol, disk, kata, stuck>>

EnsureTarget(s) == At(s, "publish", "target") /\ Linux /\ Worked /\ ensureMountPoint(s, calls[s].pod, "bind")

(* On Windows an old link, or the directory of kubelet, is removed first.  *)
preparePublishPath(s) ==
  /\ At(s, "publish", "target") /\ ~Linux /\ Worked
  /\ mounts' = [mounts EXCEPT ![calls[s].pod] = 0] /\ Go(s, "bind")
  /\ UNCHANGED <<vol, disk, fs, kata, stuck>>

(* A bind mount, of the device for a block volume; on Windows a link,      *)
(* which must not be there.                                                *)
Bound(s, there) ==
  /\ At(s, "publish", "bind") /\ Worked
  /\ IF there THEN mounts' = [mounts EXCEPT ![calls[s].pod] = @ + 1] /\ Answer(s, "ok") /\ Written(s)
     ELSE Answer(s, "final") /\ UNCHANGED <<mounts, disk>>
  /\ UNCHANGED <<vol, fs, kata, stuck>>

Bind(s) == Linux /\ Bound(s, vol.block \/ Mounted(Staging))
Link(s) == ~Linux /\ Bound(s, ~Mounted(calls[s].pod))

NodePublishVolume(s) ==
  \/ PublishBegins(s) \/ kataGetMountPod(s) \/ Release(s) \/ Assign(s)
  \/ kataRestoreStaging(s) \/ EnsureTarget(s) \/ preparePublishPath(s) \/ Bind(s) \/ Link(s)

-----------------------------------------------------------------------------
(* NodeUnpublishVolume. One mount of a target is taken off: under another  *)
(* the directory cannot be removed. On Windows the link is removed.        *)
UnpublishBegins(s) == TryAcquire(s, "unpublish") /\ Go(s, "unmount") /\ Same /\ Worked

UnmountTarget(s) ==
  LET p == calls[s].pod IN
    /\ At(s, "unpublish", "unmount") /\ Linux /\ Worked
    /\ IF Mounted(p) THEN Unmount(p) ELSE UNCHANGED kernel
    /\ IF mounts[p] > 1 THEN Answer(s, "final") ELSE IF vol.kata THEN Go(s, "remove") ELSE Answer(s, "ok")
    /\ UNCHANGED <<vol, disk, kata, stuck>>

CleanupMountPoint(s) ==
  /\ At(s, "unpublish", "unmount") /\ ~Linux /\ Worked /\ Answer(s, "ok")
  /\ mounts' = [mounts EXCEPT ![calls[s].pod] = 0]
  /\ UNCHANGED <<vol, disk, fs, kata, stuck>>

RemoveRecord(s) ==
  /\ At(s, "unpublish", "remove") /\ Worked /\ Answer(s, "ok")
  /\ record' = IF record = calls[s].pod THEN NoPod ELSE record
  /\ UNCHANGED <<vol, disk, kernel, guest, stuck>>

NodeUnpublishVolume(s) == UnpublishBegins(s) \/ UnmountTarget(s) \/ CleanupMountPoint(s) \/ RemoveRecord(s)

-----------------------------------------------------------------------------
(* NodeUnstageVolume. The file system is shut down before it is unmounted, *)
(* for the sake of mounts the driver does not know of.                     *)
UnstageBegins(s) ==
  TryAcquire(s, "unstage") /\ Go(s, IF Linux THEN "shutdown" ELSE "unmount") /\ Same /\ Worked

shutdownFilesystem(s) ==
  /\ At(s, "unstage", "shutdown") /\ Worked /\ Go(s, "unmount")
  /\ fs' = IF Mounted(Staging) /\ fs = "live" THEN "down" ELSE fs
  /\ UNCHANGED <<vol, disk, mounts, kata, stuck>>

(* (The first definition is a mutant: there must be a mount.)              *)
UnmountWhatIsMounted(s) ==
  /\ At(s, "unstage", "unmount") /\ Linux /\ Worked
  /\ IF Mounted(Staging) THEN Unmount(Staging) /\ Answer(s, "ok") ELSE Answer(s, "final") /\ UNCHANGED kernel
  /\ UNCHANGED <<vol, disk, kata, stuck>>

UnmountStaging(s) ==
  /\ At(s, "unstage", "unmount") /\ Linux /\ Worked /\ Answer(s, "ok")
  /\ IF Mounted(Staging) THEN Unmount(Staging) ELSE UNCHANGED kernel
  /\ UNCHANGED <<vol, disk, kata, stuck>>

(* As a host process on Windows the mount point is followed to its volume, *)
(* so there must be one; it is removed, then the directory.                *)
getTarget == Mounted(Staging)
DeleteVolumeMountPoint == Unmount(Staging)

UnmountVolume(s) ==
  /\ At(s, "unstage", "unmount") /\ vol.os = "winhost" /\ Worked
  /\ IF getTarget THEN DeleteVolumeMountPoint /\ Go(s, "rmdir") ELSE Answer(s, "final") /\ UNCHANGED kernel
  /\ UNCHANGED <<vol, disk, kata, stuck>>

Rmdir(s) == At(s, "unstage", "rmdir") /\ Worked /\ Answer(s, "ok") /\ Same

(* The proxy removes the directory with the mount point, if it is there.   *)
ProxyUnmount(s) ==
  /\ At(s, "unstage", "unmount") /\ vol.os = "winproxy" /\ Worked /\ Answer(s, "ok")
  /\ IF Mounted(Staging) THEN Unmount(Staging) ELSE UNCHANGED kernel
  /\ UNCHANGED <<vol, disk, kata, stuck>>

NodeUnstageVolume(s) == UnstageBegins(s) \/ shutdownFilesystem(s) \/ UnmountStaging(s) \/ UnmountVolume(s) \/ Rmdir(s) \/ ProxyUnmount(s)

-----------------------------------------------------------------------------
(* NodeExpandVolume. The file system grows once the device has; on Windows *)
(* it is the volume that is measured.                                      *)
ExpandBegins(s) ==
  /\ TryAcquire(s, "expand") /\ Same /\ Worked
  /\ IF Assigned THEN Answer(s, "final") ELSE Go(s, "rescan")

rescanVolume(s) ==
  /\ At(s, "expand", "rescan") /\ (Worked \/ Failed)
  /\ IF vol.block THEN Answer(s, "ok") ELSE Go(s, "measure")
  /\ disk' = IF Linux /\ disk.room = "grown" /\ faults' = faults THEN [disk EXCEPT !.room = "seen"] ELSE disk
  /\ UNCHANGED <<vol, kernel, kata, stuck>>

validateBlockDeviceSize(s) ==
  /\ At(s, "expand", "measure") /\ Same /\ Worked
  /\ IF disk.room = "fits" \/ (Linux /\ disk.room = "seen") THEN Go(s, "resize") ELSE Answer(s, "uncertain")

(* A failed resize is answered like one that worked: the size that is      *)
(* checked once more is the device's.                                      *)
ResizeOnline(s) ==
  /\ At(s, "expand", "resize") /\ (Worked \/ Failed) /\ Answer(s, "ok")
  /\ disk' = IF faults' = faults /\ fs = "live" THEN [disk EXCEPT !.room = Filled] ELSE disk
  /\ UNCHANGED <<vol, kernel, kata, stuck>>

NodeExpandVolume(s) == ExpandBegins(s) \/ rescanVolume(s) \/ validateBlockDeviceSize(s) \/ ResizeOnline(s)

-----------------------------------------------------------------------------
(* Kubelet gives a call up, minutes after it began; the call goes on.      *)
Begun(c) == c.pc # Start(c.op) \/ (c.op = "unpublish" /\ c.pc # "lock")

GiveUp ==
  /\ current # NoCall /\ Begun(calls[current]) /\ Failed /\ Told(calls[current], "uncertain") /\ current' = NoCall
  /\ UNCHANGED <<vol, disk, kernel, kata, calls, stuck>>

(* A kubelet that starts finds its volumes on the node and is sure of none.*)
Unsure ==
  /\ dev' = IF dev = "yes" THEN "uncertain" ELSE dev
  /\ pod' = [p \in Pods |-> IF pod[p] = "up" THEN "trying" ELSE pod[p]]
  /\ UNCHANGED <<deleted, expand>>

KubeletRestarts ==
  /\ current = NoCall /\ Failed /\ Unsure
  /\ UNCHANGED <<vol, disk, kernel, kata, calls, current, stuck>>

(* The plugin starts again: mounts and MountInfos are the node's, the      *)
(* calls, and the mkfs they run, are not.                                  *)
CallsEnd ==
  /\ calls' = [s \in Slots |-> Idle] /\ current' = NoCall
  /\ disk' \in IF \E s \in Slots : calls[s].pc = "format"
               THEN {[disk EXCEPT !.content = c] : c \in Interrupted(disk.content)} ELSE {disk}

PluginRestarts ==
  /\ (\E s \in Slots : calls[s] # Idle) /\ Failed /\ CallsEnd
  /\ IF current = NoCall THEN UNCHANGED kubelet ELSE Told(calls[current], "uncertain")
  /\ UNCHANGED <<vol, kernel, kata, stuck>>

(* The node starts again, with neither mounts nor guests.                  *)
Reboot ==
  /\ Linux /\ Failed /\ CallsEnd
  /\ mounts' = [x \in Places |-> 0] /\ fs' = "none" /\ record' = NoPod /\ guest' = NoPod /\ stuck' = FALSE
  /\ Unsure
  /\ UNCHANGED vol

-----------------------------------------------------------------------------
CallStep(s) ==
  \/ NodeStageVolume(s) \/ NodePublishVolume(s) \/ NodeUnpublishVolume(s) \/ NodeUnstageVolume(s)
  \/ NodeExpandVolume(s) \/ getDevicePathWithLUN(s) \/ NotAcquired(s)

Pod(p) == Schedule(p) \/ Delete(p) \/ Forget(p) \/ GuestStarts(p)

VolumeNext ==
  \/ \E op \in Ops : Kubelet(op)
  \/ \E s \in Slots : CallStep(s) \/ CommandFails(s)
  \/ \E p \in Pods : Pod(p)
  \/ Grow \/ GiveUp \/ KubeletRestarts \/ PluginRestarts \/ Reboot

(* Calls go on. Kubelet backs off after an error, so that whatever it has  *)
(* to do for the volume gets its turn; expansions need not.                *)
VolumeFairness ==
  /\ \A s \in Slots : WF_volumeVars(CallStep(s))
  /\ \A op \in Ops \ {"expand"} : SF_volumeVars(Kubelet(op))
  /\ WF_volumeVars(\E p \in Pods : Forget(p))

VolumeSpec == VolumeInit /\ [][VolumeNext]_volumeVars /\ VolumeFairness

-----------------------------------------------------------------------------
(* What a pod has written is never lost to a format: not when blkid or     *)
(* fsck misses the file system once each, and not after a crash            *)
(* (formatAndMount and detectFilesystemExistence).                         *)
DataKept == [][disk.data => disk'.data]_volumeVars

(* A call never works on a device other than the volume's, such as the     *)
(* disk of the operating system or the temporary disk with the same LUN    *)
(* (findDiskByLunWithConstraint and the searches of the Windows mounters), *)
(* with one exception that the code has: on Windows a disk of adapter 0    *)
(* that is not partitioned the old way is taken, although the code logs    *)
(* that it skips it (ListDiskLocations).                                   *)
DeviceIsTheVolume ==
  \A s \in Slots :
    \/ calls[s].dev \in {NoDevice, vol.device}
    \/ ~Linux /\ calls[s].pc = "astray" /\ calls[s].dev \in AdapterZero(vol.inventory, 0)

(* A pod that runs has the volume: its guest was given the disk, or its    *)
(* target is mounted and the file system lives.                            *)
PublishedIsMounted ==
  \A p \in Pods : pod[p] = "up" /\ p \notin deleted =>
    \/ record = p
    \/ Mounted(p) /\ (vol.block \/ fs = "live" \/ stuck)

(* While a guest has the disk the host has no file system mounted from it, *)
(* and once kubelet knows it unstaged, so that another node may get it, no *)
(* live one; and no tool works on it: however calls that were given up     *)
(* interleave with the ones that follow them. A target that kubelet forgot *)
(* is the exception: a final error of the publish call after the one it    *)
(* gave up makes it believe that nothing is mounted.                       *)
Tool(c) == c.op = "stage" /\ c.pc \in {"probe", "format", "repair", "mount", "resize"}
Forgotten == vol.kata /\ \E p \in Pods : pod[p] = "gone" /\ (Mounted(p) \/ record = p)
HostLetsGo ==
  /\ guest # NoPod => fs = "none" \/ Forgotten
  /\ dev = "unstaged" => (fs # "live" \/ Forgotten) /\ guest = NoPod
  /\ guest # NoPod \/ dev = "unstaged" => \A s \in Slots : ~Tool(calls[s])

Astray == \E s \in Slots : calls[s].pc = "astray"

Hopeless ==
  \/ disk.content \in {"torn", "hidden", "other"}
  \/ disk.content # "good" /\ ~vol.block /\ vol.mode # "rw"
  \/ stuck \/ Forgotten \/ Astray

(* A pod gets the volume or is deleted, whatever failed before.            *)
PodServed ==
  \A p \in Pods : pod[p] = "wanted" ~> pod[p] = "up" \/ p \in deleted \/ Hopeless

(* Once its pods are deleted the volume is unstaged, so that it can be     *)
(* detached. A host process on Windows never unstages what is not mounted, *)
(* and nothing does while a call has the lock for another disk.            *)
UnstageEnds ==
  deleted = Pods ~> \/ dev \in {"no", "unstaged"}
                    \/ vol.os = "winhost" /\ ~Mounted(Staging)
                    \/ Astray
=============================================================================
