-------------------------- MODULE NodeServerProofs --------------------------
(***************************************************************************)
(* Theorems about NodeServer for any volumes, any number of pods, of calls *)
(* at a time and of faults. The proofs first say how a step moves a call   *)
(* and what kubelet makes of its answer; the invariants follow from that   *)
(* and from what each step does to mounts, MountInfos and the disk.        *)
(***************************************************************************)
EXTENDS NodeServer, TLAPS, SequenceTheorems, WellFoundedInduction

-----------------------------------------------------------------------------
(* Types. Fits says which steps a call of an operation has, and that the   *)
(* device it works on is the volume's, or one of adapter 0 on Windows.     *)
Devices == {NoDevice} \cup {v.device : v \in Volumes} \cup UNION {AdapterZero(v.inventory, 0) : v \in Volumes}

Points == {"idle", "lock", "device", "astray", "check", "probe", "format", "repair", "mount", "resize", "runtime", "release",
           "assign", "restore", "target", "bind", "unmount", "remove", "shutdown", "rmdir", "rescan", "measure"}

Call == [op : Ops \cup {"none"}, pc : Points, pod : Pods \cup {NoPod}, dev : Devices]

Fits(c) ==
  /\ c.op = "none" => c.pc = "idle"
  /\ c.op = "stage" => \/ c.pc \in {"lock", "device"}
                       \/ ~vol.block /\ c.pc \in {"check", "probe", "format", "mount", "resize"}
                       \/ ~vol.block /\ Linux /\ c.pc = "repair"
                       \/ ~vol.block /\ ~Linux /\ c.pc = "astray"
  /\ c.op = "publish" => \/ c.pc = "bind" \/ (c.pc = "target" /\ (vol.kata \/ ~vol.block))
                         \/ vol.kata /\ c.pc \in {"lock", "runtime", "restore"}
                         \/ c.pc = "device" /\ (vol.block \/ vol.kata)
                         \/ vol.kata /\ ~vol.block /\ c.pc \in {"release", "assign"}
  /\ c.op = "unpublish" => c.pc = "unmount" \/ (vol.kata /\ c.pc \in {"lock", "remove"})
  /\ c.op = "unstage" => \/ c.pc \in {"lock", "unmount"}
                         \/ (Linux /\ c.pc = "shutdown") \/ (~Linux /\ c.pc = "rmdir")
  /\ c.op = "expand" => c.pc \in {"rescan", "measure", "resize"} \/ (c.pc = "lock" /\ (vol.kata \/ ~vol.block))
  /\ c.op \in {"publish", "unpublish"} => c.pod \in Pods
  /\ \/ c.dev \in {NoDevice, vol.device}
     \/ ~Linux /\ c.pc = "astray" /\ c.dev \in AdapterZero(vol.inventory, 0)

CallsOK ==
  /\ calls \in [Slots -> Call] /\ current \in Slots \cup {NoCall}
  /\ \A s \in Slots : Fits(calls[s])
  /\ dev \in {"no", "uncertain", "yes", "unstaged"}
  /\ pod \in [Pods -> {"new", "wanted", "trying", "up", "gone"}] /\ deleted \subseteq Pods

DiskRecord == [content : Contents, data : BOOLEAN, room : {"fits", "grown", "seen"}]

StateOK ==
  /\ vol \in Volumes /\ disk \in DiskRecord
  /\ mounts \in [Places -> Nat] /\ fs \in {"none", "live", "down"} /\ stuck \in BOOLEAN
  /\ record \in Pods \cup {NoPod} /\ guest \in Pods \cup {NoPod}

-----------------------------------------------------------------------------
(* The search for the device. A set of places in a listing that is not     *)
(* empty has a first one.                                                  *)
LEMMA FirstListed ==
  ASSUME NEW S, S \subseteq Nat, S # {}
  PROVE  Min(S) \in S
<1> DEFINE Less == {ss \in Nat \X Nat : ss[1] < ss[2]}
<1>1. IsWellFoundedOn(Less, Nat)
  BY NatLessThanWellFounded DEF OpToRel
<1> HIDE DEF Less
<1>2. PICK x \in S : \A y \in S : ~(<<y, x>> \in Less)
  BY <1>1, WFMin
<1>3. \A y \in S : x =< y
  <2>1. SUFFICES ASSUME NEW y \in S, y < x PROVE FALSE
    OBVIOUS
  <2>2. <<y, x>> \in Nat \X Nat /\ <<y, x>>[1] < <<y, x>>[2]
    BY <2>1
  <2> QED
    BY <1>2, <2>2 DEF Less
<1> QED
  BY <1>3 DEF Min

LEMMA FoundOnLinux ==
  ASSUME NEW inv, NEW d, LinuxDisks(inv, 0, d)
  PROVE  findDiskByLun(inv, 0) \subseteq {NoDevice, d}
<1> DEFINE found == findDiskByLunWithConstraint(inv, 0)
<1>1. CASE found # {}
  <2>1. found \subseteq DOMAIN inv.devices /\ DOMAIN inv.devices \subseteq Nat
    BY DEF findDiskByLunWithConstraint, LinuxDisks
  <2>2. Min(found) \in found
    BY <1>1, <2>1, FirstListed
  <2>3. \A i \in found : inv.devices[i].dev = d
    BY DEF findDiskByLunWithConstraint, LinuxDisks
  <2>4. findDiskByLun(inv, 0) = {inv.devices[Min(found)].dev}
    BY <1>1 DEF findDiskByLun
  <2> QED
    BY <2>2, <2>3, <2>4
<1>2. CASE found = {}
  <2>1. findDiskByLun(inv, 0) = IF 0 \in DOMAIN inv.byLun THEN {inv.byLun[0]} ELSE {NoDevice}
    BY <1>2 DEF findDiskByLun
  <2> QED
    BY <2>1 DEF LinuxDisks
<1> QED
  BY <1>1, <1>2

LEMMA FoundOnWindows ==
  ASSUME NEW inv, NEW d, WindowsDisks(inv, 0, d)
  PROVE  /\ FindDiskByLun(inv, 0) \subseteq {NoDevice, d} \cup AdapterZero(inv, 0)
         /\ ProxyFindDiskByLun(inv, 0) \subseteq {NoDevice, d} \cup AdapterZero(inv, 0)
<1> DEFINE first == ListDiskLocations(inv, 0)
           second == ListDisksUsingCIM(inv, 0)
<1>1. first \subseteq {d} \cup AdapterZero(inv, 0)
  BY DEF ListDiskLocations, WindowsDisks, AdapterZero
<1>2. CASE first # {}
  BY <1>1, <1>2 DEF FindDiskByLun, ProxyFindDiskByLun
<1>3. CASE first = {}
  <2>1. second \subseteq {d}
    <3>1. \A e \in ToSet(inv.devices) : 0 \in Location(e) /\ e.dev # d => e.nsid = 0 /\ e.host = 0
      BY <1>3 DEF WindowsDisks
    <3> QED
      BY <3>1 DEF ListDisksUsingCIM
  <2> QED
    BY <1>3, <2>1 DEF FindDiskByLun, ProxyFindDiskByLun
<1> QED
  BY <1>2, <1>3

LEMMA FoundIsTheVolume ==
  ASSUME StateOK
  PROVE  FoundDevices \subseteq {NoDevice, vol.device} \cup (IF Linux THEN {} ELSE AdapterZero(vol.inventory, 0))
<1>1. vol \in Volumes /\ vol.os \in {"linux", "winhost", "winproxy"}
  BY VolumeAssumption DEF StateOK
<1>2. CASE vol.os = "linux"
  <2>1. FoundDevices = findDiskByLun(vol.inventory, 0)
    BY <1>2 DEF FoundDevices, Linux
  <2> QED
    BY <1>1, <1>2, <2>1, DeviceAssumption, FoundOnLinux DEF Linux
<1>3. CASE vol.os = "winhost"
  <2>1. FoundDevices = FindDiskByLun(vol.inventory, 0)
    BY <1>3 DEF FoundDevices, Linux
  <2>2. WindowsDisks(vol.inventory, 0, vol.device)
    BY <1>1, <1>3, DeviceAssumption
  <2> QED
    BY <1>3, <2>1, <2>2, FoundOnWindows DEF Linux
<1>4. CASE vol.os = "winproxy"
  <2>1. FoundDevices = ProxyFindDiskByLun(vol.inventory, 0)
    BY <1>4 DEF FoundDevices, Linux
  <2>2. WindowsDisks(vol.inventory, 0, vol.device)
    BY <1>1, <1>4, DeviceAssumption
  <2> QED
    BY <1>4, <2>1, <2>2, FoundOnWindows DEF Linux
<1> QED
  BY <1>1, <1>2, <1>3, <1>4

-----------------------------------------------------------------------------
(* A call holds the lock of the volume.                                    *)
Held(s) == calls[s].pc \notin {"idle", "lock"} /\ Serialised(calls[s].op)

LEMMA BusyIsHeld == Busy <=> \E s \in Slots : Held(s)
BY DEF Busy, Held

LEMMA VolumeIs ==
  ASSUME StateOK
  PROVE  /\ vol.block \in BOOLEAN /\ vol.kata \in BOOLEAN /\ vol.os \in {"linux", "winhost", "winproxy"}
         /\ ~Linux => ~vol.block /\ ~vol.kata
BY VolumeAssumption DEF StateOK, Linux

-----------------------------------------------------------------------------
(* How a call moves: x is where it goes, and what is known when it does.   *)
Moved(s, x, d) ==
  /\ calls' = [calls EXCEPT ![s] = [op |-> calls[s].op, pc |-> x, pod |-> calls[s].pod, dev |-> d]]
  /\ UNCHANGED <<current, kubelet>>

Entry(c, x) ==
  /\ c.op # "none" /\ x \notin {"idle", "lock"} /\ (c.pc = "lock" => ~Busy)
  /\ c.op = "publish" => /\ x = "target" => vol.kata
                         /\ c.pc = "lock" => record = NoPod
                         /\ x = "runtime" => c.pc = "lock" /\ mounts[c.pod] = 0
                         /\ x = "device" => c.pc = "runtime"
                         /\ x = "release" => c.pc = "device"
                         /\ x = "assign" => c.pc = "release" /\ (mounts[Staging] <= 1 => mounts'[Staging] = 0)
  /\ c.op \in {"stage", "expand"} /\ c.pc = "lock" => ~Assigned
  /\ c.op = "stage" => /\ x = "probe" => c.pc = "check" /\ mounts[Staging] = 0
                       /\ x \in {"format", "repair", "mount"} => c.pc \in {"probe", "format", "repair"}
                       /\ x = "format" => disk.content \in {"blank", "partitioned"} /\ disk' = disk
                       /\ x = "mount" => Linux \/ disk'.content = "good"
                       /\ x = "resize" => c.pc = "mount" /\ mounts'[Staging] > 0 /\ (Linux /\ fs' = "down" => stuck')
                       /\ x = "resize" /\ Linux => disk'.content = "good"
  /\ c.op = "unstage" => /\ x = "unmount" /\ Linux /\ fs' = "live" => mounts'[Staging] = 0
                         /\ x = "rmdir" /\ mounts[Staging] <= 1 => mounts'[Staging] = 0

Goes(s) ==
  \E x \in Points, d \in Devices :
    /\ Moved(s, x, d) /\ Entry(calls[s], x)
    /\ Fits([op |-> calls[s].op, pc |-> x, pod |-> calls[s].pod, dev |-> d])

(* What a call that is answered has done.                                  *)
Done(c, code) ==
  /\ c.op # "none" /\ code \in {"ok", "final", "uncertain"} /\ (c.pc = "lock" /\ Busy => code = "uncertain")
  /\ code = "ok" /\ c.op = "stage" =>
       \/ vol.block \/ (Assigned /\ record' = record)
       \/ mounts'[Staging] > 0 /\ (fs' = "down" => stuck')
       \/ c.pc = "resize" /\ UNCHANGED <<mounts, fs, stuck>>
  /\ code = "ok" /\ c.op = "publish" => record' = c.pod \/ mounts'[c.pod] > 0
  /\ code = "ok" /\ c.op = "unstage" =>
       \/ (c.pc = "rmdir" \/ (Linux /\ c.pc = "unmount")) /\ (fs' = "live" => fs = "live")
       \/ ~Linux /\ c.pc = "unmount" /\ (mounts[Staging] <= 1 => mounts'[Staging] = 0)

Ends(s) == \E code : Answer(s, code) /\ Done(calls[s], code)

Rests == UNCHANGED <<calls, current, kubelet>>

LEMMA GoMoves ==
  ASSUME CallsOK, NEW s \in Slots, NEW x \in Points, Go(s, x)
  PROVE  Moved(s, x, calls[s].dev) /\ calls[s].dev \in Devices
<1>1. calls[s] \in Call
  BY DEF CallsOK
<1>2. [calls[s] EXCEPT !.pc = x] = [op |-> calls[s].op, pc |-> x, pod |-> calls[s].pod, dev |-> calls[s].dev]
  BY <1>1 DEF Call
<1>3. calls' = [calls EXCEPT ![s] = [calls[s] EXCEPT !.pc = x]]
  BY DEF Go
<1> QED
  BY <1>1, <1>2, <1>3 DEF Moved, Go, Call

LEMMA GoGoes ==
  ASSUME CallsOK, NEW s \in Slots, NEW x \in Points, Go(s, x), Entry(calls[s], x),
         Fits([op |-> calls[s].op, pc |-> x, pod |-> calls[s].pod, dev |-> calls[s].dev])
  PROVE  Goes(s)
BY GoMoves DEF Goes

LEMMA StageMoves ==
  ASSUME CallsOK, StateOK, NEW s \in Slots, NodeStageVolume(s)
  PROVE  Goes(s) \/ Ends(s) \/ Rests
<1> DEFINE c == calls[s]
           G(x) == x \in Points /\ Go(s, x) /\ Entry(c, x) /\ Fits([op |-> c.op, pc |-> x, pod |-> c.pod, dev |-> c.dev])
<1>1. Fits(c)
  BY DEF CallsOK
<1>2. ASSUME NEW x, G(x) PROVE Goes(s)
  BY <1>2, GoGoes
<1>3. CASE StageBegins(s)
  <2>1. c.op = "stage" /\ c.pc = "lock" /\ ~Busy
    BY <1>3 DEF StageBegins, TryAcquire, At
  <2>2. CASE Assigned
    BY <1>3, <2>1, <2>2 DEF StageBegins, Same, kata, Ends, Done
  <2>3. CASE ~Assigned
    <3>1. G("device")
      BY <1>1, <1>3, <2>1, <2>3 DEF StageBegins, Entry, Fits, Points
    <3> QED
      BY <1>2, <3>1
  <2> QED
    BY <2>2, <2>3
<1>4. CASE EnsureStaging(s)
  <2>1. c.op = "stage" /\ c.pc = "check" /\ ensureMountPoint(s, Staging, "probe")
    BY <1>4 DEF EnsureStaging, At
  <2>2. CASE ~Mounted(Staging) /\ Go(s, "probe")
    <3>1. mounts[Staging] = 0
      BY <2>2, PlaceAssumption DEF Mounted, StateOK, Places
    <3>2. G("probe")
      BY <1>1, <2>1, <2>2, <3>1 DEF Entry, Fits, Points
    <3> QED
      BY <1>2, <3>2
  <2>3. CASE Mounted(Staging) /\ Answer(s, "ok") /\ stuck' = (stuck \/ fs = "down") /\ UNCHANGED kernel
    <3>1. mounts'[Staging] > 0 /\ (fs' = "down" => stuck')
      BY <2>3 DEF Mounted, kernel
    <3> QED
      BY <2>1, <2>3, <3>1 DEF Ends, Done
  <2>4. CASE Answer(s, "final")
    BY <2>1, <2>4 DEF Ends, Done
  <2> QED
    BY <2>1, <2>2, <2>3, <2>4 DEF ensureMountPoint
<1>5. CASE Probe(s)
  <2>1. c.op = "stage" /\ c.pc = "probe"
    BY <1>5 DEF Probe, At
  <2>2. PICK b, f \in BOOLEAN : LET next == formatAndMount(vol.mode, disk.content, b, f) IN
                                  IF next = "fail" THEN Answer(s, "final") ELSE Go(s, next)
    BY <1>5 DEF Probe
  <2>3. formatAndMount(vol.mode, disk.content, b, f) \in {"mount", "repair", "fail", "format"}
    BY DEF formatAndMount, GetDiskFormat
  <2>4. CASE Answer(s, "final")
    BY <2>1, <2>4 DEF Ends, Done
  <2>5. Linux /\ disk' = disk
    BY <1>5 DEF Probe, Same
  <2>6. formatAndMount(vol.mode, disk.content, b, f) = "format" => disk.content = "blank"
    BY DEF formatAndMount, GetDiskFormat, detectFilesystemExistence, detectOrRepairFilesystem, wipefs
  <2>7. ASSUME NEW x \in {"mount", "repair", "format"}, Go(s, x), x = "format" => disk.content = "blank" PROVE Goes(s)
    <3>1. G(x)
      BY <1>1, <2>1, <2>5, <2>7 DEF Entry, Fits, Points
    <3> QED
      BY <1>2, <3>1
  <2> QED
    BY <2>2, <2>3, <2>4, <2>6, <2>7
<1>6. CASE SetOnline(s)
  <2>1. c.op = "stage" /\ c.pc = "probe"
    BY <1>6 DEF SetOnline, At
  <2> QED
    BY <1>6, <2>1 DEF SetOnline, Ends, Done, Rests
<1>7. CASE FormatAndMount(s)
  <2>1. c.op = "stage" /\ c.pc = "probe"
    BY <1>7 DEF FormatAndMount, At
  <2>2. /\ MountFirstVolume(disk.content) \in {"fail", "mount", "format"}
        /\ MountFirstVolume(disk.content) = "mount" => disk.content = "good"
        /\ MountFirstVolume(disk.content) = "format" => disk.content = "partitioned"
    BY DEF MountFirstVolume, ListVolumesOnDisk, IsVolumeFormatted
  <2>3. CASE Answer(s, "final")
    BY <2>1, <2>3 DEF Ends, Done
  <2>4. ASSUME NEW x \in {"mount", "format"}, Go(s, x), x = MountFirstVolume(disk.content), disk' = disk PROVE Goes(s)
    <3>1. G(x)
      BY <1>1, <2>1, <2>2, <2>4 DEF Entry, Fits, Points
    <3> QED
      BY <1>2, <3>1
  <2> QED
    BY <1>7, <2>2, <2>3, <2>4 DEF FormatAndMount, Rests
<1>8. CASE Format(s)
  <2>1. c.op = "stage" /\ c.pc = "format" /\ Go(s, "mount") /\ disk'.content = "good"
    BY <1>8 DEF Format, At
  <2>2. G("mount")
    BY <1>1, <2>1 DEF Entry, Fits, Points
  <2> QED
    BY <1>2, <2>2
<1>9. CASE Repair(s)
  <2>1. c.op = "stage" /\ c.pc = "repair" /\ (Answer(s, "final") \/ Go(s, "mount"))
    BY <1>9 DEF Repair, At
  <2>2. CASE Answer(s, "final")
    BY <2>1, <2>2 DEF Ends, Done
  <2>3. CASE Go(s, "mount")
    <3>1. G("mount")
      BY <1>1, <2>1, <2>3 DEF Entry, Fits, Points
    <3> QED
      BY <1>2, <3>1
  <2> QED
    BY <2>1, <2>2, <2>3
<1>10. CASE MountStaging(s) \/ MountVolume(s)
  <2>1. c.op = "stage" /\ c.pc = "mount" /\ (Answer(s, "final") \/ Go(s, "resize"))
    BY <1>10 DEF MountStaging, MountVolume, At
  <2>2. CASE Answer(s, "final")
    BY <2>1, <2>2 DEF Ends, Done
  <2>3. CASE Go(s, "resize") /\ Mount(Staging) /\ (Linux => stuck' = (stuck \/ fs = "down") /\ disk'.content = "good")
    <3>1. mounts'[Staging] > 0
      BY <2>3 DEF Mount, StateOK, Places
    <3>2. Linux /\ fs' = "down" => stuck'
      BY <2>3 DEF Mount
    <3>3. G("resize")
      BY <1>1, <2>1, <2>3, <3>1, <3>2 DEF Entry, Fits, Points
    <3> QED
      BY <1>2, <3>3
  <2> QED
    BY <1>10, <2>1, <2>2, <2>3 DEF MountStaging, MountVolume
<1>11. CASE ResizeStaged(s)
  <2>1. c.op = "stage" /\ c.pc = "resize" /\ (Answer(s, "final") \/ Answer(s, "ok")) /\ UNCHANGED <<mounts, fs, stuck>>
    BY <1>11 DEF ResizeStaged, At, kernel
  <2> QED
    BY <2>1 DEF Ends, Done
<1> QED
  BY <1>3, <1>4, <1>5, <1>6, <1>7, <1>8, <1>9, <1>10, <1>11 DEF NodeStageVolume

LEMMA PublishMoves ==
  ASSUME CallsOK, StateOK, NEW s \in Slots, NodePublishVolume(s)
  PROVE  Goes(s) \/ Ends(s)
<1> DEFINE c == calls[s]
           G(x) == x \in Points /\ Go(s, x) /\ Entry(c, x) /\ Fits([op |-> c.op, pc |-> x, pod |-> c.pod, dev |-> c.dev])
<1>1. Fits(c)
  BY DEF CallsOK
<1>2. ASSUME NEW x, G(x) PROVE Goes(s)
  BY <1>2, GoGoes
<1>3. c.op = "publish" => c.pod \in Pods /\ c.pod \in Places /\ mounts[c.pod] \in Nat
  BY <1>1 DEF Fits, StateOK, Places
<1>4. CASE PublishBegins(s)
  <2>1. c.op = "publish" /\ c.pc = "lock" /\ ~Busy
    BY <1>4 DEF PublishBegins, TryAcquire, At
  <2>2. CASE (record = c.pod \/ (record = NoPod /\ Mounted(c.pod))) /\ Answer(s, "ok")
    BY <1>4, <2>1, <2>2 DEF PublishBegins, Same, kernel, kata, Mounted, Ends, Done
  <2>3. CASE Answer(s, "final")
    BY <2>1, <2>3 DEF Ends, Done
  <2>4. CASE record = NoPod /\ ~Mounted(c.pod) /\ Go(s, "runtime")
    <3>1. mounts[c.pod] = 0
      BY <1>3, <2>1, <2>4 DEF Mounted
    <3>2. G("runtime")
      BY <1>1, <2>1, <2>4, <3>1 DEF Entry, Fits, Points
    <3> QED
      BY <1>2, <3>2
  <2> QED
    BY <1>4, <2>2, <2>3, <2>4 DEF PublishBegins
<1>5. CASE kataGetMountPod(s)
  <2>1. c.op = "publish" /\ c.pc = "runtime" /\ (Go(s, "device") \/ Go(s, "restore"))
    BY <1>5 DEF kataGetMountPod, At
  <2>2. ASSUME NEW x \in {"device", "restore"}, Go(s, x) PROVE Goes(s)
    <3>1. G(x)
      BY <1>1, <2>1, <2>2 DEF Entry, Fits, Points
    <3> QED
      BY <1>2, <3>1
  <2> QED
    BY <2>1, <2>2
<1>6. CASE Release(s)
  <2>1. c.op = "publish" /\ c.pc = "release" /\ Go(s, "assign")
    BY <1>6 DEF Release, At
  <2>2. mounts[Staging] <= 1 => mounts'[Staging] = 0
    BY <1>6 DEF Release, Mounted, Unmount, kernel, StateOK, Places
  <2>3. G("assign")
    BY <1>1, <2>1, <2>2 DEF Entry, Fits, Points
  <2> QED
    BY <1>2, <2>3
<1>7. CASE Assign(s)
  <2>1. c.op = "publish" /\ c.pc = "assign" /\ Answer(s, "ok") /\ record' = c.pod
    BY <1>7 DEF Assign, At
  <2> QED
    BY <2>1 DEF Ends, Done
<1>8. CASE kataRestoreStaging(s)
  <2>1. c.op = "publish" /\ c.pc = "restore" /\ (Go(s, "target") \/ Answer(s, "final"))
    BY <1>8 DEF kataRestoreStaging, At
  <2>2. CASE Answer(s, "final")
    BY <2>1, <2>2 DEF Ends, Done
  <2>3. CASE Go(s, "target")
    <3>1. G("target")
      BY <1>1, <2>1, <2>3 DEF Entry, Fits, Points
    <3> QED
      BY <1>2, <3>1
  <2> QED
    BY <2>1, <2>2, <2>3
<1>9. CASE EnsureTarget(s)
  <2>1. c.op = "publish" /\ c.pc = "target" /\ ensureMountPoint(s, c.pod, "bind")
    BY <1>9 DEF EnsureTarget, At
  <2>2. CASE Go(s, "bind")
    <3>1. G("bind")
      BY <1>1, <2>1, <2>2 DEF Entry, Fits, Points
    <3> QED
      BY <1>2, <3>1
  <2>3. CASE Mounted(c.pod) /\ Answer(s, "ok") /\ UNCHANGED kernel
    BY <2>1, <2>3 DEF Ends, Done, Mounted, kernel
  <2>4. CASE Answer(s, "final")
    BY <2>1, <2>4 DEF Ends, Done
  <2> QED
    BY <2>1, <2>2, <2>3, <2>4 DEF ensureMountPoint
<1>10. CASE preparePublishPath(s)
  <2>1. c.op = "publish" /\ c.pc = "target" /\ Go(s, "bind")
    BY <1>10 DEF preparePublishPath, At
  <2>2. G("bind")
    BY <1>1, <2>1 DEF Entry, Fits, Points
  <2> QED
    BY <1>2, <2>2
<1>11. ASSUME NEW there, Bound(s, there) PROVE Ends(s)
  <2>1. c.op = "publish" /\ c.pc = "bind"
    BY <1>11 DEF Bound, At
  <2>2. CASE Answer(s, "final")
    BY <2>1, <2>2 DEF Ends, Done
  <2>3. CASE Answer(s, "ok") /\ mounts' = [mounts EXCEPT ![c.pod] = @ + 1]
    <3>1. mounts'[c.pod] > 0
      BY <1>3, <2>1, <2>3 DEF StateOK
    <3> QED
      BY <2>1, <2>3, <3>1 DEF Ends, Done
  <2> QED
    BY <1>11, <2>2, <2>3 DEF Bound
<1> QED
  BY <1>4, <1>5, <1>6, <1>7, <1>8, <1>9, <1>10, <1>11 DEF NodePublishVolume, Bind, Link

LEMMA OtherMoves ==
  ASSUME CallsOK, StateOK, NEW s \in Slots,
         \/ NodeUnpublishVolume(s) \/ NodeUnstageVolume(s) \/ NodeExpandVolume(s)
         \/ getDevicePathWithLUN(s) \/ NotAcquired(s) \/ CommandFails(s)
  PROVE  Goes(s) \/ Ends(s)
<1> DEFINE c == calls[s]
           G(x) == x \in Points /\ Go(s, x) /\ Entry(c, x) /\ Fits([op |-> c.op, pc |-> x, pod |-> c.pod, dev |-> c.dev])
<1>1. Fits(c) /\ c \in Call
  BY DEF CallsOK
<1>2. ASSUME NEW x, G(x) PROVE Goes(s)
  BY <1>2, GoGoes
<1>3. ASSUME NEW code \in {"ok", "final"}, Answer(s, code), c.pc = "lock" => ~Busy,
             c.op \in {"unpublish", "expand"} \/ (c.op = "unstage" /\ code = "final")
      PROVE  Ends(s)
  BY <1>3 DEF Ends, Done
<1>4. CASE NodeUnpublishVolume(s)
  <2>1. c.op = "unpublish" /\ (c.pc = "lock" => ~Busy)
    BY <1>4 DEF NodeUnpublishVolume, UnpublishBegins, UnmountTarget, CleanupMountPoint, RemoveRecord, TryAcquire, At
  <2>2. CASE UnpublishBegins(s)
    <3>1. G("unmount")
      BY <1>1, <2>1, <2>2 DEF UnpublishBegins, Entry, Fits, Points
    <3> QED
      BY <1>2, <3>1
  <2>3. CASE UnmountTarget(s)
    <3>1. Answer(s, "ok") \/ Answer(s, "final") \/ (vol.kata /\ Go(s, "remove"))
      BY <2>3 DEF UnmountTarget
    <3>2. CASE vol.kata /\ Go(s, "remove")
      <4>1. c.pc = "unmount"
        BY <2>3 DEF UnmountTarget, At
      <4>2. G("remove")
        BY <1>1, <2>1, <3>2, <4>1 DEF Entry, Fits, Points
      <4> QED
        BY <1>2, <4>2
    <3> QED
      BY <1>3, <2>1, <3>1, <3>2
  <2>4. CASE CleanupMountPoint(s) \/ RemoveRecord(s)
    BY <1>3, <2>1, <2>4 DEF CleanupMountPoint, RemoveRecord
  <2> QED
    BY <1>4, <2>2, <2>3, <2>4 DEF NodeUnpublishVolume
<1>5. CASE NodeUnstageVolume(s)
  <2>1. c.op = "unstage" /\ (c.pc = "lock" => ~Busy)
    BY <1>5 DEF NodeUnstageVolume, UnstageBegins, shutdownFilesystem, UnmountStaging, UnmountVolume, Rmdir, ProxyUnmount, TryAcquire, At
  <2>2. ASSUME NEW x \in {"shutdown", "unmount", "rmdir"}, Go(s, x), x = "shutdown" => Linux, x = "rmdir" => ~Linux,
               x = "unmount" /\ Linux /\ fs' = "live" => mounts'[Staging] = 0,
               x = "rmdir" /\ mounts[Staging] <= 1 => mounts'[Staging] = 0
        PROVE  Goes(s)
    <3>1. G(x)
      BY <1>1, <2>1, <2>2 DEF Entry, Fits, Points
    <3> QED
      BY <1>2, <3>1
  <2>3. CASE UnstageBegins(s)
    BY <2>2, <2>3 DEF UnstageBegins
  <2>4. CASE shutdownFilesystem(s)
    <3>1. fs' = "live" => mounts'[Staging] = 0
      BY <2>4 DEF shutdownFilesystem, Mounted, StateOK, Places
    <3> QED
      BY <2>2, <2>4, <3>1 DEF shutdownFilesystem
  <2>5. mounts[Staging] \in Nat
    BY DEF StateOK, Places
  <2>6. Mounted(Staging) /\ Unmount(Staging) /\ mounts[Staging] <= 1 => mounts'[Staging] = 0
    BY <2>5 DEF Mounted, Unmount, StateOK, Places
  <2>7. Unmount(Staging) \/ UNCHANGED kernel => (fs' = "live" => fs = "live")
    BY DEF Unmount, kernel
  <2>8. CASE UnmountVolume(s)
    <3>1. ~Linux
      BY <2>8 DEF UnmountVolume, Linux
    <3> QED
      BY <1>3, <2>1, <2>2, <2>6, <2>8, <3>1 DEF UnmountVolume, getTarget, DeleteVolumeMountPoint
  <2>9. CASE UnmountStaging(s)
    <3>1. Linux /\ c.pc = "unmount" /\ Answer(s, "ok") /\ (fs' = "live" => fs = "live")
      BY <2>7, <2>9 DEF UnmountStaging, At
    <3> QED
      BY <2>1, <3>1 DEF Ends, Done
  <2>10. CASE Rmdir(s)
    <3>1. c.pc = "rmdir" /\ Answer(s, "ok") /\ fs' = fs
      BY <2>10 DEF Rmdir, At, Same, kernel
    <3> QED
      BY <2>1, <3>1 DEF Ends, Done
  <2>11. CASE ProxyUnmount(s)
    <3>1. ~Linux /\ c.pc = "unmount" /\ Answer(s, "ok")
      BY <2>11 DEF ProxyUnmount, At, Linux
    <3>2. mounts[Staging] <= 1 => mounts'[Staging] = 0
      BY <2>5, <2>6, <2>11 DEF ProxyUnmount, Mounted, kernel
    <3> QED
      BY <2>1, <3>1, <3>2 DEF Ends, Done
  <2> QED
    BY <1>5, <2>3, <2>4, <2>8, <2>9, <2>10, <2>11 DEF NodeUnstageVolume
<1>6. CASE NodeExpandVolume(s)
  <2>1. c.op = "expand" /\ (c.pc = "lock" => ~Busy)
    BY <1>6 DEF NodeExpandVolume, ExpandBegins, rescanVolume, validateBlockDeviceSize, ResizeOnline, TryAcquire, At
  <2>2. ASSUME NEW x \in {"rescan", "measure", "resize"}, Go(s, x), c.pc = "lock" => ~Assigned
        PROVE  Goes(s)
    <3>1. G(x)
      BY <1>1, <2>1, <2>2 DEF Entry, Fits, Points
    <3> QED
      BY <1>2, <3>1
  <2>3. ASSUME Answer(s, "uncertain") PROVE Ends(s)
    BY <2>1, <2>3 DEF Ends, Done
  <2>4. CASE ExpandBegins(s)
    BY <1>3, <2>1, <2>2, <2>4 DEF ExpandBegins
  <2>5. CASE rescanVolume(s)
    <3>1. c.pc = "rescan" /\ (Answer(s, "ok") \/ Go(s, "measure"))
      BY <2>5 DEF rescanVolume, At
    <3> QED
      BY <1>3, <2>1, <2>2, <3>1
  <2>6. CASE validateBlockDeviceSize(s)
    <3>1. c.pc = "measure" /\ (Answer(s, "uncertain") \/ Go(s, "resize"))
      BY <2>6 DEF validateBlockDeviceSize, At
    <3> QED
      BY <2>1, <2>2, <2>3, <3>1
  <2>7. CASE ResizeOnline(s)
    BY <1>3, <2>1, <2>7 DEF ResizeOnline
  <2> QED
    BY <1>6, <2>4, <2>5, <2>6, <2>7 DEF NodeExpandVolume
<1>7. CASE getDevicePathWithLUN(s)
  <2>1. c.pc = "device" /\ c.op \in {"stage", "publish"}
    BY <1>1, <1>7 DEF getDevicePathWithLUN, Fits, Call, Ops
  <2>2. /\ FoundDevices \subseteq {NoDevice, vol.device} \cup (IF Linux THEN {} ELSE AdapterZero(vol.inventory, 0))
        /\ FoundDevices \subseteq Devices
    BY FoundIsTheVolume DEF Devices, StateOK
  <2>3. PICK d \in FoundDevices :
          IF d = NoDevice THEN Answer(s, "final")
          ELSE IF c.op = "stage" /\ vol.block THEN Answer(s, "ok")
          ELSE /\ calls' = [calls EXCEPT ![s].dev = d, ![s].pc = IF d # vol.device THEN "astray" ELSE IF c.op = "stage" THEN "check"
                                                                  ELSE IF vol.block THEN "bind" ELSE "release"]
               /\ UNCHANGED <<current, kubelet>>
    BY <1>7 DEF getDevicePathWithLUN
  <2>4. CASE Answer(s, "final")
    BY <2>1, <2>4 DEF Ends, Done
  <2>5. CASE c.op = "stage" /\ vol.block /\ Answer(s, "ok")
    BY <2>1, <2>5 DEF Ends, Done
  <2>6. ASSUME NEW x \in {"astray", "check", "bind", "release"}, ~(c.op = "stage" /\ vol.block), d # NoDevice,
               x = IF d # vol.device THEN "astray" ELSE IF c.op = "stage" THEN "check" ELSE IF vol.block THEN "bind" ELSE "release",
               calls' = [calls EXCEPT ![s].dev = d, ![s].pc = x], UNCHANGED <<current, kubelet>>
        PROVE  Goes(s)
    <3>1. d \in Devices
      BY <2>2
    <3>2. calls' = [calls EXCEPT ![s] = [op |-> c.op, pc |-> x, pod |-> c.pod, dev |-> d]]
      <4>1. [c EXCEPT !.dev = d] = [op |-> c.op, pc |-> c.pc, pod |-> c.pod, dev |-> d]
        <5>1. c \in Call
          BY DEF CallsOK
        <5> HIDE DEF c
        <5> QED
          BY <5>1 DEF Call
      <4>2. [[c EXCEPT !.dev = d] EXCEPT !.pc = x] = [op |-> c.op, pc |-> x, pod |-> c.pod, dev |-> d]
        <5>1. [[op |-> c.op, pc |-> c.pc, pod |-> c.pod, dev |-> d] EXCEPT !.pc = x]
                = [op |-> c.op, pc |-> x, pod |-> c.pod, dev |-> d]
          OBVIOUS
        <5> QED
          BY <4>1, <5>1, Zenon
      <4>3. calls' = [calls EXCEPT ![s] = [[c EXCEPT !.dev = d] EXCEPT !.pc = x]]
        BY <2>6 DEF CallsOK
      <4> QED
        BY <4>2, <4>3
    <3>3. x \in Points /\ Moved(s, x, d)
      BY <2>6, <3>2 DEF Moved, Points
    <3>4. vol.block \in BOOLEAN /\ (~Linux => ~vol.block /\ ~vol.kata)
      BY VolumeIs
    <3>7. x = "astray" => ~Linux /\ c.op = "stage"
      BY <1>1, <2>1, <2>2, <2>6, <3>4 DEF Fits
    <3>5. Entry(c, x)
      BY <2>1, <2>6 DEF Entry
    <3>6. Fits([op |-> c.op, pc |-> x, pod |-> c.pod, dev |-> d])
      <4>1. d = vol.device \/ (x = "astray" /\ d \in AdapterZero(vol.inventory, 0))
        BY <2>2, <2>6
      <4> QED
        BY <1>1, <2>1, <2>6, <3>4, <3>7, <4>1 DEF Fits
    <3> QED
      BY <3>1, <3>3, <3>5, <3>6 DEF Goes
  <2> QED
    BY <2>3, <2>4, <2>5, <2>6
<1>8. CASE NotAcquired(s)
  <2>1. c.pc = "lock" /\ Answer(s, "uncertain")
    BY <1>8 DEF NotAcquired
  <2>2. c.op # "none"
    BY <1>1, <2>1 DEF Fits
  <2> QED
    BY <2>1, <2>2 DEF Ends, Done
<1>9. CASE CommandFails(s)
  <2>1. Answer(s, "final") /\ c.pc # "idle" /\ (c.pc = "lock" => ~Busy)
    BY <1>9 DEF CommandFails, At
  <2>2. c.op # "none"
    BY <1>1, <2>1 DEF Fits
  <2> QED
    BY <2>1, <2>2 DEF Ends, Done
<1> QED
  BY <1>4, <1>5, <1>6, <1>7, <1>8, <1>9

(* Every step, by what it does to the calls and to kubelet.                *)
CallMoves == \E s \in Slots : Goes(s) \/ Ends(s)
CallStarts == \E op \in Ops : Kubelet(op)
PodMoves == \E p \in Pods : Schedule(p) \/ Forget(p)
CallsStop == CallsEnd /\ (Unsure \/ (current = NoCall /\ UNCHANGED kubelet) \/ (current # NoCall /\ Told(calls[current], "uncertain")))

LEMMA Moves ==
  ASSUME CallsOK, StateOK, [VolumeNext]_volumeVars
  PROVE  /\ vol' = vol
         /\ \/ CallMoves \/ CallStarts \/ PodMoves \/ GiveUp \/ KubeletRestarts \/ CallsStop
            \/ (\E p \in Pods : Delete(p)) \/ UNCHANGED <<calls, current, dev, pod, deleted>>
<1>1. CASE UNCHANGED volumeVars
  BY <1>1 DEF volumeVars, kubelet
<1>2. CASE CallStarts
  BY <1>2 DEF CallStarts, Kubelet
<1>3. CASE \E s \in Slots : CallStep(s) \/ CommandFails(s)
  <2>1. PICK s \in Slots : CallStep(s) \/ CommandFails(s)
    BY <1>3
  <2>2. vol' = vol
    BY <2>1 DEF CallStep, CommandFails, NodeStageVolume, NodePublishVolume, NodeUnpublishVolume, NodeUnstageVolume, NodeExpandVolume,
       getDevicePathWithLUN, NotAcquired, Same, StageBegins, EnsureStaging, ensureMountPoint, Probe, SetOnline, FormatAndMount, Format,
       Repair, MountStaging, MountVolume, ResizeStaged, PublishBegins, kataGetMountPod, Release, Assign, kataRestoreStaging, EnsureTarget,
       preparePublishPath, Bind, Link, Bound, UnpublishBegins, UnmountTarget, CleanupMountPoint, RemoveRecord, UnstageBegins,
       shutdownFilesystem, UnmountStaging, UnmountVolume, Rmdir, ProxyUnmount, ExpandBegins, rescanVolume, validateBlockDeviceSize, ResizeOnline
  <2>3. Goes(s) \/ Ends(s) \/ Rests
    BY <2>1, StageMoves, PublishMoves, OtherMoves DEF CallStep
  <2> QED
    BY <2>2, <2>3 DEF CallMoves, Rests, kubelet
<1>4. CASE \E p \in Pods : Pod(p)
  BY <1>4 DEF Pod, Schedule, Delete, Forget, GuestStarts, PodMoves, kubelet
<1>5. CASE Grow \/ GiveUp \/ KubeletRestarts
  BY <1>5 DEF Grow, GiveUp, KubeletRestarts
<1>6. CASE PluginRestarts \/ Reboot
  BY <1>6 DEF PluginRestarts, Reboot, CallsStop
<1> QED
  BY <1>1, <1>2, <1>3, <1>4, <1>5, <1>6 DEF VolumeNext, CallStarts

LEMMA ToldIs ==
  ASSUME NEW c, NEW code \in {"ok", "final", "uncertain"}, Told(c, code)
  PROVE  /\ deleted' = deleted
         /\ dev' = IF c.op = "stage" THEN IF code = "ok" THEN "yes" ELSE IF code = "final" THEN "no" ELSE "uncertain"
                   ELSE IF c.op = "unstage" THEN IF code = "ok" THEN "unstaged" ELSE "uncertain"
                   ELSE dev
         /\ pod' = IF c.op = "publish"
                     THEN [pod EXCEPT ![c.pod] = IF code = "ok" THEN "up" ELSE IF code = "final" THEN "wanted" ELSE "trying"]
                   ELSE IF c.op = "unpublish" THEN [pod EXCEPT ![c.pod] = IF code = "ok" THEN "gone" ELSE "trying"]
                   ELSE pod
<1>1. CASE code = "ok"
  BY <1>1 DEF Told
<1>2. CASE code = "final"
  BY <1>2 DEF Told
<1>3. CASE code = "uncertain"
  BY <1>3 DEF Told
<1> QED
  BY <1>1, <1>2, <1>3

LEMMA CallStarted ==
  ASSUME CallsOK, StateOK, NEW op \in Ops, Kubelet(op)
  PROVE  \E s \in Slots, p \in Pods \cup {NoPod} :
           /\ current = NoCall /\ current' = s /\ calls[s] = Idle /\ Due(op, p)
           /\ calls' = [calls EXCEPT ![s] = [op |-> op, pc |-> Start(op), pod |-> p, dev |-> NoDevice]]
           /\ dev' = (IF op = "stage" /\ dev = "unstaged" THEN "no" ELSE dev) /\ pod' = pod /\ deleted' = deleted
           /\ Start(op) \in Points /\ Start(op) # "idle"
           /\ Fits([op |-> op, pc |-> Start(op), pod |-> p, dev |-> NoDevice])
<1>1. current' \in Slots /\ calls[current'] = Idle
  BY DEF Kubelet
<1>2. PICK p \in Pods \cup {NoPod} :
        Due(op, p) /\ calls' = [calls EXCEPT ![current'] = [op |-> op, pc |-> Start(op), pod |-> p, dev |-> NoDevice]]
  BY DEF Kubelet
<1>3. vol.block \in BOOLEAN /\ vol.kata \in BOOLEAN
  BY VolumeIs
<1>4. /\ Start("stage") = "lock" /\ Start("unstage") = "lock"
      /\ Start("publish") = IF vol.kata THEN "lock" ELSE IF vol.block THEN "device" ELSE "target"
      /\ Start("unpublish") = IF vol.kata THEN "lock" ELSE "unmount"
      /\ Start("expand") = IF vol.kata \/ ~vol.block THEN "lock" ELSE "rescan"
  BY <1>3 DEF Start, Serialised
<1>5. op \in {"publish", "unpublish"} => p \in Pods
  BY <1>2 DEF Due, CallsOK
<1>6. Fits([op |-> op, pc |-> Start(op), pod |-> p, dev |-> NoDevice])
  BY <1>3, <1>4, <1>5 DEF Fits, Ops
<1>7. Start(op) \in Points /\ Start(op) # "idle"
  BY <1>4 DEF Ops, Points
<1> QED
  BY <1>1, <1>2, <1>6, <1>7 DEF Kubelet

LEMMA IdleFits == Idle \in Call /\ Fits(Idle)
<1>1. Idle = [op |-> "none", pc |-> "idle", pod |-> NoPod, dev |-> NoDevice]
  BY DEF Idle
<1>2. NoDevice \in Devices
  BY DEF Devices
<1> QED
  BY <1>1, <1>2 DEF Call, Fits, Points

LEMMA ToldTypes ==
  ASSUME CallsOK, NEW s \in Slots, NEW code \in {"ok", "final", "uncertain"}, Told(calls[s], code)
  PROVE  /\ dev' \in {"no", "uncertain", "yes", "unstaged"}
         /\ pod' \in [Pods -> {"new", "wanted", "trying", "up", "gone"}] /\ deleted' \subseteq Pods
<1>1. calls[s].op \in {"publish", "unpublish"} => calls[s].pod \in Pods
  BY DEF CallsOK, Fits
<1> QED
  BY <1>1, ToldIs DEF CallsOK

LEMMA UnsureTypes ==
  ASSUME CallsOK, Unsure
  PROVE  /\ dev' \in {"no", "uncertain", "yes", "unstaged"}
         /\ pod' \in [Pods -> {"new", "wanted", "trying", "up", "gone"}] /\ deleted' \subseteq Pods
BY DEF CallsOK, Unsure

LEMMA CallsNext ==
  ASSUME CallsOK, StateOK, [VolumeNext]_volumeVars
  PROVE  CallsOK'
<1>1. vol' = vol
  BY Moves
<1>2. ASSUME NEW s \in Slots, NEW c \in Call, Fits(c), calls' = [calls EXCEPT ![s] = c]
      PROVE  calls' \in [Slots -> Call] /\ \A t \in Slots : Fits(calls[t])'
  <2>1. calls' \in [Slots -> Call] /\ \A t \in Slots : calls'[t] = IF t = s THEN c ELSE calls[t]
    BY <1>2 DEF CallsOK
  <2>2. \A t \in Slots : Fits(calls'[t])
    BY <1>2, <2>1 DEF CallsOK
  <2>3. \A t \in Slots : Fits(calls[t])' <=> Fits(calls'[t])
    BY <1>1 DEF Fits, Linux
  <2> QED
    BY <2>1, <2>2, <2>3
<1>3. ASSUME NEW s \in Slots, Goes(s) PROVE CallsOK'
  <2>1. PICK x \in Points, d \in Devices :
          /\ Moved(s, x, d) /\ Fits([op |-> calls[s].op, pc |-> x, pod |-> calls[s].pod, dev |-> d])
    BY <1>3 DEF Goes
  <2>2. [op |-> calls[s].op, pc |-> x, pod |-> calls[s].pod, dev |-> d] \in Call
    BY DEF CallsOK, Call
  <2> QED
    BY <1>2, <2>1, <2>2 DEF CallsOK, Moved, kubelet
<1>4. ASSUME NEW s \in Slots, Ends(s) PROVE CallsOK'
  <2>1. PICK code \in {"ok", "final", "uncertain"} : Answer(s, code)
    BY <1>4 DEF Ends, Done
  <2>2. calls' \in [Slots -> Call] /\ \A t \in Slots : Fits(calls[t])'
    BY <1>2, <2>1, IdleFits DEF Answer
  <2>3. CASE current = s
    BY <2>1, <2>2, <2>3, ToldTypes DEF Answer, CallsOK
  <2>4. CASE current # s
    BY <2>1, <2>2, <2>4 DEF Answer, CallsOK, kubelet
  <2> QED
    BY <2>3, <2>4
<1>5. CASE CallStarts
  <2>1. PICK op \in Ops : Kubelet(op)
    BY <1>5 DEF CallStarts
  <2>2. PICK s \in Slots, p \in Pods \cup {NoPod} :
           /\ current' = s /\ calls' = [calls EXCEPT ![s] = [op |-> op, pc |-> Start(op), pod |-> p, dev |-> NoDevice]]
           /\ dev' = (IF op = "stage" /\ dev = "unstaged" THEN "no" ELSE dev) /\ pod' = pod /\ deleted' = deleted
           /\ Start(op) \in Points /\ Fits([op |-> op, pc |-> Start(op), pod |-> p, dev |-> NoDevice])
    BY <2>1, CallStarted
  <2>3. [op |-> op, pc |-> Start(op), pod |-> p, dev |-> NoDevice] \in Call
    BY <2>2 DEF Call, Devices
  <2> QED
    BY <1>2, <2>2, <2>3 DEF CallsOK
<1>6. ASSUME UNCHANGED <<calls, current>>,
             /\ dev' \in {"no", "uncertain", "yes", "unstaged"}
             /\ pod' \in [Pods -> {"new", "wanted", "trying", "up", "gone"}] /\ deleted' \subseteq Pods
      PROVE  CallsOK'
  <2>1. \A t \in Slots : Fits(calls[t])' <=> Fits(calls[t])
    BY <1>1, <1>6 DEF Fits, Linux
  <2> QED
    BY <1>6, <2>1 DEF CallsOK
<1>7. CASE PodMoves \/ (\E p \in Pods : Delete(p)) \/ UNCHANGED <<calls, current, dev, pod, deleted>>
  BY <1>6, <1>7 DEF CallsOK, PodMoves, Schedule, Forget, Delete
<1>8. CASE KubeletRestarts
  BY <1>6, <1>8, UnsureTypes DEF KubeletRestarts
<1>9. CASE GiveUp
  <2>1. calls' = calls /\ current' = NoCall /\ current \in Slots /\ Told(calls[current], "uncertain")
    BY <1>9 DEF GiveUp, CallsOK
  <2>2. \A t \in Slots : Fits(calls[t])' <=> Fits(calls[t])
    BY <1>1, <2>1 DEF Fits, Linux
  <2> QED
    BY <2>1, <2>2, ToldTypes DEF CallsOK
<1>10. CASE CallsStop
  <2>1. calls' = [s \in Slots |-> Idle] /\ current' = NoCall
    BY <1>10 DEF CallsStop, CallsEnd
  <2>2. \A t \in Slots : Fits(calls[t])'
    <3>1. \A t \in Slots : calls'[t] = Idle
      BY <2>1
    <3>2. \A t \in Slots : Fits(calls[t])' <=> Fits(calls'[t])
      BY <1>1 DEF Fits, Linux
    <3> QED
      BY <3>1, <3>2, IdleFits
  <2>3. /\ dev' \in {"no", "uncertain", "yes", "unstaged"}
        /\ pod' \in [Pods -> {"new", "wanted", "trying", "up", "gone"}] /\ deleted' \subseteq Pods
    BY <1>10, ToldTypes, UnsureTypes DEF CallsStop, CallsOK, kubelet
  <2> QED
    BY <2>1, <2>2, <2>3, IdleFits DEF CallsOK
<1> QED
  BY <1>3, <1>4, <1>5, <1>7, <1>8, <1>9, <1>10, Moves DEF CallMoves

LEMMA DiskTypes ==
  ASSUME StateOK, [VolumeNext]_volumeVars
  PROVE  disk' \in DiskRecord
<1>1. disk.content \in Contents /\ disk.data \in BOOLEAN /\ disk.room \in {"fits", "grown", "seen"}
  BY DEF StateOK, DiskRecord
<1>2. Filled \in {"fits", "grown", "seen"} /\ ResizeVolume(disk.room) \in {"fits", "grown", "seen"}
  BY <1>1 DEF Filled, ResizeVolume
<1>3. SetDiskState(disk.content) \in Contents /\ PartitionDisk(disk.content) \in Contents /\ Interrupted(disk.content) \subseteq Contents
  BY <1>1 DEF SetDiskState, PartitionDisk, InitializeDisk, CreateBasicPartition, Interrupted, Contents, LinuxContents, WindowsContents
<1>4. ASSUME NEW x \in Contents, disk' = [disk EXCEPT !.content = x] PROVE disk' \in DiskRecord
  BY <1>4 DEF StateOK, DiskRecord
<1>5. ASSUME NEW x \in {"fits", "grown", "seen"}, disk' = [disk EXCEPT !.room = x] PROVE disk' \in DiskRecord
  BY <1>5 DEF StateOK, DiskRecord
<1>6. ASSUME NEW s, Written(s) PROVE disk' \in DiskRecord
  <2>1. (disk.data \/ (current = s /\ vol.mode # "ro")) \in BOOLEAN
    OBVIOUS
  <2> QED
    BY <1>6, <2>1 DEF Written, StateOK, DiskRecord
<1>7. ASSUME NEW b, disk' \in IF b THEN {[disk EXCEPT !.content = c] : c \in Interrupted(disk.content)} ELSE {disk}
      PROVE  disk' \in DiskRecord
  BY <1>3, <1>4, <1>7 DEF StateOK
<1>8. ASSUME disk' = disk PROVE disk' \in DiskRecord
  BY <1>8 DEF StateOK
<1>9. ASSUME NEW s \in Slots, CallStep(s) \/ CommandFails(s) PROVE disk' \in DiskRecord
  <2>1. CASE SetOnline(s)
    BY <1>3, <1>4, <1>8, <2>1 DEF SetOnline
  <2>2. CASE FormatAndMount(s)
    BY <1>3, <1>4, <1>8, <2>2 DEF FormatAndMount
  <2>3. CASE Format(s)
    BY <1>2, <2>3 DEF Format, DiskRecord, Contents, LinuxContents
  <2>4. CASE ResizeStaged(s)
    BY <1>2, <1>5, <1>8, <2>4 DEF ResizeStaged
  <2>5. CASE Assign(s)
    BY <1>6, <2>5 DEF Assign
  <2>6. CASE Bind(s) \/ Link(s)
    BY <1>6, <1>8, <2>6 DEF Bind, Link, Bound
  <2>7. CASE rescanVolume(s)
    BY <1>5, <1>8, <2>7 DEF rescanVolume
  <2>8. CASE ResizeOnline(s)
    BY <1>2, <1>5, <1>8, <2>8 DEF ResizeOnline
  <2>9. CASE CommandFails(s)
    BY <1>7, <2>9 DEF CommandFails
  <2>10. CASE disk' = disk
    BY <1>8, <2>10
  <2> QED
    BY <1>9, <2>1, <2>2, <2>3, <2>4, <2>5, <2>6, <2>7, <2>8, <2>9, <2>10
    DEF CallStep, NodeStageVolume, NodePublishVolume, NodeUnpublishVolume, NodeUnstageVolume, NodeExpandVolume, getDevicePathWithLUN,
        NotAcquired, Same, StageBegins, EnsureStaging, ensureMountPoint, Probe, Repair, MountStaging, MountVolume, PublishBegins,
        kataGetMountPod, Release, kataRestoreStaging, EnsureTarget, preparePublishPath, UnpublishBegins, UnmountTarget, CleanupMountPoint,
        RemoveRecord, UnstageBegins, shutdownFilesystem, UnmountStaging, UnmountVolume, Rmdir, ProxyUnmount, ExpandBegins,
        validateBlockDeviceSize
<1>10. CASE Grow
  BY <1>5, <1>10 DEF Grow
<1>11. CASE PluginRestarts \/ Reboot
  BY <1>7, <1>11 DEF PluginRestarts, Reboot, CallsEnd
<1>12. CASE (\E op \in Ops : Kubelet(op)) \/ (\E p \in Pods : Pod(p)) \/ GiveUp \/ KubeletRestarts \/ UNCHANGED volumeVars
  BY <1>8, <1>12 DEF Kubelet, Pod, Schedule, Delete, Forget, GuestStarts, GiveUp, KubeletRestarts, volumeVars
<1> QED
  BY <1>9, <1>10, <1>11, <1>12 DEF VolumeNext

(* The steps of calls that mount, unmount or shut down, or that write or   *)
(* remove a MountInfo; the others are quiet.                               *)
Mounts(s) == MountStaging(s) \/ MountVolume(s) \/ kataRestoreStaging(s)
Unmounts(s) == Release(s) \/ shutdownFilesystem(s) \/ UnmountStaging(s) \/ UnmountVolume(s) \/ ProxyUnmount(s)
Targets(s) == preparePublishPath(s) \/ Bind(s) \/ Link(s) \/ UnmountTarget(s) \/ CleanupMountPoint(s)
Records(s) == Assign(s) \/ RemoveRecord(s)
Loud(s) == Mounts(s) \/ Unmounts(s) \/ Targets(s) \/ Records(s) \/ EnsureStaging(s) \/ EnsureTarget(s)
Quiet == UNCHANGED <<mounts, fs, record>>

LEMMA KernelMoves ==
  ASSUME [VolumeNext]_volumeVars
  PROVE  \/ Quiet /\ UNCHANGED <<guest, stuck>>
         \/ \E p \in Pods : Delete(p) \/ GuestStarts(p)
         \/ \E s \in Slots : Loud(s)
         \/ Reboot
<1>1. ASSUME NEW s \in Slots, CallStep(s) \/ CommandFails(s) PROVE (Quiet /\ UNCHANGED <<guest, stuck>>) \/ Loud(s)
  BY <1>1 DEF CallStep, CommandFails, NodeStageVolume, NodePublishVolume, NodeUnpublishVolume, NodeUnstageVolume, NodeExpandVolume,
       getDevicePathWithLUN, NotAcquired, Same, StageBegins, Probe, SetOnline, FormatAndMount, Format, Repair, ResizeStaged, PublishBegins,
       kataGetMountPod, UnpublishBegins, UnstageBegins, Rmdir, ExpandBegins, rescanVolume, validateBlockDeviceSize, ResizeOnline,
       Loud, Mounts, Unmounts, Targets, Records, Quiet, kernel, kata
<1>2. CASE \/ (\E op \in Ops : Kubelet(op)) \/ (\E p \in Pods : Schedule(p) \/ Forget(p))
           \/ Grow \/ GiveUp \/ KubeletRestarts \/ PluginRestarts \/ UNCHANGED volumeVars
  BY <1>2 DEF Kubelet, Schedule, Forget, Grow, GiveUp, KubeletRestarts, PluginRestarts, volumeVars, Quiet, kernel, kata
<1> QED
  BY <1>1, <1>2 DEF VolumeNext, Pod

LEMMA MountTypes ==
  ASSUME StateOK, NEW x \in Places
  PROVE  /\ Mount(x) => mounts' \in [Places -> Nat] /\ fs' \in {"none", "live", "down"}
         /\ Unmount(x) /\ Mounted(x) => mounts' \in [Places -> Nat] /\ fs' \in {"none", "live", "down"}
BY DEF StateOK, Mount, Unmount, Mounted

LEMMA StateNext ==
  ASSUME CallsOK, StateOK, [VolumeNext]_volumeVars
  PROVE  StateOK'
<1> DEFINE Kernel == mounts' \in [Places -> Nat] /\ fs' \in {"none", "live", "down"}
<1>1. vol' \in Volumes /\ disk' \in DiskRecord
  BY Moves, DiskTypes DEF StateOK
<1>2. Staging \in Places /\ \A s \in Slots : calls[s].op \in {"publish", "unpublish"} => calls[s].pod \in Pods /\ calls[s].pod \in Places
  BY DEF Places, CallsOK, Fits
<1>3. ASSUME UNCHANGED kernel PROVE Kernel
  BY <1>3 DEF kernel, StateOK
<1>4. ASSUME NEW p \in Pods, NEW n \in Nat, mounts' = [mounts EXCEPT ![p] = n], fs' = fs PROVE Kernel
  BY <1>4 DEF StateOK, Places
<1>5. ASSUME NEW s \in Slots, Loud(s)
      PROVE  Kernel /\ guest' = guest /\ record' \in Pods \cup {NoPod} /\ stuck' \in BOOLEAN
  <2>1. CASE MountStaging(s) \/ kataRestoreStaging(s)
    <3>1. guest' = guest /\ record' = record /\ (stuck' = stuck \/ stuck' = (stuck \/ fs = "down"))
      BY <2>1 DEF MountStaging, kataRestoreStaging, kata
    <3>2. stuck' \in BOOLEAN
      BY <3>1 DEF StateOK
    <3> QED
      BY <1>2, <1>3, <2>1, <3>1, <3>2, MountTypes DEF MountStaging, kataRestoreStaging, StateOK
  <2>2. CASE MountVolume(s)
    BY <1>2, <2>2, MountTypes DEF MountVolume, StateOK, kata
  <2>3. CASE Unmounts(s)
    <3>1. guest' = guest /\ record' = record /\ stuck' = stuck
      BY <2>3 DEF Unmounts, Release, shutdownFilesystem, UnmountStaging, UnmountVolume, ProxyUnmount, kata
    <3>2. Kernel
      BY <1>2, <1>3, <2>3, MountTypes DEF Unmounts, Release, shutdownFilesystem, UnmountStaging, UnmountVolume, ProxyUnmount,
         getTarget, DeleteVolumeMountPoint, StateOK
    <3> QED
      BY <3>1, <3>2 DEF StateOK
  <2>4. CASE Targets(s)
    <3>1. guest' = guest /\ record' = record /\ stuck' = stuck
      BY <2>4 DEF Targets, preparePublishPath, Bind, Link, Bound, UnmountTarget, CleanupMountPoint, kata
    <3>2. calls[s].pod \in Pods /\ mounts[calls[s].pod] \in Nat
      BY <1>2, <2>4 DEF Targets, preparePublishPath, Bind, Link, Bound, UnmountTarget, CleanupMountPoint, At, StateOK
    <3>3. Kernel
      BY <1>2, <1>3, <1>4, <2>4, <3>2, MountTypes DEF Targets, preparePublishPath, Bind, Link, Bound, UnmountTarget, CleanupMountPoint, At, kernel
    <3> QED
      BY <3>1, <3>3 DEF StateOK
  <2>5. CASE Records(s)
    BY <1>2, <1>3, <2>5 DEF Records, Assign, RemoveRecord, At, StateOK
  <2>6. CASE EnsureStaging(s) \/ EnsureTarget(s)
    <3>0. PICK x \in Places : \E next : ensureMountPoint(s, x, next)
      BY <1>2, <2>6 DEF EnsureStaging, EnsureTarget, At
    <3>1. PICK next : ensureMountPoint(s, x, next)
      BY <3>0
    <3>2. (stuck \/ fs = "down") \in BOOLEAN
      OBVIOUS
    <3>3. guest' = guest /\ record' = record /\ stuck' \in BOOLEAN
      BY <3>1, <3>2 DEF ensureMountPoint, kata, StateOK
    <3>4. Kernel
      BY <1>3, <3>1, MountTypes DEF ensureMountPoint
    <3> QED
      BY <3>3, <3>4 DEF StateOK
  <2> QED
    BY <1>5, <2>1, <2>2, <2>3, <2>4, <2>5, <2>6 DEF Loud, Mounts
<1>6. CASE \E p \in Pods : Delete(p) \/ GuestStarts(p)
  BY <1>1, <1>6 DEF Delete, GuestStarts, StateOK, kernel
<1>7. CASE Reboot
  BY <1>1, <1>7 DEF Reboot, StateOK
<1>8. CASE Quiet /\ UNCHANGED <<guest, stuck>>
  BY <1>1, <1>8 DEF Quiet, StateOK
<1> QED
  BY <1>1, <1>5, <1>6, <1>7, <1>8, KernelMoves DEF StateOK

-----------------------------------------------------------------------------
(* The calls and what kubelet believes. One call at a time holds the lock  *)
(* of the volume; a call that waits for it is the one kubelet waits for.   *)
OneHolds == \A s, t \in Slots : Held(s) /\ Held(t) => s = t

Waits(s, op) == current = s /\ calls[s].op = op
Unstaging == \E s \in Slots : Waits(s, "unstage")
Active(p) == pod[p] \in {"wanted", "trying", "up"}

CurrentInv ==
  /\ current # NoCall => calls[current].op # "none"
  /\ \A s \in Slots :
       calls[s].pc = "lock" \/ (~vol.kata /\ calls[s].op = "publish" /\ calls[s].pc = "target") => current = s

(* Kubelet stages what it does not hold staged; a call that unstages what  *)
(* it holds staged is the one it waits for.                                *)
StageInv == \A s \in Slots : calls[s].op = "stage" => dev \in {"no", "uncertain"}
UnstageInv == \A s \in Slots : calls[s].op = "unstage" /\ dev = "yes" => current = s

(* A volume is published while it is staged, and unstaged while no pod may *)
(* have it.                                                                *)
PodInv ==
  /\ \A s \in Slots : Waits(s, "publish") => dev = "yes" /\ pod[calls[s].pod] \in {"wanted", "trying"}
  /\ \A s \in Slots : Waits(s, "unpublish") => pod[calls[s].pod] \in {"trying", "up"}
  /\ \A s \in Slots : calls[s].op = "unpublish" => calls[s].pod \in deleted
  /\ Unstaging \/ dev = "unstaged" => \A p \in Pods : pod[p] \in {"new", "gone", "wanted"}
  /\ \A p \in Pods : pod[p] = "up" => dev = "yes"

(* With Kata one pod at a time has to do with the volume, and kubelet is   *)
(* not sure of the one whose call it gave up.                              *)
KataInv ==
  vol.kata =>
    /\ \A p, q \in Pods : Active(p) /\ Active(q) => p = q
    /\ \A s \in Slots : Held(s) /\ calls[s].op \in {"publish", "unpublish"} /\ current # s => pod[calls[s].pod] = "trying"
    /\ dev = "unstaged" => \A s \in Slots : calls[s].op # "publish"

CallInv == OneHolds /\ CurrentInv /\ StageInv /\ UnstageInv /\ PodInv /\ KataInv

(* The next state after a step of a call, after its answer and after the   *)
(* start of one, in the terms of the invariants.                           *)
LEMMA GoesFrame ==
  ASSUME CallsOK, NEW s \in Slots, Goes(s)
  PROVE  /\ current' = current /\ dev' = dev /\ pod' = pod /\ deleted' = deleted
         /\ calls'[s].op = calls[s].op /\ calls'[s].pod = calls[s].pod /\ Entry(calls[s], calls'[s].pc)
         /\ \A t \in Slots : t # s => calls'[t] = calls[t]
BY DEF Goes, Moved, CallsOK, kubelet

LEMMA EndsFrame ==
  ASSUME CallsOK, NEW s \in Slots, Ends(s)
  PROVE  /\ calls'[s] = Idle /\ calls'[s].op = "none" /\ calls'[s].pc = "idle"
         /\ \A t \in Slots : t # s => calls'[t] = calls[t]
         /\ \E code \in {"ok", "final", "uncertain"} :
              /\ Done(calls[s], code)
              /\ IF current = s THEN current' = NoCall /\ Told(calls[s], code)
                 ELSE UNCHANGED <<current, dev, pod, deleted>>
<1>1. PICK code : Answer(s, code) /\ Done(calls[s], code)
  BY DEF Ends
<1>2. code \in {"ok", "final", "uncertain"}
  BY <1>1 DEF Done
<1> QED
  BY <1>1, <1>2 DEF Answer, CallsOK, Idle, kubelet

LEMMA HeldIs ==
  ASSUME vol' = vol, NEW s \in Slots
  PROVE  Held(s)' <=> calls'[s].pc \notin {"idle", "lock"} /\ Serialised(calls'[s].op)
BY DEF Held, Serialised

LEMMA HeldNext ==
  ASSUME CallsOK, StateOK, OneHolds, [VolumeNext]_volumeVars
  PROVE  OneHolds'
<1>1. vol' = vol
  BY Moves
<1>2. ASSUME NEW s \in Slots, Goes(s) PROVE OneHolds'
  <2>1. calls'[s].op = calls[s].op /\ Entry(calls[s], calls'[s].pc) /\ \A t \in Slots : t # s => calls'[t] = calls[t]
    BY <1>2, GoesFrame
  <2>2. calls[s].op # "none" /\ (calls[s].pc = "lock" => ~Busy)
    BY <2>1 DEF Entry
  <2>3. calls[s].pc # "idle"
    <3>1. CASE calls[s].pc = "idle"
      <4>1. Fits(calls[s]) /\ calls[s] \in Call
        BY DEF CallsOK
      <4> QED
        BY <2>2, <3>1, <4>1 DEF Fits, Call, Ops
    <3> QED
      BY <3>1
  <2>4. \A t \in Slots : t # s => (Held(t)' <=> Held(t))
    BY <1>1, <2>1, HeldIs DEF Held
  <2>5. CASE calls[s].pc = "lock"
    BY <2>2, <2>4, <2>5, BusyIsHeld DEF OneHolds
  <2>6. CASE calls[s].pc # "lock"
    <3>1. Held(s)' => Held(s)
      BY <1>1, <2>1, <2>3, <2>6, HeldIs DEF Held
    <3> QED
      BY <2>4, <3>1 DEF OneHolds
  <2> QED
    BY <2>5, <2>6
<1>3. ASSUME NEW s \in Slots, Ends(s) PROVE OneHolds'
  BY <1>1, <1>3, EndsFrame, HeldIs DEF OneHolds, Held
<1>4. CASE CallStarts
  <2>1. PICK op \in Ops, s \in Slots, p \in Pods \cup {NoPod} :
           /\ calls' = [calls EXCEPT ![s] = [op |-> op, pc |-> Start(op), pod |-> p, dev |-> NoDevice]]
    BY <1>4, CallStarted DEF CallStarts
  <2>2. Serialised(op) => Start(op) = "lock"
    BY DEF Start
  <2>3. ~Held(s)' /\ \A t \in Slots : t # s => (Held(t)' <=> Held(t))
    BY <1>1, <2>1, <2>2, HeldIs DEF Held, CallsOK
  <2> QED
    BY <2>3 DEF OneHolds
<1>5. CASE CallsStop
  <2>1. \A t \in Slots : calls'[t].pc = "idle"
    BY <1>5 DEF CallsStop, CallsEnd, Idle
  <2> QED
    BY <1>1, <2>1, HeldIs DEF OneHolds
<1>6. CASE calls' = calls
  BY <1>1, <1>6 DEF OneHolds, Held, Serialised
<1> QED
  BY <1>2, <1>3, <1>4, <1>5, <1>6, Moves DEF CallMoves, PodMoves, Schedule, Forget, Delete, GiveUp, KubeletRestarts

LEMMA ToldKeeps ==
  ASSUME CallsOK, StageInv, PodInv, NEW s \in Slots, current = s, NEW code \in {"ok", "final", "uncertain"}, Told(calls[s], code)
  PROVE  /\ deleted' = deleted
         /\ dev' = "unstaged" => \A p \in Pods : pod'[p] \in {"new", "gone", "wanted"}
         /\ \A p \in Pods : pod'[p] = "up" => dev' = "yes"
         /\ \A p \in Pods : Active(p)' => Active(p)
<1> DEFINE c == calls[s]
<1>1. c \in Call /\ (c.op \in {"publish", "unpublish"} => c.pod \in Pods)
  BY DEF CallsOK, Fits
<1>2. pod \in [Pods -> {"new", "wanted", "trying", "up", "gone"}]
  BY DEF CallsOK
<1>3. deleted' = deleted
  BY ToldIs
<1>4. CASE c.op = "stage"
  BY <1>2, <1>3, <1>4, ToldIs DEF StageInv, PodInv, Active
<1>5. CASE c.op = "unstage"
  <2>1. \A p \in Pods : pod[p] \in {"new", "gone", "wanted"}
    BY <1>5 DEF PodInv, Unstaging, Waits
  <2> QED
    BY <1>2, <1>3, <1>5, <2>1, ToldIs DEF Active
<1>6. CASE c.op = "publish"
  <2>1. dev = "yes" /\ pod[c.pod] \in {"wanted", "trying"}
    BY <1>6 DEF PodInv, Waits
  <2>2. dev' = dev /\ pod' = [pod EXCEPT ![c.pod] = IF code = "ok" THEN "up" ELSE IF code = "final" THEN "wanted" ELSE "trying"]
    BY <1>6, ToldIs
  <2> QED
    BY <1>1, <1>2, <1>3, <1>6, <2>1, <2>2 DEF Active
<1>7. CASE c.op = "unpublish"
  <2>1. pod[c.pod] \in {"trying", "up"}
    BY <1>7 DEF PodInv, Waits
  <2>2. dev' = dev /\ pod' = [pod EXCEPT ![c.pod] = IF code = "ok" THEN "gone" ELSE "trying"]
    BY <1>7, ToldIs
  <2>3. dev # "unstaged"
    BY <1>1, <1>7, <2>1 DEF PodInv
  <2> QED
    BY <1>1, <1>2, <1>3, <1>7, <2>1, <2>2, <2>3 DEF Active, PodInv
<1>8. CASE c.op \in {"expand", "none"}
  BY <1>3, <1>8, ToldIs DEF PodInv, Active
<1> QED
  BY <1>1, <1>4, <1>5, <1>6, <1>7, <1>8 DEF Call, Ops

LEMMA UnsureKeeps ==
  ASSUME CallsOK, PodInv, Unsure
  PROVE  /\ deleted' = deleted
         /\ dev' = (IF dev = "yes" THEN "uncertain" ELSE dev)
         /\ dev' = "unstaged" => \A p \in Pods : pod'[p] \in {"new", "gone", "wanted"}
         /\ \A p \in Pods : pod'[p] # "up"
         /\ \A p \in Pods : pod[p] = "trying" => pod'[p] = "trying"
         /\ \A p \in Pods : Active(p)' => Active(p)
BY DEF CallsOK, PodInv, Unsure, Active

(* An answer other than "uncertain" comes from a call that held the lock,  *)
(* or that found it free.                                                  *)
LEMMA LockDecides ==
  ASSUME CallsOK, OneHolds, NEW s \in Slots, NEW t \in Slots, t # s, Held(t), NEW code, Done(calls[s], code),
         Serialised(calls[s].op)
  PROVE  code = "uncertain"
<1>1. calls[s].pc # "idle"
  <2>1. Fits(calls[s]) /\ calls[s] \in Call
    BY DEF CallsOK
  <2> QED
    BY <2>1 DEF Fits, Done, Call, Ops
<1>2. calls[s].pc = "lock"
  BY <1>1 DEF OneHolds, Held
<1>3. Busy
  BY BusyIsHeld
<1> QED
  BY <1>2, <1>3 DEF Done

LEMMA HoldsOrWaits ==
  ASSUME CallsOK, CurrentInv, NEW t \in Slots, calls[t].op \in {"stage", "unstage"} \/ (vol.kata /\ calls[t].op \in {"publish", "unpublish"})
  PROVE  Held(t) \/ current = t
<1>1. Serialised(calls[t].op)
  BY DEF Serialised
<1>2. calls[t].pc # "idle"
  <2>1. Fits(calls[t]) /\ calls[t] \in Call
    BY DEF CallsOK
  <2> QED
    BY <2>1 DEF Fits, Call, Ops
<1> QED
  BY <1>1, <1>2 DEF Held, CurrentInv

LEMMA GoesKeepsCalls ==
  ASSUME CallsOK, StateOK, CallInv, NEW s \in Slots, Goes(s), vol' = vol
  PROVE  CurrentInv' /\ StageInv' /\ UnstageInv' /\ PodInv' /\ KataInv'
<1>1. /\ current' = current /\ dev' = dev /\ pod' = pod /\ deleted' = deleted
      /\ calls'[s].op = calls[s].op /\ calls'[s].pod = calls[s].pod /\ Entry(calls[s], calls'[s].pc)
      /\ \A t \in Slots : t # s => calls'[t] = calls[t]
  BY GoesFrame
<1>2. \A t \in Slots : calls'[t].op = calls[t].op /\ calls'[t].pod = calls[t].pod
  BY <1>1
<1>3. calls'[s].pc # "lock" /\ (calls[s].op = "publish" /\ calls'[s].pc = "target" => vol.kata) /\ calls[s].op # "none"
  BY <1>1 DEF Entry
<1>4. CurrentInv'
  BY <1>1, <1>2, <1>3, SlotAssumption DEF CurrentInv, CallInv, CallsOK
<1>5. StageInv' /\ UnstageInv'
  BY <1>1, <1>2 DEF StageInv, UnstageInv, CallInv
<1>6. \A t \in Slots : \A op : Waits(t, op)' <=> Waits(t, op)
  BY <1>1, <1>2 DEF Waits
<1>7. PodInv'
  BY <1>1, <1>2, <1>6 DEF PodInv, Unstaging, CallInv
<1>8. KataInv'
  <2> SUFFICES ASSUME vol.kata PROVE KataInv'
    BY DEF KataInv
  <2>1. \A t \in Slots : Held(t)' /\ calls[t].op \in {"publish", "unpublish"} => Held(t) \/ current = t
    BY HoldsOrWaits DEF CallInv
  <2> QED
    BY <1>1, <1>2, <2>1 DEF KataInv, Active, CallInv
<1> QED
  BY <1>4, <1>5, <1>7, <1>8

LEMMA EndsKeepsCalls ==
  ASSUME CallsOK, StateOK, CallInv, NEW s \in Slots, Ends(s), vol' = vol
  PROVE  CurrentInv' /\ StageInv' /\ UnstageInv' /\ PodInv' /\ KataInv'
<1>1. /\ calls'[s].op = "none" /\ calls'[s].pc = "idle"
      /\ \A t \in Slots : t # s => calls'[t] = calls[t]
  BY EndsFrame
<1>2. \A t \in Slots : t # s => (Held(t)' <=> Held(t))
  BY <1>1, HeldIs DEF Held
<1>3. ~Held(s)'
  BY <1>1, HeldIs
<1>4. CASE current # s
  <2>1. UNCHANGED <<current, dev, pod, deleted>>
    BY <1>4, EndsFrame
  <2>2. CurrentInv' /\ StageInv' /\ UnstageInv'
    BY <1>1, <1>4, <2>1, SlotAssumption DEF CallInv, CurrentInv, StageInv, UnstageInv, CallsOK
  <2>3. PodInv'
    BY <1>1, <1>4, <2>1 DEF CallInv, PodInv, Unstaging, Waits
  <2>4. KataInv'
    BY <1>1, <1>2, <1>3, <1>4, <2>1 DEF CallInv, KataInv, Active
  <2> QED
    BY <2>2, <2>3, <2>4
<1>5. CASE current = s
  <2>1. PICK code \in {"ok", "final", "uncertain"} : Done(calls[s], code) /\ current' = NoCall /\ Told(calls[s], code)
    BY <1>5, EndsFrame
  <2>2. NoCall \notin Slots
    BY SlotAssumption
  <2>3. \A t \in Slots : t # s => ~(calls[t].pc = "lock" \/ (~vol.kata /\ calls[t].op = "publish" /\ calls[t].pc = "target"))
    BY <1>5 DEF CallInv, CurrentInv
  <2>4. CurrentInv'
    BY <1>1, <2>1, <2>2, <2>3 DEF CurrentInv
  <2>5. ASSUME NEW t \in Slots, t # s, Serialised(calls[s].op),
               calls[t].op \in {"stage", "unstage"} \/ (vol.kata /\ calls[t].op \in {"publish", "unpublish"})
        PROVE  code = "uncertain"
    <3>1. Held(t)
      BY <1>5, <2>5, HoldsOrWaits DEF CallInv
    <3> QED
      BY <2>1, <2>5, <3>1, LockDecides DEF CallInv
  <2>6. dev' = IF calls[s].op = "stage" THEN IF code = "ok" THEN "yes" ELSE IF code = "final" THEN "no" ELSE "uncertain"
               ELSE IF calls[s].op = "unstage" THEN IF code = "ok" THEN "unstaged" ELSE "uncertain"
               ELSE dev
    BY <2>1, ToldIs
  <2>7. calls[s].op \in {"stage", "unstage"} => Serialised(calls[s].op)
    BY DEF Serialised
  <2>8. StageInv'
    BY <1>1, <2>5, <2>6, <2>7 DEF CallInv, StageInv
  <2>9. UnstageInv'
    BY <1>1, <1>5, <2>5, <2>6, <2>7 DEF CallInv, UnstageInv
  <2>10. /\ deleted' = deleted
         /\ dev' = "unstaged" => \A p \in Pods : pod'[p] \in {"new", "gone", "wanted"}
         /\ \A p \in Pods : pod'[p] = "up" => dev' = "yes"
         /\ \A p \in Pods : Active(p)' => Active(p)
    BY <1>5, <2>1, ToldKeeps DEF CallInv
  <2>11. PodInv'
    BY <1>1, <2>1, <2>2, <2>10 DEF CallInv, PodInv, Unstaging, Waits
  <2>12. KataInv'
    <3> SUFFICES ASSUME vol.kata PROVE KataInv'
      BY DEF KataInv
    <3>1. Serialised(calls[s].op)
      BY DEF Serialised
    <3>2. ASSUME NEW t \in Slots, Held(t)', calls'[t].op \in {"publish", "unpublish"} PROVE pod'[calls'[t].pod] = "trying"
      <4>1. t # s /\ calls'[t] = calls[t] /\ Held(t) /\ calls[t].pod \in Pods
        BY <1>1, <1>2, <1>3, <3>2 DEF CallsOK, Fits
      <4>2. pod[calls[t].pod] = "trying"
        BY <1>5, <3>2, <4>1 DEF CallInv, KataInv
      <4>3. code = "uncertain"
        BY <2>5, <3>1, <3>2, <4>1
      <4>4. pod' = IF calls[s].op = "publish" THEN [pod EXCEPT ![calls[s].pod] = "trying"]
                   ELSE IF calls[s].op = "unpublish" THEN [pod EXCEPT ![calls[s].pod] = "trying"] ELSE pod
        BY <2>1, <4>3, ToldIs
      <4> QED
        BY <4>1, <4>2, <4>4 DEF CallsOK
    <3>3. dev' = "unstaged" => \A t \in Slots : calls'[t].op # "publish"
      BY <1>1, <2>5, <2>6, <3>1 DEF CallInv, KataInv
    <3>4. \A p, q \in Pods : Active(p)' /\ Active(q)' => p = q
      BY <2>10 DEF CallInv, KataInv
    <3> QED
      BY <3>2, <3>3, <3>4 DEF KataInv
  <2> QED
    BY <2>4, <2>8, <2>9, <2>11, <2>12
<1> QED
  BY <1>4, <1>5

LEMMA StartKeepsCalls ==
  ASSUME CallsOK, StateOK, CallInv, NEW op \in Ops, Kubelet(op), vol' = vol
  PROVE  CurrentInv' /\ StageInv' /\ UnstageInv' /\ PodInv' /\ KataInv'
<1>1. PICK s \in Slots, p \in Pods \cup {NoPod} :
           /\ current = NoCall /\ current' = s /\ calls[s] = Idle /\ Due(op, p)
           /\ calls' = [calls EXCEPT ![s] = [op |-> op, pc |-> Start(op), pod |-> p, dev |-> NoDevice]]
           /\ dev' = (IF op = "stage" /\ dev = "unstaged" THEN "no" ELSE dev) /\ pod' = pod /\ deleted' = deleted
  BY CallStarted
<1>2. NoCall \notin Slots /\ current \notin Slots
  BY <1>1, SlotAssumption
<1>3. /\ calls'[s].op = op /\ calls'[s].pod = p /\ calls'[s].pc = Start(op)
      /\ \A t \in Slots : t # s => calls'[t] = calls[t]
  BY <1>1 DEF CallsOK
<1>4. op # "none"
  BY DEF Ops
<1>5. CurrentInv'
  BY <1>1, <1>2, <1>3, <1>4 DEF CallInv, CurrentInv
<1>6. StageInv'
  BY <1>1, <1>3 DEF CallInv, StageInv, Due, CallsOK
<1>7. UnstageInv'
  BY <1>1, <1>2, <1>3 DEF CallInv, UnstageInv
<1>8. op = "publish" => p \in Pods /\ dev = "yes" /\ pod[p] \in {"wanted", "trying"}
  BY <1>1 DEF Due, Wanting
<1>9. op = "unpublish" => p \in deleted /\ pod[p] \in {"trying", "up"}
  BY <1>1 DEF Due
<1>10. op = "unstage" => \A q \in Pods : pod[q] \in {"new", "gone"}
  BY <1>1 DEF Due
<1>11. PodInv'
  BY <1>1, <1>2, <1>3, <1>8, <1>9, <1>10 DEF CallInv, PodInv, Unstaging, Waits
<1>12. KataInv'
  <2> SUFFICES ASSUME vol.kata PROVE KataInv'
    BY DEF KataInv
  <2>1. Start(op) = "lock"
    BY DEF Start, Serialised
  <2>2. ~Held(s)' /\ \A t \in Slots : t # s => (Held(t)' <=> Held(t))
    BY <1>3, <2>1, HeldIs DEF Held
  <2> QED
    BY <1>1, <1>2, <1>3, <1>8, <2>2 DEF CallInv, KataInv, Active
<1> QED
  BY <1>5, <1>6, <1>7, <1>11, <1>12

LEMMA GiveUpKeepsCalls ==
  ASSUME CallsOK, StateOK, CallInv, GiveUp, vol' = vol
  PROVE  CurrentInv' /\ StageInv' /\ UnstageInv' /\ PodInv' /\ KataInv'
<1>1. PICK s \in Slots : current = s
  BY DEF GiveUp, CallsOK
<1>2. calls' = calls /\ current' = NoCall /\ Begun(calls[s]) /\ Told(calls[s], "uncertain")
  BY <1>1 DEF GiveUp
<1>3. NoCall \notin Slots
  BY SlotAssumption
<1>4. ~(calls[s].pc = "lock" \/ (~vol.kata /\ calls[s].op = "publish" /\ calls[s].pc = "target"))
  <2>1. Fits(calls[s]) /\ calls[s] \in Call
    BY DEF CallsOK
  <2>2. vol.block \in BOOLEAN /\ vol.kata \in BOOLEAN
    BY VolumeIs
  <2>3. calls[s].pc # "lock"
    BY <1>2, <2>1, <2>2 DEF Begun, Start, Serialised, Fits, Call, Ops
  <2>4. calls[s].op = "publish" /\ ~vol.kata => calls[s].pc # "target"
    BY <1>2, <2>1, <2>2 DEF Begun, Start, Serialised, Fits
  <2> QED
    BY <2>3, <2>4
<1>5. CurrentInv'
  BY <1>1, <1>2, <1>3, <1>4 DEF CallInv, CurrentInv
<1>6. dev' = IF calls[s].op \in {"stage", "unstage"} THEN "uncertain" ELSE dev
  BY <1>2, ToldIs
<1>7. StageInv' /\ UnstageInv'
  BY <1>1, <1>2, <1>6 DEF CallInv, StageInv, UnstageInv
<1>8. /\ deleted' = deleted
      /\ dev' = "unstaged" => \A p \in Pods : pod'[p] \in {"new", "gone", "wanted"}
      /\ \A p \in Pods : pod'[p] = "up" => dev' = "yes"
      /\ \A p \in Pods : Active(p)' => Active(p)
  BY <1>1, <1>2, ToldKeeps DEF CallInv
<1>9. PodInv'
  BY <1>2, <1>3, <1>8 DEF CallInv, PodInv, Unstaging, Waits
<1>10. KataInv'
  <2> SUFFICES ASSUME vol.kata PROVE KataInv'
    BY DEF KataInv
  <2>1. pod' = IF calls[s].op \in {"publish", "unpublish"} THEN [pod EXCEPT ![calls[s].pod] = "trying"] ELSE pod
    BY <1>2, ToldIs
  <2>2. \A t \in Slots : Held(t)' <=> Held(t)
    BY <1>2, HeldIs DEF Held
  <2>3. \A t \in Slots : calls[t].op \in {"publish", "unpublish"} => calls[t].pod \in Pods
    BY DEF CallsOK, Fits
  <2>4. \A t \in Slots : Held(t) /\ calls[t].op \in {"publish", "unpublish"} => pod'[calls[t].pod] = "trying"
    BY <1>1, <2>1, <2>3 DEF CallInv, KataInv, CallsOK
  <2>5. dev' = "unstaged" => dev = "unstaged"
    BY <1>6
  <2> QED
    BY <1>2, <1>8, <2>2, <2>4, <2>5 DEF CallInv, KataInv
<1> QED
  BY <1>5, <1>7, <1>9, <1>10

LEMMA CallInvNext ==
  ASSUME CallsOK, StateOK, CallInv, [VolumeNext]_volumeVars
  PROVE  CallInv'
<1>1. vol' = vol
  BY Moves
<1>2. OneHolds'
  BY HeldNext DEF CallInv
<1>3. CASE CallMoves
  BY <1>1, <1>2, <1>3, GoesKeepsCalls, EndsKeepsCalls DEF CallMoves, CallInv
<1>4. CASE CallStarts
  BY <1>1, <1>2, <1>4, StartKeepsCalls DEF CallStarts, CallInv
<1>5. CASE GiveUp
  BY <1>1, <1>2, <1>5, GiveUpKeepsCalls DEF CallInv
<1>6. ASSUME NEW p \in Pods, Schedule(p) \/ Forget(p) PROVE CallInv'
  <2>1. /\ UNCHANGED <<calls, current, dev, deleted>>
        /\ pod[p] \in {"new", "wanted"} /\ pod' = [pod EXCEPT ![p] = IF pod[p] = "new" THEN "wanted" ELSE "gone"]
    BY <1>6 DEF Schedule, Forget, CallsOK
  <2>2. pod[p] = "wanted" /\ current # NoCall => calls[current].pod # p
    BY <1>6 DEF Schedule, Forget
  <2>3. CurrentInv' /\ StageInv' /\ UnstageInv'
    BY <1>1, <2>1 DEF CallInv, CurrentInv, StageInv, UnstageInv
  <2>4. \A q \in Pods : pod'[q] = IF q = p THEN IF pod[p] = "new" THEN "wanted" ELSE "gone" ELSE pod[q]
    BY <2>1 DEF CallsOK
  <2>5. \A t \in Slots : \A op : Waits(t, op)' <=> Waits(t, op)
    BY <2>1 DEF Waits
  <2>6. \A t \in Slots : calls[t].op \in {"publish", "unpublish"} => calls[t].pod \in Pods
    BY DEF CallsOK, Fits
  <2>7. \A t \in Slots : Waits(t, "publish") => pod'[calls[t].pod] \in {"wanted", "trying"}
    <3> SUFFICES ASSUME NEW t \in Slots, Waits(t, "publish") PROVE pod'[calls[t].pod] \in {"wanted", "trying"}
      OBVIOUS
    <3>1. pod[calls[t].pod] \in {"wanted", "trying"} /\ calls[t].pod \in Pods /\ current = t
      BY <2>6 DEF CallInv, PodInv, Waits
    <3>2. t # NoCall
      BY SlotAssumption
    <3> QED
      BY <2>1, <2>2, <2>4, <3>1, <3>2
  <2>8. \A t \in Slots : Waits(t, "unpublish") => pod'[calls[t].pod] \in {"trying", "up"}
    BY <2>1, <2>4, <2>6 DEF CallInv, PodInv, Waits
  <2>9. PodInv'
    BY <2>1, <2>4, <2>5, <2>7, <2>8 DEF CallInv, PodInv, Unstaging
  <2>10. KataInv'
    <3> SUFFICES ASSUME vol.kata PROVE KataInv'
      BY <1>1 DEF KataInv
    <3>1. pod[p] = "new" => \A q \in Pods \ {p} : pod[q] \in {"new", "gone"}
      BY <1>6 DEF Schedule, Forget
    <3>2. \A q, r \in Pods : Active(q)' /\ Active(r)' => q = r
      BY <2>1, <2>4, <3>1 DEF CallInv, KataInv, Active
    <3>3. \A t \in Slots : Held(t)' <=> Held(t)
      BY <1>1, <2>1, HeldIs DEF Held
    <3>4. \A t \in Slots : calls[t].op \in {"publish", "unpublish"} /\ pod[calls[t].pod] = "trying" => pod'[calls[t].pod] = "trying"
      BY <2>1, <2>4, <2>6
    <3> QED
      BY <2>1, <3>2, <3>3, <3>4 DEF CallInv, KataInv
  <2> QED
    BY <1>2, <2>3, <2>9, <2>10 DEF CallInv
<1>7. CASE UNCHANGED <<calls, current, dev, pod>> /\ deleted \subseteq deleted'
  <2>1. \A t \in Slots : \A op : Waits(t, op)' <=> Waits(t, op)
    BY <1>7 DEF Waits
  <2>2. \A t \in Slots : Held(t)' <=> Held(t)
    BY <1>1, <1>7, HeldIs DEF Held
  <2>3. CurrentInv' /\ StageInv' /\ UnstageInv'
    BY <1>1, <1>7 DEF CallInv, CurrentInv, StageInv, UnstageInv
  <2>4. PodInv'
    BY <1>7, <2>1 DEF CallInv, PodInv, Unstaging
  <2>5. KataInv'
    BY <1>1, <1>7, <2>2 DEF CallInv, KataInv, Active
  <2> QED
    BY <1>2, <2>3, <2>4, <2>5 DEF CallInv
<1>8. CASE KubeletRestarts
  <2>1. UNCHANGED <<calls, current>> /\ current = NoCall /\ NoCall \notin Slots /\ Unsure
    BY <1>8, SlotAssumption DEF KubeletRestarts
  <2>2. \A t \in Slots : Held(t)' <=> Held(t)
    BY <1>1, <2>1, HeldIs DEF Held
  <2>3. \A t \in Slots : calls[t].op \in {"publish", "unpublish"} => calls[t].pod \in Pods
    BY DEF CallsOK, Fits
  <2>4. CurrentInv' /\ StageInv' /\ UnstageInv'
    BY <1>1, <2>1, UnsureKeeps DEF CallInv, CurrentInv, StageInv, UnstageInv
  <2>5. PodInv'
    BY <2>1, UnsureKeeps DEF CallInv, PodInv, Unstaging, Waits
  <2>6. KataInv'
    BY <1>1, <2>1, <2>2, <2>3, UnsureKeeps DEF CallInv, KataInv
  <2> QED
    BY <1>2, <2>4, <2>5, <2>6 DEF CallInv
<1>9. CASE CallsStop
  <2>1. current' = NoCall /\ NoCall \notin Slots /\ \A t \in Slots : calls'[t].op = "none" /\ calls'[t].pc = "idle"
    BY <1>9, SlotAssumption DEF CallsStop, CallsEnd, Idle
  <2>2. /\ dev' = "unstaged" => \A p \in Pods : pod'[p] \in {"new", "gone", "wanted"}
        /\ \A p \in Pods : pod'[p] = "up" => dev' = "yes"
        /\ \A p \in Pods : Active(p)' => Active(p)
    <3>1. CASE Unsure
      BY <3>1, UnsureKeeps DEF CallInv
    <3>2. CASE UNCHANGED kubelet
      BY <3>2 DEF kubelet, CallInv, PodInv, Active
    <3>3. CASE current # NoCall /\ Told(calls[current], "uncertain")
      BY <3>3, ToldKeeps DEF CallInv, CallsOK
    <3> QED
      BY <1>9, <3>1, <3>2, <3>3 DEF CallsStop
  <2>3. CurrentInv' /\ StageInv' /\ UnstageInv'
    BY <2>1 DEF CurrentInv, StageInv, UnstageInv
  <2>4. PodInv'
    BY <2>1, <2>2 DEF PodInv, Unstaging, Waits
  <2>5. KataInv'
    BY <1>1, <2>1, <2>2 DEF CallInv, KataInv
  <2> QED
    BY <1>2, <2>3, <2>4, <2>5 DEF CallInv
<1> QED
  BY <1>3, <1>4, <1>5, <1>6, <1>7, <1>8, <1>9, Moves DEF PodMoves, Delete

-----------------------------------------------------------------------------
(* What is on the disk. Where the volume is staged, published or about to  *)
(* be it has a file system; what is formatted has none, and what a pod has *)
(* written is not on a disk that looks empty.                              *)
Uses(c) == c.op = "publish" \/ (c.op = "stage" /\ (c.pc = "resize" \/ (c.pc = "mount" /\ ~Linux)))
Trusted == dev = "yes" \/ record # NoPod \/ mounts[Staging] > 0 \/ \E s \in Slots : Uses(calls[s])
Readable == vol.block \/ disk.content = "good"

GoodInv ==
  /\ Linux \/ disk.content \in WindowsContents
  /\ Trusted => Readable
  /\ \A s \in Slots : calls[s].pc = "format" => disk.content \in {"blank", "partitioned"}
  /\ disk.data => vol.block \/ disk.content \notin {"blank", "raw", "initialised", "partitioned"}

(* What a step does to the disk.                                           *)
Prepares(s) ==
  /\ At(s, "stage", "probe") /\ Rests /\ Quiet /\ disk'.data = disk.data
  /\ \/ disk.content = "offline" /\ disk'.content = "good"
     \/ disk.content \in {"raw", "initialised"} /\ disk'.content \in {"initialised", "partitioned"}

FormatStops ==
  /\ \E s \in Slots : calls[s].pc = "format" /\ (CommandFails(s) \/ PluginRestarts \/ Reboot)
  /\ disk'.data = disk.data /\ disk'.content \in Interrupted(disk.content)

LEMMA DiskMoves ==
  ASSUME StateOK, [VolumeNext]_volumeVars, Linux \/ disk.content \in WindowsContents
  PROVE  \/ /\ disk'.content = disk.content /\ (disk.data => disk'.data)
            /\ disk'.data => disk.data \/ \E s \in Slots : Uses(calls[s])
         \/ \E s \in Slots : Prepares(s) \/ Format(s)
         \/ FormatStops
<1> DEFINE Keeps == /\ disk'.content = disk.content /\ (disk.data => disk'.data)
                    /\ disk'.data => disk.data \/ \E s \in Slots : Uses(calls[s])
<1>1. ASSUME disk' = disk PROVE Keeps
  BY <1>1
<1>2. ASSUME NEW x, disk' = [disk EXCEPT !.room = x] PROVE Keeps
  BY <1>2 DEF StateOK, DiskRecord
<1>3. ASSUME NEW s \in Slots, calls[s].op = "publish", Written(s) PROVE Keeps
  <2>1. disk'.content = disk.content /\ disk'.data = (disk.data \/ (current = s /\ vol.mode # "ro"))
    BY <1>3 DEF Written, StateOK, DiskRecord
  <2>2. Uses(calls[s])
    BY <1>3 DEF Uses
  <2> QED
    BY <2>1, <2>2
<1>4. ASSUME NEW x, disk' = [disk EXCEPT !.content = x] PROVE disk'.content = x /\ disk'.data = disk.data
  BY <1>4 DEF StateOK, DiskRecord
<1>5. ASSUME NEW s \in Slots, CallStep(s) \/ CommandFails(s) PROVE Keeps \/ Prepares(s) \/ Format(s) \/ FormatStops
  <2>1. CASE SetOnline(s)
    <3>1. CASE disk' = disk
      BY <1>1, <3>1
    <3>2. CASE disk' = [disk EXCEPT !.content = SetDiskState(disk.content)] /\ Rests
      BY <1>4, <2>1, <3>2 DEF SetOnline, Prepares, SetDiskState, Quiet, kernel, kata
    <3> QED
      BY <2>1, <3>1, <3>2 DEF SetOnline, Rests
  <2>2. CASE FormatAndMount(s)
    <3>1. CASE disk' = disk
      BY <1>1, <3>1
    <3>2. CASE disk' = [disk EXCEPT !.content = PartitionDisk(disk.content)] /\ Rests /\ PartitionDisk(disk.content) # disk.content
      <4>1. disk.content \in {"raw", "initialised"} /\ PartitionDisk(disk.content) \in {"initialised", "partitioned"}
        BY <2>2, <3>2 DEF FormatAndMount, PartitionDisk, IsDiskInitialized, BasicPartitionsExist, InitializeDisk, CreateBasicPartition,
           WindowsContents
      <4> QED
        BY <1>4, <2>2, <3>2, <4>1 DEF FormatAndMount, Prepares, Quiet, kernel, kata
    <3> QED
      BY <2>2, <3>1, <3>2 DEF FormatAndMount, Rests
  <2>3. CASE Format(s)
    BY <2>3
  <2>4. CASE ResizeStaged(s)
    BY <1>1, <1>2, <2>4 DEF ResizeStaged
  <2>5. CASE Assign(s) \/ Bind(s) \/ Link(s)
    BY <1>1, <1>3, <2>5 DEF Assign, Bind, Link, Bound, At
  <2>6. CASE rescanVolume(s)
    BY <1>1, <1>2, <2>6 DEF rescanVolume
  <2>7. CASE ResizeOnline(s)
    BY <1>1, <1>2, <2>7 DEF ResizeOnline
  <2>8. CASE CommandFails(s)
    BY <1>1, <1>4, <2>8 DEF CommandFails, FormatStops
  <2>9. CASE disk' = disk
    BY <1>1, <2>9
  <2> QED
    BY <1>5, <2>1, <2>2, <2>3, <2>4, <2>5, <2>6, <2>7, <2>8, <2>9
    DEF CallStep, NodeStageVolume, NodePublishVolume, NodeUnpublishVolume, NodeUnstageVolume, NodeExpandVolume, getDevicePathWithLUN,
        NotAcquired, Same, StageBegins, EnsureStaging, ensureMountPoint, Probe, Repair, MountStaging, MountVolume, PublishBegins,
        kataGetMountPod, Release, kataRestoreStaging, EnsureTarget, preparePublishPath, UnpublishBegins, UnmountTarget, CleanupMountPoint,
        RemoveRecord, UnstageBegins, shutdownFilesystem, UnmountStaging, UnmountVolume, Rmdir, ProxyUnmount, ExpandBegins,
        validateBlockDeviceSize
<1>6. CASE Grow
  BY <1>2, <1>6 DEF Grow
<1>7. CASE PluginRestarts \/ Reboot
  BY <1>1, <1>4, <1>7 DEF PluginRestarts, Reboot, CallsEnd, FormatStops
<1>8. CASE (\E op \in Ops : Kubelet(op)) \/ (\E p \in Pods : Pod(p)) \/ GiveUp \/ KubeletRestarts \/ UNCHANGED volumeVars
  BY <1>1, <1>8 DEF Kubelet, Pod, Schedule, Delete, Forget, GuestStarts, GiveUp, KubeletRestarts, volumeVars
<1> QED
  BY <1>5, <1>6, <1>7, <1>8 DEF VolumeNext

(* Where the staging path is mounted, or a MountInfo written, the volume   *)
(* has a file system.                                                      *)
LEMMA StagingComes ==
  ASSUME CallsOK, StateOK, [VolumeNext]_volumeVars, mounts'[Staging] > 0
  PROVE  mounts[Staging] > 0 \/ disk'.content = "good" \/ \E s \in Slots : Uses(calls[s])
<1>1. Staging \in Places /\ \A s \in Slots : calls[s].op \in {"publish", "unpublish"} => calls[s].pod \in Pods /\ calls[s].pod # Staging
  BY PlaceAssumption DEF Places, CallsOK, Fits
<1>2. mounts[Staging] \in Nat
  BY <1>1 DEF StateOK
<1>3. ASSUME NEW s \in Slots, Loud(s) PROVE mounts[Staging] > 0 \/ disk'.content = "good" \/ Uses(calls[s])
  <2>1. CASE Mounts(s)
    BY <2>1 DEF Mounts, MountStaging, MountVolume, kataRestoreStaging, At, Uses, kernel
  <2>2. CASE Unmounts(s)
    BY <1>1, <1>2, <2>2 DEF Unmounts, Release, shutdownFilesystem, UnmountStaging, UnmountVolume, ProxyUnmount, getTarget, Mounted, kernel
  <2>3. CASE Targets(s)
    BY <1>1, <1>2, <2>3 DEF Targets, preparePublishPath, Bind, Link, Bound, UnmountTarget, CleanupMountPoint, At, Unmount, kernel, StateOK
  <2>4. CASE Records(s)
    BY <2>4 DEF Records, Assign, RemoveRecord, kernel
  <2>5. CASE EnsureStaging(s)
    BY <1>2, <2>5 DEF EnsureStaging, ensureMountPoint, Mounted, kernel
  <2>6. CASE EnsureTarget(s)
    BY <1>1, <1>2, <2>6 DEF EnsureTarget, At, ensureMountPoint, Unmount, kernel, StateOK
  <2> QED
    BY <1>3, <2>1, <2>2, <2>3, <2>4, <2>5, <2>6 DEF Loud
<1>4. CASE Reboot
  BY <1>1, <1>4 DEF Reboot
<1> QED
  BY <1>3, <1>4, KernelMoves DEF Quiet, Delete, GuestStarts, kernel

LEMMA RecordComes ==
  ASSUME [VolumeNext]_volumeVars, record' # NoPod
  PROVE  record # NoPod \/ \E s \in Slots : Uses(calls[s])
<1>1. ASSUME NEW s \in Slots, Loud(s) PROVE record # NoPod \/ Uses(calls[s])
  BY <1>1 DEF Loud, Mounts, MountStaging, MountVolume, kataRestoreStaging, Unmounts, Release, shutdownFilesystem, UnmountStaging,
     UnmountVolume, ProxyUnmount, Targets, preparePublishPath, Bind, Link, Bound, UnmountTarget, CleanupMountPoint, Records, Assign,
     RemoveRecord, EnsureStaging, EnsureTarget, ensureMountPoint, kata, At, Uses
<1> QED
  BY <1>1, KernelMoves DEF Quiet, Delete, GuestStarts, Reboot

LEMMA FormatHeld ==
  ASSUME CallsOK, OneHolds
  PROVE  /\ \A s \in Slots : calls[s].pc = "format" \/ At(s, "stage", "probe") => Held(s) /\ ~vol.block /\ calls[s].op = "stage"
         /\ \A s, t \in Slots : (calls[s].pc = "format" \/ At(s, "stage", "probe")) /\ calls[t].pc = "format" => s = t
<1>1. \A s \in Slots : calls[s].pc = "format" \/ At(s, "stage", "probe") => Held(s) /\ ~vol.block /\ calls[s].op = "stage"
  BY DEF CallsOK, Fits, Call, Ops, At, Held, Serialised
<1> QED
  BY <1>1 DEF OneHolds

(* Trust comes only with a file system.                                    *)
LEMMA TrustComes ==
  ASSUME CallsOK, StateOK, [VolumeNext]_volumeVars, Trusted'
  PROVE  Trusted \/ vol.block \/ disk'.content = "good"
<1> SUFFICES ASSUME ~Trusted, ~vol.block, disk'.content # "good" PROVE FALSE
  OBVIOUS
<1>1. vol' = vol
  BY Moves
<1>2. \A s \in Slots : ~Uses(calls[s])
  BY DEF Trusted
<1>3. ~(mounts'[Staging] > 0) /\ record' = NoPod
  BY <1>2, StagingComes, RecordComes DEF Trusted
<1>4. dev # "yes" /\ record = NoPod
  BY DEF Trusted
<1>6. dev' = "yes" \/ \E t \in Slots : Uses(calls'[t])
  <2>1. \A t \in Slots : Uses(calls[t])' => Uses(calls'[t])
    BY <1>1 DEF Uses, Linux
  <2> QED
    BY <1>3, <2>1 DEF Trusted
<1>7. ASSUME NEW s \in Slots, Goes(s) PROVE FALSE
  <2>1. dev' = dev /\ calls'[s].op = calls[s].op /\ Entry(calls[s], calls'[s].pc) /\ \A t \in Slots : t # s => calls'[t] = calls[t]
    BY <1>7, GoesFrame
  <2>2. Uses(calls'[s])
    BY <1>2, <1>4, <1>6, <2>1
  <2> QED
    BY <1>2, <2>1, <2>2 DEF Uses, Entry
<1>8. ASSUME NEW s \in Slots, Ends(s) PROVE FALSE
  <2>1. \A t \in Slots : ~Uses(calls'[t])
    BY <1>2, <1>8, EndsFrame DEF Uses
  <2>2. PICK code \in {"ok", "final", "uncertain"} : current = s /\ Done(calls[s], code) /\ Told(calls[s], code)
    BY <1>4, <1>6, <1>8, <2>1, EndsFrame
  <2>3. calls[s].op = "stage" /\ code = "ok"
    BY <1>4, <1>6, <2>1, <2>2, ToldIs
  <2> QED
    BY <1>2, <1>3, <1>4, <2>2, <2>3 DEF Done, Assigned, Uses
<1>9. CASE CallStarts
  <2>1. PICK op \in Ops : Kubelet(op)
    BY <1>9 DEF CallStarts
  <2>2. PICK s \in Slots, p \in Pods \cup {NoPod} :
           /\ Due(op, p) /\ calls' = [calls EXCEPT ![s] = [op |-> op, pc |-> Start(op), pod |-> p, dev |-> NoDevice]]
           /\ dev' = (IF op = "stage" /\ dev = "unstaged" THEN "no" ELSE dev)
    BY <2>1, CallStarted
  <2>3. op # "publish"
    BY <1>4, <2>2 DEF Due
  <2>4. op = "stage" => Start(op) = "lock"
    BY DEF Start, Serialised
  <2>5. \A t \in Slots : ~Uses(calls'[t])
    BY <1>2, <2>2, <2>3, <2>4 DEF Uses, CallsOK
  <2> QED
    BY <1>4, <1>6, <2>2, <2>5
<1>10. CASE CallsStop
  <2>1. \A t \in Slots : ~Uses(calls'[t])
    BY <1>10 DEF CallsStop, CallsEnd, Idle, Uses
  <2>2. dev' # "yes"
    BY <1>4, <1>10, ToldIs DEF CallsStop, Unsure, kubelet
  <2> QED
    BY <1>6, <2>1, <2>2
<1>11. CASE GiveUp
  BY <1>2, <1>4, <1>6, <1>11, ToldIs DEF GiveUp
<1>12. CASE calls' = calls /\ dev' # "yes"
  BY <1>2, <1>6, <1>12
<1> QED
  BY <1>4, <1>7, <1>8, <1>9, <1>10, <1>11, <1>12, Moves DEF CallMoves, PodMoves, Schedule, Forget, Delete, KubeletRestarts, Unsure

(* A call that comes to format has found nothing.                          *)
LEMMA FormatComes ==
  ASSUME CallsOK, StateOK, [VolumeNext]_volumeVars, NEW t \in Slots, calls'[t].pc = "format", calls[t].pc # "format"
  PROVE  disk.content \in {"blank", "partitioned"} /\ disk' = disk
<1>1. \A op \in Ops : Start(op) # "format"
  BY VolumeIs DEF Start, Ops, Serialised
<1>2. ASSUME NEW s \in Slots, Goes(s) PROVE disk.content \in {"blank", "partitioned"} /\ disk' = disk
  <2>1. s = t /\ Entry(calls[s], "format") /\ Fits(calls'[s]) /\ calls'[s].op = calls[s].op
    BY <1>2, GoesFrame DEF Goes, Moved, CallsOK
  <2> QED
    BY <2>1 DEF Entry, Fits, CallsOK, Call, Ops
<1>3. ASSUME NEW s \in Slots, Ends(s) PROVE FALSE
  BY <1>3, EndsFrame
<1>4. CASE CallStarts
  <2>1. PICK op \in Ops : Kubelet(op)
    BY <1>4 DEF CallStarts
  <2>2. PICK s \in Slots, p \in Pods \cup {NoPod} :
          calls' = [calls EXCEPT ![s] = [op |-> op, pc |-> Start(op), pod |-> p, dev |-> NoDevice]]
    BY <2>1, CallStarted
  <2> QED
    BY <1>1, <2>2 DEF CallsOK
<1>5. CASE CallsStop
  BY <1>5 DEF CallsStop, CallsEnd, Idle
<1>6. CASE calls' = calls
  BY <1>6
<1> QED
  BY <1>2, <1>3, <1>4, <1>5, <1>6, Moves DEF CallMoves, PodMoves, Schedule, Forget, Delete, GiveUp, KubeletRestarts

LEMMA GoodNext ==
  ASSUME CallsOK, StateOK, OneHolds, GoodInv, [VolumeNext]_volumeVars
  PROVE  GoodInv' /\ (disk.data => disk'.data)
<1>1. vol' = vol /\ (Linux' <=> Linux)
  BY Moves DEF Linux
<1>2. Trusted => vol.block \/ disk.content = "good"
  BY DEF GoodInv, Readable
<1>3. /\ Linux \/ disk.content \in WindowsContents
      /\ \A s \in Slots : calls[s].pc = "format" => disk.content \in {"blank", "partitioned"}
      /\ disk.data => vol.block \/ disk.content \notin {"blank", "raw", "initialised", "partitioned"}
  BY DEF GoodInv
<1>4. SUFFICES /\ Linux \/ disk'.content \in WindowsContents
               /\ Trusted' => vol.block \/ disk'.content = "good"
               /\ \A s \in Slots : calls'[s].pc = "format" => disk'.content \in {"blank", "partitioned"}
               /\ disk'.data => vol.block \/ disk'.content \notin {"blank", "raw", "initialised", "partitioned"}
               /\ disk.data => disk'.data
  BY <1>1 DEF GoodInv, Readable
<1>5. \A s \in Slots : calls[s].pc = "format" \/ At(s, "stage", "probe") => ~vol.block
  BY FormatHeld
<1>6. CASE /\ disk'.content = disk.content /\ (disk.data => disk'.data)
           /\ disk'.data => disk.data \/ \E s \in Slots : Uses(calls[s])
  <2>1. Trusted' => vol.block \/ disk'.content = "good"
    BY <1>2, <1>6, TrustComes
  <2>2. \A s \in Slots : calls'[s].pc = "format" => disk'.content \in {"blank", "partitioned"}
    BY <1>3, <1>6, FormatComes
  <2>3. disk'.data => vol.block \/ disk'.content \notin {"blank", "raw", "initialised", "partitioned"}
    BY <1>2, <1>3, <1>6 DEF Trusted
  <2> QED
    BY <1>3, <1>6, <2>1, <2>2, <2>3
<1>7. ASSUME NEW s \in Slots, Prepares(s)
      PROVE  /\ Linux \/ disk'.content \in WindowsContents
             /\ Trusted' => vol.block \/ disk'.content = "good"
             /\ \A t \in Slots : calls'[t].pc = "format" => disk'.content \in {"blank", "partitioned"}
             /\ disk'.data => vol.block \/ disk'.content \notin {"blank", "raw", "initialised", "partitioned"}
             /\ disk.data => disk'.data
  <2>1. At(s, "stage", "probe") /\ calls' = calls /\ dev' = dev /\ mounts' = mounts /\ record' = record /\ disk'.data = disk.data
    BY <1>7 DEF Prepares, Rests, Quiet, kubelet
  <2>2. ~vol.block
    BY <1>5, <2>1
  <2>3. ~Trusted
    BY <1>2, <1>7, <2>2 DEF Prepares
  <2>4. ~Trusted'
    BY <1>1, <2>1, <2>3 DEF Trusted, Uses
  <2>5. \A t \in Slots : calls'[t].pc # "format"
    <3> SUFFICES ASSUME NEW t \in Slots, calls[t].pc = "format" PROVE FALSE
      BY <2>1
    <3> QED
      BY <2>1, FormatHeld DEF At
  <2> QED
    BY <1>3, <1>7, <2>1, <2>2, <2>4, <2>5 DEF Prepares, WindowsContents
<1>8. ASSUME NEW s \in Slots, Format(s)
      PROVE  /\ Linux \/ disk'.content \in WindowsContents
             /\ Trusted' => vol.block \/ disk'.content = "good"
             /\ \A t \in Slots : calls'[t].pc = "format" => disk'.content \in {"blank", "partitioned"}
             /\ disk'.data => vol.block \/ disk'.content \notin {"blank", "raw", "initialised", "partitioned"}
             /\ disk.data => disk'.data
  <2>1. calls[s].pc = "format" /\ disk'.content = "good" /\ disk'.data = FALSE
    BY <1>8 DEF Format, At
  <2>2. ~disk.data
    BY <1>3, <1>5, <2>1
  <2>3. calls'[s].pc = "mount" /\ \A t \in Slots : t # s => calls'[t] = calls[t]
    BY <1>8 DEF Format, Go, CallsOK, Call
  <2>4. \A t \in Slots : calls'[t].pc # "format"
    BY <2>1, <2>3, FormatHeld
  <2> QED
    BY <2>1, <2>2, <2>4 DEF WindowsContents
<1>9. CASE FormatStops
  <2>1. PICK s \in Slots : calls[s].pc = "format" /\ (CommandFails(s) \/ PluginRestarts \/ Reboot)
    BY <1>9 DEF FormatStops
  <2>2. disk.content \in {"blank", "partitioned"} /\ ~vol.block /\ ~disk.data
    BY <1>3, <1>5, <2>1
  <2>3. disk'.data = disk.data /\ disk'.content \in Interrupted(disk.content)
    BY <1>9 DEF FormatStops
  <2>4. Linux \/ disk'.content \in WindowsContents
    BY <1>3, <2>2, <2>3 DEF Interrupted, WindowsContents
  <2>5. ~Trusted
    BY <1>2, <2>2
  <2>6. \A t \in Slots : calls'[t].pc # "format"
    <3>1. CASE CommandFails(s)
      BY <2>1, <3>1, FormatHeld DEF CommandFails, Answer, CallsOK, Idle
    <3>2. CASE PluginRestarts \/ Reboot
      BY <3>2 DEF PluginRestarts, Reboot, CallsEnd, Idle
    <3> QED
      BY <2>1, <3>1, <3>2
  <2>7. Trusted' => disk'.content = "good"
    BY <2>2, <2>5, TrustComes
  <2> QED
    BY <2>2, <2>3, <2>4, <2>6, <2>7
<1> QED
  BY <1>3, <1>6, <1>7, <1>8, <1>9, DiskMoves

(* Both beginnings, and the steps of the volume among those of the node.   *)
LEMMA VolumeBegins ==
  ASSUME NodeInit
  PROVE  VolumeInit \/ Unused
BY DEF NodeInit

LEMMA VolumeSteps ==
  ASSUME [NodeNext]_nodeVars
  PROVE  [VolumeNext]_volumeVars
BY DEF NodeNext, nodeVars, exceptDriven

LEMMA Begins ==
  ASSUME NodeInit
  PROVE  CallsOK /\ StateOK /\ CallInv /\ GoodInv
<1>1. PICK users \in {"new", "gone"}, n \in {0, MaxFaults} : Untouched(users, n)
  BY VolumeBegins DEF VolumeInit, Unused
<1>2. /\ vol \in Volumes /\ disk.content = vol.content /\ disk.data = (vol.content \notin {"blank", "raw"}) /\ disk.room = vol.room
      /\ mounts = [x \in Places |-> 0] /\ fs = "none" /\ record = NoPod /\ guest = NoPod /\ current = NoCall /\ stuck = FALSE
      /\ dev = "no" /\ pod = [p \in Pods |-> users] /\ deleted = {}
  BY <1>1 DEF Untouched
<1>3. calls \in [Slots -> Call] /\ \A s \in Slots : Fits(calls[s]) /\ calls[s].op = "none" /\ calls[s].pc = "idle"
  <2>1. calls = [s \in Slots |-> Idle]
    BY <1>1 DEF Untouched
  <2> QED
    BY <2>1, IdleFits DEF Idle
<1>4. CallsOK
  BY <1>2, <1>3 DEF CallsOK
<1>5. vol.content \in Contents /\ (Linux \/ vol.content \in {"raw", "good", "offline"}) /\ vol.room \in {"fits", "grown", "seen"}
  BY <1>2, VolumeAssumption DEF Linux, Contents, LinuxContents, WindowsContents
<1>6. StateOK
  <2>1. disk \in DiskRecord
    BY <1>1, <1>5 DEF Untouched, DiskRecord
  <2> QED
    BY <1>2, <2>1 DEF StateOK
<1>7. \A s \in Slots : ~Held(s)
  BY <1>3 DEF Held
<1>8. CallInv
  BY <1>2, <1>3, <1>7, SlotAssumption DEF CallInv, OneHolds, CurrentInv, StageInv, UnstageInv, PodInv, Unstaging, Waits, KataInv, Active
<1>9. GoodInv
  <2>1. ~Trusted
    BY <1>2, <1>3, PlaceAssumption DEF Trusted, Uses, Places
  <2>2. disk.content = "good" \/ disk.content \in LinuxContents \/ disk.content \in {"raw", "offline"}
    BY <1>2, <1>5, VolumeAssumption DEF LinuxContents, Linux
  <2> QED
    BY <1>2, <1>3, <1>5, <2>1, <2>2, VolumeAssumption DEF GoodInv, WindowsContents, LinuxContents
<1> QED
  BY <1>4, <1>6, <1>8, <1>9

(* No format ever destroys what a pod has written (formatAndMount of       *)
(* azure_common_linux.go, MountFirstVolume on Windows): for any number of  *)
(* calls given up, of tools that miss the file system and of restarts in   *)
(* the middle of a mkfs.                                                   *)
THEOREM DataIsKept == NodeSpec => DataKept
<1> DEFINE I == CallsOK /\ StateOK /\ OneHolds /\ GoodInv
<1>1. NodeInit => I
  BY Begins DEF CallInv
<1>2. I /\ [NodeNext]_nodeVars => I' /\ [disk.data => disk'.data]_volumeVars
  BY VolumeSteps, CallsNext, StateNext, HeldNext, GoodNext
<1> QED
  BY <1>1, <1>2, PTL DEF NodeSpec, DataKept

-----------------------------------------------------------------------------
(* Mounts, MountInfos and guests. What the steps of calls do to them.      *)
IsAt(s, op, pc) == calls[s].op = op /\ calls[s].pc = pc
Target(s) == calls[s].pod

MountsStaging(s) ==
  /\ IsAt(s, "stage", "mount") \/ (IsAt(s, "publish", "restore") /\ ~Mounted(Staging))
  /\ Mount(Staging) /\ record' = record

UnmountsStaging(s) ==
  /\ \/ IsAt(s, "unstage", "unmount") \/ IsAt(s, "publish", "release") \/ (IsAt(s, "stage", "check") /\ fs = "down")
  /\ Mounted(Staging) /\ Unmount(Staging) /\ record' = record

ShutsDown(s) ==
  IsAt(s, "unstage", "shutdown") /\ Mounted(Staging) /\ fs = "live" /\ fs' = "down" /\ mounts' = mounts /\ record' = record

MountsTarget(s) ==
  /\ IsAt(s, "publish", "bind") /\ (Linux => vol.block \/ Mounted(Staging))
  /\ mounts' = [mounts EXCEPT ![Target(s)] = @ + 1] /\ fs' = fs /\ record' = record

DropsTarget(s) ==
  /\ ~Linux /\ (IsAt(s, "publish", "target") \/ IsAt(s, "unpublish", "unmount"))
  /\ mounts' = [mounts EXCEPT ![Target(s)] = 0] /\ fs' = fs /\ record' = record

UnmountsTarget(s) ==
  /\ Linux /\ (IsAt(s, "unpublish", "unmount") \/ (IsAt(s, "publish", "target") /\ fs = "down" /\ Answer(s, "final")))
  /\ Mounted(Target(s)) /\ Unmount(Target(s)) /\ record' = record

Assigns(s) == IsAt(s, "publish", "assign") /\ record' = Target(s) /\ UNCHANGED <<mounts, fs>> /\ Ends(s)

Removes(s) ==
  /\ IsAt(s, "unpublish", "remove") /\ UNCHANGED <<mounts, fs>>
  /\ record' = IF record = Target(s) THEN NoPod ELSE record

Does(s) ==
  \/ MountsStaging(s) \/ UnmountsStaging(s) \/ ShutsDown(s) \/ MountsTarget(s) \/ DropsTarget(s) \/ UnmountsTarget(s)
  \/ Assigns(s) \/ Removes(s) \/ Quiet

LEMMA LoudMoves ==
  ASSUME CallsOK, StateOK, NEW s \in Slots, Loud(s)
  PROVE  (Goes(s) \/ Ends(s)) /\ calls[s].pc \notin {"idle", "lock"} /\ guest' = guest /\ (stuck => stuck')
<1>1. calls[s].pc \notin {"idle", "lock"}
  BY DEF Loud, Mounts, MountStaging, MountVolume, kataRestoreStaging, Unmounts, Release, shutdownFilesystem, UnmountStaging,
     UnmountVolume, ProxyUnmount, Targets, preparePublishPath, Bind, Link, Bound, UnmountTarget, CleanupMountPoint, Records, Assign,
     RemoveRecord, EnsureStaging, EnsureTarget, At
<1>2. guest' = guest /\ (stuck => stuck')
  <2>1. guest' = guest /\ (stuck' = stuck \/ stuck' = (stuck \/ fs = "down"))
    BY DEF Loud, Mounts, MountStaging, MountVolume, kataRestoreStaging, Unmounts, Release, shutdownFilesystem, UnmountStaging,
       UnmountVolume, ProxyUnmount, Targets, preparePublishPath, Bind, Link, Bound, UnmountTarget, CleanupMountPoint, Records, Assign,
       RemoveRecord, EnsureStaging, EnsureTarget, ensureMountPoint, kata
  <2>2. stuck \in BOOLEAN
    BY DEF StateOK
  <2>3. ASSUME stuck PROVE stuck'
    <3>1. stuck = TRUE /\ (stuck \/ fs = "down") = TRUE
      BY <2>2, <2>3
    <3>2. stuck' = TRUE
      BY <2>1, <3>1, Zenon
    <3> QED
      BY <3>2
  <2> QED
    BY <2>1, <2>3
<1>3. CASE NodePublishVolume(s) \/ NodeUnpublishVolume(s) \/ NodeUnstageVolume(s)
  BY <1>1, <1>2, <1>3, PublishMoves, OtherMoves
<1>4. CASE MountStaging(s) \/ MountVolume(s) \/ EnsureStaging(s)
  <2>1. Goes(s) \/ Ends(s) \/ Rests
    BY <1>4, StageMoves DEF NodeStageVolume
  <2>2. calls' # calls
    <3>1. ASSUME NEW x, Go(s, x), x # calls[s].pc PROVE calls'[s].pc # calls[s].pc
      BY <3>1 DEF Go, CallsOK, Call
    <3>2. ASSUME NEW code, Answer(s, code) PROVE calls'[s].pc # calls[s].pc
      BY <1>1, <3>2 DEF Answer, CallsOK, Idle
    <3> QED
      BY <1>4, <3>1, <3>2 DEF MountStaging, MountVolume, EnsureStaging, ensureMountPoint, At
  <2> QED
    BY <1>1, <1>2, <2>1, <2>2 DEF Rests
<1> QED
  BY <1>3, <1>4 DEF Loud, Mounts, Unmounts, Targets, Records, NodePublishVolume, NodeUnpublishVolume, NodeUnstageVolume

LEMMA LoudDoes ==
  ASSUME CallsOK, StateOK, NEW s \in Slots, Loud(s)
  PROVE  Does(s)
<1>1. CASE Mounts(s)
  BY <1>1 DEF Mounts, MountStaging, MountVolume, kataRestoreStaging, Does, MountsStaging, IsAt, At, Quiet, kernel, kata
<1>2. CASE Unmounts(s)
  <2>1. CASE Release(s) \/ UnmountStaging(s) \/ UnmountVolume(s) \/ ProxyUnmount(s)
    BY <2>1 DEF Release, UnmountStaging, UnmountVolume, ProxyUnmount, getTarget, DeleteVolumeMountPoint, Does, UnmountsStaging, IsAt, At,
       Quiet, kernel, kata
  <2>2. CASE shutdownFilesystem(s)
    BY <2>2 DEF shutdownFilesystem, Does, ShutsDown, IsAt, At, Quiet, kata
  <2> QED
    BY <1>2, <2>1, <2>2 DEF Unmounts
<1>3. CASE Bind(s) \/ Link(s)
  BY <1>3 DEF Bind, Link, Bound, Does, MountsTarget, IsAt, At, Target, Quiet, kata
<1>4. CASE preparePublishPath(s) \/ CleanupMountPoint(s)
  BY <1>4 DEF preparePublishPath, CleanupMountPoint, Does, DropsTarget, IsAt, At, Target, kata
<1>5. CASE UnmountTarget(s)
  BY <1>5 DEF UnmountTarget, Does, UnmountsTarget, IsAt, At, Target, Quiet, kernel, kata
<1>6. CASE RemoveRecord(s)
  BY <1>6 DEF RemoveRecord, Does, Removes, IsAt, At, Target, kernel
<1>7. CASE Assign(s)
  <2>1. IsAt(s, "publish", "assign") /\ record' = Target(s) /\ UNCHANGED <<mounts, fs>> /\ Answer(s, "ok")
    BY <1>7 DEF Assign, IsAt, At, Target, kernel
  <2>2. Ends(s)
    BY <2>1 DEF Ends, Done, IsAt, Target
  <2> QED
    BY <2>1, <2>2 DEF Does, Assigns
<1>8. CASE EnsureStaging(s)
  BY <1>8 DEF EnsureStaging, ensureMountPoint, Does, UnmountsStaging, IsAt, At, Quiet, kernel, kata
<1>9. CASE EnsureTarget(s)
  BY <1>9 DEF EnsureTarget, ensureMountPoint, Does, UnmountsTarget, IsAt, At, Target, Quiet, kernel, kata
<1> QED
  BY <1>1, <1>2, <1>3, <1>4, <1>5, <1>6, <1>7, <1>8, <1>9 DEF Loud, Targets, Records

(* What becomes of one call.                                               *)
LEMMA CallChanges ==
  ASSUME CallsOK, StateOK, [VolumeNext]_volumeVars, NEW t \in Slots
  PROVE  \/ calls'[t] = calls[t]
         \/ calls'[t].op = "none" /\ calls'[t].pc = "idle"
         \/ /\ calls'[t].op = calls[t].op /\ calls'[t].pod = calls[t].pod /\ Entry(calls[t], calls'[t].pc)
            /\ dev' = dev /\ pod' = pod /\ current' = current
         \/ /\ current = NoCall /\ calls'[t].op \in Ops /\ calls'[t].pc = Start(calls'[t].op) /\ Due(calls'[t].op, calls'[t].pod)
            /\ UNCHANGED <<kernel, kata, stuck>>
<1>1. CASE CallMoves
  BY <1>1, GoesFrame, EndsFrame DEF CallMoves
<1>2. CASE CallStarts
  <2>1. PICK op \in Ops : Kubelet(op)
    BY <1>2 DEF CallStarts
  <2>2. PICK s \in Slots, p \in Pods \cup {NoPod} :
          /\ current = NoCall /\ Due(op, p)
          /\ calls' = [calls EXCEPT ![s] = [op |-> op, pc |-> Start(op), pod |-> p, dev |-> NoDevice]]
    BY <2>1, CallStarted
  <2>3. UNCHANGED <<kernel, kata, stuck>>
    BY <2>1 DEF Kubelet
  <2> QED
    BY <2>2, <2>3 DEF CallsOK
<1>3. CASE CallsStop
  BY <1>3 DEF CallsStop, CallsEnd, Idle
<1>4. CASE calls' = calls
  BY <1>4
<1> QED
  BY <1>1, <1>2, <1>3, <1>4, Moves DEF PodMoves, Schedule, Forget, Delete, GiveUp, KubeletRestarts

(* With Kata a pod that a call is for is one kubelet has to do with.       *)
LEMMA PodOfCall ==
  ASSUME CallsOK, StateOK, CallInv, vol.kata, NEW s \in Slots, calls[s].op \in {"publish", "unpublish"}
  PROVE  /\ Target(s) \in Pods /\ Active(Target(s)) /\ (Held(s) \/ current = s)
         /\ current # s => pod[Target(s)] = "trying"
<1>1. calls[s].pod \in Pods
  BY DEF CallsOK, Fits
<1>2. Held(s) \/ current = s
  BY HoldsOrWaits DEF CallInv
<1>3. CASE current = s
  BY <1>1, <1>3 DEF CallInv, PodInv, Waits, Active, Target
<1>4. CASE current # s
  BY <1>1, <1>2, <1>4 DEF CallInv, KataInv, Active, Target
<1> QED
  BY <1>1, <1>2, <1>3, <1>4 DEF Target

LEMMA HeldAlone ==
  ASSUME CallsOK, OneHolds, NEW s \in Slots, NEW t \in Slots, t # s, Held(s), Serialised(calls[t].op), calls[t].op # "none"
  PROVE  calls[t].pc = "lock"
<1>1. calls[t].pc # "idle"
  BY DEF CallsOK, Fits, Call, Ops
<1> QED
  BY <1>1 DEF OneHolds, Held

LEMMA LoudHeld ==
  ASSUME CallsOK, StateOK, NEW s \in Slots, Loud(s), calls[s].op \in {"stage", "unstage"} \/ vol.kata
  PROVE  Held(s)
BY LoudMoves DEF Held, Serialised

(* Kubelet's view of a pod.                                                *)
LEMMA PodChanges ==
  ASSUME CallsOK, StateOK, CallInv, [VolumeNext]_volumeVars, NEW p \in Pods
  PROVE  /\ pod'[p] = "new" => pod[p] = "new"
         /\ pod[p] = "gone" => pod'[p] = "gone"
         /\ Active(p) /\ p \notin deleted => Active(p)'
         /\ p \in deleted => p \in deleted'
         /\ pod'[p] = "up" /\ pod[p] # "up" =>
              \E s \in Slots : /\ current = s /\ calls[s].op = "publish" /\ Target(s) = p /\ Done(calls[s], "ok")
<1>1. pod[p] \in {"new", "wanted", "trying", "up", "gone"}
  BY DEF CallsOK
<1>2. ASSUME UNCHANGED <<pod, deleted>>
      PROVE  /\ pod'[p] = "new" => pod[p] = "new"
             /\ pod[p] = "gone" => pod'[p] = "gone"
             /\ Active(p) /\ p \notin deleted => Active(p)'
             /\ p \in deleted => p \in deleted'
             /\ ~(pod'[p] = "up" /\ pod[p] # "up")
  BY <1>2 DEF Active
<1>3. ASSUME NEW s \in Slots, current = s, NEW code \in {"ok", "final", "uncertain"}, Told(calls[s], code)
      PROVE  /\ pod'[p] = "new" => pod[p] = "new"
             /\ pod[p] = "gone" => pod'[p] = "gone"
             /\ Active(p) /\ p \notin deleted => Active(p)'
             /\ p \in deleted => p \in deleted'
             /\ pod'[p] = "up" /\ pod[p] # "up" => calls[s].op = "publish" /\ Target(s) = p /\ code = "ok"
  <2>1. calls[s].op \in {"publish", "unpublish"} => calls[s].pod \in Pods
    BY DEF CallsOK, Fits
  <2>2. calls[s].op = "publish" => pod[calls[s].pod] \in {"wanted", "trying"}
    BY <1>3 DEF CallInv, PodInv, Waits
  <2>3. calls[s].op = "unpublish" => pod[calls[s].pod] \in {"trying", "up"} /\ calls[s].pod \in deleted
    BY <1>3 DEF CallInv, PodInv, Waits
  <2>4. /\ deleted' = deleted
        /\ pod' = IF calls[s].op = "publish"
                    THEN [pod EXCEPT ![calls[s].pod] = IF code = "ok" THEN "up" ELSE IF code = "final" THEN "wanted" ELSE "trying"]
                  ELSE IF calls[s].op = "unpublish" THEN [pod EXCEPT ![calls[s].pod] = IF code = "ok" THEN "gone" ELSE "trying"]
                  ELSE pod
    BY <1>3, ToldIs
  <2>5. CASE calls[s].op = "publish"
    BY <1>1, <2>1, <2>2, <2>4, <2>5 DEF CallsOK, Active, Target
  <2>6. CASE calls[s].op = "unpublish"
    BY <1>1, <2>1, <2>3, <2>4, <2>6 DEF CallsOK, Active, Target
  <2>7. CASE calls[s].op \notin {"publish", "unpublish"}
    BY <2>4, <2>7 DEF Active
  <2> QED
    BY <2>5, <2>6, <2>7
<1>4. ASSUME Unsure
      PROVE  /\ pod'[p] = "new" => pod[p] = "new"
             /\ pod[p] = "gone" => pod'[p] = "gone"
             /\ Active(p) /\ p \notin deleted => Active(p)'
             /\ p \in deleted => p \in deleted'
             /\ ~(pod'[p] = "up" /\ pod[p] # "up")
  BY <1>1, <1>4 DEF Unsure, Active
<1>5. CASE CallMoves
  <2>1. PICK s \in Slots : Goes(s) \/ Ends(s)
    BY <1>5 DEF CallMoves
  <2>2. CASE Goes(s)
    BY <1>2, <2>2, GoesFrame
  <2>3. CASE Ends(s) /\ current # s
    BY <1>2, <2>3, EndsFrame
  <2>4. CASE Ends(s) /\ current = s
    BY <1>3, <2>4, EndsFrame
  <2> QED
    BY <2>1, <2>2, <2>3, <2>4
<1>6. CASE CallStarts
  BY <1>2, <1>6 DEF CallStarts, Kubelet
<1>7. CASE PodMoves \/ (\E q \in Pods : Delete(q))
  BY <1>1, <1>7 DEF PodMoves, Schedule, Forget, Delete, CallsOK, Active
<1>8. CASE GiveUp
  <2>1. current \in Slots /\ Told(calls[current], "uncertain")
    BY <1>8 DEF GiveUp, CallsOK
  <2> QED
    BY <1>3, <2>1
<1>9. CASE KubeletRestarts
  BY <1>4, <1>9 DEF KubeletRestarts
<1>10. CASE CallsStop
  <2>1. current # NoCall => current \in Slots
    BY DEF CallsOK
  <2> QED
    BY <1>2, <1>3, <1>4, <1>10, <2>1 DEF CallsStop, kubelet
<1>11. CASE UNCHANGED <<calls, current, dev, pod, deleted>>
  BY <1>2, <1>11
<1> QED
  BY <1>5, <1>6, <1>7, <1>8, <1>9, <1>10, <1>11, Moves

(* Kubelet's view of the volume.                                           *)
LEMMA DevChanges ==
  ASSUME CallsOK, StateOK, CallInv, [VolumeNext]_volumeVars
  PROVE  /\ dev' = "yes" /\ dev # "yes" => \E s \in Slots : current = s /\ calls[s].op = "stage" /\ Done(calls[s], "ok")
         /\ dev' = "unstaged" /\ dev # "unstaged" =>
              \E s \in Slots : current = s /\ calls[s].op = "unstage" /\ Done(calls[s], "ok")
         /\ dev' = "yes" /\ Unstaging => Unstaging'
         /\ Unstaging' /\ ~Unstaging => \A p \in Pods : pod[p] \in {"new", "gone"}
<1>1. NoCall \notin Slots
  BY SlotAssumption
<1>2. ASSUME NEW s \in Slots, current = s, NEW code \in {"ok", "final", "uncertain"}, Told(calls[s], code), current' = NoCall
      PROVE  /\ dev' = "yes" /\ dev # "yes" => calls[s].op = "stage" /\ code = "ok"
             /\ dev' = "unstaged" /\ dev # "unstaged" => calls[s].op = "unstage" /\ code = "ok"
             /\ ~(dev' = "yes" /\ Unstaging) /\ ~Unstaging'
  <2>1. dev' = IF calls[s].op = "stage" THEN IF code = "ok" THEN "yes" ELSE IF code = "final" THEN "no" ELSE "uncertain"
               ELSE IF calls[s].op = "unstage" THEN IF code = "ok" THEN "unstaged" ELSE "uncertain"
               ELSE dev
    BY <1>2, ToldIs
  <2>2. Unstaging <=> calls[s].op = "unstage"
    BY <1>2 DEF Unstaging, Waits
  <2>3. ~Unstaging'
    BY <1>1, <1>2 DEF Unstaging, Waits
  <2> QED
    BY <2>1, <2>2, <2>3
<1>3. ASSUME dev' = dev, Unstaging' <=> Unstaging
      PROVE  /\ ~(dev' = "yes" /\ dev # "yes") /\ ~(dev' = "unstaged" /\ dev # "unstaged")
             /\ dev' = "yes" /\ Unstaging => Unstaging'
             /\ ~(Unstaging' /\ ~Unstaging)
  BY <1>3
<1>4. ASSUME UNCHANGED <<calls, current>> PROVE Unstaging' <=> Unstaging
  BY <1>4 DEF Unstaging, Waits
<1>5. CASE CallMoves
  <2>1. PICK s \in Slots : Goes(s) \/ Ends(s)
    BY <1>5 DEF CallMoves
  <2>2. CASE Goes(s)
    <3>1. dev' = dev /\ current' = current /\ \A t \in Slots : calls'[t].op = calls[t].op
      BY <2>2, GoesFrame
    <3>2. Unstaging' <=> Unstaging
      BY <3>1 DEF Unstaging, Waits
    <3> QED
      BY <1>3, <3>1, <3>2
  <2>3. CASE Ends(s) /\ current # s
    <3>1. dev' = dev /\ current' = current /\ \A t \in Slots : t # s => calls'[t] = calls[t]
      BY <2>3, EndsFrame
    <3>2. Unstaging' <=> Unstaging
      BY <2>3, <3>1 DEF Unstaging, Waits
    <3> QED
      BY <1>3, <3>1, <3>2
  <2>4. CASE Ends(s) /\ current = s
    <3>1. PICK code \in {"ok", "final", "uncertain"} : Done(calls[s], code) /\ current' = NoCall /\ Told(calls[s], code)
      BY <2>4, EndsFrame
    <3> QED
      BY <1>2, <2>4, <3>1
  <2> QED
    BY <2>1, <2>2, <2>3, <2>4
<1>6. CASE CallStarts
  <2>1. PICK op \in Ops : Kubelet(op)
    BY <1>6 DEF CallStarts
  <2>2. PICK s \in Slots, p \in Pods \cup {NoPod} :
           /\ current = NoCall /\ current' = s /\ Due(op, p)
           /\ calls' = [calls EXCEPT ![s] = [op |-> op, pc |-> Start(op), pod |-> p, dev |-> NoDevice]]
           /\ dev' = (IF op = "stage" /\ dev = "unstaged" THEN "no" ELSE dev)
    BY <2>1, CallStarted
  <2>3. ~Unstaging /\ (Unstaging' => op = "unstage")
    BY <1>1, <2>2 DEF Unstaging, Waits, CallsOK
  <2>4. op = "unstage" => \A q \in Pods : pod[q] \in {"new", "gone"}
    BY <2>2 DEF Due
  <2> QED
    BY <2>2, <2>3, <2>4
<1>7. CASE PodMoves \/ (\E q \in Pods : Delete(q)) \/ UNCHANGED <<calls, current, dev, pod, deleted>>
  BY <1>3, <1>4, <1>7 DEF PodMoves, Schedule, Forget, Delete
<1>8. CASE GiveUp
  <2>1. current \in Slots /\ Told(calls[current], "uncertain") /\ current' = NoCall
    BY <1>8 DEF GiveUp, CallsOK
  <2> QED
    BY <1>2, <2>1
<1>9. CASE KubeletRestarts
  <2>1. dev' # "yes" /\ (dev' = "unstaged" => dev = "unstaged")
    BY <1>9 DEF KubeletRestarts, Unsure
  <2> QED
    BY <1>4, <1>9, <2>1 DEF KubeletRestarts
<1>10. CASE CallsStop
  <2>1. current' = NoCall /\ ~Unstaging'
    BY <1>1, <1>10 DEF CallsStop, CallsEnd, Unstaging, Waits
  <2>2. CASE Unsure
    BY <2>1, <2>2 DEF Unsure
  <2>3. CASE current = NoCall /\ UNCHANGED kubelet
    BY <1>1, <2>1, <2>3 DEF Unstaging, Waits, kubelet
  <2>4. CASE current # NoCall /\ Told(calls[current], "uncertain")
    BY <1>2, <2>1, <2>4 DEF CallsOK
  <2> QED
    BY <1>10, <2>2, <2>3, <2>4 DEF CallsStop
<1> QED
  BY <1>5, <1>6, <1>7, <1>8, <1>9, <1>10, Moves

(* With a MountInfo the host has let go of the disk, and no call past the  *)
(* lock will mount it: the MountInfo is what stops staging, publishing and *)
(* expanding.                                                              *)
RecordInv ==
  record # NoPod =>
    /\ vol.kata /\ mounts[Staging] = 0 /\ mounts[record] = 0
    /\ \A s \in Slots : Held(s) => calls[s].op \in {"unpublish", "unstage"}
    /\ fs = "down" => stuck

UsedInv == vol.kata => \A p \in Pods : Mounted(p) \/ record = p => pod[p] # "new"

AssignInv ==
  vol.kata => \A s \in Slots : calls[s].op = "publish" =>
    /\ calls[s].pc \in {"runtime", "device", "release", "assign"} => mounts[Target(s)] = 0
    /\ calls[s].pc = "assign" => mounts[Staging] = 0
    /\ fs = "down" => stuck

StagingInv ==
  /\ mounts[Staging] <= 1
  /\ \A s \in Slots : calls[s].op = "stage" =>
       /\ calls[s].pc \in {"probe", "format", "repair", "mount"} => mounts[Staging] = 0
       /\ calls[s].pc = "resize" => Mounted(Staging) /\ (Linux /\ fs = "down" => stuck)

(* The file system lives while the disk is mounted; without the staging    *)
(* path only a target that kubelet forgot keeps it alive.                  *)
KernelInv ==
  /\ vol.block => fs = "none"
  /\ Linux => (fs # "none" => \E x \in Places : Mounted(x)) /\ (~vol.block => \A x \in Places : Mounted(x) => fs # "none")
  /\ ~Linux => fs # "down" /\ (fs = "live" <=> Mounted(Staging))

LiveInv == fs = "live" => Mounted(Staging) \/ Forgotten

UnmountInv ==
  /\ \A s \in Slots : IsAt(s, "unstage", "rmdir") \/ (Linux /\ IsAt(s, "unstage", "unmount")) => fs # "live" \/ Forgotten
  /\ dev = "unstaged" => fs # "live" \/ Forgotten

GuestInv ==
  /\ guest # NoPod => record = guest /\ guest \notin deleted /\ Active(guest)
  /\ Unstaging \/ dev = "unstaged" => guest = NoPod

(* What kubelet holds staged is a file system that lives, or was shut down *)
(* before.                                                                 *)
StuckInv == dev = "yes" /\ ~Unstaging => (fs = "down" => stuck) /\ (~Linux => Mounted(Staging))

UpInv == \A p \in Pods : pod[p] = "up" /\ p \notin deleted => record = p \/ Mounted(p)

MountInv ==
  RecordInv /\ UsedInv /\ AssignInv /\ StagingInv /\ KernelInv /\ LiveInv /\ UnmountInv /\ GuestInv /\ StuckInv /\ UpInv

(* The next mounts, in the terms of the invariants.                        *)
LEMMA DoesMounts ==
  ASSUME CallsOK, StateOK, NEW s \in Slots, Does(s)
  PROVE  /\ mounts'[Staging] = mounts[Staging] \/ (MountsStaging(s) /\ mounts'[Staging] = mounts[Staging] + 1)
                                               \/ (UnmountsStaging(s) /\ mounts'[Staging] = mounts[Staging] - 1)
         /\ \A p \in Pods : mounts'[p] # mounts[p] =>
              /\ p = Target(s) /\ calls[s].op \in {"publish", "unpublish"}
              /\ \/ MountsTarget(s) /\ mounts'[p] > 0
                 \/ UnmountsTarget(s) /\ mounts[p] > 0
                 \/ DropsTarget(s) /\ mounts'[p] = 0
         /\ fs' = "live" => fs = "live" \/ (MountsStaging(s) /\ mounts'[Staging] > 0)
         /\ fs' = "down" => fs = "down" \/ ShutsDown(s)
         /\ record' = record \/ Assigns(s) \/ (Removes(s) /\ record' = NoPod /\ record = Target(s))
<1>1. Staging \in Places /\ Pods \subseteq Places /\ Staging \notin Pods /\ mounts \in [Places -> Nat]
  BY PlaceAssumption DEF Places, StateOK
<1>2. calls[s].op \in {"publish", "unpublish"} => Target(s) \in Pods
  BY DEF CallsOK, Fits, Target
<1>3. \A x \in Places : mounts[x] \in Nat
  BY <1>1
<1>4. CASE MountsStaging(s)
  BY <1>1, <1>3, <1>4 DEF MountsStaging, Mount
<1>5. CASE UnmountsStaging(s)
  BY <1>1, <1>3, <1>5 DEF UnmountsStaging, Unmount
<1>6. CASE ShutsDown(s)
  BY <1>6 DEF ShutsDown
<1>7. CASE MountsTarget(s)
  BY <1>1, <1>2, <1>3, <1>7 DEF MountsTarget, IsAt
<1>8. CASE DropsTarget(s)
  BY <1>1, <1>2, <1>3, <1>8 DEF DropsTarget, IsAt
<1>9. CASE UnmountsTarget(s)
  BY <1>1, <1>2, <1>3, <1>9 DEF UnmountsTarget, Unmount, Mounted, IsAt
<1>10. CASE Assigns(s)
  BY <1>10 DEF Assigns
<1>11. CASE Removes(s)
  BY <1>11 DEF Removes
<1>12. CASE Quiet
  BY <1>12 DEF Quiet
<1> QED
  BY <1>4, <1>5, <1>6, <1>7, <1>8, <1>9, <1>10, <1>11, <1>12 DEF Does

LEMMA Steps ==
  ASSUME CallsOK, StateOK, [VolumeNext]_volumeVars
  PROVE  \/ Quiet /\ (stuck => stuck') /\ (guest' \in {guest, NoPod} \/ \E p \in Pods : GuestStarts(p))
         \/ \E s \in Slots : Loud(s)
         \/ Reboot
<1>1. ASSUME UNCHANGED stuck PROVE stuck => stuck'
  BY <1>1
<1>2. CASE Quiet /\ UNCHANGED <<guest, stuck>>
  BY <1>1, <1>2
<1>3. CASE \E p \in Pods : Delete(p) \/ GuestStarts(p)
  BY <1>1, <1>3 DEF Delete, GuestStarts, Quiet, kernel
<1> QED
  BY <1>2, <1>3, KernelMoves

LEMMA Touches ==
  ASSUME CallsOK, StateOK, NEW s \in Slots, Loud(s), MountsStaging(s) \/ UnmountsStaging(s) \/ ShutsDown(s) \/ Assigns(s) \/ Removes(s)
  PROVE  Held(s)
<1>1. calls[s].op \in {"stage", "unstage"} \/ vol.kata
  BY DEF MountsStaging, UnmountsStaging, ShutsDown, Assigns, Removes, IsAt, CallsOK, Fits
<1> QED
  BY <1>1, LoudHeld

LEMMA LoudAlone ==
  ASSUME CallsOK, StateOK, OneHolds, NEW s \in Slots, Loud(s), Held(s), NEW t \in Slots, t # s
  PROVE  calls'[t] = calls[t] /\ (Serialised(calls[t].op) /\ calls[t].op # "none" => calls[t].pc = "lock")
<1>1. Goes(s) \/ Ends(s)
  BY LoudMoves
<1>2. calls'[t] = calls[t]
  BY <1>1, GoesFrame, EndsFrame
<1> QED
  BY <1>2, HeldAlone

LEMMA RecordNext ==
  ASSUME CallsOK, StateOK, CallInv, MountInv, [VolumeNext]_volumeVars, vol' = vol
  PROVE  RecordInv'
<1> SUFFICES ASSUME record' # NoPod PROVE RecordInv'
  BY DEF RecordInv
<1>1. ~Reboot
  BY DEF Reboot
<1>2. CASE record # NoPod
  <2>1. /\ vol.kata /\ Linux /\ mounts[Staging] = 0 /\ mounts[record] = 0 /\ (fs = "down" => stuck) /\ record \in Pods
        /\ \A s \in Slots : Held(s) => calls[s].op \in {"unpublish", "unstage"}
    BY <1>2, VolumeIs DEF MountInv, RecordInv, StateOK
  <2>2. ASSUME NEW t \in Slots, Held(t)' PROVE calls'[t].op \in {"unpublish", "unstage"}
    <3>1. calls'[t].pc \notin {"idle", "lock"}
      BY <2>2 DEF Held
    <3>2. CASE Entry(calls[t], calls'[t].pc) /\ calls'[t].op = calls[t].op
      <4>1. calls[t].op # "none" /\ calls[t] \in Call /\ Fits(calls[t])
        BY <3>2 DEF Entry, CallsOK
      <4>2. CASE calls[t].pc = "lock"
        BY <1>2, <2>1, <3>2, <4>1, <4>2 DEF Entry, Assigned, Call, Ops
      <4>3. CASE calls[t].pc # "lock"
        <5>1. Held(t)
          BY <2>1, <4>1, <4>3 DEF Held, Serialised, Fits, Call, Ops
        <5> QED
          BY <2>1, <3>2, <5>1
      <4> QED
        BY <4>2, <4>3
    <3>3. CASE calls'[t] = calls[t]
      BY <2>1, <2>2, <3>3, HeldIs DEF Held
    <3>4. \A op : Start(op) = "lock"
      BY <2>1 DEF Start, Serialised
    <3> QED
      BY <3>1, <3>2, <3>3, <3>4, CallChanges
  <2>3. CASE Quiet /\ (stuck => stuck')
    BY <2>1, <2>2, <2>3 DEF Quiet, RecordInv
  <2>4. ASSUME NEW s \in Slots, Loud(s) PROVE RecordInv'
    <3>1. Held(s) /\ calls[s].op \in {"unpublish", "unstage"}
      BY <2>1, <2>4, LoudHeld
    <3>2. Does(s) /\ (stuck => stuck')
      BY <2>4, LoudDoes, LoudMoves
    <3>3. ~MountsStaging(s) /\ ~UnmountsStaging(s) /\ ~ShutsDown(s) /\ ~MountsTarget(s) /\ ~DropsTarget(s) /\ ~Assigns(s)
      BY <2>1, <3>1 DEF MountsStaging, UnmountsStaging, ShutsDown, MountsTarget, DropsTarget, Assigns, IsAt, Mounted
    <3>4. record' = record
      BY <3>2, <3>3, DoesMounts
    <3>5. mounts'[Staging] = 0 /\ mounts'[record] = 0 /\ (fs' = "down" => stuck')
      BY <2>1, <3>2, <3>3, DoesMounts
    <3> QED
      BY <2>1, <2>2, <3>4, <3>5 DEF RecordInv
  <2> QED
    BY <1>1, <2>3, <2>4, Steps
<1>3. CASE record = NoPod
  <2>1. PICK s \in Slots : Loud(s)
    BY <1>1, <1>3, Steps DEF Quiet
  <2>2. Assigns(s) /\ (stuck => stuck')
    BY <1>3, <2>1, LoudDoes, LoudMoves, DoesMounts
  <2>3. vol.kata /\ Held(s) /\ Target(s) \in Pods
    BY <2>1, <2>2, Touches DEF Assigns, IsAt, CallsOK, Fits, Target
  <2>4. mounts[Staging] = 0 /\ mounts[Target(s)] = 0 /\ (fs = "down" => stuck)
    BY <2>2, <2>3 DEF MountInv, AssignInv, Assigns, IsAt
  <2>5. \A t \in Slots : ~Held(t)'
    <3>1. calls'[s].pc = "idle" /\ \A t \in Slots : t # s => calls'[t] = calls[t]
      BY <2>2, EndsFrame DEF Assigns
    <3>2. \A t \in Slots : t # s => ~Held(t)
      BY <2>3 DEF CallInv, OneHolds
    <3> QED
      BY <3>1, <3>2, HeldIs DEF Held
  <2> QED
    BY <2>2, <2>3, <2>4, <2>5 DEF RecordInv, Assigns
<1> QED
  BY <1>2, <1>3

LEMMA UsedNext ==
  ASSUME CallsOK, StateOK, CallInv, MountInv, [VolumeNext]_volumeVars, vol' = vol
  PROVE  UsedInv'
<1> SUFFICES ASSUME vol.kata, NEW p \in Pods, mounts'[p] > 0 \/ record' = p PROVE pod'[p] # "new"
  BY DEF UsedInv, Mounted
<1>1. mounts[p] \in Nat /\ NoPod # p
  BY PlaceAssumption DEF StateOK, Places
<1>2. SUFFICES pod[p] # "new"
  BY PodChanges
<1>3. CASE mounts[p] > 0 \/ record = p
  BY <1>3 DEF MountInv, UsedInv, Mounted
<1>4. CASE ~(mounts[p] > 0) /\ record # p
  <2>1. ~Reboot
    BY <1>1 DEF Reboot, Places
  <2>2. PICK s \in Slots : Loud(s)
    BY <1>4, <2>1, Steps DEF Quiet
  <2>3. Does(s)
    BY <2>2, LoudDoes
  <2>4. Target(s) = p /\ calls[s].op \in {"publish", "unpublish"}
    BY <1>1, <1>4, <2>3, DoesMounts DEF Assigns, IsAt
  <2> QED
    BY <2>4, PodOfCall DEF Active
<1> QED
  BY <1>3, <1>4

(* A file system is shut down only under a call that unstages, and then no *)
(* call waits to publish.                                                  *)
LEMMA DownComes ==
  ASSUME CallsOK, StateOK, CallInv, [VolumeNext]_volumeVars, fs' = "down", fs # "down"
  PROVE  \E s \in Slots : Loud(s) /\ ShutsDown(s) /\ Held(s) /\ calls[s].op = "unstage" /\ (dev = "yes" => current = s)
<1>1. ~Reboot
  BY DEF Reboot
<1>2. PICK s \in Slots : Loud(s)
  BY <1>1, Steps DEF Quiet
<1>3. ShutsDown(s)
  BY <1>2, LoudDoes, DoesMounts
<1>4. calls[s].op = "unstage"
  BY <1>3 DEF ShutsDown, IsAt
<1> QED
  BY <1>2, <1>3, <1>4, Touches DEF CallInv, UnstageInv

LEMMA StuckStays ==
  ASSUME CallsOK, StateOK, [VolumeNext]_volumeVars, stuck, ~Reboot
  PROVE  stuck'
BY Steps, LoudMoves

LEMMA AssignNext ==
  ASSUME CallsOK, StateOK, CallInv, MountInv, [VolumeNext]_volumeVars, vol' = vol
  PROVE  AssignInv'
<1> SUFFICES ASSUME vol.kata, NEW t \in Slots, calls'[t].op = "publish"
             PROVE  /\ calls'[t].pc \in {"runtime", "device", "release", "assign"} => mounts'[calls'[t].pod] = 0
                    /\ calls'[t].pc = "assign" => mounts'[Staging] = 0
                    /\ fs' = "down" => stuck'
  BY DEF AssignInv, Target
<1>1. ~Reboot
  BY DEF Reboot, CallsEnd, Idle
<1>2. Start("publish") = "lock"
  BY DEF Start, Serialised
<1>3. calls[t].op = "publish" =>
        /\ calls[t].pc \in {"runtime", "device", "release", "assign"} => mounts[calls[t].pod] = 0
        /\ calls[t].pc = "assign" => mounts[Staging] = 0
        /\ fs = "down" => stuck
  BY DEF MountInv, AssignInv, Target
<1>4. mounts[Staging] <= 1
  BY DEF MountInv, StagingInv
<1>5. \/ calls'[t] = calls[t]
      \/ calls[t].op = "publish" /\ calls'[t].pod = calls[t].pod /\ Entry(calls[t], calls'[t].pc)
      \/ current = NoCall /\ dev = "yes" /\ calls'[t].pc = "lock"
  BY <1>2, CallChanges DEF Due
<1>6. fs = "down" => stuck
  <2>1. CASE current = NoCall /\ dev = "yes"
    BY <2>1, SlotAssumption DEF MountInv, StuckInv, Unstaging, Waits
  <2> QED
    BY <1>3, <1>5, <2>1
<1>7. fs' = "down" => stuck'
  <2>1. CASE fs = "down"
    BY <1>1, <1>6, <2>1, StuckStays
  <2>2. CASE fs' = "down" /\ fs # "down"
    <3>1. PICK s \in Slots : Loud(s) /\ Held(s) /\ calls[s].op = "unstage" /\ (dev = "yes" => current = s)
      BY <2>2, DownComes
    <3>2. t # s
      <4>1. calls'[s].op \in {"unstage", "none"}
        BY <3>1, LoudMoves, GoesFrame, EndsFrame
      <4> QED
        BY <4>1
    <3>3. calls[t].op = "publish" /\ calls[t].pc = "lock"
      BY <3>1, <3>2, LoudAlone DEF CallInv, Serialised
    <3>4. current = t /\ dev = "yes"
      BY <3>3 DEF CallInv, CurrentInv, PodInv, Waits
    <3> QED
      BY <3>1, <3>2, <3>4
  <2> QED
    BY <2>1, <2>2
<1>8. ASSUME calls'[t].pc \in {"runtime", "device", "release", "assign"}
      PROVE  mounts'[calls'[t].pod] = 0 /\ (calls'[t].pc = "assign" => mounts'[Staging] = 0)
  <2>1. CASE Quiet
    BY <1>3, <1>4, <1>5, <1>8, <2>1 DEF Quiet, Entry
  <2>2. ASSUME NEW s \in Slots, Loud(s) PROVE mounts'[calls'[t].pod] = 0 /\ (calls'[t].pc = "assign" => mounts'[Staging] = 0)
    <3>1. Held(s)
      BY <2>2, LoudHeld
    <3>2. t = s
      <4>1. t # s => calls'[t] = calls[t] /\ (Serialised("publish") => calls[t].pc = "lock")
        BY <2>2, <3>1, LoudAlone DEF CallInv
      <4> QED
        BY <1>8, <4>1 DEF Serialised
    <3>3. Goes(s)
      BY <2>2, <3>2, LoudMoves, EndsFrame
    <3>4. calls[s].op = "publish" /\ calls'[s].pod = calls[s].pod /\ Entry(calls[s], calls'[s].pc) /\ calls[s].pc # "lock"
      BY <2>2, <3>2, <3>3, GoesFrame, LoudMoves
    <3>5. calls[s].pc \in {"runtime", "device", "release"} /\ mounts[calls[s].pod] = 0 /\ (calls'[s].pc = "assign" => mounts'[Staging] = 0)
      BY <1>3, <1>4, <1>8, <3>2, <3>4 DEF Entry
    <3>6. calls[s].pod \in Pods
      BY <3>4 DEF CallsOK, Fits
    <3>7. mounts'[calls[s].pod] = mounts[calls[s].pod]
      BY <2>2, <3>5, <3>6, LoudDoes, DoesMounts DEF MountsTarget, UnmountsTarget, DropsTarget, IsAt
    <3> QED
      BY <3>2, <3>4, <3>5, <3>7
  <2> QED
    BY <1>1, <2>1, <2>2, Steps
<1> QED
  BY <1>7, <1>8

LEMMA StagingNext ==
  ASSUME CallsOK, StateOK, CallInv, MountInv, [VolumeNext]_volumeVars, vol' = vol
  PROVE  StagingInv'
<1> DEFINE M == mounts[Staging]
<1>1. M \in Nat /\ M <= 1
  BY DEF MountInv, StagingInv, StateOK, Places
<1>2. \A t \in Slots : calls[t].op = "stage" =>
        /\ calls[t].pc \in {"probe", "format", "repair", "mount"} => M = 0
        /\ calls[t].pc = "resize" => M > 0 /\ (Linux /\ fs = "down" => stuck)
  BY DEF MountInv, StagingInv, Mounted
<1>3. SUFFICES /\ mounts'[Staging] <= 1
               /\ \A t \in Slots : calls'[t].op = "stage" =>
                    /\ calls'[t].pc \in {"probe", "format", "repair", "mount"} => mounts'[Staging] = 0
                    /\ calls'[t].pc = "resize" => mounts'[Staging] > 0 /\ (Linux /\ fs' = "down" => stuck')
  BY DEF StagingInv, Mounted, Linux
<1>4. Start("stage") = "lock"
  BY DEF Start, Serialised
<1>5. CASE Reboot
  BY <1>5 DEF Reboot, CallsEnd, Idle, Places
<1>6. CASE Quiet /\ (stuck => stuck')
  BY <1>1, <1>2, <1>4, <1>6, CallChanges DEF Quiet, Entry
<1>7. ASSUME NEW s \in Slots, Loud(s)
      PROVE  /\ mounts'[Staging] <= 1
             /\ \A t \in Slots : calls'[t].op = "stage" =>
                  /\ calls'[t].pc \in {"probe", "format", "repair", "mount"} => mounts'[Staging] = 0
                  /\ calls'[t].pc = "resize" => mounts'[Staging] > 0 /\ (Linux /\ fs' = "down" => stuck')
  <2>1. Does(s) /\ (Goes(s) \/ Ends(s)) /\ (stuck => stuck')
    BY <1>7, LoudDoes, LoudMoves
  <2>2. MountsStaging(s) => M = 0
    BY <1>1, <1>2 DEF MountsStaging, IsAt, Mounted
  <2>3. UnmountsStaging(s) => M > 0
    BY DEF UnmountsStaging, Mounted
  <2>4. mounts'[Staging] <= 1
    BY <1>1, <2>1, <2>2, <2>3, DoesMounts
  <2>5. CASE Goes(s) /\ calls[s].op = "stage"
    <3>1. calls'[s].op = "stage" /\ Entry(calls[s], calls'[s].pc)
      BY <2>5, GoesFrame
    <3>2. calls'[s].pc = "resize" => mounts'[Staging] > 0 /\ (Linux /\ fs' = "down" => stuck')
      BY <2>5, <3>1 DEF Entry
    <3>3. calls'[s].pc \in {"probe", "format", "repair", "mount"} => calls[s].pc \in {"check", "probe", "format", "repair"} /\ M = 0
      BY <1>2, <2>5, <3>1 DEF Entry
    <3>4. calls[s].pc \in {"check", "probe", "format", "repair"} => ~MountsStaging(s)
      BY <2>5 DEF MountsStaging, IsAt
    <3>5. calls'[s].pc \in {"probe", "format", "repair", "mount"} => mounts'[Staging] = 0
      BY <2>1, <2>3, <3>3, <3>4, DoesMounts
    <3>6. Held(s)
      BY <1>7, <2>5, LoudHeld
    <3>7. \A t \in Slots : t # s /\ calls'[t].op = "stage" => calls'[t].pc = "lock"
      BY <1>7, <3>6, LoudAlone DEF CallInv, Serialised
    <3> QED
      BY <2>4, <3>2, <3>5, <3>7
  <2>6. CASE ~(Goes(s) /\ calls[s].op = "stage")
    <3>1. calls'[s].op # "stage" /\ \A t \in Slots : t # s => calls'[t] = calls[t]
      BY <2>1, <2>6, GoesFrame, EndsFrame
    <3>2. CASE Held(s)
      <4>1. \A t \in Slots : t # s /\ calls'[t].op = "stage" => calls'[t].pc = "lock"
        BY <1>7, <3>2, LoudAlone DEF CallInv, Serialised
      <4> QED
        BY <2>4, <3>1, <4>1
    <3>3. CASE ~Held(s)
      <4>1. mounts'[Staging] = M /\ (fs' = "down" => fs = "down")
        BY <1>7, <2>1, <3>3, Touches, DoesMounts
      <4> QED
        BY <1>2, <2>1, <2>4, <3>1, <4>1
    <3> QED
      BY <3>2, <3>3
  <2> QED
    BY <2>5, <2>6
<1> QED
  BY <1>5, <1>6, <1>7, Steps

(* Mounts of a device share its file system.                               *)
LEMMA KernelNext ==
  ASSUME CallsOK, StateOK, CallInv, MountInv, [VolumeNext]_volumeVars, vol' = vol
  PROVE  KernelInv'
<1> DEFINE K == /\ vol.block => fs' = "none"
                /\ Linux => (fs' # "none" => \E x \in Places : mounts'[x] > 0) /\ (~vol.block => \A x \in Places : mounts'[x] > 0 => fs' # "none")
                /\ ~Linux => fs' # "down" /\ (fs' = "live" <=> mounts'[Staging] > 0)
<1>1. SUFFICES K
  BY DEF KernelInv, Linux, Mounted
<1>2. /\ vol.block => fs = "none"
      /\ Linux => (fs # "none" => \E x \in Places : mounts[x] > 0) /\ (~vol.block => \A x \in Places : mounts[x] > 0 => fs # "none")
      /\ ~Linux => fs # "down" /\ (fs = "live" <=> mounts[Staging] > 0)
  BY DEF MountInv, KernelInv, Mounted
<1>3. /\ Staging \in Places /\ Pods \subseteq Places /\ Staging \notin Pods /\ mounts \in [Places -> Nat]
      /\ \A x \in Places : mounts[x] \in Nat
  BY PlaceAssumption DEF Places, StateOK
<1>4. fs \in {"none", "live", "down"} /\ mounts[Staging] <= 1 /\ (~Linux => ~vol.block /\ ~vol.kata)
  BY VolumeIs DEF StateOK, MountInv, StagingInv
<1>5. CASE Reboot
  BY <1>3, <1>5 DEF Reboot
<1>6. CASE Quiet
  BY <1>2, <1>6 DEF Quiet
<1>7. ASSUME NEW x \in Places, mounts[x] > 0, Unmount(x), x = Staging \/ Linux PROVE K
  <2>1. mounts' = [mounts EXCEPT ![x] = mounts[x] - 1]
    BY <1>7 DEF Unmount
  <2>2. \A y \in Places : mounts'[y] = IF y = x THEN mounts[x] - 1 ELSE mounts[y]
    BY <1>3, <2>1
  <2>3. CASE Linux
    <3>1. fs' = IF mounts[x] = 1 /\ \A y \in Places \ {x} : mounts[y] = 0 THEN "none" ELSE fs
      BY <1>7, <2>3 DEF Unmount
    <3>2. CASE mounts[x] = 1 /\ \A y \in Places \ {x} : mounts[y] = 0
      BY <1>3, <2>2, <2>3, <3>1, <3>2
    <3>3. CASE ~(mounts[x] = 1 /\ \A y \in Places \ {x} : mounts[y] = 0)
      <4>1. fs' = fs /\ \E y \in Places : mounts'[y] > 0
        <5>1. CASE mounts[x] # 1
          BY <1>3, <1>7, <2>2, <3>1, <5>1
        <5>2. CASE \E y \in Places \ {x} : mounts[y] # 0
          <6>1. PICK y \in Places \ {x} : mounts[y] # 0
            BY <5>2
          <6>2. mounts[y] > 0 /\ mounts'[y] = mounts[y]
            BY <1>3, <2>2, <6>1
          <6> QED
            BY <3>1, <3>3, <6>2
        <5> QED
          BY <3>3, <5>1, <5>2
      <4>2. \A y \in Places : mounts'[y] > 0 => mounts[y] > 0
        BY <1>3, <1>7, <2>2
      <4> QED
        BY <1>2, <2>3, <4>1, <4>2
    <3> QED
      BY <3>2, <3>3
  <2>4. CASE ~Linux
    <3>1. x = Staging /\ mounts[x] = 1 /\ fs' = "none"
      BY <1>3, <1>4, <1>7, <2>4 DEF Unmount
    <3> QED
      BY <1>3, <2>2, <2>4, <3>1
  <2> QED
    BY <2>3, <2>4
<1>8. ASSUME NEW s \in Slots, Loud(s) PROVE K
  <2>1. Does(s)
    BY <1>8, LoudDoes
  <2>2. Fits(calls[s]) /\ (calls[s].op \in {"publish", "unpublish"} => Target(s) \in Pods /\ Target(s) \in Places)
    BY <1>3 DEF CallsOK, Fits, Target
  <2>3. CASE MountsStaging(s)
    <3>1. mounts' = [mounts EXCEPT ![Staging] = mounts[Staging] + 1] /\ fs' = IF fs = "none" /\ ~vol.block THEN "live" ELSE fs
      BY <2>3 DEF MountsStaging, Mount
    <3>2. mounts'[Staging] > 0 /\ \A y \in Places : y # Staging => mounts'[y] = mounts[y]
      BY <1>3, <3>1
    <3>3. ~Linux => fs # "down" /\ ~vol.block
      BY <1>2, <1>4
    <3> QED
      BY <1>2, <1>3, <1>4, <3>1, <3>2, <3>3
  <2>4. CASE UnmountsStaging(s)
    BY <1>3, <1>7, <2>4 DEF UnmountsStaging, Mounted
  <2>5. CASE ShutsDown(s)
    <3>1. Linux /\ fs = "live" /\ fs' = "down" /\ mounts' = mounts
      BY <2>2, <2>5 DEF ShutsDown, IsAt, Fits
    <3> QED
      BY <1>2, <3>1
  <2>6. CASE MountsTarget(s)
    <3>1. Target(s) \in Pods /\ mounts' = [mounts EXCEPT ![Target(s)] = mounts[Target(s)] + 1] /\ fs' = fs
      BY <2>2, <2>6 DEF MountsTarget, IsAt
    <3>2. \A y \in Places : mounts'[y] = IF y = Target(s) THEN mounts[y] + 1 ELSE mounts[y]
      BY <1>3, <3>1
    <3>3. Linux => vol.block \/ mounts[Staging] > 0
      BY <2>6 DEF MountsTarget, Mounted
    <3>4. \A y \in Places : mounts[y] > 0 => mounts'[y] > 0
      BY <1>3, <3>2
    <3>5. mounts'[Staging] = mounts[Staging]
      BY <1>3, <3>1, <3>2
    <3> QED
      BY <1>2, <1>3, <3>1, <3>3, <3>4, <3>5
  <2>7. CASE DropsTarget(s)
    <3>1. ~Linux /\ mounts'[Staging] = mounts[Staging] /\ fs' = fs
      BY <1>3, <2>2, <2>7 DEF DropsTarget, IsAt
    <3> QED
      BY <1>2, <3>1
  <2>8. CASE UnmountsTarget(s)
    BY <1>7, <2>2, <2>8 DEF UnmountsTarget, Mounted, IsAt
  <2>9. CASE UNCHANGED <<mounts, fs>>
    BY <1>2, <2>9
  <2> QED
    BY <2>1, <2>3, <2>4, <2>5, <2>6, <2>7, <2>8, <2>9 DEF Does, Assigns, Removes, Quiet
<1> QED
  BY <1>5, <1>6, <1>8, Steps

(* A target that kubelet forgot stays as it is: no call is for its pod.    *)
LEMMA ForgottenStays ==
  ASSUME CallsOK, StateOK, CallInv, MountInv, [VolumeNext]_volumeVars, vol' = vol, ~Reboot, Forgotten
  PROVE  Forgotten'
<1>1. PICK p \in Pods : vol.kata /\ pod[p] = "gone" /\ (mounts[p] > 0 \/ record = p)
  BY DEF Forgotten, Mounted
<1>2. pod'[p] = "gone" /\ p # NoPod
  BY <1>1, PodChanges, PlaceAssumption
<1>3. SUFFICES mounts'[p] > 0 \/ record' = p
  BY <1>1, <1>2 DEF Forgotten, Mounted
<1>4. CASE Quiet
  BY <1>1, <1>4 DEF Quiet
<1>5. ASSUME NEW s \in Slots, Loud(s) PROVE mounts'[p] > 0 \/ record' = p
  <2>1. Does(s)
    BY <1>5, LoudDoes
  <2>2. calls[s].op \in {"publish", "unpublish"} => Target(s) # p
    BY <1>1, PodOfCall DEF Active
  <2>3. CASE mounts[p] > 0
    BY <2>1, <2>2, <2>3, DoesMounts
  <2>4. CASE record = p
    <3>1. Held(s)
      BY <1>1, <1>5, LoudHeld
    <3>2. ~Assigns(s)
      BY <1>2, <2>4, <3>1 DEF MountInv, RecordInv, Assigns, IsAt
    <3>3. Removes(s) => Target(s) # p
      BY <2>2 DEF Removes, IsAt
    <3> QED
      BY <2>1, <2>4, <3>2, <3>3, DoesMounts
  <2> QED
    BY <1>1, <2>3, <2>4
<1> QED
  BY <1>4, <1>5, Steps

(* A mount that is left when the pod at hand has none is a forgotten one.  *)
LEMMA LeftIsForgotten ==
  ASSUME CallsOK, StateOK, CallInv, MountInv, vol.kata, NEW q \in Pods, Active(q), mounts[q] = 0,
         NEW x \in Places, x # Staging, mounts[x] > 0
  PROVE  Forgotten
<1>1. x \in Pods /\ x # q
  BY DEF Places
<1>2. pod[x] # "new" /\ ~Active(x)
  BY <1>1 DEF MountInv, UsedInv, Mounted, CallInv, KataInv
<1>3. pod[x] = "gone"
  BY <1>1, <1>2 DEF CallsOK, Active
<1> QED
  BY <1>1, <1>3 DEF Forgotten, Mounted

LEMMA LiveNext ==
  ASSUME CallsOK, StateOK, CallInv, MountInv, [VolumeNext]_volumeVars, vol' = vol, KernelInv'
  PROVE  LiveInv'
<1> SUFFICES ASSUME fs' = "live", ~(mounts'[Staging] > 0) PROVE Forgotten'
  BY DEF LiveInv, Mounted
<1>1. ~Reboot
  BY DEF Reboot
<1>2. fs = "live"
  BY <1>1, Steps, LoudDoes, DoesMounts DEF Quiet
<1>3. SUFFICES Forgotten
  BY <1>1, ForgottenStays
<1>4. CASE ~(mounts[Staging] > 0)
  BY <1>2, <1>4 DEF MountInv, LiveInv, Mounted
<1>5. CASE mounts[Staging] > 0
  <2>1. PICK s \in Slots : Loud(s)
    BY <1>1, <1>5, Steps DEF Quiet
  <2>2. mounts[Staging] \in Nat
    BY DEF StateOK, Places
  <2>3. UnmountsStaging(s)
    BY <1>5, <2>1, <2>2, LoudDoes, DoesMounts
  <2>4. Linux
    <3>1. ~Linux => ~(fs' = "live")
      BY DEF KernelInv, Mounted, Linux
    <3> QED
      BY <3>1
  <2>5. CASE IsAt(s, "unstage", "unmount")
    BY <1>2, <2>4, <2>5 DEF MountInv, UnmountInv
  <2>6. CASE IsAt(s, "publish", "release")
    <3>1. vol.kata /\ Target(s) \in Pods /\ Active(Target(s))
      <4>1. vol.kata
        BY <2>6 DEF CallsOK, Fits, IsAt
      <4> QED
        BY <2>6, <4>1, PodOfCall DEF IsAt
    <3>2. mounts[Target(s)] = 0
      BY <2>6, <3>1 DEF MountInv, AssignInv, IsAt
    <3>3. PICK x \in Places : mounts'[x] > 0
      BY <2>4 DEF KernelInv, Mounted, Linux
    <3>4. x # Staging /\ mounts[x] > 0
      BY <2>3, <3>3 DEF UnmountsStaging, Unmount, StateOK
    <3> QED
      BY <3>1, <3>2, <3>4, LeftIsForgotten
  <2> QED
    BY <1>2, <2>3, <2>5, <2>6 DEF UnmountsStaging
<1> QED
  BY <1>4, <1>5

(* A file system comes alive only under a call that stages or publishes.   *)
LEMMA LiveComes ==
  ASSUME CallsOK, StateOK, CallInv, [VolumeNext]_volumeVars, fs' = "live", fs # "live"
  PROVE  \E s \in Slots : Loud(s) /\ Held(s) /\ MountsStaging(s) /\ mounts'[Staging] > 0
<1>1. ~Reboot
  BY DEF Reboot
<1>2. PICK s \in Slots : Loud(s)
  BY <1>1, Steps DEF Quiet
<1> QED
  BY <1>2, LoudDoes, DoesMounts, Touches

LEMMA UnmountNext ==
  ASSUME CallsOK, StateOK, CallInv, MountInv, [VolumeNext]_volumeVars, vol' = vol, CallInv', KernelInv', LiveInv'
  PROVE  UnmountInv'
<1> SUFFICES ASSUME fs' = "live", ~Forgotten' PROVE UnmountInv'
  BY DEF UnmountInv
<1>1. ~Reboot /\ ~Forgotten
  BY ForgottenStays DEF Reboot
<1>2. mounts'[Staging] > 0
  BY DEF LiveInv, Mounted
<1>3. CASE fs = "live"
  <2>1. ASSUME NEW t \in Slots, calls'[t].op = "unstage", calls'[t].pc = "rmdir" \/ (Linux /\ calls'[t].pc = "unmount") PROVE FALSE
    <3>1. CASE calls'[t] = calls[t]
      BY <1>1, <1>3, <2>1, <3>1 DEF MountInv, UnmountInv, IsAt
    <3>2. CASE calls'[t].op = calls[t].op /\ Entry(calls[t], calls'[t].pc)
      <4>1. mounts[Staging] <= 1
        BY DEF MountInv, StagingInv
      <4> QED
        BY <1>2, <2>1, <3>2, <4>1 DEF Entry
    <3>3. Start("unstage") = "lock"
      BY DEF Start, Serialised
    <3> QED
      BY <2>1, <3>1, <3>2, <3>3, CallChanges
  <2>2. dev' # "unstaged"
    <3> SUFFICES ASSUME dev' = "unstaged" PROVE FALSE
      OBVIOUS
    <3>1. dev # "unstaged"
      BY <1>1, <1>3 DEF MountInv, UnmountInv
    <3>2. PICK s \in Slots : current = s /\ calls[s].op = "unstage" /\ Done(calls[s], "ok")
      BY <3>1, DevChanges
    <3>3. mounts[Staging] <= 1
      BY DEF MountInv, StagingInv
    <3>4. ~(calls[s].pc = "rmdir" \/ (Linux /\ calls[s].pc = "unmount"))
      BY <1>1, <1>3, <3>2 DEF MountInv, UnmountInv, IsAt
    <3> QED
      BY <1>2, <3>2, <3>3, <3>4 DEF Done
  <2> QED
    BY <2>1, <2>2 DEF UnmountInv, IsAt, Linux
<1>4. CASE fs # "live"
  <2>1. PICK s \in Slots : Loud(s) /\ Held(s) /\ MountsStaging(s)
    BY <1>4, LiveComes
  <2>2. calls[s].op = "stage" \/ (calls[s].op = "publish" /\ vol.kata)
    BY <2>1 DEF MountsStaging, IsAt, CallsOK, Fits
  <2>3. ASSUME NEW t \in Slots, calls'[t].op = "unstage" PROVE calls'[t].pc = "lock"
    <3>1. t # s
      BY <2>1, <2>2, <2>3, LoudMoves, GoesFrame, EndsFrame
    <3> QED
      BY <2>1, <2>3, <3>1, LoudAlone DEF CallInv, Serialised
  <2>4. dev' # "unstaged"
    <3> SUFFICES ASSUME dev' = "unstaged" PROVE FALSE
      OBVIOUS
    <3>1. CASE dev # "unstaged"
      <4>1. PICK t \in Slots : current = t /\ calls[t].op = "unstage" /\ Done(calls[t], "ok")
        BY <3>1, DevChanges
      <4>2. t # s
        BY <2>2, <4>1
      <4> QED
        BY <2>1, <4>1, <4>2, LockDecides DEF CallInv, Serialised
    <3>2. CASE dev = "unstaged"
      BY <2>2, <3>2 DEF CallInv, StageInv, KataInv
    <3> QED
      BY <3>1, <3>2
  <2> QED
    BY <2>3, <2>4 DEF UnmountInv, IsAt
<1> QED
  BY <1>3, <1>4

LEMMA GuestNext ==
  ASSUME CallsOK, StateOK, CallInv, MountInv, [VolumeNext]_volumeVars, vol' = vol
  PROVE  GuestInv'
<1> SUFFICES ASSUME guest' # NoPod
             PROVE  record' = guest' /\ guest' \notin deleted' /\ Active(guest)' /\ ~Unstaging' /\ dev' # "unstaged"
  BY DEF GuestInv, Active
<1>1. ~Reboot
  BY DEF Reboot
<1>2. CASE \E p \in Pods : GuestStarts(p)
  <2>1. PICK p \in Pods : GuestStarts(p)
    BY <1>2
  <2>2. pod[p] = "up" /\ p \notin deleted /\ record = p /\ guest' = p /\ record' = record /\ UNCHANGED <<calls, current, dev, pod, deleted>>
    BY <2>1 DEF GuestStarts, kubelet
  <2>3. ~Unstaging /\ dev # "unstaged"
    BY <2>2 DEF CallInv, PodInv
  <2> QED
    BY <2>2, <2>3 DEF Active, Unstaging, Waits
<1>3. CASE guest' = guest /\ ~(\E p \in Pods : GuestStarts(p))
  <2>1. guest \in Pods /\ record = guest /\ guest \notin deleted /\ Active(guest) /\ ~Unstaging /\ dev # "unstaged"
    BY <1>3 DEF MountInv, GuestInv, StateOK
  <2>2. Active(guest)'
    <3>1. \A p \in Pods : Active(p) /\ p \notin deleted => Active(p)'
      BY PodChanges
    <3> QED
      BY <1>3, <2>1, <3>1 DEF Active
  <2>3. guest \notin deleted'
    <3>1. CASE \E p \in Pods : Delete(p)
      BY <1>3, <2>1, <3>1, PlaceAssumption DEF Delete
    <3>2. CASE deleted' = deleted
      BY <2>1, <3>2
    <3>3. CASE CallMoves
      BY <2>1, <3>3, GoesFrame, EndsFrame, ToldIs DEF CallMoves
    <3>4. CASE CallsStop
      BY <2>1, <3>4, ToldIs DEF CallsStop, Unsure, kubelet
    <3>5. CASE GiveUp \/ KubeletRestarts
      BY <2>1, <3>5, ToldIs DEF GiveUp, KubeletRestarts, Unsure
    <3> QED
      BY <3>1, <3>2, <3>3, <3>4, <3>5, Moves DEF CallStarts, Kubelet, PodMoves, Schedule, Forget
  <2>4. record' = record
    <3>1. ASSUME NEW s \in Slots, Loud(s) PROVE record' = record
      <4>1. vol.kata /\ Held(s)
        BY <2>1, <3>1, LoudHeld, PlaceAssumption DEF MountInv, RecordInv
      <4>2. ~Assigns(s)
        BY <2>1, <4>1, PlaceAssumption DEF MountInv, RecordInv, Assigns, IsAt
      <4>3. Removes(s) => Target(s) \in deleted
        BY DEF Removes, IsAt, CallInv, PodInv, Target
      <4> QED
        BY <2>1, <3>1, <4>2, <4>3, LoudDoes, DoesMounts
    <3> QED
      BY <1>1, <3>1, Steps DEF Quiet
  <2>5. ~Unstaging' /\ dev' # "unstaged"
    <3>1. pod[guest] \notin {"new", "gone"}
      BY <2>1 DEF Active
    <3>2. ~Unstaging'
      BY <2>1, <3>1, DevChanges
    <3>3. dev' # "unstaged"
      BY <2>1, DevChanges DEF Unstaging, Waits
    <3> QED
      BY <3>2, <3>3
  <2> QED
    BY <1>3, <2>1, <2>2, <2>3, <2>4, <2>5
<1>4. guest' = guest \/ \E p \in Pods : GuestStarts(p)
  BY <1>1, Steps, LoudMoves
<1> QED
  BY <1>2, <1>3, <1>4

LEMMA StuckNext ==
  ASSUME CallsOK, StateOK, CallInv, MountInv, [VolumeNext]_volumeVars, vol' = vol, KernelInv', RecordInv'
  PROVE  StuckInv'
<1> SUFFICES ASSUME dev' = "yes", ~Unstaging' PROVE (fs' = "down" => stuck') /\ (~Linux => mounts'[Staging] > 0)
  BY DEF StuckInv, Mounted, Linux
<1>1. ~Reboot
  BY DEF Reboot, Unsure
<1>2. ~Unstaging
  BY DevChanges
<1>3. CASE dev = "yes"
  <2>1. (fs = "down" => stuck) /\ (~Linux => mounts[Staging] > 0)
    BY <1>2, <1>3 DEF MountInv, StuckInv, Mounted
  <2>2. fs' = "down" => fs = "down"
    BY <1>2, <1>3, DownComes DEF Unstaging, Waits
  <2>3. ASSUME ~Linux PROVE mounts'[Staging] = mounts[Staging]
    <3>1. ASSUME NEW s \in Slots, Loud(s) PROVE mounts'[Staging] = mounts[Staging]
      <4>1. Does(s) /\ ~vol.kata
        BY <2>3, <3>1, LoudDoes, VolumeIs
      <4>2. ~MountsStaging(s) /\ ~UnmountsStaging(s)
        BY <1>2, <1>3, <4>1 DEF MountsStaging, UnmountsStaging, IsAt, CallInv, StageInv, UnstageInv, Unstaging, Waits, CallsOK, Fits
      <4> QED
        BY <4>1, <4>2, DoesMounts
    <3> QED
      BY <1>1, <3>1, Steps DEF Quiet
  <2> QED
    BY <1>1, <2>1, <2>2, <2>3, StuckStays
<1>4. CASE dev # "yes"
  <2>1. PICK s \in Slots : current = s /\ calls[s].op = "stage" /\ Done(calls[s], "ok")
    BY <1>4, DevChanges
  <2>2. (~Linux => ~vol.block /\ ~vol.kata) /\ vol.block \in BOOLEAN
    BY VolumeIs
  <2>3. CASE vol.block
    BY <2>2, <2>3 DEF KernelInv
  <2>4. CASE Assigned /\ record' = record
    BY <2>2, <2>4 DEF Assigned, RecordInv
  <2>5. ~Linux => fs' # "down"
    BY DEF KernelInv, Linux
  <2>6. CASE mounts'[Staging] > 0 /\ (fs' = "down" => stuck')
    BY <2>6
  <2>7. CASE calls[s].pc = "resize" /\ UNCHANGED <<mounts, fs, stuck>>
    <3>1. mounts[Staging] > 0 /\ (Linux /\ fs = "down" => stuck)
      BY <2>1, <2>7 DEF MountInv, StagingInv, Mounted
    <3>2. fs' = "down" => stuck
      BY <2>5, <2>7, <3>1
    <3>3. stuck => stuck'
      BY <1>1, StuckStays
    <3> QED
      BY <2>7, <3>1, <3>2, <3>3
  <2> QED
    BY <2>1, <2>3, <2>4, <2>6, <2>7 DEF Done
<1> QED
  BY <1>3, <1>4

LEMMA UpNext ==
  ASSUME CallsOK, StateOK, CallInv, MountInv, [VolumeNext]_volumeVars, vol' = vol
  PROVE  UpInv'
<1> SUFFICES ASSUME NEW p \in Pods, pod'[p] = "up", p \notin deleted', ~(mounts'[p] > 0) PROVE record' = p
  BY DEF UpInv, Mounted
<1>1. ~Reboot
  BY DEF Reboot, Unsure
<1>2. p \notin deleted /\ p # NoPod
  BY PodChanges, PlaceAssumption
<1>3. CASE pod[p] # "up"
  BY <1>3, PodChanges DEF Done, Target
<1>4. CASE pod[p] = "up"
  <2>1. record = p \/ mounts[p] > 0
    BY <1>2, <1>4 DEF MountInv, UpInv, Mounted
  <2>2. CASE Quiet
    BY <2>1, <2>2 DEF Quiet
  <2>3. ASSUME NEW s \in Slots, Loud(s) PROVE record' = p
    <3>1. Does(s)
      BY <2>3, LoudDoes
    <3>2. calls[s].op = "unpublish" => Target(s) # p
      BY <1>2 DEF CallInv, PodInv, Target
    <3>3. CASE record = p
      <4>1. vol.kata /\ Held(s)
        BY <1>2, <2>3, <3>3, LoudHeld DEF MountInv, RecordInv
      <4>2. ~Assigns(s) /\ (Removes(s) => Target(s) # p)
        BY <1>2, <3>2, <3>3, <4>1 DEF MountInv, RecordInv, Assigns, Removes, IsAt
      <4> QED
        BY <3>1, <3>3, <4>2, DoesMounts
    <3>4. CASE mounts[p] > 0
      <4>1. Target(s) = p /\ calls[s].op = "publish" /\ (UnmountsTarget(s) \/ DropsTarget(s))
        BY <3>1, <3>2, <3>4, DoesMounts
      <4>2. calls[s].pc = "target"
        BY <4>1 DEF UnmountsTarget, DropsTarget, IsAt
      <4>3. current = s
        <5>1. CASE vol.kata
          BY <1>4, <4>1, <5>1, PodOfCall
        <5>2. CASE ~vol.kata
          BY <4>1, <4>2, <5>2 DEF CallInv, CurrentInv
        <5> QED
          BY <5>1, <5>2
      <4>4. pod[p] # "up"
        BY <4>1, <4>3 DEF CallInv, PodInv, Waits, Target
      <4> QED
        BY <1>4, <4>4
    <3> QED
      BY <2>1, <3>3, <3>4
  <2> QED
    BY <1>1, <2>2, <2>3, Steps
<1> QED
  BY <1>3, <1>4

LEMMA MountNext ==
  ASSUME CallsOK, StateOK, CallInv, MountInv, [VolumeNext]_volumeVars
  PROVE  MountInv'
<1>1. vol' = vol /\ CallInv'
  BY Moves, CallInvNext
<1>2. RecordInv' /\ UsedInv' /\ AssignInv' /\ StagingInv' /\ KernelInv' /\ GuestInv' /\ UpInv'
  BY <1>1, RecordNext, UsedNext, AssignNext, StagingNext, KernelNext, GuestNext, UpNext
<1>3. LiveInv'
  BY <1>1, <1>2, LiveNext
<1>4. UnmountInv' /\ StuckInv'
  BY <1>1, <1>2, <1>3, UnmountNext, StuckNext
<1> QED
  BY <1>2, <1>3, <1>4 DEF MountInv

LEMMA MountBegins ==
  ASSUME NodeInit
  PROVE  MountInv
<1>1. PICK users \in {"new", "gone"}, n \in {0, MaxFaults} : Untouched(users, n)
  BY VolumeBegins DEF VolumeInit, Unused
<1>2. /\ mounts = [x \in Places |-> 0] /\ fs = "none" /\ record = NoPod /\ guest = NoPod
      /\ dev = "no" /\ pod = [p \in Pods |-> users]
      /\ \A s \in Slots : calls[s].op = "none" /\ calls[s].pc = "idle"
  BY <1>1 DEF Untouched, Idle
<1>3. \A x \in Places : mounts[x] = 0
  BY <1>2
<1>4. Staging \in Places /\ Pods \subseteq Places /\ NoPod \notin Pods
  BY PlaceAssumption DEF Places
<1>5. \A p \in Pods : pod[p] # "up" /\ ~Mounted(p) /\ record # p
  BY <1>2, <1>3, <1>4 DEF Mounted
<1>6. RecordInv /\ UsedInv /\ AssignInv /\ GuestInv /\ StuckInv /\ UpInv
  <2>1. ~Unstaging
    BY <1>2 DEF Unstaging, Waits
  <2> QED
    BY <1>2, <1>5, <2>1 DEF RecordInv, UsedInv, AssignInv, GuestInv, StuckInv, UpInv
<1>7. StagingInv /\ KernelInv /\ LiveInv /\ UnmountInv
  BY <1>2, <1>3, <1>4 DEF StagingInv, KernelInv, LiveInv, UnmountInv, Mounted
<1> QED
  BY <1>6, <1>7 DEF MountInv

LEMMA InvariantHolds == NodeSpec => [](CallsOK /\ StateOK /\ CallInv /\ MountInv)
<1> DEFINE I == CallsOK /\ StateOK /\ CallInv /\ MountInv
<1>1. NodeInit => I
  BY Begins, MountBegins
<1>2. I /\ [NodeNext]_nodeVars => I'
  BY VolumeSteps, CallsNext, StateNext, CallInvNext, MountNext
<1> QED
  BY <1>1, <1>2, PTL DEF NodeSpec

(* No call works on a device that is not the volume's                      *)
(* (findDiskByLunWithConstraint and the searches of the Windows mounters): *)
(* however many disks the machine lists, in whatever order. On Linux it    *)
(* does not matter whether udev has linked the disks of the system, if     *)
(* they are on the first SCSI hosts until then; on Windows the only other  *)
(* disks that a call may take are those of adapter 0 that are listed       *)
(* although the code means to skip them (DeviceAssumption).                *)
THEOREM DeviceIsRight == NodeSpec => []DeviceIsTheVolume
<1>1. CallsOK => DeviceIsTheVolume
  BY DEF CallsOK, Fits, DeviceIsTheVolume
<1> QED
  BY <1>1, InvariantHolds, PTL

(* A pod that runs has the volume (NodeStageVolume, NodePublishVolume and  *)
(* the calls that undo them): whatever calls were given up, failed or were *)
(* cut off by a restart before, the target that kubelet believes published *)
(* is mounted and its file system lives, or a guest was given the disk.    *)
THEOREM RunningHasVolume == NodeSpec => []PublishedIsMounted
<1>1. ASSUME CallsOK, StateOK, CallInv, MountInv PROVE PublishedIsMounted
  <2> SUFFICES ASSUME NEW p \in Pods, pod[p] = "up", p \notin deleted, record # p
               PROVE  Mounted(p) /\ (vol.block \/ fs = "live" \/ stuck)
    BY DEF PublishedIsMounted
  <2>1. Mounted(p) /\ p \in Places
    BY <1>1 DEF MountInv, UpInv, Places
  <2>2. dev = "yes" /\ ~Unstaging
    BY <1>1 DEF CallInv, PodInv
  <2>3. fs = "down" => stuck
    BY <1>1, <2>2 DEF MountInv, StuckInv
  <2>4. vol.block \/ fs # "none"
    BY <1>1, <2>1, <2>2 DEF MountInv, KernelInv, StuckInv
  <2> QED
    BY <1>1, <2>1, <2>3, <2>4 DEF StateOK
<1> QED
  BY <1>1, InvariantHolds, PTL

(* While a guest has the disk, or another node may get it, the host has no *)
(* live file system on it and runs no tool on it (the MountInfo that       *)
(* NodeStageVolume, NodePublishVolume and NodeExpandVolume look for, and   *)
(* the order of NodeUnstageVolume); a target that kubelet forgot is the    *)
(* exception.                                                              *)
THEOREM HostHasLetGo == NodeSpec => []HostLetsGo
<1>1. ASSUME CallsOK, StateOK, CallInv, MountInv PROVE HostLetsGo
  <2>1. ASSUME guest # NoPod PROVE fs = "none" \/ Forgotten
    <3>1. vol.kata /\ Linux /\ record = guest /\ guest \in Pods /\ Active(guest) /\ mounts[Staging] = 0 /\ mounts[guest] = 0
      BY <1>1, <2>1, VolumeIs DEF MountInv, GuestInv, RecordInv, StateOK
    <3>2. CASE fs # "none"
      <4>1. PICK x \in Places : mounts[x] > 0
        BY <1>1, <3>1, <3>2 DEF MountInv, KernelInv, Mounted
      <4>2. x # Staging
        BY <3>1, <4>1
      <4> QED
        BY <1>1, <3>1, <4>1, <4>2, LeftIsForgotten
    <3> QED
      BY <3>2
  <2>2. dev = "unstaged" => (fs # "live" \/ Forgotten) /\ guest = NoPod
    BY <1>1 DEF MountInv, UnmountInv, GuestInv
  <2>3. ASSUME guest # NoPod \/ dev = "unstaged", NEW s \in Slots, Tool(calls[s]) PROVE FALSE
    <3>1. calls[s].op = "stage" /\ Held(s)
      BY <2>3 DEF Tool, Held, Serialised
    <3>2. CASE guest # NoPod
      BY <1>1, <3>1, <3>2 DEF MountInv, GuestInv, RecordInv
    <3>3. CASE dev = "unstaged"
      BY <1>1, <3>1, <3>3 DEF CallInv, StageInv
    <3> QED
      BY <2>3, <3>2, <3>3
  <2> QED
    BY <2>1, <2>2, <2>3 DEF HostLetsGo
<1> QED
  BY <1>1, InvariantHolds, PTL

-----------------------------------------------------------------------------
(* Volumes that the nodes attach. Only the node of the VolumeAttachment    *)
(* has calls or a staged volume, so the request a call waits for has the   *)
(* highest number of all; when it is accepted the others are stale.        *)
DrivenRequests == [node : Nodes, op : {"attach", "detach"}, late : BOOLEAN, stale : BOOLEAN]

DrivenCalls == [op : {"none", "attach", "detach"}, pc : {"idle", "lookup", "increment", "wait", "poll"}]

Beliefs == {"no", "failed", "uncertain", "yes"}

DrivenTyped ==
  /\ va \in Nodes \cup {NoNode} /\ home \in Nodes \cup {NoNode}
  /\ staged \in [Nodes -> Beliefs]
  /\ call \in [Nodes -> DrivenCalls] /\ net \in Seq(DrivenRequests)
  /\ holder \in Nodes \cup {NoNode} /\ status \in [Nodes -> {"none", "attaching", "detaching", "error"}]

OneNodeCalls == \A n \in Nodes : n # va => staged[n] \in {"no", "failed"} /\ call[n] = Driven!NoOperation

CallSteps == \A n \in Nodes : call[n].op = "none" <=> call[n].pc = "idle"

NewestWaits ==
  \A i \in 1 .. Len(net) : ~net[i].late =>
    i = Len(net) /\ ~net[i].stale /\ call[net[i].node].pc = "wait" /\ call[net[i].node].op = net[i].op

(* Nothing is under way that would take the disk off node n, nor anything  *)
(* on its way that would be accepted.                                      *)
Undisputed(n) ==
  /\ \A m \in Nodes : m # n => status[m] \in {"none", "error"}
  /\ \A i \in 1 .. Len(net) : net[i].stale

AttachPolled == \A n \in Nodes : call[n].op = "attach" /\ call[n].pc = "poll" => Undisputed(n)

StagedHolds ==
  \A n \in Nodes : staged[n] = "yes" /\ call[n] = Driven!NoOperation => holder = n /\ status[n] = "none" /\ Undisputed(n)

DrivenInv == DrivenTyped /\ OneNodeCalls /\ CallSteps /\ NewestWaits /\ AttachPolled /\ StagedHolds

LEMMA NoOperationIs == Driven!NoOperation \in DrivenCalls /\ Driven!NoOperation.op = "none" /\ Driven!NoOperation.pc = "idle"
  BY DEF Driven!NoOperation, DrivenCalls

(* A request is taken out, and the older ones become stale.                *)
LEMMA Removed ==
  ASSUME NEW R, NEW s \in Seq(R), NEW i \in 1 .. Len(s)
  PROVE  /\ Driven!RemoveAt(s, i) \in Seq(R) /\ Len(Driven!RemoveAt(s, i)) = Len(s) - 1
         /\ \A j \in 1 .. Len(s) - 1 : Driven!RemoveAt(s, i)[j] = (IF j < i THEN s[j] ELSE s[j + 1])
<1> DEFINE front == SubSeq(s, 1, i - 1)
           back == SubSeq(s, i + 1, Len(s))
<1>1. front \in Seq(R) /\ Len(front) = i - 1 /\ \A j \in 1 .. i - 1 : front[j] = s[j]
  BY SubSeqProperties
<1>2. back \in Seq(R) /\ Len(back) = Len(s) - i /\ \A j \in 1 .. Len(s) - i : back[j] = s[i + j]
  BY SubSeqProperties
<1>3. Driven!RemoveAt(s, i) = front \o back
  BY DEF Driven!RemoveAt
<1> HIDE DEF front, back
<1>4. front \o back \in Seq(R) /\ Len(front \o back) = Len(s) - 1
  <2>1. front \o back \in Seq(R) /\ Len(front \o back) = Len(front) + Len(back)
    BY <1>1, <1>2, ConcatProperties, Zenon
  <2>2. (i - 1) + (Len(s) - i) = Len(s) - 1
    OBVIOUS
  <2> QED
    BY <1>1, <1>2, <2>1, <2>2
<1>5. ASSUME NEW j \in 1 .. Len(s) - 1 PROVE (front \o back)[j] = (IF j < i THEN s[j] ELSE s[j + 1])
  <2>1. (front \o back)[j] = (IF j =< Len(front) THEN front[j] ELSE back[j - Len(front)])
    BY <1>1, <1>2, ConcatProperties
  <2> QED
    BY <1>1, <1>2, <2>1
<1> QED
  BY <1>3, <1>4, <1>5

LEMMA SupersededIs ==
  ASSUME DrivenTyped, NEW i \in 1 .. Len(net)
  PROVE  /\ Driven!Superseded(i) \in Seq(DrivenRequests) /\ Len(Driven!Superseded(i)) = Len(net) - 1
         /\ \A j \in 1 .. Len(net) - 1 :
              /\ j < i => /\ Driven!Superseded(i)[j].stale
                          /\ Driven!Superseded(i)[j].late = net[j].late
                          /\ Driven!Superseded(i)[j].node = net[j].node
                          /\ Driven!Superseded(i)[j].op = net[j].op
              /\ j >= i => Driven!Superseded(i)[j] = net[j + 1]
<1> DEFINE rest == Driven!RemoveAt(net, i)
           t == [j \in 1 .. Len(net) - 1 |-> IF j < i THEN [rest[j] EXCEPT !.stale = TRUE] ELSE rest[j]]
<1>1. /\ rest \in Seq(DrivenRequests) /\ Len(rest) = Len(net) - 1
      /\ \A j \in 1 .. Len(net) - 1 : rest[j] = (IF j < i THEN net[j] ELSE net[j + 1])
  BY Removed DEF DrivenTyped
<1>2. Driven!Superseded(i) = t
  BY <1>1 DEF Driven!Superseded
<1>3. \A j \in 1 .. Len(net) - 1 : net[j] \in DrivenRequests /\ net[j + 1] \in DrivenRequests
  BY DEF DrivenTyped
<1>4. \A j \in 1 .. Len(net) - 1 : t[j] \in DrivenRequests
  BY <1>1, <1>3 DEF DrivenRequests
<1>5. Len(net) - 1 \in Nat
  BY DEF DrivenTyped
<1>6. t \in Seq(DrivenRequests) /\ Len(t) = Len(net) - 1
  BY <1>4, <1>5
<1> QED
  BY <1>1, <1>2, <1>3, <1>6 DEF DrivenRequests

(* A call that has been answered.                                          *)
LEMMA ResultIs ==
  ASSUME DrivenInv, NEW n \in Nodes, NEW code \in {"ok", "uncertain", "final"}, Driven!Result(n, code)
  PROVE  /\ call' \in [Nodes -> DrivenCalls] /\ staged' \in [Nodes -> Beliefs]
         /\ call'[n] = Driven!NoOperation
         /\ staged'[n] = "yes" => code = "ok" /\ call[n].op = "attach"
         /\ staged'[n] = "no" => code = "ok" /\ call[n].op # "attach"
         /\ \A m \in Nodes : m # n => call'[m] = call[m] /\ staged'[m] = staged[m]
<1> DEFINE belief == CASE code = "uncertain" -> "uncertain"
                       [] code = "ok" -> IF call[n].op = "attach" THEN "yes" ELSE "no"
                       [] code = "final" -> IF call[n].op = "attach" THEN "failed" ELSE "uncertain"
<1>1. /\ belief \in Beliefs /\ (belief = "yes" => code = "ok" /\ call[n].op = "attach")
      /\ belief = "no" => code = "ok" /\ call[n].op # "attach"
  BY DEF Beliefs
<1>2. staged' = [staged EXCEPT ![n] = belief] /\ call' = [call EXCEPT ![n] = Driven!NoOperation]
  BY DEF Driven!Result
<1> HIDE DEF belief
<1>3. staged \in [Nodes -> Beliefs] /\ call \in [Nodes -> DrivenCalls]
  BY DEF DrivenInv, DrivenTyped
<1> QED
  BY <1>1, <1>2, <1>3, NoOperationIs

(* The node that has a call is the one of the attachment.                  *)
LEMMA CallerIs ==
  ASSUME DrivenInv, NEW n \in Nodes, call[n].pc # "idle"
  PROVE  n = va /\ call[n].op \in {"attach", "detach"} /\ call[n] # Driven!NoOperation
<1>1. call[n] \in DrivenCalls
  BY DEF DrivenInv, DrivenTyped
<1> QED
  BY <1>1, NoOperationIs DEF DrivenInv, OneNodeCalls, CallSteps, DrivenCalls

(* The answer to a call leaves the invariant if nothing else disturbs it.  *)
LEMMA ResultKeeps ==
  ASSUME DrivenInv, NEW n \in Nodes, NEW code \in {"ok", "uncertain", "final"}, Driven!Result(n, code),
         call[n].pc # "idle", va' = va, home' = home, holder' \in Nodes \cup {NoNode},
         status' \in [Nodes -> {"none", "attaching", "detaching", "error"}], net' \in Seq(DrivenRequests),
         \A i \in 1 .. Len(net)' : net'[i].late,
         code = "ok" /\ call[n].op = "attach" => holder' = n /\ status'[n] = "none" /\ Undisputed(n)'
  PROVE  DrivenInv'
<1>1. /\ call' \in [Nodes -> DrivenCalls] /\ staged' \in [Nodes -> Beliefs]
      /\ call'[n] = Driven!NoOperation
      /\ staged'[n] = "yes" => code = "ok" /\ call[n].op = "attach"
      /\ \A m \in Nodes : m # n => call'[m] = call[m] /\ staged'[m] = staged[m]
  BY ResultIs
<1>2. n = va
  BY CallerIs
<1>3. \A m \in Nodes : m # n => call'[m] = Driven!NoOperation /\ staged'[m] \in {"no", "failed"}
  BY <1>1, <1>2 DEF DrivenInv, OneNodeCalls
<1>4. DrivenTyped'
  BY <1>1 DEF DrivenTyped, DrivenInv
<1>5. OneNodeCalls'
  BY <1>2, <1>3 DEF OneNodeCalls
<1>6. \A m \in Nodes : call'[m] = Driven!NoOperation
  BY <1>1, <1>3
<1>7. CallSteps' /\ AttachPolled'
  BY <1>6, NoOperationIs DEF CallSteps, AttachPolled
<1>8. NewestWaits'
  BY DEF NewestWaits
<1>9. StagedHolds'
  BY <1>1, <1>3 DEF StagedHolds
<1> QED
  BY <1>4, <1>5, <1>7, <1>8, <1>9 DEF DrivenInv

(* A call that does not wait has no request but late ones.                 *)
LEMMA NothingTimely ==
  ASSUME DrivenInv, NEW n \in Nodes, call[n].pc \notin {"idle", "wait"}
  PROVE  \A i \in 1 .. Len(net) : net[i].late
<1> SUFFICES ASSUME NEW i \in 1 .. Len(net), ~net[i].late PROVE FALSE
  OBVIOUS
<1>1. net[i] \in DrivenRequests
  BY DEF DrivenInv, DrivenTyped
<1>2. net[i].node \in Nodes
  BY <1>1 DEF DrivenRequests
<1>3. call[net[i].node].pc = "wait"
  BY DEF DrivenInv, NewestWaits
<1> QED
  BY <1>2, <1>3, CallerIs

LEMMA ClusterKeeps ==
  ASSUME DrivenInv, UNCHANGED <<staged, call, net, holder, status>>,
         home' \in Nodes \cup {NoNode}, va' \in Nodes \cup {NoNode},
         va' = va \/ \A n \in Nodes : staged[n] \in {"no", "failed"} /\ call[n] = Driven!NoOperation
  PROVE  DrivenInv'
  BY DEF DrivenInv, DrivenTyped, OneNodeCalls, CallSteps, NewestWaits, AttachPolled, StagedHolds, Undisputed

(* A call goes on, or begins, with net and the service as they are.        *)
LEMMA CallGoes ==
  ASSUME DrivenInv, NEW n \in Nodes, n = va, NEW c \in DrivenCalls, c.pc \in {"lookup", "increment"}, c.op # "none",
         call[n].pc # "wait", call' = [call EXCEPT ![n] = c], UNCHANGED <<home, va, staged, net, holder, status>>
  PROVE  DrivenInv'
<1>1. call' \in [Nodes -> DrivenCalls] /\ call'[n] = c /\ \A m \in Nodes : m # n => call'[m] = call[m]
  BY DEF DrivenInv, DrivenTyped
<1>2. c # Driven!NoOperation
  BY NoOperationIs
<1>3. DrivenTyped' /\ OneNodeCalls' /\ CallSteps'
  BY <1>1, NoOperationIs DEF DrivenInv, DrivenTyped, OneNodeCalls, CallSteps
<1>4. NewestWaits'
  BY <1>1 DEF DrivenInv, DrivenTyped, DrivenRequests, NewestWaits
<1>5. AttachPolled' /\ StagedHolds'
  BY <1>1, <1>2 DEF DrivenInv, AttachPolled, StagedHolds, Undisputed
<1> QED
  BY <1>3, <1>4, <1>5 DEF DrivenInv

LEMMA IncrementKeeps ==
  ASSUME DrivenInv, NEW n \in Nodes, Driven!incrementAttachSequenceAnnotation(n)
  PROVE  DrivenInv'
<1>1. call[n].pc = "increment" /\ UNCHANGED <<home, va, holder, status>>
  BY DEF Driven!incrementAttachSequenceAnnotation, Driven!cluster
<1>2. n = va /\ call[n].op \in {"attach", "detach"} /\ \A i \in 1 .. Len(net) : net[i].late
  BY <1>1, CallerIs, NothingTimely
<1>3. CASE Driven!Result(n, "final") /\ net' = net
  BY <1>1, <1>2, <1>3, ResultKeeps DEF DrivenInv, DrivenTyped
<1>4. CASE /\ call' = [call EXCEPT ![n].pc = "wait"] /\ UNCHANGED staged
           /\ net' = Append(net, [node |-> n, op |-> call[n].op, late |-> FALSE, stale |-> FALSE])
  <2> DEFINE r == [node |-> n, op |-> call[n].op, late |-> FALSE, stale |-> FALSE]
  <2>1. r \in DrivenRequests /\ r.node = n /\ r.op = call[n].op /\ ~r.late /\ ~r.stale
    BY <1>2 DEF DrivenRequests
  <2>2. net' = Append(net, r)
    BY <1>4
  <2> HIDE DEF r
  <2>3. net' \in Seq(DrivenRequests) /\ Len(net') = Len(net) + 1 /\ net'[Len(net) + 1] = r
        /\ \A i \in 1 .. Len(net) : net'[i] = net[i]
    BY <2>1, <2>2 DEF DrivenInv, DrivenTyped
  <2>4. call' \in [Nodes -> DrivenCalls] /\ call'[n].pc = "wait" /\ call'[n].op = call[n].op
        /\ \A m \in Nodes : m # n => call'[m] = call[m]
    BY <1>4 DEF DrivenInv, DrivenTyped, DrivenCalls
  <2>5. DrivenTyped' /\ OneNodeCalls' /\ CallSteps'
    BY <1>1, <1>2, <1>4, <2>3, <2>4 DEF DrivenInv, DrivenTyped, OneNodeCalls, CallSteps
  <2>6. NewestWaits'
    BY <1>2, <2>1, <2>3, <2>4 DEF DrivenInv, DrivenTyped, NewestWaits
  <2>7. \A m \in Nodes : m # n => call'[m] = Driven!NoOperation /\ staged'[m] \in {"no", "failed"}
    BY <1>2, <1>4, <2>4 DEF DrivenInv, OneNodeCalls
  <2>8. AttachPolled' /\ StagedHolds'
    BY <2>4, <2>7, NoOperationIs DEF AttachPolled, StagedHolds
  <2> QED
    BY <2>5, <2>6, <2>8 DEF DrivenInv
<1> QED
  BY <1>3, <1>4 DEF Driven!incrementAttachSequenceAnnotation

LEMMA CallEndsKeeps ==
  ASSUME DrivenInv, NEW n \in Nodes, Driven!CallEnds(n)
  PROVE  DrivenInv'
<1>1. PICK code \in {"uncertain", "final"} : Driven!Result(n, code)
  BY DEF Driven!CallEnds
<1>2. call[n].pc \in {"wait", "poll"} /\ UNCHANGED <<home, va, holder, status>>
      /\ net' = [i \in DOMAIN net |-> IF net[i].node = n THEN [net[i] EXCEPT !.late = TRUE] ELSE net[i]]
  BY DEF Driven!CallEnds, Driven!cluster
<1>3. net \in Seq(DrivenRequests) /\ Len(net) \in Nat /\ DOMAIN net = 1 .. Len(net) /\ n = va
  BY <1>2, CallerIs DEF DrivenInv, DrivenTyped
<1>4. \A i \in 1 .. Len(net) : net'[i] \in DrivenRequests /\ net'[i].late
  <2> SUFFICES ASSUME NEW i \in 1 .. Len(net) PROVE net'[i] \in DrivenRequests /\ net'[i].late
    OBVIOUS
  <2>1. net[i] \in DrivenRequests
    BY <1>3
  <2>2. net[i].node = n \/ net[i].late
    <3> SUFFICES ASSUME ~net[i].late PROVE net[i].node = n
      OBVIOUS
    <3>1. net[i].node \in Nodes /\ call[net[i].node].pc = "wait"
      BY <2>1 DEF DrivenRequests, DrivenInv, NewestWaits
    <3> QED
      BY <1>3, <3>1, CallerIs
  <2> QED
    BY <1>2, <1>3, <2>1, <2>2 DEF DrivenRequests
<1>5. net' \in Seq(DrivenRequests) /\ Len(net') = Len(net)
  BY <1>2, <1>3, <1>4
<1>6. \A i \in 1 .. Len(net)' : net'[i].late
  BY <1>4, <1>5
<1>7. holder' \in Nodes \cup {NoNode} /\ status' \in [Nodes -> {"none", "attaching", "detaching", "error"}]
  BY <1>2 DEF DrivenInv, DrivenTyped
<1> QED
  BY <1>1, <1>2, <1>5, <1>6, <1>7, ResultKeeps

LEMMA StepKeeps ==
  ASSUME DrivenInv, NEW n \in Nodes, Driven!DrivenStep(n)
  PROVE  DrivenInv'
<1>0. holder \in Nodes \cup {NoNode} /\ status \in [Nodes -> {"none", "attaching", "detaching", "error"}]
      /\ net \in Seq(DrivenRequests) /\ call[n] \in DrivenCalls /\ call \in [Nodes -> DrivenCalls]
  BY DEF DrivenInv, DrivenTyped
<1>1. CASE Driven!getPVFromDiskURI(n)
  <2>1. call[n].pc = "lookup" /\ UNCHANGED <<home, va, net, holder, status>>
    BY <1>1 DEF Driven!getPVFromDiskURI, Driven!cluster, Driven!service
  <2>2. n = va /\ call[n].op \in {"attach", "detach"} /\ \A i \in 1 .. Len(net) : net[i].late
    BY <2>1, CallerIs, NothingTimely
  <2>3. CASE Driven!Result(n, "final")
    BY <1>0, <2>1, <2>2, <2>3, ResultKeeps
  <2>4. CASE call' = [call EXCEPT ![n].pc = "increment"] /\ UNCHANGED staged
    <3> DEFINE c == [call[n] EXCEPT !.pc = "increment"]
    <3>1. c \in DrivenCalls /\ c.pc = "increment" /\ c.op = call[n].op
      BY <1>0 DEF DrivenCalls
    <3>2. call' = [call EXCEPT ![n] = c]
      BY <1>0, <2>4
    <3> HIDE DEF c
    <3> QED
      BY <2>1, <2>2, <2>4, <3>1, <3>2, CallGoes
  <2> QED
    BY <1>1, <2>3, <2>4 DEF Driven!getPVFromDiskURI
<1>2. CASE Driven!incrementAttachSequenceAnnotation(n)
  BY <1>2, IncrementKeeps
<1>3. CASE Driven!PollAttach(n)
  <2>1. call[n].op = "attach" /\ call[n].pc = "poll" /\ UNCHANGED <<home, va, net, holder, status>>
    BY <1>3 DEF Driven!PollAttach, Driven!cluster, Driven!service
  <2>2. (\A i \in 1 .. Len(net) : net[i].late) /\ Undisputed(n)
    BY <2>1, NothingTimely DEF DrivenInv, AttachPolled
  <2>3. Undisputed(n)'
    BY <2>1, <2>2 DEF Undisputed
  <2>4. CASE Driven!getDiskState(n) = "attached" /\ Driven!Result(n, "ok")
    <3>1. holder = n /\ status[n] = "none"
      BY <1>0, <2>4 DEF Driven!getDiskState
    <3> QED
      BY <1>0, <2>1, <2>2, <2>3, <2>4, <3>1, ResultKeeps
  <2>5. CASE Driven!Result(n, "uncertain") \/ Driven!Result(n, "final")
    BY <1>0, <2>1, <2>2, <2>5, ResultKeeps
  <2> QED
    BY <1>3, <2>4, <2>5 DEF Driven!PollAttach, Driven!AttachedAnswer
<1>4. CASE Driven!PollDetach(n)
  <2>1. call[n].op = "detach" /\ call[n].pc = "poll" /\ UNCHANGED <<home, va, net, holder, status>>
    BY <1>4 DEF Driven!PollDetach, Driven!cluster, Driven!service
  <2>2. \A i \in 1 .. Len(net) : net[i].late
    BY <2>1, NothingTimely
  <2>3. Driven!Result(n, "ok") \/ Driven!Result(n, "final")
    BY <1>4 DEF Driven!PollDetach
  <2> QED
    BY <1>0, <2>1, <2>2, <2>3, ResultKeeps
<1> QED
  BY <1>1, <1>2, <1>3, <1>4 DEF Driven!DrivenStep

LEMMA CompleteKeeps ==
  ASSUME DrivenInv, NEW n \in Nodes, Driven!Complete(n)
  PROVE  DrivenInv'
<1>1. status[n] \in {"attaching", "detaching"} /\ UNCHANGED <<home, va, staged, call, net>>
  BY DEF Driven!Complete, Driven!cluster
<1>2. holder' \in Nodes \cup {NoNode} /\ status' \in [Nodes -> {"none", "attaching", "detaching", "error"}]
      /\ \A m \in Nodes : status'[m] = status[m] \/ status'[m] \in {"none", "error"}
  BY DEF Driven!Complete, DrivenInv, DrivenTyped
<1>3. DrivenTyped' /\ OneNodeCalls' /\ CallSteps' /\ NewestWaits'
  BY <1>1, <1>2 DEF DrivenInv, DrivenTyped, OneNodeCalls, CallSteps, NewestWaits
<1>4. \A m \in Nodes : Undisputed(m) => Undisputed(m)'
  BY <1>1, <1>2 DEF Undisputed
<1>5. AttachPolled'
  BY <1>1, <1>4 DEF DrivenInv, AttachPolled
<1>6. StagedHolds'
  <2> SUFFICES ASSUME NEW m \in Nodes, staged[m] = "yes", call[m] = Driven!NoOperation PROVE FALSE
    BY <1>1 DEF StagedHolds
  <2> QED
    BY <1>1 DEF DrivenInv, StagedHolds, Undisputed
<1> QED
  BY <1>3, <1>5, <1>6 DEF DrivenInv

(* What the wire server answers.                                           *)
LEMMA AnswerIs ==
  ASSUME NEW r \in DrivenRequests
  PROVE  /\ Driven!AnswerTo(r) \in {"mismatch", "refused", "attached", "attaching", "detaching", "none"}
         /\ Driven!AnswerTo(r) = "mismatch" <=> r.stale
         /\ Driven!AnswerTo(r) \in {"attached", "attaching"} => r.op = "attach" /\ Driven!Free(r.node)
         /\ Driven!AnswerTo(r) = "attached" => holder = r.node
         /\ Driven!AnswerTo(r) \in {"detaching", "none"} => r.op = "detach"
<1>1. CASE r.stale
  <2>1. Driven!AnswerTo(r) = "mismatch"
    BY <1>1 DEF Driven!AnswerTo
  <2> QED
    BY <1>1, <2>1
<1>2. CASE ~r.stale /\ r.op = "attach"
  <2>1. Driven!AnswerTo(r) = IF ~Driven!Free(r.node) THEN "refused" ELSE IF holder = r.node THEN "attached" ELSE "attaching"
    BY <1>2 DEF Driven!AnswerTo
  <2> QED
    BY <1>2, <2>1
<1>3. CASE ~r.stale /\ r.op = "detach"
  <2>1. Driven!AnswerTo(r) = IF holder = r.node \/ status[r.node] = "attaching" THEN "detaching" ELSE "none"
    BY <1>3, Zenon DEF Driven!AnswerTo
  <2> QED
    BY <1>3, <2>1
<1> QED
  BY <1>1, <1>2, <1>3 DEF DrivenRequests

LEMMA HeardIs ==
  ASSUME NEW n, NEW answer, Driven!executeQADDiskOperation(n, answer)
  PROVE  /\ answer \in {"mismatch", "refused"} => Driven!Result(n, "uncertain")
         /\ answer = "none" => Driven!Result(n, "ok")
         /\ answer = "attached" => \E code \in {"ok", "uncertain"} : Driven!Result(n, code)
         /\ answer \in {"attaching", "detaching"} => call' = [call EXCEPT ![n].pc = "poll"] /\ UNCHANGED staged
  BY DEF Driven!executeQADDiskOperation, Driven!AttachIsThrough, Driven!AttachedAnswer

(* What an arrived request leaves in net.                                  *)
LEMMA ArrivedNet ==
  ASSUME DrivenInv, NEW i \in 1 .. Len(net), NEW accepted \in BOOLEAN,
         net' = IF accepted THEN Driven!Superseded(i) ELSE Driven!RemoveAt(net, i)
  PROVE  /\ net' \in Seq(DrivenRequests) /\ Len(net') = Len(net) - 1
         /\ \A j \in 1 .. Len(net) - 1 :
              /\ j < i => /\ net'[j].late = net[j].late /\ net'[j].node = net[j].node
                          /\ IF accepted THEN net'[j].stale ELSE net'[j] = net[j]
              /\ j >= i => net'[j] = net[j + 1]
<1>1. CASE ~accepted
  <2>1. net \in Seq(DrivenRequests)
    BY DEF DrivenInv, DrivenTyped
  <2>2. /\ Driven!RemoveAt(net, i) \in Seq(DrivenRequests) /\ Len(Driven!RemoveAt(net, i)) = Len(net) - 1
        /\ \A j \in 1 .. Len(net) - 1 : Driven!RemoveAt(net, i)[j] = (IF j < i THEN net[j] ELSE net[j + 1])
    BY <2>1, Removed
  <2>3. net' = Driven!RemoveAt(net, i)
    BY <1>1
  <2> QED
    BY <1>1, <2>1, <2>2, <2>3
<1>2. CASE accepted
  <2>1. net' = Driven!Superseded(i)
    BY <1>2
  <2> QED
    BY <1>2, <2>1, SupersededIs DEF DrivenInv
<1> QED
  BY <1>1, <1>2

LEMMA ArriveKeeps ==
  ASSUME DrivenInv, NEW i \in DOMAIN net, Driven!Arrive(i)
  PROVE  DrivenInv'
<1> DEFINE r == net[i]
           answer == Driven!AnswerTo(r)
<1>0. /\ net \in Seq(DrivenRequests) /\ i \in 1 .. Len(net) /\ Len(net) \in Nat
      /\ holder \in Nodes \cup {NoNode} /\ status \in [Nodes -> {"none", "attaching", "detaching", "error"}]
  BY DEF DrivenInv, DrivenTyped
<1>1. r \in DrivenRequests /\ r.node \in Nodes
  <2>1. r \in DrivenRequests
    BY <1>0
  <2> QED
    BY <2>1 DEF DrivenRequests
<1>10. PICK n \in Nodes : n = r.node
  BY <1>1
<1>2. UNCHANGED <<home, va, holder>>
  BY DEF Driven!Arrive, Driven!cluster
<1>3. /\ answer \in {"mismatch", "refused"} => net' = Driven!RemoveAt(net, i) /\ status' = status
      /\ answer \notin {"mismatch", "refused"} =>
           /\ net' = Driven!Superseded(i)
           /\ status' = [status EXCEPT ![n] = IF answer \in {"attaching", "detaching"} THEN answer ELSE "none"]
      /\ r.late => UNCHANGED <<call, staged>>
      /\ ~r.late => Driven!executeQADDiskOperation(n, answer)
  BY <1>10 DEF Driven!Arrive
<1>4. /\ answer \in {"mismatch", "refused", "attached", "attaching", "detaching", "none"}
      /\ answer = "mismatch" <=> r.stale
      /\ answer \in {"attached", "attaching"} => r.op = "attach" /\ Driven!Free(n)
      /\ answer = "attached" => holder = n
      /\ answer \in {"detaching", "none"} => r.op = "detach"
  BY <1>1, <1>10, AnswerIs
<1>5. /\ net' \in Seq(DrivenRequests) /\ Len(net') = Len(net) - 1
      /\ \A j \in 1 .. Len(net) - 1 :
           /\ j < i => /\ net[j].late => net'[j].late
                       /\ net'[j].stale \/ (answer \in {"mismatch", "refused"} /\ net'[j] = net[j])
           /\ j >= i => net'[j] = net[j + 1]
  <2> DEFINE accepted == answer \notin {"mismatch", "refused"}
  <2>1. net' = IF accepted THEN Driven!Superseded(i) ELSE Driven!RemoveAt(net, i)
    BY <1>3
  <2>2. accepted \in BOOLEAN
    OBVIOUS
  <2>3. accepted <=> ~(answer \in {"mismatch", "refused"})
    OBVIOUS
  <2> HIDE DEF accepted, answer
  <2> QED
    BY <1>0, <2>1, <2>2, <2>3, ArrivedNet
<1>6. status' \in [Nodes -> {"none", "attaching", "detaching", "error"}]
      /\ \A m \in Nodes : m # n => status'[m] = status[m]
  BY <1>0, <1>1, <1>3, <1>4
<1> HIDE DEF answer
<1>7. \A j \in 1 .. Len(net) : j < Len(net) => net[j].late
  BY DEF DrivenInv, NewestWaits
<1>8. CASE r.late
  <2>1. UNCHANGED <<call, staged>>
    BY <1>3, <1>8
  <2>2. DrivenTyped' /\ OneNodeCalls' /\ CallSteps'
    BY <1>2, <1>5, <1>6, <2>1 DEF DrivenInv, DrivenTyped, OneNodeCalls, CallSteps
  <2>3. NewestWaits'
    <3> SUFFICES ASSUME NEW j \in 1 .. Len(net)', ~net'[j].late
                 PROVE  j = Len(net)' /\ ~net'[j].stale /\ call'[net'[j].node].pc = "wait" /\ call'[net'[j].node].op = net'[j].op
      BY DEF NewestWaits
    <3>1. j \in 1 .. Len(net) - 1 /\ j >= i /\ j + 1 \in 1 .. Len(net)
      <4>1. j \in 1 .. Len(net) - 1 /\ j \in 1 .. Len(net) /\ j < Len(net)
        BY <1>0, <1>5
      <4>2. ~(j < i)
        BY <1>5, <1>7, <4>1
      <4> QED
        BY <1>0, <4>1, <4>2
    <3>2. net'[j] = net[j + 1]
      BY <1>5, <3>1
    <3>3. j + 1 = Len(net) /\ ~net[j + 1].stale /\ call[net[j + 1].node].pc = "wait" /\ call[net[j + 1].node].op = net[j + 1].op
      BY <3>1, <3>2 DEF DrivenInv, NewestWaits
    <3> QED
      BY <1>0, <1>5, <2>1, <3>2, <3>3
  <2>4. \A m \in Nodes : Undisputed(m) => Undisputed(m)' /\ status' = status
    <3> SUFFICES ASSUME NEW m \in Nodes, Undisputed(m) PROVE Undisputed(m)' /\ status' = status
      OBVIOUS
    <3>1. r.stale /\ \A j \in 1 .. Len(net) : net[j].stale
      BY <1>0 DEF Undisputed
    <3>2. status' = status
      BY <1>3, <1>4, <3>1
    <3>3. \A j \in 1 .. Len(net)' : net'[j].stale
      BY <1>0, <1>5, <3>1
    <3> QED
      BY <3>2, <3>3 DEF Undisputed
  <2>5. AttachPolled' /\ StagedHolds'
    BY <1>2, <2>1, <2>4 DEF DrivenInv, AttachPolled, StagedHolds
  <2> QED
    BY <2>2, <2>3, <2>5 DEF DrivenInv
<1>9. CASE ~r.late
  <2>1. i = Len(net) /\ ~r.stale /\ call[n].pc = "wait" /\ call[n].op = r.op
    BY <1>0, <1>9, <1>10 DEF DrivenInv, NewestWaits
  <2>2. n = va /\ call[n].op \in {"attach", "detach"}
    BY <1>1, <2>1, CallerIs
  <2>3. Driven!executeQADDiskOperation(n, answer) /\ answer # "mismatch"
    BY <1>3, <1>4, <1>9, <2>1
  <2>4. \A j \in 1 .. Len(net)' : net'[j].late /\ (answer # "refused" => net'[j].stale)
    BY <1>0, <1>5, <1>7, <2>1, <2>3
  <2>5. CASE answer = "refused"
    BY <1>0, <1>1, <1>2, <1>5, <1>6, <2>1, <2>3, <2>4, <2>5, HeardIs, ResultKeeps
  <2>6. CASE answer = "none"
    BY <1>0, <1>1, <1>2, <1>4, <1>5, <1>6, <2>1, <2>3, <2>4, <2>6, HeardIs, ResultKeeps
  <2>7. answer \in {"attached", "attaching"} => Undisputed(n)'
    <3> SUFFICES ASSUME answer \in {"attached", "attaching"} PROVE Undisputed(n)'
      OBVIOUS
    <3>1. \A m \in Nodes : m # n => status[m] \in {"none", "error"}
      BY <1>4 DEF Driven!Free
    <3>2. \A m \in Nodes : m # n => status'[m] \in {"none", "error"}
      BY <1>6, <3>1
    <3>3. \A j \in 1 .. Len(net)' : net'[j].stale
      BY <2>4
    <3> QED
      BY <3>2, <3>3 DEF Undisputed
  <2>8. CASE answer = "attached"
    <3>1. holder' = n /\ status'[n] = "none"
      BY <1>0, <1>1, <1>2, <1>3, <1>4, <2>8
    <3>2. PICK code \in {"ok", "uncertain"} : Driven!Result(n, code)
      BY <2>3, <2>8, HeardIs
    <3> QED
      BY <1>0, <1>1, <1>2, <1>5, <1>6, <2>1, <2>3, <2>4, <2>7, <2>8, <3>1, <3>2, ResultKeeps
  <2>9. CASE answer \in {"attaching", "detaching"}
    <3>1. call' = [call EXCEPT ![n].pc = "poll"] /\ UNCHANGED staged
      BY <2>3, <2>9, HeardIs
    <3>2. call' \in [Nodes -> DrivenCalls] /\ call'[n].pc = "poll" /\ call'[n].op = call[n].op
          /\ \A m \in Nodes : m # n => call'[m] = call[m]
      BY <1>1, <3>1 DEF DrivenInv, DrivenTyped, DrivenCalls
    <3>3. DrivenTyped' /\ OneNodeCalls' /\ CallSteps'
      BY <1>2, <1>5, <1>6, <2>2, <3>1, <3>2 DEF DrivenInv, DrivenTyped, OneNodeCalls, CallSteps
    <3>4. NewestWaits'
      BY <2>4 DEF NewestWaits
    <3>5. \A m \in Nodes : m # n => call'[m] = Driven!NoOperation /\ staged'[m] \in {"no", "failed"}
      BY <2>2, <3>1, <3>2 DEF DrivenInv, OneNodeCalls
    <3>6. call'[n].op = "attach" => Undisputed(n)'
      BY <1>4, <2>1, <2>7, <2>9, <3>2
    <3>7. AttachPolled' /\ StagedHolds'
      BY <3>2, <3>5, <3>6, NoOperationIs DEF AttachPolled, StagedHolds
    <3> QED
      BY <3>3, <3>4, <3>7 DEF DrivenInv
  <2> QED
    BY <1>4, <2>3, <2>5, <2>6, <2>8, <2>9
<1> QED
  BY <1>8, <1>9

LEMMA DrivenNextKeeps ==
  ASSUME DrivenInv, [NodeNext]_nodeVars
  PROVE  DrivenInv'
<1>0. home \in Nodes \cup {NoNode} /\ va \in Nodes \cup {NoNode} /\ call \in [Nodes -> DrivenCalls]
  BY DEF DrivenInv, DrivenTyped
<1>1. CASE UNCHANGED drivenVars
  BY <1>0, <1>1, ClusterKeeps DEF drivenVars
<1>2. ASSUME NEW n \in Nodes, Driven!MovePod(n) PROVE DrivenInv'
  BY <1>0, <1>2, ClusterKeeps DEF Driven!MovePod, Driven!service
<1>3. CASE Driven!EndPod
  BY <1>0, <1>3, ClusterKeeps DEF Driven!EndPod, Driven!service
<1>4. CASE Driven!PublishNodeDriven
  <2>1. \A n \in Nodes : staged[n] \in {"no", "failed"} /\ call[n] = Driven!NoOperation
    BY <1>4, NodeAssumption DEF Driven!PublishNodeDriven, DrivenInv, OneNodeCalls
  <2> QED
    BY <1>0, <1>4, <2>1, ClusterKeeps DEF Driven!PublishNodeDriven, Driven!service
<1>5. CASE Driven!UnpublishNodeDriven
  <2>1. \A n \in Nodes : staged[n] \in {"no", "failed"} /\ call[n] = Driven!NoOperation
    BY <1>5 DEF Driven!UnpublishNodeDriven, Driven!NotStaged, DrivenInv, OneNodeCalls
  <2> QED
    BY <1>0, <1>5, <2>1, ClusterKeeps DEF Driven!UnpublishNodeDriven, Driven!service
<1>6. ASSUME NEW n \in Nodes, Driven!Kubelet(n) PROVE DrivenInv'
  <2>1. n = va /\ call[n].pc # "wait" /\ UNCHANGED <<home, va, staged, net, holder, status>>
    BY <1>6, NoOperationIs DEF Driven!Kubelet, Driven!CallStage, Driven!CallUnstage, Driven!NotStaged, Driven!cluster, Driven!service,
         DrivenInv, OneNodeCalls
  <2>2. PICK op \in {"attach", "detach"} : call' = [call EXCEPT ![n] = [op |-> op, pc |-> "lookup"]]
    BY <1>6 DEF Driven!Kubelet, Driven!CallStage, Driven!CallUnstage
  <2>3. [op |-> op, pc |-> "lookup"] \in DrivenCalls
    BY DEF DrivenCalls
  <2> QED
    BY <2>1, <2>2, <2>3, CallGoes
<1>7. ASSUME Driven!DrivenNext PROVE DrivenInv'
  BY <1>2, <1>3, <1>4, <1>5, <1>6, <1>7, StepKeeps, CallEndsKeeps, CompleteKeeps, ArriveKeeps DEF Driven!DrivenNext
<1> QED
  BY <1>1, <1>7 DEF NodeNext, nodeVars, otherVars

LEMMA DrivenBegins ==
  ASSUME NodeInit
  PROVE  DrivenInv
<1>1. PICK m : Driven!Unattached(m)
  BY DEF NodeInit, Driven!Unused, Driven!DrivenInit
<1>2. /\ home = NoNode /\ va = NoNode /\ holder = NoNode /\ net = << >>
      /\ staged = [n \in Nodes |-> "no"] /\ call = [n \in Nodes |-> Driven!NoOperation] /\ status = [n \in Nodes |-> "none"]
  BY <1>1 DEF Driven!Unattached
<1>3. net \in Seq(DrivenRequests) /\ Len(net) = 0
  BY <1>2
<1> QED
  BY <1>2, <1>3, NoOperationIs DEF DrivenInv, DrivenTyped, Beliefs, OneNodeCalls, CallSteps, NewestWaits, AttachPolled, StagedHolds

-----------------------------------------------------------------------------
(* A node that kubelet unstaged the volume from, or never staged it to,    *)
(* does not have the disk, and what it has asked for is stale. When a      *)
(* detach is polled to its end everything else on its way is stale.        *)
Off(n) ==
  /\ holder # n /\ status[n] \notin {"attaching", "detaching"}
  /\ \A i \in 1 .. Len(net) : net[i].node = n => net[i].stale

OffInv == \A n \in Nodes : staged[n] = "no" /\ call[n].pc \in {"idle", "lookup", "increment"} => Off(n)

Polled == \A n \in Nodes : call[n].pc = "poll" => \A i \in 1 .. Len(net) : net[i].stale

(* Nothing comes into net, and what is stale stays so.                     *)
NetShrinks ==
  \A j \in 1 .. Len(net') : \E k \in 1 .. Len(net) : net'[j].node = net[k].node /\ (net[k].stale => net'[j].stale)

LEMMA SameNet ==
  ASSUME net' = net
  PROVE  NetShrinks
  BY DEF NetShrinks

LEMMA OffStays ==
  ASSUME NEW n, Off(n), NetShrinks, holder' # n, status'[n] \notin {"attaching", "detaching"}
  PROVE  Off(n)'
  BY DEF Off, NetShrinks

LEMMA StaleStays ==
  ASSUME NetShrinks, \A i \in 1 .. Len(net) : net[i].stale
  PROVE  \A i \in 1 .. Len(net') : net'[i].stale
  BY DEF NetShrinks

(* The call of a node goes on without an answer; or it is answered.        *)
LEMMA OffAfterCall ==
  ASSUME DrivenInv, OffInv, Polled, NEW n \in Nodes, NEW c \in DrivenCalls, call' = [call EXCEPT ![n] = c],
         c.pc \in {"lookup", "increment"}, call[n].pc \in {"idle", "lookup"}, UNCHANGED <<staged, net, holder, status>>
  PROVE  OffInv' /\ Polled'
<1>1. call'[n] = c /\ \A m \in Nodes : m # n => call'[m] = call[m]
  BY DEF DrivenInv, DrivenTyped
<1> QED
  BY <1>1 DEF OffInv, Polled, Off

LEMMA OffAfterResult ==
  ASSUME DrivenInv, OffInv, Polled, NEW n \in Nodes, NEW code \in {"ok", "uncertain", "final"}, Driven!Result(n, code),
         call[n].pc # "idle", NetShrinks, holder' = holder, \A m \in Nodes : m # n => status'[m] = status[m],
         code = "ok" /\ call[n].op # "attach" => Off(n)'
  PROVE  OffInv' /\ Polled'
<1>1. /\ call'[n] = Driven!NoOperation
      /\ staged'[n] = "no" => code = "ok" /\ call[n].op # "attach"
      /\ \A m \in Nodes : m # n => call'[m] = call[m] /\ staged'[m] = staged[m]
  BY ResultIs
<1>2. \A m \in Nodes : m # n => call[m].pc = "idle"
  BY CallerIs
<1>3. OffInv'
  <2> SUFFICES ASSUME NEW m \in Nodes, staged'[m] = "no" PROVE Off(m)'
    BY DEF OffInv
  <2>1. CASE m = n
    BY <1>1, <2>1
  <2>2. CASE m # n
    <3>1. Off(m)
      BY <1>1, <1>2, <2>2 DEF OffInv
    <3>2. holder' # m /\ status'[m] \notin {"attaching", "detaching"}
      BY <2>2, <3>1 DEF Off
    <3> QED
      BY <3>1, <3>2, OffStays
  <2> QED
    BY <2>1, <2>2
<1>4. Polled'
  BY <1>1, <1>2, NoOperationIs DEF Polled
<1> QED
  BY <1>3, <1>4

LEMMA OffAfterIncrement ==
  ASSUME DrivenInv, OffInv, Polled, NEW n \in Nodes, Driven!incrementAttachSequenceAnnotation(n)
  PROVE  OffInv' /\ Polled'
<1>1. call[n].pc = "increment" /\ UNCHANGED <<holder, status>>
  BY DEF Driven!incrementAttachSequenceAnnotation
<1>2. \A m \in Nodes : m # n => call[m].pc = "idle"
  BY <1>1, CallerIs
<1>3. CASE Driven!Result(n, "final") /\ net' = net
  BY <1>1, <1>3, SameNet, OffAfterResult
<1>4. CASE /\ call' = [call EXCEPT ![n].pc = "wait"] /\ UNCHANGED staged
           /\ net' = Append(net, [node |-> n, op |-> call[n].op, late |-> FALSE, stale |-> FALSE])
  <2> DEFINE r == [node |-> n, op |-> call[n].op, late |-> FALSE, stale |-> FALSE]
  <2>1. r.node = n /\ net' = Append(net, r)
    BY <1>4
  <2> HIDE DEF r
  <2>2. \A i \in 1 .. Len(net') : net'[i] = r \/ (i \in 1 .. Len(net) /\ net'[i] = net[i])
    BY <2>1 DEF DrivenInv, DrivenTyped
  <2>3. call'[n].pc = "wait" /\ \A m \in Nodes : m # n => call'[m] = call[m]
    BY <1>4 DEF DrivenInv, DrivenTyped, DrivenCalls
  <2>4. \A m \in Nodes : m # n /\ Off(m) => Off(m)'
    BY <1>1, <2>1, <2>2 DEF Off
  <2>5. OffInv'
    BY <1>2, <1>4, <2>3, <2>4 DEF OffInv
  <2>6. Polled'
    BY <1>2, <2>3 DEF Polled
  <2> QED
    BY <2>5, <2>6
<1> QED
  BY <1>3, <1>4 DEF Driven!incrementAttachSequenceAnnotation

LEMMA OffAfterStep ==
  ASSUME DrivenInv, OffInv, Polled, NEW n \in Nodes, Driven!DrivenStep(n)
  PROVE  OffInv' /\ Polled'
<1>0. call[n] \in DrivenCalls
  BY DEF DrivenInv, DrivenTyped
<1>1. CASE Driven!getPVFromDiskURI(n)
  <2>1. call[n].pc = "lookup" /\ UNCHANGED <<net, holder, status>>
    BY <1>1 DEF Driven!getPVFromDiskURI, Driven!service
  <2>2. CASE Driven!Result(n, "final")
    BY <2>1, <2>2, SameNet, OffAfterResult
  <2>3. CASE call' = [call EXCEPT ![n].pc = "increment"] /\ UNCHANGED staged
    <3> DEFINE c == [call[n] EXCEPT !.pc = "increment"]
    <3>1. c \in DrivenCalls /\ c.pc = "increment" /\ call' = [call EXCEPT ![n] = c]
      BY <1>0, <2>3 DEF DrivenCalls
    <3> HIDE DEF c
    <3> QED
      BY <2>1, <2>3, <3>1, OffAfterCall
  <2> QED
    BY <1>1, <2>2, <2>3 DEF Driven!getPVFromDiskURI
<1>2. CASE Driven!incrementAttachSequenceAnnotation(n)
  BY <1>2, OffAfterIncrement
<1>3. CASE Driven!PollAttach(n)
  <2>1. call[n].op = "attach" /\ call[n].pc = "poll" /\ UNCHANGED <<net, holder, status>>
    BY <1>3 DEF Driven!PollAttach, Driven!service
  <2>2. PICK code \in {"ok", "uncertain", "final"} : Driven!Result(n, code)
    BY <1>3 DEF Driven!PollAttach, Driven!AttachedAnswer
  <2> QED
    BY <2>1, <2>2, SameNet, OffAfterResult
<1>4. CASE Driven!PollDetach(n)
  <2>1. call[n].op = "detach" /\ call[n].pc = "poll" /\ UNCHANGED <<net, holder, status>>
    BY <1>4 DEF Driven!PollDetach, Driven!service
  <2>2. CASE Driven!getDiskState(n) = "missing" /\ Driven!Result(n, "ok")
    <3>1. holder # n /\ status[n] \notin {"attaching", "detaching"}
      BY <2>2 DEF Driven!getDiskState, DrivenInv, DrivenTyped
    <3>2. Off(n)'
      <4>1. \A i \in 1 .. Len(net) : net[i].stale
        BY <2>1 DEF Polled
      <4>2. Off(n)
        BY <3>1, <4>1 DEF Off
      <4>3. holder' # n /\ status'[n] \notin {"attaching", "detaching"}
        BY <2>1, <3>1
      <4> QED
        BY <2>1, <4>2, <4>3, SameNet, OffStays
    <3> QED
      BY <2>1, <2>2, <3>2, SameNet, OffAfterResult
  <2>3. CASE Driven!Result(n, "final")
    BY <2>1, <2>3, SameNet, OffAfterResult
  <2> QED
    BY <1>4, <2>2, <2>3 DEF Driven!PollDetach, Driven!DetachIsThrough
<1> QED
  BY <1>1, <1>2, <1>3, <1>4 DEF Driven!DrivenStep

LEMMA OffAfterEnd ==
  ASSUME DrivenInv, OffInv, Polled, NEW n \in Nodes, Driven!CallEnds(n)
  PROVE  OffInv' /\ Polled'
<1>1. PICK code \in {"uncertain", "final"} : Driven!Result(n, code)
  BY DEF Driven!CallEnds
<1>2. call[n].pc \in {"wait", "poll"} /\ UNCHANGED <<holder, status>>
      /\ net' = [i \in DOMAIN net |-> IF net[i].node = n THEN [net[i] EXCEPT !.late = TRUE] ELSE net[i]]
  BY DEF Driven!CallEnds
<1>3. net \in Seq(DrivenRequests) /\ Len(net) \in Nat /\ DOMAIN net = 1 .. Len(net)
  BY DEF DrivenInv, DrivenTyped
<1>4. \A i \in 1 .. Len(net) : net'[i] \in DrivenRequests /\ net'[i].node = net[i].node /\ net'[i].stale = net[i].stale
  <2> SUFFICES ASSUME NEW i \in 1 .. Len(net)
               PROVE  net'[i] \in DrivenRequests /\ net'[i].node = net[i].node /\ net'[i].stale = net[i].stale
    OBVIOUS
  <2>1. net[i] \in DrivenRequests
    BY <1>3
  <2> QED
    BY <1>2, <1>3, <2>1 DEF DrivenRequests
<1>5. Len(net') = Len(net)
  BY <1>2, <1>3, <1>4
<1>6. NetShrinks
  BY <1>4, <1>5 DEF NetShrinks
<1> QED
  BY <1>1, <1>2, <1>6, OffAfterResult

LEMMA OffAfterComplete ==
  ASSUME DrivenInv, OffInv, Polled, NEW n \in Nodes, Driven!Complete(n)
  PROVE  OffInv' /\ Polled'
<1>1. status[n] \in {"attaching", "detaching"} /\ UNCHANGED <<staged, call, net>>
  BY DEF Driven!Complete
<1>2. /\ holder' \in {holder, n, NoNode}
      /\ \A m \in Nodes : status'[m] = status[m] \/ status'[m] \in {"none", "error"}
  BY DEF Driven!Complete, DrivenInv, DrivenTyped
<1>3. \A m \in Nodes : Off(m) => Off(m)'
  <2> SUFFICES ASSUME NEW m \in Nodes, Off(m) PROVE Off(m)'
    OBVIOUS
  <2>1. m # n /\ m # NoNode
    BY <1>1, NodeAssumption DEF Off
  <2> QED
    BY <1>1, <1>2, <2>1 DEF Off
<1> QED
  BY <1>1, <1>3 DEF OffInv, Polled

LEMMA OffAfterArrival ==
  ASSUME DrivenInv, OffInv, Polled, NEW i \in DOMAIN net, Driven!Arrive(i)
  PROVE  OffInv' /\ Polled'
<1> DEFINE r == net[i]
           answer == Driven!AnswerTo(r)
           accepted == answer \notin {"mismatch", "refused"}
<1>1. net \in Seq(DrivenRequests) /\ i \in 1 .. Len(net) /\ Len(net) \in Nat /\ r \in DrivenRequests
  BY DEF DrivenInv, DrivenTyped
<1>2. PICK n \in Nodes : n = r.node
  BY <1>1 DEF DrivenRequests
<1>3. /\ net' = IF accepted THEN Driven!Superseded(i) ELSE Driven!RemoveAt(net, i)
      /\ IF accepted THEN status' = [status EXCEPT ![n] = IF answer \in {"attaching", "detaching"} THEN answer ELSE "none"]
         ELSE status' = status
      /\ r.late => UNCHANGED <<call, staged>>
      /\ ~r.late => Driven!executeQADDiskOperation(n, answer)
      /\ holder' = holder
  BY <1>2 DEF Driven!Arrive
<1>4. /\ answer \in {"mismatch", "refused", "attached", "attaching", "detaching", "none"}
      /\ answer = "mismatch" <=> r.stale
      /\ answer \in {"detaching", "none"} => r.op = "detach"
      /\ answer \in {"attached", "attaching"} => r.op = "attach"
      /\ answer = "none" => holder # n
  <2>1. answer = "none" => holder # n
    BY <1>1, <1>2 DEF Driven!AnswerTo, DrivenRequests
  <2> QED
    BY <1>1, <2>1, AnswerIs
<1>5. accepted \in BOOLEAN
  OBVIOUS
<1>6. accepted <=> answer \notin {"mismatch", "refused"}
  OBVIOUS
<1>7. status \in [Nodes -> {"none", "attaching", "detaching", "error"}]
  BY DEF DrivenInv, DrivenTyped
<1> HIDE DEF answer, accepted
<1>8. /\ Len(net') = Len(net) - 1
      /\ \A j \in 1 .. Len(net) - 1 :
           /\ j < i => net'[j].node = net[j].node /\ IF accepted THEN net'[j].stale ELSE net'[j] = net[j]
           /\ j >= i => net'[j] = net[j + 1]
  BY <1>1, <1>3, <1>5, ArrivedNet
<1>9. NetShrinks
  <2> SUFFICES ASSUME NEW j \in 1 .. Len(net')
               PROVE  \E k \in 1 .. Len(net) : net'[j].node = net[k].node /\ (net[k].stale => net'[j].stale)
    BY DEF NetShrinks
  <2>1. j \in 1 .. Len(net) - 1 /\ j \in 1 .. Len(net) /\ j + 1 \in 1 .. Len(net)
    BY <1>1, <1>8
  <2> QED
    BY <1>1, <1>8, <2>1
<1>10. \A m \in Nodes : m # n => status'[m] = status[m]
  BY <1>3, <1>7
<1>11. CASE r.late
  <2>1. \A m \in Nodes : Off(m) => Off(m)'
    <3> SUFFICES ASSUME NEW m \in Nodes, Off(m) PROVE Off(m)'
      OBVIOUS
    <3>1. CASE m # n
      BY <1>3, <1>9, <1>10, <3>1, OffStays DEF Off
    <3>2. CASE m = n
      <4>1. ~accepted
        BY <1>1, <1>2, <1>4, <1>6, <3>2 DEF Off
      <4>2. status' = status /\ holder' = holder
        BY <1>3, <4>1
      <4> QED
        BY <1>9, <4>2, OffStays DEF Off
    <3> QED
      BY <3>1, <3>2
  <2> QED
    BY <1>3, <1>9, <1>11, <2>1, StaleStays DEF OffInv, Polled
<1>12. CASE ~r.late
  <2>1. i = Len(net) /\ ~r.stale /\ call[n].pc = "wait" /\ call[n].op = r.op
    BY <1>1, <1>2, <1>12 DEF DrivenInv, NewestWaits
  <2>2. accepted => \A j \in 1 .. Len(net') : net'[j].stale
    BY <1>1, <1>8, <2>1
  <2>3. Driven!executeQADDiskOperation(n, answer)
    BY <1>3, <1>12
  <2>4. CASE answer \in {"mismatch", "refused"}
    BY <1>3, <1>9, <1>10, <2>1, <2>3, <2>4, HeardIs, OffAfterResult
  <2>5. CASE answer = "attached"
    <3>1. PICK code \in {"ok", "uncertain"} : Driven!Result(n, code)
      BY <2>3, <2>5, HeardIs
    <3> QED
      BY <1>3, <1>4, <1>9, <1>10, <2>1, <2>5, <3>1, OffAfterResult
  <2>6. CASE answer = "none"
    <3>1. status'[n] = "none" /\ accepted
      BY <1>3, <1>6, <1>7, <2>6
    <3>2. Off(n)'
      BY <1>3, <1>4, <2>2, <2>6, <3>1 DEF Off
    <3> QED
      BY <1>3, <1>9, <1>10, <2>1, <2>3, <2>6, <3>2, HeardIs, OffAfterResult
  <2>7. CASE answer \in {"attaching", "detaching"}
    <3>1. call' = [call EXCEPT ![n].pc = "poll"] /\ UNCHANGED staged
      BY <2>3, <2>7, HeardIs
    <3>2. call'[n].pc = "poll" /\ \A m \in Nodes : m # n => call'[m] = call[m]
      BY <3>1 DEF DrivenInv, DrivenTyped, DrivenCalls
    <3>3. \A m \in Nodes : m # n /\ Off(m) => Off(m)'
      BY <1>3, <1>9, <1>10, OffStays DEF Off
    <3>4. \A j \in 1 .. Len(net') : net'[j].stale
      BY <1>6, <2>2, <2>7
    <3> QED
      BY <3>1, <3>2, <3>3, <3>4 DEF OffInv, Polled
  <2> QED
    BY <1>4, <2>4, <2>5, <2>6, <2>7
<1> QED
  BY <1>11, <1>12

LEMMA OffKeeps ==
  ASSUME DrivenInv, OffInv, Polled, [NodeNext]_nodeVars
  PROVE  OffInv' /\ Polled'
<1>1. CASE UNCHANGED <<staged, call, net, holder, status>>
  BY <1>1 DEF OffInv, Polled, Off
<1>2. ASSUME NEW n \in Nodes, Driven!Kubelet(n) PROVE OffInv' /\ Polled'
  <2>1. call[n].pc = "idle" /\ UNCHANGED <<staged, net, holder, status>>
    BY <1>2, NoOperationIs DEF Driven!Kubelet, Driven!CallStage, Driven!CallUnstage, Driven!service
  <2>2. PICK op \in {"attach", "detach"} : call' = [call EXCEPT ![n] = [op |-> op, pc |-> "lookup"]]
    BY <1>2 DEF Driven!Kubelet, Driven!CallStage, Driven!CallUnstage
  <2>3. [op |-> op, pc |-> "lookup"] \in DrivenCalls
    BY DEF DrivenCalls
  <2> QED
    BY <2>1, <2>2, <2>3, OffAfterCall
<1>3. CASE (\E n \in Nodes : Driven!MovePod(n)) \/ Driven!EndPod \/ Driven!PublishNodeDriven \/ Driven!UnpublishNodeDriven
           \/ UNCHANGED drivenVars
  <2>1. UNCHANGED <<staged, call, net, holder, status>>
    BY <1>3 DEF Driven!MovePod, Driven!EndPod, Driven!PublishNodeDriven, Driven!UnpublishNodeDriven, Driven!service, drivenVars
  <2> QED
    BY <1>1, <2>1
<1>4. ASSUME Driven!DrivenNext PROVE OffInv' /\ Polled'
  BY <1>2, <1>3, <1>4, OffAfterStep, OffAfterEnd, OffAfterComplete, OffAfterArrival DEF Driven!DrivenNext
<1> QED
  BY <1>3, <1>4 DEF NodeNext, nodeVars, otherVars

LEMMA OffBegins ==
  ASSUME NodeInit
  PROVE  OffInv /\ Polled
<1>1. PICK m : Driven!Unattached(m)
  BY DEF NodeInit, Driven!Unused, Driven!DrivenInit
<1>2. /\ holder = NoNode /\ net = << >> /\ call = [n \in Nodes |-> Driven!NoOperation] /\ status = [n \in Nodes |-> "none"]
  BY <1>1 DEF Driven!Unattached
<1> QED
  BY <1>2, NoOperationIs, NodeAssumption DEF OffInv, Polled, Off

(* While kubelet holds a volume staged that the nodes attach themselves,   *)
(* its disk is on that node and nothing takes it off (NodeStageVolume and  *)
(* the attach-sequence annotation): however many requests of earlier calls *)
(* are still on their way, from whichever node, in whichever order they    *)
(* arrive. And a node that kubelet has unstaged it from (NodeUnstageVolume *)
(* waits until the disk is gone) neither has the disk nor gets it back.    *)
THEOREM DiskStaysWhereStaged == NodeSpec => []AttachedWhereStaged
<1>1. DrivenInv /\ OffInv => AttachedWhereStaged
  BY NoOperationIs DEF DrivenInv, StagedHolds, OffInv, Off, AttachedWhereStaged, Driven!AttachedWhereStaged
<1>2. NodeInit => DrivenInv /\ OffInv /\ Polled
  BY DrivenBegins, OffBegins
<1>3. DrivenInv /\ OffInv /\ Polled /\ [NodeNext]_nodeVars => (DrivenInv /\ OffInv /\ Polled)'
  BY DrivenNextKeeps, OffKeeps
<1> QED
  BY <1>1, <1>2, <1>3, PTL DEF NodeSpec

-----------------------------------------------------------------------------
(* Device tuning. The invariant: what is written when the volume is staged *)
(* is what the attributes and the tables ask for. That this reaches the    *)
(* limits is arithmetic: every quotient is rounded up.                     *)
Positive == Nat \ {0}

LEMMA DivisionRemains ==
  ASSUME NEW x \in Nat, NEW b \in Nat, b > 0
  PROVE  x \div b \in Nat /\ (x \div b) * b + b > x
<1>1. x \div b \in Nat
  OBVIOUS
<1>2. (x \div b) * b + b > x
  OBVIOUS
<1> QED
  BY <1>1, <1>2

LEMMA CeilingReaches ==
  ASSUME NEW a \in Nat, NEW b \in Positive
  PROVE  Perf!Ceiling(a, b) \in Nat /\ Perf!Ceiling(a, b) * b >= a
<1>1. PICK x \in Nat : x = a + b - 1
  BY DEF Positive
<1>2. PICK q : q = x \div b
  OBVIOUS
<1>3. q \in Nat /\ q * b + b > x /\ b \in Nat
  BY <1>2, DivisionRemains DEF Positive
<1>4. PICK z \in Nat : z = q * b
  BY <1>3
<1>5. z >= a
  BY <1>1, <1>3, <1>4
<1>6. Perf!Ceiling(a, b) = q
  BY <1>1, <1>2 DEF Perf!Ceiling
<1> QED
  BY <1>3, <1>4, <1>5, <1>6

LEMMA MoreIsMore ==
  ASSUME NEW a \in Nat, NEW b \in Nat, NEW c \in Nat, a >= b
  PROVE  a * c >= b * c /\ c * a >= c * b
OBVIOUS

(* Settings for positive limits, by the disk's and the node's.             *)
LEMMA SettingsReach ==
  ASSUME NEW sku, NEW node, sku.burstIops \in Positive, sku.burstBw \in Positive, node[1] \in Positive, node[2] \in Positive,
         sku.size \in Nat
  PROVE  Perf!Reaches(Perf!getOptimalDeviceSettings(sku, node), sku, node)
<1> DEFINE iops == Perf!BurstIops(sku, node)
           bw == Perf!BurstBw(sku, node)
           ls == Perf!GetSequentialIOLatency(sku)
           lr == Perf!GetRandomIOLatency(sku)
           sectors == Perf!Smaller(512, Perf!Ceiling(4 * bw, 3 * iops))
           sequential == Perf!Ceiling(bw * ls, 10000 * sectors)
           random == Perf!Ceiling(iops * lr, 10000)
           depth == Perf!Larger(Perf!Ceiling(random + 4 * sequential, 4), random)
<1>1. iops = Perf!Smaller(sku.burstIops, node[1]) /\ iops \in Positive
  BY DEF Perf!BurstIops, Perf!Smaller, Positive
<1>2. bw = 1000 * Perf!Smaller(sku.burstBw, node[2]) /\ bw \in Positive
  BY DEF Perf!BurstBw, Perf!Smaller, Positive
<1>3. ls \in Nat /\ lr \in Nat
  BY DEF Perf!GetSequentialIOLatency, Perf!GetRandomIOLatency
<1> DEFINE s == Perf!getOptimalDeviceSettings(sku, node)
<1>4. s.sectors = sectors /\ s.depth = depth
  BY DEF Perf!getOptimalDeviceSettings
<1> HIDE DEF iops, bw, ls, lr
<1>5. sectors \in Positive /\ (sectors = 512 \/ 3 * iops * sectors >= 4 * bw)
  <2>1. 4 * bw \in Positive /\ 3 * iops \in Positive
    BY <1>1, <1>2 DEF Positive
  <2>2. PICK c : c = Perf!Ceiling(4 * bw, 3 * iops)
    OBVIOUS
  <2>3. c \in Nat /\ c * (3 * iops) >= 4 * bw
    BY <2>1, <2>2, CeilingReaches DEF Positive
  <2>4. c # 0
    BY <1>1, <2>1, <2>3 DEF Positive
  <2>5. c * (3 * iops) = 3 * iops * c
    BY <1>1, <2>3 DEF Positive
  <2> QED
    BY <2>2, <2>3, <2>4, <2>5 DEF Perf!Smaller, Positive
<1> HIDE DEF sectors
<1>6. sequential \in Nat /\ sequential * (10000 * sectors) >= bw * ls
  <2>1. 10000 * sectors \in Positive /\ bw * ls \in Nat
    BY <1>2, <1>3, <1>5 DEF Positive
  <2> QED
    BY <2>1, CeilingReaches
<1>7. random \in Nat /\ random * 10000 >= iops * lr
  <2>1. 10000 \in Positive /\ iops * lr \in Nat
    BY <1>1, <1>3 DEF Positive
  <2> QED
    BY <2>1, CeilingReaches
<1> HIDE DEF sequential, random
<1>8. depth \in Nat /\ depth >= random /\ depth >= sequential
  <2>1. random + 4 * sequential \in Nat /\ 4 \in Positive
    BY <1>6, <1>7 DEF Positive
  <2>2. PICK c : c = Perf!Ceiling(random + 4 * sequential, 4)
    OBVIOUS
  <2>3. c \in Nat /\ c * 4 >= random + 4 * sequential
    BY <2>1, <2>2, CeilingReaches
  <2> QED
    BY <1>6, <1>7, <2>2, <2>3 DEF Perf!Larger
<1> HIDE DEF depth
<1>9. depth * sectors * 10000 >= bw * ls
  <2>1. PICK unit \in Nat : unit = 10000 * sectors
    BY <1>5 DEF Positive
  <2>2. depth * unit >= sequential * unit
    BY <1>6, <1>8, MoreIsMore
  <2>3. depth * unit = depth * sectors * 10000
    BY <1>5, <1>8, <2>1 DEF Positive
  <2>4. PICK x, y, z \in Nat : x = depth * unit /\ y = sequential * unit /\ z = bw * ls
    BY <1>2, <1>3, <1>6, <1>8, <2>1 DEF Positive
  <2>5. x >= y /\ y >= z /\ x = depth * sectors * 10000
    BY <1>6, <2>1, <2>2, <2>3, <2>4
  <2> QED
    BY <2>4, <2>5
<1>10. depth * 10000 >= iops * lr
  <2>1. PICK z \in Nat : z = iops * lr
    BY <1>1, <1>3 DEF Positive
  <2> QED
    BY <1>7, <1>8, <2>1
<1> QED
  BY <1>1, <1>2, <1>4, <1>5, <1>9, <1>10 DEF Perf!Reaches, ls, lr

(* The tables: the limits of a disk follow from its size, and all are      *)
(* positive.                                                               *)
PremiumIops(size) ==
  IF size <= 512 THEN 3500 ELSE IF size <= 1024 THEN 5000 ELSE IF size <= 4096 THEN 7500
  ELSE IF size <= 8192 THEN 16000 ELSE IF size <= 16384 THEN 18000 ELSE 20000
PremiumBw(size) ==
  IF size <= 512 THEN 170 ELSE IF size <= 1024 THEN 200 ELSE IF size <= 4096 THEN 250
  ELSE IF size <= 8192 THEN 500 ELSE IF size <= 16384 THEN 750 ELSE 900
StandardIops(size) ==
  IF size <= 512 THEN 600 ELSE IF size <= 1024 THEN 1000 ELSE IF size <= 4096 THEN 500
  ELSE IF size <= 8192 THEN 2000 ELSE IF size <= 16384 THEN 4000 ELSE 6000
StandardBw(size) ==
  IF size <= 512 THEN 150 ELSE IF size <= 1024 THEN 250 ELSE IF size <= 4096 THEN 100
  ELSE IF size <= 8192 THEN 400 ELSE IF size <= 16384 THEN 600 ELSE 750

LEMMA PremiumTable ==
  ASSUME NEW sku \in Perf!Premium
  PROVE  sku.size \in Nat /\ sku.burstIops = PremiumIops(sku.size) /\ sku.burstBw = PremiumBw(sku.size)
BY DEF Perf!Premium, Perf!Skus, PremiumIops, PremiumBw

LEMMA StandardTable ==
  ASSUME NEW sku \in Perf!StandardSSD
  PROVE  sku.size \in Nat /\ sku.burstIops = StandardIops(sku.size) /\ sku.burstBw = StandardBw(sku.size)
BY DEF Perf!StandardSSD, Perf!Skus, StandardIops, StandardBw

LEMMA NodeTable ==
  ASSUME NEW vm \in Perf!NodeInfoMap
  PROVE  vm[1] \in Positive /\ vm[2] \in Positive
BY DEF Perf!NodeInfoMap, Positive

(* The disks of an account that may be tuned: two of one size have the     *)
(* same limits.                                                            *)
Tunable == {"premium_lrs", "premium_zrs", "standardssd_lrs", "standardssd_zrs"}

LEMMA SameSizeSameLimits ==
  ASSUME NEW account \in Tunable, NEW a \in Perf!DiskSkuMap[account], NEW b \in Perf!DiskSkuMap[account]
  PROVE  /\ a.size \in Nat /\ a.burstIops \in Positive /\ a.burstBw \in Positive
         /\ a.size = b.size => a.burstIops = b.burstIops /\ a.burstBw = b.burstBw
<1>1. Perf!DiskSkuMap[account] = Perf!Premium \/ Perf!DiskSkuMap[account] = Perf!StandardSSD
  BY DEF Perf!DiskSkuMap, Tunable
<1>2. CASE Perf!DiskSkuMap[account] = Perf!Premium
  BY <1>2, PremiumTable DEF PremiumIops, PremiumBw, Positive
<1>3. CASE Perf!DiskSkuMap[account] = Perf!StandardSSD
  BY <1>3, StandardTable DEF StandardIops, StandardBw, Positive
<1> QED
  BY <1>1, <1>2, <1>3

(* What reaches the limits of a disk reaches those of one with the same.   *)
LEMMA SameLimitsReach ==
  ASSUME NEW s, NEW a, NEW b, NEW node, a.size = b.size, a.burstIops = b.burstIops, a.burstBw = b.burstBw,
         Perf!Reaches(s, a, node)
  PROVE  Perf!Reaches(s, b, node)
<1>1. Perf!GetSequentialIOLatency(a) = Perf!GetSequentialIOLatency(b) /\ Perf!GetRandomIOLatency(a) = Perf!GetRandomIOLatency(b)
  BY DEF Perf!GetSequentialIOLatency, Perf!GetRandomIOLatency
<1> QED
  BY <1>1 DEF Perf!Reaches

PerfRequests ==
  [profile : {r.profile : r \in Requests}, key : {r.key : r \in Requests}, account : {r.account : r \in Requests},
   size : Nat, iops : Nat, bw : Nat, settings : {r.settings : r \in Requests}, node : Perf!NodeInfoMap \cup {NoNodeInfo}]

Attributes == Perf!GetDiskPerfAttributes(request)

PerfInv ==
  \/ device.what = "absent" /\ ~ready
  \/ /\ request \in PerfRequests
     /\ ready => \A r \in Attributes :
          Perf!DiskSupportsPerfOptimization(r) => device \in Perf!Settings(r) /\ device.what # "NaN"

LEMMA PerfBegins ==
  ASSUME NodeInit
  PROVE  PerfInv
<1>1. CASE Perf!NoVolume
  BY <1>1 DEF Perf!NoVolume, Perf!Other, PerfInv
<1>2. CASE Perf!PerfInit
  <2>1. PICK r \in Requests : request = [r EXCEPT !.node = Perf!NewNodeInfo(r.node)]
    BY <1>2 DEF Perf!PerfInit
  <2>2. PICK vm \in Perf!NodeInfoMap \cup {NoNodeInfo} : vm = Perf!NewNodeInfo(r.node)
    BY DEF Perf!NewNodeInfo
  <2>3. r \in [profile : {x.profile : x \in Requests}, key : {x.key : x \in Requests}, account : {x.account : x \in Requests},
               size : Nat, iops : Nat, bw : Nat, settings : {x.settings : x \in Requests}, node : {r.node}]
    BY ContextAssumption
  <2>4. request = [r EXCEPT !.node = vm]
    BY <2>1, <2>2
  <2>5. request \in PerfRequests
    BY <2>3, <2>4 DEF PerfRequests
  <2> QED
    BY <1>2, <2>5 DEF Perf!PerfInit, PerfInv
<1> QED
  BY <1>1, <1>2 DEF NodeInit

(* One set of attributes at most.                                          *)
LEMMA OneSetOfAttributes ==
  \A a, b \in Attributes : a = b
BY DEF Attributes, Perf!GetDiskPerfAttributes

LEMMA PerfNextKeeps ==
  ASSUME PerfInv, [NodeNext]_nodeVars
  PROVE  PerfInv'
<1>1. CASE UNCHANGED perfVars
  BY <1>1 DEF perfVars, PerfInv, Attributes, Perf!GetDiskPerfAttributes, Perf!DiskSupportsPerfOptimization
<1>2. CASE Perf!PerfNext
  <2>1. request' = request /\ device.what # "absent" /\ request \in PerfRequests
    BY <1>2 DEF Perf!PerfNext, Perf!OptimizeDiskPerformance, Perf!echoFails, Perf!DeviceReturns, PerfInv
  <2>2. CASE Perf!OptimizeDiskPerformance
    <3>1. PICK r \in Attributes :
            IF Perf!DiskSupportsPerfOptimization(r) THEN \E s \in Perf!Settings(r) : s.what # "NaN" /\ device' = s ELSE UNCHANGED device
      BY <2>2 DEF Perf!OptimizeDiskPerformance, Attributes
    <3>2. Perf!DiskSupportsPerfOptimization(r) => device' \in Perf!Settings(r) /\ device'.what # "NaN"
      BY <3>1
    <3>3. \A x \in Attributes : x = r
      BY OneSetOfAttributes
    <3>4. Attributes' = Attributes
      BY <2>1 DEF Attributes, Perf!GetDiskPerfAttributes
    <3>5. \A x \in Attributes' : Perf!DiskSupportsPerfOptimization(x) => device' \in Perf!Settings(x) /\ device'.what # "NaN"
      BY <3>2, <3>3, <3>4
    <3> QED
      BY <2>1, <3>5 DEF PerfInv
  <2>3. CASE Perf!echoFails \/ Perf!DeviceReturns
    <3>1. ~ready'
      BY <2>3 DEF Perf!echoFails, Perf!DeviceReturns
    <3> QED
      BY <2>1, <3>1 DEF PerfInv
  <2> QED
    BY <1>2, <2>2, <2>3 DEF Perf!PerfNext
<1> QED
  BY <1>1, <1>2 DEF NodeNext, nodeVars, otherVars, exceptDriven

(* A volume staged with a profile has all its settings written, and with   *)
(* the basic profile they let the disk reach what both it and the node     *)
(* allow in a burst (getOptimalDeviceSettings and applyDeviceSettings):    *)
(* whatever attempts failed half-way before and however often the device   *)
(* came back. The proof uses of the tables only that all limits are        *)
(* positive and that those of a disk follow from its size.                 *)
THEOREM StagedIsFast == NodeSpec => []StagedIsTuned
<1>1. PerfInv => StagedIsTuned
  <2> SUFFICES ASSUME PerfInv, ready, NEW r \in Attributes, Perf!DiskSupportsPerfOptimization(r)
               PROVE  \/ r.profile = "advanced" /\ device.what = "overrides"
                      \/ r.profile = "basic"
                         /\ LET fit == {sku \in Perf!DiskSkuMap[r.account] : Perf!meetsRequest(sku, r)} IN
                              \A sku \in fit : sku.size = Perf!Min({x.size : x \in fit}) => Perf!Reaches(device, sku, r.node)
    BY DEF StagedIsTuned, Perf!StagedIsTuned, Attributes
  <2>1. request \in PerfRequests /\ device \in Perf!Settings(r) /\ device.what # "NaN"
    BY DEF PerfInv
  <2>2. r.node = request.node
    <3>1. PICK p, a : r = [request EXCEPT !.profile = p, !.account = a]
      BY DEF Attributes, Perf!GetDiskPerfAttributes
    <3>2. r = [[request EXCEPT !.profile = p] EXCEPT !.account = a]
      BY <3>1
    <3> QED
      BY <2>1, <3>2 DEF PerfRequests
  <2>3. r.node # NoNodeInfo /\ r.node \in Perf!NodeInfoMap
    BY <2>1, <2>2 DEF Perf!Settings, PerfRequests
  <2>4. CASE r.profile = "advanced"
    <3>1. device = Perf!Other("overrides")
      BY <2>1, <2>3, <2>4 DEF Perf!Settings
    <3> QED
      BY <2>4, <3>1 DEF Perf!Other
  <2>5. CASE r.profile # "advanced"
    <3> DEFINE fit == {sku \in Perf!DiskSkuMap[r.account] : Perf!meetsRequest(sku, r)}
    <3>1. r.profile = "basic" /\ r.account \in Tunable \cup {"premiumv2_lrs"}
      BY <2>5 DEF Perf!DiskSupportsPerfOptimization, Tunable
    <3>2. PICK sku0 \in Perf!getMatchingDiskSku(r) :
            device = IF sku0.burstIops = 0 THEN Perf!Other("NaN") ELSE Perf!getOptimalDeviceSettings(sku0, r.node)
      BY <2>1, <2>3, <2>5 DEF Perf!Settings
    <3>3. sku0.burstIops # 0 /\ device = Perf!getOptimalDeviceSettings(sku0, r.node)
      BY <2>1, <3>2 DEF Perf!Other
    <3>4. sku0 \in fit /\ \A other \in fit : sku0.size <= other.size
      BY <3>2 DEF Perf!getMatchingDiskSku
    <3>5. r.account \in Tunable
      <4>1. \A sku \in Perf!DiskSkuMap["premiumv2_lrs"] : sku.burstIops = 0
        BY DEF Perf!DiskSkuMap, Perf!Skus
      <4> QED
        BY <3>1, <3>3, <3>4, <4>1
    <3>6. sku0.size \in Nat /\ sku0.burstIops \in Positive /\ sku0.burstBw \in Positive
      BY <3>4, <3>5, SameSizeSameLimits
    <3>7. Perf!Reaches(device, sku0, r.node)
      BY <2>3, <3>3, <3>6, NodeTable, SettingsReach
    <3>8. ASSUME NEW sku \in fit, sku.size = Perf!Min({x.size : x \in fit}) PROVE Perf!Reaches(device, sku, r.node)
      <4> DEFINE sizes == {x.size : x \in fit}
      <4>1. sizes \subseteq Nat /\ sku0.size \in sizes
        BY <3>4, <3>5, SameSizeSameLimits
      <4>2. \A y \in sizes : sku0.size <= y
        BY <3>4
      <4> HIDE DEF sizes
      <4>3. Perf!Min(sizes) = sku0.size
        <5>1. \E x \in sizes : \A y \in sizes : x <= y
          BY <4>1, <4>2
        <5>2. Perf!Min(sizes) \in sizes /\ \A y \in sizes : Perf!Min(sizes) <= y
          BY <5>1, Zenon DEF Perf!Min
        <5>3. PICK least : least = Perf!Min(sizes)
          OBVIOUS
        <5>4. least \in Nat /\ sku0.size \in Nat /\ least <= sku0.size /\ sku0.size <= least
          BY <4>1, <4>2, <5>2, <5>3
        <5>5. least = sku0.size
          BY <5>4
        <5> QED
          BY <5>3, <5>5
      <4>4. sku.size = sku0.size
        BY <3>8, <4>3 DEF sizes
      <4>5. sku.burstIops = sku0.burstIops /\ sku.burstBw = sku0.burstBw
        BY <3>4, <3>5, <4>4, SameSizeSameLimits
      <4> QED
        BY <3>7, <4>4, <4>5, SameLimitsReach
    <3> QED
      BY <3>1, <3>8
  <2> QED
    BY <2>4, <2>5
<1> QED
  BY <1>1, PerfBegins, PerfNextKeeps, PTL DEF NodeSpec
=============================================================================
