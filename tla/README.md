# A TLA+ model of the Azure Disk CSI driver

This directory holds a formal model of `pkg/` of the Azure Disk CSI driver: TLA+
modules translated from the Go source, TLC configurations that check them on small
instances, and TLAPS proofs that hold for every instance. `PROJECT.json` maps each
definition to the lines it models and lists runs, mutants, findings, hazards and
theorems.

## The system

The driver is two programs built from one source. The **controller plugin** answers
the CSI controller calls of the Kubernetes sidecars and talks to Azure Resource Manager
(ARM); the **node plugin** runs on each node, mounts disks and looks after its own Node
object. Every gRPC call runs in a goroutine of its own.

| part | state it keeps | operations | talks to |
|---|---|---|---|
| `controllerCommon` (`azure_controller_common.go`) | attach and detach queues per node, node locks, `diskStateMap`, a cache of nodes at their limit | `AttachDisk`, `DetachDisk`, `UpdateVM`, `SetDiskLun`, `GetDiskLun`, verification, polling | the VM set (vendored cloud provider), ARM |
| VM set (`azure_controller_vmss.go`, vendored) | the VM cache | `AttachDisk`, `DetachDisk`, `DeleteCacheForNode` | ARM: each update carries the *whole* data disk list of a VM |
| `ManagedDiskController` | none of its own | create, delete, resize, modify a disk | ARM; reads `diskStateMap` |
| `ControllerServer` (`controllerserver.go`) | volume locks by name or URI, throttling caches | create, delete, publish, unpublish, list, expand, modify, snapshots | all of the above, the API server |
| migration monitor (`migration_monitor.go`) | one task per disk that is migrated to PremiumV2 | start, poll, extend, stop, recover from labels | ARM, the API server (label on the volume, events on the claim) |
| `NodeServer` (`nodeserver.go`, `azure_common_linux.go`, mounters) | volume locks, mounts | stage, publish, unpublish, unstage, expand | kubelet, the kernel, on Windows the host or csi-proxy |
| Kata direct volumes (`kata.go`) | MountInfo files | hand the disk over to a guest, take it back | the Kata runtime |
| node-driven attach (QAD) | the attach-sequence annotation of the PV | attach and detach from the node | the wire server of the host |
| device tuning (`pkg/optimization`) | tables of disks and machines | compute and write queue depth and read-ahead | sysfs |
| start-up (`azuredisk.go`), `NodeGetInfo` | none | registers the volume limit, removes the not-ready taint | kubelet, the API server |
| pre-stop hook (`hooks/prestop.go`) | a channel that is closed once | waits for the VolumeAttachments of a drained node to go | the API server, an informer |

What is hard here:

* a VM update replaces the whole list of data disks, computed from a cache, so a stale
  read detaches or moves somebody else's disk;
* requests are served by other requests: one goroutine takes the queue of its node and
  attaches the disks of goroutines that still wait for the lock;
* ARM updates are asynchronous: refused, lost after they were accepted, accepted after
  the client gave up, preempted by a force-detach, answered 404;
* calls are given up by their clients and go on, or end with a request in flight; the
  *error code* of a call decides whether Kubernetes believes that something may be there
  and cleans it up;
* the controller, kubelet, the node plugin and the node restart at any step;
* a disk is used by host and guest, or by two nodes, one after the other, and each must
  have let go before the next one starts;
* what a disk holds is only guessed, from tools that fail or miss it;
* paging tokens are computed over lists of several resource groups; watches break,
  patches conflict, contexts expire.

Correctness, per part:

* *attach and detach*: no update disturbs another disk of the VM, no LUN is used twice,
  an answer says what is the case, a disk is detached only for somebody who asked, every
  call returns;
* *publish*: what was published stays attached at its LUN, what is asked for is served;
* *volumes and snapshots*: the disk is as asked for and none leaks; what is reported ready
  is complete; everything asked for is served, everything removed is deleted;
* *listing*: following the tokens visits every entry and comes to an end;
* *node volumes*: no data is formatted away, the device is the volume's, a running pod has
  its volume, host and guest never share it, pods are served and volumes let go;
* *node agent*: a node that is ready announces its own limit, the taint goes, no foreign
  taint is lost, the hook ends;
* *migration*: one monitor per disk, which survives restarts by the label; the label goes;
  the claim hears events in order.

## Modules

| module | models | role |
|---|---|---|
| `DiskPlacement` | what attach and detach promise | abstract specification |
| `DiskController` | `controllerCommon`, `lockMap`, the VM set and its cache, `DeleteManagedDisk` | component |
| `DiskControllerProofs`, `DiskUpdateProofs` | | theorems about `DiskController`; that it implements `DiskPlacement` |
| `VolumePublish` | `ControllerPublishVolume`, `ControllerUnpublishVolume` | component |
| `DiskRequest` | parameters, sizes, zones, the body of the PUT and the answer | operators |
| `VolumeLifecycle` | create, claim, expand, modify, delete | component |
| `SnapshotLifecycle` | `CreateSnapshot`, `DeleteSnapshot`, `ListSnapshots` of an ID | component |
| `VolumeLister` | `ListVolumes`, `ListSnapshots` and a client that pages | component |
| `ControllerServer` | the three above in one process that restarts | composition |
| `MigrationMonitor` | `migration_monitor.go`, `startSKUMigrationMonitor` | component |
| `DeviceDiscovery`, `VolumeFormat`, `WindowsStorage`, `DiskTables` | which device a LUN is; what is done with a content; the limits of disks and machines | operators |
| `NodeVolume` | stage, publish, unpublish, unstage, expand, Kata | component |
| `NodeDrivenAttach` | attach and detach from the node | component |
| `DevicePerformance` | `pkg/optimization` | component |
| `NodeServer` | the three above | composition |
| `NodeInfo` | `NodeGetInfo` | operators |
| `VolumePublishProofs`, `ControllerServerProofs`, `SnapshotProofs`, `MigrationMonitorProofs`, `NodeServerProofs`, `NodeAgentProofs` | | theorems about these modules |
| `TaintRemoval` | registration and `removeTaintInBackground` | component |
| `PreStopHook` | `PreStop`, `waitForVolumeAttachments` | component |
| `NodeAgent` | the two above over one Node object | composition |
| `MC...` | | instances for TLC |

Definitions have the names of the functions they model where a function is one action.
A function with several calls to the outside is split at these calls, since other
goroutines run meanwhile; the parts are named for what they do. Mutants (plausible bugs,
each used to show that a property can fail) stand before the definition they change.
The clients (sidecars, kubelet, Kata, pods), Azure, the kernel and the wire server are
modelled from how the driver uses them and marked external in the map.

### DiskController

A *thread* is one request goroutine; `pc[t]` is where it is and `call`, `diskMap`, `sent`
and `result` are its locals. `vm`, `nodes` and `disks` are Azure's state; `cache` is the
VM cache; the other variables have the names of the fields of `controllerCommon`. An
update is sent (`SentPC`), taken by Azure or not (`Accept`), then answered, or its answer
is lost (`AcceptedPC` and then an error). A detach that Azure took flags the disk
ToBeDetached (`tbd`), and `DetachCompletes` removes it later. `ExpireCache`
is the life time of a cache entry, `Restart` a crash of the controller. `LockHeld` also
says that no error path leaves the locked region with the lock.

The variables of `DiskController` map to those of `DiskPlacement` by forgetting queues,
locks and caches; a `DeleteManagedDisk` is no part of the promise. The map is at
the end of the module, the property is `Promise`.

### VolumePublish

For every VolumeAttachment the csi-attacher has one call at a time. `AttachDisk` and
`DetachDisk` are single steps over the VM cache; the insides are in `DiskController`,
which shows that a VM has one update under way. An update the client gave up is on its
way (`late`) and accepted before the next update of that VM, or never. `blind` marks a
call that could not compare LUNs: the reading was skipped, throttled or failed, the cache
still lists a disk that was removed by hand, one was removed after the reading, or another
disk has the LUN of a removed one by now (`LunShared`).

### VolumeLifecycle, SnapshotLifecycle, VolumeLister, ControllerServer

A claim (`req`) is a record of what its request, its classes and the driver's flags say.
`DiskRequest` computes from it what is sent to Azure and what is answered. The sidecars
make one call at a time for a volume; a call they gave up is cancelled: its request in
flight takes effect or not, and it ends with its locks. external-provisioner takes
Aborted, DeadlineExceeded and Unavailable for "may still be under way" and repeats such a
create even for a claim that is gone; `lost` marks the disks it does not know of, because
`CreateVolume` answered with a final error while Azure had the disk.

A change (`Change`) is the class a `ControllerModifyVolume` asks for, its keys normalised. It
is refused where the code refuses it: by `ParseDiskParameters`, for an SKU that is not
supported, or for numbers on a disk whose SKU, after the change, takes none. An empty
`skuname` leaves the SKU. `DiskAsAsked` allows two things the driver does: a change that
names an SKU and no numbers leaves the numbers the disk had, since nothing takes them back,
and a change to a ZRS SKU leaves the topology of the volume.

A snapshot for another region goes through a local snapshot (`local`) and its `copy`. A
content may also be written by hand for a snapshot that exists (`static`); then
external-snapshotter asks by its ID.

The lists do not change while a client pages: CSI promises nothing for lists that do.
`api` says which of three code paths answers: `listVolumesInCluster` (several resource
groups), `listVolumesInNodeResourceGroup`, `GetEntriesAndNextToken` (snapshots).

`ControllerServer` puts them into one process with one `Restart`. They take different
lock keys and touch different resources, so a behaviour has work of one kind.

### NodeVolume, NodeDrivenAttach, DevicePerformance, NodeServer

`NodeVolume` is one volume on one node. Kubelet has one call for it at a time; a call it
gave up goes on, because mounts and commands do not look at the context. What kubelet
believes after an error (`dev`, `pod`) follows its rule: Aborted, Unavailable,
DeadlineExceeded, Canceled and ResourceExhausted leave a mount "uncertain", any other code
means that nothing is there. `mounts` counts mounts per path, `fs` is the one file system
of the device in the kernel, which all mounts share and which stays shut down until the
last of them is gone. `disk.content` is what is on the disk, `disk.data` whether a pod's
data are among it. `record` is the MountInfo and `guest` the pod whose guest has the disk.
On Windows targets are links, and the steps of partitioning, mounting and unmounting are
those of the host process or of the proxy (`vol.os`). A call whose search answered another
disk is at "astray": it may fail, or the node restarts; what it would do to that disk until
it succeeds is not followed, and it keeps the volume lock.

`NodeDrivenAttach` moves a pod between nodes. Requests to the wire server are lost,
answered in vain or late; `net` keeps them in the order of their sequence numbers, of
which only the order matters. `staged` tells a node that never tried ("no") from one whose
kubelet got a final error ("failed"): neither is unstaged before the VolumeAttachment goes.
An "attached" that comes at once is followed by the lookup of the disk, which may fail, as
after polling.

`DevicePerformance` has the disk and machine tables (`DiskTables`), `getOptimalDeviceSettings` with its
burst and latency terms, and the writes to sysfs.

### NodeInfo, TaintRemoval, PreStopHook, NodeAgent

Kubelet registers the driver with the limit `NodeGetInfo` answers, over metadata and
labels that may fail to be read. The goroutine that removes the not-ready taint reads the
node, checks the CSINode and patches the taints under a test that they are the ones read;
others change taints in between. The hook checks once itself and then at each event of an
informer that lists and watches on its own. `NodeAgent` composes them: the hook reads the
taints that the goroutine patches. No VolumeAttachment is created for the node while its
hook runs: the hook is for nodes that are drained.

### MigrationMonitor

`task[m]` is a `MigrationTask` with the place of its goroutine, `activeTasks` the map,
`starting` the call of `StartMigrationMonitoring` that holds the mutex of the map and of
the task. The age of a task has three values: before its timeout, after it, after
`maxMigrationTimeout`. `ctx` is the state of its context; calls with a context that is not
live fail. A disk migrates once. `named` is the SKU in the volume's attributes; `"other"`
is any that makes the recovery skip the volume, and stands for one of another driver too.

## Runs

Sizes are distinct states.

| run | instance | shows | size |
|---|---|---|---|
| `batch` | 1 VM, 2 disks, 2 threads, default flags, disks may be deleted | `TypeOK`, `LockHeld`, `CacheHonest`, `DetachReturnsDetached`, `DisksUndisturbed`, `OnlyRequestedDetached` | 842,101 |
| `limit` | the VM takes 1 disk, LUN 0 may be occupied | `UpdateLunsDistinct`, `AttachReturnsLun` when batches are cut and LUNs run out | 608,016 |
| `promise` | the VM may be deleted, no disk count check | `DiskController` implements `DiskPlacement` | 173,808 |
| `calls` | 1 VM, 1 disk, attach, detach and delete | `CallReturns` under fairness | 70,649 |
| `publish` | 2 nodes ask for one disk, a second disk beside it, 2 faults, 1 late update | `PublishedIsAttached`, `LunsApart`, `AskedIsServed` | 157,179 |
| `volumes` | claims, and changes to them, that differ from a plain one in one respect each, every kind of snapshot, 3 faults; 2 groups of up to 3 disks, limits 0 to 2 | `PVFits`, `DiskAsAsked`, `NoLeak`, `ClaimIsServed`, `DeleteEnds`; `ReadyIsComplete`, `LocalGone`, `SnapshotServed`; `OneListComplete`, `PagingEnds` | 142,025 |
| `node` | 11 volumes and nodes, 2 pods, 2 faults; 2 nodes, 3 moves, 2 losses; the tables | `DeviceIsTheVolume`, `PublishedIsMounted`, `HostLetsGo`, `DataKept`, `PodServed`, `UnstageEnds`; `AttachedWhereStaged`, `PodAttached`; `StagedIsTuned` | 105,259 |
| `agent` | 2 attachments, 6 kinds of nodes, back-off of 2 steps, 2 failures | `ReadyIsLimited`, `DrainSeen`, `SeenDeletionEndsHook`, `TaintGoes` | 509,502 |
| `migration` | 1 disk, 2 monitors, 2 SKUs in the attributes, 1 failure, 1 restart | `OneMonitorPerDisk`, `EventsInOrder`, `LabelGoes`, `CancelledEnds` | 129,822 |
| `queue` | as `batch`, one LUN more | **violated** `QueueIsWaiting` | |
| `groups` | 2 groups | **violated** `PagesListAll` | |
| `modified` | 1 restart, no failure | **violated** `ModifiedIsMonitored` | |

**Bounds.** Two threads and two disks are the smallest instance in which one request serves
another, a batch holds two disks, and a list holds a disk nobody asked about; a thread
serves call after call, so attach, detach and attach again of one disk are among the
behaviours. The number of calls, failures and restarts is not bounded in
`DiskController`: they reuse the threads. In `VolumePublish` two nodes for one disk give
the dangling attachment, the second disk a LUN to collide with; the number of attachments
over time is not bounded, faults are. In `volumes` two slots let a call run beside the one
that followed it, and three faults are a lost answer, a call given up and a restart on one
way. In `node` two pods give a target that outlives another and a guest after an ordinary
pod, two slots a call beside the one that followed it; two faults suffice for blkid and
fsck to miss the same file system. Three moves take a pod away and back while two requests
are late. Two groups with up to three disks and pages of one or two make pages end inside
and at the end of a group and start after a skipped one. For the agent, two failures meet
a back-off of two steps (all attempts used up). For the migration, two identities let a
second monitor start while the first still ends; `Full` = 2 has a poll between beginning
and end. Deadlock is checked where the system may not stop (`DiskController`,
`VolumePublish`); a claim that is deleted, a pod that is gone, a hook that is done or a
disk that is migrated ends the behaviours of the others. Symmetry is used for threads,
disks and VMs in runs of safety properties only; no definition singles one of them out.

**Fairness.**
* `DiskController`, `calls`: a thread that can go on does (weak; the calls to Azure it
  waits for have contexts with deadlines); a thread that waits for a node lock gets it
  (strong: a `sync.Mutex` hands over to a waiter in its starvation mode); a poll gives up
  (weak: its back-off has seven steps).
* `VolumePublish`, `ControllerServer`: calls return (their contexts have deadlines), the
  sidecars retry, clients ask for the next page, pods that use a deleted volume end, Azure
  completes its snapshots, cache entries expire. Faults are bounded, not fair.
* `NodeServer`: calls go on; kubelet repeats what it has to do. Strong for kubelet's
  operations: they exclude one another and each has its own back-off, so none is passed
  over for ever; expansion gets no fairness. The attach-detach controller and the disk
  service act; a request arrives while its call waits, a late one may never.
* `NodeAgent`: hook, informer and goroutine run; every volume of a drained node is
  detached and kubelet registers the driver some day, which is what the code waits for.
* `MigrationMonitor`: goroutines run and time passes; a stopped process need not end; a
  mutex is got by whoever waits for it (strong). Copying is *not* fair: a migration may
  take for ever.

## Where code and comments part

Three runs show disagreements, quoted in `PROJECT.json`:

* `queue`: an attach whose disk count fails stays queued (`azure_controller_common.go:260`)
  and a later batch attaches the disk. This is why `promise` runs without the check;
* `groups`: with several resource groups the token of `ListVolumes` counts the skipped
  groups twice (`controllerserver.go:1376`) and volumes are left out;
* `modified`: after a restart between `ModifyDisk` and the label, the repeated call passes
  the new SKU as the old one (`controllerserver.go:2033`) and nobody monitors.

The modules keep the following behaviours of the code, which the properties are stated
around or which no property is about.

*Attach, detach, publish*

* `isMaxDataDiskCountExceeded` is true for every node, since the getter of its cache makes
  an entry (`azure_controller_common.go:802`): every attach waits for the detaches queued;
* `diskStateMap` is written under the disk pointer and read under the URI
  (`azure_controller_common.go:310`): a delete is never refused because of an attach;
* a 404 for a disk of the list counts as a missing VM (`azure_controller_common.go:498`);
  with `--wait-for-detach-disk-complete=false` a detach then reports success while the disk is
  attached, so the runs set that flag;
* a `DetachDisk` whose disk another batch flagged fails, though the comment at line 458
  speaks of success;
* after a dangling disk was detached the second attach always fails, because it is made
  with the disk object read before; the retry of the attacher succeeds;
* a VM update carries no etag: with two given-up updates on their way to one VM a
  published volume could be lost (one is modelled, `MaxLate`);
* the cache that should throttle `GetDisk` is never set.

*Volumes and snapshots*

* a disk leaks if a PUT was accepted and answered Internal, or if a retry cannot read its
  snapshot (NotFound) or finds a disk of another size (AlreadyExists): these answers are
  final for external-provisioner. `NoLeak` exempts them (`lost`);
* with `--enable-disk-capacity-check` and a snapshot that decided on the size, a retry is
  refused for ever, against the comment at `controllerserver.go:446`; `ClaimIsServed`
  exempts it. The limit of a claim is not compared with such a snapshot either;
* if both keys for the SKU are in a storage class the order of a Go map decides; a retry
  may then be refused for good where the attempt before it made the disk (`lost`; one
  request of `volumes` has both keys);
* a zone of another region is put into the topology of the volume and not sent to Azure;
* an existing cross-region snapshot is taken without a look at its source; a retry makes
  the local snapshot again and deletes it; with instant access a copy counts as ready at
  once, so that the local snapshot is deleted before the copy is complete (this
  combination is left out of the instances);
* an invalid disk name is replaced by a new random one at every attempt;
* the token of `listVolumesInNodeResourceGroup` counts from the start of the page
  (`controllerserver.go:1397`): without a Kubernetes client the client pages for ever, and
  `PagingEnds` leaves that path out.

*Nodes*

* the Windows listing logs "skipping adapter 0 disk" (`disk.go:228`, `disk_cim.go:108`) and
  lists it: the fields of the location that follow the adapter set `found` again. A system
  disk of adapter 0 that is partitioned the new way and has the volume's LUN, as on a
  Generation 2 machine, may be taken for the volume. The instance has such a disk, and the
  model takes it. `DeviceIsTheVolume` names it as the one exception (`AdapterZero`), and the
  two liveness properties of a volume exempt a call that has it (`Astray`); without the
  exception the run `node` fails;
* volumes of an unknown file system type are formatted;
* the proxy's `FormatAndMount` takes the first of the volumes of the disk without a look at
  their number (`safe_mounter_windows.go:309`) and panics if there is none. The model has an
  error of the call there, without the restart of the plugin;
* the host process on Windows unmounts and then removes the directory: failing in between
  it never unstages (`UnstageEnds` exempts it). The proxy never brings a disk online;
* on Windows `NodeExpandVolume` measures the volume, so that an online expansion stays
  Unavailable until the volume is staged again;
* `NodeExpandVolume` reports success though the resize failed, if the *device* has the
  size (`nodeserver.go:1112`);
* a stage that fails in the resize is final for kubelet: the retry finds the volume mounted
  and does not resize, against the comment at line 411;
* an unstage that fails after the shutdown leaves a dead file system, which a later stage
  or publish may take for mounted (`stuck`); when the dead mount is noticed it is
  unmounted and the call fails all the same. A late publish leaves a bind mount that keeps
  the dead superblock. btrfs is not shut down;
* a block publish does not check for a mount and stacks another; block volumes that are
  attached from the node are never published (there is no LUN in the context);
* a killed mkfs with a signature ("torn") makes every stage fail until someone repairs it;
  `detectOrRepairFilesystem` never returns "none" without an error as its comment says;
* with Kata a publish that was given up goes on. If the retry fails for good kubelet
  forgets the target, and the MountInfo or mount stays (`Forgotten`);
* node-driven: client and poll errors are final for kubelet, so that a disk whose attach
  was answered in vain is never detached if the pod goes, against the comment at
  `nodeserver.go:176`. `LeftBehind` is that state and no other: kubelet was told that staging
  failed, no call runs there, the disk is there and the pod is not;
* tuning: PremiumV2 with a basic profile yields no usable settings and the stage fails for
  ever; a class that says `storageAccountType` instead of `skuName` is silently not tuned
  (`docs/driver-parameters.md:44` calls them aliases); after an expansion a volume is tuned
  for its old size; an unknown machine only logs a warning at start-up, and every tuned
  stage fails;
* registration: an unreadable or unlisted machine type means 16 volumes less the reserved
  slots (`nodeserver.go:929`), so with 16 or more of them a misread type takes the count away
  from a node that is in use; a limit of 0 or
  less is not published, so the not-ready taint stays until the goroutine gives up. The
  type is read at every registration, not "lazily computed and cached".

*Agent and migration*

* the hook waits in vain for a deletion between its first check and the first list of its
  informer (`prestop.go:155`), and panics at a tombstone (`prestop.go:132`);
  `SeenDeletionEndsHook` says when it does end;
* the never-stop loop of the taint removal ends at its first error (`azuredisk.go:1063`);
* the event "Migration taking too long" is emitted with the context that has just expired
  (`migration_monitor.go:372`) and does not reach the claim;
* a monitor recovered from an old list emits the start event again, and one that passed
  `maxMigrationTimeout` is started anew ten minutes later, because the label stays;
* `ControllerModifyVolume` starts a monitor for what the *disk* is, and the recovery skips
  volumes whose *attributes* name another SKU than Premium_LRS and PremiumV2_LRS
  (`migration_monitor.go:646`). A volume made as StandardSSD_LRS, changed to Premium_LRS and
  then to PremiumV2_LRS gets the label, which stays for ever if the driver restarts or the
  removal fails. `LabelGoes` exempts it (`Abandoned`).

## Proofs

Eight modules hold the proofs. All constants are arbitrary: any sets of nodes, disks,
threads, requests, volumes and pods, any flags and bounds, except where a theorem says
so. The assumptions are the named `ASSUME`s of the modules the theorems are about, and
TLC evaluates each of them on every run: the "none" values are outside their sets, bounds
are natural numbers, the disks of a controller are finitely many, occupied LUNs are LUNs,
the requests of `VolumeLifecycle` have sizes in bytes, the kinds of snapshots and the
volumes of `NodeVolume` are those that exist (Windows has no block volumes and no Kata; a
content written by hand has no parameters), a machine's label, where it has one, is its
type, the sizes and rates of a tuning request are numbers, and so is a `maxShares`.

| theorem | module | states | holds if |
|---|---|---|---|
| `TypeCorrect` | `DiskControllerProofs` | `TypeOK` | |
| `LockCorrect` | same | `LockHeld` | |
| `CacheCorrect` | same | `CacheHonest` | |
| `UpdatesDisturbNoDisk` | same | `DisksUndisturbed` | |
| `LunsAskedForOnce` | `DiskUpdateProofs` | `UpdateLunsDistinct` | |
| `AttachAnswersTrue` | same | `AttachReturnsLun` | |
| `DetachAnswersTrue` | same | `DetachReturnsDetached` | `WaitForDetachDiskComplete` |
| `FlaggedOnRequest` | same | `OnlyRequestedDetached` | |
| `QueueWaits` | same | `QueueIsWaiting` | no `CheckDiskCountForBatching` |
| `ControllerKeepsPromise` | same | `Promise` | both of the above |
| `PublishedStays`, `TypeCorrect` | `VolumePublishProofs` | `PublishedIsAttached`, `TypeOK` | `MaxLate` =< 1 |
| `LunsKeptApart` | same | `LunsApart` | `MaxLate` =< 1 |
| `NothingLeaks` | `ControllerServerProofs` | `NoLeak` | |
| `VolumeFitsDisk` | same | `PVFits` | |
| `DiskIsAsAsked` | same | `DiskAsAsked` | |
| `ReadySnapshots` | `SnapshotProofs` | `ReadyIsComplete` | |
| `LocalSnapshotsGone` | same | `LocalGone` | |
| `PagesAreComplete` | same | `OneListComplete` | |
| `TokensGrow` | same | a page's token lies beyond its start | there is a Kubernetes client, or snapshots are listed |
| `OneMonitor`, `TypeCorrect` | `MigrationMonitorProofs` | `OneMonitorPerDisk`, `TypeOK` | |
| `StartedBeforeCompleted` | same | `EventsInOrder` | |
| `ReadyHasCount` | `NodeAgentProofs` | `ReadyIsLimited` | fewer than 16 slots reserved |
| `DrainIsSeen` | same | `DrainSeen` | |
| `DataIsKept` | `NodeServerProofs` | `DataKept` | |
| `RunningHasVolume` | same | `PublishedIsMounted` | |
| `HostHasLetGo` | same | `HostLetsGo` | |
| `DiskStaysWhereStaged` | same | `AttachedWhereStaged`, both halves | |
| `DeviceIsRight` | same | `DeviceIsTheVolume` | `DeviceAssumption` |
| `StagedIsFast` | same | `StagedIsTuned` | |

The hypotheses are those of the runs. Waiting for detaches is the default of the driver;
without it a 404 for some other disk ends a detach with success. The disk count check
leaves a request in the queue, which is what the run `queue` shows; `QueueWaits` says that
nothing else does. With two given-up updates on their way to one VM `PublishedIsAttached`
is false. A node that reserves 16 or more slots and whose type is misread at a second
registration loses the count that its taint was removed for: `ReadyHasCount` was found
false without the hypothesis; `--reserved-data-disk-slot-num` is 0 by default.

### The arguments

*DiskController.* `TypeOK` is inductive by itself, `LockHeld` with it: the holder of
`lockMap[n]` and the thread inside the locked region of `n` name each other, in both
directions; with one only, an unlock by another thread could not be excluded. `CacheHonest`
needs these two: while no accepted update awaits its answer, a cache entry lists every disk
of the VM, at its LUN, and unless it is flagged a listed disk is there. The cases that
matter are the answers: a successful one writes the list that was sent, every failure drops
the entry. A list is built, then sent, then applied, and so `DisksUndisturbed` needs
`ListInv`: besides the above, that disks on a VM exist (filtering a list of non-existing
disks drops none of them) and that a list under way keeps each disk of the VM at its LUN;
the lock makes that hold from building to applying.

`UpdateInv` adds what a list contains: LUNs allocated to a batch are free until the list is
built, the flags of a list and of the cache are on disks that leave, a cache entry that an
accepted update made stale errs only in the disks that update detaches. From it
`LunsAskedForOnce` and, with a lemma on what each return of a call has read, the two
theorems on answers. `RequestInv` adds that a queued or batched detach has a request that
waits; `PlacementInv` the same for attaches, and which call a thread serves. With that
every step of `DiskController` is a step of `DiskPlacement` or leaves its variables alone,
which is proved action by action.

*VolumePublish.* `IInv` is `TypeOK` with `PublishInv`. The cache is right about what is
published; an update on its way keeps what is on its VM, and before the first one is given
up the cache lists all that is there, so the one late update cannot undo a later one; a
dangling detach goes to a node on which the disk has no attachment, and none is made there
while the call lasts; the LUN of an attachment lost by hand is among the occupied ones of
every call that is not blind.

*ControllerServer.* For `NoLeak`, `LeakInv`: one create at a time is past the lock of the
name, none once the volume is made; the other sidecars call for a volume that stays until
they are answered; and a disk has a volume, a create that will find it again, or was given
up by a final error. `FitInv` adds that a create past the lock was accepted, that a disk
has the size of the request, of the snapshot or of the expansion, and that the volume's
capacity is no more. For snapshots, `SnapInv`: one call holds the lock; the local
snapshot and the copy are of the volume once a call got past creating them; once the
snapshot is reported ready every call left is before its lock and nobody waits, so none
makes the local snapshot again.

`AskedInv` extends `FitInv` for `DiskAsAsked`. The disk and the volume are made by different
steps, with faults between them, so neither is right by itself: a create past the lock was
accepted with an SKU its claim wants, and the disk it claims is the one it made; a change
that was sent fits the disk whichever copy of it came before (without this a replayed change
would put numbers on a disk that takes none); applying it again changes nothing; until
something fails the only call is the one waited for, so no change runs beside a create.

For the lists, `ListInv`: the pages so far hold what is listed up to a position that is not
before the start of the next page. It needs only that a page ends in the list and after its
start, not where. `VisitInv` adds that entries come from visited disks, and that a page which
ends early has visited one; so a token lies beyond the last one, which is the variant
`PagingEnds` rests on.

*MigrationMonitor.* `MonitorInv` is `TypeOK`, `OneMonitorPerDisk`, and that the start under
way is one of a registered task that has not ended, since it holds the mutex the end of the
monitor takes. `EventInv` says who still owes the claim its first event while nothing
fails: the start that holds the mutex, or a monitor that labelled the volume and is in the
poll that tells, or lost it to the timeout and gets another one whole.

*NodeAgent.* `CountInv`: the count is that of a registration, and the goroutine patches
only after it has seen one. `DrainInv`: the drain taint is there exactly while the
autoscaler wants it, since a patch applies only to the taints it was made from.

*NodeServer.* `CallsOK` and `StateOK` are the types, by operation and step. `CallInv` is
what kubelet's view and the volume lock allow: one call holds the lock, a call that waits
for it is the current one, staging happens only to what is not held staged, pods publish
while it is, with Kata one pod at a time. `MountInv` is about mounts: with a MountInfo the
staging path and the target are unmounted and only unpublish and unstage run (it is what
stops all others); a file system is in the kernel exactly while a mount is; it lives
only under the staging path or a forgotten target; a guest is that of the MountInfo.
`GoodInv` is about content: what is or may be mounted is readable, what is being formatted
is blank, and written data is on no disk that looks empty. `DataKept` does not
follow from the guards alone: two tools must miss a file system before it is formatted,
which holds across calls only because a content that holds data is none of the empty ones.
For volumes the nodes attach, `DrivenInv`: only the node of the VolumeAttachment has a call
or a staged volume, so a request somebody waits for is the newest of all; once it is
accepted every other one on its way is stale, and it stays so until the next call of that
node. The other half of `AttachedWhereStaged`, that a node which unstaged the
volume does not have the disk, needs what becomes of its *late* requests. `OffInv`: the
service has no operation of such a node under way, and what the node still has in `net` is
stale, so that an old attach is not taken. `Polled`: while an operation is polled all of
`net` is stale, because its request had the highest number.
That a call's device is the volume's, or on Windows one of `AdapterZero` in a call that is
astray, is a part of `CallsOK`. It needs only that the
search returns the first of a set of disks, and what `DeviceAssumption` says of that set:
other disks of the volume's LUN belong to the system; on Linux udev has linked all of them
or none, and then they are on the first SCSI hosts; on Windows they are partitioned the
old way or on adapter 0, and the volume's disk is listed by the first search or they are on
port 0, which the second leaves out. The GPT disks of adapter 0 remain, and are the
exception. For the tuning, `PerfInv`: what was written at staging is what the
attributes and the tables ask for. That this reaches the limits of the disk and the node is
arithmetic, every quotient being rounded up; of the tables the proof uses only that all
limits are positive and that those of a disk follow from its size.

### Only model-checked

Every invariant and every action property of the passing runs is a theorem. Left to TLC is
all liveness (`CallReturns`, `AskedIsServed`, `ClaimIsServed`, `DeleteEnds`,
`SnapshotServed`, `PagingEnds`, `PodServed`, `UnstageEnds`, `PodAttached`,
`SeenDeletionEndsHook`, `TaintGoes`, `LabelGoes`, `CancelledEnds`): fairness and ENABLED are
beyond the prover. `QueueWaits` and `TokensGrow` are what two of them (`CallReturns`,
`PagingEnds`) rest on that is not liveness.

## Assumptions

* ARM orders the operations of one VM. In `DiskController` an update the client gave up
  before Azure took it is never applied; in `VolumePublish` it may be applied until the
  next one is made. A late detach is excluded: `DetachDisk` polls until the disk is gone.
* A request of a cancelled call takes effect before the call ends, or never.
* Azure refuses to change the zone of a disk and to clone across zones, does not shrink
  disks and does not replace a snapshot by one of another source.
* `DisableDiskLunCheck` is FALSE, as in every controller that attaches disks; disks are not
  shared in `VolumePublish` (`maxShares` 1).
* wipefs reads what is there; fsck finds a file system by the copies of its superblock;
  the shutdown ioctl works on ext4 and xfs; the links of the system's disks are either all
  there or not there yet. Other disks of the LUN are the system's, as `DeviceAssumption`
  says: on Windows MBR disks or disks of adapter 0. Calls that kubelet gave up had passed their first step.
* Kata volumes are ReadWriteOncePod. There are no block volumes on Windows; mounts survive
  a reboot there (so `Reboot` is Linux's), and a grown disk is seen without a rescan.
* The disk service takes newer sequence numbers only and attaches no disk that another
  node has; the increment of the annotation is atomic thanks to its conflict check.
* Quotients of `DevicePerformance` are exact; the code's floats may differ by one.

## Not modelled

* `NewDriver`, `Run`, options: they read flags and build clients.
* Identity server, gRPC server, metrics, tracing, file watcher, volume statistics: nothing
  the driver reads back.
* COM wrappers (`wmi.go`), the PowerShell and beta proxy variants of the Windows APIs: the
  calls they make are those of the modelled variants.
* Names, URIs and messages as strings; encryption, network policies, tags; mount options,
  fsGroup; the limit on concurrent mkfs; force detach of node-driven disks; the order in
  which sysfs settings are written; node IDs and topology values of `NodeGetInfo`.
* `AttachDetachInitialDelayInMs`, which a publish writes and others read without
  synchronisation (`controllerserver.go:1002`): it changes how long requests gather, not
  what happens to them.
* Standalone and VMSS Flex VM sets, which build the same data disk list.

## Plan

What the project could still take on:

1. more of what liveness rests on as theorems, as `TokensGrow` is for `PagingEnds`: that each
   step of a create, a snapshot or a staging that goes on lowers a measure until a fault;
2. one instance in which volumes, snapshots and lists run beside each other, should they come
   to share locks or resources;
3. shared disks (`maxShares` > 1) in `VolumePublish`, whose caching and LUNs differ per node.
