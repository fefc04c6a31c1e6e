--------------------------- MODULE DiskController ---------------------------
(***************************************************************************)
(* controllerCommon of pkg/azuredisk/azure_controller_common.go: attaching *)
(* and detaching managed disks in per-node batches, one VM update at a     *)
(* time per node, over a VM cache, with DeleteManagedDisk beside it.       *)
(*                                                                         *)
(* A thread is one gRPC request goroutine of the controller. Azure (the    *)
(* VMs, the disks, the asynchronous VM update) is external: it is          *)
(* modelled from the requests the code sends and the answers it handles.   *)
(* DisableDiskLunCheck is FALSE, as in every controller that attaches.     *)
(***************************************************************************)
EXTENDS Integers, FiniteSets

CONSTANTS
  Nodes,                     \* VMs of the cluster
  Disks,                     \* managed disks
  Shared,                    \* disks with maxShares > 1
  Threads,                   \* request goroutines
  NoThread,                  \* a node lock nobody holds
  NoCall,                    \* arguments of a thread that serves no call
  NoView,                    \* no VM cache entry
  MaxLUN,                    \* LUNs of a VM (64 in the code)
  MaxDataDisks,              \* data disks the VM size allows
  OccupiedLuns,              \* values getOccupiedLunsFromNode may return
  Deletable,                 \* bound: disks that DeleteVolume is called for
  Removable,                 \* bound: nodes whose VM may be deleted
  WaitForDetach,             \* --wait-for-detach
  CheckDiskCountForBatching, \* --check-disk-count-for-batching
  ForceDetachBackoff,        \* --force-detach-backoff
  WaitForDetachDiskComplete  \* --wait-for-detach-disk-complete

LUNs == 0 .. MaxLUN - 1
NoLun == -1

(* A VM's data disk list: the LUN of each disk on it, and the ToBeDetached *)
(* flags.                                                                  *)
Views == [lun : [Disks -> LUNs \cup {NoLun}], tbd : SUBSET Disks]
EmptyView == [lun |-> [d \in Disks |-> NoLun], tbd |-> {}]
Listed(v) == {d \in Disks : v.lun[d] # NoLun}

ASSUME ThreadAssumption == NoThread \notin Threads
ASSUME ViewAssumption == NoView \notin Views
ASSUME LunAssumption == MaxLUN \in Nat /\ MaxDataDisks \in Nat
ASSUME DiskAssumption == IsFiniteSet(Disks) /\ Deletable \subseteq Disks
ASSUME OccupiedAssumption == \A o \in OccupiedLuns : o \subseteq LUNs
ASSUME NodeAssumption == Nodes \cap {"none", "unknown", "busy"} = {}

VARIABLES
  vm,             \* Azure: the data disk list of each VM
  nodes,          \* Azure: the VMs that exist
  disks,          \* Azure: the managed disks that exist
  cache,          \* the VM cache entry of each node, or NoView
  attachDiskMap,  \* disks waiting for attach, per node
  detachDiskMap,  \* disks waiting for detach, per node
  lockMap,        \* holder of each node's lock
  diskStateMap,   \* keys of the attaching/detaching map
  hitMaxDataDiskCountCache, \* nodes that answered MaximumDataDiskExceeded
  pc,             \* where each thread is
  call,           \* arguments: diskURI, nodeName, disk as read, occupiedLuns
  diskMap,        \* the batch the thread took from the queue
  sent,           \* the LUNs it allocated, then the list its VM update carries
  result          \* LUN (or -1) and error of the call

azure == <<vm, nodes, disks>>
queues == <<attachDiskMap, detachDiskMap>>
locks == <<lockMap, diskStateMap>>
driver == <<queues, locks, hitMaxDataDiskCountCache>>
local == <<call, diskMap, sent, result>>
vars == <<azure, cache, driver, pc, local>>

(* Program points. At the ones of LockedPC the thread holds its node's     *)
(* lock; at the ones of AcceptedPC Azure has taken the thread's update and *)
(* the thread has not heard of it.                                         *)
SentPC == {"attachSent", "detachSent", "forceSent"}
AcceptedPC == {"attachAccepted", "detachAccepted", "forceAccepted"}
AttachLockedPC == {"attachLocked", "setLun", "vmAttach", "attachSent", "attachAccepted",
                   "attachRetry", "verifyAttach", "verifyBatched"}
DetachLockedPC == {"detachLocked", "vmDetach", "detachSent", "detachAccepted", "pollDetach",
                   "vmForce", "forceSent", "forceAccepted", "verifyDetach", "waitLocked"}
LockedPC == AttachLockedPC \cup DetachLockedPC \cup {"updateLocked"}
AttachPC == {"attach", "waitDetach", "attachLock", "updateLock", "updateLocked", "getLun"}
              \cup AttachLockedPC
DetachPC == {"detach", "detachLock", "waitManagedBy"} \cup DetachLockedPC
PCs == AttachPC \cup DetachPC \cup {"idle", "delete", "deleteGet", "deleteSend", "returned"}

Node(t) == call[t].node
Disk(t) == call[t].disk

Init ==
  /\ vm = [n \in Nodes |-> EmptyView] /\ nodes = Nodes /\ disks = Disks
  /\ cache = [n \in Nodes |-> NoView]
  /\ attachDiskMap = [n \in Nodes |-> {}] /\ detachDiskMap = [n \in Nodes |-> {}]
  /\ lockMap = [n \in Nodes |-> NoThread] /\ diskStateMap = {}
  /\ hitMaxDataDiskCountCache = {}
  /\ pc = [t \in Threads |-> "idle"] /\ call = [t \in Threads |-> NoCall]
  /\ diskMap = [t \in Threads |-> {}] /\ sent = [t \in Threads |-> EmptyView]
  /\ result = [t \in Threads |-> [lun |-> NoLun, err |-> "none"]]

-----------------------------------------------------------------------------
(* Azure, external: the nodes a disk is attached to (ManagedBy), the data  *)
(* disk lists a VM update may carry, and what the VM holds once the update *)
(* is accepted. A disk left out of the list is detached; a disk flagged    *)
(* ToBeDetached stays listed until its detach completes.                   *)
ManagedBy(d) == {n \in Nodes : vm[n].lun[d] # NoLun}

LunsDistinct(v) == \A d, e \in Listed(v) : v.lun[d] = v.lun[e] => d = e

Acceptable(n, v) ==
  /\ n \in nodes
  /\ Listed(v) \subseteq disks
  /\ LunsDistinct(v)
  /\ Cardinality(Listed(v)) <= MaxDataDisks
  /\ \A d \in Listed(v) \ (v.tbd \cup Shared) : ManagedBy(d) \subseteq {n}

Applied(n, v) ==
  [lun |-> [d \in Disks |-> IF d \in v.tbd /\ d \in Listed(v) THEN vm[n].lun[d] ELSE v.lun[d]],
   tbd |-> v.tbd \cap Listed(v) \cap Listed(vm[n])]

(* The VM cache (TimedCache, CacheReadTypeDefault): a cached entry is      *)
(* returned, a missing or expired one is fetched, which may fail.          *)
DataDisks(n) == IF cache[n] = NoView THEN vm[n] ELSE cache[n]

GetNodeDataDisks(n) ==
  /\ cache[n] # NoView \/ n \in nodes
  /\ cache' = [cache EXCEPT ![n] = DataDisks(n)]

GetNodeDataDisksFails(n) == cache[n] = NoView /\ UNCHANGED cache

DeleteCacheForNode(n) == cache' = [cache EXCEPT ![n] = NoView]

(* The entry's time to live runs out.                                      *)
ExpireCache(n) ==
  /\ cache[n] # NoView
  /\ DeleteCacheForNode(n)
  /\ UNCHANGED <<azure, driver, pc, local>>

(* Calling and returning. A return inside the locked region runs the       *)
(* deferred calls: forget the disk's state, release the node's lock. The   *)
(* state is kept under the *Disk object by AttachDisk and under the        *)
(* lower-cased URI by DetachDisk.                                          *)
Goto(t, label) == pc' = [pc EXCEPT ![t] = label]

Return(t, l, e) ==
  /\ Goto(t, "returned")
  /\ result' = [result EXCEPT ![t] = [lun |-> l, err |-> e]]
  /\ diskMap' = [diskMap EXCEPT ![t] = {}]
  /\ sent' = [sent EXCEPT ![t] = EmptyView]
  /\ UNCHANGED call

StateKey(t) == IF pc[t] \in AttachLockedPC THEN <<"object", t>> ELSE <<"uri", Disk(t)>>

(* Mutant: an error path forgets to release the node's lock.               *)
UnlockOnSuccess(t, l, e) ==
  /\ Return(t, l, e)
  /\ lockMap' = [lockMap EXCEPT ![Node(t)] = IF e = "error" THEN @ ELSE NoThread]
  /\ diskStateMap' = diskStateMap \ {StateKey(t)}
  /\ UNCHANGED queues

UnlockReturn(t, l, e) ==
  /\ Return(t, l, e)
  /\ lockMap' = [lockMap EXCEPT ![Node(t)] = NoThread]
  /\ diskStateMap' = diskStateMap \ {StateKey(t)}
  /\ UNCHANGED queues

(* Mutant: the lock is taken without waiting for its holder.               *)
LockEntryAnyway(t, from, to) ==
  /\ pc[t] = from
  /\ lockMap' = [lockMap EXCEPT ![Node(t)] = t]
  /\ Goto(t, to)
  /\ UNCHANGED <<azure, cache, queues, diskStateMap, hitMaxDataDiskCountCache, local>>

LockEntry(t, from, to) ==
  /\ pc[t] = from
  /\ lockMap[Node(t)] = NoThread
  /\ lockMap' = [lockMap EXCEPT ![Node(t)] = t]
  /\ Goto(t, to)
  /\ UNCHANGED <<azure, cache, queues, diskStateMap, hitMaxDataDiskCountCache, local>>

Call(t, label, arguments) ==
  /\ pc[t] = "idle"
  /\ Goto(t, label)
  /\ call' = [call EXCEPT ![t] = arguments]
  /\ UNCHANGED <<azure, cache, driver, diskMap, sent, result>>

Finish(t) ==
  /\ pc[t] = "returned"
  /\ Goto(t, "idle")
  /\ call' = [call EXCEPT ![t] = NoCall]
  /\ result' = [result EXCEPT ![t] = [lun |-> NoLun, err |-> "none"]]
  /\ UNCHANGED <<azure, cache, driver, diskMap, sent>>

-----------------------------------------------------------------------------
(* AttachDisk. What checkDiskExists may hand over: the ManagedBy of the    *)
(* disk, a state other than Unattached, or nothing when GetDisk is         *)
(* throttled.                                                              *)
DiskSeen(d) ==
  {"unknown"} \cup (IF d \notin disks THEN {}
                    ELSE IF ManagedBy(d) = {} THEN {"none", "busy"} ELSE ManagedBy(d))

CallAttachDisk(t, d, n) ==
  \E s \in DiskSeen(d), o \in OccupiedLuns :
    Call(t, "attach", [op |-> "attach", disk |-> d, node |-> n, seen |-> s, occupied |-> o])

(* The disk was on this node already: refresh the VM and look up the LUN.  *)
AttachedToThisNode(t) ==
  /\ pc[t] = "attach"
  /\ Disk(t) \notin Shared /\ call[t].seen = Node(t)
  /\ Goto(t, "updateLock")
  /\ UNCHANGED <<azure, cache, driver, local>>

(* The disk was on another node (dangling), or not in state Unattached, or *)
(* the node it was on cannot be told.                                      *)
AttachRefused(t) ==
  /\ pc[t] = "attach"
  /\ Disk(t) \notin Shared
  /\ \/ call[t].seen \in Nodes \ {Node(t)} /\ Return(t, NoLun, "dangling")
     \/ call[t].seen \in Nodes \cup {"busy"} /\ Return(t, NoLun, "error")
  /\ UNCHANGED <<azure, cache, driver>>

(* The cache's getter returns (nil, nil), so that Get never fails, whether *)
(* or not the node's entry was set.                                        *)
isMaxDataDiskCountExceeded(n) ==
  LET get == [data |-> n \in hitMaxDataDiskCountCache, err |-> FALSE]
  IN ~get.err

batchAttachDiskRequest(t) ==
  /\ pc[t] = "attach"
  /\ Disk(t) \in Shared \/ call[t].seen \in {"none", "unknown"}
  /\ attachDiskMap' = [attachDiskMap EXCEPT ![Node(t)] = @ \cup {Disk(t)}]
  /\ Goto(t, IF WaitForDetach /\ isMaxDataDiskCountExceeded(Node(t))
             THEN "waitDetach" ELSE "attachLock")
  /\ UNCHANGED <<azure, cache, detachDiskMap, locks, hitMaxDataDiskCountCache, local>>

(* Poll until no detach waits on the node, for 30 seconds at most: the     *)
(* time-out is only logged.                                                *)
WaitForDetachRequests(t) ==
  /\ pc[t] = "waitDetach"
  /\ Goto(t, "attachLock")
  /\ UNCHANGED <<azure, cache, driver, local>>

(* The number of disks the VM still takes. It is not counted when the flag *)
(* is off, the node's labels cannot be read or its VM size is unknown.     *)
numDisksAllowed(n) ==
  LET attached == Cardinality(Listed(DataDisks(n)))
  IN IF attached < MaxDataDisks THEN MaxDataDisks - attached ELSE 0

MayCount == IF CheckDiskCountForBatching THEN BOOLEAN ELSE {FALSE}

CountDisks(n, counted) == IF counted THEN GetNodeDataDisks(n) ELSE UNCHANGED cache

(* Counting the node's disks fails: the request stays in the queue.        *)
CountDisksFails(t) ==
  /\ pc[t] = "attachLocked"
  /\ CheckDiskCountForBatching
  /\ GetNodeDataDisksFails(Node(t))
  /\ UnlockReturn(t, NoLun, "error")
  /\ UNCHANGED <<azure, hitMaxDataDiskCountCache>>

(* Another request's batch took the disk: only look whether it is there.   *)
AttachBatchedAlready(t) ==
  /\ pc[t] = "attachLocked"
  /\ \E counted \in MayCount : CountDisks(Node(t), counted)
  /\ Disk(t) \notin attachDiskMap[Node(t)]
  /\ Goto(t, "verifyBatched")
  /\ UNCHANGED <<azure, driver, local>>

(* Take the whole queue; of the disks above the allowed number any may be  *)
(* dropped, the caller's own included (the map is walked in random order). *)
BatchKept(n, counted, keep) ==
  LET queue == attachDiskMap[n]
  IN IF counted /\ Cardinality(queue) > numDisksAllowed(n)
     THEN keep \subseteq queue /\ Cardinality(keep) = numDisksAllowed(n)
     ELSE keep = queue

(* Mutant: the queue is read and not emptied.                              *)
peekAttachBatchedDiskRequests(t) ==
  /\ pc[t] = "attachLocked"
  /\ Disk(t) \in attachDiskMap[Node(t)]
  /\ diskMap' = [diskMap EXCEPT ![t] = attachDiskMap[Node(t)]]
  /\ Goto(t, "setLun")
  /\ UNCHANGED <<azure, cache, driver, call, sent, result>>

retrieveAttachBatchedDiskRequests(t) ==
  /\ pc[t] = "attachLocked"
  /\ Disk(t) \in attachDiskMap[Node(t)]
  /\ \E counted \in MayCount, keep \in SUBSET attachDiskMap[Node(t)] :
       /\ CountDisks(Node(t), counted)
       /\ BatchKept(Node(t), counted, keep)
       /\ diskMap' = [diskMap EXCEPT ![t] = keep]
  /\ attachDiskMap' = [attachDiskMap EXCEPT ![Node(t)] = {}]
  /\ Goto(t, "setLun")
  /\ UNCHANGED <<azure, detachDiskMap, locks, hitMaxDataDiskCountCache, call, sent, result>>

(* Mutants: LUNs of the VM's disks are taken for free; the table of used   *)
(* LUNs is one entry too long.                                             *)
UnoccupiedLuns(t) == LUNs \ call[t].occupied

FreeLunsPastMax(t) ==
  LET v == DataDisks(Node(t))
  IN (0 .. MaxLUN) \ ({v.lun[d] : d \in Listed(v)} \cup call[t].occupied)

(* The lowest LUNs that neither the VM nor a VolumeAttachment uses, one    *)
(* for each disk of the batch.                                             *)
FreeLuns(t) ==
  LET v == DataDisks(Node(t))
  IN LUNs \ ({v.lun[d] : d \in Listed(v)} \cup call[t].occupied)

diskLuns(t) ==
  {l \in FreeLuns(t) : Cardinality({m \in FreeLuns(t) : m < l}) < Cardinality(diskMap[t])}

(* SetDiskLun fails when the VM cannot be read, when the caller's disk is  *)
(* neither in the batch nor on the VM, or when too few LUNs are free. The  *)
(* batch is lost with it.                                                  *)
SetDiskLunFails(t) ==
  /\ pc[t] = "setLun"
  /\ \/ GetNodeDataDisksFails(Node(t))
     \/ /\ GetNodeDataDisks(Node(t))
        /\ \/ Disk(t) \notin diskMap[t] \cup Listed(DataDisks(Node(t)))
           \/ Cardinality(diskLuns(t)) # Cardinality(diskMap[t])
  /\ UnlockReturn(t, NoLun, "error")
  /\ UNCHANGED <<azure, hitMaxDataDiskCountCache>>

(* The LUNs go to the disks in the random order of the map.                *)
SetDiskLun(t) ==
  /\ pc[t] = "setLun"
  /\ GetNodeDataDisks(Node(t))
  /\ Disk(t) \in diskMap[t] \cup Listed(DataDisks(Node(t)))
  /\ \E f \in [diskMap[t] -> diskLuns(t)] :
       /\ \A d, e \in diskMap[t] : f[d] = f[e] => d = e
       /\ sent' = [sent EXCEPT ![t] =
            [lun |-> [d \in Disks |-> IF d \in diskMap[t] THEN f[d] ELSE NoLun], tbd |-> {}]]
  /\ Goto(t, "vmAttach")
  /\ UNCHANGED <<azure, driver, call, diskMap, result>>

(* Mutants: the list names the batch alone; the ToBeDetached flags of the  *)
(* VM's disks are not carried over.                                        *)
BatchList(t) == sent[t]

UnflaggedList(t) ==
  LET v == DataDisks(Node(t))
  IN [lun |-> [d \in Disks |-> IF d \in Listed(v) THEN v.lun[d] ELSE sent[t].lun[d]],
      tbd |-> {}]

(* From here on the disk counts as attaching. ScaleSet.AttachDisk: the     *)
(* VM's list with the batch added to it. A disk of the batch that is on    *)
(* the VM at another LUN fails the whole update.                           *)
AttachList(t) ==
  LET v == DataDisks(Node(t))
  IN [lun |-> [d \in Disks |-> IF d \in Listed(v) THEN v.lun[d] ELSE sent[t].lun[d]],
      tbd |-> v.tbd]

LunConflict(t) ==
  \E d \in diskMap[t] \cap Listed(DataDisks(Node(t))) :
    DataDisks(Node(t)).lun[d] # sent[t].lun[d]

VMAttach(t) ==
  /\ pc[t] = "vmAttach"
  /\ GetNodeDataDisks(Node(t))
  /\ ~LunConflict(t)
  /\ sent' = [sent EXCEPT ![t] = AttachList(t)]
  /\ diskStateMap' = diskStateMap \cup {<<"object", t>>}
  /\ Goto(t, "attachSent")
  /\ UNCHANGED <<azure, queues, lockMap, hitMaxDataDiskCountCache, call, diskMap, result>>

(* The node's VM set cannot be told: the only error of the locked region   *)
(* that leaves the VM cache as it is.                                      *)
GetNodeVMSetFails(t) ==
  /\ \/ pc[t] \in {"updateLock", "detach"} /\ Return(t, NoLun, "error") /\ UNCHANGED driver
     \/ /\ pc[t] = "vmAttach"
        /\ UnlockReturn(t, NoLun, "error")
        /\ UNCHANGED hitMaxDataDiskCountCache
  /\ UNCHANGED <<azure, cache>>

(* Mutant: a failed attach leaves the VM cache as it is.                   *)
AttachFailsKeepsCache(t) ==
  /\ \/ pc[t] = "vmAttach" /\ (cache[Node(t)] = NoView \/ LunConflict(t))
     \/ pc[t] \in {"attachSent", "attachAccepted"}
  /\ UnlockReturn(t, NoLun, "error")
  /\ UNCHANGED <<azure, cache, hitMaxDataDiskCountCache>>

(* The update fails before it is sent, is refused, or is accepted and its  *)
(* answer lost: every error of AttachDisk invalidates the VM cache. A list *)
(* longer than the VM size allows is remembered.                           *)
AttachFails(t) ==
  /\ \/ pc[t] = "vmAttach" /\ (cache[Node(t)] = NoView \/ LunConflict(t))
     \/ pc[t] \in {"attachSent", "attachAccepted"}
  /\ DeleteCacheForNode(Node(t))
  /\ UnlockReturn(t, NoLun, "error")
  /\ UNCHANGED <<azure, hitMaxDataDiskCountCache>>

AttachHitsMax(t) ==
  /\ pc[t] = "attachSent"
  /\ Cardinality(Listed(sent[t])) > MaxDataDisks
  /\ hitMaxDataDiskCountCache' = hitMaxDataDiskCountCache \cup {Node(t)}
  /\ DeleteCacheForNode(Node(t))
  /\ UnlockReturn(t, NoLun, "error")
  /\ UNCHANGED azure

(* OperationPreempted: an empty VM update is sent, to drive the VM to what *)
(* Azure has accepted.                                                     *)
AttachPreempted(t) ==
  /\ pc[t] \in {"attachSent", "attachAccepted"}
  /\ DeleteCacheForNode(Node(t))
  /\ Goto(t, "attachRetry")
  /\ UNCHANGED <<azure, driver, local>>

AttachRetry(t) ==
  /\ pc[t] = "attachRetry"
  /\ \/ /\ GetNodeDataDisks(Node(t))
        /\ Goto(t, "verifyAttach")
        /\ UNCHANGED <<driver, local>>
     \/ /\ DeleteCacheForNode(Node(t))
        /\ UnlockReturn(t, NoLun, "error")
        /\ UNCHANGED hitMaxDataDiskCountCache
  /\ UNCHANGED azure

(* The answer carries the updated VM, which replaces the cache entry.      *)
AttachSucceeds(t) ==
  /\ pc[t] = "attachAccepted"
  /\ cache' = [cache EXCEPT ![Node(t)] = vm[Node(t)]]
  /\ Goto(t, "verifyAttach")
  /\ UNCHANGED <<azure, driver, local>>

(* GetDiskLun finds a disk that is on the list and not being detached.     *)
HasLun(v, d) == d \in Listed(v) \ v.tbd

(* Mutant: a disk that is listed counts as attached, ToBeDetached or not.  *)
verifyListed(t) ==
  LET v == DataDisks(Node(t))
  IN /\ pc[t] \in {"verifyAttach", "verifyBatched"}
     /\ GetNodeDataDisks(Node(t))
     /\ IF Disk(t) \in Listed(v) THEN UnlockReturn(t, v.lun[Disk(t)], "none")
                                 ELSE UnlockReturn(t, NoLun, "error")
     /\ UNCHANGED <<azure, hitMaxDataDiskCountCache>>

(* verifyAttach: by the leader of a batch, whose error invalidates the     *)
(* cache, and by a request that found its disk in another's batch.         *)
verifyAttach(t) ==
  LET v == DataDisks(Node(t))
      missing == IF pc[t] = "verifyAttach" THEN NoView ELSE v
  IN /\ pc[t] \in {"verifyAttach", "verifyBatched"}
     /\ \/ /\ GetNodeDataDisks(Node(t))
           /\ HasLun(v, Disk(t))
           /\ UnlockReturn(t, v.lun[Disk(t)], "none")
        \/ /\ cache[Node(t)] # NoView \/ Node(t) \in nodes
           /\ ~HasLun(v, Disk(t))
           /\ cache' = [cache EXCEPT ![Node(t)] = missing]
           /\ UnlockReturn(t, NoLun, "error")
        \/ /\ GetNodeDataDisksFails(Node(t))
           /\ UnlockReturn(t, NoLun, "error")
     /\ UNCHANGED <<azure, hitMaxDataDiskCountCache>>

(* UpdateVM, under the node's lock, invalidates the cache whatever Azure   *)
(* answers; the LUN is then read without the lock.                         *)
UpdateVM(t) ==
  /\ pc[t] = "updateLocked"
  /\ DeleteCacheForNode(Node(t))
  /\ lockMap' = [lockMap EXCEPT ![Node(t)] = NoThread]
  /\ \/ Goto(t, "getLun") /\ UNCHANGED local
     \/ Return(t, NoLun, "error")
  /\ UNCHANGED <<azure, queues, diskStateMap, hitMaxDataDiskCountCache>>

GetDiskLun(t) ==
  LET v == DataDisks(Node(t))
  IN /\ pc[t] = "getLun"
     /\ \/ GetNodeDataDisksFails(Node(t)) /\ Return(t, NoLun, "error")
        \/ /\ GetNodeDataDisks(Node(t))
           /\ IF HasLun(v, Disk(t)) THEN Return(t, v.lun[Disk(t)], "none")
                                    ELSE Return(t, NoLun, "error")
     /\ UNCHANGED <<azure, driver>>

-----------------------------------------------------------------------------
(* DetachDisk. cloud.InstanceID finds the VM, perhaps in a cache, or       *)
(* reports it gone.                                                        *)
CallDetachDisk(t, d, n) ==
  \E label \in {"detach", "waitManagedBy"} :
    /\ label = "waitManagedBy" => n \notin nodes
    /\ Call(t, label, [op |-> "detach", disk |-> d, node |-> n, seen |-> "unknown", occupied |-> {}])

batchDetachDiskRequest(t) ==
  /\ pc[t] = "detach"
  /\ detachDiskMap' = [detachDiskMap EXCEPT ![Node(t)] = @ \cup {Disk(t)}]
  /\ Goto(t, "detachLock")
  /\ UNCHANGED <<azure, cache, attachDiskMap, locks, hitMaxDataDiskCountCache, local>>

(* Mutant: the queue is read and not emptied.                              *)
peekDetachBatchedDiskRequests(t) ==
  /\ pc[t] = "detachLocked"
  /\ Disk(t) \in detachDiskMap[Node(t)]
  /\ diskMap' = [diskMap EXCEPT ![t] = detachDiskMap[Node(t)]]
  /\ diskStateMap' = diskStateMap \cup {<<"uri", Disk(t)>>}
  /\ Goto(t, "vmDetach")
  /\ UNCHANGED <<azure, cache, queues, lockMap, hitMaxDataDiskCountCache, call, sent, result>>

(* Take the whole queue, or find that another batch has taken the disk.    *)
(* Only the caller's own disk counts as detaching.                         *)
retrieveDetachBatchedDiskRequests(t) ==
  /\ pc[t] = "detachLocked"
  /\ IF Disk(t) \in detachDiskMap[Node(t)]
     THEN /\ diskMap' = [diskMap EXCEPT ![t] = detachDiskMap[Node(t)]]
          /\ detachDiskMap' = [detachDiskMap EXCEPT ![Node(t)] = {}]
          /\ diskStateMap' = diskStateMap \cup {<<"uri", Disk(t)>>}
          /\ Goto(t, "vmDetach")
     ELSE /\ Goto(t, "verifyDetach")
          /\ UNCHANGED <<diskMap, detachDiskMap, diskStateMap>>
  /\ UNCHANGED <<azure, cache, attachDiskMap, lockMap, hitMaxDataDiskCountCache,
                 call, sent, result>>

(* ScaleSet.DetachDisk, without and with force: flag the batch's disks     *)
(* ToBeDetached in the VM's list, in place (the list shares its entries    *)
(* with the cache), and send it. With none of them on the VM the update is *)
(* skipped and the call succeeds.                                          *)
DetachList(t) ==
  LET v == DataDisks(Node(t))
  IN [lun |-> v.lun, tbd |-> v.tbd \cup (diskMap[t] \cap Listed(v))]

VMDetach(t) ==
  /\ pc[t] \in {"vmDetach", "vmForce"}
  /\ cache[Node(t)] # NoView \/ Node(t) \in nodes
  /\ cache' = [cache EXCEPT ![Node(t)] = DetachList(t)]
  /\ IF diskMap[t] \cap Listed(DataDisks(Node(t))) = {}
     THEN Goto(t, "verifyDetach") /\ UNCHANGED sent
     ELSE /\ Goto(t, IF pc[t] = "vmDetach" THEN "detachSent" ELSE "forceSent")
          /\ sent' = [sent EXCEPT ![t] = DetachList(t)]
  /\ UNCHANGED <<azure, driver, call, diskMap, result>>

DetachSucceeds(t) ==
  /\ pc[t] \in {"detachAccepted", "forceAccepted"}
  /\ cache' = [cache EXCEPT ![Node(t)] = vm[Node(t)]]
  /\ Goto(t, "verifyDetach")
  /\ UNCHANGED <<azure, driver, local>>

(* The VM is gone, or Azure answers 404 for a disk of the list that does   *)
(* not exist: isInstanceNotFoundError does not tell them apart.            *)
DetachInstanceNotFound(t) ==
  /\ \/ pc[t] = "vmDetach" /\ cache[Node(t)] = NoView /\ Node(t) \notin nodes
     \/ /\ pc[t] = "detachSent"
        /\ Node(t) \notin nodes \/ ~(Listed(sent[t]) \subseteq disks)
  /\ DeleteCacheForNode(Node(t))
  /\ Goto(t, "waitLocked")
  /\ UNCHANGED <<azure, driver, local>>

(* DataDisksForceDetached (another force detach went first): look at the   *)
(* VM. DeadlineExceeded (vmssDetachTimeout): poll the VM.                  *)
DetachInterrupted(t) ==
  /\ pc[t] \in {"detachSent", "detachAccepted"}
  /\ DeleteCacheForNode(Node(t))
  /\ Goto(t, "verifyDetach") \/ Goto(t, "pollDetach")
  /\ UNCHANGED <<azure, driver, local>>

(* What follows an error that remains: a force detach of the same batch,   *)
(* or the end of the call.                                                 *)
ForceOrFail(t) ==
  IF ForceDetachBackoff
  THEN Goto(t, "vmForce") /\ UNCHANGED <<driver, local>>
  ELSE UnlockReturn(t, NoLun, "error") /\ UNCHANGED hitMaxDataDiskCountCache

DetachFails(t) ==
  /\ \/ pc[t] \in {"detachSent", "detachAccepted"}
     \/ pc[t] = "vmDetach" /\ cache[Node(t)] = NoView
  /\ DeleteCacheForNode(Node(t))
  /\ ForceOrFail(t)
  /\ UNCHANGED azure

ForceDetachFails(t) ==
  /\ \/ pc[t] \in {"forceSent", "forceAccepted"}
     \/ pc[t] = "vmForce" /\ cache[Node(t)] = NoView
  /\ DeleteCacheForNode(Node(t))
  /\ UnlockReturn(t, NoLun, "error")
  /\ UNCHANGED <<azure, hitMaxDataDiskCountCache>>

(* pollForDetachCompletion: each poll drops the cache and reads the VM,    *)
(* until the disk is gone from it.                                         *)
pollForDetachCompletion(t) ==
  /\ pc[t] = "pollDetach"
  /\ Node(t) \in nodes
  /\ cache' = [cache EXCEPT ![Node(t)] = vm[Node(t)]]
  /\ IF Disk(t) \in Listed(vm[Node(t)]) THEN UNCHANGED pc ELSE Goto(t, "verifyDetach")
  /\ UNCHANGED <<azure, driver, local>>

(* The back-off is spent, detachCtx expires or the VM cannot be read.      *)
PollGivesUp(t) ==
  /\ pc[t] = "pollDetach"
  /\ DeleteCacheForNode(Node(t)) \/ UNCHANGED cache
  /\ ForceOrFail(t)
  /\ UNCHANGED azure

(* Mutant: a disk that is still ToBeDetached counts as detached.           *)
verifyDetachBegun(t) ==
  /\ pc[t] = "verifyDetach"
  /\ GetNodeDataDisks(Node(t))
  /\ UnlockReturn(t, NoLun, IF HasLun(DataDisks(Node(t)), Disk(t)) THEN "error" ELSE "none")
  /\ UNCHANGED <<azure, hitMaxDataDiskCountCache>>

(* verifyDetach succeeds only on CannotFindDiskLUN: a disk that is still   *)
(* ToBeDetached is an error ("detach in progress").                        *)
verifyDetach(t) ==
  /\ pc[t] = "verifyDetach"
  /\ \/ GetNodeDataDisksFails(Node(t)) /\ UnlockReturn(t, NoLun, "error")
     \/ /\ GetNodeDataDisks(Node(t))
        /\ UnlockReturn(t, NoLun,
             IF Disk(t) \in Listed(DataDisks(Node(t))) THEN "error" ELSE "none")
  /\ UNCHANGED <<azure, hitMaxDataDiskCountCache>>

(* waitForDiskManagedByTobeRemoved: with the node's lock when the update   *)
(* found the VM gone, without it when the call did.                        *)
waitForDiskManagedByTobeRemoved(t) ==
  /\ pc[t] \in {"waitLocked", "waitManagedBy"}
  /\ \E e \in {"none", "error"} :
       /\ e = "none" =>
            ~WaitForDetachDiskComplete \/ (Disk(t) \in disks /\ Node(t) \notin ManagedBy(Disk(t)))
       /\ e = "error" => WaitForDetachDiskComplete
       /\ IF pc[t] = "waitLocked"
          THEN UnlockReturn(t, NoLun, e)
          ELSE Return(t, NoLun, e) /\ UNCHANGED <<queues, locks>>
  /\ UNCHANGED <<azure, cache, hitMaxDataDiskCountCache>>

-----------------------------------------------------------------------------
(* DeleteManagedDisk: refuse a disk whose URI is in diskStateMap or that   *)
(* has a ManagedBy, then delete it. Azure refuses to delete an attached    *)
(* disk.                                                                   *)
CallDeleteManagedDisk(t, d, n) ==
  Call(t, "delete", [op |-> "delete", disk |-> d, node |-> n, seen |-> "unknown", occupied |-> {}])

CheckDiskState(t) ==
  /\ pc[t] = "delete"
  /\ IF <<"uri", Disk(t)>> \in diskStateMap
     THEN Return(t, NoLun, "error")
     ELSE Goto(t, "deleteGet") /\ UNCHANGED local
  /\ UNCHANGED <<azure, cache, driver>>

GetManagedDisk(t) ==
  /\ pc[t] = "deleteGet"
  /\ \/ Return(t, NoLun, "error")
     \/ Disk(t) \notin disks /\ Return(t, NoLun, "none")
     \/ /\ Disk(t) \in disks /\ ManagedBy(Disk(t)) = {}
        /\ Goto(t, "deleteSend")
        /\ UNCHANGED local
  /\ UNCHANGED <<azure, cache, driver>>

DeleteManagedDisk(t) ==
  /\ pc[t] = "deleteSend"
  /\ \/ /\ ManagedBy(Disk(t)) = {}
        /\ disks' = disks \ {Disk(t)}
        /\ Return(t, NoLun, "none")
     \/ UNCHANGED disks /\ Return(t, NoLun, "error")
  /\ UNCHANGED <<vm, nodes, cache, driver>>

-----------------------------------------------------------------------------
(* Azure's side of a VM update, and what else happens to the system.       *)
Accept(t, from, to) ==
  /\ pc[t] = from
  /\ Acceptable(Node(t), sent[t])
  /\ vm' = [vm EXCEPT ![Node(t)] = Applied(Node(t), sent[t])]
  /\ Goto(t, to)
  /\ UNCHANGED <<nodes, disks, cache, driver, local>>

(* Azure answers 404: the update is sent again without the disks that do   *)
(* not exist.                                                              *)
FilterNonExistingDisks(t) ==
  /\ pc[t] \in SentPC
  /\ Node(t) \in nodes
  /\ ~(Listed(sent[t]) \subseteq disks)
  /\ sent' = [sent EXCEPT ![t] =
       [lun |-> [d \in Disks |-> IF d \in disks THEN sent[t].lun[d] ELSE NoLun],
        tbd |-> sent[t].tbd]]
  /\ UNCHANGED <<azure, cache, driver, pc, call, diskMap, result>>

(* A detach in progress completes.                                         *)
DetachCompletes(n, d) ==
  /\ d \in vm[n].tbd
  /\ vm' = [vm EXCEPT ![n] = [lun |-> [vm[n].lun EXCEPT ![d] = NoLun],
                              tbd |-> vm[n].tbd \ {d}]]
  /\ UNCHANGED <<nodes, disks, cache, driver, pc, local>>

(* A VM is deleted; the ManagedBy of its disks is cleared some time later. *)
DeleteVM(n) ==
  /\ n \in nodes \cap Removable
  /\ nodes' = nodes \ {n}
  /\ vm' = [vm EXCEPT ![n] = [lun |-> vm[n].lun, tbd |-> Listed(vm[n])]]
  /\ UNCHANGED <<disks, cache, driver, pc, local>>

(* The controller restarts: everything it kept in memory is lost.          *)
Restart ==
  /\ cache' = [n \in Nodes |-> NoView]
  /\ attachDiskMap' = [n \in Nodes |-> {}] /\ detachDiskMap' = [n \in Nodes |-> {}]
  /\ lockMap' = [n \in Nodes |-> NoThread] /\ diskStateMap' = {}
  /\ hitMaxDataDiskCountCache' = {}
  /\ pc' = [t \in Threads |-> "idle"] /\ call' = [t \in Threads |-> NoCall]
  /\ diskMap' = [t \in Threads |-> {}] /\ sent' = [t \in Threads |-> EmptyView]
  /\ result' = [t \in Threads |-> [lun |-> NoLun, err |-> "none"]]
  /\ UNCHANGED azure

-----------------------------------------------------------------------------
CallStep(t) ==
  \/ \E d \in Disks, n \in Nodes : CallAttachDisk(t, d, n) \/ CallDetachDisk(t, d, n)
  \/ \E d \in Deletable, n \in Nodes : CallDeleteManagedDisk(t, d, n)
  \/ Finish(t)

Lock(t) ==
  \/ LockEntry(t, "attachLock", "attachLocked")
  \/ LockEntry(t, "detachLock", "detachLocked")
  \/ LockEntry(t, "updateLock", "updateLocked")

AttachStep(t) ==
  \/ AttachedToThisNode(t) \/ AttachRefused(t) \/ batchAttachDiskRequest(t)
  \/ WaitForDetachRequests(t) \/ CountDisksFails(t) \/ AttachBatchedAlready(t)
  \/ retrieveAttachBatchedDiskRequests(t) \/ SetDiskLunFails(t) \/ SetDiskLun(t)
  \/ VMAttach(t) \/ AttachFails(t) \/ AttachHitsMax(t) \/ AttachPreempted(t)
  \/ AttachRetry(t) \/ AttachSucceeds(t) \/ verifyAttach(t) \/ UpdateVM(t) \/ GetDiskLun(t)

DetachStep(t) ==
  \/ batchDetachDiskRequest(t) \/ retrieveDetachBatchedDiskRequests(t) \/ VMDetach(t)
  \/ DetachSucceeds(t) \/ DetachInstanceNotFound(t) \/ DetachInterrupted(t)
  \/ DetachFails(t) \/ ForceDetachFails(t) \/ pollForDetachCompletion(t)
  \/ PollGivesUp(t) \/ verifyDetach(t) \/ waitForDiskManagedByTobeRemoved(t)

DeleteStep(t) == CheckDiskState(t) \/ GetManagedDisk(t) \/ DeleteManagedDisk(t)

AzureUpdate(t) ==
  \/ Accept(t, "attachSent", "attachAccepted")
  \/ Accept(t, "detachSent", "detachAccepted")
  \/ Accept(t, "forceSent", "forceAccepted")
  \/ FilterNonExistingDisks(t)

NodeStep(n) == DeleteVM(n) \/ ExpireCache(n) \/ \E d \in Disks : DetachCompletes(n, d)

ThreadStep(t) ==
  \/ CallStep(t) \/ Lock(t) \/ GetNodeVMSetFails(t) \/ AttachStep(t) \/ DetachStep(t)
  \/ DeleteStep(t) \/ AzureUpdate(t)

Next ==
  \/ \E t \in Threads : ThreadStep(t)
  \/ \E n \in Nodes : NodeStep(n)
  \/ Restart

Spec == Init /\ [][Next]_vars

(* A request goroutine keeps running: every answer it waits for comes, if  *)
(* only as an error at its context's deadline. sync.Mutex starves nobody,  *)
(* and the back-off of a poll has a last step.                             *)
Advance(t) == GetNodeVMSetFails(t) \/ AttachStep(t) \/ DetachStep(t) \/ DeleteStep(t)

Fairness ==
  \A t \in Threads :
    WF_vars(Advance(t)) /\ SF_vars(Lock(t)) /\ WF_vars(PollGivesUp(t))

FairSpec == Spec /\ Fairness

-----------------------------------------------------------------------------
Calls == [op : {"attach", "detach", "delete"}, disk : Disks, node : Nodes,
          seen : Nodes \cup {"none", "unknown", "busy"}, occupied : SUBSET LUNs]
Results == [lun : LUNs \cup {NoLun}, err : {"none", "error", "dangling"}]

(* NoCall stands for no call, no request and no answer.                    *)
Requests == [op : {"attach", "detach"}, disk : Disks, node : Nodes]

ASSUME CallAssumption == NoCall \notin Calls \cup Requests \cup Results

AzureTypeOK == vm \in [Nodes -> Views] /\ nodes \subseteq Nodes /\ disks \subseteq Disks

CacheTypeOK == cache \in [Nodes -> Views \cup {NoView}]

DriverTypeOK ==
  /\ attachDiskMap \in [Nodes -> SUBSET Disks] /\ detachDiskMap \in [Nodes -> SUBSET Disks]
  /\ lockMap \in [Nodes -> Threads \cup {NoThread}]
  /\ diskStateMap \subseteq ({"object"} \X Threads) \cup ({"uri"} \X Disks)
  /\ hitMaxDataDiskCountCache \subseteq Nodes

ThreadTypeOK ==
  /\ pc \in [Threads -> PCs]
  /\ call \in [Threads -> Calls \cup {NoCall}]
  /\ \A t \in Threads : pc[t] # "idle" => call[t] \in Calls
  /\ diskMap \in [Threads -> SUBSET Disks] /\ sent \in [Threads -> Views]
  /\ result \in [Threads -> Results]

(* Every variable of the controller has its type; a thread that serves a   *)
(* call has the call's arguments, and every LUN it handles is one of the   *)
(* VM's (the array of used LUNs in SetDiskLun).                            *)
TypeOK == AzureTypeOK /\ CacheTypeOK /\ DriverTypeOK /\ ThreadTypeOK

(* The node's lock and the threads inside the locked region of AttachDisk, *)
(* DetachDisk and UpdateVM name each other, so that a node has at most one *)
(* VM update under way (lockMap.LockEntry(node) in the three functions).   *)
LockHeld ==
  /\ \A t \in Threads : pc[t] \in LockedPC => lockMap[Node(t)] = t
  /\ \A n \in Nodes : lockMap[n] # NoThread => pc[lockMap[n]] \in LockedPC /\ Node(lockMap[n]) = n

(* While no accepted update of the node awaits its answer, the VM cache    *)
(* knows every disk on the VM at its LUN, and a disk it knows without the  *)
(* ToBeDetached flag is on the VM, if that exists, and stays: the cache    *)
(* the next LUNs and the next data disk list are computed from is never    *)
(* stale in a way that matters (updateCache and DeleteCacheForNode after   *)
(* every VM update).                                                       *)
Quiet(n) == \A t \in Threads : pc[t] \in AcceptedPC => Node(t) # n

CacheHonest ==
  \A n \in Nodes : Quiet(n) /\ cache[n] # NoView =>
    /\ \A d \in Listed(vm[n]) : cache[n].lun[d] = vm[n].lun[d]
    /\ n \in nodes => \A d \in Disks : HasLun(cache[n], d) => HasLun(vm[n], d)

(* A VM update never asks for one LUN twice: the LUNs SetDiskLun allocates *)
(* are still free when ScaleSet.AttachDisk reads the VM again.             *)
UpdateLunsDistinct ==
  \A t \in Threads : pc[t] \in SentPC => LunsDistinct(sent[t])

Attaching(d, n) == \E t \in Threads : pc[t] \in AttachPC /\ Disk(t) = d /\ Node(t) = n
Detaching(d, n) == \E t \in Threads : pc[t] \in DetachPC /\ Disk(t) = d /\ Node(t) = n

(* A call of AttachDisk that returns a LUN leaves the disk on the VM at    *)
(* that LUN, and staying there, unless the disk is being detached from the *)
(* node at the same time or the VM is gone (verifyAttach, GetDiskLun).     *)
Returns(t) == pc[t] # "returned" /\ pc'[t] = "returned"

AttachReturnsLun ==
  [][\A t \in Threads :
       /\ Returns(t) /\ pc[t] \in AttachPC /\ result'[t].err = "none"
       /\ Node(t) \in nodes /\ ~Detaching(Disk(t), Node(t))
       => /\ result'[t].lun = vm[Node(t)].lun[Disk(t)]
          /\ HasLun(vm[Node(t)], Disk(t))]_vars

(* A call of DetachDisk that returns no error leaves the disk off the VM   *)
(* (verifyDetach, waitForDiskManagedByTobeRemoved).                        *)
DetachReturnsDetached ==
  [][\A t \in Threads :
       Returns(t) /\ pc[t] \in DetachPC /\ result'[t].err = "none"
         => Disk(t) \notin Listed(vm[Node(t)])]_vars

(* A VM update never disturbs the other disks of the VM: a disk leaves a   *)
(* VM only by a detach, and never moves to another LUN while it is on it   *)
(* (AttachDisk and DetachDisk of the vmset send the whole list).           *)
DisksUndisturbed ==
  [][\A n \in Nodes : \A d \in Listed(vm[n]) :
       \/ vm'[n].lun[d] = vm[n].lun[d]
       \/ vm'[n].lun[d] = NoLun /\ d \in vm[n].tbd]_vars

(* A disk is flagged ToBeDetached on a VM only while a DetachDisk for it   *)
(* and the node is under way, however requests were batched.               *)
OnlyRequestedDetached ==
  [][\A n \in nodes' : \A d \in vm'[n].tbd \ vm[n].tbd : Detaching(d, n)]_vars

(* attachDiskMap, "disk queue that is waiting for attach or detach on      *)
(* specific node": a disk in it has a request that waits.                  *)
QueueIsWaiting ==
  \A n \in Nodes : \A d \in attachDiskMap[n] : Attaching(d, n)

(* Every call returns, unless the controller restarts: no error path keeps *)
(* a node's lock, and nobody waits for a thread that waits for him.        *)
CallReturns ==
  \A t \in Threads : pc[t] # "idle" ~> pc[t] \in {"returned", "idle"}

-----------------------------------------------------------------------------
(* The controller implements DiskPlacement: batches, locks and caches do   *)
(* not show in what happens to the disks and in what the calls answer.     *)
(* Calls of DeleteManagedDisk are no part of it.                           *)
PlacementRequest(t) ==
  IF pc[t] \in AttachPC THEN [op |-> "attach", disk |-> Disk(t), node |-> Node(t)]
  ELSE IF pc[t] \in DetachPC THEN [op |-> "detach", disk |-> Disk(t), node |-> Node(t)]
  ELSE NoCall

Placement == INSTANCE DiskPlacement WITH
  NoRequest <- NoCall, NoAnswer <- NoCall,
  lun <- [n \in Nodes |-> vm[n].lun],
  leaving <- [n \in Nodes |-> vm[n].tbd],
  present <- nodes,
  request <- [t \in Threads |-> PlacementRequest(t)],
  answer <- [t \in Threads |-> IF pc[t] = "returned" /\ call[t].op # "delete"
                               THEN result[t] ELSE NoCall]

(* The specification of DiskPlacement under that mapping, for the cases    *)
(* where the data disk count is not checked (CountDisksFails breaks it).   *)
Promise == Placement!Spec
=============================================================================
