--------------------------- MODULE VolumePublish ---------------------------
(***************************************************************************)
(* ControllerPublishVolume and ControllerUnpublishVolume of                *)
(* pkg/azuredisk/controllerserver.go, called by the csi-attacher for each  *)
(* VolumeAttachment, over VMs whose updates may arrive after the client    *)
(* gave them up and whose disks may be removed behind the driver's back.   *)
(*                                                                         *)
(* AttachDisk and DetachDisk are single steps here: DiskController has     *)
(* their batches and locks, and shows that a VM has one update under way.  *)
(* ARM orders the updates of one VM, so an update that was given up is     *)
(* accepted before the next one of that VM is made, or never.              *)
(***************************************************************************)
EXTENDS Integers, FiniteSets, FiniteSetsExt

CONSTANTS
  Disks, Nodes,
  Attachments,  \* the pairs <<disk, node>> that pods may ask for
  NoNode,       \* ManagedBy of a disk that is nowhere
  Unknown,      \* the disk object when GetDisk is throttled or timed out
  NoUpdate,     \* no VM update in flight
  MaxLUN,       \* LUNs of a VM (64 in the code)
  MaxLate,      \* bound: updates given up that are still on their way
  MaxFaults     \* bound: calls that fail or are given up, attachments
                \* forgotten, disks removed behind the driver's back, restarts

LUNs == 0 .. MaxLUN - 1
NoLun == -1
Lists == [Disks -> LUNs \cup {NoLun}]  \* data disk list of a VM

ASSUME AttachmentAssumption == Attachments \subseteq Disks \X Nodes
ASSUME UpdateAssumption == NoUpdate \notin Lists
ASSUME BoundAssumption == MaxLUN \in Nat /\ MaxLate \in Nat /\ MaxFaults \in Nat
ASSUME NameAssumption == NoNode \notin Nodes /\ Unknown \notin Nodes /\ NoNode # Unknown

VARIABLES
  vm,           \* Azure: the data disk list of each VM
  late,         \* Azure: an update the client gave up, on its way
  cache,        \* the VM cache
  va,           \* the VolumeAttachment of each pair
  valun,        \* the LUN in its status, NoLun when it is not attached
  call,         \* the call the csi-attacher has made for it
  lunThrottled, \* checkDiskLunThrottlingCache holds its key
  lates, faults

azure == <<vm, late, lates>>
kube == <<va, valun>>
vars == <<azure, cache, kube, call, lunThrottled, faults>>

DiskOf(a) == a[1]
NodeOf(a) == a[2]

(* seen: the ManagedBy of the disk object; used: LUNs of VolumeAttachments *)
(* as read, then those among them that are not the node's; blind: that     *)
(* reading was skipped, failed, found a cache that still listed a disk     *)
(* removed by hand or a disk that sits at the LUN of a lost attachment     *)
(* (one occupant hides the other), or a disk was removed by hand after it. *)
Idle == [pc |-> "idle", seen |-> Unknown, used |-> {}, blind |-> FALSE]
PCs == {"idle", "getLun", "occupied", "nodeLuns", "attach", "dangling", "detach"}
VAStates == {"none", "asked", "attached", "forgotten", "lost", "deleting"}

Init ==
  /\ vm = [n \in Nodes |-> [d \in Disks |-> NoLun]] /\ cache = vm
  /\ late = [n \in Nodes |-> NoUpdate]
  /\ va = [a \in Attachments |-> "none"] /\ valun = [a \in Attachments |-> NoLun]
  /\ call = [a \in Attachments |-> Idle]
  /\ lunThrottled = FALSE
  /\ lates = 0 /\ faults = 0

Failed == faults < MaxFaults /\ faults' = faults + 1
Answered == UNCHANGED faults

-----------------------------------------------------------------------------
(* Azure.                                                                  *)
UsedLuns(list) == {list[d] : d \in Disks} \ {NoLun}
ManagedBy(d) == {n \in Nodes : vm[n][d] # NoLun}
DiskSeen(d) == IF ManagedBy(d) = {} THEN NoNode ELSE CHOOSE n \in ManagedBy(d) : TRUE

Acceptable(n, list) == \A d \in Disks : list[d] # NoLun => ManagedBy(d) \subseteq {n}

(* The update is accepted and answered: its answer goes into the cache.    *)
Updated(n, list) ==
  /\ Acceptable(n, list)
  /\ vm' = [vm EXCEPT ![n] = list]
  /\ cache' = [cache EXCEPT ![n] = list]
  /\ late' = [late EXCEPT ![n] = NoUpdate]
  /\ UNCHANGED lates

(* It fails: refused, or accepted with the answer lost, or (an attach, see *)
(* DetachDisk below) given up on its way. The entry of the cache is        *)
(* dropped, the next reader fetches it.                                    *)
UpdateFails(n, list) ==
  /\ \/ ~Acceptable(n, list) /\ UNCHANGED azure /\ Answered
     \/ UNCHANGED azure /\ Failed
     \/ /\ Acceptable(n, list) /\ Failed
        /\ vm' = [vm EXCEPT ![n] = list]
        /\ late' = [late EXCEPT ![n] = NoUpdate] /\ UNCHANGED lates
  /\ cache' = [cache EXCEPT ![n] = vm'[n]]

UpdateGivenUp(n, list) ==
  /\ Failed
  /\ lates < MaxLate /\ lates' = lates + 1
  /\ late' = [late EXCEPT ![n] = list]
  /\ cache' = [cache EXCEPT ![n] = vm[n]]
  /\ UNCHANGED vm

LateUpdate(n) ==
  /\ late[n] # NoUpdate
  /\ late' = [late EXCEPT ![n] = NoUpdate]
  /\ vm' = [vm EXCEPT ![n] = IF Acceptable(n, late[n]) THEN late[n] ELSE @]
  /\ UNCHANGED <<lates, cache, kube, call, lunThrottled, faults>>

CacheExpires(n) ==
  /\ cache[n] # vm[n]
  /\ cache' = [cache EXCEPT ![n] = vm[n]]
  /\ UNCHANGED <<azure, kube, call, lunThrottled, faults>>

(* Somebody detaches a disk a pod is using: the attachment is lost.        *)
RemoveByHand(a) ==
  /\ Failed
  /\ va[a] \in {"attached", "forgotten"} /\ vm[NodeOf(a)][DiskOf(a)] # NoLun
  /\ vm' = [vm EXCEPT ![NodeOf(a)][DiskOf(a)] = NoLun]
  /\ va' = [va EXCEPT ![a] = "lost"]
  /\ call' = [b \in Attachments |-> 
       IF NodeOf(b) = NodeOf(a) /\ call[b] # Idle THEN [call[b] EXCEPT !.blind = TRUE] ELSE call[b]]
  /\ UNCHANGED <<late, lates, cache, valun, lunThrottled>>

-----------------------------------------------------------------------------
(* The attach-detach controller asks for an attachment when it knows of no *)
(* other of the disk. It may forget one it has (a restart, a node object   *)
(* that came back).                                                        *)
Ask(a) ==
  /\ va[a] = "none"
  /\ \A b \in Attachments \ {a} : DiskOf(b) = DiskOf(a) => va[b] \in {"none", "forgotten"}
  /\ va' = [va EXCEPT ![a] = "asked"]
  /\ UNCHANGED <<azure, cache, valun, call, lunThrottled, faults>>

Forget(a) ==
  /\ va[a] = "attached"
  /\ Failed
  /\ va' = [va EXCEPT ![a] = "forgotten"]
  /\ UNCHANGED <<azure, cache, valun, call, lunThrottled>>

Release(a) ==
  /\ va[a] \in {"asked", "attached", "forgotten", "lost"}
  /\ va' = [va EXCEPT ![a] = "deleting"]
  /\ UNCHANGED <<azure, cache, valun, call, lunThrottled, faults>>

(* The csi-attacher makes one call at a time for an attachment and records *)
(* the LUN of a publish that succeeded, even if the attachment is being    *)
(* deleted by then.                                                        *)
ReturnError(a) == call' = [call EXCEPT ![a] = Idle] /\ UNCHANGED kube

ReturnLun(a, lun) ==
  /\ call' = [call EXCEPT ![a] = Idle]
  /\ valun' = [valun EXCEPT ![a] = lun]
  /\ va' = [va EXCEPT ![a] = IF @ = "asked" THEN "attached" ELSE @]

Goto(a, label) == call' = [call EXCEPT ![a].pc = label] /\ UNCHANGED kube

-----------------------------------------------------------------------------
(* ControllerPublishVolume. The disk is read first; a throttled or slow    *)
(* read leaves the disk object nil, any other failure is NotFound.         *)
checkDiskExists(a) ==
  /\ va[a] = "asked" /\ call[a] = Idle
  /\ UNCHANGED kube
  /\ \/ Answered /\ call' = [call EXCEPT ![a].pc = "getLun", ![a].seen = DiskSeen(DiskOf(a))]
     \/ Failed /\ call' = [call EXCEPT ![a].pc = "getLun"]
     \/ Failed /\ UNCHANGED call
  /\ UNCHANGED <<azure, cache, lunThrottled>>

(* A disk the VM cache lists is attached already; a VM in failed state is  *)
(* updated first, which drops the cache entry whether it succeeds or not.  *)
AlreadyAttached(a) ==
  LET n == NodeOf(a)  d == DiskOf(a)
  IN /\ call[a].pc = "getLun" /\ cache[n][d] # NoLun
     /\ \/ ReturnLun(a, cache[n][d]) /\ Answered /\ UNCHANGED cache
        \/ ReturnLun(a, cache[n][d]) /\ Failed /\ cache' = [cache EXCEPT ![n] = vm[n]]
        \/ ReturnError(a) /\ Failed /\ cache' = [cache EXCEPT ![n] = vm[n]]
     /\ UNCHANGED <<azure, lunThrottled>>

GetDiskLun(a) ==
  /\ call[a].pc = "getLun"
  /\ \/ ReturnError(a) /\ Failed
     \/ cache[NodeOf(a)][DiskOf(a)] = NoLun /\ Goto(a, "occupied") /\ Answered
  /\ UNCHANGED <<azure, cache, lunThrottled>>

(* getOccupiedLunsFromNode: the LUNs in the attachments of the node, less  *)
(* those of the VM, each read at its own time. The check is skipped while  *)
(* it is throttled; a slow one throttles the next ones.                    *)
VALuns(n) == {valun[a] : a \in {b \in Attachments : NodeOf(b) = n}} \ {NoLun}

(* Mutant: only attachments of the disk itself are looked at.              *)
UsedByDisk(a) ==
  /\ call[a].pc = "occupied" /\ ~lunThrottled
  /\ call' = [call EXCEPT ![a].pc = "nodeLuns", ![a].used = {valun[a]} \ {NoLun}]
  /\ UNCHANGED <<azure, cache, kube, lunThrottled, faults>>

getUsedLunsFromVolumeAttachments(a) ==
  /\ call[a].pc = "occupied" /\ ~lunThrottled
  /\ call' = [call EXCEPT ![a].pc = "nodeLuns", ![a].used = VALuns(NodeOf(a))]
  /\ UNCHANGED <<azure, cache, kube, lunThrottled, faults>>

(* A call cannot tell a LUN taken by hand from one that a disk uses: the   *)
(* LUN of a lost attachment is subtracted if another disk of the node has  *)
(* it by now.                                                              *)
LunShared(n) ==
  \E b \in Attachments : NodeOf(b) = n /\ va[b] = "lost" /\ valun[b] \in UsedLuns(vm[n])

getUsedLunsFromNode(a) ==
  LET n == NodeOf(a)
  IN /\ call[a].pc = "nodeLuns"
     /\ call' = [call EXCEPT ![a].pc = "attach", ![a].used = @ \ UsedLuns(cache[n]),
                             ![a].blind = @ \/ cache[n] # vm[n] \/ LunShared(n)]
     /\ \/ UNCHANGED lunThrottled /\ Answered
        \/ lunThrottled' = TRUE /\ Failed
     /\ UNCHANGED <<azure, cache, kube>>

NoOccupiedLuns(a) ==
  /\ call[a].pc \in {"occupied", "nodeLuns"}
  /\ IF call[a].pc = "occupied" /\ lunThrottled THEN Answered ELSE Failed
  /\ call' = [call EXCEPT ![a].pc = "attach", ![a].used = {}, ![a].blind = TRUE]
  /\ UNCHANGED <<azure, cache, kube, lunThrottled>>

ThrottlingExpires ==
  /\ lunThrottled /\ lunThrottled' = FALSE
  /\ UNCHANGED <<azure, cache, kube, call, faults>>

-----------------------------------------------------------------------------
(* AttachDisk trusts the ManagedBy of the disk object. If it names this    *)
(* node the cache is dropped and the LUN read again; if it names another   *)
(* node the error says so.                                                 *)
AttachedHere(a) ==
  LET n == NodeOf(a)  d == DiskOf(a)
  IN /\ call[a].pc = "attach" /\ call[a].seen = n
     /\ cache' = [cache EXCEPT ![n] = vm[n]]
     /\ \/ vm[n][d] # NoLun /\ ReturnLun(a, vm[n][d]) /\ Answered
        \/ vm[n][d] = NoLun /\ ReturnError(a) /\ Answered
        \/ ReturnError(a) /\ Failed
     /\ UNCHANGED <<azure, lunThrottled>>

DanglingAttach(a) ==
  /\ call[a].pc = "attach" /\ call[a].seen \in Nodes \ {NodeOf(a)}
  /\ Goto(a, "dangling")
  /\ UNCHANGED <<azure, cache, lunThrottled, faults>>

(* Otherwise the update carries the cached list and the disk at the first  *)
(* LUN that is neither on the list nor occupied.                           *)
FreeLuns(a) == LUNs \ (UsedLuns(cache[NodeOf(a)]) \cup call[a].used)
AttachList(a) == [cache[NodeOf(a)] EXCEPT ![DiskOf(a)] = Min(FreeLuns(a))]

AttachDisk(a) ==
  LET n == NodeOf(a)
  IN /\ call[a].pc = "attach" /\ call[a].seen \notin Nodes
     /\ cache[n][DiskOf(a)] = NoLun /\ FreeLuns(a) # {}
     /\ \/ Updated(n, AttachList(a)) /\ ReturnLun(a, AttachList(a)[DiskOf(a)]) /\ Answered
        \/ (UpdateFails(n, AttachList(a)) \/ UpdateGivenUp(n, AttachList(a))) /\ ReturnError(a)
     /\ UNCHANGED lunThrottled

AttachImpossible(a) ==
  /\ call[a].pc = "attach" /\ call[a].seen \notin Nodes
  /\ cache[NodeOf(a)][DiskOf(a)] # NoLun \/ FreeLuns(a) = {}
  /\ ReturnError(a)
  /\ UNCHANGED <<azure, cache, lunThrottled, faults>>

(* The disk dangles on another node. It is detached there only if no       *)
(* attachment of the disk exists on that node, in whatever state. (The     *)
(* first definition is a mutant: attachments of any node count.)           *)
hasVolumeAttachmentForDisk(d, n) == \E a \in Attachments : DiskOf(a) = d /\ va[a] # "none"

hasVolumeAttachmentForDiskOnNode(d, n) ==
  \E a \in Attachments : a = <<d, n>> /\ va[a] # "none"

(* Mutant: an attachment on the old node does not matter.                  *)
DetachAnyway(a) ==
  /\ call[a].pc = "dangling"
  /\ \/ Goto(a, "detach") /\ Answered
     \/ ReturnError(a) /\ Failed
  /\ UNCHANGED <<azure, cache, lunThrottled>>

RefuseDanglingDetach(a) ==
  LET held == hasVolumeAttachmentForDiskOnNode(DiskOf(a), call[a].seen)
  IN /\ call[a].pc = "dangling"
     /\ \/ held /\ ReturnError(a) /\ Answered
        \/ ~held /\ Goto(a, "detach") /\ Answered
        \/ ReturnError(a) /\ Failed
     /\ UNCHANGED <<azure, cache, lunThrottled>>

(* DetachDisk: no update when the cache does not list the disk. A detach   *)
(* that times out is polled for until its outcome is known.                *)
Detached(d, n) ==
  IF cache[n][d] # NoLun THEN Updated(n, [cache[n] EXCEPT ![d] = NoLun]) ELSE UNCHANGED <<azure, cache>>

DetachFails(d, n) ==
  /\ cache[n][d] # NoLun
  /\ UpdateFails(n, [cache[n] EXCEPT ![d] = NoLun])

(* After the detach AttachDisk is called again with the disk object read   *)
(* before it, which still names the old node: the call ends with an error  *)
(* and the next one attaches the disk.                                     *)
DetachDangling(a) ==
  /\ call[a].pc = "detach"
  /\ \/ Detached(DiskOf(a), call[a].seen) /\ Answered
     \/ DetachFails(DiskOf(a), call[a].seen)
  /\ ReturnError(a)
  /\ UNCHANGED lunThrottled

ControllerUnpublishVolume(a) ==
  /\ va[a] = "deleting" /\ call[a] = Idle
  /\ UNCHANGED <<lunThrottled, call>>
  /\ \/ /\ Detached(DiskOf(a), NodeOf(a)) /\ Answered
        /\ va' = [va EXCEPT ![a] = "none"]
        /\ valun' = [valun EXCEPT ![a] = NoLun]
     \/ DetachFails(DiskOf(a), NodeOf(a)) /\ UNCHANGED kube

(* The controller restarts; the calls fail, the cache is read again.       *)
Restart ==
  /\ Failed
  /\ call' = [a \in Attachments |-> Idle]
  /\ cache' = vm /\ lunThrottled' = FALSE
  /\ UNCHANGED <<azure, kube>>

PublishStep(a) ==
  \/ checkDiskExists(a) \/ AlreadyAttached(a) \/ GetDiskLun(a)
  \/ getUsedLunsFromVolumeAttachments(a) \/ getUsedLunsFromNode(a) \/ NoOccupiedLuns(a)
  \/ AttachedHere(a) \/ DanglingAttach(a) \/ AttachDisk(a) \/ AttachImpossible(a)
  \/ RefuseDanglingDetach(a) \/ DetachDangling(a)

Next ==
  \/ \E a \in Attachments :
       PublishStep(a) \/ ControllerUnpublishVolume(a) \/ Ask(a) \/ Forget(a) \/ Release(a) \/ RemoveByHand(a)
  \/ \E n \in Nodes : LateUpdate(n) \/ CacheExpires(n)
  \/ ThrottlingExpires \/ Restart

(* The csi-attacher tries again until it succeeds, a call goes on, and the *)
(* entries of the caches expire.                                           *)
Fairness ==
  /\ \A a \in Attachments : WF_vars(PublishStep(a)) /\ WF_vars(ControllerUnpublishVolume(a))
  /\ \A n \in Nodes : WF_vars(LateUpdate(n)) /\ WF_vars(CacheExpires(n))

Spec == Init /\ [][Next]_vars /\ Fairness

-----------------------------------------------------------------------------
(* The state of the VMs, the attachments, the calls and the caches.        *)
TypeOK ==
  /\ vm \in [Nodes -> Lists] /\ cache \in [Nodes -> Lists]
  /\ late \in [Nodes -> Lists \cup {NoUpdate}]
  /\ va \in [Attachments -> VAStates] /\ valun \in [Attachments -> LUNs \cup {NoLun}]
  /\ call \in [Attachments -> [pc : PCs, seen : Nodes \cup {NoNode, Unknown}, used : SUBSET LUNs, blind : BOOLEAN]]
  /\ lunThrottled \in BOOLEAN
  /\ lates \in 0 .. MaxLate /\ faults \in 0 .. MaxFaults

(* A volume that was published and not taken away by hand stays on its     *)
(* node at the LUN of its VolumeAttachment until it is unpublished: no     *)
(* late update, no update made from a cache that is behind and no detach   *)
(* of a dangling disk takes it away (ControllerPublishVolume). One update  *)
(* is given up, MaxLate = 1: with two it does not hold, because the second *)
(* may be made from a cache the first is not in yet and arrive after the   *)
(* disk of the first was found attached and published.                     *)
PublishedIsAttached ==
  \A a \in Attachments : va[a] \in {"attached", "forgotten"} =>
    valun[a] # NoLun /\ vm[NodeOf(a)][DiskOf(a)] = valun[a]

(* A call that looked for occupied LUNs attaches its disk at none that     *)
(* another attachment in use on the node holds, though the two readings it *)
(* compares are made at two times (getOccupiedLunsFromNode): the node      *)
(* would mount two volumes from the disk at that LUN.                      *)
LunsApart ==
  [][\A a, b \in Attachments :
       LET n == NodeOf(a)  d == DiskOf(a)
       IN /\ call[a].pc = "attach" /\ call'[a] = Idle /\ ~call[a].blind
          /\ vm[n][d] = NoLun /\ vm'[n][d] # NoLun
          /\ b # a /\ NodeOf(b) = n /\ va[b] \in {"attached", "forgotten", "lost"}
          => valun[b] # vm'[n][d]]_vars

(* A volume asked for is published in the end, unless another attachment   *)
(* of its disk is there that nobody releases: a dangling disk is detached  *)
(* and attached again though the call that detaches it always fails.       *)
AskedIsServed ==
  \A a \in Attachments :
    va[a] = "asked" ~> \/ va[a] # "asked"
                       \/ \E b \in Attachments \ {a} : DiskOf(b) = DiskOf(a) /\ va[b] \in {"forgotten", "lost"}
=============================================================================
