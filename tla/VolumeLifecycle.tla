-------------------------- MODULE VolumeLifecycle --------------------------
(***************************************************************************)
(* One volume from its claim to its deletion: CreateVolume, DeleteVolume,  *)
(* ControllerExpandVolume and ControllerModifyVolume of                    *)
(* pkg/azuredisk/controllerserver.go over CreateManagedDisk,               *)
(* DeleteManagedDisk, ResizeDisk and ModifyDisk, called by sidecars that   *)
(* give up calls, retry them, and decide by the error code whether a       *)
(* create may still be under way.                                          *)
(*                                                                         *)
(* The server runs several calls at once. The context of a call the client *)
(* gave up is cancelled: the request it has in flight takes effect or not, *)
(* and the call ends with its locks. Names are valid disk names:           *)
(* CreateValidDiskName makes a new random name at every attempt for one    *)
(* that is not.                                                            *)
(***************************************************************************)
EXTENDS DiskRequest, FiniteSets

CONSTANTS
  Requests,   \* the claims that may be made
  Changes,    \* what a VolumeAttributesClass may ask for: maps of parameters
  Growth,     \* bytes a claim may be expanded by
  Slots,      \* calls the server runs at a time
  NoCall,
  MaxFaults   \* bound: calls given up, requests that fail or lose their answer, restarts

ASSUME SlotAssumption == IsFiniteSet(Slots) /\ NoCall \notin Slots
ASSUME BoundAssumption == MaxFaults \in Nat /\ Growth \in Nat
ASSUME RequestAssumption ==
  \A r \in Requests : /\ r.bytes \in Nat /\ r.limit \in Nat /\ r.source.bytes \in Nat
                      /\ Value(r.params, "perfplus", FALSE) \in BOOLEAN
                      /\ Value(Params(r), "maxshares", 0) \in Int

VARIABLES
  req,     \* the claim: its request
  pvc,     \* "present" or "removed"
  prov,    \* external-provisioner: "todo", "calling", "background" (the claim
           \* may have a disk: retry even if the claim goes) or "done"
  pv,      \* the PersistentVolume
  disk,    \* Azure: the disk of that name
  calls,   \* the calls of the server
  current, \* the call the sidecars wait for
  lost,    \* a create was answered with a final error though Azure has the
           \* disk, or may get it from a create that was given up
  faults

kube == <<req, pvc, prov, pv>>
vars == <<kube, disk, calls, current, lost, faults>>

Idle == [op |-> "none", pc |-> "idle", sku |-> "", read |-> FALSE]
Ops == {"none", "create", "delete", "expand", "modify"}
PCs == {"idle", "lock", "source", "put", "claim", "unclaim", "get", "delete", "release", "patch"}

(* The disk that is not there has no size, the PersistentVolume that is    *)
(* not there no class.                                                     *)
NoDisk ==
  [size |-> 0, sku |-> "", zone |-> 0, iops |-> NoValue, mbps |-> NoValue, shares |-> 0, owner |-> "none"]

NoPV ==
  [capacity |-> 0, topology |-> {}, caching |-> "", resize |-> FALSE,
   adopted |-> FALSE, attached |-> FALSE, class |-> "none"]

NodeDriven == getAttachMode(Params(req)) = "NodeDriven"

Init ==
  /\ req \in Requests
  /\ pvc = "present" /\ prov = "todo" /\ pv = NoPV
  /\ disk = NoDisk
  /\ calls = [s \in Slots |-> Idle] /\ current = NoCall
  /\ lost = FALSE /\ faults = 0

Failed == faults < MaxFaults /\ faults' = faults + 1
Answered == UNCHANGED faults

-----------------------------------------------------------------------------
(* The sidecars. One call at a time; each is made while the other slots    *)
(* may run calls that were given up.                                       *)
Call(s, op, pc) ==
  /\ current = NoCall /\ calls[s] = Idle
  /\ calls' = [calls EXCEPT ![s] = [Idle EXCEPT !.op = op, !.pc = pc]]
  /\ current' = s

Provision(s) ==
  /\ prov = "background" \/ (prov = "todo" /\ pvc = "present")
  /\ Call(s, "create", "lock") /\ prov' = "calling"
  /\ UNCHANGED <<req, pvc, pv, disk, lost, faults>>

RemoveClaim ==
  /\ pvc = "present" /\ pvc' = "removed"
  /\ UNCHANGED <<req, prov, pv, disk, calls, current, lost, faults>>

Reclaim(s) ==
  /\ pv # NoPV /\ pvc = "removed"
  /\ Call(s, "delete", "lock")
  /\ UNCHANGED <<kube, disk, lost, faults>>

Resize(s) ==
  /\ pv # NoPV /\ pvc = "present" /\ pv.capacity < req.bytes + Growth
  /\ Call(s, "expand", "get")
  /\ UNCHANGED <<kube, disk, lost, faults>>

Modify(s) ==
  /\ pv # NoPV /\ pvc = "present" /\ pv.class = "create" /\ req.change \in Changes
  /\ Call(s, "modify", "get")
  /\ UNCHANGED <<kube, disk, lost, faults>>

(* The client gives up: external-provisioner takes a create for unfinished.*)
GiveUp ==
  /\ Failed
  /\ current # NoCall /\ current' = NoCall
  /\ prov' = IF prov = "calling" THEN "background" ELSE prov
  /\ UNCHANGED <<req, pvc, pv, disk, calls, lost>>

At(s, op, pc) == current = s /\ calls[s].op = op /\ calls[s].pc = pc
Goto(s, pc) == calls' = [calls EXCEPT ![s].pc = pc] /\ UNCHANGED <<current, kube>>
Return(s) == calls' = [calls EXCEPT ![s] = Idle] /\ current' = NoCall

(* Aborted leaves a create in the background, any other code ends it.      *)
ReturnError(s) ==
  /\ Return(s)
  /\ prov' = IF prov = "calling" THEN "todo" ELSE prov
  /\ UNCHANGED <<req, pvc, pv>>

ReturnAborted(s) ==
  /\ Return(s)
  /\ prov' = "background"
  /\ UNCHANGED <<req, pvc, pv>>

(* external-provisioner writes the PV; a capacity of 0 means unknown.      *)
ReturnVolume(s, answer) ==
  /\ Return(s)
  /\ prov' = "done" /\ lost' = FALSE
  /\ pv' = [capacity |-> IF answer.capacity = 0 THEN req.bytes ELSE answer.capacity,
            topology |-> answer.topology, caching |-> answer.caching, resize |-> answer.resize,
            adopted |-> FALSE, attached |-> FALSE, class |-> "create"]
  /\ UNCHANGED <<req, pvc>>

-----------------------------------------------------------------------------
(* VolumeLocks: a create holds the name, a delete the URI. (The first      *)
(* definition is a mutant: the lock is not looked at.)                     *)
Holds(s, op) == calls[s].op = op /\ calls[s].pc # "lock"
AlwaysAcquire(s) == TRUE

TryAcquire(s) == \A t \in Slots \ {s} : ~Holds(t, calls[s].op)

(* CreateVolume. The SKU is one of those the walk over the map may end     *)
(* with. checkDiskCapacity compares a disk that exists already.            *)
Refuse(s) ==
  /\ ReturnError(s)
  /\ lost' = (lost \/ disk # NoDisk \/ \E t \in Slots : Holds(t, "create"))

CreateVolume(s) ==
  /\ At(s, "create", "lock")
  /\ \E sku \in AccountTypes(Params(req)) :
       \/ ~WellFormed(req, sku) /\ Refuse(s)
       \/ WellFormed(req, sku) /\ ~TryAcquire(s) /\ ReturnAborted(s) /\ UNCHANGED lost
       \/ WellFormed(req, sku) /\ TryAcquire(s) /\ ~Admissible(req, sku) /\ Refuse(s)
       \/ /\ Acceptable(req, sku) /\ TryAcquire(s)
          /\ calls' = [calls EXCEPT ![s].pc = "source", ![s].sku = sku] /\ UNCHANGED <<current, kube, lost>>
  /\ UNCHANGED <<disk, faults>>

(* Mutant: the size asked for is compared unrounded.                       *)
SameBytes == req.capacityCheck /\ disk # NoDisk => disk.size * GiB = req.bytes

checkDiskCapacity == req.capacityCheck /\ disk # NoDisk => disk.size = requestGiB(req, Params(req))

CapacityMismatch(s) ==
  /\ At(s, "create", "source") /\ ~checkDiskCapacity
  /\ ReturnError(s) /\ lost' = TRUE
  /\ UNCHANGED <<disk, faults>>

ReadSource(s) ==
  /\ At(s, "create", "source") /\ checkDiskCapacity
  /\ calls' = [calls EXCEPT ![s].pc = "put", ![s].read = TRUE]
  /\ UNCHANGED <<current, kube, disk, lost, faults>>

(* A source disk that cannot be read is only logged; a snapshot that       *)
(* cannot be read, for whatever reason, is NotFound.                       *)
GetSourceDiskSizeFails(s) ==
  /\ At(s, "create", "source") /\ checkDiskCapacity
  /\ req.source.kind = "disk" /\ Failed
  /\ Goto(s, "put")
  /\ UNCHANGED <<disk, lost>>

getSnapshotFails(s) ==
  /\ At(s, "create", "source") /\ checkDiskCapacity
  /\ req.source.kind = "snapshot" /\ Failed
  /\ ReturnError(s)
  /\ lost' = (lost \/ disk # NoDisk)
  /\ UNCHANGED disk

-----------------------------------------------------------------------------
(* Azure: a PUT creates the disk or finds it there; without a size it      *)
(* takes the snapshot's. The zone of a disk cannot change, and a copy of a *)
(* zonal disk goes to its zone.                                            *)
DiskOf(model) ==
  IF disk # NoDisk THEN [disk EXCEPT !.sku = model.sku, !.iops = model.iops, !.mbps = model.mbps]
  ELSE [size |-> IF model.size = 0 THEN RoundUpGiB(req.source.bytes) ELSE model.size,
        sku |-> model.sku, zone |-> model.zone, iops |-> model.iops, mbps |-> model.mbps,
        shares |-> model.shares, owner |-> "none"]

PutAllowed(s) ==
  LET zone == DiskModel(req, calls[s].sku, calls[s].read).zone
  IN /\ disk # NoDisk => disk.zone = zone
     /\ req.source.kind = "disk" => zone = req.source.zone

PutAccepted(s) == PutAllowed(s) /\ disk' = DiskOf(DiskModel(req, calls[s].sku, calls[s].read))
PutRefused(s) == UNCHANGED disk
Answer(s) == VolumeAnswer(req, calls[s].sku, calls[s].read)

(* CreateManagedDisk answered: a node-driven volume is claimed next. The   *)
(* poll for its provisioning state ends with success in any case.          *)
Created(s) ==
  /\ At(s, "create", "put")
  /\ PutAccepted(s)
  /\ IF NodeDriven THEN Goto(s, "claim") /\ UNCHANGED lost
     ELSE ReturnVolume(s, Answer(s))
  /\ UNCHANGED faults

(* ARM throttles the call, at the PUT or at a poll after it: Aborted.      *)
Throttled(s) ==
  /\ At(s, "create", "put")
  /\ Failed
  /\ PutAccepted(s) \/ PutRefused(s)
  /\ ReturnAborted(s)
  /\ UNCHANGED lost

(* Any other failure is final, though Azure may have the disk.             *)
CreateFails(s) ==
  /\ At(s, "create", "put")
  /\ \/ Failed /\ (PutAccepted(s) \/ PutRefused(s))
     \/ Answered /\ ~PutAllowed(s) /\ PutRefused(s)
  /\ ReturnError(s)
  /\ lost' = (lost \/ disk' # NoDisk)

(* The poll of a claim or unclaim ends with the operation, or fails first, *)
(* whatever becomes of the operation then.                                 *)
pollAsyncOperation == {"succeeded", "failed", "unknown"}
Polled(outcome) == IF outcome = "succeeded" THEN Answered ELSE Failed

(* claimDiskResource: every failure, of the lookup of the owner too, is    *)
(* Aborted.                                                                *)
Claimed == disk' = [disk EXCEPT !.owner = "us"]

claimDiskResource(s) ==
  /\ At(s, "create", "claim")
  /\ \E outcome \in pollAsyncOperation :
       /\ IF outcome = "failed" THEN UNCHANGED disk ELSE Claimed
       /\ IF outcome = "succeeded" THEN ReturnVolume(s, Answer(s)) ELSE ReturnAborted(s) /\ UNCHANGED lost
       /\ Polled(outcome)

getAKSClusterResourceIDFails(s) ==
  /\ At(s, "create", "claim") /\ Failed
  /\ ReturnAborted(s)
  /\ UNCHANGED <<disk, lost>>

-----------------------------------------------------------------------------
(* DeleteVolume. An adopted PV (attach-sequence annotation) is unclaimed   *)
(* first; a failing lookup or unclaim ends the call.                       *)
DeleteVolume(s) ==
  /\ At(s, "delete", "lock")
  /\ IF ~TryAcquire(s) THEN ReturnError(s) /\ Answered
     ELSE \/ Goto(s, IF pv.adopted THEN "unclaim" ELSE "get") /\ Answered
          \/ req.nodeDrivenEnabled /\ ReturnError(s) /\ Failed
  /\ UNCHANGED <<disk, lost>>

Unclaimed == disk' = IF disk # NoDisk /\ disk.owner = "us" THEN [disk EXCEPT !.owner = "none"] ELSE disk

unclaimDiskResource(s) ==
  /\ At(s, "delete", "unclaim")
  /\ \E outcome \in pollAsyncOperation :
       /\ IF outcome = "failed" THEN UNCHANGED disk ELSE Unclaimed
       /\ IF outcome = "succeeded" THEN Goto(s, "get") ELSE ReturnError(s)
       /\ Polled(outcome)
  /\ UNCHANGED lost

(* DeleteManagedDisk: a disk that is gone is deleted; one that is managed  *)
(* is not.                                                                 *)
ReturnDeleted(s) ==
  /\ Return(s)
  /\ pv' = NoPV
  /\ UNCHANGED <<req, pvc, prov>>

DeleteManagedDisk(s) ==
  /\ At(s, "delete", "get")
  /\ \/ disk = NoDisk /\ ReturnDeleted(s) /\ Answered
     \/ disk # NoDisk /\ disk.owner = "none" /\ Goto(s, "delete") /\ Answered
     \/ disk # NoDisk /\ disk.owner = "us" /\ Goto(s, "release") /\ Answered
     \/ disk # NoDisk /\ disk.owner = "vm" /\ ReturnError(s) /\ Answered
     \/ ReturnError(s) /\ Failed
  /\ UNCHANGED <<disk, lost>>

DeleteDisk(s) ==
  /\ At(s, "delete", "delete")
  /\ \/ /\ disk # NoDisk => disk.owner = "none"
        /\ disk' = NoDisk
        /\ (ReturnDeleted(s) /\ Answered) \/ (ReturnError(s) /\ Failed)
     \/ disk # NoDisk /\ disk.owner # "none" /\ UNCHANGED disk /\ ReturnError(s) /\ Answered
     \/ UNCHANGED disk /\ ReturnError(s) /\ Failed
  /\ UNCHANGED lost

(* The owner is this cluster: the claim is released, and the error of the  *)
(* delete returned, so that the retry deletes the disk. (The first         *)
(* definition is a mutant: the error alone is returned.)                   *)
ReturnManagedError(s) ==
  /\ At(s, "delete", "release")
  /\ ReturnError(s)
  /\ UNCHANGED <<disk, lost, faults>>

UnclaimAfterDeleteFailure(s) ==
  /\ At(s, "delete", "release")
  /\ \E outcome \in pollAsyncOperation :
       (IF outcome = "failed" THEN UNCHANGED disk ELSE Unclaimed) /\ Polled(outcome)
  /\ ReturnError(s)
  /\ UNCHANGED lost

-----------------------------------------------------------------------------
(* ControllerExpandVolume: a disk that is large enough is left alone, the  *)
(* others are patched to the size asked for, offline ones only unless      *)
(* online resize is enabled. Azure never shrinks a disk.                   *)
ExpandGiB == RoundUpGiB(req.bytes + Growth)

ReturnExpanded(s) ==
  /\ Return(s)
  /\ pv' = [pv EXCEPT !.capacity = ExpandGiB * GiB]
  /\ UNCHANGED <<req, pvc, prov>>

ControllerExpandVolume(s) ==
  /\ At(s, "expand", "get")
  /\ \/ (disk = NoDisk \/ pv.adopted) /\ ReturnError(s) /\ Answered
     \/ disk # NoDisk /\ disk.size >= ExpandGiB /\ ReturnExpanded(s) /\ Answered
     \/ /\ disk # NoDisk /\ disk.size < ExpandGiB /\ Answered
        /\ IF disk.owner = "none" \/ req.onlineResize THEN Goto(s, "patch") ELSE ReturnError(s)
     \/ ReturnError(s) /\ Failed
  /\ UNCHANGED <<disk, lost>>

Grown ==
  /\ disk # NoDisk /\ disk.size <= ExpandGiB
  /\ disk' = [disk EXCEPT !.size = ExpandGiB]

ResizeDisk(s) ==
  /\ At(s, "expand", "patch")
  /\ \/ /\ Grown
        /\ (ReturnExpanded(s) /\ Answered) \/ (ReturnError(s) /\ Failed)
     \/ (disk = NoDisk \/ disk.size > ExpandGiB) /\ UNCHANGED disk /\ ReturnError(s) /\ Answered
     \/ UNCHANGED disk /\ ReturnError(s) /\ Failed
  /\ UNCHANGED lost

Change == normalizeMutableDiskParameters(req.change)

(* ControllerModifyVolume: what is sent depends on the SKU that was read.  *)
ReturnChanged(s) ==
  /\ Return(s)
  /\ pv' = [pv EXCEPT !.class = "change"]
  /\ UNCHANGED <<req, pvc, prov>>

ControllerModifyVolume(s) ==
  LET allowed == /\ normalizable(req.change) /\ disk # NoDisk
                 /\ ~pv.adopted
                 /\ ModifyAllowed(Change, disk)
  IN /\ At(s, "modify", "get")
     /\ \/ allowed /\ Goto(s, "patch") /\ Answered
        \/ ~allowed /\ ReturnError(s) /\ Answered
        \/ ReturnError(s) /\ Failed
     /\ UNCHANGED <<disk, lost>>

ModifyDisk(s) ==
  /\ At(s, "modify", "patch")
  /\ \/ /\ disk # NoDisk
        /\ disk' = Modified(Change, disk)
        /\ (ReturnChanged(s) /\ Answered) \/ (ReturnError(s) /\ Failed)
     \/ disk = NoDisk /\ UNCHANGED disk /\ ReturnError(s) /\ Answered
     \/ UNCHANGED disk /\ ReturnError(s) /\ Failed
  /\ UNCHANGED lost

-----------------------------------------------------------------------------
(* A pod uses the volume: VolumePublish has the attach. A node-driven one  *)
(* gets its annotation from the first publish (ensureQADPVAnnotations).    *)
Use ==
  /\ pv # NoPV /\ pvc = "present" /\ ~pv.attached /\ disk # NoDisk
  /\ pv' = [pv EXCEPT !.attached = TRUE, !.adopted = NodeDriven]
  /\ disk' = [disk EXCEPT !.owner = IF NodeDriven THEN @ ELSE "vm"]
  /\ UNCHANGED <<req, pvc, prov, calls, current, lost, faults>>

Stop ==
  /\ pv # NoPV /\ pv.attached /\ disk # NoDisk
  /\ pv' = [pv EXCEPT !.attached = FALSE]
  /\ disk' = [disk EXCEPT !.owner = IF NodeDriven THEN @ ELSE "none"]
  /\ UNCHANGED <<req, pvc, prov, calls, current, lost, faults>>

(* A call that was given up ends, its request in flight has taken effect   *)
(* or not.                                                                 *)
InFlight(s) ==
  LET pc == calls[s].pc  op == calls[s].op
  IN \/ UNCHANGED disk
     \/ pc = "put" /\ PutAccepted(s)
     \/ pc = "claim" /\ disk # NoDisk /\ Claimed
     \/ pc \in {"unclaim", "release"} /\ Unclaimed
     \/ pc = "delete" /\ (disk # NoDisk => disk.owner = "none") /\ disk' = NoDisk
     \/ pc = "patch" /\ op = "expand" /\ Grown
     \/ pc = "patch" /\ op = "modify" /\ disk # NoDisk /\ disk' = Modified(Change, disk)

Cancelled(s) ==
  /\ calls[s] # Idle /\ current # s
  /\ InFlight(s)
  /\ calls' = [calls EXCEPT ![s] = Idle]
  /\ UNCHANGED <<kube, current, lost, faults>>

(* The controller restarts, the client sees Unavailable.                   *)
Restart ==
  /\ Failed
  /\ \E s \in Slots : InFlight(s)
  /\ calls' = [s \in Slots |-> Idle] /\ current' = NoCall
  /\ prov' = IF prov = "calling" THEN "background" ELSE prov
  /\ UNCHANGED <<req, pvc, pv, lost>>

CallStep(s) ==
  \/ Cancelled(s) \/ CreateVolume(s) \/ CapacityMismatch(s) \/ ReadSource(s)
  \/ GetSourceDiskSizeFails(s) \/ getSnapshotFails(s)
  \/ Created(s) \/ Throttled(s) \/ CreateFails(s) \/ claimDiskResource(s) \/ getAKSClusterResourceIDFails(s)
  \/ DeleteVolume(s) \/ unclaimDiskResource(s) \/ DeleteManagedDisk(s) \/ DeleteDisk(s) \/ UnclaimAfterDeleteFailure(s)
  \/ ControllerExpandVolume(s) \/ ResizeDisk(s) \/ ControllerModifyVolume(s) \/ ModifyDisk(s)

VolumeStep ==
  \/ \E s \in Slots : CallStep(s) \/ Provision(s) \/ Reclaim(s) \/ Resize(s) \/ Modify(s)
  \/ RemoveClaim \/ GiveUp \/ Use \/ Stop

-----------------------------------------------------------------------------
Disks == [size : Nat \ {0}, sku : SKUs, zone : Nat, iops : Int, mbps : Int, shares : Nat, owner : {"none", "us", "vm"}]

(* The claim, the volume, the disk and the calls.                          *)
TypeOK ==
  /\ pvc \in {"present", "removed"} /\ prov \in {"todo", "calling", "background", "done"}
  /\ disk = NoDisk \/ disk \in Disks
  /\ \A s \in Slots : calls[s].op \in Ops /\ calls[s].pc \in PCs
  /\ current \in Slots \cup {NoCall} /\ lost \in BOOLEAN
  /\ faults \in 0 .. MaxFaults

(* A volume is never larger than its disk and never smaller than it was    *)
(* asked for, through roundings, minimums, snapshots that decide on the    *)
(* size and report 0 bytes, and expansions that race each other; the disk  *)
(* stays within the limit unless a snapshot made it larger.                *)
PVFits ==
  pv # NoPV /\ disk # NoDisk =>
    /\ disk.size * GiB >= pv.capacity /\ pv.capacity >= req.bytes
    /\ Value(req.params, "perfplus", FALSE) /\ ~SizeFromSnapshot(req, Params(req)) => disk.size >= 513
    /\ req.limit > 0 /\ ~SizeFromSnapshot(req, Params(req)) /\ disk.size < ExpandGiB
         => disk.size <= RoundUpGiB(req.limit)

(* The disk of a volume is the one that was asked for: the attributes      *)
(* class wins over the storage class under any of its keys, a change is    *)
(* applied as a whole, IOPS are on disks that take them, shared volumes on *)
(* shared disks, a PremiumV2 disk is not cached, and wherever the volume   *)
(* may be scheduled its disk is. A change that names a SKU and no numbers  *)
(* leaves the numbers, and no change moves the volume.                     *)
WantedSkus ==
  LET of(m) == {NormalizeStorageAccountType(m[k]) : k \in DOMAIN m \cap {"skuname", "storageaccounttype"}}
  IN CASE of(req.mutable) # {} -> of(req.mutable)
       [] of(req.mutable) = {} /\ of(req.params) # {} -> of(req.params)
       [] OTHER -> {"StandardSSD_LRS"}

ChangedSkus == {Change[k] : k \in DOMAIN Change \cap {"skuname"}} \ {""}
ChangesNumbers == DOMAIN Change \cap {"diskiops", "diskmbps"} # {}

DiskAsAsked ==
  pv # NoPV /\ disk # NoDisk =>
    /\ disk.sku \in WantedSkus \cup ChangedSkus
    /\ pv.class = "create" /\ faults = 0 => disk.sku \in WantedSkus
    /\ pv.class = "change" => disk = Modified(Change, disk)
    /\ disk.iops # NoValue \/ disk.mbps # NoValue
         => disk.sku \in Provisioned \/ (disk.sku \in ChangedSkus /\ ~ChangesNumbers)
    /\ req.multi => disk.shares >= 2
    /\ WantedSkus = {"PremiumV2_LRS"} => pv.caching = "None"
    /\ \A z \in pv.topology : z[1] = Home => disk.zone \in {0, z[2]}
    /\ disk.sku \in ZRS \ ChangedSkus => {<<Location(req, Params(req)), i>> : i \in 1 .. 3} \subseteq pv.topology

(* A claim that is gone leaves no disk behind once the provisioner is done *)
(* with it, though answers are lost, creates throttled after Azure took    *)
(* them, calls given up and the controller restarted, unless CreateVolume  *)
(* answered with a final error while Azure had the disk, or an earlier     *)
(* create that was given up could still make it.                           *)
NoLeak ==
  /\ pvc = "removed" /\ prov \in {"todo", "done"} /\ pv = NoPV
  /\ \A s \in Slots : calls[s].op # "create"
  => disk = NoDisk \/ lost

(* A claim with an acceptable request gets its volume, whatever was given  *)
(* up or lost on the way. Not so if the capacity of existing disks is      *)
(* checked and a snapshot decided on the size.                             *)
ClaimIsServed ==
  (/\ pvc = "present" /\ \A sku \in AccountTypes(Params(req)) : Acceptable(req, sku)
   /\ ~(req.capacityCheck /\ SizeFromSnapshot(req, Params(req)))) ~> pv # NoPV \/ pvc = "removed"

(* The disk of a volume nobody claims is deleted: a claimed disk is        *)
(* released first, before the delete or after its failure.                 *)
DeleteEnds == (pv # NoPV /\ pvc = "removed") ~> (pv = NoPV /\ disk = NoDisk)
=============================================================================
