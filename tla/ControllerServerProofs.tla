----------------------- MODULE ControllerServerProofs -----------------------
(***************************************************************************)
(* Theorems about the volumes of ControllerServer, for every set of        *)
(* requests and changes, any number of calls at a time and of faults.      *)
(***************************************************************************)
EXTENDS ControllerServer, TLAPS

-----------------------------------------------------------------------------
(* No disk is left behind. The invariant: one create at a time is past the *)
(* lock, none once the volume is made, and a disk has a volume, a create   *)
(* that will find it again, or was given up by a final error.              *)
SkuNames == {""} \cup UNION {AccountTypes(Params(r)) : r \in Requests}
CallTypes == [op : Ops, pc : PCs, sku : SkuNames, read : BOOLEAN]

IsVolume(v) ==
  /\ v = [capacity |-> v.capacity, topology |-> v.topology, caching |-> v.caching, resize |-> v.resize,
          adopted |-> v.adopted, attached |-> v.attached, class |-> v.class]
  /\ v.class \in {"create", "change"}

Shape ==
  /\ req \in Requests
  /\ pvc \in {"present", "removed"} /\ prov \in {"todo", "calling", "background", "done"}
  /\ calls \in [Slots -> CallTypes] /\ current \in Slots \cup {NoCall} /\ lost \in BOOLEAN
  /\ pv = NoPV \/ IsVolume(pv)

(* The steps that may make a disk belong to a create.                      *)
CreateSteps == \A s \in Slots : calls[s].pc \in {"source", "put", "claim"} => calls[s].op = "create"

(* The lock of the name.                                                   *)
OneCreate == \A s, t \in Slots : Holds(s, "create") /\ Holds(t, "create") => s = t

(* The provisioner waits for a create exactly when it is calling.          *)
CallingCreates == prov = "calling" <=> (current # NoCall /\ calls[current].op = "create")

(* The other sidecars call for a volume, which stays until they are        *)
(* answered.                                                               *)
OthersHaveVolume == current # NoCall /\ calls[current].op # "create" => pv # NoPV

DoneIsDone ==
  /\ pv # NoPV => prov = "done"
  /\ prov = "done" => \A s \in Slots : ~Holds(s, "create")
  /\ prov = "todo" => lost \/ \A s \in Slots : ~Holds(s, "create")

DiskHasOwner == disk # NoDisk => lost \/ pv # NoPV \/ prov \in {"calling", "background"}

LeakInv == Shape /\ CreateSteps /\ OneCreate /\ CallingCreates /\ OthersHaveVolume /\ DoneIsDone /\ DiskHasOwner

(* A step of the call s: what the other calls do not notice.               *)
LEMMA CallChanges ==
  ASSUME LeakInv, NEW s \in Slots, NEW c \in CallTypes, calls' = [calls EXCEPT ![s] = c],
         c.pc \in {"source", "put", "claim"} => c.op = "create",
         c.op = "create" /\ c.pc # "lock" => Holds(s, "create") \/ (TryAcquire(s) /\ calls[s].op = "create")
  PROVE  /\ calls' \in [Slots -> CallTypes] /\ CreateSteps' /\ OneCreate'
         /\ calls'[s] = c /\ \A t \in Slots \ {s} : calls'[t] = calls[t]
         /\ \A t \in Slots \ {s} : Holds(t, "create")' <=> Holds(t, "create")
         /\ Holds(s, "create")' <=> c.op = "create" /\ c.pc # "lock"
<1>1. /\ calls' \in [Slots -> CallTypes]
      /\ calls'[s] = c /\ \A t \in Slots \ {s} : calls'[t] = calls[t]
  BY DEF LeakInv, Shape
<1>2. CreateSteps'
  BY <1>1 DEF LeakInv, CreateSteps
<1>3. /\ \A t \in Slots \ {s} : Holds(t, "create")' <=> Holds(t, "create")
      /\ Holds(s, "create")' <=> c.op = "create" /\ c.pc # "lock"
  BY <1>1 DEF Holds
<1>4. OneCreate'
  BY <1>3 DEF LeakInv, OneCreate, TryAcquire
<1> QED
  BY <1>1, <1>2, <1>3, <1>4

(* What is a volume, and stays one when its fields change.                 *)
LEMMA VolumeIsNot ==
  ASSUME NEW v, IsVolume(v)
  PROVE  v # NoPV
<1>1. NoPV.class = "none"
  BY DEF NoPV
<1>2. v.class # "none"
  BY DEF IsVolume
<1> QED
  BY <1>1, <1>2

LEMMA VolumeFields ==
  ASSUME NEW v, IsVolume(v), NEW c, NEW a, NEW b, NEW class \in {"create", "change"}
  PROVE  /\ IsVolume([v EXCEPT !.capacity = c])
         /\ IsVolume([v EXCEPT !.class = class])
         /\ IsVolume([v EXCEPT !.attached = a, !.adopted = b])
         /\ IsVolume([v EXCEPT !.attached = a])
<1> DEFINE Fields ==
      [capacity : {v.capacity, c}, topology : {v.topology}, caching : {v.caching}, resize : {v.resize},
       adopted : {v.adopted, b}, attached : {v.attached, a}, class : {"create", "change"}]
<1>1. v \in Fields
  BY DEF IsVolume
<1>2. /\ [v EXCEPT !.capacity = c] \in Fields /\ [v EXCEPT !.class = class] \in Fields
      /\ [v EXCEPT !.attached = a, !.adopted = b] \in Fields /\ [v EXCEPT !.attached = a] \in Fields
  BY <1>1
<1>3. ASSUME NEW w \in Fields PROVE IsVolume(w)
  BY <1>3 DEF IsVolume
<1> HIDE DEF Fields
<1> QED
  BY <1>2, <1>3

LEMMA IdleType == Idle \in CallTypes /\ Idle.op = "none" /\ Idle.pc = "idle"
<1>1. \A names : "" \in {""} \cup names
  OBVIOUS
<1>2. "" \in SkuNames
  BY <1>1 DEF SkuNames
<1> QED
  BY <1>2 DEF Idle, CallTypes, Ops, PCs

(* A step makes no disk where there was none.                              *)
NoNewDisk == disk' # NoDisk => disk # NoDisk

(* A sidecar calls.                                                        *)
LEMMA CallKeeps ==
  ASSUME LeakInv, NEW s \in Slots, NEW op \in {"delete", "expand", "modify"}, NEW label \in {"lock", "get"},
         pv # NoPV, Call(s, op, label), UNCHANGED <<kube, disk, lost>>
  PROVE  LeakInv'
<1> DEFINE c == [Idle EXCEPT !.op = op, !.pc = label]
<1>1. c \in CallTypes /\ c.op = op /\ c.pc = label
  BY IdleType DEF CallTypes, Ops, PCs
<1>2. calls' = [calls EXCEPT ![s] = c] /\ current = NoCall /\ current' = s
  BY DEF Call
<1> HIDE DEF c
<1>3. /\ calls' \in [Slots -> CallTypes] /\ CreateSteps' /\ OneCreate' /\ calls'[s] = c
      /\ \A t \in Slots : Holds(t, "create")' => Holds(t, "create")
  BY <1>1, <1>2, CallChanges
<1>4. req' = req /\ pvc' = pvc /\ prov' = prov /\ pv' = pv /\ disk' = disk /\ lost' = lost
  BY DEF kube
<1>5. Shape'
  BY <1>2, <1>3, <1>4 DEF LeakInv, Shape
<1>6. CallingCreates' /\ OthersHaveVolume'
  BY <1>1, <1>2, <1>3, <1>4 DEF LeakInv, CallingCreates, OthersHaveVolume
<1>7. DoneIsDone' /\ DiskHasOwner'
  BY <1>3, <1>4 DEF LeakInv, DoneIsDone, DiskHasOwner
<1> QED
  BY <1>3, <1>5, <1>6, <1>7 DEF LeakInv

LEMMA ProvisionKeeps ==
  ASSUME LeakInv, NEW s \in Slots, Provision(s)
  PROVE  LeakInv'
<1> DEFINE c == [Idle EXCEPT !.op = "create", !.pc = "lock"]
<1>1. c \in CallTypes /\ c.op = "create" /\ c.pc = "lock"
  BY IdleType DEF CallTypes, Ops, PCs
<1>2. calls' = [calls EXCEPT ![s] = c] /\ current = NoCall /\ current' = s
  BY DEF Provision, Call
<1> HIDE DEF c
<1>3. /\ calls' \in [Slots -> CallTypes] /\ CreateSteps' /\ OneCreate' /\ calls'[s] = c
      /\ \A t \in Slots : Holds(t, "create")' => Holds(t, "create")
  BY <1>1, <1>2, CallChanges
<1>4. /\ req' = req /\ pvc' = pvc /\ prov' = "calling" /\ pv' = pv /\ disk' = disk /\ lost' = lost
      /\ prov \in {"background", "todo"}
  BY DEF Provision
<1>5. Shape'
  BY <1>2, <1>3, <1>4 DEF LeakInv, Shape
<1>6. CallingCreates' /\ OthersHaveVolume'
  BY <1>1, <1>2, <1>3, <1>4, SlotAssumption DEF LeakInv, CallingCreates, OthersHaveVolume
<1>7. DoneIsDone' /\ DiskHasOwner'
  BY <1>3, <1>4 DEF LeakInv, DoneIsDone, DiskHasOwner
<1> QED
  BY <1>3, <1>5, <1>6, <1>7 DEF LeakInv

(* A call goes on.                                                         *)
LEMMA GoesOnKeeps ==
  ASSUME LeakInv, NEW s \in Slots, current = s, NEW c \in CallTypes, calls' = [calls EXCEPT ![s] = c],
         c.op = calls[s].op, UNCHANGED <<current, kube, lost>>,
         c.pc \in {"source", "put", "claim"} => c.op = "create",
         c.op = "create" /\ c.pc # "lock" => Holds(s, "create") \/ (TryAcquire(s) /\ calls[s].op = "create"),
         NoNewDisk \/ calls[s].op = "create"
  PROVE  LeakInv'
<1>1. /\ calls' \in [Slots -> CallTypes] /\ CreateSteps' /\ OneCreate' /\ calls'[s] = c
      /\ \A t \in Slots \ {s} : Holds(t, "create")' <=> Holds(t, "create")
      /\ Holds(s, "create")' => calls[s].op = "create"
  BY CallChanges
<1>2. req' = req /\ pvc' = pvc /\ prov' = prov /\ pv' = pv /\ lost' = lost /\ current' = s
  BY DEF kube
<1>3. Shape'
  BY <1>1, <1>2 DEF LeakInv, Shape
<1>4. CallingCreates' /\ OthersHaveVolume'
  BY <1>1, <1>2 DEF LeakInv, CallingCreates, OthersHaveVolume
<1>5. calls[s].op = "create" => prov = "calling"
  BY SlotAssumption DEF LeakInv, CallingCreates
<1>6. DoneIsDone' /\ DiskHasOwner'
  BY <1>1, <1>2, <1>5 DEF LeakInv, DoneIsDone, DiskHasOwner, NoNewDisk
<1> QED
  BY <1>1, <1>3, <1>4, <1>6 DEF LeakInv

LEMMA GotoKeeps ==
  ASSUME LeakInv, NEW s \in Slots, current = s, NEW label \in PCs, Goto(s, label), UNCHANGED lost,
         label \in {"source", "put", "claim"} => calls[s].op = "create",
         calls[s].op = "create" => Holds(s, "create"),
         NoNewDisk \/ calls[s].op = "create"
  PROVE  LeakInv'
<1> DEFINE c == [calls[s] EXCEPT !.pc = label]
<1>1. c \in CallTypes /\ c.op = calls[s].op /\ c.pc = label
  BY DEF LeakInv, Shape, CallTypes
<1>2. calls' = [calls EXCEPT ![s] = c] /\ UNCHANGED <<current, kube>>
  BY DEF Goto
<1> HIDE DEF c
<1> QED
  BY <1>1, <1>2, GoesOnKeeps

(* A call ends.                                                            *)
LEMMA ReturnChanges ==
  ASSUME LeakInv, NEW s \in Slots, Return(s)
  PROVE  /\ calls' \in [Slots -> CallTypes] /\ CreateSteps' /\ OneCreate' /\ current' = NoCall
         /\ \A t \in Slots \ {s} : Holds(t, "create")' <=> Holds(t, "create")
         /\ ~Holds(s, "create")'
BY IdleType, CallChanges DEF Return

LEMMA ReturnErrorKeeps ==
  ASSUME LeakInv, NEW s \in Slots, current = s, ReturnError(s),
         IF calls[s].op = "create"
           THEN lost' = TRUE \/ /\ disk' = NoDisk /\ lost' = lost
                                /\ \A t \in Slots \ {s} : ~Holds(t, "create")
           ELSE NoNewDisk /\ lost' = lost
  PROVE  LeakInv'
<1>1. /\ calls' \in [Slots -> CallTypes] /\ CreateSteps' /\ OneCreate' /\ current' = NoCall
      /\ \A t \in Slots \ {s} : Holds(t, "create")' <=> Holds(t, "create")
      /\ ~Holds(s, "create")'
  BY ReturnChanges DEF ReturnError
<1>2. /\ req' = req /\ pvc' = pvc /\ pv' = pv
      /\ prov' = IF prov = "calling" THEN "todo" ELSE prov
  BY DEF ReturnError
<1>3. calls[s].op = "create" <=> prov = "calling"
  BY SlotAssumption DEF LeakInv, CallingCreates
<1>4. lost' \in BOOLEAN
  <2>1. lost \in BOOLEAN
    BY DEF LeakInv, Shape
  <2>2. lost' = TRUE \/ lost' = lost
    OBVIOUS
  <2> QED
    BY <2>1, <2>2, Zenon
<1>5. Shape'
  BY <1>1, <1>2, <1>4 DEF LeakInv, Shape
<1>6. CallingCreates' /\ OthersHaveVolume'
  BY <1>1, <1>2 DEF CallingCreates, OthersHaveVolume
<1>7. DoneIsDone'
  BY <1>1, <1>2, <1>3 DEF LeakInv, DoneIsDone
<1>8. DiskHasOwner'
  BY <1>1, <1>2, <1>3 DEF LeakInv, DiskHasOwner, NoNewDisk
<1> QED
  BY <1>1, <1>5, <1>6, <1>7, <1>8 DEF LeakInv

LEMMA ReturnAbortedKeeps ==
  ASSUME LeakInv, NEW s \in Slots, current = s, calls[s].op = "create", ReturnAborted(s), UNCHANGED lost
  PROVE  LeakInv'
<1>1. /\ calls' \in [Slots -> CallTypes] /\ CreateSteps' /\ OneCreate' /\ current' = NoCall
  BY ReturnChanges DEF ReturnAborted
<1>2. req' = req /\ pvc' = pvc /\ pv' = pv /\ prov' = "background"
  BY DEF ReturnAborted
<1>3. prov = "calling"
  BY SlotAssumption DEF LeakInv, CallingCreates
<1> QED
  BY <1>1, <1>2, <1>3 DEF LeakInv, Shape, CallingCreates, OthersHaveVolume, DoneIsDone, DiskHasOwner

LEMMA ReturnVolumeKeeps ==
  ASSUME LeakInv, NEW s \in Slots, current = s, Holds(s, "create"), NEW answer, ReturnVolume(s, answer)
  PROVE  LeakInv'
<1>1. /\ calls' \in [Slots -> CallTypes] /\ CreateSteps' /\ OneCreate' /\ current' = NoCall
      /\ \A t \in Slots \ {s} : Holds(t, "create")' <=> Holds(t, "create")
      /\ ~Holds(s, "create")'
  BY ReturnChanges DEF ReturnVolume
<1>2. req' = req /\ pvc' = pvc /\ prov' = "done" /\ lost' = FALSE
  BY DEF ReturnVolume
<1>3. \A t \in Slots : ~Holds(t, "create")'
  BY <1>1 DEF LeakInv, OneCreate
<1>4. IsVolume(pv') /\ pv' # NoPV
  <2>1. IsVolume(pv')
    BY DEF ReturnVolume, IsVolume
  <2> QED
    BY <2>1, VolumeIsNot
<1> QED
  BY <1>1, <1>2, <1>3, <1>4 DEF LeakInv, Shape, CallingCreates, OthersHaveVolume, DoneIsDone, DiskHasOwner

(* The volume changes, or is deleted with its disk.                        *)
LEMMA ReturnChangedVolume ==
  ASSUME LeakInv, NEW s \in Slots, current = s, calls[s].op # "create", Return(s), UNCHANGED <<req, pvc, prov, lost>>,
         \/ pv' = NoPV /\ disk' = NoDisk
         \/ pv # NoPV /\ NoNewDisk /\ IsVolume(pv')
  PROVE  LeakInv'
<1>1. /\ calls' \in [Slots -> CallTypes] /\ CreateSteps' /\ OneCreate' /\ current' = NoCall
      /\ \A t \in Slots : Holds(t, "create")' => Holds(t, "create")
  BY ReturnChanges
<1>2. req' = req /\ pvc' = pvc /\ prov' = prov /\ lost' = lost /\ prov # "calling"
  BY SlotAssumption DEF LeakInv, CallingCreates
<1>3. IsVolume(pv') => pv' # NoPV
  BY VolumeIsNot
<1> QED
  BY <1>1, <1>2, <1>3 DEF LeakInv, Shape, CallingCreates, OthersHaveVolume, DoneIsDone, DiskHasOwner, NoNewDisk

(* A create that holds the lock is the only one.                           *)
LEMMA OnlyHolder ==
  ASSUME LeakInv, NEW s \in Slots, Holds(s, "create")
  PROVE  \A t \in Slots \ {s} : ~Holds(t, "create")
BY DEF LeakInv, OneCreate

LEMMA AtCreate ==
  ASSUME LeakInv, NEW s \in Slots, NEW label, label # "lock", At(s, "create", label)
  PROVE  current = s /\ calls[s].op = "create" /\ Holds(s, "create")
BY DEF At, Holds

LEMMA CreateKeeps ==
  ASSUME LeakInv, NEW s \in Slots,
         \/ CreateVolume(s) \/ CapacityMismatch(s) \/ ReadSource(s) \/ GetSourceDiskSizeFails(s) \/ getSnapshotFails(s)
         \/ Created(s) \/ Throttled(s) \/ CreateFails(s) \/ claimDiskResource(s) \/ getAKSClusterResourceIDFails(s)
  PROVE  LeakInv'
<1>1. CASE CreateVolume(s)
  <2>1. current = s /\ calls[s].op = "create" /\ calls[s].pc = "lock" /\ ~Holds(s, "create") /\ disk' = disk
    BY <1>1 DEF CreateVolume, At, Holds
  <2>2. CASE Refuse(s)
    <3>1. lost' = (lost \/ disk # NoDisk \/ \E t \in Slots : Holds(t, "create")) /\ ReturnError(s)
      BY <2>2 DEF Refuse
    <3>2. \/ lost' = TRUE
          \/ disk' = NoDisk /\ lost' = lost /\ \A t \in Slots \ {s} : ~Holds(t, "create")
      <4>1. lost \in BOOLEAN
        BY DEF LeakInv, Shape
      <4> QED
        BY <2>1, <3>1, <4>1, Zenon
    <3> QED
      BY <2>1, <3>1, <3>2, ReturnErrorKeeps
  <2>3. CASE ReturnAborted(s) /\ UNCHANGED lost
    BY <2>1, <2>3, ReturnAbortedKeeps
  <2>4. ASSUME NEW sku \in AccountTypes(Params(req)), TryAcquire(s), UNCHANGED <<current, kube, lost>>,
               calls' = [calls EXCEPT ![s].pc = "source", ![s].sku = sku]
        PROVE  LeakInv'
    <3> DEFINE c == [calls[s] EXCEPT !.pc = "source", !.sku = sku]
    <3>1. sku \in SkuNames
      BY DEF SkuNames, LeakInv, Shape
    <3>2. c \in CallTypes /\ c.op = "create" /\ c.pc = "source"
      BY <2>1, <3>1 DEF LeakInv, Shape, CallTypes, PCs
    <3>3. calls' = [calls EXCEPT ![s] = c]
      BY <2>4 DEF LeakInv, Shape
    <3> HIDE DEF c
    <3> QED
      BY <2>1, <2>4, <3>2, <3>3, GoesOnKeeps
  <2> QED
    BY <1>1, <2>2, <2>3, <2>4 DEF CreateVolume
<1>2. CASE CapacityMismatch(s)
  BY <1>2, AtCreate, ReturnErrorKeeps DEF CapacityMismatch
<1>3. CASE ReadSource(s)
  <2> DEFINE c == [calls[s] EXCEPT !.pc = "put", !.read = TRUE]
  <2>1. current = s /\ calls[s].op = "create" /\ Holds(s, "create")
    BY <1>3, AtCreate DEF ReadSource
  <2>2. c \in CallTypes /\ c.op = "create" /\ c.pc = "put"
    BY <2>1 DEF LeakInv, Shape, CallTypes, PCs
  <2>3. calls' = [calls EXCEPT ![s] = c] /\ UNCHANGED <<current, kube, lost>>
    BY <1>3 DEF ReadSource, LeakInv, Shape
  <2> HIDE DEF c
  <2> QED
    BY <2>1, <2>2, <2>3, GoesOnKeeps
<1>4. CASE GetSourceDiskSizeFails(s)
  BY <1>4, AtCreate, GotoKeeps DEF GetSourceDiskSizeFails, PCs
<1>5. CASE getSnapshotFails(s)
  <2>1. current = s /\ calls[s].op = "create" /\ Holds(s, "create")
    BY <1>5, AtCreate DEF getSnapshotFails
  <2>2. ReturnError(s) /\ lost' = (lost \/ disk # NoDisk) /\ disk' = disk
    BY <1>5 DEF getSnapshotFails
  <2>3. lost' = TRUE \/ (disk' = NoDisk /\ lost' = lost)
    <3>1. lost \in BOOLEAN
      BY DEF LeakInv, Shape
    <3> QED
      BY <2>2, <3>1, Zenon
  <2> QED
    BY <2>1, <2>2, <2>3, OnlyHolder, ReturnErrorKeeps
<1>6. CASE Created(s)
  <2>1. current = s /\ calls[s].op = "create" /\ Holds(s, "create")
    BY <1>6, AtCreate DEF Created
  <2>2. (Goto(s, "claim") /\ UNCHANGED lost) \/ ReturnVolume(s, Answer(s))
    BY <1>6 DEF Created
  <2> QED
    BY <2>1, <2>2, GotoKeeps, ReturnVolumeKeeps DEF PCs
<1>7. CASE Throttled(s)
  BY <1>7, AtCreate, ReturnAbortedKeeps DEF Throttled
<1>8. CASE CreateFails(s)
  <2>1. current = s /\ calls[s].op = "create" /\ Holds(s, "create")
    BY <1>8, AtCreate DEF CreateFails
  <2>2. ReturnError(s) /\ lost' = (lost \/ disk' # NoDisk)
    BY <1>8 DEF CreateFails
  <2>3. lost' = TRUE \/ (disk' = NoDisk /\ lost' = lost)
    <3>1. lost \in BOOLEAN
      BY DEF LeakInv, Shape
    <3> QED
      BY <2>2, <3>1, Zenon
  <2> QED
    BY <2>1, <2>2, <2>3, OnlyHolder, ReturnErrorKeeps
<1>9. CASE claimDiskResource(s)
  <2>1. current = s /\ calls[s].op = "create" /\ Holds(s, "create")
    BY <1>9, AtCreate DEF claimDiskResource
  <2>2. ReturnVolume(s, Answer(s)) \/ (ReturnAborted(s) /\ UNCHANGED lost)
    BY <1>9 DEF claimDiskResource
  <2> QED
    BY <2>1, <2>2, ReturnAbortedKeeps, ReturnVolumeKeeps
<1>10. CASE getAKSClusterResourceIDFails(s)
  BY <1>10, AtCreate, ReturnAbortedKeeps DEF getAKSClusterResourceIDFails
<1> QED
  BY <1>1, <1>2, <1>3, <1>4, <1>5, <1>6, <1>7, <1>8, <1>9, <1>10

(* DeleteVolume, ControllerExpandVolume and ControllerModifyVolume make no *)
(* disk, and only DeleteVolume takes the volume away, with its disk.       *)
LEMMA OtherCallKeeps ==
  ASSUME LeakInv, NEW s \in Slots,
         \/ DeleteVolume(s) \/ unclaimDiskResource(s) \/ DeleteManagedDisk(s) \/ DeleteDisk(s) \/ UnclaimAfterDeleteFailure(s)
         \/ ControllerExpandVolume(s) \/ ResizeDisk(s) \/ ControllerModifyVolume(s) \/ ModifyDisk(s)
  PROVE  LeakInv'
<1>1. current = s /\ calls[s].op # "create" /\ UNCHANGED lost
  BY DEF DeleteVolume, unclaimDiskResource, DeleteManagedDisk, DeleteDisk, UnclaimAfterDeleteFailure,
     ControllerExpandVolume, ResizeDisk, ControllerModifyVolume, ModifyDisk, At
<1>2. NoNewDisk
  BY DEF DeleteVolume, unclaimDiskResource, DeleteManagedDisk, DeleteDisk, UnclaimAfterDeleteFailure,
     ControllerExpandVolume, ResizeDisk, ControllerModifyVolume, ModifyDisk, NoNewDisk, Unclaimed, Grown
<1>3. \/ ReturnError(s)
      \/ \E label \in PCs \ {"source", "put", "claim"} : Goto(s, label)
      \/ ReturnDeleted(s) /\ disk' = NoDisk
      \/ (ReturnExpanded(s) \/ ReturnChanged(s)) /\ disk # NoDisk
  BY DEF DeleteVolume, unclaimDiskResource, DeleteManagedDisk, DeleteDisk, UnclaimAfterDeleteFailure,
     ControllerExpandVolume, ResizeDisk, ControllerModifyVolume, ModifyDisk, PCs, Grown
<1>4. CASE ReturnError(s)
  BY <1>1, <1>2, <1>4, ReturnErrorKeeps
<1>5. CASE \E label \in PCs \ {"source", "put", "claim"} : Goto(s, label)
  BY <1>1, <1>2, <1>5, GotoKeeps
<1>6. CASE ReturnDeleted(s) /\ disk' = NoDisk
  BY <1>1, <1>6, ReturnChangedVolume DEF ReturnDeleted
<1>7. CASE ReturnExpanded(s) \/ ReturnChanged(s)
  <2>1. pv # NoPV /\ IsVolume(pv)
    BY <1>1, SlotAssumption DEF LeakInv, OthersHaveVolume, Shape
  <2>2. pv' = [pv EXCEPT !.capacity = ExpandGiB * GiB] \/ pv' = [pv EXCEPT !.class = "change"]
    BY <1>7 DEF ReturnExpanded, ReturnChanged
  <2>3. IsVolume(pv')
    <3>1. \A c : IsVolume([pv EXCEPT !.capacity = c])
      BY <2>1, VolumeFields, Zenon
    <3>2. IsVolume([pv EXCEPT !.class = "change"])
      BY <2>1, VolumeFields, Zenon
    <3> QED
      BY <2>2, <3>1, <3>2, Zenon
  <2> QED
    BY <1>1, <1>2, <1>7, <2>1, <2>3, ReturnChangedVolume DEF ReturnExpanded, ReturnChanged
<1> QED
  BY <1>3, <1>4, <1>5, <1>6, <1>7

(* A request in flight makes a disk only for a create that holds the lock. *)
LEMMA InFlightMakes ==
  ASSUME LeakInv, NEW s \in Slots, InFlight(s)
  PROVE  NoNewDisk \/ Holds(s, "create")
BY DEF InFlight, LeakInv, CreateSteps, Unclaimed, Grown, NoNewDisk, Holds

LEMMA CancelledKeeps ==
  ASSUME LeakInv, NEW s \in Slots, Cancelled(s)
  PROVE  LeakInv'
<1>1. /\ calls' = [calls EXCEPT ![s] = Idle] /\ current # s /\ current' = current
      /\ req' = req /\ pvc' = pvc /\ prov' = prov /\ pv' = pv /\ lost' = lost
  BY DEF Cancelled, kube
<1>2. /\ calls' \in [Slots -> CallTypes] /\ CreateSteps' /\ OneCreate'
      /\ \A t \in Slots \ {s} : calls'[t] = calls[t]
      /\ \A t \in Slots : Holds(t, "create")' => Holds(t, "create")
  BY <1>1, IdleType, CallChanges
<1>3. NoNewDisk \/ Holds(s, "create")
  BY InFlightMakes DEF Cancelled
<1>4. current # NoCall => current \in Slots \ {s}
  BY <1>1 DEF LeakInv, Shape
<1>5. Shape' /\ CallingCreates' /\ OthersHaveVolume'
  BY <1>1, <1>2, <1>4 DEF LeakInv, Shape, CallingCreates, OthersHaveVolume
<1>6. DoneIsDone'
  BY <1>1, <1>2 DEF LeakInv, DoneIsDone
<1>7. DiskHasOwner'
  BY <1>1, <1>3 DEF LeakInv, DoneIsDone, DiskHasOwner, NoNewDisk, Shape
<1> QED
  BY <1>2, <1>5, <1>6, <1>7 DEF LeakInv

LEMMA GiveUpKeeps ==
  ASSUME LeakInv, GiveUp
  PROVE  LeakInv'
<1>1. /\ current' = NoCall /\ calls' = calls /\ disk' = disk
      /\ prov' = IF prov = "calling" THEN "background" ELSE prov
      /\ req' = req /\ pvc' = pvc /\ pv' = pv /\ lost' = lost
  BY DEF GiveUp
<1> QED
  BY <1>1 DEF LeakInv, Shape, CreateSteps, OneCreate, CallingCreates, OthersHaveVolume, DoneIsDone, DiskHasOwner, Holds

LEMMA RestartKeeps ==
  ASSUME LeakInv, Restart
  PROVE  LeakInv'
<1>1. /\ current' = NoCall /\ calls' = [s \in Slots |-> Idle]
      /\ prov' = IF prov = "calling" THEN "background" ELSE prov
      /\ req' = req /\ pvc' = pvc /\ pv' = pv /\ lost' = lost
  BY DEF Restart
<1>2. PICK s \in Slots : NoNewDisk \/ Holds(s, "create")
  BY InFlightMakes DEF Restart
<1>3. /\ calls' \in [Slots -> CallTypes]
      /\ \A t \in Slots : calls'[t].op = "none" /\ calls'[t].pc = "idle"
  BY <1>1, IdleType
<1>4. Shape' /\ CreateSteps' /\ OneCreate' /\ CallingCreates' /\ OthersHaveVolume'
  BY <1>1, <1>3 DEF LeakInv, Shape, CreateSteps, OneCreate, CallingCreates, OthersHaveVolume, Holds
<1>5. DoneIsDone'
  BY <1>1, <1>3 DEF LeakInv, DoneIsDone, Holds
<1>6. DiskHasOwner'
  BY <1>1, <1>2 DEF LeakInv, DoneIsDone, DiskHasOwner, NoNewDisk, Shape
<1> QED
  BY <1>4, <1>5, <1>6 DEF LeakInv

LEMMA PodKeeps ==
  ASSUME LeakInv, Use \/ Stop \/ RemoveClaim
  PROVE  LeakInv'
<1>1. CASE Use \/ Stop
  <2>1. /\ pv # NoPV /\ disk # NoDisk /\ calls' = calls /\ current' = current
        /\ req' = req /\ pvc' = pvc /\ prov' = prov /\ lost' = lost
    BY <1>1 DEF Use, Stop
  <2>2. IsVolume(pv)
    BY <2>1 DEF LeakInv, Shape
  <2>3. pv' = [pv EXCEPT !.attached = TRUE, !.adopted = NodeDriven] \/ pv' = [pv EXCEPT !.attached = FALSE]
    BY <1>1 DEF Use, Stop
  <2>4. IsVolume(pv')
    <3>1. IsVolume([pv EXCEPT !.attached = TRUE, !.adopted = NodeDriven])
      BY <2>2, VolumeFields, Zenon
    <3>2. IsVolume([pv EXCEPT !.attached = FALSE])
      BY <2>2, VolumeFields, Zenon
    <3> QED
      BY <2>3, <3>1, <3>2, Zenon
  <2>5. pv' # NoPV
    BY <2>4, VolumeIsNot
  <2> QED
    BY <2>1, <2>4, <2>5
       DEF LeakInv, Shape, CreateSteps, OneCreate, CallingCreates, OthersHaveVolume, DoneIsDone, DiskHasOwner, Holds
<1>2. CASE RemoveClaim
  BY <1>2 DEF RemoveClaim, LeakInv, Shape, CreateSteps, OneCreate, CallingCreates, OthersHaveVolume, DoneIsDone,
     DiskHasOwner, Holds
<1> QED
  BY <1>1, <1>2

LEMMA VolumeStepKeeps ==
  ASSUME LeakInv, VolumeStep
  PROVE  LeakInv'
<1>1. ASSUME NEW s \in Slots, CallStep(s) PROVE LeakInv'
  BY <1>1, CreateKeeps, OtherCallKeeps, CancelledKeeps DEF CallStep
<1>2. ASSUME NEW s \in Slots, Reclaim(s) \/ Resize(s) \/ Modify(s) PROVE LeakInv'
  BY <1>2, CallKeeps DEF Reclaim, Resize, Modify
<1> QED
  BY <1>1, <1>2, ProvisionKeeps, PodKeeps, GiveUpKeeps DEF VolumeStep

LEMMA SameKeeps ==
  ASSUME LeakInv, UNCHANGED volumes
  PROVE  LeakInv'
BY DEF volumes, kube, LeakInv, Shape, CreateSteps, OneCreate, CallingCreates, OthersHaveVolume, DoneIsDone,
   DiskHasOwner, Holds

LEMMA ServerKeeps ==
  ASSUME LeakInv, [ServerNext]_servervars
  PROVE  LeakInv'
<1>1. CASE VolumeWork
  BY <1>1, VolumeStepKeeps DEF VolumeWork
<1>2. CASE SnapshotWork
  BY <1>2, SameKeeps DEF SnapshotWork, besidesSnapshots
<1>3. CASE ListWork
  BY <1>3, SameKeeps DEF ListWork, vars, volumes
<1>4. CASE ServerRestart
  BY <1>4, RestartKeeps DEF ServerRestart
<1>5. CASE UNCHANGED servervars
  BY <1>5, SameKeeps DEF servervars, vars, volumes
<1> QED
  BY <1>1, <1>2, <1>3, <1>4, <1>5 DEF ServerNext

LEMMA ServerInitKeeps == ServerInit => LeakInv
<1> SUFFICES ASSUME ServerInit PROVE LeakInv
  OBVIOUS
<1>1. /\ req \in Requests /\ pvc \in {"present", "removed"} /\ prov = "todo" /\ pv = NoPV /\ disk = NoDisk
      /\ calls = [s \in Slots |-> Idle] /\ current = NoCall /\ lost = FALSE
  BY DEF ServerInit, Init, NoClaim
<1>2. calls \in [Slots -> CallTypes] /\ \A s \in Slots : calls[s].op = "none" /\ calls[s].pc = "idle"
  BY <1>1, IdleType
<1>3. lost \in BOOLEAN
  BY <1>1, Zenon
<1> QED
  BY <1>1, <1>2, <1>3 DEF LeakInv, Shape, CreateSteps, OneCreate, CallingCreates, OthersHaveVolume, DoneIsDone,
     DiskHasOwner, Holds

(* A claim that is gone leaves no disk behind, for any requests, any       *)
(* number of calls at a time and any number of calls given up, answers     *)
(* lost and restarts: after a create that was given up or throttled the    *)
(* next one finds the disk, the lock of the name keeps a create that was   *)
(* given up from making it after the volume is deleted, and a disk that is *)
(* left was answered with a final error (CreateVolume, DeleteVolume).      *)
THEOREM NothingLeaks == ServerSpec => []NoLeak
<1>1. LeakInv => NoLeak
  BY DEF LeakInv, DiskHasOwner, NoLeak
<1>2. LeakInv /\ [ServerNext]_servervars => LeakInv'
  BY ServerKeeps
<1> QED
  BY <1>1, <1>2, ServerInitKeeps, PTL DEF ServerSpec

-----------------------------------------------------------------------------
(* A volume fits its disk. The disk is made at the size of the request or  *)
(* of the snapshot, and grows to the size of the expansion or not at all.  *)
MadeGiB ==
  IF SizeFromSnapshot(req, Params(req)) THEN RoundUpGiB(req.source.bytes) ELSE requestGiB(req, Params(req))

Accepted == normalizable(req.mutable) /\ WithinLimit(req, Params(req))

IsDisk(d) ==
  d = [size |-> d.size, sku |-> d.sku, zone |-> d.zone, iops |-> d.iops, mbps |-> d.mbps, shares |-> d.shares,
       owner |-> d.owner]

(* A create past the lock was accepted; one that claims its disk has it.   *)
CreatesAccepted ==
  \A s \in Slots : Holds(s, "create") => Accepted /\ (calls[s].pc = "claim" => disk # NoDisk)

(* The other calls are made for a volume that is there: no create runs.    *)
OthersAreLater ==
  \A s \in Slots : calls[s].pc \in {"unclaim", "get", "delete", "release", "patch"} => prov = "done"

DiskIsMade ==
  disk # NoDisk =>
    /\ IsDisk(disk) /\ Accepted
    /\ disk.size \in {MadeGiB, ExpandGiB} /\ disk.size >= MadeGiB

VolumeFits ==
  pv # NoPV =>
    /\ pv.capacity \in Int /\ pv.capacity >= req.bytes
    /\ disk # NoDisk => disk.size * GiB >= pv.capacity

FitInv == LeakInv /\ CreatesAccepted /\ OthersAreLater /\ DiskIsMade /\ VolumeFits

(* Rounding up to GiB.                                                     *)
LEMMA RoundUp ==
  ASSUME NEW x \in Nat
  PROVE  /\ RoundUpGiB(x) \in Nat /\ RoundUpGiB(x) * GiB >= x
         /\ x > 0 => RoundUpGiB(x) > 0
BY DEF RoundUpGiB, RoundUpSize, GiB

(* The parameter perfplus is none of those an attributes class may set.    *)
LEMMA PerfPlusKept ==
  ASSUME NEW r \in Requests, normalizable(r.mutable)
  PROVE  Value(Params(r), "perfplus", FALSE) = Value(r.params, "perfplus", FALSE)
<1> DEFINE m == normalizeMutableDiskParameters(r.mutable)
<1>1. DOMAIN m = {mutableDiskParameterKey(k) : k \in DOMAIN r.mutable}
  BY DEF normalizeMutableDiskParameters
<1>2. "perfplus" \notin DOMAIN m
  BY <1>1 DEF normalizable
<1>3. mutableDiskParameterKey("perfplus") = "perfplus"
  BY DEF mutableDiskParameterKey
<1> HIDE DEF m
<1> DEFINE kept == {j \in DOMAIN r.params : mutableDiskParameterKey(j) \notin DOMAIN m}
<1>4. Params(r) = [k \in kept \cup DOMAIN m |-> IF k \in DOMAIN m THEN m[k] ELSE r.params[k]]
  BY DEF Params, EffectiveParams, m
<1>5. "perfplus" \in kept <=> "perfplus" \in DOMAIN r.params
  BY <1>2, <1>3
<1> HIDE DEF kept
<1> QED
  BY <1>2, <1>4, <1>5 DEF Value

(* The size a disk is made with.                                           *)
LEMMA MadeSize ==
  ASSUME req \in Requests, Accepted
  PROVE  /\ requestGiB(req, Params(req)) \in Nat \ {0}
         /\ requestGiB(req, Params(req)) * GiB >= req.bytes
         /\ MadeGiB \in Nat /\ MadeGiB >= requestGiB(req, Params(req))
         /\ Value(req.params, "perfplus", FALSE) /\ ~SizeFromSnapshot(req, Params(req)) => MadeGiB >= 513
         /\ req.limit > 0 /\ ~SizeFromSnapshot(req, Params(req)) => MadeGiB =< RoundUpGiB(req.limit)
<1> DEFINE p == Params(req)
           g == requestGiB(req, p)
<1>1. /\ req.bytes \in Nat /\ req.limit \in Nat /\ req.source.bytes \in Nat
      /\ Value(p, "perfplus", FALSE) = Value(req.params, "perfplus", FALSE)
      /\ Value(p, "perfplus", FALSE) \in BOOLEAN
  BY RequestAssumption, PerfPlusKept DEF Accepted
<1>2. /\ RoundUpGiB(req.bytes) \in Nat /\ RoundUpGiB(req.bytes) * GiB >= req.bytes
      /\ RoundUpGiB(req.limit) \in Nat /\ (req.limit > 0 => RoundUpGiB(req.limit) > 0)
      /\ RoundUpGiB(req.source.bytes) \in Nat
  BY <1>1, RoundUp
<1>3. g \in Nat \ {0} /\ g >= RoundUpGiB(req.bytes) /\ (Value(p, "perfplus", FALSE) => g >= 513)
  <2>1. g = AtLeast(IF Value(p, "perfplus", FALSE)
                      THEN AtLeast(RoundUpGiB(req.bytes), PerformancePlusMinimumDiskSizeGiB)
                      ELSE RoundUpGiB(req.bytes), MinimumDiskSizeGiB)
    BY DEF requestGiB
  <2>2. CASE Value(p, "perfplus", FALSE)
    <3>1. g = AtLeast(AtLeast(RoundUpGiB(req.bytes), 513), 1)
      BY <2>1, <2>2 DEF PerformancePlusMinimumDiskSizeGiB, MinimumDiskSizeGiB
    <3> HIDE DEF g
    <3>2. g \in Nat \ {0} /\ g >= RoundUpGiB(req.bytes) /\ g >= 513
      BY <1>2, <3>1 DEF AtLeast
    <3> QED
      BY <3>2
  <2>3. CASE ~Value(p, "perfplus", FALSE)
    <3>1. g = AtLeast(RoundUpGiB(req.bytes), 1)
      BY <2>1, <2>3 DEF MinimumDiskSizeGiB
    <3> HIDE DEF g
    <3>2. g \in Nat \ {0} /\ g >= RoundUpGiB(req.bytes)
      BY <1>2, <3>1 DEF AtLeast
    <3> QED
      BY <2>3, <3>2
  <2> QED
    BY <2>2, <2>3
<1>4. Value(p, "perfplus", FALSE) => g >= 513
  BY <1>3
<1>5. RoundUpGiB(req.limit) = 0 \/ RoundUpGiB(req.limit) >= g
  BY DEF Accepted, WithinLimit
<1>6. SizeFromSnapshot(req, p) => RoundUpGiB(req.source.bytes) > g
  BY <1>2, <1>3 DEF SizeFromSnapshot
<1> HIDE DEF p, g
<1>7. MadeGiB = IF SizeFromSnapshot(req, p) THEN RoundUpGiB(req.source.bytes) ELSE g
  BY DEF MadeGiB, p, g
<1>8. g * GiB >= req.bytes
  BY <1>1, <1>2, <1>3 DEF GiB
<1>9. MadeGiB \in Nat /\ MadeGiB >= g
  BY <1>2, <1>3, <1>6, <1>7
<1>10. Value(req.params, "perfplus", FALSE) /\ ~SizeFromSnapshot(req, p) => MadeGiB >= 513
  BY <1>1, <1>4, <1>7
<1>11. req.limit > 0 /\ ~SizeFromSnapshot(req, p) => MadeGiB =< RoundUpGiB(req.limit)
  BY <1>2, <1>3, <1>5, <1>7
<1> QED
  BY <1>3, <1>8, <1>9, <1>10, <1>11 DEF p, g

LEMMA ExpandSize ==
  ASSUME req \in Requests
  PROVE  ExpandGiB \in Nat /\ ExpandGiB * GiB >= req.bytes
<1>1. req.bytes \in Nat /\ Growth \in Nat
  BY RequestAssumption, BoundAssumption
<1>2. RoundUpGiB(req.bytes + Growth) \in Nat /\ RoundUpGiB(req.bytes + Growth) * GiB >= req.bytes + Growth
  BY <1>1, RoundUp
<1> QED
  BY <1>1, <1>2 DEF ExpandGiB, GiB

LEMMA DiskFields ==
  ASSUME NEW d, IsDisk(d), NEW x
  PROVE  /\ IsDisk([d EXCEPT !.owner = x]) /\ [d EXCEPT !.owner = x].size = d.size
         /\ IsDisk([d EXCEPT !.size = x]) /\ [d EXCEPT !.size = x].size = x
<1> DEFINE Fields ==
      [size : {d.size, x}, sku : {d.sku}, zone : {d.zone}, iops : {d.iops}, mbps : {d.mbps},
       shares : {d.shares}, owner : {d.owner, x}]
<1>1. d \in Fields
  BY DEF IsDisk
<1>2. /\ [d EXCEPT !.owner = x] \in Fields
      /\ [d EXCEPT !.size = x] \in Fields
  BY <1>1
<1>3. /\ [d EXCEPT !.owner = x].size = d.size
      /\ [d EXCEPT !.size = x].size = x
  BY <1>1
<1>4. ASSUME NEW w \in Fields PROVE IsDisk(w)
  BY <1>4 DEF IsDisk
<1> HIDE DEF Fields
<1> QED
  BY <1>2, <1>3, <1>4

(* A disk of some size is not the one that is not there.                   *)
LEMMA DiskIsNot ==
  ASSUME NEW d, d.size # 0
  PROVE  d # NoDisk
<1>1. NoDisk.size = 0
  BY DEF NoDisk
<1> QED
  BY <1>1

(* A step of the disk keeps or grows it, makes it for an accepted create,  *)
(* and takes it away only when the volume was made.                        *)
GoodDisk ==
  /\ disk' # NoDisk =>
       /\ IsDisk(disk') /\ Accepted
       /\ disk'.size \in {MadeGiB, ExpandGiB} /\ disk'.size >= MadeGiB
       /\ disk # NoDisk => disk'.size >= disk.size
       /\ disk = NoDisk => \E s \in Slots : Holds(s, "create")
  /\ disk' = NoDisk => disk = NoDisk \/ prov = "done"

LEMMA SizesTyped ==
  ASSUME FitInv
  PROVE  /\ req \in Requests /\ ExpandGiB \in Nat
         /\ Accepted => MadeGiB \in Nat \ {0}
         /\ disk # NoDisk => disk.size \in Nat \ {0}
<1>1. req \in Requests /\ ExpandGiB \in Nat
  BY ExpandSize DEF FitInv, LeakInv, Shape
<1>2. Accepted => MadeGiB \in Nat \ {0}
  BY <1>1, MadeSize
<1>3. disk # NoDisk => disk.size \in Nat \ {0}
  BY <1>1, <1>2 DEF FitInv, DiskIsMade
<1> QED
  BY <1>1, <1>2, <1>3

LEMMA SameDiskGood ==
  ASSUME FitInv, disk' = disk
  PROVE  GoodDisk
BY SizesTyped DEF FitInv, DiskIsMade, GoodDisk

(* A change of a disk that is there, of fields other than its size.        *)
LEMMA SameSizeGood ==
  ASSUME FitInv, disk # NoDisk, IsDisk(disk'), disk'.size = disk.size
  PROVE  GoodDisk
<1>1. disk.size \in Nat \ {0}
  BY SizesTyped
<1>2. disk' # NoDisk
  BY <1>1, DiskIsNot
<1> QED
  BY <1>1, <1>2 DEF FitInv, DiskIsMade, GoodDisk

LEMMA OwnerGood ==
  ASSUME FitInv, disk # NoDisk, NEW owner, disk' = [disk EXCEPT !.owner = owner]
  PROVE  GoodDisk
<1>1. IsDisk(disk)
  BY DEF FitInv, DiskIsMade
<1>2. IsDisk([disk EXCEPT !.owner = owner]) /\ [disk EXCEPT !.owner = owner].size = disk.size
  BY <1>1, DiskFields, Zenon
<1> QED
  BY <1>2, SameSizeGood

LEMMA NumbersGood ==
  ASSUME FitInv, disk # NoDisk, NEW x, NEW y, NEW z, disk' = [disk EXCEPT !.sku = x, !.iops = y, !.mbps = z]
  PROVE  GoodDisk /\ disk'.size = disk.size
<1> DEFINE Fields ==
      [size : {disk.size}, sku : {disk.sku, x}, zone : {disk.zone}, iops : {disk.iops, y}, mbps : {disk.mbps, z},
       shares : {disk.shares}, owner : {disk.owner}]
<1>1. IsDisk(disk)
  BY DEF FitInv, DiskIsMade
<1>2. disk \in Fields
  BY <1>1 DEF IsDisk
<1>3. disk' \in Fields /\ disk'.size = disk.size
  BY <1>2
<1>4. ASSUME NEW w \in Fields PROVE IsDisk(w)
  BY <1>4 DEF IsDisk
<1> HIDE DEF Fields
<1> QED
  BY <1>3, <1>4, SameSizeGood

LEMMA ModifiedGood ==
  ASSUME FitInv, disk # NoDisk, NEW m, disk' = Modified(m, disk)
  PROVE  GoodDisk
BY NumbersGood DEF Modified

LEMMA UnclaimedGood ==
  ASSUME FitInv, Unclaimed
  PROVE  GoodDisk
BY OwnerGood, SameDiskGood DEF Unclaimed

LEMMA GrownGood ==
  ASSUME FitInv, Grown
  PROVE  GoodDisk /\ disk' # NoDisk /\ disk'.size = ExpandGiB
<1>1. disk # NoDisk /\ disk.size =< ExpandGiB /\ disk' = [disk EXCEPT !.size = ExpandGiB]
  BY DEF Grown
<1>2. IsDisk(disk) /\ Accepted /\ disk.size >= MadeGiB
  BY <1>1 DEF FitInv, DiskIsMade
<1>3. /\ IsDisk([disk EXCEPT !.size = ExpandGiB])
      /\ [disk EXCEPT !.size = ExpandGiB].size = ExpandGiB
  BY <1>2, DiskFields, Zenon
<1>4. IsDisk(disk') /\ disk'.size = ExpandGiB
  BY <1>1, <1>3
<1>5. disk.size \in Nat \ {0} /\ MadeGiB \in Nat /\ ExpandGiB \in Nat \ {0} /\ ExpandGiB >= MadeGiB
  BY <1>1, <1>2, SizesTyped
<1>6. disk' # NoDisk
  BY <1>4, <1>5, DiskIsNot
<1> QED
  BY <1>1, <1>2, <1>4, <1>5, <1>6 DEF GoodDisk

LEMMA PutGood ==
  ASSUME FitInv, NEW s \in Slots, Holds(s, "create"), PutAccepted(s)
  PROVE  GoodDisk /\ disk' # NoDisk
<1> DEFINE model == DiskModel(req, calls[s].sku, calls[s].read)
<1>1. model.size = SuppliedGiB(req, Params(req)) /\ disk' = DiskOf(model)
  BY DEF PutAccepted, DiskModel
<1> HIDE DEF model
<1>2. CASE disk # NoDisk
  <2>1. disk' = [disk EXCEPT !.sku = model.sku, !.iops = model.iops, !.mbps = model.mbps]
    BY <1>1, <1>2 DEF DiskOf
  <2>2. GoodDisk
    BY <1>2, <2>1, NumbersGood
  <2>3. disk' # NoDisk
    <3>1. disk'.size = disk.size
      BY <1>2, <2>1, NumbersGood
    <3> QED
      BY <1>2, <3>1, SizesTyped, DiskIsNot
  <2> QED
    BY <2>2, <2>3
<1>3. CASE disk = NoDisk
  <2>1. Accepted
    BY DEF FitInv, CreatesAccepted
  <2>2. MadeGiB \in Nat \ {0} /\ ExpandGiB \in Nat /\ requestGiB(req, Params(req)) \in Nat \ {0}
    BY <2>1, SizesTyped, MadeSize
  <2>3. disk' = [size |-> IF model.size = 0 THEN RoundUpGiB(req.source.bytes) ELSE model.size,
                 sku |-> model.sku, zone |-> model.zone, iops |-> model.iops, mbps |-> model.mbps,
                 shares |-> model.shares, owner |-> "none"]
    BY <1>1, <1>3 DEF DiskOf
  <2>4. IsDisk(disk') /\ disk'.size = IF model.size = 0 THEN RoundUpGiB(req.source.bytes) ELSE model.size
    BY <2>3 DEF IsDisk
  <2>5. disk'.size = MadeGiB
    BY <1>1, <2>2, <2>4 DEF SuppliedGiB, MadeGiB
  <2>6. disk' # NoDisk
    BY <2>2, <2>5, DiskIsNot
  <2> QED
    BY <1>3, <2>1, <2>2, <2>4, <2>5, <2>6 DEF GoodDisk
<1> QED
  BY <1>2, <1>3

(* What is asked for does not change.                                      *)
LEMMA SameRequest ==
  ASSUME req' = req
  PROVE  (Accepted' <=> Accepted) /\ MadeGiB' = MadeGiB /\ ExpandGiB' = ExpandGiB
BY DEF Accepted, MadeGiB, ExpandGiB

LEMMA GoodDiskIsMade ==
  ASSUME FitInv, GoodDisk, req' = req
  PROVE  DiskIsMade'
<1>1. CASE disk' = NoDisk
  BY <1>1 DEF DiskIsMade, NoDisk
<1>2. CASE disk' # NoDisk
  <2>1. IsDisk(disk') /\ Accepted /\ disk'.size \in {MadeGiB, ExpandGiB} /\ disk'.size >= MadeGiB
    BY <1>2 DEF GoodDisk
  <2>2. IsDisk(disk)'
    BY <2>1 DEF IsDisk
  <2> QED
    BY <2>1, <2>2, SameRequest DEF DiskIsMade
<1> QED
  BY <1>1, <1>2

(* The capacity of the volume stays: the disk of a volume does not shrink. *)
LEMMA SameVolumeFits ==
  ASSUME FitInv, GoodDisk, req' = req, pv' # NoPV => pv # NoPV /\ pv'.capacity = pv.capacity
  PROVE  VolumeFits'
<1> SUFFICES ASSUME pv' # NoPV
             PROVE  /\ pv'.capacity \in Int /\ pv'.capacity >= req.bytes
                    /\ disk' # NoDisk => disk'.size * GiB >= pv'.capacity
  BY DEF VolumeFits, NoPV, NoDisk
<1>1. /\ pv'.capacity = pv.capacity /\ pv.capacity \in Int /\ pv.capacity >= req.bytes
      /\ disk # NoDisk => disk.size * GiB >= pv.capacity
  BY DEF FitInv, VolumeFits
<1>2. \A s \in Slots : ~Holds(s, "create")
  BY DEF FitInv, LeakInv, DoneIsDone
<1>3. ASSUME disk' # NoDisk PROVE disk'.size * GiB >= pv'.capacity
  <2>1. /\ disk # NoDisk /\ disk'.size >= disk.size /\ Accepted /\ disk'.size \in {MadeGiB, ExpandGiB}
    BY <1>2, <1>3 DEF GoodDisk
  <2>2. disk.size \in Nat /\ disk'.size \in Nat
    BY <2>1, SizesTyped
  <2> QED
    BY <1>1, <2>1, <2>2 DEF GiB
<1> QED
  BY <1>1, <1>3

(* The answer of a create.                                                 *)
LEMMA NewVolumeFits ==
  ASSUME FitInv, GoodDisk, NEW s \in Slots, Holds(s, "create"), ReturnVolume(s, Answer(s))
  PROVE  VolumeFits'
<1>1. Accepted /\ req \in Requests /\ req.bytes \in Nat
  BY RequestAssumption DEF FitInv, LeakInv, Shape, CreatesAccepted
<1>2. /\ requestGiB(req, Params(req)) \in Nat \ {0} /\ requestGiB(req, Params(req)) * GiB >= req.bytes
      /\ MadeGiB \in Nat /\ MadeGiB >= requestGiB(req, Params(req)) /\ ExpandGiB \in Nat
  BY <1>1, MadeSize, ExpandSize
<1>3. Answer(s).capacity = SuppliedGiB(req, Params(req)) * GiB
  BY DEF Answer, VolumeAnswer
<1>4. /\ pv'.capacity = IF Answer(s).capacity = 0 THEN req.bytes ELSE Answer(s).capacity
      /\ req' = req
  BY DEF ReturnVolume
<1>5. pv'.capacity \in {req.bytes, requestGiB(req, Params(req)) * GiB}
  BY <1>2, <1>3, <1>4 DEF SuppliedGiB, GiB
<1>6. /\ pv'.capacity \in Nat /\ pv'.capacity >= req.bytes
      /\ pv'.capacity =< requestGiB(req, Params(req)) * GiB
  BY <1>1, <1>2, <1>5 DEF GiB
<1>7. ASSUME disk' # NoDisk PROVE disk'.size * GiB >= pv'.capacity
  <2>1. disk'.size \in Nat /\ disk'.size >= MadeGiB
    BY <1>2, <1>7 DEF GoodDisk
  <2> QED
    BY <1>2, <1>6, <2>1 DEF GiB
<1>8. pv'.capacity \in Int /\ pv'.capacity >= req.bytes
  BY <1>6
<1> QED
  BY <1>4, <1>7, <1>8 DEF VolumeFits

(* The answer of an expansion.                                             *)
LEMMA ExpandedFits ==
  ASSUME FitInv, GoodDisk, NEW s \in Slots, pv # NoPV, ReturnExpanded(s), disk' # NoDisk, disk'.size >= ExpandGiB
  PROVE  VolumeFits'
<1>1. req \in Requests /\ ExpandGiB \in Nat /\ ExpandGiB * GiB >= req.bytes
  BY ExpandSize DEF FitInv, LeakInv, Shape
<1>2. req' = req /\ pv' = [pv EXCEPT !.capacity = ExpandGiB * GiB]
  BY DEF ReturnExpanded
<1>3. IsVolume(pv)
  BY DEF FitInv, LeakInv, Shape
<1>4. pv'.capacity = ExpandGiB * GiB
  BY <1>2, <1>3 DEF IsVolume
<1>5. disk'.size \in Nat
  BY <1>1, SizesTyped DEF GoodDisk
<1>6. ExpandGiB * GiB \in Int /\ disk'.size * GiB >= ExpandGiB * GiB
  BY <1>1, <1>5 DEF GiB
<1> QED
  BY <1>1, <1>2, <1>4, <1>6 DEF VolumeFits

Later == {"unclaim", "get", "delete", "release", "patch"}

(* A step of the call s, as the calls see it.                              *)
LEMMA StepFits ==
  ASSUME FitInv, LeakInv', GoodDisk, req' = req, prov = "done" => prov' = "done", VolumeFits',
         NEW s \in Slots, NEW c, calls' = [calls EXCEPT ![s] = c],
         c.op = "create" /\ c.pc # "lock" => Accepted /\ (c.pc = "claim" => disk' # NoDisk),
         c.pc \in Later => prov' = "done"
  PROVE  FitInv'
<1>1. calls'[s] = c /\ \A t \in Slots \ {s} : calls'[t] = calls[t]
  BY DEF FitInv, LeakInv, Shape
<1>2. OthersAreLater'
  BY <1>1 DEF FitInv, OthersAreLater, Later
<1>3. CreatesAccepted'
  <2> SUFFICES ASSUME NEW t \in Slots, Holds(t, "create")'
               PROVE  Accepted' /\ (calls'[t].pc = "claim" => disk' # NoDisk)
    BY DEF CreatesAccepted, NoDisk
  <2>1. CASE t = s
    BY <1>1, <2>1, SameRequest DEF Holds
  <2>2. CASE t # s
    <3>1. Holds(t, "create") /\ calls'[t] = calls[t]
      BY <1>1, <2>2 DEF Holds
    <3>2. Accepted /\ (calls[t].pc = "claim" => disk # NoDisk) /\ prov # "done"
      BY <3>1 DEF FitInv, CreatesAccepted, LeakInv, DoneIsDone
    <3> QED
      BY <3>1, <3>2, SameRequest DEF GoodDisk
  <2> QED
    BY <2>1, <2>2
<1> QED
  BY <1>2, <1>3, GoodDiskIsMade DEF FitInv

LEMMA ReturnFits ==
  ASSUME FitInv, LeakInv', GoodDisk, req' = req, prov = "done" => prov' = "done", VolumeFits',
         NEW s \in Slots, Return(s)
  PROVE  FitInv'
<1>1. calls' = [calls EXCEPT ![s] = Idle]
  BY DEF Return
<1> QED
  BY <1>1, IdleType, StepFits DEF Later

LEMMA ReturnErrorFits ==
  ASSUME FitInv, LeakInv', GoodDisk, NEW s \in Slots, ReturnError(s)
  PROVE  FitInv'
<1>1. /\ Return(s) /\ req' = req /\ pv' = pv /\ (prov = "done" => prov' = "done")
  BY DEF ReturnError
<1>2. VolumeFits'
  BY <1>1, SameVolumeFits
<1> QED
  BY <1>1, <1>2, ReturnFits

LEMMA ReturnAbortedFits ==
  ASSUME FitInv, LeakInv', GoodDisk, NEW s \in Slots, current = s, calls[s].op = "create", ReturnAborted(s)
  PROVE  FitInv'
<1>1. Return(s) /\ req' = req /\ pv' = pv
  BY DEF ReturnAborted
<1>2. prov # "done"
  BY SlotAssumption DEF FitInv, LeakInv, CallingCreates
<1>3. VolumeFits'
  BY <1>1, SameVolumeFits
<1> QED
  BY <1>1, <1>2, <1>3, ReturnFits

LEMMA ReturnVolumeFits ==
  ASSUME FitInv, LeakInv', GoodDisk, NEW s \in Slots, Holds(s, "create"), ReturnVolume(s, Answer(s))
  PROVE  FitInv'
<1>1. Return(s) /\ req' = req /\ prov' = "done"
  BY DEF ReturnVolume
<1>2. VolumeFits'
  BY NewVolumeFits
<1> QED
  BY <1>1, <1>2, ReturnFits

LEMMA GotoFits ==
  ASSUME FitInv, LeakInv', GoodDisk, NEW s \in Slots, NEW label, Goto(s, label),
         calls[s].op = "create" => Accepted /\ (label = "claim" => disk' # NoDisk),
         label \in Later => prov = "done"
  PROVE  FitInv'
<1> DEFINE c == [calls[s] EXCEPT !.pc = label]
<1>1. c.op = calls[s].op /\ c.pc = label
  BY DEF FitInv, LeakInv, Shape, CallTypes
<1>2. calls' = [calls EXCEPT ![s] = c] /\ req' = req /\ prov' = prov /\ pv' = pv
  BY DEF Goto, kube
<1> HIDE DEF c
<1>3. VolumeFits'
  BY <1>2, SameVolumeFits
<1> QED
  BY <1>1, <1>2, <1>3, StepFits

(* A create.                                                               *)
LEMMA CreateFits ==
  ASSUME FitInv, LeakInv', NEW s \in Slots,
         \/ CreateVolume(s) \/ CapacityMismatch(s) \/ ReadSource(s) \/ GetSourceDiskSizeFails(s) \/ getSnapshotFails(s)
         \/ Created(s) \/ Throttled(s) \/ CreateFails(s) \/ claimDiskResource(s) \/ getAKSClusterResourceIDFails(s)
  PROVE  FitInv'
<1>1. CASE CreateVolume(s)
  <2>1. current = s /\ calls[s].op = "create" /\ GoodDisk
    BY <1>1, SameDiskGood DEF CreateVolume, At
  <2>2. CASE Refuse(s)
    BY <2>1, <2>2, ReturnErrorFits DEF Refuse
  <2>3. CASE ReturnAborted(s)
    BY <2>1, <2>3, ReturnAbortedFits
  <2>4. ASSUME NEW sku, Acceptable(req, sku), UNCHANGED kube,
               calls' = [calls EXCEPT ![s].pc = "source", ![s].sku = sku]
        PROVE  FitInv'
    <3> DEFINE c == [calls[s] EXCEPT !.pc = "source", !.sku = sku]
    <3>1. Accepted
      BY <2>4 DEF Accepted, Acceptable, WellFormed, Admissible
    <3>2. c.pc = "source"
      BY DEF FitInv, LeakInv, Shape, CallTypes
    <3>3. calls' = [calls EXCEPT ![s] = c]
      BY <2>4 DEF FitInv, LeakInv, Shape
    <3> HIDE DEF c
    <3>4. req' = req /\ prov' = prov /\ pv' = pv
      BY <2>4 DEF kube
    <3>5. VolumeFits'
      BY <2>1, <3>4, SameVolumeFits
    <3> QED
      BY <2>1, <3>1, <3>2, <3>3, <3>4, <3>5, StepFits DEF Later
  <2> QED
    BY <1>1, <2>2, <2>3, <2>4 DEF CreateVolume
<1> SUFFICES ASSUME ~CreateVolume(s) PROVE FitInv'
  BY <1>1
<1>2. current = s /\ calls[s].op = "create" /\ Holds(s, "create")
  BY DEF CapacityMismatch, ReadSource, GetSourceDiskSizeFails, getSnapshotFails, Created, Throttled, CreateFails,
     claimDiskResource, getAKSClusterResourceIDFails, At, Holds
<1>3. Accepted
  BY <1>2 DEF FitInv, CreatesAccepted
<1>4. CASE CapacityMismatch(s) \/ getSnapshotFails(s)
  BY <1>4, SameDiskGood, ReturnErrorFits DEF CapacityMismatch, getSnapshotFails
<1>5. CASE ReadSource(s)
  <2> DEFINE c == [calls[s] EXCEPT !.pc = "put", !.read = TRUE]
  <2>1. c.pc = "put"
    BY DEF FitInv, LeakInv, Shape, CallTypes
  <2>2. calls' = [calls EXCEPT ![s] = c] /\ req' = req /\ prov' = prov /\ pv' = pv /\ disk' = disk
    BY <1>5 DEF ReadSource, FitInv, LeakInv, Shape, kube
  <2> HIDE DEF c
  <2>3. GoodDisk
    BY <2>2, SameDiskGood
  <2>4. VolumeFits'
    BY <2>2, <2>3, SameVolumeFits
  <2> QED
    BY <1>3, <2>1, <2>2, <2>3, <2>4, StepFits DEF Later
<1>6. CASE GetSourceDiskSizeFails(s)
  BY <1>3, <1>6, SameDiskGood, GotoFits DEF GetSourceDiskSizeFails, Later
<1>7. CASE Created(s)
  <2>1. GoodDisk /\ disk' # NoDisk
    BY <1>2, <1>7, PutGood DEF Created
  <2>2. Goto(s, "claim") \/ ReturnVolume(s, Answer(s))
    BY <1>7 DEF Created
  <2> QED
    BY <1>2, <1>3, <2>1, <2>2, GotoFits, ReturnVolumeFits DEF Later
<1>8. CASE Throttled(s) \/ CreateFails(s)
  <2>1. GoodDisk
    BY <1>2, <1>8, PutGood, SameDiskGood DEF Throttled, CreateFails, PutRefused
  <2>2. ReturnError(s) \/ ReturnAborted(s)
    BY <1>8 DEF Throttled, CreateFails
  <2> QED
    BY <1>2, <2>1, <2>2, ReturnErrorFits, ReturnAbortedFits
<1>9. CASE claimDiskResource(s)
  <2>1. disk # NoDisk
    BY <1>2, <1>9 DEF claimDiskResource, At, FitInv, CreatesAccepted
  <2>2. disk' = disk \/ Claimed
    BY <1>9 DEF claimDiskResource
  <2>3. GoodDisk
    BY <2>1, <2>2, SameDiskGood, OwnerGood DEF Claimed
  <2>4. ReturnVolume(s, Answer(s)) \/ ReturnAborted(s)
    BY <1>9 DEF claimDiskResource
  <2> QED
    BY <1>2, <2>3, <2>4, ReturnVolumeFits, ReturnAbortedFits
<1>10. CASE getAKSClusterResourceIDFails(s)
  BY <1>2, <1>10, SameDiskGood, ReturnAbortedFits DEF getAKSClusterResourceIDFails
<1> QED
  BY <1>4, <1>5, <1>6, <1>7, <1>8, <1>9, <1>10

(* The calls for a volume that is there.                                   *)
LEMMA OtherCallFits ==
  ASSUME FitInv, LeakInv', NEW s \in Slots,
         \/ DeleteVolume(s) \/ unclaimDiskResource(s) \/ DeleteManagedDisk(s) \/ DeleteDisk(s) \/ UnclaimAfterDeleteFailure(s)
         \/ ControllerExpandVolume(s) \/ ResizeDisk(s) \/ ControllerModifyVolume(s) \/ ModifyDisk(s)
  PROVE  FitInv'
<1>1. current = s /\ calls[s].op # "create"
  BY DEF DeleteVolume, unclaimDiskResource, DeleteManagedDisk, DeleteDisk, UnclaimAfterDeleteFailure,
     ControllerExpandVolume, ResizeDisk, ControllerModifyVolume, ModifyDisk, At
<1>2. pv # NoPV /\ prov = "done" /\ IsVolume(pv)
  BY <1>1, SlotAssumption DEF FitInv, LeakInv, OthersHaveVolume, DoneIsDone, Shape
<1>3. \/ disk' = disk \/ Unclaimed \/ disk' = NoDisk \/ Grown
      \/ disk # NoDisk /\ disk' = Modified(Change, disk)
  BY DEF DeleteVolume, unclaimDiskResource, DeleteManagedDisk, DeleteDisk, UnclaimAfterDeleteFailure,
     ControllerExpandVolume, ResizeDisk, ControllerModifyVolume, ModifyDisk
<1>4. GoodDisk
  <2>1. CASE disk' = NoDisk
    BY <1>2, <2>1 DEF GoodDisk
  <2> QED
    BY <1>3, <2>1, SameDiskGood, UnclaimedGood, GrownGood, ModifiedGood
<1>5. \/ ReturnError(s)
      \/ \E label \in PCs \ {"source", "put", "claim"} : Goto(s, label)
      \/ ReturnDeleted(s)
      \/ ReturnExpanded(s) /\ (Grown \/ (disk' = disk /\ disk # NoDisk /\ disk.size >= ExpandGiB))
      \/ ReturnChanged(s)
  BY DEF DeleteVolume, unclaimDiskResource, DeleteManagedDisk, DeleteDisk, UnclaimAfterDeleteFailure,
     ControllerExpandVolume, ResizeDisk, ControllerModifyVolume, ModifyDisk, PCs
<1>6. CASE ReturnError(s)
  BY <1>4, <1>6, ReturnErrorFits
<1>7. CASE \E label \in PCs \ {"source", "put", "claim"} : Goto(s, label)
  BY <1>1, <1>2, <1>4, <1>7, GotoFits
<1>8. CASE ReturnDeleted(s)
  <2>1. Return(s) /\ req' = req /\ prov' = prov /\ pv' = NoPV
    BY <1>8 DEF ReturnDeleted
  <2>2. VolumeFits'
    BY <1>4, <2>1, SameVolumeFits
  <2> QED
    BY <1>4, <2>1, <2>2, ReturnFits
<1>9. CASE ReturnExpanded(s) /\ (Grown \/ (disk' = disk /\ disk # NoDisk /\ disk.size >= ExpandGiB))
  <2>1. Return(s) /\ req' = req /\ prov' = prov
    BY <1>9 DEF ReturnExpanded
  <2>2. disk' # NoDisk /\ disk'.size >= ExpandGiB
    BY <1>9, GrownGood, SizesTyped
  <2>3. VolumeFits'
    BY <1>2, <1>4, <1>9, <2>2, ExpandedFits
  <2> QED
    BY <1>4, <2>1, <2>3, ReturnFits
<1>10. CASE ReturnChanged(s)
  <2>1. Return(s) /\ req' = req /\ prov' = prov /\ pv' = [pv EXCEPT !.class = "change"]
    BY <1>10 DEF ReturnChanged
  <2>2. pv'.capacity = pv.capacity
    BY <1>2, <2>1 DEF IsVolume
  <2>3. VolumeFits'
    BY <1>2, <1>4, <2>1, <2>2, SameVolumeFits
  <2> QED
    BY <1>4, <2>1, <2>3, ReturnFits
<1> QED
  BY <1>5, <1>6, <1>7, <1>8, <1>9, <1>10

(* A request in flight: a delete belongs to a volume that was made.        *)
LEMMA InFlightGood ==
  ASSUME FitInv, NEW s \in Slots, InFlight(s)
  PROVE  GoodDisk
<1>1. CASE calls[s].pc = "put" /\ PutAccepted(s)
  <2>1. Holds(s, "create")
    BY <1>1 DEF FitInv, LeakInv, CreateSteps, Holds
  <2> QED
    BY <1>1, <2>1, PutGood
<1>2. CASE disk # NoDisk /\ Claimed
  BY <1>2, OwnerGood DEF Claimed
<1>3. CASE calls[s].pc = "delete" /\ disk' = NoDisk
  BY <1>3 DEF FitInv, OthersAreLater, GoodDisk
<1>4. CASE disk # NoDisk /\ disk' = Modified(Change, disk)
  BY <1>4, ModifiedGood
<1> QED
  BY <1>1, <1>2, <1>3, <1>4, SameDiskGood, UnclaimedGood, GrownGood DEF InFlight

LEMMA CancelledFits ==
  ASSUME FitInv, LeakInv', NEW s \in Slots, Cancelled(s)
  PROVE  FitInv'
<1>1. calls' = [calls EXCEPT ![s] = Idle] /\ req' = req /\ prov' = prov /\ pv' = pv /\ GoodDisk
  BY InFlightGood DEF Cancelled, kube
<1>2. VolumeFits'
  BY <1>1, SameVolumeFits
<1> QED
  BY <1>1, <1>2, IdleType, StepFits DEF Later

LEMMA RestartFits ==
  ASSUME FitInv, LeakInv', Restart
  PROVE  FitInv'
<1>1. calls' = [s \in Slots |-> Idle] /\ req' = req /\ pv' = pv /\ GoodDisk
  BY InFlightGood DEF Restart
<1>2. VolumeFits'
  BY <1>1, SameVolumeFits
<1>3. \A s \in Slots : calls'[s].op = "none" /\ calls'[s].pc = "idle"
  BY <1>1, IdleType
<1>4. CreatesAccepted' /\ OthersAreLater'
  BY <1>3 DEF CreatesAccepted, OthersAreLater, Holds
<1> QED
  BY <1>1, <1>2, <1>4, GoodDiskIsMade DEF FitInv

LEMMA CallFits ==
  ASSUME FitInv, LeakInv', NEW s \in Slots, NEW op, NEW label \in {"lock", "get"}, Call(s, op, label),
         disk' = disk, req' = req, pv' = pv, prov = "done" => prov' = "done",
         op = "create" => label = "lock", label = "get" => pv # NoPV
  PROVE  FitInv'
<1> DEFINE c == [Idle EXCEPT !.op = op, !.pc = label]
<1>1. c.op = op /\ c.pc = label
  BY DEF Idle
<1>2. calls' = [calls EXCEPT ![s] = c]
  BY DEF Call
<1> HIDE DEF c
<1>3. GoodDisk /\ VolumeFits'
  BY SameDiskGood, SameVolumeFits
<1>4. c.pc \in Later => prov' = "done"
  BY <1>1 DEF FitInv, LeakInv, DoneIsDone, Later
<1> QED
  BY <1>1, <1>2, <1>3, <1>4, StepFits

LEMMA PodFits ==
  ASSUME FitInv, LeakInv', Use \/ Stop
  PROVE  FitInv'
<1>1. /\ pv # NoPV /\ disk # NoDisk /\ calls' = calls /\ req' = req /\ prov' = prov
      /\ pv' = [pv EXCEPT !.attached = TRUE, !.adopted = NodeDriven] \/ pv' = [pv EXCEPT !.attached = FALSE]
  BY DEF Use, Stop
<1>2. PICK owner : disk' = [disk EXCEPT !.owner = owner]
  BY DEF Use, Stop
<1>3. GoodDisk
  BY <1>1, <1>2, OwnerGood
<1>4. IsVolume(pv)
  BY <1>1 DEF FitInv, LeakInv, Shape
<1>5. pv'.capacity = pv.capacity
  <2>1. [pv EXCEPT !.attached = TRUE, !.adopted = NodeDriven].capacity = pv.capacity
    BY <1>4 DEF IsVolume
  <2>2. [pv EXCEPT !.attached = FALSE].capacity = pv.capacity
    BY <1>4 DEF IsVolume
  <2> QED
    BY <1>1, <2>1, <2>2, Zenon
<1>6. VolumeFits'
  BY <1>1, <1>3, <1>5, SameVolumeFits
<1>7. CreatesAccepted' /\ OthersAreLater'
  BY <1>1 DEF FitInv, CreatesAccepted, OthersAreLater, Holds, LeakInv, DoneIsDone
<1> QED
  BY <1>1, <1>3, <1>6, <1>7, GoodDiskIsMade DEF FitInv

LEMMA SameFits ==
  ASSUME FitInv, LeakInv', UNCHANGED <<req, pv, disk, calls>>, prov = "done" => prov' = "done"
  PROVE  FitInv'
<1>1. GoodDisk /\ VolumeFits'
  BY SameDiskGood, SameVolumeFits
<1>2. CreatesAccepted' /\ OthersAreLater'
  BY SameRequest DEF FitInv, CreatesAccepted, OthersAreLater, Holds, NoDisk
<1> QED
  BY <1>1, <1>2, GoodDiskIsMade DEF FitInv

LEMMA VolumeStepFits ==
  ASSUME FitInv, VolumeStep
  PROVE  FitInv'
<1>1. LeakInv'
  BY VolumeStepKeeps DEF FitInv
<1>2. ASSUME NEW s \in Slots, CallStep(s) PROVE FitInv'
  BY <1>1, <1>2, CreateFits, OtherCallFits, CancelledFits DEF CallStep
<1>3. ASSUME NEW s \in Slots, Provision(s) PROVE FitInv'
  BY <1>1, <1>3, CallFits DEF Provision
<1>4. ASSUME NEW s \in Slots, Reclaim(s) \/ Resize(s) \/ Modify(s) PROVE FitInv'
  BY <1>1, <1>4, CallFits DEF Reclaim, Resize, Modify, kube
<1>5. ASSUME RemoveClaim \/ GiveUp PROVE FitInv'
  BY <1>1, <1>5, SameFits DEF RemoveClaim, GiveUp
<1> QED
  BY <1>1, <1>2, <1>3, <1>4, <1>5, PodFits DEF VolumeStep

LEMMA ServerFits ==
  ASSUME FitInv, [ServerNext]_servervars
  PROVE  FitInv'
<1>1. LeakInv'
  BY ServerKeeps DEF FitInv
<1>2. CASE VolumeWork
  BY <1>2, VolumeStepFits DEF VolumeWork
<1>3. CASE ServerRestart
  BY <1>1, <1>3, RestartFits DEF ServerRestart
<1>4. CASE SnapshotWork \/ ListWork \/ UNCHANGED servervars
  BY <1>1, <1>4, SameFits DEF SnapshotWork, ListWork, besidesSnapshots, servervars, vars, volumes, kube
<1> QED
  BY <1>2, <1>3, <1>4 DEF ServerNext

LEMMA ServerInitFits == ServerInit => FitInv
<1> SUFFICES ASSUME ServerInit PROVE FitInv
  OBVIOUS
<1>1. LeakInv /\ disk = NoDisk /\ pv = NoPV /\ calls = [s \in Slots |-> Idle]
  BY ServerInitKeeps DEF ServerInit, Init, NoClaim
<1>2. \A s \in Slots : calls[s].op = "none" /\ calls[s].pc = "idle"
  BY <1>1, IdleType
<1> QED
  BY <1>1, <1>2 DEF FitInv, CreatesAccepted, OthersAreLater, DiskIsMade, VolumeFits, Holds

(* The volume is never larger than its disk and never smaller than asked   *)
(* for, for any requests, expansions that race each other, and any number  *)
(* of calls given up, answers lost and restarts: the size a disk is made   *)
(* with covers the answer of its create, and an expansion answers with the *)
(* size of a disk that is at least as large (CreateVolume,                 *)
(* ControllerExpandVolume). The limit holds until an expansion takes       *)
(* effect.                                                                 *)
THEOREM VolumeFitsDisk == ServerSpec => []PVFits
<1>1. FitInv => PVFits
  <2> SUFFICES ASSUME FitInv, pv # NoPV, disk # NoDisk
               PROVE  /\ disk.size * GiB >= pv.capacity /\ pv.capacity >= req.bytes
                      /\ Value(req.params, "perfplus", FALSE) /\ ~SizeFromSnapshot(req, Params(req)) => disk.size >= 513
                      /\ req.limit > 0 /\ ~SizeFromSnapshot(req, Params(req)) /\ disk.size < ExpandGiB
                           => disk.size <= RoundUpGiB(req.limit)
    BY DEF PVFits
  <2>1. disk.size * GiB >= pv.capacity /\ pv.capacity >= req.bytes
    BY DEF FitInv, VolumeFits
  <2>2. Accepted /\ disk.size \in {MadeGiB, ExpandGiB} /\ disk.size >= MadeGiB /\ req \in Requests
    BY DEF FitInv, DiskIsMade, LeakInv, Shape
  <2>3. disk.size \in Nat /\ MadeGiB \in Nat /\ ExpandGiB \in Nat
    BY <2>2, SizesTyped
  <2>4. /\ Value(req.params, "perfplus", FALSE) /\ ~SizeFromSnapshot(req, Params(req)) => MadeGiB >= 513
        /\ req.limit > 0 /\ ~SizeFromSnapshot(req, Params(req)) => MadeGiB =< RoundUpGiB(req.limit)
    BY <2>2, MadeSize
  <2>5. Value(req.params, "perfplus", FALSE) /\ ~SizeFromSnapshot(req, Params(req)) => disk.size >= 513
    BY <2>2, <2>3, <2>4
  <2>6. req.limit > 0 /\ ~SizeFromSnapshot(req, Params(req)) /\ disk.size < ExpandGiB
          => disk.size <= RoundUpGiB(req.limit)
    BY <2>2, <2>3, <2>4
  <2> QED
    BY <2>1, <2>5, <2>6
<1>2. FitInv /\ [ServerNext]_servervars => FitInv'
  BY ServerFits
<1> QED
  BY <1>1, <1>2, ServerInitFits, PTL DEF ServerSpec

-----------------------------------------------------------------------------
(* The disk is the one that was asked for. A create past the lock has a    *)
(* request that was accepted, and the disk it claims is the one it made; a *)
(* change that is sent fits the disk, whichever change came before it.     *)
Model(s) == DiskModel(req, calls[s].sku, calls[s].read)

AsAccepted(c) == Acceptable(req, c.sku) /\ c.sku \in AccountTypes(Params(req))

MadeBy(s) == disk.sku = Model(s).sku /\ disk.zone = Model(s).zone

CreatesAsAsked ==
  \A s \in Slots : Holds(s, "create") => AsAccepted(calls[s]) /\ (calls[s].pc = "claim" => MadeBy(s))

ChangeFits(d) == ChangesNumbers => ModifiedSku(Change, d) \in Provisioned

ModifiesFit ==
  \A s \in Slots : calls[s].op = "modify" /\ calls[s].pc = "patch" /\ disk # NoDisk => ChangeFits(disk)

NumbersFit(d) ==
  d.iops # NoValue \/ d.mbps # NoValue => d.sku \in Provisioned \/ (d.sku \in ChangedSkus /\ ~ChangesNumbers)

DiskAsked ==
  disk # NoDisk =>
    /\ disk.sku \in WantedSkus \cup ChangedSkus /\ (prov # "done" => disk.sku \in WantedSkus)
    /\ NumbersFit(disk)
    /\ req.multi => disk.shares >= 2

(* A change that was made is made again by no change in flight.            *)
Applied(d) ==
  /\ ModifiedSku(Change, d) = d.sku
  /\ Value(Change, "diskiops", d.iops) = d.iops /\ Value(Change, "diskmbps", d.mbps) = d.mbps

VolumeAsked ==
  pv # NoPV =>
    /\ WantedSkus = {"PremiumV2_LRS"} => pv.caching = "None"
    /\ disk # NoDisk =>
         /\ \A z \in pv.topology : z[1] = Home => disk.zone \in {0, z[2]}
         /\ disk.sku \in ZRS \ ChangedSkus => {<<Location(req, Params(req)), i>> : i \in 1 .. 3} \subseteq pv.topology
         /\ pv.class = "change" => Applied(disk)
         /\ pv.class = "create" /\ faults = 0 => disk.sku \in WantedSkus

(* Until something fails the only call is the one waited for.              *)
OneCallAtATime == faults \in Nat /\ (faults = 0 => \A s \in Slots : calls[s] # Idle => current = s)

AskedInv == FitInv /\ CreatesAsAsked /\ ModifiesFit /\ DiskAsked /\ VolumeAsked /\ OneCallAtATime

(* What a change asks for.                                                 *)
LEMMA ModifiedSkuIs ==
  ASSUME NEW d
  PROVE  ModifiedSku(Change, d) = d.sku \/ ModifiedSku(Change, d) \in ChangedSkus
BY DEF ModifiedSku, Value, ChangedSkus

LEMMA ModifiedFields ==
  ASSUME NEW d, IsDisk(d), NEW m, NEW e, e = Modified(m, d)
  PROVE  /\ e.sku = ModifiedSku(m, d) /\ e.zone = d.zone /\ e.shares = d.shares
         /\ e.iops = Value(m, "diskiops", d.iops) /\ e.mbps = Value(m, "diskmbps", d.mbps)
<1>1. PICK x, y, z : x = ModifiedSku(m, d) /\ y = Value(m, "diskiops", d.iops) /\ z = Value(m, "diskmbps", d.mbps)
  OBVIOUS
<1> DEFINE Fields ==
      [size : {d.size}, sku : {d.sku, x}, zone : {d.zone}, iops : {d.iops, y}, mbps : {d.mbps, z},
       shares : {d.shares}, owner : {d.owner}]
<1>2. d \in Fields
  BY DEF IsDisk
<1>3. e = [d EXCEPT !.sku = x, !.iops = y, !.mbps = z]
  BY <1>1 DEF Modified
<1> QED
  BY <1>1, <1>2, <1>3

(* The numbers fit the SKU after a change that was allowed.                *)
LEMMA ModifiedNumbersFit ==
  ASSUME NEW d, IsDisk(d), NumbersFit(d), ChangeFits(d), NEW e, e = Modified(Change, d)
  PROVE  NumbersFit(e) /\ ChangeFits(e) /\ Applied(e)
<1>1. /\ e.sku = ModifiedSku(Change, d)
      /\ e.iops = Value(Change, "diskiops", d.iops) /\ e.mbps = Value(Change, "diskmbps", d.mbps)
  BY ModifiedFields
<1>2. ModifiedSku(Change, e) = e.sku
  BY <1>1 DEF ModifiedSku
<1>3. Applied(e)
  BY <1>1, <1>2 DEF Applied, Value
<1>4. ChangeFits(e)
  BY <1>1, <1>2 DEF ChangeFits
<1>5. NumbersFit(e)
  <2>1. CASE ChangesNumbers
    BY <1>1, <2>1 DEF ChangeFits, NumbersFit
  <2>2. CASE ~ChangesNumbers
    <3>1. e.iops = d.iops /\ e.mbps = d.mbps
      BY <1>1, <2>2 DEF ChangesNumbers, Value
    <3>2. e.sku = d.sku \/ e.sku \in ChangedSkus
      BY <1>1, ModifiedSkuIs
    <3> QED
      BY <2>2, <3>1, <3>2 DEF NumbersFit
  <2> QED
    BY <2>1, <2>2
<1> QED
  BY <1>3, <1>4, <1>5

(* The SKU of a create is one of those the request asks for, the           *)
(* attributes class first (mutableDiskParameterKey).                       *)
LEMMA SkuIsWanted ==
  ASSUME normalizable(req.mutable), NEW sku \in AccountTypes(Params(req))
  PROVE  NormalizeStorageAccountType(sku) \in WantedSkus
<1> DEFINE Keys == {"skuname", "storageaccounttype"}
           m == normalizeMutableDiskParameters(req.mutable)
           of(q) == {NormalizeStorageAccountType(q[k]) : k \in DOMAIN q \cap Keys}
           p == Params(req)
           kept == {j \in DOMAIN req.params : mutableDiskParameterKey(j) \notin DOMAIN m}
<1>1. DOMAIN m = {mutableDiskParameterKey(k) : k \in DOMAIN req.mutable}
  BY DEF normalizeMutableDiskParameters
<1>2. p = [k \in kept \cup DOMAIN m |-> IF k \in DOMAIN m THEN m[k] ELSE req.params[k]]
  BY DEF Params, EffectiveParams
<1>3. "storageaccounttype" \notin DOMAIN m
  BY <1>1 DEF mutableDiskParameterKey
<1>4. WantedSkus = CASE of(req.mutable) # {} -> of(req.mutable)
                     [] of(req.mutable) = {} /\ of(req.params) # {} -> of(req.params)
                     [] OTHER -> {"StandardSSD_LRS"}
  BY DEF WantedSkus
<1>5. \A k : mutableDiskParameterKey(k) = "skuname" <=> k \in Keys
  BY DEF mutableDiskParameterKey
<1>6. CASE "skuname" \in DOMAIN m
  <2>1. /\ m["skuname"] = req.mutable[CHOOSE k \in DOMAIN req.mutable : mutableDiskParameterKey(k) = "skuname"]
        /\ \E k \in DOMAIN req.mutable : mutableDiskParameterKey(k) = "skuname"
    BY <1>1, <1>6 DEF normalizeMutableDiskParameters
  <2>2. PICK k \in DOMAIN req.mutable : mutableDiskParameterKey(k) = "skuname" /\ m["skuname"] = req.mutable[k]
    <3> HIDE DEF m
    <3> QED
      BY <2>1
  <2>3. k \in Keys
    BY <1>5, <2>2
  <2>4. NormalizeStorageAccountType(m["skuname"]) \in of(req.mutable)
    BY <2>2, <2>3
  <2>5. DOMAIN p \cap Keys = {"skuname"} /\ p["skuname"] = m["skuname"]
    <3>1. \A j \in Keys : j \notin kept
      BY <1>5, <1>6
    <3> HIDE DEF m, kept, p
    <3> QED
      BY <1>2, <1>3, <1>6, <3>1
  <2>6. sku = m["skuname"]
    <3>1. sku = p["skuname"]
      BY <2>5 DEF AccountTypes
    <3> QED
      BY <2>5, <3>1
  <2> HIDE DEF m, of, p, kept
  <2> QED
    BY <1>4, <2>4, <2>6
<1>7. CASE "skuname" \notin DOMAIN m
  <2>1. of(req.mutable) = {}
    BY <1>1, <1>5, <1>7
  <2>2. /\ DOMAIN p \cap Keys = DOMAIN req.params \cap Keys
        /\ \A k \in DOMAIN p \cap Keys : p[k] = req.params[k]
    <3>1. \A j \in Keys : j \in kept <=> j \in DOMAIN req.params
      BY <1>5, <1>7
    <3> HIDE DEF m, kept, p
    <3> QED
      BY <1>2, <1>3, <1>7, <3>1
  <2>3. AccountTypes(p) = IF DOMAIN p \cap Keys = {} THEN {""} ELSE {p[k] : k \in DOMAIN p \cap Keys}
    BY DEF AccountTypes
  <2>4. CASE DOMAIN req.params \cap Keys = {}
    <3>1. sku = "" /\ of(req.params) = {}
      BY <2>2, <2>3, <2>4
    <3> HIDE DEF m, of, p, kept
    <3> QED
      BY <1>4, <2>1, <3>1 DEF NormalizeStorageAccountType
  <2>5. CASE DOMAIN req.params \cap Keys # {}
    <3>1. PICK k \in DOMAIN req.params \cap Keys : sku = req.params[k]
      BY <2>2, <2>3, <2>5
    <3>2. NormalizeStorageAccountType(sku) \in of(req.params)
      BY <3>1
    <3> HIDE DEF m, of, p, kept
    <3> QED
      BY <1>4, <2>1, <3>2
  <2> QED
    BY <2>4, <2>5
<1> QED
  BY <1>6, <1>7

(* What an accepted create asks Azure for, and answers.                    *)
LEMMA ModelNumbers ==
  ASSUME NEW p, NEW sku, ModelAllowed(p, sku), NEW gib, NEW key \in {"diskiops", "diskmbps"}
  PROVE  Performance(p, sku, gib, key) # NoValue => sku \in Provisioned
<1> SUFFICES ASSUME sku \notin Provisioned PROVE Performance(p, sku, gib, key) = NoValue
  OBVIOUS
<1>1. key \notin DOMAIN p
  BY DEF ModelAllowed
<1>2. Value(p, key, NoValue) = NoValue /\ sku # "UltraSSD_LRS"
  BY <1>1 DEF Value, Provisioned
<1> QED
  BY <1>2 DEF Performance

LEMMA AcceptedModel ==
  ASSUME AskedInv, NEW s \in Slots, Holds(s, "create"), NEW model, model = Model(s)
  PROVE  /\ model.sku = NormalizeStorageAccountType(calls[s].sku) /\ model.sku \in WantedSkus
         /\ NumbersFit(model)
         /\ req.multi => model.shares >= 2
<1>1. AsAccepted(calls[s]) /\ req \in Requests
  BY DEF AskedInv, CreatesAsAsked, FitInv, LeakInv, Shape
<1> DEFINE p == Params(req)
           sku == NormalizeStorageAccountType(calls[s].sku)
<1>2. normalizable(req.mutable) /\ ModelAllowed(p, sku) /\ IsValidVolumeCapabilities(req, Value(p, "maxshares", 0))
  BY <1>1 DEF AsAccepted, Acceptable, WellFormed, Admissible
<1>3. sku \in WantedSkus
  BY <1>1, <1>2, SkuIsWanted DEF AsAccepted
<1>4. /\ model.sku = sku /\ model.shares = AtLeast(Value(p, "maxshares", 0), 1)
      /\ model.iops = Performance(p, sku, requestGiB(req, p), "diskiops")
      /\ model.mbps = Performance(p, sku, requestGiB(req, p), "diskmbps")
  BY DEF Model, DiskModel
<1>5. NumbersFit(model)
  BY <1>2, <1>4, ModelNumbers DEF NumbersFit
<1>6. Value(p, "maxshares", 0) \in Int
  BY <1>1, RequestAssumption
<1>7. ASSUME req.multi PROVE model.shares >= 2
  <2>1. PICK n \in Int : n = Value(p, "maxshares", 0)
    BY <1>6
  <2>2. n >= 2
    BY <1>2, <1>7, <2>1 DEF IsValidVolumeCapabilities
  <2>3. model.shares = AtLeast(n, 1)
    BY <1>4, <2>1
  <2> QED
    BY <2>2, <2>3 DEF AtLeast
<1> QED
  BY <1>3, <1>4, <1>5, <1>7

(* A PUT makes the disk of the model, or changes the one that is there to  *)
(* it; it cannot change its zone.                                          *)
LEMMA PutMakes ==
  ASSUME FitInv, NEW s \in Slots, PutAccepted(s), NEW d, d = disk', NEW model, model = Model(s)
  PROVE  /\ d.sku = model.sku /\ d.zone = model.zone /\ d.iops = model.iops /\ d.mbps = model.mbps
         /\ d.shares = IF disk = NoDisk THEN model.shares ELSE disk.shares
<1>1. d = DiskOf(model) /\ (disk # NoDisk => disk.zone = model.zone)
  BY DEF PutAccepted, PutAllowed, Model
<1>2. CASE disk # NoDisk
  <2> DEFINE Fields ==
        [size : {disk.size}, sku : {disk.sku, model.sku}, zone : {disk.zone}, iops : {disk.iops, model.iops},
         mbps : {disk.mbps, model.mbps}, shares : {disk.shares}, owner : {disk.owner}]
  <2>1. disk \in Fields
    BY <1>2 DEF FitInv, DiskIsMade, IsDisk
  <2>2. d = [disk EXCEPT !.sku = model.sku, !.iops = model.iops, !.mbps = model.mbps]
    BY <1>1, <1>2 DEF DiskOf
  <2> QED
    BY <1>1, <1>2, <2>1, <2>2
<1>3. CASE disk = NoDisk
  BY <1>1, <1>3 DEF DiskOf
<1> QED
  BY <1>2, <1>3

(* What is asked for does not change.                                      *)
LEMMA SameAsked ==
  ASSUME req' = req
  PROVE  /\ WantedSkus' = WantedSkus /\ ChangedSkus' = ChangedSkus /\ (ChangesNumbers' <=> ChangesNumbers)
         /\ Change' = Change /\ Location(req, Params(req))' = Location(req, Params(req))
         /\ \A d : (NumbersFit(d))' <=> NumbersFit(d)
<1>1. Change' = Change
  BY DEF Change
<1>2. WantedSkus' = WantedSkus /\ ChangedSkus' = ChangedSkus /\ (ChangesNumbers' <=> ChangesNumbers)
  BY <1>1 DEF WantedSkus, ChangedSkus, ChangesNumbers
<1> QED
  BY <1>1, <1>2 DEF NumbersFit

(* A step of the disk: it keeps what was asked for, or the create that     *)
(* holds the lock makes it, or a change is applied to it.                  *)
SameKind ==
  disk' # NoDisk =>
    /\ disk # NoDisk /\ disk'.sku = disk.sku /\ disk'.zone = disk.zone
    /\ disk'.iops = disk.iops /\ disk'.mbps = disk.mbps /\ disk'.shares = disk.shares

Put(s) == s \in Slots /\ Holds(s, "create") /\ PutAccepted(s)

Patched == prov = "done" /\ disk # NoDisk /\ ChangeFits(disk) /\ disk' = Modified(Change, disk)

LEMMA SameKindAsked ==
  ASSUME AskedInv, req' = req, prov = "done" => prov' = "done", SameKind
  PROVE  DiskAsked'
<1> SUFFICES ASSUME disk' # NoDisk
             PROVE  /\ disk'.sku \in WantedSkus \cup ChangedSkus /\ (prov' # "done" => disk'.sku \in WantedSkus)
                    /\ NumbersFit(disk')
                    /\ req.multi => disk'.shares >= 2
  <2>1. (NumbersFit(disk))' <=> NumbersFit(disk')
    BY SameAsked DEF NumbersFit
  <2> QED
    BY <2>1, SameAsked DEF DiskAsked, NoDisk
<1>1. /\ disk # NoDisk /\ disk'.sku = disk.sku
      /\ disk'.iops = disk.iops /\ disk'.mbps = disk.mbps /\ disk'.shares = disk.shares
  BY DEF SameKind
<1> QED
  BY <1>1 DEF AskedInv, DiskAsked, NumbersFit

LEMMA PutAsked ==
  ASSUME AskedInv, req' = req, NEW s \in Slots, Put(s)
  PROVE  DiskAsked'
<1>1. PICK d, model : d = disk' /\ model = Model(s)
  OBVIOUS
<1>2. /\ d.sku = model.sku /\ d.iops = model.iops /\ d.mbps = model.mbps
      /\ d.shares = IF disk = NoDisk THEN model.shares ELSE disk.shares
  BY <1>1, PutMakes DEF Put, AskedInv
<1>3. model.sku \in WantedSkus /\ NumbersFit(model) /\ (req.multi => model.shares >= 2)
  BY <1>1, AcceptedModel DEF Put
<1>4. NumbersFit(d)
  BY <1>2, <1>3 DEF NumbersFit
<1>5. req.multi => d.shares >= 2
  BY <1>2, <1>3 DEF AskedInv, DiskAsked
<1>6. (NumbersFit(disk))' <=> NumbersFit(d)
  BY <1>1, SameAsked DEF NumbersFit
<1> QED
  BY <1>1, <1>2, <1>3, <1>4, <1>5, <1>6, SameAsked DEF DiskAsked

LEMMA PatchAsked ==
  ASSUME AskedInv, req' = req, prov = "done" => prov' = "done", Patched
  PROVE  DiskAsked'
<1>1. PICK d : d = disk'
  OBVIOUS
<1>2. d = Modified(Change, disk) /\ IsDisk(disk) /\ NumbersFit(disk) /\ ChangeFits(disk)
  BY <1>1 DEF Patched, AskedInv, DiskAsked, FitInv, DiskIsMade
<1>3. NumbersFit(d)
  BY <1>2, ModifiedNumbersFit
<1>4. d.shares = disk.shares /\ (d.sku = disk.sku \/ d.sku \in ChangedSkus)
  BY <1>2, ModifiedFields, ModifiedSkuIs
<1>5. d.sku \in WantedSkus \cup ChangedSkus /\ prov' = "done" /\ (req.multi => d.shares >= 2)
  BY <1>4 DEF AskedInv, DiskAsked, Patched
<1>6. (NumbersFit(disk))' <=> NumbersFit(d)
  BY <1>1, SameAsked DEF NumbersFit
<1> QED
  BY <1>1, <1>3, <1>5, <1>6, SameAsked DEF DiskAsked

(* The volume of a create that ends: the disk is the one of the answer.    *)
LEMMA NewVolumeAsked ==
  ASSUME AskedInv, NEW s \in Slots, Holds(s, "create"), ReturnVolume(s, Answer(s)),
         disk' # NoDisk => disk'.sku = Model(s).sku /\ disk'.zone = Model(s).zone
  PROVE  VolumeAsked'
<1> DEFINE p == Params(req)
           sku == NormalizeStorageAccountType(calls[s].sku)
           read == calls[s].read
<1>1. sku \in WantedSkus
  BY AcceptedModel
<1>2. PICK topology, caching : /\ topology = AccessibleTopology(req, p, sku, read)
                               /\ caching = CachingMode(p, sku, requestGiB(req, p))
  OBVIOUS
<1>3. pv'.topology = topology /\ pv'.caching = caching /\ pv'.class = "create" /\ req' = req
  BY <1>2 DEF ReturnVolume, Answer, VolumeAnswer
<1>4. Model(s).sku = sku /\ Model(s).zone = IF sku \in ZRS THEN 0 ELSE GetZoneID(DiskZone(req, p, read))
  BY DEF Model, DiskModel
<1>5. WantedSkus = {"PremiumV2_LRS"} => caching = "None"
  BY <1>1, <1>2 DEF CachingMode
<1>6. ASSUME disk' # NoDisk, NEW z \in topology, z[1] = Home PROVE disk'.zone \in {0, z[2]}
  <2>1. sku \notin ZRS => z = DiskZone(req, p, read)
    BY <1>2, <1>6 DEF AccessibleTopology
  <2> QED
    BY <1>4, <1>6, <2>1 DEF GetZoneID
<1>7. ASSUME disk' # NoDisk, disk'.sku \in ZRS PROVE {<<Location(req, p), i>> : i \in 1 .. 3} \subseteq topology
  <2>1. topology = {<<Location(req, p), i>> : i \in 1 .. 4} \cup {NoZone}
    BY <1>2, <1>4, <1>7 DEF AccessibleTopology
  <2>2. \A i \in 1 .. 3 : i \in 1 .. 4
    OBVIOUS
  <2> QED
    BY <2>1, <2>2
<1>8. disk' # NoDisk => disk'.sku \in WantedSkus
  BY <1>1, <1>4
<1> HIDE DEF p, sku, read
<1>9. SUFFICES ASSUME pv' # NoPV
               PROVE  /\ WantedSkus = {"PremiumV2_LRS"} => pv'.caching = "None"
                      /\ disk' # NoDisk =>
                           /\ \A z \in pv'.topology : z[1] = Home => disk'.zone \in {0, z[2]}
                           /\ disk'.sku \in ZRS \ ChangedSkus
                                => {<<Location(req, Params(req)), i>> : i \in 1 .. 3} \subseteq pv'.topology
                           /\ pv'.class # "change"
                           /\ disk'.sku \in WantedSkus
  BY <1>3, SameAsked DEF VolumeAsked, NoPV, NoDisk
<1> QED
  BY <1>3, <1>5, <1>6, <1>7, <1>8 DEF p

(* A volume keeps its answer; its disk changes by a change only, which is  *)
(* the last step of a call that is answered.                               *)
VolumeStays ==
  pv' # NoPV =>
    /\ pv # NoPV /\ pv'.topology = pv.topology /\ pv'.caching = pv.caching
    /\ pv'.class = pv.class \/ (Patched /\ pv'.class = "change")

DiskStep(s) == SameKind \/ Put(s) \/ (Patched /\ (pv' # NoPV => pv'.class = "change" \/ faults' # 0))

LEMMA SameVolumeAsked ==
  ASSUME AskedInv, req' = req, OneCallAtATime', faults' = 0 => faults = 0,
         VolumeStays, NEW s, DiskStep(s)
  PROVE  VolumeAsked'
<1> SUFFICES ASSUME pv' # NoPV
             PROVE  /\ WantedSkus = {"PremiumV2_LRS"} => pv'.caching = "None"
                    /\ disk' # NoDisk =>
                         /\ \A z \in pv'.topology : z[1] = Home => disk'.zone \in {0, z[2]}
                         /\ disk'.sku \in ZRS \ ChangedSkus
                              => {<<Location(req, Params(req)), i>> : i \in 1 .. 3} \subseteq pv'.topology
                         /\ pv'.class = "change" => Applied(disk')
                         /\ pv'.class = "create" /\ faults' = 0 => disk'.sku \in WantedSkus
  <2>1. Applied(disk)' <=> Applied(disk')
    BY SameAsked DEF Applied, ModifiedSku
  <2> QED
    BY <2>1, SameAsked DEF VolumeAsked, NoPV, NoDisk
<1>1. /\ pv # NoPV /\ pv'.topology = pv.topology /\ pv'.caching = pv.caching /\ ~Put(s)
  BY DEF VolumeStays, Put, AskedInv, FitInv, LeakInv, DoneIsDone
<1>2. WantedSkus = {"PremiumV2_LRS"} => pv'.caching = "None"
  BY <1>1 DEF AskedInv, VolumeAsked
<1>3. ASSUME SameKind, disk' # NoDisk, pv'.class = pv.class
      PROVE  /\ \A z \in pv'.topology : z[1] = Home => disk'.zone \in {0, z[2]}
             /\ disk'.sku \in ZRS \ ChangedSkus
                  => {<<Location(req, Params(req)), i>> : i \in 1 .. 3} \subseteq pv'.topology
             /\ pv'.class = "change" => Applied(disk')
             /\ pv'.class = "create" /\ faults' = 0 => disk'.sku \in WantedSkus
  <2>1. /\ disk # NoDisk /\ disk'.sku = disk.sku /\ disk'.zone = disk.zone
        /\ disk'.iops = disk.iops /\ disk'.mbps = disk.mbps
    BY <1>3 DEF SameKind
  <2>2. Applied(disk) => Applied(disk')
    BY <2>1 DEF Applied, ModifiedSku
  <2> QED
    BY <1>1, <1>3, <2>1, <2>2 DEF AskedInv, VolumeAsked
<1>4. ASSUME Patched, pv'.class = "change" \/ faults' # 0
      PROVE  /\ \A z \in pv'.topology : z[1] = Home => disk'.zone \in {0, z[2]}
             /\ disk'.sku \in ZRS \ ChangedSkus
                  => {<<Location(req, Params(req)), i>> : i \in 1 .. 3} \subseteq pv'.topology
             /\ pv'.class = "change" => Applied(disk')
             /\ pv'.class = "create" /\ faults' = 0 => disk'.sku \in WantedSkus
  <2>1. PICK d : d = disk'
    OBVIOUS
  <2>2. d = Modified(Change, disk) /\ IsDisk(disk) /\ NumbersFit(disk) /\ ChangeFits(disk) /\ disk # NoDisk
    BY <1>4, <2>1 DEF Patched, AskedInv, DiskAsked, FitInv, DiskIsMade
  <2>3. Applied(d)
    BY <2>2, ModifiedNumbersFit
  <2>4. d.zone = disk.zone /\ (d.sku = disk.sku \/ d.sku \in ChangedSkus)
    BY <2>2, ModifiedFields, ModifiedSkuIs
  <2> QED
    BY <1>1, <1>4, <2>1, <2>2, <2>3, <2>4 DEF AskedInv, VolumeAsked
<1> QED
  BY <1>1, <1>2, <1>3, <1>4 DEF DiskStep, VolumeStays

(* A step of the call s, as the calls see it.                              *)
LEMMA StepAsked ==
  ASSUME AskedInv, FitInv', OneCallAtATime', req' = req, prov = "done" => prov' = "done", VolumeAsked',
         NEW s \in Slots, DiskStep(s), NEW c, calls' = [calls EXCEPT ![s] = c],
         c.op = "create" /\ c.pc # "lock" =>
           /\ AsAccepted(c)
           /\ c.pc = "claim" => /\ disk'.sku = DiskModel(req, c.sku, c.read).sku
                                /\ disk'.zone = DiskModel(req, c.sku, c.read).zone,
         c.op = "modify" /\ c.pc = "patch" /\ disk' # NoDisk => ChangeFits(disk')
  PROVE  AskedInv'
<1>1. calls'[s] = c /\ \A t \in Slots \ {s} : calls'[t] = calls[t]
  BY DEF AskedInv, FitInv, LeakInv, Shape
<1>2. DiskAsked'
  BY SameKindAsked, PutAsked, PatchAsked DEF DiskStep
<1>3. CreatesAsAsked'
  <2> SUFFICES ASSUME NEW t \in Slots, Holds(t, "create")'
               PROVE  (AsAccepted(calls[t]))' /\ (calls'[t].pc = "claim" => MadeBy(t)')
    BY DEF CreatesAsAsked
  <2>1. CASE t = s
    BY <1>1, <2>1 DEF Holds, AsAccepted, MadeBy, Model
  <2>2. CASE t # s
    <3>1. Holds(t, "create") /\ calls'[t] = calls[t]
      BY <1>1, <2>2 DEF Holds
    <3>2. AsAccepted(calls[t]) /\ (calls[t].pc = "claim" => MadeBy(t)) /\ prov # "done" /\ ~Put(s)
      BY <2>2, <3>1 DEF AskedInv, CreatesAsAsked, Put, FitInv, LeakInv, DoneIsDone, OneCreate
    <3>3. (AsAccepted(calls[t]))'
      BY <3>1, <3>2 DEF AsAccepted
    <3>4. ASSUME calls'[t].pc = "claim" PROVE MadeBy(t)'
      <4>1. disk' # NoDisk
        BY <3>4 DEF FitInv, CreatesAccepted, NoDisk
      <4>2. SameKind
        BY <3>2 DEF DiskStep, Patched
      <4> QED
        BY <3>1, <3>2, <3>4, <4>1, <4>2 DEF MadeBy, Model, SameKind
    <3> QED
      BY <3>3, <3>4
  <2> QED
    BY <2>1, <2>2
<1>4. ModifiesFit'
  <2> SUFFICES ASSUME NEW t \in Slots, calls'[t].op = "modify", calls'[t].pc = "patch", disk' # NoDisk
               PROVE  ChangeFits(disk')
    <3>1. ChangeFits(disk)' <=> ChangeFits(disk')
      BY SameAsked DEF ChangeFits, ModifiedSku
    <3> QED
      BY <3>1 DEF ModifiesFit, NoDisk
  <2>1. CASE t = s
    BY <1>1, <2>1
  <2>2. CASE t # s
    <3>1. calls[t].op = "modify" /\ calls[t].pc = "patch" /\ prov = "done" /\ ~Put(s)
      BY <1>1, <2>2 DEF AskedInv, FitInv, OthersAreLater, LeakInv, DoneIsDone, Put
    <3>2. CASE SameKind
      BY <3>1, <3>2 DEF SameKind, AskedInv, ModifiesFit, ChangeFits, ModifiedSku
    <3>3. CASE Patched
      <4>1. PICK d : d = disk'
        OBVIOUS
      <4>2. d = Modified(Change, disk) /\ IsDisk(disk) /\ NumbersFit(disk) /\ ChangeFits(disk)
        BY <3>3, <4>1 DEF Patched, AskedInv, DiskAsked, FitInv, DiskIsMade
      <4> QED
        BY <4>1, <4>2, ModifiedNumbersFit
    <3> QED
      BY <3>1, <3>2, <3>3 DEF DiskStep
  <2> QED
    BY <2>1, <2>2
<1> QED
  BY <1>2, <1>3, <1>4 DEF AskedInv

LEMMA ReturnAsked ==
  ASSUME AskedInv, FitInv', OneCallAtATime', req' = req, prov = "done" => prov' = "done", VolumeAsked',
         NEW s \in Slots, DiskStep(s), Return(s)
  PROVE  AskedInv'
<1>1. calls' = [calls EXCEPT ![s] = Idle] /\ Idle.op = "none"
  BY IdleType DEF Return
<1> QED
  BY <1>1, StepAsked

(* A call that ends with an error.                                         *)
LEMMA ErrorAsked ==
  ASSUME AskedInv, FitInv', OneCallAtATime', faults' = 0 => faults = 0, NEW s \in Slots,
         DiskStep(s), ReturnError(s) \/ (ReturnAborted(s) /\ prov # "done")
  PROVE  AskedInv'
<1>1. Return(s) /\ req' = req /\ pv' = pv /\ (prov = "done" => prov' = "done")
  BY DEF ReturnError, ReturnAborted
<1>2. VolumeAsked'
  BY <1>1, SameVolumeAsked DEF VolumeStays
<1> QED
  BY <1>1, <1>2, ReturnAsked

LEMMA GotoAsked ==
  ASSUME AskedInv, FitInv', OneCallAtATime', faults' = 0 => faults = 0, NEW s \in Slots, NEW label, Goto(s, label),
         DiskStep(s),
         calls[s].op = "create" =>
           Holds(s, "create") /\ (label = "claim" => disk'.sku = Model(s).sku /\ disk'.zone = Model(s).zone),
         calls[s].op = "modify" /\ label = "patch" /\ disk' # NoDisk => ChangeFits(disk')
  PROVE  AskedInv'
<1> DEFINE c == [calls[s] EXCEPT !.pc = label]
<1>1. c.op = calls[s].op /\ c.pc = label /\ c.sku = calls[s].sku /\ c.read = calls[s].read
  BY DEF AskedInv, FitInv, LeakInv, Shape, CallTypes
<1>2. calls' = [calls EXCEPT ![s] = c] /\ req' = req /\ prov' = prov /\ pv' = pv
  BY DEF Goto, kube
<1> HIDE DEF c
<1>3. VolumeAsked'
  BY <1>2, SameVolumeAsked DEF VolumeStays
<1>4. c.op = "create" => AsAccepted(c)
  BY <1>1 DEF AskedInv, CreatesAsAsked, AsAccepted
<1>5. DiskModel(req, c.sku, c.read) = Model(s)
  BY <1>1 DEF Model
<1> QED
  BY <1>1, <1>2, <1>3, <1>4, <1>5, StepAsked

(* Faults are counted, and those that happened stay so.                    *)
Counted == faults' = faults \/ faults' = faults + 1

LEMMA SnapshotsCount ==
  ASSUME SnapshotWork
  PROVE  Counted
<1>1. ASSUME NEW c \in Slots, Snap!SnapshotStep(c) \/ Snap!Snapshot(c) PROVE Counted
  BY <1>1 DEF Snap!SnapshotStep, Snap!Snapshot, Snap!SnapshotCancelled, Snap!LockSnapshot, Snap!FindSnapshot,
     Snap!CreateLocal, Snap!waitForSnapshotReady, Snap!ReadLocal, Snap!FindCopy, Snap!StartCopy, Snap!ReadCopy,
     Snap!DeleteLocal, Snap!Failed, Snap!Answered, Counted
<1>2. ASSUME \/ Snap!Complete \/ Snap!GiveUpSnapshot \/ Snap!ListSnapshotsByID \/ Snap!RemoveContent \/ Snap!DeleteSnapshot
      PROVE  Counted
  BY <1>2 DEF Snap!Complete, Snap!GiveUpSnapshot, Snap!ListSnapshotsByID, Snap!RemoveContent, Snap!DeleteSnapshot,
     Snap!Failed, Snap!Answered, Counted
<1> QED
  BY <1>1, <1>2 DEF SnapshotWork, Snap!Next

(* A step of the call s ends it or is waited for.                          *)
CallMoves(s) ==
  \E c : /\ calls' = [calls EXCEPT ![s] = c]
         /\ (c = Idle /\ current' = current) \/ (current = s /\ (current' = s \/ c = Idle))

LEMMA GotoMoves ==
  ASSUME Shape, NEW s \in Slots, current = s, NEW label, Goto(s, label)
  PROVE  CallMoves(s)
<1>1. calls' = [calls EXCEPT ![s] = [calls[s] EXCEPT !.pc = label]] /\ current' = current
  BY DEF Goto, Shape
<1> QED
  BY <1>1 DEF CallMoves

LEMMA CallStepMoves ==
  ASSUME Shape, NEW s \in Slots, CallStep(s)
  PROVE  CallMoves(s) /\ Counted
<1>1. CASE Cancelled(s)
  BY <1>1 DEF Cancelled, CallMoves, Counted
<1> SUFFICES ASSUME ~Cancelled(s) PROVE CallMoves(s) /\ Counted
  BY <1>1
<1>2. current = s
  BY DEF CallStep, CreateVolume, CapacityMismatch, ReadSource, GetSourceDiskSizeFails, getSnapshotFails, Created,
     Throttled, CreateFails, claimDiskResource, getAKSClusterResourceIDFails, DeleteVolume, unclaimDiskResource,
     DeleteManagedDisk, DeleteDisk, UnclaimAfterDeleteFailure, ControllerExpandVolume, ResizeDisk,
     ControllerModifyVolume, ModifyDisk, At
<1>3. Counted
  <2>1. CASE \/ CreateVolume(s) \/ CapacityMismatch(s) \/ ReadSource(s) \/ GetSourceDiskSizeFails(s) \/ getSnapshotFails(s)
             \/ Created(s) \/ Throttled(s) \/ CreateFails(s) \/ claimDiskResource(s) \/ getAKSClusterResourceIDFails(s)
    BY <2>1 DEF CreateVolume, CapacityMismatch, ReadSource, GetSourceDiskSizeFails, getSnapshotFails, Created,
       Throttled, CreateFails, claimDiskResource, getAKSClusterResourceIDFails, Polled, Failed, Answered, Counted
  <2>2. CASE \/ DeleteVolume(s) \/ unclaimDiskResource(s) \/ DeleteManagedDisk(s) \/ DeleteDisk(s)
             \/ UnclaimAfterDeleteFailure(s) \/ ControllerExpandVolume(s) \/ ResizeDisk(s)
             \/ ControllerModifyVolume(s) \/ ModifyDisk(s)
    BY <2>2 DEF DeleteVolume, unclaimDiskResource, DeleteManagedDisk, DeleteDisk, UnclaimAfterDeleteFailure,
       ControllerExpandVolume, ResizeDisk, ControllerModifyVolume, ModifyDisk, Polled, Failed, Answered, Counted
  <2> QED
    BY <2>1, <2>2 DEF CallStep
<1> SUFFICES CallMoves(s)
  BY <1>3
<1>4. CASE Return(s)
  BY <1>2, <1>4 DEF Return, CallMoves
<1>5. CASE \E label \in PCs : Goto(s, label)
  BY <1>2, <1>5, GotoMoves
<1>6. CASE \E c : calls' = [calls EXCEPT ![s] = c] /\ current' = current
  BY <1>2, <1>6 DEF CallMoves
<1>7. CASE CreateVolume(s)
  <2>1. ASSUME NEW sku, calls' = [calls EXCEPT ![s].pc = "source", ![s].sku = sku], current' = current
        PROVE  CallMoves(s)
    <3>1. calls' = [calls EXCEPT ![s] = [calls[s] EXCEPT !.pc = "source", !.sku = sku]]
      BY <2>1 DEF Shape
    <3> QED
      BY <1>6, <2>1, <3>1
  <2> QED
    BY <1>4, <1>7, <2>1 DEF CreateVolume, Refuse, ReturnError, ReturnAborted
<1>8. CASE ReadSource(s)
  <2>1. calls' = [calls EXCEPT ![s] = [calls[s] EXCEPT !.pc = "put", !.read = TRUE]] /\ current' = current
    BY <1>8 DEF ReadSource, Shape
  <2> QED
    BY <1>6, <2>1
<1>9. CASE \/ CapacityMismatch(s) \/ GetSourceDiskSizeFails(s) \/ getSnapshotFails(s)
           \/ Created(s) \/ Throttled(s) \/ CreateFails(s) \/ claimDiskResource(s) \/ getAKSClusterResourceIDFails(s)
  BY <1>4, <1>5, <1>9
     DEF CapacityMismatch, GetSourceDiskSizeFails, getSnapshotFails, Created, Throttled, CreateFails,
         claimDiskResource, getAKSClusterResourceIDFails, ReturnError, ReturnAborted, ReturnVolume, PCs
<1>10. CASE \/ DeleteVolume(s) \/ unclaimDiskResource(s) \/ DeleteManagedDisk(s) \/ DeleteDisk(s)
            \/ UnclaimAfterDeleteFailure(s) \/ ControllerExpandVolume(s) \/ ResizeDisk(s)
            \/ ControllerModifyVolume(s) \/ ModifyDisk(s)
  <2>1. Return(s) \/ \E label \in PCs : Goto(s, label)
    BY <1>10 DEF DeleteVolume, unclaimDiskResource, DeleteManagedDisk, DeleteDisk, UnclaimAfterDeleteFailure,
       ControllerExpandVolume, ResizeDisk, ControllerModifyVolume, ModifyDisk, ReturnError, ReturnDeleted,
       ReturnExpanded, ReturnChanged, PCs
  <2> QED
    BY <1>4, <1>5, <2>1
<1> QED
  BY <1>7, <1>8, <1>9, <1>10 DEF CallStep

LEMMA ServerOneCall ==
  ASSUME LeakInv, OneCallAtATime, [ServerNext]_servervars
  PROVE  OneCallAtATime' /\ (faults' = 0 => faults = 0)
<1>1. faults \in Nat /\ Shape
  BY DEF LeakInv, OneCallAtATime
<1>2. Counted => faults' \in Nat /\ (faults' = 0 => faults = 0)
  BY <1>1 DEF Counted
<1>3. ASSUME NEW s \in Slots, CallStep(s) PROVE Counted /\ OneCallAtATime'
  <2>1. Counted /\ CallMoves(s)
    BY <1>1, <1>3, CallStepMoves
  <2>2. PICK c : /\ calls' = [calls EXCEPT ![s] = c]
                 /\ (c = Idle /\ current' = current) \/ (current = s /\ (current' = s \/ c = Idle))
    BY <2>1 DEF CallMoves
  <2>3. calls'[s] = c /\ \A t \in Slots \ {s} : calls'[t] = calls[t]
    BY <1>1, <2>2 DEF Shape
  <2>4. ASSUME faults' = 0, NEW t \in Slots, calls'[t] # Idle PROVE current' = t
    BY <1>2, <2>1, <2>2, <2>3, <2>4 DEF OneCallAtATime
  <2> QED
    BY <1>2, <2>1, <2>4 DEF OneCallAtATime, Idle
<1>4. ASSUME NEW s \in Slots, NEW op, NEW label, Call(s, op, label), UNCHANGED faults PROVE Counted /\ OneCallAtATime'
  <2>1. current = NoCall /\ current' = s /\ \A t \in Slots \ {s} : calls'[t] = calls[t]
    BY <1>1, <1>4 DEF Call, Shape
  <2>2. ASSUME faults' = 0, NEW t \in Slots, calls'[t] # Idle PROVE current' = t
    BY <1>4, <2>1, <2>2, SlotAssumption DEF OneCallAtATime
  <2> QED
    BY <1>2, <1>4, <2>2 DEF OneCallAtATime, Counted, Idle
<1>5. ASSUME Failed PROVE Counted /\ OneCallAtATime'
  BY <1>1, <1>5 DEF Failed, Counted, OneCallAtATime
<1>6. ASSUME Counted, UNCHANGED <<calls, current>> PROVE OneCallAtATime'
  BY <1>2, <1>6 DEF OneCallAtATime, Idle
<1>7. CASE VolumeWork
  <2>1. CASE \E s \in Slots : CallStep(s)
    BY <1>2, <1>3, <2>1
  <2>2. CASE \E s \in Slots : Provision(s) \/ Reclaim(s) \/ Resize(s) \/ Modify(s)
    BY <1>2, <1>4, <2>2 DEF Provision, Reclaim, Resize, Modify
  <2>3. CASE GiveUp
    BY <1>2, <1>5, <2>3 DEF GiveUp
  <2>4. CASE RemoveClaim \/ Use \/ Stop
    <3>1. UNCHANGED <<calls, current, faults>>
      BY <2>4 DEF RemoveClaim, Use, Stop
    <3> QED
      BY <1>2, <1>6, <3>1 DEF Counted
  <2> QED
    BY <1>7, <2>1, <2>2, <2>3, <2>4 DEF VolumeWork, VolumeStep
<1>8. CASE ServerRestart
  BY <1>2, <1>5, <1>8 DEF ServerRestart, Restart
<1>9. CASE SnapshotWork
  BY <1>2, <1>6, <1>9, SnapshotsCount DEF SnapshotWork, besidesSnapshots, volumes
<1>10. CASE ListWork \/ UNCHANGED servervars
  BY <1>2, <1>6, <1>10 DEF ListWork, servervars, vars, Counted
<1> QED
  BY <1>7, <1>8, <1>9, <1>10 DEF ServerNext

(* Changes of a disk that leave what was asked for.                        *)
LEMMA SameDiskKind ==
  ASSUME disk' = disk
  PROVE  SameKind
BY DEF SameKind

LEMMA OwnerKind ==
  ASSUME NEW owner, IsDisk(disk), disk # NoDisk, disk' = [disk EXCEPT !.owner = owner]
  PROVE  SameKind
<1> DEFINE Fields ==
      [size : {disk.size}, sku : {disk.sku}, zone : {disk.zone}, iops : {disk.iops}, mbps : {disk.mbps},
       shares : {disk.shares}, owner : {disk.owner, owner}]
<1>1. disk \in Fields
  BY DEF IsDisk
<1> QED
  BY <1>1 DEF SameKind

LEMMA UnclaimedKind ==
  ASSUME FitInv, Unclaimed
  PROVE  SameKind
BY OwnerKind, SameDiskKind DEF Unclaimed, FitInv, DiskIsMade

LEMMA GrownKind ==
  ASSUME FitInv, Grown
  PROVE  SameKind
<1> DEFINE Fields ==
      [size : {disk.size, ExpandGiB}, sku : {disk.sku}, zone : {disk.zone}, iops : {disk.iops}, mbps : {disk.mbps},
       shares : {disk.shares}, owner : {disk.owner}]
<1>1. disk # NoDisk /\ disk' = [disk EXCEPT !.size = ExpandGiB]
  BY DEF Grown
<1>2. disk \in Fields
  BY <1>1 DEF IsDisk, FitInv, DiskIsMade
<1> QED
  BY <1>1, <1>2 DEF SameKind

(* A create.                                                               *)
LEMMA CreateAsked ==
  ASSUME AskedInv, FitInv', OneCallAtATime', faults' = 0 => faults = 0, NEW s \in Slots,
         \/ CreateVolume(s) \/ CapacityMismatch(s) \/ ReadSource(s) \/ GetSourceDiskSizeFails(s) \/ getSnapshotFails(s)
         \/ Created(s) \/ Throttled(s) \/ CreateFails(s) \/ claimDiskResource(s) \/ getAKSClusterResourceIDFails(s)
  PROVE  AskedInv'
<1>1. current = s /\ calls[s].op = "create"
  BY DEF CreateVolume, CapacityMismatch, ReadSource, GetSourceDiskSizeFails, getSnapshotFails, Created, Throttled,
     CreateFails, claimDiskResource, getAKSClusterResourceIDFails, At
<1>2. prov = "calling"
  BY <1>1, SlotAssumption DEF AskedInv, FitInv, LeakInv, CallingCreates
<1>3. SameKind => DiskStep(s)
  BY DEF DiskStep
<1>4. Put(s) => DiskStep(s)
  BY DEF DiskStep
<1>5. CASE CreateVolume(s)
  <2>1. SameKind
    BY <1>5, SameDiskKind DEF CreateVolume
  <2>2. CASE Refuse(s) \/ ReturnAborted(s)
    BY <1>2, <1>3, <2>1, <2>2, ErrorAsked DEF Refuse
  <2>3. ASSUME NEW sku \in AccountTypes(Params(req)), Acceptable(req, sku), UNCHANGED kube,
               calls' = [calls EXCEPT ![s].pc = "source", ![s].sku = sku]
        PROVE  AskedInv'
    <3> DEFINE c == [calls[s] EXCEPT !.pc = "source", !.sku = sku]
    <3>1. c.op = "create" /\ c.pc = "source" /\ c.sku = sku
      BY <1>1 DEF AskedInv, FitInv, LeakInv, Shape, CallTypes
    <3>2. calls' = [calls EXCEPT ![s] = c]
      BY <2>3 DEF AskedInv, FitInv, LeakInv, Shape
    <3> HIDE DEF c
    <3>3. AsAccepted(c)
      BY <2>3, <3>1 DEF AsAccepted
    <3>4. req' = req /\ prov' = prov /\ pv' = pv
      BY <2>3 DEF kube
    <3>5. VolumeAsked'
      BY <1>3, <2>1, <3>4, SameVolumeAsked DEF VolumeStays
    <3> QED
      BY <1>3, <2>1, <3>1, <3>2, <3>3, <3>4, <3>5, StepAsked
  <2> QED
    BY <1>5, <2>2, <2>3 DEF CreateVolume
<1> SUFFICES ASSUME ~CreateVolume(s) PROVE AskedInv'
  BY <1>5
<1>6. Holds(s, "create")
  BY <1>1 DEF CapacityMismatch, ReadSource, GetSourceDiskSizeFails, getSnapshotFails, Created, Throttled, CreateFails,
     claimDiskResource, getAKSClusterResourceIDFails, At, Holds
<1>7. CASE CapacityMismatch(s) \/ getSnapshotFails(s) \/ getAKSClusterResourceIDFails(s)
  <2>1. disk' = disk /\ (ReturnError(s) \/ ReturnAborted(s))
    BY <1>7 DEF CapacityMismatch, getSnapshotFails, getAKSClusterResourceIDFails
  <2> QED
    BY <1>2, <1>3, <2>1, SameDiskKind, ErrorAsked
<1>8. CASE ReadSource(s)
  <2> DEFINE c == [calls[s] EXCEPT !.pc = "put", !.read = TRUE]
  <2>1. c.op = "create" /\ c.pc = "put" /\ c.sku = calls[s].sku
    BY <1>1 DEF AskedInv, FitInv, LeakInv, Shape, CallTypes
  <2>2. calls' = [calls EXCEPT ![s] = c] /\ req' = req /\ prov' = prov /\ pv' = pv /\ disk' = disk
    BY <1>8 DEF ReadSource, AskedInv, FitInv, LeakInv, Shape, kube
  <2> HIDE DEF c
  <2>3. AsAccepted(c)
    BY <1>6, <2>1 DEF AskedInv, CreatesAsAsked, AsAccepted
  <2>4. DiskStep(s)
    BY <1>3, <2>2, SameDiskKind
  <2>5. VolumeAsked'
    BY <2>2, <2>4, SameVolumeAsked DEF VolumeStays
  <2> QED
    BY <2>1, <2>2, <2>3, <2>4, <2>5, StepAsked
<1>9. CASE GetSourceDiskSizeFails(s)
  <2>1. disk' = disk /\ Goto(s, "put")
    BY <1>9 DEF GetSourceDiskSizeFails
  <2> QED
    BY <1>1, <1>3, <1>6, <2>1, SameDiskKind, GotoAsked
<1>10. CASE Created(s)
  <2>1. Put(s) /\ (Goto(s, "claim") \/ ReturnVolume(s, Answer(s)))
    BY <1>6, <1>10 DEF Created, Put
  <2>2. disk'.sku = Model(s).sku /\ disk'.zone = Model(s).zone
    BY <2>1, PutMakes DEF Put, AskedInv
  <2>3. CASE Goto(s, "claim")
    BY <1>1, <1>4, <1>6, <2>1, <2>2, <2>3, GotoAsked
  <2>4. CASE ReturnVolume(s, Answer(s))
    <3>1. VolumeAsked'
      BY <1>6, <2>2, <2>4, NewVolumeAsked
    <3>2. Return(s) /\ req' = req /\ prov' = "done"
      BY <2>4 DEF ReturnVolume
    <3> QED
      BY <1>4, <2>1, <3>1, <3>2, ReturnAsked
  <2> QED
    BY <2>1, <2>3, <2>4
<1>11. CASE Throttled(s) \/ CreateFails(s)
  <2>1. (Put(s) \/ disk' = disk) /\ (ReturnError(s) \/ ReturnAborted(s))
    BY <1>6, <1>11 DEF Throttled, CreateFails, PutRefused, Put
  <2> QED
    BY <1>2, <1>3, <1>4, <2>1, SameDiskKind, ErrorAsked
<1>12. CASE claimDiskResource(s)
  <2>1. disk # NoDisk /\ IsDisk(disk) /\ MadeBy(s)
    BY <1>6, <1>12
       DEF claimDiskResource, At, AskedInv, CreatesAsAsked, FitInv, CreatesAccepted, DiskIsMade
  <2>2. disk' = disk \/ Claimed
    BY <1>12 DEF claimDiskResource
  <2>3. SameKind
    BY <2>1, <2>2, SameDiskKind, OwnerKind DEF Claimed
  <2>4. ReturnVolume(s, Answer(s)) \/ ReturnAborted(s)
    BY <1>12 DEF claimDiskResource
  <2>5. CASE ReturnVolume(s, Answer(s))
    <3>1. VolumeAsked'
      BY <1>6, <2>1, <2>3, <2>5, NewVolumeAsked DEF SameKind, MadeBy
    <3>2. Return(s) /\ req' = req /\ prov' = "done"
      BY <2>5 DEF ReturnVolume
    <3> QED
      BY <1>3, <2>3, <3>1, <3>2, ReturnAsked
  <2> QED
    BY <1>2, <1>3, <2>3, <2>4, <2>5, ErrorAsked
<1> QED
  BY <1>7, <1>8, <1>9, <1>10, <1>11, <1>12

(* Deletes and expansions leave what was asked for.                        *)
LEMMA OtherCallAsked ==
  ASSUME AskedInv, FitInv', OneCallAtATime', faults' = 0 => faults = 0, NEW s \in Slots,
         \/ DeleteVolume(s) \/ unclaimDiskResource(s) \/ DeleteManagedDisk(s) \/ DeleteDisk(s) \/ UnclaimAfterDeleteFailure(s)
         \/ ControllerExpandVolume(s) \/ ResizeDisk(s)
  PROVE  AskedInv'
<1>1. current = s /\ calls[s].op \in {"delete", "expand"}
  BY DEF DeleteVolume, unclaimDiskResource, DeleteManagedDisk, DeleteDisk, UnclaimAfterDeleteFailure,
     ControllerExpandVolume, ResizeDisk, At
<1>2. pv # NoPV /\ IsVolume(pv)
  BY <1>1, SlotAssumption DEF AskedInv, FitInv, LeakInv, OthersHaveVolume, Shape
<1>3. DiskStep(s)
  <2>1. disk' = disk \/ Unclaimed \/ disk' = NoDisk \/ Grown
    BY DEF DeleteVolume, unclaimDiskResource, DeleteManagedDisk, DeleteDisk, UnclaimAfterDeleteFailure,
       ControllerExpandVolume, ResizeDisk
  <2>2. disk' = NoDisk => SameKind
    BY DEF SameKind
  <2> QED
    BY <2>1, <2>2, SameDiskKind, UnclaimedKind, GrownKind DEF DiskStep, AskedInv
<1>4. ReturnError(s) \/ (\E label : Goto(s, label)) \/ ReturnDeleted(s) \/ ReturnExpanded(s)
  BY DEF DeleteVolume, unclaimDiskResource, DeleteManagedDisk, DeleteDisk, UnclaimAfterDeleteFailure,
     ControllerExpandVolume, ResizeDisk
<1>5. CASE ReturnError(s)
  BY <1>3, <1>5, ErrorAsked
<1>6. CASE \E label : Goto(s, label)
  BY <1>1, <1>3, <1>6, GotoAsked
<1>7. CASE ReturnDeleted(s)
  <2>1. Return(s) /\ req' = req /\ prov' = prov /\ pv' = NoPV
    BY <1>7 DEF ReturnDeleted
  <2>2. VolumeAsked'
    BY <2>1, <1>3, SameVolumeAsked DEF VolumeStays
  <2> QED
    BY <1>3, <2>1, <2>2, ReturnAsked
<1>8. CASE ReturnExpanded(s)
  <2>1. Return(s) /\ req' = req /\ prov' = prov /\ pv' = [pv EXCEPT !.capacity = ExpandGiB * GiB]
    BY <1>8 DEF ReturnExpanded
  <2>2. pv'.topology = pv.topology /\ pv'.caching = pv.caching /\ pv'.class = pv.class
    BY <1>2, <2>1 DEF IsVolume
  <2>3. VolumeAsked'
    BY <1>2, <1>3, <2>1, <2>2, SameVolumeAsked DEF VolumeStays
  <2> QED
    BY <1>3, <2>1, <2>3, ReturnAsked
<1> QED
  BY <1>4, <1>5, <1>6, <1>7, <1>8

(* A change: what is sent fits the disk that was read, and still fits the  *)
(* one that is patched.                                                    *)
LEMMA ModifyAsked ==
  ASSUME AskedInv, FitInv', OneCallAtATime', faults' = 0 => faults = 0, NEW s \in Slots,
         ControllerModifyVolume(s) \/ ModifyDisk(s)
  PROVE  AskedInv'
<1>1. current = s /\ calls[s].op = "modify"
  BY DEF ControllerModifyVolume, ModifyDisk, At
<1>2. pv # NoPV /\ IsVolume(pv) /\ prov = "done"
  BY <1>1, SlotAssumption DEF AskedInv, FitInv, LeakInv, OthersHaveVolume, DoneIsDone, Shape
<1>3. SameKind => DiskStep(s)
  BY DEF DiskStep
<1>4. CASE ControllerModifyVolume(s)
  <2>1. disk' = disk /\ (ReturnError(s) \/ (Goto(s, "patch") /\ ModifyAllowed(Change, disk)))
    BY <1>4 DEF ControllerModifyVolume
  <2>2. DiskStep(s)
    BY <1>3, <2>1, SameDiskKind
  <2>3. CASE Goto(s, "patch") /\ ModifyAllowed(Change, disk)
    <3>1. ChangeFits(disk')
      BY <2>1, <2>3 DEF ModifyAllowed, ChangeFits, ChangesNumbers
    <3> QED
      BY <1>1, <2>2, <2>3, <3>1, GotoAsked
  <2> QED
    BY <2>1, <2>2, <2>3, ErrorAsked
<1>5. CASE ModifyDisk(s)
  <2>1. CASE disk' = disk /\ ReturnError(s)
    BY <1>3, <2>1, SameDiskKind, ErrorAsked
  <2>2. CASE disk # NoDisk /\ disk' = Modified(Change, disk)
    <3>1. Patched
      BY <1>2, <1>5, <2>2 DEF Patched, ModifyDisk, At, AskedInv, ModifiesFit
    <3>2. CASE ReturnChanged(s)
      <4>1. Return(s) /\ req' = req /\ prov' = prov /\ pv' = [pv EXCEPT !.class = "change"]
        BY <3>2 DEF ReturnChanged
      <4>2. pv'.topology = pv.topology /\ pv'.caching = pv.caching /\ pv'.class = "change"
        BY <1>2, <4>1 DEF IsVolume
      <4>3. DiskStep(s)
        BY <3>1, <4>2 DEF DiskStep
      <4>4. VolumeAsked'
        BY <1>2, <3>1, <4>1, <4>2, <4>3, SameVolumeAsked DEF VolumeStays
      <4> QED
        BY <4>1, <4>3, <4>4, ReturnAsked
    <3>3. CASE ReturnError(s) /\ Failed
      <4>1. faults' # 0
        BY <3>3 DEF Failed, AskedInv, OneCallAtATime
      <4>2. DiskStep(s)
        BY <3>1, <4>1 DEF DiskStep
      <4> QED
        BY <3>3, <4>2, ErrorAsked
    <3> QED
      BY <1>5, <2>1, <3>2, <3>3 DEF ModifyDisk
  <2> QED
    BY <1>5, <2>1, <2>2 DEF ModifyDisk
<1> QED
  BY <1>4, <1>5

(* A request in flight.                                                    *)
LEMMA InFlightKind ==
  ASSUME AskedInv, NEW s \in Slots, InFlight(s)
  PROVE  SameKind \/ Put(s) \/ (Patched /\ calls[s] # Idle)
<1>1. CASE calls[s].pc = "put" /\ PutAccepted(s)
  BY <1>1 DEF AskedInv, FitInv, LeakInv, CreateSteps, Holds, Put
<1>2. CASE disk # NoDisk /\ Claimed
  BY <1>2, OwnerKind DEF Claimed, AskedInv, FitInv, DiskIsMade
<1>3. CASE disk' = NoDisk
  BY <1>3 DEF SameKind
<1>4. CASE calls[s].pc = "patch" /\ calls[s].op = "modify" /\ disk # NoDisk /\ disk' = Modified(Change, disk)
  <2>1. prov = "done" /\ ChangeFits(disk)
    BY <1>4 DEF AskedInv, FitInv, OthersAreLater, ModifiesFit
  <2>2. calls[s] # Idle
    BY <1>4, IdleType
  <2> QED
    BY <1>4, <2>1, <2>2 DEF Patched
<1> QED
  BY <1>1, <1>2, <1>3, <1>4, SameDiskKind, UnclaimedKind, GrownKind DEF InFlight, AskedInv

LEMMA CancelledAsked ==
  ASSUME AskedInv, FitInv', OneCallAtATime', faults' = 0 => faults = 0, NEW s \in Slots, Cancelled(s)
  PROVE  AskedInv'
<1>1. /\ calls' = [calls EXCEPT ![s] = Idle] /\ req' = req /\ prov' = prov /\ pv' = pv
      /\ calls[s] # Idle /\ current # s /\ faults' = faults
  BY DEF Cancelled, kube
<1>2. faults' # 0
  BY <1>1 DEF AskedInv, OneCallAtATime
<1>3. DiskStep(s)
  BY <1>2, InFlightKind DEF Cancelled, DiskStep
<1>4. VolumeAsked'
  BY <1>1, <1>3, SameVolumeAsked DEF VolumeStays
<1> QED
  BY <1>1, <1>3, <1>4, IdleType, StepAsked

LEMMA RestartAsked ==
  ASSUME AskedInv, FitInv', OneCallAtATime', faults' = 0 => faults = 0, Restart
  PROVE  AskedInv'
<1>1. calls' = [s \in Slots |-> Idle] /\ req' = req /\ pv' = pv /\ (prov = "done" => prov' = "done")
  BY DEF Restart
<1>2. faults' # 0
  BY DEF Restart, Failed, AskedInv, OneCallAtATime
<1>3. PICK s \in Slots : DiskStep(s)
  BY <1>2, InFlightKind DEF Restart, DiskStep
<1>4. VolumeAsked' /\ DiskAsked'
  BY <1>1, <1>3, SameVolumeAsked, SameKindAsked, PutAsked, PatchAsked DEF VolumeStays, DiskStep
<1>5. \A t \in Slots : calls'[t].op = "none"
  BY <1>1, IdleType
<1>6. CreatesAsAsked' /\ ModifiesFit'
  BY <1>5 DEF CreatesAsAsked, ModifiesFit, Holds
<1> QED
  BY <1>4, <1>6 DEF AskedInv

(* A sidecar calls.                                                        *)
LEMMA CallAsked ==
  ASSUME AskedInv, FitInv', OneCallAtATime', faults' = 0 => faults = 0, NEW s \in Slots, NEW op, NEW label \in {"lock", "get"},
         Call(s, op, label), disk' = disk, req' = req, pv' = pv, prov = "done" => prov' = "done",
         op = "create" => label = "lock"
  PROVE  AskedInv'
<1> DEFINE c == [Idle EXCEPT !.op = op, !.pc = label]
<1>1. c.op = op /\ c.pc = label
  BY DEF Idle
<1>2. calls' = [calls EXCEPT ![s] = c]
  BY DEF Call
<1> HIDE DEF c
<1>3. DiskStep(s)
  BY SameDiskKind DEF DiskStep
<1>4. VolumeAsked'
  BY <1>3, SameVolumeAsked DEF VolumeStays
<1> QED
  BY <1>1, <1>2, <1>3, <1>4, StepAsked

(* The calls stay.                                                         *)
LEMMA CallsStay ==
  ASSUME AskedInv, FitInv', OneCallAtATime', faults' = 0 => faults = 0, calls' = calls, req' = req,
         prov = "done" => prov' = "done", VolumeStays, SameKind
  PROVE  AskedInv'
<1>1. DiskAsked'
  BY SameKindAsked
<1>2. VolumeAsked'
  BY SameVolumeAsked DEF DiskStep
<1>3. CreatesAsAsked'
  <2> SUFFICES ASSUME NEW t \in Slots, Holds(t, "create")
               PROVE  (AsAccepted(calls[t]))' /\ (calls'[t].pc = "claim" => MadeBy(t)')
    BY DEF CreatesAsAsked, Holds
  <2>1. AsAccepted(calls[t]) /\ (calls[t].pc = "claim" => MadeBy(t))
    BY DEF AskedInv, CreatesAsAsked
  <2>2. calls'[t].pc = "claim" => disk' # NoDisk
    BY DEF FitInv, CreatesAccepted, Holds, NoDisk
  <2> QED
    BY <2>1, <2>2 DEF AsAccepted, MadeBy, Model, SameKind
<1>4. ModifiesFit'
  <2>1. ChangeFits(disk)' <=> ChangeFits(disk')
    BY SameAsked DEF ChangeFits, ModifiedSku
  <2> QED
    BY <2>1 DEF AskedInv, ModifiesFit, SameKind, ChangeFits, ModifiedSku, NoDisk
<1> QED
  BY <1>1, <1>2, <1>3, <1>4 DEF AskedInv

LEMMA PodAsked ==
  ASSUME AskedInv, FitInv', OneCallAtATime', faults' = 0 => faults = 0, Use \/ Stop
  PROVE  AskedInv'
<1>1. /\ pv # NoPV /\ disk # NoDisk /\ calls' = calls /\ req' = req /\ prov' = prov
      /\ pv' = [pv EXCEPT !.attached = TRUE, !.adopted = NodeDriven] \/ pv' = [pv EXCEPT !.attached = FALSE]
  BY DEF Use, Stop
<1>2. PICK owner : disk' = [disk EXCEPT !.owner = owner]
  BY DEF Use, Stop
<1>3. SameKind
  BY <1>1, <1>2, OwnerKind DEF AskedInv, FitInv, DiskIsMade
<1>4. IsVolume(pv)
  BY <1>1 DEF AskedInv, FitInv, LeakInv, Shape
<1>5. pv'.topology = pv.topology /\ pv'.caching = pv.caching /\ pv'.class = pv.class
  <2> DEFINE used == [pv EXCEPT !.attached = TRUE, !.adopted = NodeDriven]
             stopped == [pv EXCEPT !.attached = FALSE]
  <2>1. used.topology = pv.topology /\ used.caching = pv.caching /\ used.class = pv.class
    BY <1>4 DEF IsVolume
  <2>2. stopped.topology = pv.topology /\ stopped.caching = pv.caching /\ stopped.class = pv.class
    BY <1>4 DEF IsVolume
  <2>3. pv' = used \/ pv' = stopped
    BY <1>1
  <2> QED
    BY <2>1, <2>2, <2>3, Zenon
<1> QED
  BY <1>1, <1>3, <1>5, CallsStay DEF VolumeStays

LEMMA ServerAsked ==
  ASSUME AskedInv, [ServerNext]_servervars
  PROVE  AskedInv'
<1>1. FitInv' /\ OneCallAtATime' /\ (faults' = 0 => faults = 0)
  BY ServerFits, ServerOneCall DEF AskedInv, FitInv
<1>2. ASSUME NEW s \in Slots, CallStep(s) PROVE AskedInv'
  BY <1>1, <1>2, CreateAsked, OtherCallAsked, ModifyAsked, CancelledAsked DEF CallStep
<1>3. ASSUME NEW s \in Slots, Provision(s) PROVE AskedInv'
  BY <1>1, <1>3, CallAsked DEF Provision
<1>4. ASSUME NEW s \in Slots, Reclaim(s) \/ Resize(s) \/ Modify(s) PROVE AskedInv'
  BY <1>1, <1>4, CallAsked DEF Reclaim, Resize, Modify, kube
<1>5. ASSUME UNCHANGED <<req, pv, disk, calls>>, prov = "done" => prov' = "done" PROVE AskedInv'
  BY <1>1, <1>5, SameDiskKind, CallsStay DEF VolumeStays
<1>6. CASE VolumeWork
  BY <1>1, <1>2, <1>3, <1>4, <1>5, <1>6, PodAsked DEF VolumeWork, VolumeStep, RemoveClaim, GiveUp
<1>7. CASE ServerRestart
  BY <1>1, <1>7, RestartAsked DEF ServerRestart
<1>8. CASE SnapshotWork \/ ListWork \/ UNCHANGED servervars
  BY <1>5, <1>8 DEF SnapshotWork, ListWork, besidesSnapshots, servervars, vars, volumes, kube
<1> QED
  BY <1>6, <1>7, <1>8 DEF ServerNext

(* The disk of a volume is the one that was asked for, for any parameters, *)
(* attributes classes, changes and zones, any calls given up, answers lost *)
(* and restarts: the SKU of a create is one of those the request names,    *)
(* the attributes class first, its numbers are refused for other SKUs, and *)
(* a change fits the disk it was checked against and any disk that another *)
(* copy of the same change made of it (CreateVolume, CreateManagedDisk,    *)
(* ControllerModifyVolume, ModifyDisk).                                    *)
THEOREM DiskIsAsAsked == ServerSpec => []DiskAsAsked
<1>1. AskedInv => DiskAsAsked
  <2> SUFFICES ASSUME AskedInv, pv # NoPV, disk # NoDisk PROVE DiskAsAsked
    BY DEF DiskAsAsked
  <2>1. pv.class = "change" => disk = Modified(Change, disk)
    <3>1. IsDisk(disk) /\ (pv.class = "change" => Applied(disk))
      BY DEF AskedInv, VolumeAsked, FitInv, DiskIsMade
    <3> QED
      BY <3>1 DEF Applied, Modified, IsDisk
  <2> QED
    BY <2>1 DEF AskedInv, DiskAsked, VolumeAsked, NumbersFit, DiskAsAsked
<1>2. ServerInit => AskedInv
  <2> SUFFICES ASSUME ServerInit PROVE AskedInv
    OBVIOUS
  <2>1. FitInv /\ disk = NoDisk /\ pv = NoPV /\ calls = [s \in Slots |-> Idle] /\ faults \in Nat
    BY ServerInitFits, BoundAssumption DEF ServerInit, Init, NoClaim, Snap!Init
  <2>2. \A s \in Slots : calls[s].op = "none" /\ calls[s] = Idle
    BY <2>1, IdleType
  <2> QED
    BY <2>1, <2>2
       DEF AskedInv, CreatesAsAsked, ModifiesFit, DiskAsked, VolumeAsked, OneCallAtATime, Holds
<1>3. AskedInv /\ [ServerNext]_servervars => AskedInv'
  BY ServerAsked
<1> QED
  BY <1>1, <1>2, <1>3, PTL DEF ServerSpec
=============================================================================
