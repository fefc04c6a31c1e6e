------------------------ MODULE DiskControllerProofs ------------------------
(***************************************************************************)
(* Theorems about DiskController for every number of nodes, disks and      *)
(* request goroutines, every VM size and every setting of the flags.       *)
(***************************************************************************)
EXTENDS DiskController, TLAPS

(* What a thread reads from the VM cache, and the lists it computes from   *)
(* it, are data disk lists.                                                *)
LEMMA EmptyViewType == EmptyView \in Views
  BY DEF EmptyView, Views, NoLun

LEMMA DataDisksType == ASSUME TypeOK, NEW n \in Nodes PROVE DataDisks(n) \in Views
  BY DEF TypeOK, AzureTypeOK, CacheTypeOK, DataDisks

LEMMA DataDisksLunType ==
  ASSUME TypeOK, NEW n \in Nodes, NEW d \in Disks
  PROVE DataDisks(n).lun[d] \in LUNs \cup {NoLun}
  BY DataDisksType DEF Views

LEMMA ArgumentTypes ==
  ASSUME TypeOK, NEW t \in Threads, pc[t] # "idle"
  PROVE Node(t) \in Nodes /\ Disk(t) \in Disks /\ call[t].occupied \subseteq LUNs
  BY DEF TypeOK, ThreadTypeOK, Calls, Node, Disk

LEMMA ListTypes ==
  ASSUME TypeOK, NEW t \in Threads, pc[t] # "idle"
  PROVE AttachList(t) \in Views /\ DetachList(t) \in Views
<1> DEFINE v == DataDisks(Node(t))
<1>1. v \in Views BY ArgumentTypes, DataDisksType
<1>2. sent[t] \in Views BY DEF TypeOK, AzureTypeOK, CacheTypeOK, DriverTypeOK, ThreadTypeOK
<1>3. AttachList(t) \in Views BY <1>1, <1>2 DEF AttachList, Views, Listed
<1>4. DetachList(t) \in Views BY <1>1 DEF DetachList, Views, Listed
<1> QED BY <1>3, <1>4

(* A call that returns leaves its thread's variables well typed.           *)
LEMMA ReturnType ==
  ASSUME TypeOK, NEW t \in Threads, pc[t] # "idle",
         NEW l \in LUNs \cup {NoLun}, NEW e \in {"none", "error", "dangling"}, Return(t, l, e)
  PROVE ThreadTypeOK'
  BY EmptyViewType DEF TypeOK, ThreadTypeOK, Return, Goto, PCs, Results

LEMMA UnlockReturnType ==
  ASSUME TypeOK, NEW t \in Threads, pc[t] # "idle",
         NEW l \in LUNs \cup {NoLun}, NEW e \in {"none", "error", "dangling"}, UnlockReturn(t, l, e)
  PROVE /\ ThreadTypeOK'
        /\ hitMaxDataDiskCountCache' \subseteq Nodes => DriverTypeOK'
<1>1. ThreadTypeOK' BY ReturnType DEF UnlockReturn
<1>2. hitMaxDataDiskCountCache' \subseteq Nodes => DriverTypeOK'
  BY ArgumentTypes DEF TypeOK, DriverTypeOK, UnlockReturn, queues
<1> QED BY <1>1, <1>2

(* Every action of a thread keeps the types.                               *)
LEMMA TypeCall == ASSUME TypeOK, NEW t \in Threads, CallStep(t) PROVE TypeOK'
<1>1. ASSUME NEW d \in Disks, NEW n \in Nodes, CallAttachDisk(t, d, n) PROVE TypeOK'
  BY <1>1, OccupiedAssumption DEF TypeOK, AzureTypeOK, CacheTypeOK, DriverTypeOK, ThreadTypeOK, CallAttachDisk, Call, Goto, Calls, DiskSeen, ManagedBy, PCs, AttachPC, azure, driver, queues, locks
<1>2. ASSUME NEW d \in Disks, NEW n \in Nodes, CallDetachDisk(t, d, n) PROVE TypeOK'
  BY <1>2 DEF TypeOK, AzureTypeOK, CacheTypeOK, DriverTypeOK, ThreadTypeOK, CallDetachDisk, Call, Goto, Calls, PCs, DetachPC, azure, driver, queues, locks
<1>3. ASSUME NEW d \in Deletable, NEW n \in Nodes, CallDeleteManagedDisk(t, d, n) PROVE TypeOK'
  BY <1>3, DiskAssumption DEF TypeOK, AzureTypeOK, CacheTypeOK, DriverTypeOK, ThreadTypeOK, CallDeleteManagedDisk, Call, Goto, Calls, PCs, azure, driver, queues, locks
<1>4. ASSUME Finish(t) PROVE TypeOK'
  BY <1>4 DEF TypeOK, AzureTypeOK, CacheTypeOK, DriverTypeOK, ThreadTypeOK, Finish, Goto, PCs, Results, NoLun, azure, driver, queues, locks
<1> QED BY <1>1, <1>2, <1>3, <1>4 DEF CallStep

LEMMA TypeLock == ASSUME TypeOK, NEW t \in Threads, Lock(t) PROVE TypeOK'
<1> USE ArgumentTypes DEF LockEntry, Goto, PCs, AttachPC, DetachPC, AttachLockedPC, DetachLockedPC,
      azure, queues, local
<1>1. CASE LockEntry(t, "attachLock", "attachLocked") BY <1>1 DEF TypeOK, AzureTypeOK, CacheTypeOK, DriverTypeOK, ThreadTypeOK
<1>2. CASE LockEntry(t, "detachLock", "detachLocked") BY <1>2 DEF TypeOK, AzureTypeOK, CacheTypeOK, DriverTypeOK, ThreadTypeOK
<1>3. CASE LockEntry(t, "updateLock", "updateLocked") BY <1>3 DEF TypeOK, AzureTypeOK, CacheTypeOK, DriverTypeOK, ThreadTypeOK
<1> QED BY <1>1, <1>2, <1>3 DEF Lock

LEMMA TypeAttach == ASSUME TypeOK, NEW t \in Threads, AttachStep(t) PROVE TypeOK'
<1> USE EmptyViewType, ArgumentTypes, DataDisksType, ListTypes, ReturnType, UnlockReturnType 
    DEF Goto, NoLun, TypeOK, AzureTypeOK, CacheTypeOK, DriverTypeOK, ThreadTypeOK,
      PCs, AttachPC, DetachPC, AttachLockedPC, DetachLockedPC, azure, driver, queues, locks, local,
      GetNodeDataDisks, GetNodeDataDisksFails, DeleteCacheForNode
<1>1. CASE AttachedToThisNode(t) BY <1>1 DEF AttachedToThisNode
<1>2. CASE AttachRefused(t) BY <1>2 DEF AttachRefused
<1>3. CASE batchAttachDiskRequest(t) BY <1>3 DEF batchAttachDiskRequest
<1>4. CASE WaitForDetachRequests(t) BY <1>4 DEF WaitForDetachRequests
<1>5. CASE CountDisksFails(t) BY <1>5 DEF CountDisksFails
<1>6. CASE AttachBatchedAlready(t) BY <1>6 DEF AttachBatchedAlready, CountDisks
<1>7. CASE retrieveAttachBatchedDiskRequests(t) BY <1>7 DEF retrieveAttachBatchedDiskRequests, CountDisks, BatchKept
<1>8. CASE SetDiskLunFails(t) BY <1>8 DEF SetDiskLunFails
<1>9. CASE SetDiskLun(t)
  <2>1. PICK f \in [diskMap[t] -> diskLuns(t)] :
          sent' = [sent EXCEPT ![t] =
            [lun |-> [d \in Disks |-> IF d \in diskMap[t] THEN f[d] ELSE NoLun], tbd |-> {}]]
    BY <1>9 DEF SetDiskLun
  <2>2. diskLuns(t) \subseteq LUNs BY DEF diskLuns, FreeLuns
  <2>3. sent' \in [Threads -> Views] BY <2>1, <2>2 DEF Views
  <2> QED BY <1>9, <2>3 DEF SetDiskLun
<1>10. CASE VMAttach(t) BY <1>10 DEF VMAttach
<1>11. CASE AttachFails(t) BY <1>11 DEF AttachFails
<1>12. CASE AttachHitsMax(t) BY <1>12 DEF AttachHitsMax
<1>13. CASE AttachPreempted(t) BY <1>13 DEF AttachPreempted
<1>14. CASE AttachRetry(t) BY <1>14 DEF AttachRetry
<1>15. CASE AttachSucceeds(t) BY <1>15 DEF AttachSucceeds
<1>16. CASE verifyAttach(t)
  <2>1. Node(t) \in Nodes /\ Disk(t) \in Disks BY <1>16 DEF verifyAttach
  <2>2. DataDisks(Node(t)).lun[Disk(t)] \in LUNs \cup {NoLun} BY <2>1, DataDisksLunType
  <2>3. CacheTypeOK' BY <1>16, <2>1 DEF verifyAttach
  <2>4. ThreadTypeOK' /\ DriverTypeOK'
    <3> HIDE DEF ThreadTypeOK, DriverTypeOK, NoLun
    <3>1. hitMaxDataDiskCountCache' \subseteq Nodes BY <1>16 DEF verifyAttach, DriverTypeOK
    <3> QED BY <1>16, <2>2, <3>1 DEF verifyAttach
  <2> QED BY <1>16, <2>3, <2>4 DEF verifyAttach
<1>17. CASE UpdateVM(t) BY <1>17 DEF UpdateVM
<1>18. CASE GetDiskLun(t)
  <2>1. Node(t) \in Nodes /\ Disk(t) \in Disks BY <1>18 DEF GetDiskLun
  <2>2. DataDisks(Node(t)).lun[Disk(t)] \in LUNs \cup {NoLun} BY <2>1, DataDisksLunType
  <2>3. CacheTypeOK' BY <1>18, <2>1 DEF GetDiskLun
  <2>4. ThreadTypeOK'
    <3> HIDE DEF ThreadTypeOK, NoLun
    <3> QED BY <1>18, <2>2 DEF GetDiskLun
  <2> QED BY <1>18, <2>3, <2>4 DEF GetDiskLun
<1> QED BY <1>1, <1>2, <1>3, <1>4, <1>5, <1>6, <1>7, <1>8, <1>9, <1>10, <1>11, <1>12, <1>13, <1>14, <1>15, <1>16, <1>17, <1>18 DEF AttachStep

LEMMA TypeDetach == ASSUME TypeOK, NEW t \in Threads, DetachStep(t) PROVE TypeOK'
<1> USE EmptyViewType, ArgumentTypes, DataDisksType, ListTypes, ReturnType, UnlockReturnType 
    DEF Goto, NoLun, TypeOK, AzureTypeOK, CacheTypeOK, DriverTypeOK, ThreadTypeOK,
      PCs, AttachPC, DetachPC, AttachLockedPC, DetachLockedPC, azure, driver, queues, locks, local,
      GetNodeDataDisks, GetNodeDataDisksFails, DeleteCacheForNode
<1>1. CASE batchDetachDiskRequest(t) BY <1>1 DEF batchDetachDiskRequest
<1>2. CASE retrieveDetachBatchedDiskRequests(t) BY <1>2 DEF retrieveDetachBatchedDiskRequests
<1>3. CASE VMDetach(t) BY <1>3 DEF VMDetach
<1>4. CASE DetachSucceeds(t) BY <1>4 DEF DetachSucceeds
<1>5. CASE DetachInstanceNotFound(t) BY <1>5 DEF DetachInstanceNotFound
<1>6. CASE DetachInterrupted(t) BY <1>6 DEF DetachInterrupted
<1>7. CASE DetachFails(t) BY <1>7 DEF DetachFails, ForceOrFail
<1>8. CASE ForceDetachFails(t) BY <1>8 DEF ForceDetachFails
<1>9. CASE pollForDetachCompletion(t) BY <1>9 DEF pollForDetachCompletion
<1>10. CASE PollGivesUp(t) BY <1>10 DEF PollGivesUp, ForceOrFail
<1>11. CASE verifyDetach(t) BY <1>11 DEF verifyDetach
<1>12. CASE waitForDiskManagedByTobeRemoved(t) BY <1>12 DEF waitForDiskManagedByTobeRemoved
<1> QED BY <1>1, <1>2, <1>3, <1>4, <1>5, <1>6, <1>7, <1>8, <1>9, <1>10, <1>11, <1>12 DEF DetachStep

LEMMA TypeDelete == ASSUME TypeOK, NEW t \in Threads, DeleteStep(t) PROVE TypeOK'
<1> USE EmptyViewType, ArgumentTypes, DataDisksType, ListTypes, ReturnType, UnlockReturnType 
    DEF Goto, NoLun, TypeOK, AzureTypeOK, CacheTypeOK, DriverTypeOK, ThreadTypeOK,
      PCs, AttachPC, DetachPC, AttachLockedPC, DetachLockedPC, azure, driver, queues, locks, local,
      GetNodeDataDisks, GetNodeDataDisksFails, DeleteCacheForNode
<1>1. CASE CheckDiskState(t) BY <1>1 DEF CheckDiskState
<1>2. CASE GetManagedDisk(t) BY <1>2 DEF GetManagedDisk
<1>3. CASE DeleteManagedDisk(t) BY <1>3 DEF DeleteManagedDisk
<1> QED BY <1>1, <1>2, <1>3 DEF DeleteStep

LEMMA TypeVMSet == ASSUME TypeOK, NEW t \in Threads, GetNodeVMSetFails(t) PROVE TypeOK'
  BY ReturnType, UnlockReturnType DEF GetNodeVMSetFails, TypeOK, AzureTypeOK, CacheTypeOK,
     DriverTypeOK, azure, driver, queues, locks

(* Azure applies a list, or the list is filtered: both are lists again.    *)
LEMMA AppliedType ==
  ASSUME TypeOK, NEW n \in Nodes, NEW v \in Views PROVE Applied(n, v) \in Views
<1>1. vm[n] \in Views BY DEF TypeOK, AzureTypeOK
<1> QED BY <1>1 DEF Applied, Views, Listed

LEMMA TypeAzure == ASSUME TypeOK, NEW t \in Threads, AzureUpdate(t) PROVE TypeOK'
<1> USE DEF TypeOK, AzureTypeOK, CacheTypeOK, DriverTypeOK, ThreadTypeOK,
      azure, driver, queues, locks, local
<1>1. ASSUME NEW from \in SentPC, NEW to \in AcceptedPC, Accept(t, from, to) PROVE TypeOK'
  <2>1. Node(t) \in Nodes /\ sent[t] \in Views BY <1>1, ArgumentTypes DEF Accept, SentPC
  <2>2. vm' \in [Nodes -> Views] BY <1>1, <2>1, AppliedType DEF Accept
  <2>3. pc' \in [Threads -> PCs] BY <1>1 DEF Accept, Goto, AcceptedPC, PCs, AttachPC, DetachPC,
          AttachLockedPC, DetachLockedPC
  <2> QED BY <1>1, <2>2, <2>3 DEF Accept, Goto, SentPC
<1>2. ASSUME FilterNonExistingDisks(t) PROVE TypeOK'
  <2>1. sent[t] \in Views OBVIOUS
  <2>2. sent' \in [Threads -> Views] BY <1>2, <2>1 DEF FilterNonExistingDisks, Views
  <2> QED BY <1>2, <2>2 DEF FilterNonExistingDisks
<1> QED BY <1>1, <1>2 DEF AzureUpdate, SentPC, AcceptedPC

LEMMA TypeNode == ASSUME TypeOK, NEW n \in Nodes, NodeStep(n) PROVE TypeOK'
<1> USE DEF TypeOK, AzureTypeOK, CacheTypeOK, DriverTypeOK, ThreadTypeOK,
      azure, driver, queues, locks, local
<1>1. vm[n] \in Views OBVIOUS
<1>2. CASE DeleteVM(n)
  <2>1. vm' \in [Nodes -> Views] BY <1>1, <1>2 DEF DeleteVM, Views, Listed
  <2> QED BY <1>2, <2>1 DEF DeleteVM
<1>3. CASE ExpireCache(n) BY <1>3 DEF ExpireCache, DeleteCacheForNode
<1>4. ASSUME NEW d \in Disks, DetachCompletes(n, d) PROVE TypeOK'
  <2>1. vm' \in [Nodes -> Views] BY <1>1, <1>4 DEF DetachCompletes, Views
  <2> QED BY <1>4, <2>1 DEF DetachCompletes
<1> QED BY <1>2, <1>3, <1>4 DEF NodeStep

LEMMA TypeRestart == ASSUME TypeOK, Restart PROVE TypeOK'
  BY EmptyViewType DEF Restart, TypeOK, AzureTypeOK, CacheTypeOK, DriverTypeOK, ThreadTypeOK,
     azure, PCs, Results, NoLun

LEMMA TypeInit == Init => TypeOK
  BY EmptyViewType DEF Init, TypeOK, AzureTypeOK, CacheTypeOK, DriverTypeOK, ThreadTypeOK,
     PCs, Results, NoLun

LEMMA TypeNext == TypeOK /\ [Next]_vars => TypeOK'
<1> SUFFICES ASSUME TypeOK, [Next]_vars PROVE TypeOK' OBVIOUS
<1>1. ASSUME NEW t \in Threads, ThreadStep(t) PROVE TypeOK'
  BY <1>1, TypeCall, TypeLock, TypeVMSet, TypeAttach, TypeDetach, TypeDelete, TypeAzure DEF ThreadStep
<1>2. ASSUME NEW n \in Nodes, NodeStep(n) PROVE TypeOK' BY <1>2, TypeNode
<1>3. CASE Restart BY <1>3, TypeRestart
<1>4. CASE UNCHANGED vars
  BY <1>4 DEF vars, azure, driver, queues, locks, local, TypeOK, AzureTypeOK, CacheTypeOK,
     DriverTypeOK, ThreadTypeOK
<1> QED BY <1>1, <1>2, <1>3, <1>4 DEF Next

(* Every variable keeps its type: in particular every LUN that SetDiskLun  *)
(* allocates, or that a VM update carries, is one of the VM's LUNs.        *)
THEOREM TypeCorrect == Spec => []TypeOK
<1> QED BY TypeInit, TypeNext, PTL DEF Spec

-----------------------------------------------------------------------------
(* The four ways in which a step of a thread moves with respect to its     *)
(* node's lock: outside the locked region, inside it, into it, out of it.  *)
LEMMA MoveOutside ==
  ASSUME TypeOK, LockHeld, NEW t \in Threads, NEW label \in PCs \ LockedPC, pc[t] \notin LockedPC,
         Goto(t, label), NEW c, call' = [call EXCEPT ![t] = c], UNCHANGED lockMap
  PROVE LockHeld'
  BY DEF TypeOK, DriverTypeOK, ThreadTypeOK, LockHeld, Goto, Node

LEMMA MoveOn ==
  ASSUME TypeOK, LockHeld, NEW t \in Threads, NEW label \in PCs \ LockedPC, pc[t] \notin LockedPC,
         Goto(t, label), UNCHANGED <<call, lockMap>>
  PROVE LockHeld'
<1>1. call' = [call EXCEPT ![t] = call[t]] BY DEF TypeOK, ThreadTypeOK
<1> QED BY <1>1, MoveOutside

LEMMA MoveInside ==
  ASSUME TypeOK, LockHeld, NEW t \in Threads, NEW label \in LockedPC, pc[t] \in LockedPC,
         Goto(t, label), UNCHANGED <<call, lockMap>>
  PROVE LockHeld'
  BY DEF TypeOK, DriverTypeOK, ThreadTypeOK, LockHeld, Goto, Node

LEMMA MoveIn ==
  ASSUME TypeOK, LockHeld, NEW t \in Threads, NEW label \in LockedPC, pc[t] \notin LockedPC \cup {"idle"},
         Goto(t, label), UNCHANGED call, lockMap[Node(t)] = NoThread,
         lockMap' = [lockMap EXCEPT ![Node(t)] = t]
  PROVE LockHeld'
<1>1. Node(t) \in Nodes BY ArgumentTypes
<1> QED BY <1>1, ThreadAssumption DEF TypeOK, DriverTypeOK, ThreadTypeOK, LockHeld, Goto, Node

LEMMA MoveOut ==
  ASSUME TypeOK, LockHeld, NEW t \in Threads, NEW label \in PCs \ LockedPC, pc[t] \in LockedPC,
         Goto(t, label), UNCHANGED call, lockMap' = [lockMap EXCEPT ![Node(t)] = NoThread]
  PROVE LockHeld'
<1>1. pc[t] # "idle" BY DEF LockedPC, AttachLockedPC, DetachLockedPC
<1>2. Node(t) \in Nodes BY <1>1, ArgumentTypes
<1> QED BY <1>2, ThreadAssumption DEF TypeOK, DriverTypeOK, ThreadTypeOK, LockHeld, Goto, Node

LEMMA LeavesLock ==
  ASSUME TypeOK, LockHeld, NEW t \in Threads, pc[t] \in LockedPC, NEW l, NEW e, UnlockReturn(t, l, e)
  PROVE LockHeld'
  BY MoveOut DEF UnlockReturn, Return, PCs, AttachPC, DetachPC, LockedPC, AttachLockedPC, DetachLockedPC

LEMMA StaysOutside ==
  ASSUME TypeOK, LockHeld, NEW t \in Threads, pc[t] \notin LockedPC, NEW l, NEW e,
         Return(t, l, e), UNCHANGED lockMap
  PROVE LockHeld'
  BY MoveOn DEF Return, PCs, AttachPC, DetachPC, LockedPC, AttachLockedPC, DetachLockedPC

LEMMA LockAttach == ASSUME TypeOK, LockHeld, NEW t \in Threads, AttachStep(t) PROVE LockHeld'
<1> USE MoveOn, MoveInside, LeavesLock, StaysOutside
    DEF Goto, PCs, AttachPC, DetachPC, LockedPC, AttachLockedPC, DetachLockedPC,
        driver, locks, local
<1>1. CASE AttachedToThisNode(t) BY <1>1 DEF AttachedToThisNode
<1>2. CASE AttachRefused(t) BY <1>2 DEF AttachRefused
<1>3. CASE batchAttachDiskRequest(t) BY <1>3 DEF batchAttachDiskRequest
<1>4. CASE WaitForDetachRequests(t) BY <1>4 DEF WaitForDetachRequests
<1>5. CASE CountDisksFails(t) BY <1>5 DEF CountDisksFails
<1>6. CASE AttachBatchedAlready(t) BY <1>6 DEF AttachBatchedAlready
<1>7. CASE retrieveAttachBatchedDiskRequests(t) BY <1>7 DEF retrieveAttachBatchedDiskRequests
<1>8. CASE SetDiskLunFails(t) BY <1>8 DEF SetDiskLunFails
<1>9. CASE SetDiskLun(t) BY <1>9 DEF SetDiskLun
<1>10. CASE VMAttach(t) BY <1>10 DEF VMAttach
<1>11. CASE AttachFails(t) BY <1>11 DEF AttachFails
<1>12. CASE AttachHitsMax(t) BY <1>12 DEF AttachHitsMax
<1>13. CASE AttachPreempted(t) BY <1>13 DEF AttachPreempted
<1>14. CASE AttachRetry(t) BY <1>14 DEF AttachRetry
<1>15. CASE AttachSucceeds(t) BY <1>15 DEF AttachSucceeds
<1>16. CASE verifyAttach(t) BY <1>16 DEF verifyAttach
<1>17. CASE UpdateVM(t) BY <1>17, MoveOut DEF UpdateVM, Return
<1>18. CASE GetDiskLun(t) BY <1>18 DEF GetDiskLun
<1> QED BY <1>1, <1>2, <1>3, <1>4, <1>5, <1>6, <1>7, <1>8, <1>9, <1>10, <1>11, <1>12, <1>13, <1>14, <1>15, <1>16, <1>17, <1>18
   DEF AttachStep

LEMMA LockDetach == ASSUME TypeOK, LockHeld, NEW t \in Threads, DetachStep(t) PROVE LockHeld'
<1> USE MoveOn, MoveInside, LeavesLock, StaysOutside
    DEF Goto, PCs, AttachPC, DetachPC, LockedPC, AttachLockedPC, DetachLockedPC,
        driver, locks, local
<1>1. CASE batchDetachDiskRequest(t) BY <1>1 DEF batchDetachDiskRequest
<1>2. CASE retrieveDetachBatchedDiskRequests(t) BY <1>2 DEF retrieveDetachBatchedDiskRequests
<1>3. CASE VMDetach(t) BY <1>3 DEF VMDetach
<1>4. CASE DetachSucceeds(t) BY <1>4 DEF DetachSucceeds
<1>5. CASE DetachInstanceNotFound(t) BY <1>5 DEF DetachInstanceNotFound
<1>6. CASE DetachInterrupted(t) BY <1>6 DEF DetachInterrupted
<1>7. CASE DetachFails(t) BY <1>7 DEF DetachFails, ForceOrFail
<1>8. CASE ForceDetachFails(t) BY <1>8 DEF ForceDetachFails
<1>9. CASE pollForDetachCompletion(t)
  <2>1. CASE UNCHANGED pc BY <1>9, <2>1 DEF pollForDetachCompletion, LockHeld, Node
  <2>2. CASE Goto(t, "verifyDetach") BY <1>9, <2>2 DEF pollForDetachCompletion
  <2> QED BY <1>9, <2>1, <2>2 DEF pollForDetachCompletion
<1>10. CASE PollGivesUp(t) BY <1>10 DEF PollGivesUp, ForceOrFail
<1>11. CASE verifyDetach(t) BY <1>11 DEF verifyDetach
<1>12. CASE waitForDiskManagedByTobeRemoved(t) BY <1>12 DEF waitForDiskManagedByTobeRemoved
<1> QED BY <1>1, <1>2, <1>3, <1>4, <1>5, <1>6, <1>7, <1>8, <1>9, <1>10, <1>11, <1>12
   DEF DetachStep

LEMMA LockDelete == ASSUME TypeOK, LockHeld, NEW t \in Threads, DeleteStep(t) PROVE LockHeld'
<1> USE MoveOn, MoveInside, LeavesLock, StaysOutside
    DEF Goto, PCs, AttachPC, DetachPC, LockedPC, AttachLockedPC, DetachLockedPC,
        driver, locks, local
<1>1. CASE CheckDiskState(t) BY <1>1 DEF CheckDiskState
<1>2. CASE GetManagedDisk(t) BY <1>2 DEF GetManagedDisk
<1>3. CASE DeleteManagedDisk(t) BY <1>3 DEF DeleteManagedDisk
<1> QED BY <1>1, <1>2, <1>3
   DEF DeleteStep

LEMMA LockCall == ASSUME TypeOK, LockHeld, NEW t \in Threads, CallStep(t) PROVE LockHeld'
<1> USE MoveOutside DEF Goto, Call, PCs, AttachPC, DetachPC, LockedPC, AttachLockedPC, DetachLockedPC, driver, locks
<1>1. ASSUME NEW d \in Disks, NEW n \in Nodes, CallAttachDisk(t, d, n) PROVE LockHeld'
  BY <1>1 DEF CallAttachDisk
<1>2. ASSUME NEW d \in Disks, NEW n \in Nodes, CallDetachDisk(t, d, n) PROVE LockHeld'
  BY <1>2 DEF CallDetachDisk
<1>3. ASSUME NEW d \in Deletable, NEW n \in Nodes, CallDeleteManagedDisk(t, d, n) PROVE LockHeld'
  BY <1>3 DEF CallDeleteManagedDisk
<1>4. CASE Finish(t) BY <1>4 DEF Finish
<1> QED BY <1>1, <1>2, <1>3, <1>4 DEF CallStep

LEMMA LockLock == ASSUME TypeOK, LockHeld, NEW t \in Threads, Lock(t) PROVE LockHeld'
  BY MoveIn DEF Lock, LockEntry, local, PCs, AttachPC, DetachPC, LockedPC, AttachLockedPC, DetachLockedPC

LEMMA LockVMSet == ASSUME TypeOK, LockHeld, NEW t \in Threads, GetNodeVMSetFails(t) PROVE LockHeld'
  BY LeavesLock, StaysOutside DEF GetNodeVMSetFails, driver, locks, PCs, AttachPC, DetachPC, LockedPC, AttachLockedPC, DetachLockedPC

LEMMA LockAzure == ASSUME TypeOK, LockHeld, NEW t \in Threads, AzureUpdate(t) PROVE LockHeld'
<1> USE MoveInside DEF Accept, driver, locks, local, PCs, AttachPC, DetachPC, LockedPC, AttachLockedPC, DetachLockedPC
<1>1. CASE Accept(t, "attachSent", "attachAccepted") BY <1>1
<1>2. CASE Accept(t, "detachSent", "detachAccepted") BY <1>2
<1>3. CASE Accept(t, "forceSent", "forceAccepted") BY <1>3
<1>4. CASE FilterNonExistingDisks(t) BY <1>4 DEF FilterNonExistingDisks, LockHeld, Node
<1> QED BY <1>1, <1>2, <1>3, <1>4 DEF AzureUpdate

LEMMA LockNode == ASSUME LockHeld, NEW n \in Nodes, NodeStep(n) PROVE LockHeld'
  BY DEF NodeStep, DeleteVM, ExpireCache, DetachCompletes, LockHeld, Node, driver, locks, local

LEMMA LockRestart == ASSUME Restart PROVE LockHeld'
  BY DEF Restart, LockHeld, PCs, AttachPC, DetachPC, LockedPC, AttachLockedPC, DetachLockedPC

LEMMA LockInit == Init => LockHeld
  BY DEF Init, LockHeld, PCs, AttachPC, DetachPC, LockedPC, AttachLockedPC, DetachLockedPC

LEMMA LockNext == TypeOK /\ LockHeld /\ [Next]_vars => LockHeld'
<1> SUFFICES ASSUME TypeOK, LockHeld, [Next]_vars PROVE LockHeld' OBVIOUS
<1>1. ASSUME NEW t \in Threads, ThreadStep(t) PROVE LockHeld'
  BY <1>1, LockCall, LockLock, LockVMSet, LockAttach, LockDetach, LockDelete, LockAzure DEF ThreadStep
<1>2. ASSUME NEW n \in Nodes, NodeStep(n) PROVE LockHeld' BY <1>2, LockNode
<1>3. CASE Restart BY <1>3, LockRestart
<1>4. CASE UNCHANGED vars BY <1>4 DEF vars, driver, locks, local, LockHeld, Node
<1> QED BY <1>1, <1>2, <1>3, <1>4 DEF Next

(* The node's lock and the threads in the locked region name each other:   *)
(* however AttachDisk, DetachDisk and UpdateVM fail, return early or are   *)
(* batched, a node has at most one VM update under way.                    *)
THEOREM LockCorrect == Spec => []LockHeld
<1>1. TypeOK /\ LockHeld /\ [Next]_vars => (TypeOK /\ LockHeld)' BY TypeNext, LockNext
<1>2. Init => TypeOK /\ LockHeld BY TypeInit, LockInit
<1> QED BY <1>1, <1>2, PTL DEF Spec

-----------------------------------------------------------------------------
(* The VM cache is honest whenever no accepted update of the node awaits   *)
(* its answer.                                                             *)

(* A step of one thread leaves the others where they are.                  *)
OnlyThread(t) ==
  /\ \A u \in Threads \ {t} : pc'[u] = pc[u] /\ call'[u] = call[u]
  /\ UNCHANGED <<vm, nodes>>

(* An entry is dropped, fetched or left alone, and left alone only if no   *)
(* update of the thread is accepted and unanswered.                        *)
RefreshesCache(t) ==
  \/ cache' = [cache EXCEPT ![Node(t)] = NoView]
  \/ cache' = [cache EXCEPT ![Node(t)] = vm[Node(t)]]

LeavesCache(t) ==
  /\ pc[t] \notin AcceptedPC
  /\ UNCHANGED cache \/ cache' = [cache EXCEPT ![Node(t)] = DataDisks(Node(t))]

LEMMA QuietBefore ==
  ASSUME NEW t \in Threads, NEW n \in Nodes, OnlyThread(t), Quiet(n)',
         pc[t] \in AcceptedPC => Node(t) # n
  PROVE Quiet(n)
  BY DEF Quiet, OnlyThread, Node

LEMMA RefreshHonest ==
  ASSUME TypeOK, CacheHonest, NEW t \in Threads, pc[t] # "idle", OnlyThread(t), RefreshesCache(t)
  PROVE CacheHonest'
<1> SUFFICES ASSUME NEW n \in Nodes, Quiet(n)', cache'[n] # NoView
             PROVE /\ \A d \in Listed(vm[n]) : cache'[n].lun[d] = vm[n].lun[d]
                   /\ n \in nodes => \A d \in Disks : HasLun(cache'[n], d) => HasLun(vm[n], d)
  BY DEF CacheHonest, OnlyThread
<1>1. n \in Nodes /\ Node(t) \in Nodes /\ cache \in [Nodes -> Views \cup {NoView}]
  BY ArgumentTypes DEF TypeOK, AzureTypeOK, CacheTypeOK
<1>2. CASE n = Node(t) BY <1>1, <1>2 DEF RefreshesCache
<1>3. CASE n # Node(t)
  <2>1. cache'[n] = cache[n] BY <1>1, <1>3 DEF RefreshesCache
  <2>2. Quiet(n) BY <1>1, <1>3, QuietBefore
  <2> QED BY <2>1, <2>2 DEF CacheHonest
<1> QED BY <1>2, <1>3

LEMMA LeaveHonest ==
  ASSUME TypeOK, CacheHonest, NEW t \in Threads, OnlyThread(t), LeavesCache(t)
  PROVE CacheHonest'
<1> SUFFICES ASSUME NEW n \in Nodes, Quiet(n)', cache'[n] # NoView
             PROVE /\ \A d \in Listed(vm[n]) : cache'[n].lun[d] = vm[n].lun[d]
                   /\ n \in nodes => \A d \in Disks : HasLun(cache'[n], d) => HasLun(vm[n], d)
  BY DEF CacheHonest, OnlyThread
<1>1. n \in Nodes /\ cache \in [Nodes -> Views \cup {NoView}]
  BY DEF TypeOK, AzureTypeOK, CacheTypeOK
<1>2. Quiet(n) BY <1>1, QuietBefore DEF LeavesCache
<1>3. CASE cache'[n] = cache[n] BY <1>2, <1>3 DEF CacheHonest
<1>4. CASE cache'[n] = vm[n] BY <1>4
<1>5. cache'[n] = cache[n] \/ cache'[n] = vm[n] BY <1>1 DEF LeavesCache, DataDisks
<1> QED BY <1>3, <1>4, <1>5

(* Flagging the disks of a batch ToBeDetached in place claims less of them *)
(* than before.                                                            *)
LEMMA HonestVMDetach == ASSUME TypeOK, CacheHonest, NEW t \in Threads, VMDetach(t) PROVE CacheHonest'
<1>1. pc[t] \notin AcceptedPC /\ pc[t] # "idle" BY DEF VMDetach, AcceptedPC
<1>2. OnlyThread(t) BY DEF OnlyThread, VMDetach, Goto, TypeOK, ThreadTypeOK, azure
<1> SUFFICES ASSUME NEW n \in Nodes, Quiet(n)', cache'[n] # NoView
             PROVE /\ \A d \in Listed(vm[n]) : cache'[n].lun[d] = vm[n].lun[d]
                   /\ n \in nodes => \A d \in Disks : HasLun(cache'[n], d) => HasLun(vm[n], d)
  BY <1>2 DEF CacheHonest, OnlyThread
<1>3. n \in Nodes /\ Node(t) \in Nodes /\ cache \in [Nodes -> Views \cup {NoView}]
  BY <1>1, ArgumentTypes DEF TypeOK, AzureTypeOK, CacheTypeOK
<1>4. Quiet(n) BY <1>1, <1>2, <1>3, QuietBefore
<1>5. CASE n # Node(t)
  <2>1. cache'[n] = cache[n] BY <1>3, <1>5 DEF VMDetach
  <2> QED BY <1>4, <2>1 DEF CacheHonest
<1>6. CASE n = Node(t)
  <2> DEFINE v == DataDisks(n)
  <2>1. /\ \A d \in Listed(vm[n]) : v.lun[d] = vm[n].lun[d]
        /\ n \in nodes => \A d \in Disks : HasLun(v, d) => HasLun(vm[n], d)
    BY <1>4 DEF CacheHonest, DataDisks
  <2>2. cache'[n] = [lun |-> v.lun, tbd |-> v.tbd \cup (diskMap[t] \cap Listed(v))]
    BY <1>3, <1>6 DEF VMDetach, DetachList
  <2>3. cache'[n].lun = v.lun /\ \A d \in Disks : HasLun(cache'[n], d) => HasLun(v, d)
    BY <2>2 DEF HasLun, Listed
  <2> HIDE DEF v
  <2> QED BY <2>1, <2>3 DEF Listed
<1> QED BY <1>5, <1>6

LEMMA HonestAttach == ASSUME TypeOK, CacheHonest, NEW t \in Threads, AttachStep(t) PROVE CacheHonest'
<1> USE RefreshHonest, LeaveHonest
    DEF OnlyThread, RefreshesCache, LeavesCache, AcceptedPC, TypeOK, ThreadTypeOK, Goto, Return, UnlockReturn,
        GetNodeDataDisks, GetNodeDataDisksFails, DeleteCacheForNode, azure, local
<1>1. CASE AttachedToThisNode(t) BY <1>1 DEF AttachedToThisNode
<1>2. CASE AttachRefused(t) BY <1>2 DEF AttachRefused
<1>3. CASE batchAttachDiskRequest(t) BY <1>3 DEF batchAttachDiskRequest
<1>4. CASE WaitForDetachRequests(t) BY <1>4 DEF WaitForDetachRequests
<1>5. CASE CountDisksFails(t) BY <1>5 DEF CountDisksFails
<1>6. CASE AttachBatchedAlready(t) BY <1>6 DEF AttachBatchedAlready, CountDisks
<1>7. CASE retrieveAttachBatchedDiskRequests(t) BY <1>7 DEF retrieveAttachBatchedDiskRequests, CountDisks
<1>8. CASE SetDiskLunFails(t) BY <1>8 DEF SetDiskLunFails
<1>9. CASE SetDiskLun(t) BY <1>9 DEF SetDiskLun
<1>10. CASE VMAttach(t) BY <1>10 DEF VMAttach
<1>11. CASE AttachFails(t) BY <1>11 DEF AttachFails
<1>12. CASE AttachHitsMax(t) BY <1>12 DEF AttachHitsMax
<1>13. CASE AttachPreempted(t) BY <1>13 DEF AttachPreempted
<1>14. CASE AttachRetry(t) BY <1>14 DEF AttachRetry
<1>15. CASE AttachSucceeds(t) BY <1>15 DEF AttachSucceeds
<1>16. CASE verifyAttach(t) BY <1>16 DEF verifyAttach
<1>17. CASE UpdateVM(t) BY <1>17 DEF UpdateVM
<1>18. CASE GetDiskLun(t) BY <1>18 DEF GetDiskLun
<1> QED BY <1>1, <1>2, <1>3, <1>4, <1>5, <1>6, <1>7, <1>8, <1>9, <1>10, <1>11, <1>12, <1>13, <1>14, <1>15, <1>16, <1>17, <1>18
   DEF AttachStep

LEMMA HonestDetach == ASSUME TypeOK, CacheHonest, NEW t \in Threads, DetachStep(t) PROVE CacheHonest'
<1> USE RefreshHonest, LeaveHonest
    DEF OnlyThread, RefreshesCache, LeavesCache, AcceptedPC, TypeOK, ThreadTypeOK, Goto, Return, UnlockReturn,
        GetNodeDataDisks, GetNodeDataDisksFails, DeleteCacheForNode, azure, local
<1>1. CASE batchDetachDiskRequest(t) BY <1>1 DEF batchDetachDiskRequest
<1>2. CASE retrieveDetachBatchedDiskRequests(t) BY <1>2 DEF retrieveDetachBatchedDiskRequests
<1>3. CASE VMDetach(t) BY <1>3, HonestVMDetach
<1>4. CASE DetachSucceeds(t) BY <1>4 DEF DetachSucceeds
<1>5. CASE DetachInstanceNotFound(t) BY <1>5 DEF DetachInstanceNotFound
<1>6. CASE DetachInterrupted(t) BY <1>6 DEF DetachInterrupted
<1>7. CASE DetachFails(t) BY <1>7 DEF DetachFails, ForceOrFail
<1>8. CASE ForceDetachFails(t) BY <1>8 DEF ForceDetachFails
<1>9. CASE pollForDetachCompletion(t) BY <1>9 DEF pollForDetachCompletion
<1>10. CASE PollGivesUp(t) BY <1>10 DEF PollGivesUp, ForceOrFail
<1>11. CASE verifyDetach(t) BY <1>11 DEF verifyDetach
<1>12. CASE waitForDiskManagedByTobeRemoved(t) BY <1>12 DEF waitForDiskManagedByTobeRemoved
<1> QED BY <1>1, <1>2, <1>3, <1>4, <1>5, <1>6, <1>7, <1>8, <1>9, <1>10, <1>11, <1>12
   DEF DetachStep

LEMMA HonestDelete == ASSUME TypeOK, CacheHonest, NEW t \in Threads, DeleteStep(t) PROVE CacheHonest'
<1> USE RefreshHonest, LeaveHonest
    DEF OnlyThread, RefreshesCache, LeavesCache, AcceptedPC, TypeOK, ThreadTypeOK, Goto, Return, UnlockReturn,
        GetNodeDataDisks, GetNodeDataDisksFails, DeleteCacheForNode, azure, local
<1>1. CASE CheckDiskState(t) BY <1>1 DEF CheckDiskState
<1>2. CASE GetManagedDisk(t) BY <1>2 DEF GetManagedDisk
<1>3. CASE DeleteManagedDisk(t) BY <1>3 DEF DeleteManagedDisk
<1> QED BY <1>1, <1>2, <1>3
   DEF DeleteStep

LEMMA HonestCall == ASSUME TypeOK, CacheHonest, NEW t \in Threads, CallStep(t) PROVE CacheHonest'
<1>1. pc[t] \notin AcceptedPC
  BY DEF CallStep, CallAttachDisk, CallDetachDisk, CallDeleteManagedDisk, Call, Finish, AcceptedPC
<1>2. UNCHANGED cache
  BY DEF CallStep, CallAttachDisk, CallDetachDisk, CallDeleteManagedDisk, Call, Finish
<1>3. OnlyThread(t)
  BY DEF CallStep, CallAttachDisk, CallDetachDisk, CallDeleteManagedDisk, Call, Finish, Goto,
         OnlyThread, TypeOK, ThreadTypeOK, azure
<1> QED BY <1>1, <1>2, <1>3, LeaveHonest DEF LeavesCache

LEMMA HonestLock ==
  ASSUME TypeOK, CacheHonest, NEW t \in Threads, Lock(t) \/ GetNodeVMSetFails(t) PROVE CacheHonest'
  BY LeaveHonest DEF Lock, LockEntry, GetNodeVMSetFails, Goto, Return, UnlockReturn, OnlyThread,
     LeavesCache, AcceptedPC, TypeOK, ThreadTypeOK, azure, local

(* An accepted update makes its node unquiet and concerns no other node.   *)
LEMMA HonestAccept ==
  ASSUME TypeOK, CacheHonest, NEW t \in Threads, NEW from \in SentPC, NEW to \in AcceptedPC,
         Accept(t, from, to)
  PROVE CacheHonest'
<1>1. pc[t] # "idle" /\ pc[t] \notin AcceptedPC BY DEF Accept, SentPC, AcceptedPC
<1>2. Node(t) \in Nodes /\ pc \in [Threads -> PCs] /\ vm \in [Nodes -> Views]
  BY <1>1, ArgumentTypes DEF TypeOK, AzureTypeOK, ThreadTypeOK
<1> SUFFICES ASSUME NEW n \in Nodes, Quiet(n)', cache[n] # NoView
             PROVE /\ \A d \in Listed(vm'[n]) : cache[n].lun[d] = vm'[n].lun[d]
                   /\ n \in nodes => \A d \in Disks : HasLun(cache[n], d) => HasLun(vm'[n], d)
  BY DEF CacheHonest, Accept
<1>3. n # Node(t) BY <1>2 DEF Quiet, Accept, Goto, local, Node
<1>4. vm'[n] = vm[n] BY <1>2, <1>3 DEF Accept
<1>5. Quiet(n) BY <1>1, <1>2 DEF Quiet, Accept, Goto, local, Node
<1> QED BY <1>4, <1>5 DEF CacheHonest

LEMMA HonestAzure == ASSUME TypeOK, CacheHonest, NEW t \in Threads, AzureUpdate(t) PROVE CacheHonest'
<1>1. CASE FilterNonExistingDisks(t) BY <1>1 DEF FilterNonExistingDisks, CacheHonest, Quiet, Node, azure
<1> QED BY <1>1, HonestAccept DEF AzureUpdate, SentPC, AcceptedPC

(* A detach completes only for a disk the cache does not claim.            *)
LEMMA HonestNode == ASSUME TypeOK, CacheHonest, NEW n \in Nodes, NodeStep(n) PROVE CacheHonest'
<1> USE DEF CacheHonest, Quiet, Node
<1>1. CASE DeleteVM(n)
  <2>1. vm \in [Nodes -> Views] /\ nodes \subseteq Nodes BY DEF TypeOK, AzureTypeOK
  <2>2. nodes' = nodes \ {n} /\ UNCHANGED <<cache, pc, call>> BY <1>1 DEF DeleteVM, local
  <2>3. \A m \in nodes' : vm'[m] = vm[m] BY <1>1, <2>1, <2>2 DEF DeleteVM
  <2>4. \A m \in Nodes : vm'[m].lun = vm[m].lun BY <1>1, <2>1 DEF DeleteVM
  <2> QED BY <2>1, <2>2, <2>3, <2>4 DEF Listed
<1>2. CASE ExpireCache(n)
  <2>1. cache' = [cache EXCEPT ![n] = NoView] /\ cache \in [Nodes -> Views \cup {NoView}]
    BY <1>2 DEF ExpireCache, DeleteCacheForNode, TypeOK, CacheTypeOK
  <2>2. UNCHANGED <<vm, nodes, pc, call>> BY <1>2 DEF ExpireCache, azure, local
  <2>3. \A m \in Nodes : cache'[m] = cache[m] \/ cache'[m] = NoView BY <2>1
  <2> QED BY <2>2, <2>3
<1>3. ASSUME NEW d \in Disks, DetachCompletes(n, d) PROVE CacheHonest'
  <2>1. vm \in [Nodes -> Views] /\ nodes \subseteq Nodes BY DEF TypeOK, AzureTypeOK
  <2>2. UNCHANGED <<nodes, cache, pc, call>> BY <1>3 DEF DetachCompletes, local
  <2>3. ASSUME NEW m \in Nodes
        PROVE /\ \A e \in Listed(vm'[m]) : e \in Listed(vm[m]) /\ vm'[m].lun[e] = vm[m].lun[e]
              /\ \A e \in Disks : HasLun(vm[m], e) => HasLun(vm'[m], e)
    <3>1. CASE m # n BY <1>3, <2>1, <3>1 DEF DetachCompletes
    <3>2. CASE m = n
      <4>1. vm'[n] = [lun |-> [vm[n].lun EXCEPT ![d] = NoLun], tbd |-> vm[n].tbd \ {d}]
        BY <1>3, <2>1 DEF DetachCompletes
      <4>2. vm[n].lun \in [Disks -> LUNs \cup {NoLun}] /\ d \in vm[n].tbd
        BY <1>3, <2>1 DEF DetachCompletes, Views
      <4>3. \A e \in Disks : vm'[n].lun[e] = IF e = d THEN NoLun ELSE vm[n].lun[e] BY <4>1, <4>2
      <4>4. vm'[n].tbd = vm[n].tbd \ {d} BY <4>1
      <4> QED BY <3>2, <4>2, <4>3, <4>4 DEF HasLun, Listed
    <3> QED BY <3>1, <3>2
  <2> QED BY <2>2, <2>3
<1> QED BY <1>1, <1>2, <1>3 DEF NodeStep

LEMMA HonestRestart == ASSUME TypeOK, Restart PROVE CacheHonest'
  BY DEF Restart, CacheHonest, TypeOK, AzureTypeOK, azure

LEMMA HonestInit == Init => CacheHonest
  BY DEF Init, CacheHonest

LEMMA HonestNext == TypeOK /\ CacheHonest /\ [Next]_vars => CacheHonest'
<1> SUFFICES ASSUME TypeOK, CacheHonest, [Next]_vars PROVE CacheHonest' OBVIOUS
<1>1. ASSUME NEW t \in Threads, ThreadStep(t) PROVE CacheHonest'
  BY <1>1, HonestCall, HonestLock, HonestAttach, HonestDetach, HonestDelete, HonestAzure DEF ThreadStep
<1>2. ASSUME NEW n \in Nodes, NodeStep(n) PROVE CacheHonest' BY <1>2, HonestNode
<1>3. CASE Restart BY <1>3, HonestRestart
<1>4. CASE UNCHANGED vars BY <1>4 DEF vars, azure, local, CacheHonest, Quiet, Node
<1> QED BY <1>1, <1>2, <1>3, <1>4 DEF Next

(* The cache that the next LUNs and the next data disk list are computed   *)
(* from knows every disk of the VM and claims none that is leaving: every  *)
(* path out of an accepted VM update refreshes or drops the entry.         *)
THEOREM CacheCorrect == Spec => []CacheHonest
<1>1. TypeOK /\ CacheHonest /\ [Next]_vars => (TypeOK /\ CacheHonest)' BY TypeNext, HonestNext
<1>2. Init => TypeOK /\ CacheHonest BY TypeInit, HonestInit
<1> QED BY <1>1, <1>2, PTL DEF Spec

-----------------------------------------------------------------------------
(* A VM update never disturbs the other disks of the VM. The inductive     *)
(* invariant adds to the lock and the cache that the list an update        *)
(* carries still has every disk of the VM when Azure takes it, and that an *)
(* attached disk exists.                                                   *)

AttachedExist == \A n \in Nodes : Listed(vm[n]) \subseteq disks

SentKeepsDisks ==
  \A t \in Threads : pc[t] \in SentPC /\ Node(t) \in nodes =>
    \A d \in Listed(vm[Node(t)]) : sent[t].lun[d] = vm[Node(t)].lun[d]

ListInv == TypeOK /\ LockHeld /\ CacheHonest /\ AttachedExist /\ SentKeepsDisks

(* The steps that touch neither the VMs nor the disks.                     *)
LEMMA ExistUnchanged == ASSUME AttachedExist, UNCHANGED <<vm, disks>> PROVE AttachedExist'
  BY DEF AttachedExist

LEMMA AppliedListed ==
  ASSUME NEW n \in Nodes, NEW v \in Views PROVE Listed(Applied(n, v)) \subseteq Listed(v)
  BY DEF Applied, Listed, Views

LEMMA ExistAccept ==
  ASSUME TypeOK, AttachedExist, NEW t \in Threads, NEW from \in SentPC, NEW to \in AcceptedPC,
         Accept(t, from, to)
  PROVE AttachedExist'
<1>1. Node(t) \in Nodes /\ sent[t] \in Views /\ vm \in [Nodes -> Views]
  BY ArgumentTypes DEF Accept, SentPC, TypeOK, AzureTypeOK, ThreadTypeOK
<1>2. Listed(sent[t]) \subseteq disks /\ UNCHANGED disks BY DEF Accept, Acceptable
<1>3. ASSUME NEW n \in Nodes PROVE Listed(vm'[n]) \subseteq disks
  <2>1. CASE n = Node(t)
    <3>1. vm'[n] = Applied(Node(t), sent[t]) BY <1>1, <2>1 DEF Accept
    <3> QED BY <1>1, <1>2, <3>1, AppliedListed
  <2>2. CASE n # Node(t)
    <3>1. vm'[n] = vm[n] BY <1>1, <2>2 DEF Accept
    <3> QED BY <3>1 DEF AttachedExist
  <2> QED BY <2>1, <2>2
<1> QED BY <1>2, <1>3 DEF AttachedExist, Listed

LEMMA ExistDelete == ASSUME AttachedExist, NEW t \in Threads, DeleteManagedDisk(t) PROVE AttachedExist'
<1>1. UNCHANGED vm BY DEF DeleteManagedDisk
<1>2. disks' = disks \/ (disks' = disks \ {Disk(t)} /\ ManagedBy(Disk(t)) = {})
  BY DEF DeleteManagedDisk
<1>3. ManagedBy(Disk(t)) = {} => \A n \in Nodes : Disk(t) \notin Listed(vm[n]) BY DEF ManagedBy, Listed
<1> QED BY <1>1, <1>2, <1>3 DEF AttachedExist

LEMMA ExistNode == ASSUME TypeOK, AttachedExist, NEW n \in Nodes, NodeStep(n) PROVE AttachedExist'
<1>1. vm \in [Nodes -> Views] BY DEF TypeOK, AzureTypeOK
<1>2. CASE DeleteVM(n)
  <2>1. UNCHANGED disks /\ \A m \in Nodes : vm'[m].lun = vm[m].lun BY <1>1, <1>2 DEF DeleteVM
  <2> QED BY <2>1 DEF AttachedExist, Listed
<1>3. CASE ExpireCache(n) BY <1>3, ExistUnchanged DEF ExpireCache, azure
<1>4. ASSUME NEW d \in Disks, DetachCompletes(n, d) PROVE AttachedExist'
  <2>1. UNCHANGED disks BY <1>4 DEF DetachCompletes
  <2>2. \A m \in Nodes : Listed(vm'[m]) \subseteq Listed(vm[m])
    <3>1. TAKE m \in Nodes
    <3>2. CASE m # n BY <1>1, <1>4, <3>2 DEF DetachCompletes
    <3>3. CASE m = n
      <4>1. vm'[n].lun = [vm[n].lun EXCEPT ![d] = NoLun] BY <1>1, <1>4 DEF DetachCompletes
      <4>2. vm[n].lun \in [Disks -> LUNs \cup {NoLun}] BY <1>1 DEF Views
      <4> QED BY <3>3, <4>1, <4>2 DEF Listed
    <3> QED BY <3>2, <3>3
  <2> QED BY <2>1, <2>2 DEF AttachedExist
<1> QED BY <1>2, <1>3, <1>4 DEF NodeStep

(* A step that ends outside of SentPC leaves the other lists as they are.  *)
LEMMA KeepsOutside ==
  ASSUME SentKeepsDisks, NEW t \in Threads, OnlyThread(t), pc'[t] \notin SentPC,
         \A u \in Threads \ {t} : sent'[u] = sent[u]
  PROVE SentKeepsDisks'
  BY DEF SentKeepsDisks, OnlyThread, Node

(* A thread with the lock and no update accepted sees an honest view.      *)
LEMMA LockedQuiet ==
  ASSUME LockHeld, NEW t \in Threads, pc[t] \in LockedPC \ AcceptedPC PROVE Quiet(Node(t))
<1> SUFFICES ASSUME NEW u \in Threads, pc[u] \in AcceptedPC, Node(u) = Node(t) PROVE FALSE
  BY DEF Quiet
<1>1. pc[u] \in LockedPC BY DEF AcceptedPC, LockedPC, AttachLockedPC, DetachLockedPC
<1>2. lockMap[Node(u)] = u /\ lockMap[Node(t)] = t BY <1>1 DEF LockHeld
<1> QED BY <1>2

LEMMA LockedView ==
  ASSUME ListInv, NEW t \in Threads, pc[t] \in LockedPC \ AcceptedPC
  PROVE /\ \A d \in Listed(vm[Node(t)]) : DataDisks(Node(t)).lun[d] = vm[Node(t)].lun[d]
        /\ Node(t) \in nodes =>
             \A d \in Disks : HasLun(DataDisks(Node(t)), d) => HasLun(vm[Node(t)], d)
<1>1. Quiet(Node(t)) BY LockedQuiet DEF ListInv
<1>2. Node(t) \in Nodes
  BY ArgumentTypes DEF ListInv, LockedPC, AttachLockedPC, DetachLockedPC
<1> QED BY <1>1, <1>2 DEF ListInv, CacheHonest, DataDisks

(* A step that sends a list computed from the view keeps the others.       *)
LEMMA KeepsSent ==
  ASSUME ListInv, NEW t \in Threads, pc[t] \in LockedPC \ AcceptedPC, OnlyThread(t), UNCHANGED call,
         \A u \in Threads \ {t} : sent'[u] = sent[u],
         \A d \in Listed(DataDisks(Node(t))) : sent'[t].lun[d] = DataDisks(Node(t)).lun[d]
  PROVE SentKeepsDisks'
<1> SUFFICES ASSUME NEW u \in Threads, pc'[u] \in SentPC, Node(u) \in nodes,
                    NEW d \in Listed(vm[Node(u)])
             PROVE sent'[u].lun[d] = vm[Node(u)].lun[d]
  BY DEF SentKeepsDisks, OnlyThread, Node
<1>1. CASE u = t
  <2>1. DataDisks(Node(t)).lun[d] = vm[Node(t)].lun[d] BY <1>1, LockedView
  <2>2. d \in Listed(DataDisks(Node(t))) BY <1>1, <2>1 DEF Listed
  <2> QED BY <1>1, <2>1, <2>2
<1>2. CASE u # t BY <1>2 DEF ListInv, SentKeepsDisks, OnlyThread
<1> QED BY <1>1, <1>2

LEMMA KeepsVMAttach == ASSUME ListInv, NEW t \in Threads, VMAttach(t) PROVE SentKeepsDisks'
<1>1. pc[t] \in LockedPC \ AcceptedPC BY DEF VMAttach, LockedPC, AttachLockedPC, AcceptedPC
<1>2. OnlyThread(t) /\ UNCHANGED call
  BY DEF VMAttach, OnlyThread, ListInv, TypeOK, ThreadTypeOK, Goto, azure
<1>3. sent' = [sent EXCEPT ![t] = AttachList(t)] /\ sent \in [Threads -> Views]
  BY DEF VMAttach, ListInv, TypeOK, ThreadTypeOK
<1>4. \A d \in Listed(DataDisks(Node(t))) : AttachList(t).lun[d] = DataDisks(Node(t)).lun[d]
  BY DEF AttachList, Listed
<1> QED BY <1>1, <1>2, <1>3, <1>4, KeepsSent

LEMMA KeepsVMDetach == ASSUME ListInv, NEW t \in Threads, VMDetach(t) PROVE SentKeepsDisks'
<1>1. pc[t] \in LockedPC \ AcceptedPC BY DEF VMDetach, LockedPC, DetachLockedPC, AcceptedPC
<1>2. OnlyThread(t) /\ UNCHANGED call
  BY DEF VMDetach, OnlyThread, ListInv, TypeOK, ThreadTypeOK, Goto, azure
<1>3. sent \in [Threads -> Views] /\ pc \in [Threads -> PCs] BY DEF ListInv, TypeOK, ThreadTypeOK
<1>4. CASE sent' = [sent EXCEPT ![t] = DetachList(t)]
  <2>1. DetachList(t).lun = DataDisks(Node(t)).lun BY DEF DetachList
  <2> QED BY <1>1, <1>2, <1>3, <1>4, <2>1, KeepsSent
<1>5. CASE UNCHANGED sent /\ Goto(t, "verifyDetach")
  BY <1>2, <1>3, <1>5, KeepsOutside DEF Goto, SentPC, ListInv
<1> QED BY <1>4, <1>5 DEF VMDetach

LEMMA KeepsAttach == ASSUME ListInv, NEW t \in Threads, AttachStep(t) PROVE SentKeepsDisks'
<1> USE KeepsOutside DEF ListInv, OnlyThread, SentPC, TypeOK, ThreadTypeOK, Goto, Return, UnlockReturn,
        azure, local
<1>1. CASE AttachedToThisNode(t) BY <1>1 DEF AttachedToThisNode
<1>2. CASE AttachRefused(t) BY <1>2 DEF AttachRefused
<1>3. CASE batchAttachDiskRequest(t) BY <1>3 DEF batchAttachDiskRequest
<1>4. CASE WaitForDetachRequests(t) BY <1>4 DEF WaitForDetachRequests
<1>5. CASE CountDisksFails(t) BY <1>5 DEF CountDisksFails
<1>6. CASE AttachBatchedAlready(t) BY <1>6 DEF AttachBatchedAlready
<1>7. CASE retrieveAttachBatchedDiskRequests(t) BY <1>7 DEF retrieveAttachBatchedDiskRequests
<1>8. CASE SetDiskLunFails(t) BY <1>8 DEF SetDiskLunFails
<1>9. CASE SetDiskLun(t) BY <1>9 DEF SetDiskLun
<1>10. CASE VMAttach(t) BY <1>10, KeepsVMAttach
<1>11. CASE AttachFails(t) BY <1>11 DEF AttachFails
<1>12. CASE AttachHitsMax(t) BY <1>12 DEF AttachHitsMax
<1>13. CASE AttachPreempted(t) BY <1>13 DEF AttachPreempted
<1>14. CASE AttachRetry(t) BY <1>14 DEF AttachRetry
<1>15. CASE AttachSucceeds(t) BY <1>15 DEF AttachSucceeds
<1>16. CASE verifyAttach(t) BY <1>16 DEF verifyAttach
<1>17. CASE UpdateVM(t) BY <1>17 DEF UpdateVM
<1>18. CASE GetDiskLun(t) BY <1>18 DEF GetDiskLun
<1> QED BY <1>1, <1>2, <1>3, <1>4, <1>5, <1>6, <1>7, <1>8, <1>9, <1>10, <1>11, <1>12, <1>13, <1>14, <1>15, <1>16, <1>17, <1>18
   DEF AttachStep

LEMMA KeepsDetach == ASSUME ListInv, NEW t \in Threads, DetachStep(t) PROVE SentKeepsDisks'
<1> USE KeepsOutside DEF ListInv, OnlyThread, SentPC, TypeOK, ThreadTypeOK, Goto, Return, UnlockReturn,
        azure, local
<1>1. CASE batchDetachDiskRequest(t) BY <1>1 DEF batchDetachDiskRequest
<1>2. CASE retrieveDetachBatchedDiskRequests(t) BY <1>2 DEF retrieveDetachBatchedDiskRequests
<1>3. CASE VMDetach(t) BY <1>3, KeepsVMDetach
<1>4. CASE DetachSucceeds(t) BY <1>4 DEF DetachSucceeds
<1>5. CASE DetachInstanceNotFound(t) BY <1>5 DEF DetachInstanceNotFound
<1>6. CASE DetachInterrupted(t) BY <1>6 DEF DetachInterrupted
<1>7. CASE DetachFails(t) BY <1>7 DEF DetachFails, ForceOrFail
<1>8. CASE ForceDetachFails(t) BY <1>8 DEF ForceDetachFails
<1>9. CASE pollForDetachCompletion(t) BY <1>9 DEF pollForDetachCompletion
<1>10. CASE PollGivesUp(t) BY <1>10 DEF PollGivesUp, ForceOrFail
<1>11. CASE verifyDetach(t) BY <1>11 DEF verifyDetach
<1>12. CASE waitForDiskManagedByTobeRemoved(t) BY <1>12 DEF waitForDiskManagedByTobeRemoved
<1> QED BY <1>1, <1>2, <1>3, <1>4, <1>5, <1>6, <1>7, <1>8, <1>9, <1>10, <1>11, <1>12
   DEF DetachStep

LEMMA KeepsDelete == ASSUME ListInv, NEW t \in Threads, DeleteStep(t) PROVE SentKeepsDisks'
<1> USE KeepsOutside DEF ListInv, OnlyThread, SentPC, TypeOK, ThreadTypeOK, Goto, Return, UnlockReturn,
        azure, local
<1>1. CASE CheckDiskState(t) BY <1>1 DEF CheckDiskState
<1>2. CASE GetManagedDisk(t) BY <1>2 DEF GetManagedDisk
<1>3. CASE DeleteManagedDisk(t) BY <1>3 DEF DeleteManagedDisk
<1> QED BY <1>1, <1>2, <1>3
   DEF DeleteStep

LEMMA KeepsCall ==
  ASSUME ListInv, NEW t \in Threads, CallStep(t) \/ Lock(t) \/ GetNodeVMSetFails(t) PROVE SentKeepsDisks'
<1> USE KeepsOutside DEF ListInv, OnlyThread, SentPC, TypeOK, ThreadTypeOK, Goto, Return, UnlockReturn,
        Call, azure, local
<1>1. CASE CallStep(t)
  BY <1>1 DEF CallStep, CallAttachDisk, CallDetachDisk, CallDeleteManagedDisk, Finish
<1>2. CASE Lock(t) BY <1>2 DEF Lock, LockEntry
<1>3. CASE GetNodeVMSetFails(t) BY <1>3 DEF GetNodeVMSetFails
<1> QED BY <1>1, <1>2, <1>3

(* The lists of other nodes are not concerned, and the node's lock admits  *)
(* no other list of the same node.                                         *)
LEMMA KeepsAccept ==
  ASSUME ListInv, NEW t \in Threads, NEW from \in SentPC, NEW to \in AcceptedPC, Accept(t, from, to)
  PROVE SentKeepsDisks'
<1>1. pc[t] \in SentPC /\ pc[t] # "idle" BY DEF Accept, SentPC
<1>2. Node(t) \in Nodes /\ pc \in [Threads -> PCs] /\ vm \in [Nodes -> Views] /\ nodes \subseteq Nodes
  BY <1>1, ArgumentTypes DEF ListInv, TypeOK, AzureTypeOK, ThreadTypeOK
<1>3. pc' = [pc EXCEPT ![t] = to] /\ UNCHANGED <<nodes, call, sent>> BY DEF Accept, Goto, local
<1> SUFFICES ASSUME NEW u \in Threads, pc'[u] \in SentPC, Node(u) \in nodes,
                    NEW d \in Listed(vm'[Node(u)])
             PROVE sent[u].lun[d] = vm'[Node(u)].lun[d]
  BY <1>3 DEF SentKeepsDisks, Node
<1>4. u # t BY <1>2, <1>3 DEF SentPC, AcceptedPC
<1>5. pc[u] \in SentPC BY <1>2, <1>3, <1>4
<1>6. Node(u) # Node(t)
  <2>1. pc[t] \in LockedPC /\ pc[u] \in LockedPC
    BY <1>1, <1>5 DEF SentPC, LockedPC, AttachLockedPC, DetachLockedPC
  <2>2. lockMap[Node(t)] = t /\ lockMap[Node(u)] = u BY <2>1 DEF ListInv, LockHeld
  <2> QED BY <1>4, <2>2
<1>7. vm'[Node(u)] = vm[Node(u)] BY <1>2, <1>6 DEF Accept
<1> QED BY <1>5, <1>7 DEF ListInv, SentKeepsDisks

LEMMA KeepsFilter ==
  ASSUME ListInv, NEW t \in Threads, FilterNonExistingDisks(t) PROVE SentKeepsDisks'
<1>1. sent \in [Threads -> Views] BY DEF ListInv, TypeOK, ThreadTypeOK
<1>2. UNCHANGED <<vm, nodes, pc, call>> BY DEF FilterNonExistingDisks, azure
<1>3. \A u \in Threads \ {t} : sent'[u] = sent[u] BY <1>1 DEF FilterNonExistingDisks
<1>4. \A d \in Disks \cap disks : sent'[t].lun[d] = sent[t].lun[d]
  BY <1>1 DEF FilterNonExistingDisks
<1>5. pc[t] # "idle" BY DEF FilterNonExistingDisks, SentPC
<1>6. Listed(vm[Node(t)]) \subseteq Disks \cap disks
  BY <1>5, ArgumentTypes DEF ListInv, AttachedExist, Listed
<1> QED BY <1>2, <1>3, <1>4, <1>6 DEF ListInv, SentKeepsDisks, Node

LEMMA KeepsNode == ASSUME ListInv, NEW n \in Nodes, NodeStep(n) PROVE SentKeepsDisks'
<1>1. vm \in [Nodes -> Views] /\ nodes \subseteq Nodes BY DEF ListInv, TypeOK, AzureTypeOK
<1>2. UNCHANGED <<pc, call, sent>> BY DEF NodeStep, DeleteVM, ExpireCache, DetachCompletes, local
<1>3. nodes' \subseteq nodes BY DEF NodeStep, DeleteVM, ExpireCache, DetachCompletes, azure
<1>4. \A m \in nodes', d \in Disks : vm'[m].lun[d] = vm[m].lun[d] \/ vm'[m].lun[d] = NoLun
  <2>1. CASE DeleteVM(n) BY <1>1, <2>1 DEF DeleteVM
  <2>2. CASE ExpireCache(n) BY <2>2 DEF ExpireCache, azure
  <2>3. ASSUME NEW e \in Disks, DetachCompletes(n, e)
        PROVE \A m \in nodes', d \in Disks : vm'[m].lun[d] = vm[m].lun[d] \/ vm'[m].lun[d] = NoLun
    <3>1. TAKE m \in nodes', d \in Disks
    <3>2. m \in Nodes /\ vm[n].lun \in [Disks -> LUNs \cup {NoLun}] BY <1>1, <1>3 DEF Views
    <3>3. CASE m # n BY <1>1, <2>3, <3>2, <3>3 DEF DetachCompletes
    <3>4. CASE m = n
      <4>1. vm'[n].lun = [vm[n].lun EXCEPT ![e] = NoLun] BY <1>1, <2>3 DEF DetachCompletes
      <4> QED BY <3>2, <3>4, <4>1
    <3> QED BY <3>3, <3>4
  <2> QED BY <2>1, <2>2, <2>3 DEF NodeStep
<1> QED BY <1>2, <1>3, <1>4 DEF ListInv, SentKeepsDisks, Listed, Node

(* Only Azure and DeleteManagedDisk change the VMs and the disks.          *)
LEMMA AzureFrame ==
  ASSUME NEW t \in Threads,
         CallStep(t) \/ Lock(t) \/ GetNodeVMSetFails(t) \/ AttachStep(t) \/ DetachStep(t)
  PROVE UNCHANGED <<vm, nodes, disks>>
<1>1. CASE CallStep(t)
  BY <1>1 DEF CallStep, CallAttachDisk, CallDetachDisk, CallDeleteManagedDisk, Call, Finish, azure
<1>2. CASE Lock(t) \/ GetNodeVMSetFails(t) BY <1>2 DEF Lock, LockEntry, GetNodeVMSetFails, azure
<1>3. CASE AttachStep(t)
  BY <1>3 DEF AttachStep, AttachedToThisNode, AttachRefused, batchAttachDiskRequest,
     WaitForDetachRequests, CountDisksFails, AttachBatchedAlready,
     retrieveAttachBatchedDiskRequests, SetDiskLunFails, SetDiskLun, VMAttach, AttachFails,
     AttachHitsMax, AttachPreempted, AttachRetry, AttachSucceeds, verifyAttach, UpdateVM,
     GetDiskLun, azure
<1>4. CASE DetachStep(t)
  BY <1>4 DEF DetachStep, batchDetachDiskRequest, retrieveDetachBatchedDiskRequests, VMDetach,
     DetachSucceeds, DetachInstanceNotFound, DetachInterrupted, DetachFails, ForceDetachFails,
     pollForDetachCompletion, PollGivesUp, verifyDetach, waitForDiskManagedByTobeRemoved, azure
<1> QED BY <1>1, <1>2, <1>3, <1>4

LEMMA DeleteFrame == ASSUME NEW t \in Threads, DeleteStep(t) PROVE UNCHANGED <<vm, nodes>>
  BY DEF DeleteStep, CheckDiskState, GetManagedDisk, DeleteManagedDisk, azure

(* Every step keeps the invariant.                                         *)
LEMMA ExistThread == ASSUME ListInv, NEW t \in Threads, ThreadStep(t) PROVE AttachedExist'
<1> USE ExistUnchanged DEF ListInv
<1>1. CASE DeleteStep(t)
  BY <1>1, ExistDelete DEF DeleteStep, CheckDiskState, GetManagedDisk, azure
<1>2. CASE AzureUpdate(t)
  BY <1>2, ExistAccept DEF AzureUpdate, FilterNonExistingDisks, SentPC, AcceptedPC, azure
<1> QED BY <1>1, <1>2, AzureFrame DEF ThreadStep

LEMMA ListInvInit == Init => ListInv
<1>1. Init => AttachedExist /\ SentKeepsDisks
  BY DEF Init, AttachedExist, SentKeepsDisks, SentPC, EmptyView, Listed
<1> QED BY <1>1, TypeInit, LockInit, HonestInit DEF ListInv

LEMMA ListInvNext == ListInv /\ [Next]_vars => ListInv'
<1> SUFFICES ASSUME ListInv, [Next]_vars PROVE AttachedExist' /\ SentKeepsDisks'
  BY TypeNext, LockNext, HonestNext DEF ListInv
<1>1. ASSUME NEW t \in Threads, ThreadStep(t) PROVE AttachedExist' /\ SentKeepsDisks'
  <2>1. AzureUpdate(t) => SentKeepsDisks'
    BY KeepsAccept, KeepsFilter DEF AzureUpdate, SentPC, AcceptedPC
  <2> QED BY <1>1, <2>1, ExistThread, KeepsCall, KeepsAttach, KeepsDetach, KeepsDelete DEF ThreadStep
<1>2. ASSUME NEW n \in Nodes, NodeStep(n) PROVE AttachedExist' /\ SentKeepsDisks'
  BY <1>2, ExistNode, KeepsNode DEF ListInv
<1>3. CASE Restart
  BY <1>3, ExistUnchanged DEF ListInv, Restart, SentKeepsDisks, SentPC, azure
<1>4. CASE UNCHANGED vars
  BY <1>4, ExistUnchanged DEF ListInv, vars, azure, local, SentKeepsDisks, Node
<1> QED BY <1>1, <1>2, <1>3, <1>4 DEF Next

-----------------------------------------------------------------------------
(* What a step may do to the disks on a VM.                                *)
Undisturbed(n) ==
  \A d \in Listed(vm[n]) :
    \/ vm'[n].lun[d] = vm[n].lun[d]
    \/ vm'[n].lun[d] = NoLun /\ d \in vm[n].tbd

LEMMA UndisturbedAccept ==
  ASSUME ListInv, NEW t \in Threads, NEW from \in SentPC, NEW to \in AcceptedPC,
         Accept(t, from, to), NEW n \in Nodes
  PROVE Undisturbed(n)
<1>1. pc[t] \in SentPC /\ pc[t] # "idle" /\ Node(t) \in nodes BY DEF Accept, Acceptable, SentPC
<1>2. Node(t) \in Nodes /\ vm \in [Nodes -> Views]
  BY <1>1, ArgumentTypes DEF ListInv, TypeOK, AzureTypeOK
<1>3. CASE n = Node(t)
  <2>1. vm'[n] = Applied(n, sent[t]) BY <1>2, <1>3 DEF Accept
  <2>2. \A d \in Listed(vm[n]) : sent[t].lun[d] = vm[n].lun[d]
    BY <1>1, <1>3 DEF ListInv, SentKeepsDisks
  <2>3. \A d \in Listed(vm[n]) : vm'[n].lun[d] = vm[n].lun[d]
    BY <2>1, <2>2 DEF Applied, Listed
  <2> QED BY <2>3 DEF Undisturbed
<1>4. CASE n # Node(t)
  <2>1. vm'[n] = vm[n] BY <1>2, <1>4 DEF Accept
  <2> QED BY <2>1 DEF Undisturbed
<1> QED BY <1>3, <1>4

LEMMA UndisturbedNode ==
  ASSUME ListInv, NEW m \in Nodes, NodeStep(m), NEW n \in Nodes PROVE Undisturbed(n)
<1>1. vm \in [Nodes -> Views] BY DEF ListInv, TypeOK, AzureTypeOK
<1>2. CASE DeleteVM(m)
  <2>1. vm'[n].lun = vm[n].lun BY <1>1, <1>2 DEF DeleteVM
  <2> QED BY <2>1 DEF Undisturbed
<1>3. CASE ExpireCache(m) BY <1>3 DEF ExpireCache, azure, Undisturbed
<1>4. ASSUME NEW e \in Disks, DetachCompletes(m, e) PROVE Undisturbed(n)
  <2>1. vm[n].lun \in [Disks -> LUNs \cup {NoLun}] BY <1>1 DEF Views
  <2>2. CASE n # m
    <3>1. vm'[n] = vm[n] BY <1>1, <1>4, <2>2 DEF DetachCompletes
    <3> QED BY <3>1 DEF Undisturbed
  <2>3. CASE n = m
    <3>1. vm'[n].lun = [vm[n].lun EXCEPT ![e] = NoLun] /\ e \in vm[n].tbd
      BY <1>1, <1>4, <2>3 DEF DetachCompletes
    <3> QED BY <2>1, <3>1 DEF Undisturbed, Listed
  <2> QED BY <2>2, <2>3
<1> QED BY <1>2, <1>3, <1>4 DEF NodeStep

LEMMA UndisturbedNext == ListInv /\ [Next]_vars => \A n \in Nodes : Undisturbed(n)
<1> SUFFICES ASSUME ListInv, [Next]_vars, NEW n \in Nodes PROVE Undisturbed(n) OBVIOUS
<1>1. CASE UNCHANGED vm BY <1>1 DEF Undisturbed
<1>2. ASSUME NEW t \in Threads, ThreadStep(t) PROVE Undisturbed(n)
  <2>1. CASE AzureUpdate(t)
    BY <1>1, <2>1, UndisturbedAccept DEF AzureUpdate, FilterNonExistingDisks, SentPC, AcceptedPC, azure
  <2> QED BY <1>1, <1>2, <2>1, AzureFrame, DeleteFrame DEF ThreadStep
<1>3. ASSUME NEW m \in Nodes, NodeStep(m) PROVE Undisturbed(n) BY <1>3, UndisturbedNode
<1>4. CASE Restart BY <1>1, <1>4 DEF Restart, azure
<1>5. CASE UNCHANGED vars BY <1>1, <1>5 DEF vars, azure
<1> QED BY <1>2, <1>3, <1>4, <1>5 DEF Next

(* However requests are batched, updates lost and caches stale, a disk     *)
(* leaves a VM only when its own detach completes, and never changes its   *)
(* LUN: the lists AttachDisk and DetachDisk send drop no other disk.       *)
THEOREM UpdatesDisturbNoDisk == Spec => DisksUndisturbed
<1>1. ListInv /\ [Next]_vars =>
        [\A n \in Nodes : \A d \in Listed(vm[n]) :
           \/ vm'[n].lun[d] = vm[n].lun[d]
           \/ vm'[n].lun[d] = NoLun /\ d \in vm[n].tbd]_vars
  BY UndisturbedNext DEF Undisturbed
<1> QED BY <1>1, ListInvInit, ListInvNext, PTL DEF Spec, DisksUndisturbed
=============================================================================
