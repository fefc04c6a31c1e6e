-------------------------- MODULE DiskUpdateProofs --------------------------
(***************************************************************************)
(* What a VM update of DiskController asks for and what the calls answer,  *)
(* for every value of the constants: no LUN is asked for twice, a disk is  *)
(* flagged ToBeDetached only on request, and the answers of AttachDisk and *)
(* DetachDisk are true. The inductive invariant follows the data disk list *)
(* from the cache it is computed from to the VM that takes it. The second  *)
(* part shows from it that DiskController implements DiskPlacement.        *)
(***************************************************************************)
EXTENDS DiskControllerProofs

(* The program points between the flags a detach sets in the cache, in     *)
(* place, and the answer to its update; the disks an update flags or adds. *)
FlagPC == {"detachSent", "detachAccepted", "forceSent", "forceAccepted"}

Flagged(t) == IF pc[t] \in FlagPC THEN diskMap[t] ELSE {}
Added(t) == IF pc[t] = "attachSent" THEN diskMap[t] ELSE {}

(* No VM and no cache entry has a LUN twice; only a disk on the VM leaves. *)
ViewsSound ==
  \A n \in Nodes :
    /\ LunsDistinct(vm[n]) /\ vm[n].tbd \subseteq Listed(vm[n])
    /\ cache[n] # NoView => LunsDistinct(cache[n])

(* While no detach of the node is under way, the cache flags no disk that  *)
(* stays on the VM.                                                        *)
Settled(n) == \A t \in Threads : pc[t] \in FlagPC => Node(t) # n

FlagsHonest ==
  \A n \in nodes : Settled(n) /\ cache[n] # NoView =>
    cache[n].tbd \cap Listed(vm[n]) \subseteq vm[n].tbd

(* The LUNs SetDiskLun has allocated to the batch are free.                *)
LunsFree(t) ==
  pc[t] = "vmAttach" =>
    /\ Listed(sent[t]) \subseteq diskMap[t]
    /\ LunsDistinct(sent[t])
    /\ \A d \in Listed(sent[t]), e \in Listed(DataDisks(Node(t))) :
         sent[t].lun[d] # DataDisks(Node(t)).lun[e]

(* A list on its way flags the disks that leave the VM and those of its    *)
(* batch, and has no other disk than the VM's, the batch's and flagged     *)
(* ones.                                                                   *)
SentHonest(t) ==
  pc[t] \in SentPC /\ Node(t) \in nodes =>
    /\ vm[Node(t)].tbd \subseteq sent[t].tbd
    /\ sent[t].tbd \cap Listed(vm[Node(t)]) \subseteq vm[Node(t)].tbd \cup Flagged(t)
    /\ Listed(sent[t]) \ sent[t].tbd \subseteq Listed(vm[Node(t)]) \cup Added(t)
    /\ pc[t] = "attachSent" /\ cache[Node(t)] # NoView => cache[Node(t)].tbd \subseteq sent[t].tbd

SentDistinct(t) == pc[t] \in SentPC => LunsDistinct(sent[t])

(* A cache entry that an accepted update has made stale errs only in the   *)
(* disks which that update detaches.                                       *)
CacheBehind(t) ==
  pc[t] \in AcceptedPC /\ Node(t) \in nodes /\ cache[Node(t)] # NoView =>
    \A d \in Disks : HasLun(cache[Node(t)], d) =>
      \/ HasLun(vm[Node(t)], d) /\ cache[Node(t)].lun[d] = vm[Node(t)].lun[d]
      \/ d \in Flagged(t)

UpdateSound(t) == LunsFree(t) /\ SentHonest(t) /\ SentDistinct(t) /\ CacheBehind(t)

UpdateInv == ListInv /\ ViewsSound /\ FlagsHonest /\ \A t \in Threads : UpdateSound(t)

(* A disk in the detach queue, or in a batch taken from it, has a request  *)
(* that waits for the node's lock or holds it.                             *)
DetachBatchPC == FlagPC \cup {"vmDetach", "pollDetach", "vmForce"}

DetachQueued ==
  \A n \in Nodes : \A d \in detachDiskMap[n] :
    \E t \in Threads : pc[t] \in {"detachLock", "detachLocked"} /\ Disk(t) = d /\ Node(t) = n

DetachBatched ==
  \A u \in Threads : pc[u] \in DetachBatchPC =>
    \A d \in diskMap[u] :
      \/ d = Disk(u)
      \/ \E t \in Threads : pc[t] = "detachLock" /\ Disk(t) = d /\ Node(t) = Node(u)

-----------------------------------------------------------------------------
(* What a step of one thread leaves alone: the other threads, and the      *)
(* nodes whose lock it does not hold, but for filling an empty cache entry.*)
Frame(t) ==
  \A u \in Threads \ {t} :
    /\ pc'[u] = pc[u] /\ call'[u] = call[u] /\ result'[u] = result[u]
    /\ diskMap'[u] = diskMap[u] /\ sent'[u] = sent[u]

FillsCache(t) == UNCHANGED cache \/ cache' = [cache EXCEPT ![Node(t)] = DataDisks(Node(t))]

Aside(t) ==
  \/ pc[t] \in LockedPC /\ \A m \in Nodes \ {Node(t)} : cache'[m] = cache[m] /\ vm'[m] = vm[m]
  \/ FillsCache(t) /\ UNCHANGED vm

(* A step that neither computes nor accepts a list: it ends with no update *)
(* under way, and leaves an update only with the cache entry dropped or    *)
(* fetched.                                                                *)
Plain(t) ==
  /\ UNCHANGED <<vm, nodes>>
  /\ pc'[t] \notin SentPC \cup AcceptedPC \cup {"vmAttach"}
  /\ \/ pc[t] \in LockedPC /\ RefreshesCache(t)
     \/ pc[t] \notin SentPC \cup AcceptedPC /\ FillsCache(t)

LEMMA AttachOutline ==
  ASSUME TypeOK, NEW t \in Threads, AttachStep(t)
  PROVE Frame(t) /\ (SetDiskLun(t) \/ VMAttach(t) \/ Plain(t))
<1> USE DEF Frame, Plain, FillsCache, RefreshesCache, SentPC, AcceptedPC, LockedPC, AttachLockedPC, TypeOK, ThreadTypeOK, Goto,
        Return, UnlockReturn, GetNodeDataDisks, GetNodeDataDisksFails, DeleteCacheForNode, azure, local
<1>1. CASE AttachedToThisNode(t) BY <1>1 DEF AttachedToThisNode
<1>2. CASE AttachRefused(t) BY <1>2 DEF AttachRefused
<1>3. CASE batchAttachDiskRequest(t) BY <1>3 DEF batchAttachDiskRequest
<1>4. CASE WaitForDetachRequests(t) BY <1>4 DEF WaitForDetachRequests
<1>5. CASE CountDisksFails(t) BY <1>5 DEF CountDisksFails
<1>6. CASE AttachBatchedAlready(t) BY <1>6 DEF AttachBatchedAlready, CountDisks
<1>7. CASE retrieveAttachBatchedDiskRequests(t) BY <1>7 DEF retrieveAttachBatchedDiskRequests, CountDisks
<1>8. CASE SetDiskLunFails(t) BY <1>8 DEF SetDiskLunFails
<1>9. CASE SetDiskLun(t) BY <1>9 DEF SetDiskLun
<1>10. CASE VMAttach(t) BY <1>10 DEF VMAttach
<1>11. CASE AttachFails(t) BY <1>11 DEF AttachFails
<1>12. CASE AttachHitsMax(t) BY <1>12 DEF AttachHitsMax
<1>13. CASE AttachPreempted(t) BY <1>13 DEF AttachPreempted
<1>14. CASE AttachRetry(t) BY <1>14 DEF AttachRetry
<1>15. CASE AttachSucceeds(t) BY <1>15 DEF AttachSucceeds
<1>16. CASE verifyAttach(t) BY <1>16 DEF verifyAttach
<1>17. CASE UpdateVM(t) BY <1>17 DEF UpdateVM
<1>18. CASE GetDiskLun(t) BY <1>18 DEF GetDiskLun
<1> QED BY <1>1, <1>2, <1>3, <1>4, <1>5, <1>6, <1>7, <1>8, <1>9, <1>10, <1>11, <1>12, <1>13, <1>14, <1>15, <1>16, <1>17, <1>18
   DEF AttachStep

LEMMA DetachOutline ==
  ASSUME TypeOK, NEW t \in Threads, DetachStep(t)
  PROVE Frame(t) /\ (VMDetach(t) \/ Plain(t))
<1> USE DEF Frame, Plain, FillsCache, RefreshesCache, SentPC, AcceptedPC, LockedPC, DetachLockedPC, TypeOK, ThreadTypeOK, Goto,
        Return, UnlockReturn, GetNodeDataDisks, GetNodeDataDisksFails, DeleteCacheForNode, azure, local
<1>1. CASE batchDetachDiskRequest(t) BY <1>1 DEF batchDetachDiskRequest
<1>2. CASE retrieveDetachBatchedDiskRequests(t) BY <1>2 DEF retrieveDetachBatchedDiskRequests
<1>3. CASE VMDetach(t) BY <1>3 DEF VMDetach
<1>4. CASE DetachSucceeds(t) BY <1>4 DEF DetachSucceeds
<1>5. CASE DetachInstanceNotFound(t) BY <1>5 DEF DetachInstanceNotFound
<1>6. CASE DetachInterrupted(t) BY <1>6 DEF DetachInterrupted
<1>7. CASE DetachFails(t) BY <1>7 DEF DetachFails, ForceOrFail
<1>8. CASE ForceDetachFails(t) BY <1>8 DEF ForceDetachFails
<1>9. CASE pollForDetachCompletion(t) BY <1>9 DEF pollForDetachCompletion
<1>10. CASE PollGivesUp(t) BY <1>10 DEF PollGivesUp, ForceOrFail
<1>11. CASE verifyDetach(t) BY <1>11 DEF verifyDetach
<1>12. CASE waitForDiskManagedByTobeRemoved(t) BY <1>12 DEF waitForDiskManagedByTobeRemoved
<1> QED BY <1>1, <1>2, <1>3, <1>4, <1>5, <1>6, <1>7, <1>8, <1>9, <1>10, <1>11, <1>12
   DEF DetachStep

LEMMA CallOutline ==
  ASSUME TypeOK, NEW t \in Threads, CallStep(t) \/ Lock(t) \/ GetNodeVMSetFails(t) \/ DeleteStep(t)
  PROVE Frame(t) /\ Plain(t)
<1> USE DEF Frame, Plain, FillsCache, RefreshesCache, SentPC, AcceptedPC, TypeOK, ThreadTypeOK, Goto,
        Return, UnlockReturn, azure, local
<1>1. CASE CallStep(t)
  BY <1>1 DEF CallStep, CallAttachDisk, CallDetachDisk, CallDeleteManagedDisk, Call, Finish
<1>2. CASE Lock(t) BY <1>2 DEF Lock, LockEntry
<1>3. CASE GetNodeVMSetFails(t) BY <1>3 DEF GetNodeVMSetFails
<1>4. CASE DeleteStep(t)
  BY <1>4 DEF DeleteStep, CheckDiskState, GetManagedDisk, DeleteManagedDisk
<1> QED BY <1>1, <1>2, <1>3, <1>4

LEMMA AzureOutline ==
  ASSUME TypeOK, NEW t \in Threads, AzureUpdate(t)
  PROVE Frame(t) /\ UNCHANGED <<nodes, disks, cache, driver, call, diskMap, result>>
  BY DEF Frame, AzureUpdate, Accept, FilterNonExistingDisks, Goto, TypeOK, ThreadTypeOK, azure, local

(* The lock keeps the other threads' lists, LUNs and caches from a step.   *)
LEMMA LockApart ==
  ASSUME LockHeld, NEW t \in Threads, NEW u \in Threads \ {t},
         pc[t] \in LockedPC, pc[u] \in LockedPC
  PROVE Node(u) # Node(t)
  BY DEF LockHeld

LEMMA OthersKeep ==
  ASSUME UpdateInv, NEW t \in Threads, NEW u \in Threads \ {t}, Frame(t), Aside(t), UNCHANGED nodes
  PROVE UpdateSound(u)'
<1> DEFINE n == Node(u)
<1>1. UpdateSound(u) /\ TypeOK /\ LockHeld BY DEF UpdateInv, ListInv
<1>2. /\ pc'[u] = pc[u] /\ Node(u)' = n /\ sent'[u] = sent[u] /\ diskMap'[u] = diskMap[u]
      /\ Flagged(u)' = Flagged(u) /\ Added(u)' = Added(u)
  BY DEF Frame, Node, Flagged, Added
<1> SUFFICES ASSUME pc[u] \in SentPC \cup AcceptedPC \cup {"vmAttach"} PROVE UpdateSound(u)'
  BY <1>2 DEF UpdateSound, LunsFree, SentHonest, SentDistinct, CacheBehind
<1>3. pc[u] \in LockedPC /\ pc[u] # "idle"
  BY DEF SentPC, AcceptedPC, LockedPC, AttachLockedPC, DetachLockedPC
<1>4. n \in Nodes /\ cache \in [Nodes -> Views \cup {NoView}]
  BY <1>1, <1>3, ArgumentTypes DEF TypeOK, CacheTypeOK
<1>5. vm'[n] = vm[n] /\ (cache'[n] = cache[n] \/ cache'[n] = DataDisks(n))
  <2>1. CASE pc[t] \in LockedPC /\ \A m \in Nodes \ {Node(t)} : cache'[m] = cache[m] /\ vm'[m] = vm[m]
    BY <1>1, <1>3, <1>4, <2>1, LockApart
  <2>2. CASE FillsCache(t) /\ UNCHANGED vm BY <1>4, <2>2 DEF FillsCache
  <2> QED BY <2>1, <2>2 DEF Aside
<1>6. DataDisks(n)' = DataDisks(n) BY <1>2, <1>5 DEF DataDisks
<1>7. cache'[n] = cache[n] \/ cache'[n] = vm[n] BY <1>5 DEF DataDisks
<1> HIDE DEF n
<1>8. LunsFree(u)' BY <1>1, <1>2, <1>6 DEF UpdateSound, LunsFree, n
<1>9. SentHonest(u)' BY <1>1, <1>2, <1>5, <1>7 DEF UpdateSound, SentHonest, n
<1>10. SentDistinct(u)' BY <1>1, <1>2 DEF UpdateSound, SentDistinct
<1>11. CacheBehind(u)' BY <1>1, <1>2, <1>5, <1>7 DEF UpdateSound, CacheBehind, n
<1> QED BY <1>8, <1>9, <1>10, <1>11 DEF UpdateSound

(* A plain step drops, fetches or keeps each cache entry.                  *)
LEMMA PlainKeeps ==
  ASSUME UpdateInv, NEW t \in Threads, Frame(t), Plain(t)
  PROVE ViewsSound' /\ FlagsHonest' /\ \A u \in Threads : UpdateSound(u)'
<1>1. TypeOK /\ cache \in [Nodes -> Views \cup {NoView}] /\ nodes \subseteq Nodes
  BY DEF UpdateInv, ListInv, TypeOK, CacheTypeOK, AzureTypeOK
<1>2. \A n \in Nodes : cache'[n] = cache[n] \/ cache'[n] = NoView \/ cache'[n] = vm[n]
  BY <1>1 DEF Plain, RefreshesCache, FillsCache, DataDisks
<1>3. ViewsSound' BY <1>2 DEF UpdateInv, ViewsSound, Plain
<1>4. FlagsHonest'
  <2> SUFFICES ASSUME NEW n \in nodes, Settled(n)', cache'[n] # NoView
               PROVE cache'[n].tbd \cap Listed(vm[n]) \subseteq vm[n].tbd
    BY DEF FlagsHonest, Plain
  <2>1. CASE Settled(n) BY <1>1, <1>2, <2>1 DEF UpdateInv, FlagsHonest
  <2>2. CASE ~Settled(n)
    <3>1. pc[t] \in FlagPC /\ Node(t) = n BY <2>2 DEF Settled, Frame, Node
    <3>2. pc[t] \in SentPC \cup AcceptedPC BY <3>1 DEF FlagPC, SentPC, AcceptedPC
    <3>3. cache'[n] = vm[n] BY <1>1, <3>1, <3>2 DEF Plain, RefreshesCache
    <3> QED BY <3>3
  <2> QED BY <2>1, <2>2
<1>5. UpdateSound(t)'
  BY DEF Plain, UpdateSound, LunsFree, SentHonest, SentDistinct, CacheBehind
<1>6. Aside(t) BY <1>1 DEF Plain, Aside, RefreshesCache
<1> QED BY <1>3, <1>4, <1>5, <1>6, OthersKeep DEF Plain

(* Allocating LUNs and computing the list of an attach only fill the cache.*)
LEMMA FillKeeps ==
  ASSUME UpdateInv, NEW t \in Threads, Frame(t), FillsCache(t), UNCHANGED <<vm, nodes>>, pc[t] \notin FlagPC
  PROVE ViewsSound' /\ FlagsHonest' /\ \A u \in Threads \ {t} : UpdateSound(u)'
<1>1. cache \in [Nodes -> Views \cup {NoView}] /\ nodes \subseteq Nodes
  BY DEF UpdateInv, ListInv, TypeOK, CacheTypeOK, AzureTypeOK
<1>2. \A n \in Nodes : cache'[n] = cache[n] \/ cache'[n] = vm[n]
  BY <1>1 DEF FillsCache, DataDisks
<1>3. \A n \in Nodes : Settled(n)' => Settled(n) BY DEF Settled, Frame, Node
<1>4. ViewsSound' BY <1>2 DEF UpdateInv, ViewsSound
<1>5. FlagsHonest' BY <1>1, <1>2, <1>3 DEF UpdateInv, FlagsHonest
<1> QED BY <1>4, <1>5, OthersKeep DEF Aside

LEMMA KeepsSetDiskLun ==
  ASSUME UpdateInv, NEW t \in Threads, SetDiskLun(t)
  PROVE ViewsSound' /\ FlagsHonest' /\ \A u \in Threads : UpdateSound(u)'
<1> DEFINE n == Node(t)
           v == DataDisks(n)
<1>1. TypeOK /\ pc \in [Threads -> PCs] /\ sent \in [Threads -> Views] /\ pc[t] = "setLun"
  BY DEF UpdateInv, ListInv, TypeOK, ThreadTypeOK, SetDiskLun
<1>2. Frame(t) /\ FillsCache(t) /\ UNCHANGED <<vm, nodes, call, diskMap>>
  BY <1>1, AttachOutline DEF AttachStep, SetDiskLun, GetNodeDataDisks, FillsCache, azure
<1>3. n \in Nodes /\ cache \in [Nodes -> Views \cup {NoView}]
  BY <1>1, ArgumentTypes DEF TypeOK, CacheTypeOK
<1>4. DataDisks(Node(t))' = v BY <1>2, <1>3 DEF FillsCache, DataDisks, Node
<1>5. PICK f \in [diskMap[t] -> diskLuns(t)] :
        /\ \A d, e \in diskMap[t] : f[d] = f[e] => d = e
        /\ sent' = [sent EXCEPT ![t] =
             [lun |-> [d \in Disks |-> IF d \in diskMap[t] THEN f[d] ELSE NoLun], tbd |-> {}]]
  BY DEF SetDiskLun
<1>6. \A d \in Disks : sent'[t].lun[d] = IF d \in diskMap[t] THEN f[d] ELSE NoLun BY <1>1, <1>5
<1>7. Listed(sent'[t]) \subseteq diskMap[t] BY <1>6 DEF Listed
<1>8. LunsDistinct(sent'[t]) BY <1>5, <1>6, <1>7 DEF LunsDistinct, Listed
<1>9. \A l \in diskLuns(t) : l \notin {v.lun[d] : d \in Listed(v)} BY DEF diskLuns, FreeLuns
<1>10. \A d \in Listed(sent'[t]), e \in Listed(v) : sent'[t].lun[d] # v.lun[e]
  BY <1>5, <1>6, <1>7, <1>9 DEF Listed
<1>11. pc'[t] = "vmAttach" BY <1>1 DEF SetDiskLun, Goto
<1> HIDE DEF n, v
<1>12. LunsFree(t)' BY <1>2, <1>4, <1>7, <1>8, <1>10, <1>11 DEF LunsFree
<1>13. UpdateSound(t)'
  BY <1>11, <1>12 DEF UpdateSound, SentHonest, SentDistinct, CacheBehind, SentPC, AcceptedPC
<1> QED BY <1>1, <1>2, <1>13, FillKeeps DEF FlagPC

(* The view of a thread with the lock and no update accepted is the VM's   *)
(* list but for disks that have left the VM and are flagged in it.         *)
LEMMA LockedFlags ==
  ASSUME UpdateInv, NEW t \in Threads, pc[t] \in LockedPC \ (SentPC \cup AcceptedPC), Node(t) \in nodes
  PROVE /\ vm[Node(t)].tbd \subseteq DataDisks(Node(t)).tbd
        /\ DataDisks(Node(t)).tbd \cap Listed(vm[Node(t)]) \subseteq vm[Node(t)].tbd
<1> DEFINE n == Node(t)
<1>1. n \in Nodes BY DEF UpdateInv, ListInv, TypeOK, AzureTypeOK
<1>2. /\ \A d \in Listed(vm[n]) : DataDisks(n).lun[d] = vm[n].lun[d]
      /\ \A d \in Disks : HasLun(DataDisks(n), d) => HasLun(vm[n], d)
  BY LockedView DEF UpdateInv
<1>3. vm[n].tbd \subseteq Listed(vm[n]) BY <1>1 DEF UpdateInv, ViewsSound
<1>4. vm[n].tbd \subseteq DataDisks(n).tbd BY <1>2, <1>3 DEF HasLun, Listed
<1>5. Settled(n)
  <2> SUFFICES ASSUME NEW u \in Threads, pc[u] \in FlagPC, Node(u) = n PROVE FALSE BY DEF Settled
  <2>1. pc[u] \in LockedPC /\ u # t BY DEF FlagPC, LockedPC, DetachLockedPC, SentPC, AcceptedPC
  <2> QED BY <2>1, LockApart DEF UpdateInv, ListInv
<1>6. DataDisks(n).tbd \cap Listed(vm[n]) \subseteq vm[n].tbd
  BY <1>5 DEF UpdateInv, FlagsHonest, DataDisks
<1> QED BY <1>4, <1>6

LEMMA ViewDistinct == ASSUME UpdateInv, NEW n \in Nodes PROVE LunsDistinct(DataDisks(n))
  BY DEF UpdateInv, ViewsSound, DataDisks

LEMMA SendsVMAttach ==
  ASSUME UpdateInv, NEW t \in Threads, VMAttach(t)
  PROVE ViewsSound' /\ FlagsHonest' /\ \A u \in Threads : UpdateSound(u)'
<1> DEFINE n == Node(t)
           v == DataDisks(n)
<1>1. TypeOK /\ pc \in [Threads -> PCs] /\ sent \in [Threads -> Views] /\ pc[t] = "vmAttach"
  BY DEF UpdateInv, ListInv, TypeOK, ThreadTypeOK, VMAttach
<1>2. Frame(t) /\ FillsCache(t) /\ UNCHANGED <<vm, nodes, call, diskMap>>
  BY <1>1, AttachOutline DEF AttachStep, VMAttach, GetNodeDataDisks, FillsCache, azure
<1>3. n \in Nodes /\ cache \in [Nodes -> Views \cup {NoView}] /\ v \in Views
  BY <1>1, ArgumentTypes, DataDisksType DEF TypeOK, CacheTypeOK
<1>4. cache'[n] = v /\ Node(t)' = n BY <1>2, <1>3 DEF VMAttach, GetNodeDataDisks, Node
<1>5. LunsFree(t) BY DEF UpdateInv, UpdateSound
<1>6. sent'[t] = AttachList(t) /\ pc'[t] = "attachSent" BY <1>1 DEF VMAttach, Goto
<1>7. /\ \A d \in Disks : sent'[t].lun[d] = IF d \in Listed(v) THEN v.lun[d] ELSE sent[t].lun[d]
      /\ sent'[t].tbd = v.tbd
  BY <1>6 DEF AttachList
<1> HIDE DEF n, v
<1>8. LunsDistinct(sent'[t])
  <2>1. LunsDistinct(v) BY <1>3, ViewDistinct DEF v
  <2>2. \A d \in Listed(sent'[t]) \ Listed(v) : d \in Listed(sent[t]) BY <1>7 DEF Listed
  <2>3. \A d \in Listed(sent[t]), e \in Listed(v) : sent[t].lun[d] # v.lun[e]
    BY <1>1, <1>5 DEF LunsFree, n, v
  <2>4. LunsDistinct(sent[t]) BY <1>1, <1>5 DEF LunsFree
  <2>5. SUFFICES ASSUME NEW d \in Listed(sent'[t]), NEW e \in Listed(sent'[t]),
                        sent'[t].lun[d] = sent'[t].lun[e]
                 PROVE d = e
    BY DEF LunsDistinct
  <2>6. d \in Disks /\ e \in Disks BY DEF Listed
  <2>7. CASE d \in Listed(v) /\ e \in Listed(v) BY <1>7, <2>1, <2>5, <2>6, <2>7 DEF LunsDistinct
  <2>8. CASE d \notin Listed(v) /\ e \notin Listed(v) BY <1>7, <2>2, <2>4, <2>5, <2>6, <2>8 DEF LunsDistinct
  <2>9. CASE d \in Listed(v) /\ e \notin Listed(v) BY <1>7, <2>2, <2>3, <2>5, <2>6, <2>9
  <2>10. CASE d \notin Listed(v) /\ e \in Listed(v) BY <1>7, <2>2, <2>3, <2>5, <2>6, <2>10
  <2> QED BY <2>7, <2>8, <2>9, <2>10
<1>9. ASSUME n \in nodes
      PROVE /\ vm[n].tbd \subseteq sent'[t].tbd
            /\ sent'[t].tbd \cap Listed(vm[n]) \subseteq vm[n].tbd
            /\ Listed(sent'[t]) \ sent'[t].tbd \subseteq Listed(vm[n]) \cup diskMap[t]
  <2>1. pc[t] \in LockedPC \ (SentPC \cup AcceptedPC)
    BY <1>1 DEF LockedPC, AttachLockedPC, SentPC, AcceptedPC
  <2>2. vm[n].tbd \subseteq v.tbd /\ v.tbd \cap Listed(vm[n]) \subseteq vm[n].tbd
    BY <1>9, <2>1, LockedFlags DEF n, v
  <2>3. \A d \in Disks : HasLun(v, d) => HasLun(vm[n], d)
    BY <1>9, <2>1, LockedView DEF UpdateInv, n, v
  <2>4. Listed(sent[t]) \subseteq diskMap[t] BY <1>1, <1>5 DEF LunsFree
  <2>5. Listed(sent'[t]) \ sent'[t].tbd \subseteq Listed(vm[n]) \cup diskMap[t]
    BY <1>7, <2>3, <2>4 DEF Listed, HasLun
  <2> QED BY <1>7, <2>2, <2>5
<1>10. SentHonest(t)'
  BY <1>2, <1>4, <1>6, <1>7, <1>9 DEF SentHonest, Flagged, Added, FlagPC, n
<1>11. UpdateSound(t)'
  BY <1>6, <1>8, <1>10 DEF UpdateSound, LunsFree, SentDistinct, CacheBehind, AcceptedPC
<1> QED BY <1>1, <1>2, <1>11, FillKeeps DEF FlagPC

(* A detach flags its batch in the list and in the cache.                  *)
LEMMA SendsVMDetach ==
  ASSUME UpdateInv, NEW t \in Threads, VMDetach(t)
  PROVE ViewsSound' /\ FlagsHonest' /\ \A u \in Threads : UpdateSound(u)'
<1> DEFINE n == Node(t)
           v == DataDisks(n)
<1>1. TypeOK /\ pc \in [Threads -> PCs] /\ sent \in [Threads -> Views]
  BY DEF UpdateInv, ListInv, TypeOK, ThreadTypeOK
<1>2. Frame(t) /\ UNCHANGED <<vm, nodes, call, diskMap>>
  BY <1>1, DetachOutline DEF DetachStep, VMDetach, azure
<1>3. pc[t] \in LockedPC \ (SentPC \cup AcceptedPC) /\ pc[t] # "idle"
  BY DEF VMDetach, LockedPC, DetachLockedPC, SentPC, AcceptedPC
<1>4. n \in Nodes /\ cache \in [Nodes -> Views \cup {NoView}] /\ nodes \subseteq Nodes
  BY <1>1, <1>3, ArgumentTypes DEF TypeOK, CacheTypeOK, AzureTypeOK
<1>5. /\ cache' = [cache EXCEPT ![n] = DetachList(t)]
      /\ \/ pc'[t] = "verifyDetach" /\ diskMap[t] \cap Listed(v) = {}
         \/ pc'[t] \in {"detachSent", "forceSent"} /\ sent'[t] = DetachList(t)
  BY <1>1 DEF VMDetach, Goto
<1>6. DetachList(t).lun = v.lun /\ DetachList(t).tbd = v.tbd \cup (diskMap[t] \cap Listed(v))
  BY DEF DetachList
<1>7. Node(t)' = n BY <1>2 DEF Node
<1>8. LunsDistinct(DetachList(t)) /\ LunsDistinct(v)
  BY <1>4, <1>6, ViewDistinct DEF LunsDistinct, Listed
<1> HIDE DEF n, v
<1>9. ViewsSound' BY <1>2, <1>4, <1>5, <1>8 DEF UpdateInv, ViewsSound
<1>10. n \in nodes =>
         /\ vm[n].tbd \subseteq v.tbd
         /\ v.tbd \cap Listed(vm[n]) \subseteq vm[n].tbd
         /\ \A d \in Disks : HasLun(v, d) => HasLun(vm[n], d)
  BY <1>3, LockedFlags, LockedView DEF UpdateInv, n, v
<1>11. FlagsHonest'
  <2> SUFFICES ASSUME NEW m \in nodes, Settled(m)', cache'[m] # NoView
               PROVE cache'[m].tbd \cap Listed(vm[m]) \subseteq vm[m].tbd
    BY <1>2 DEF FlagsHonest
  <2>1. CASE m = n
    <3>1. pc'[t] = "verifyDetach" BY <1>5, <1>7, <2>1 DEF Settled, FlagPC
    <3>2. cache'[m].tbd = v.tbd BY <1>4, <1>5, <1>6, <2>1, <3>1
    <3> QED BY <1>10, <2>1, <3>2
  <2>2. CASE m # n
    <3>1. cache'[m] = cache[m] BY <1>4, <1>5, <2>2
    <3>2. Settled(m) BY <1>2, <2>2 DEF Settled, Frame, Node, n
    <3> QED BY <3>1, <3>2 DEF UpdateInv, FlagsHonest
  <2> QED BY <2>1, <2>2
<1>12. SentHonest(t)'
  <2> SUFFICES ASSUME pc'[t] \in SentPC, n \in nodes
               PROVE /\ vm[n].tbd \subseteq sent'[t].tbd
                     /\ sent'[t].tbd \cap Listed(vm[n]) \subseteq vm[n].tbd \cup Flagged(t)'
                     /\ Listed(sent'[t]) \ sent'[t].tbd \subseteq Listed(vm[n]) \cup Added(t)'
                     /\ pc'[t] # "attachSent"
    BY <1>2, <1>7 DEF SentHonest
  <2>1. pc'[t] \in {"detachSent", "forceSent"} /\ sent'[t] = DetachList(t) BY <1>5 DEF SentPC
  <2>2. Flagged(t)' = diskMap[t] BY <1>2, <2>1 DEF Flagged, FlagPC
  <2>3. sent'[t].tbd \cap Listed(vm[n]) \subseteq vm[n].tbd \cup Flagged(t)' BY <1>6, <1>10, <2>1, <2>2
  <2>4. Listed(sent'[t]) \ sent'[t].tbd \subseteq Listed(vm[n]) BY <1>6, <1>10, <2>1 DEF Listed, HasLun
  <2> QED BY <1>6, <1>10, <2>1, <2>3, <2>4
<1>13. UpdateSound(t)'
  <2>1. pc'[t] \notin AcceptedPC \cup {"vmAttach"} BY <1>5 DEF AcceptedPC
  <2>2. SentDistinct(t)' BY <1>5, <1>8 DEF SentDistinct, SentPC
  <2> QED BY <1>12, <2>1, <2>2 DEF UpdateSound, LunsFree, CacheBehind
<1>14. Aside(t) BY <1>2, <1>3, <1>4, <1>5 DEF Aside, n
<1> QED BY <1>2, <1>9, <1>11, <1>13, <1>14, OthersKeep

(* The list without the disks that do not exist asks for less.             *)
LEMMA KeepsFilterUpdate ==
  ASSUME UpdateInv, NEW t \in Threads, FilterNonExistingDisks(t)
  PROVE ViewsSound' /\ FlagsHonest' /\ \A u \in Threads : UpdateSound(u)'
<1>1. TypeOK /\ sent \in [Threads -> Views] /\ pc[t] \in SentPC
  BY DEF UpdateInv, ListInv, TypeOK, ThreadTypeOK, FilterNonExistingDisks
<1>2. Frame(t) /\ UNCHANGED <<vm, nodes, cache, pc, call, diskMap>>
  BY <1>1, AzureOutline DEF AzureUpdate, FilterNonExistingDisks, azure
<1>3. ViewsSound' /\ FlagsHonest'
  BY <1>2 DEF UpdateInv, ViewsSound, FlagsHonest, Settled, Node
<1>4. /\ \A d \in Disks : sent'[t].lun[d] = IF d \in disks THEN sent[t].lun[d] ELSE NoLun
      /\ sent'[t].tbd = sent[t].tbd
  BY <1>1 DEF FilterNonExistingDisks
<1>5. Listed(sent'[t]) \subseteq Listed(sent[t]) BY <1>4 DEF Listed
<1>6. UpdateSound(t) BY DEF UpdateInv
<1>7. SentHonest(t)'
  BY <1>2, <1>4, <1>5, <1>6 DEF UpdateSound, SentHonest, Flagged, Added, Node
<1>8. SentDistinct(t)'
  BY <1>2, <1>4, <1>5, <1>6 DEF UpdateSound, SentDistinct, LunsDistinct, Listed
<1>9. UpdateSound(t)'
  BY <1>1, <1>2, <1>7, <1>8 DEF UpdateSound, LunsFree, CacheBehind, SentPC, AcceptedPC
<1>10. Aside(t) BY <1>2 DEF Aside, FillsCache
<1> QED BY <1>2, <1>3, <1>9, <1>10, OthersKeep

(* What the VM holds once the list is accepted.                            *)
LEMMA AppliedView ==
  ASSUME UpdateInv, NEW t \in Threads, pc[t] \in SentPC, Node(t) \in nodes
  PROVE LET n == Node(t)
            w == Applied(n, sent[t])
        IN /\ \A d \in Listed(vm[n]) : w.lun[d] = vm[n].lun[d]
           /\ \A d \in Listed(w) : w.lun[d] = sent[t].lun[d] /\ d \in Listed(sent[t])
           /\ \A d \in Listed(w) \ Listed(vm[n]) : d \in Added(t) \ sent[t].tbd
           /\ vm[n].tbd \subseteq w.tbd /\ w.tbd \subseteq Listed(vm[n])
           /\ w.tbd \subseteq vm[n].tbd \cup Flagged(t)
<1> DEFINE n == Node(t)
           w == Applied(n, sent[t])
<1>1. TypeOK /\ n \in Nodes /\ sent[t] \in Views /\ vm[n] \in Views
  BY DEF UpdateInv, ListInv, TypeOK, AzureTypeOK, ThreadTypeOK
<1>2. \A d \in Listed(vm[n]) : sent[t].lun[d] = vm[n].lun[d]
  BY DEF UpdateInv, ListInv, SentKeepsDisks
<1>3. /\ vm[n].tbd \subseteq sent[t].tbd
      /\ sent[t].tbd \cap Listed(vm[n]) \subseteq vm[n].tbd \cup Flagged(t)
      /\ Listed(sent[t]) \ sent[t].tbd \subseteq Listed(vm[n]) \cup Added(t)
  BY DEF UpdateInv, UpdateSound, SentHonest
<1>4. vm[n].tbd \subseteq Listed(vm[n]) BY <1>1 DEF UpdateInv, ViewsSound
<1>5. /\ \A d \in Disks : w.lun[d] = IF d \in sent[t].tbd /\ d \in Listed(sent[t])
                                     THEN vm[n].lun[d] ELSE sent[t].lun[d]
      /\ w.tbd = sent[t].tbd \cap Listed(sent[t]) \cap Listed(vm[n])
  BY DEF Applied
<1> HIDE DEF n, w
<1>6. Listed(vm[n]) \subseteq Listed(sent[t]) BY <1>2 DEF Listed
<1>7. \A d \in Listed(vm[n]) : w.lun[d] = vm[n].lun[d] BY <1>2, <1>5 DEF Listed
<1>8. \A d \in Listed(w) : w.lun[d] = sent[t].lun[d] /\ d \in Listed(sent[t]) BY <1>2, <1>5 DEF Listed
<1>9. \A d \in Listed(w) \ Listed(vm[n]) : d \in Added(t) \ sent[t].tbd
  BY <1>3, <1>5, <1>8 DEF Listed
<1>10. vm[n].tbd \subseteq w.tbd /\ w.tbd \subseteq Listed(vm[n]) /\ w.tbd \subseteq vm[n].tbd \cup Flagged(t)
  BY <1>3, <1>4, <1>5, <1>6
<1> QED BY <1>7, <1>8, <1>9, <1>10 DEF n, w

LEMMA KeepsAcceptUpdate ==
  ASSUME UpdateInv, NEW t \in Threads, NEW from \in SentPC, NEW to \in AcceptedPC, Accept(t, from, to),
         from = "attachSent" <=> to = "attachAccepted"
  PROVE ViewsSound' /\ FlagsHonest' /\ \A u \in Threads : UpdateSound(u)'
<1> DEFINE n == Node(t)
           w == Applied(n, sent[t])
<1>1. /\ TypeOK /\ pc \in [Threads -> PCs] /\ vm \in [Nodes -> Views] /\ nodes \subseteq Nodes
      /\ pc[t] = from /\ n \in nodes
  BY DEF UpdateInv, ListInv, TypeOK, AzureTypeOK, ThreadTypeOK, Accept, Acceptable
<1>2. /\ vm' = [vm EXCEPT ![n] = w] /\ pc'[t] = to
      /\ UNCHANGED <<nodes, cache, call, diskMap, sent>>
  BY <1>1 DEF Accept, Goto, local
<1>3. Frame(t) BY <1>1 DEF Frame, Accept, Goto, local
<1>4. /\ \A d \in Listed(vm[n]) : w.lun[d] = vm[n].lun[d]
      /\ \A d \in Listed(w) : w.lun[d] = sent[t].lun[d] /\ d \in Listed(sent[t])
      /\ \A d \in Listed(w) \ Listed(vm[n]) : d \in Added(t) \ sent[t].tbd
      /\ vm[n].tbd \subseteq w.tbd /\ w.tbd \subseteq Listed(vm[n])
      /\ w.tbd \subseteq vm[n].tbd \cup Flagged(t)
  BY <1>1, AppliedView
<1>5. n \in Nodes /\ vm'[n] = w /\ \A m \in Nodes \ {n} : vm'[m] = vm[m] BY <1>1, <1>2
<1>6. LunsDistinct(sent[t]) BY <1>1 DEF UpdateInv, UpdateSound, SentDistinct
<1>7. pc[t] \in LockedPC \ AcceptedPC
  BY <1>1 DEF SentPC, AcceptedPC, LockedPC, AttachLockedPC, DetachLockedPC
<1>8. (pc[t] \in FlagPC <=> pc'[t] \in FlagPC) /\ Node(t)' = n
  BY <1>1, <1>2 DEF SentPC, AcceptedPC, FlagPC, Node
<1> HIDE DEF n, w
<1>9. ViewsSound'
  <2>1. LunsDistinct(w) BY <1>4, <1>6 DEF LunsDistinct
  <2>2. w.tbd \subseteq Listed(w) BY <1>4 DEF Listed
  <2> QED BY <1>2, <1>5, <2>1, <2>2 DEF UpdateInv, ViewsSound
<1>10. FlagsHonest'
  <2> SUFFICES ASSUME NEW m \in nodes, Settled(m)', cache[m] # NoView
               PROVE cache[m].tbd \cap Listed(vm'[m]) \subseteq vm'[m].tbd
    BY <1>2 DEF FlagsHonest
  <2>1. Settled(m) BY <1>2, <1>3, <1>8 DEF Settled, Frame, Node
  <2>2. cache[m].tbd \cap Listed(vm[m]) \subseteq vm[m].tbd BY <2>1 DEF UpdateInv, FlagsHonest
  <2>3. CASE m # n BY <1>1, <1>5, <2>2, <2>3
  <2>4. CASE m = n
    <3>1. pc[t] = "attachSent"
      <4>1. pc'[t] \notin FlagPC BY <1>8, <2>4 DEF Settled
      <4> QED BY <1>1, <1>8, <4>1 DEF FlagPC, SentPC
    <3>2. cache[n].tbd \subseteq sent[t].tbd
      BY <1>1, <2>4, <3>1 DEF UpdateInv, UpdateSound, SentHonest, n
    <3> QED BY <1>4, <1>5, <2>2, <2>4, <3>2
  <2> QED BY <2>3, <2>4
<1>11. CacheBehind(t)'
  <2> SUFFICES ASSUME cache[n] # NoView, NEW d \in Disks, HasLun(cache[n], d)
               PROVE \/ HasLun(w, d) /\ cache[n].lun[d] = w.lun[d]
                     \/ d \in Flagged(t)'
    BY <1>2, <1>5, <1>8 DEF CacheBehind
  <2>1. Quiet(n) BY <1>7, LockedQuiet DEF UpdateInv, ListInv, n
  <2>2. HasLun(vm[n], d) /\ cache[n].lun[d] = vm[n].lun[d]
    BY <1>1, <1>5, <2>1 DEF UpdateInv, ListInv, CacheHonest, HasLun, n
  <2>3. Flagged(t)' = Flagged(t) BY <1>2, <1>8 DEF Flagged
  <2> QED BY <1>4, <2>2, <2>3 DEF HasLun, Listed
<1>12. UpdateSound(t)'
  BY <1>2, <1>11 DEF UpdateSound, LunsFree, SentHonest, SentDistinct, SentPC, AcceptedPC
<1>13. Aside(t) BY <1>2, <1>5, <1>7 DEF Aside, n
<1> QED BY <1>2, <1>3, <1>9, <1>10, <1>12, <1>13, OthersKeep

(* A detach that completes, a deleted VM and an expired cache entry.       *)
LEMMA UpdateDetachCompletes ==
  ASSUME UpdateInv, NEW n \in Nodes, NEW d \in Disks, DetachCompletes(n, d)
  PROVE ViewsSound' /\ FlagsHonest' /\ \A u \in Threads : UpdateSound(u)'
<1>1. TypeOK /\ vm \in [Nodes -> Views] /\ nodes \subseteq Nodes
  BY DEF UpdateInv, ListInv, TypeOK, AzureTypeOK
<1>2. UNCHANGED <<nodes, cache, pc, call, diskMap, sent>> /\ d \in vm[n].tbd
  BY DEF DetachCompletes, local
<1>3. ASSUME NEW m \in Nodes
      PROVE /\ \A e \in Disks : \/ vm'[m].lun[e] = vm[m].lun[e] /\ (e \in vm'[m].tbd <=> e \in vm[m].tbd)
                                \/ vm'[m].lun[e] = NoLun /\ e \in vm[m].tbd
            /\ vm'[m].tbd \subseteq vm[m].tbd /\ Listed(vm'[m]) \cap vm[m].tbd \subseteq vm'[m].tbd
            /\ vm'[m].tbd \subseteq Listed(vm'[m])
  <2>1. vm[m].tbd \subseteq Listed(vm[m]) BY DEF UpdateInv, ViewsSound
  <2>2. CASE m # n
    <3>1. vm'[m] = vm[m] BY <1>1, <2>2 DEF DetachCompletes
    <3> QED BY <2>1, <3>1
  <2>3. CASE m = n
    <3>1. vm'[m] = [lun |-> [vm[m].lun EXCEPT ![d] = NoLun], tbd |-> vm[m].tbd \ {d}]
      BY <1>1, <2>3 DEF DetachCompletes
    <3>2. vm[m].lun \in [Disks -> LUNs \cup {NoLun}] BY <1>1 DEF Views
    <3>3. \A e \in Disks : vm'[m].lun[e] = IF e = d THEN NoLun ELSE vm[m].lun[e] BY <3>1, <3>2
    <3>4. vm'[m].tbd = vm[m].tbd \ {d} BY <3>1
    <3> QED BY <1>2, <2>1, <2>3, <3>3, <3>4 DEF Listed
  <2> QED BY <2>2, <2>3
<1>4. \A m \in Nodes : /\ Listed(vm'[m]) \subseteq Listed(vm[m])
                       /\ \A e \in Listed(vm'[m]) : vm'[m].lun[e] = vm[m].lun[e]
                       /\ \A e \in Disks : HasLun(vm[m], e) => HasLun(vm'[m], e) /\ vm'[m].lun[e] = vm[m].lun[e]
  BY <1>3 DEF Listed, HasLun
<1>5. ViewsSound' BY <1>2, <1>3, <1>4 DEF UpdateInv, ViewsSound, LunsDistinct
<1>6. FlagsHonest' BY <1>1, <1>2, <1>3, <1>4 DEF UpdateInv, FlagsHonest, Settled, Node
<1>7. ASSUME NEW u \in Threads PROVE UpdateSound(u)'
  <2> DEFINE m == Node(u)
  <2>1. /\ pc'[u] = pc[u] /\ Node(u)' = m /\ sent'[u] = sent[u] /\ diskMap'[u] = diskMap[u]
        /\ Flagged(u)' = Flagged(u) /\ Added(u)' = Added(u) /\ UpdateSound(u)
    BY <1>2 DEF Node, Flagged, Added, UpdateInv
  <2> SUFFICES ASSUME pc[u] \in SentPC \cup AcceptedPC \cup {"vmAttach"} PROVE UpdateSound(u)'
    BY <2>1 DEF UpdateSound, LunsFree, SentHonest, SentDistinct, CacheBehind
  <2>2. m \in Nodes BY <1>1, ArgumentTypes DEF SentPC, AcceptedPC
  <2>3. /\ Listed(DataDisks(Node(u))') \subseteq Listed(DataDisks(m))
        /\ \A e \in Listed(DataDisks(Node(u))') : DataDisks(Node(u))'.lun[e] = DataDisks(m).lun[e]
    BY <1>2, <1>4, <2>1, <2>2 DEF DataDisks
  <2> HIDE DEF m
  <2>4. LunsFree(u)' BY <2>1, <2>3 DEF UpdateSound, LunsFree, m
  <2>5. SentHonest(u)'
    <3> SUFFICES ASSUME pc[u] \in SentPC, m \in nodes
                 PROVE /\ vm'[m].tbd \subseteq sent[u].tbd
                       /\ sent[u].tbd \cap Listed(vm'[m]) \subseteq vm'[m].tbd \cup Flagged(u)
                       /\ Listed(sent[u]) \ sent[u].tbd \subseteq Listed(vm'[m]) \cup Added(u)
                       /\ pc[u] = "attachSent" /\ cache[m] # NoView => cache[m].tbd \subseteq sent[u].tbd
      BY <1>2, <2>1 DEF SentHonest
    <3>1. /\ vm[m].tbd \subseteq sent[u].tbd
          /\ sent[u].tbd \cap Listed(vm[m]) \subseteq vm[m].tbd \cup Flagged(u)
          /\ Listed(sent[u]) \ sent[u].tbd \subseteq Listed(vm[m]) \cup Added(u)
          /\ pc[u] = "attachSent" /\ cache[m] # NoView => cache[m].tbd \subseteq sent[u].tbd
      BY <2>1 DEF UpdateSound, SentHonest, m
    <3>2. Listed(vm[m]) \ vm[m].tbd \subseteq Listed(vm'[m]) BY <1>3, <2>2 DEF Listed
    <3> QED BY <1>3, <1>4, <2>2, <3>1, <3>2
  <2>6. SentDistinct(u)' BY <2>1 DEF UpdateSound, SentDistinct
  <2>7. CacheBehind(u)' BY <1>2, <1>4, <2>1, <2>2 DEF UpdateSound, CacheBehind, m
  <2> QED BY <2>4, <2>5, <2>6, <2>7 DEF UpdateSound
<1> QED BY <1>5, <1>6, <1>7

LEMMA UpdateDeleteVM ==
  ASSUME UpdateInv, NEW n \in Nodes, DeleteVM(n)
  PROVE ViewsSound' /\ FlagsHonest' /\ \A u \in Threads : UpdateSound(u)'
<1>1. TypeOK /\ vm \in [Nodes -> Views] /\ nodes \subseteq Nodes
  BY DEF UpdateInv, ListInv, TypeOK, AzureTypeOK
<1>2. UNCHANGED <<cache, pc, call, diskMap, sent>> /\ nodes' = nodes \ {n} BY DEF DeleteVM, local
<1>3. \A m \in nodes' : vm'[m] = vm[m] BY <1>1, <1>2 DEF DeleteVM
<1>4. /\ \A m \in Nodes : vm'[m].lun = vm[m].lun
      /\ \A m \in Nodes : vm'[m].tbd = vm[m].tbd \/ vm'[m].tbd = Listed(vm'[m])
  BY <1>1 DEF DeleteVM, Listed
<1>5. ViewsSound' BY <1>2, <1>4 DEF UpdateInv, ViewsSound, LunsDistinct, Listed
<1>6. FlagsHonest' BY <1>1, <1>2, <1>3 DEF UpdateInv, FlagsHonest, Settled, Node
<1>7. ASSUME NEW u \in Threads PROVE UpdateSound(u)'
  <2>1. UpdateSound(u) /\ Node(u)' = Node(u) /\ Flagged(u)' = Flagged(u) /\ Added(u)' = Added(u)
    BY <1>2 DEF UpdateInv, Node, Flagged, Added
  <2>2. LunsFree(u)'
    <3> SUFFICES ASSUME pc[u] = "vmAttach" PROVE LunsFree(u)' BY <1>2 DEF LunsFree
    <3>1. Node(u) \in Nodes BY <1>1, ArgumentTypes
    <3>2. DataDisks(Node(u))'.lun = DataDisks(Node(u)).lun BY <1>2, <1>4, <2>1, <3>1 DEF DataDisks
    <3> QED BY <1>2, <2>1, <3>2 DEF UpdateSound, LunsFree, Listed
  <2>3. SentHonest(u)' BY <1>2, <1>3, <2>1 DEF UpdateSound, SentHonest
  <2>4. CacheBehind(u)' BY <1>2, <1>3, <2>1 DEF UpdateSound, CacheBehind
  <2> QED BY <1>2, <2>1, <2>2, <2>3, <2>4 DEF UpdateSound, SentDistinct
<1> QED BY <1>5, <1>6, <1>7

LEMMA UpdateExpire ==
  ASSUME UpdateInv, NEW n \in Nodes, ExpireCache(n)
  PROVE ViewsSound' /\ FlagsHonest' /\ \A u \in Threads : UpdateSound(u)'
<1>1. /\ TypeOK /\ cache \in [Nodes -> Views \cup {NoView}] /\ nodes \subseteq Nodes
      /\ UNCHANGED <<vm, nodes, pc, call, diskMap, sent>>
  BY DEF UpdateInv, ListInv, TypeOK, CacheTypeOK, AzureTypeOK, ExpireCache, azure, local
<1>2. \A m \in Nodes : cache'[m] = cache[m] \/ cache'[m] = NoView
  BY <1>1 DEF ExpireCache, DeleteCacheForNode
<1>3. ViewsSound' BY <1>1, <1>2 DEF UpdateInv, ViewsSound
<1>4. FlagsHonest' BY <1>1, <1>2 DEF UpdateInv, FlagsHonest, Settled, Node
<1>5. ASSUME NEW u \in Threads PROVE UpdateSound(u)'
  <2>1. UpdateSound(u) /\ Node(u)' = Node(u) /\ Flagged(u)' = Flagged(u) /\ Added(u)' = Added(u)
    BY <1>1 DEF UpdateInv, Node, Flagged, Added
  <2>2. LunsFree(u)'
    <3> SUFFICES ASSUME pc[u] = "vmAttach" PROVE LunsFree(u)' BY <1>1 DEF LunsFree
    <3>1. Node(u) \in Nodes /\ pc[u] \in LockedPC \ AcceptedPC
      BY <1>1, ArgumentTypes DEF LockedPC, AttachLockedPC, AcceptedPC
    <3>2. DataDisks(Node(u))' = DataDisks(Node(u)) \/ DataDisks(Node(u))' = vm[Node(u)]
      BY <1>1, <1>2, <2>1, <3>1 DEF DataDisks
    <3>3. \A d \in Listed(vm[Node(u)]) : DataDisks(Node(u)).lun[d] = vm[Node(u)].lun[d]
      BY <3>1, LockedView DEF UpdateInv
    <3> QED BY <1>1, <2>1, <3>2, <3>3 DEF UpdateSound, LunsFree, Listed
  <2>3. SentHonest(u)'
    <3> SUFFICES ASSUME pc[u] \in SentPC PROVE SentHonest(u)' BY <1>1 DEF SentHonest
    <3>1. Node(u) \in Nodes BY <1>1, ArgumentTypes DEF SentPC
    <3> QED BY <1>1, <1>2, <2>1, <3>1 DEF UpdateSound, SentHonest
  <2>4. CacheBehind(u)'
    <3> SUFFICES ASSUME pc[u] \in AcceptedPC PROVE CacheBehind(u)' BY <1>1 DEF CacheBehind
    <3>1. Node(u) \in Nodes BY <1>1, ArgumentTypes DEF AcceptedPC
    <3> QED BY <1>1, <1>2, <2>1, <3>1 DEF UpdateSound, CacheBehind
  <2> QED BY <1>1, <2>1, <2>2, <2>3, <2>4 DEF UpdateSound, SentDistinct
<1> QED BY <1>3, <1>4, <1>5

LEMMA UpdateInvInit == Init => UpdateInv
<1> SUFFICES ASSUME Init PROVE UpdateInv OBVIOUS
<1>1. ViewsSound BY DEF Init, ViewsSound, EmptyView, LunsDistinct, Listed
<1>2. FlagsHonest BY DEF Init, FlagsHonest
<1>3. \A t \in Threads : UpdateSound(t)
  BY DEF Init, UpdateSound, LunsFree, SentHonest, SentDistinct, CacheBehind, SentPC, AcceptedPC
<1> QED BY <1>1, <1>2, <1>3, ListInvInit DEF UpdateInv

LEMMA UpdateInvNext == UpdateInv /\ [Next]_vars => UpdateInv'
<1> DEFINE Kept == ViewsSound' /\ FlagsHonest' /\ \A u \in Threads : UpdateSound(u)'
<1> SUFFICES ASSUME UpdateInv, [Next]_vars PROVE Kept
  BY ListInvNext DEF UpdateInv
<1> USE DEF UpdateInv
<1>1. ASSUME NEW t \in Threads, ThreadStep(t) PROVE Kept
  <2>1. TypeOK BY DEF ListInv
  <2>2. CASE AttachStep(t) BY <2>1, <2>2, AttachOutline, KeepsSetDiskLun, SendsVMAttach, PlainKeeps
  <2>3. CASE DetachStep(t) BY <2>1, <2>3, DetachOutline, SendsVMDetach, PlainKeeps
  <2>4. CASE CallStep(t) \/ Lock(t) \/ GetNodeVMSetFails(t) \/ DeleteStep(t)
    BY <2>1, <2>4, CallOutline, PlainKeeps
  <2>5. CASE AzureUpdate(t)
    BY <2>5, KeepsAcceptUpdate, KeepsFilterUpdate DEF AzureUpdate, SentPC, AcceptedPC
  <2> QED BY <1>1, <2>2, <2>3, <2>4, <2>5 DEF ThreadStep
<1>2. ASSUME NEW n \in Nodes, NodeStep(n) PROVE Kept
  BY <1>2, UpdateDetachCompletes, UpdateDeleteVM, UpdateExpire DEF NodeStep
<1>3. CASE Restart
  <2>1. /\ UNCHANGED <<vm, nodes>> /\ pc' = [t \in Threads |-> "idle"]
        /\ cache' = [n \in Nodes |-> NoView] /\ nodes \subseteq Nodes
    BY <1>3 DEF Restart, azure, ListInv, TypeOK, AzureTypeOK
  <2>2. ViewsSound' /\ FlagsHonest' BY <2>1 DEF ViewsSound, FlagsHonest
  <2>3. \A t \in Threads : UpdateSound(t)'
    BY <2>1 DEF UpdateSound, LunsFree, SentHonest, SentDistinct, CacheBehind, SentPC, AcceptedPC
  <2> QED BY <2>2, <2>3
<1>4. CASE UNCHANGED vars
  <2>1. UNCHANGED <<vm, nodes, cache, pc, call, diskMap, sent>> BY <1>4 DEF vars, azure, local
  <2>2. ViewsSound' /\ FlagsHonest' BY <2>1 DEF ViewsSound, FlagsHonest, Settled, Node
  <2>3. \A t \in Threads : UpdateSound(t)'
    BY <2>1 DEF UpdateSound, LunsFree, SentHonest, SentDistinct, CacheBehind, Flagged, Added,
       DataDisks, Node
  <2> QED BY <2>2, <2>3
<1> QED BY <1>1, <1>2, <1>3, <1>4 DEF Next

(* No VM update asks for one LUN twice: the LUNs SetDiskLun allocates stay *)
(* free until ScaleSet.AttachDisk reads the VM again, whatever expires,    *)
(* completes or is fetched in between, since every LUN taken meanwhile     *)
(* would need the node's lock.                                             *)
THEOREM LunsAskedForOnce == Spec => []UpdateLunsDistinct
<1>1. UpdateInv => UpdateLunsDistinct BY DEF UpdateInv, UpdateSound, SentDistinct, UpdateLunsDistinct
<1> QED BY <1>1, UpdateInvInit, UpdateInvNext, PTL DEF Spec

-----------------------------------------------------------------------------
(* What a call that returns without error has seen. Only verifyAttach and  *)
(* GetDiskLun answer an attach with a LUN, only verifyDetach and           *)
(* waitForDiskManagedByTobeRemoved a detach with success.                  *)
SawAttached(t) ==
  LET v == DataDisks(Node(t))
  IN /\ pc[t] \in {"verifyAttach", "verifyBatched", "getLun"}
     /\ HasLun(v, Disk(t)) /\ result'[t].lun = v.lun[Disk(t)]

SawDetached(t) ==
  \/ pc[t] = "verifyDetach" /\ Disk(t) \notin Listed(DataDisks(Node(t)))
  \/ pc[t] \in {"waitLocked", "waitManagedBy"}
     /\ (WaitForDetachDiskComplete => Node(t) \notin ManagedBy(Disk(t)))

Answers(t, saw) ==
  pc'[t] = "returned" /\ result'[t] \in Results /\ (result'[t].err = "none" => saw)

LEMMA AttachAnswers ==
  ASSUME TypeOK, NEW t \in Threads, AttachStep(t)
  PROVE /\ pc[t] \in AttachPC /\ UNCHANGED call
        /\ pc'[t] \in AttachPC \/ Answers(t, SawAttached(t))
<1>1. Results = [lun : LUNs \cup {NoLun}, err : {"none", "error", "dangling"}] BY DEF Results
<1> USE <1>1 DEF Answers, SawAttached, AttachPC, AttachLockedPC, TypeOK, ThreadTypeOK, Goto, Return, UnlockReturn, local
<1>3. CASE AttachedToThisNode(t) BY <1>3 DEF AttachedToThisNode
<1>4. CASE AttachRefused(t) BY <1>4 DEF AttachRefused
<1>5. CASE batchAttachDiskRequest(t) BY <1>5 DEF batchAttachDiskRequest
<1>6. CASE WaitForDetachRequests(t) BY <1>6 DEF WaitForDetachRequests
<1>7. CASE CountDisksFails(t) BY <1>7 DEF CountDisksFails
<1>8. CASE AttachBatchedAlready(t) BY <1>8 DEF AttachBatchedAlready
<1>9. CASE retrieveAttachBatchedDiskRequests(t) BY <1>9 DEF retrieveAttachBatchedDiskRequests
<1>10. CASE SetDiskLunFails(t) BY <1>10 DEF SetDiskLunFails
<1>11. CASE SetDiskLun(t) BY <1>11 DEF SetDiskLun
<1>12. CASE VMAttach(t) BY <1>12 DEF VMAttach
<1>13. CASE AttachFails(t) BY <1>13 DEF AttachFails
<1>14. CASE AttachHitsMax(t) BY <1>14 DEF AttachHitsMax
<1>15. CASE AttachPreempted(t) BY <1>15 DEF AttachPreempted
<1>16. CASE AttachRetry(t) BY <1>16 DEF AttachRetry
<1>17. CASE AttachSucceeds(t) BY <1>17 DEF AttachSucceeds
<1>18. CASE verifyAttach(t)
  <2>1. DataDisks(Node(t)).lun[Disk(t)] \in LUNs \cup {NoLun}
    BY <1>18, ArgumentTypes, DataDisksLunType DEF verifyAttach
  <2> QED BY <1>18, <2>1 DEF verifyAttach
<1>19. CASE UpdateVM(t) BY <1>19 DEF UpdateVM
<1>20. CASE GetDiskLun(t)
  <2>1. DataDisks(Node(t)).lun[Disk(t)] \in LUNs \cup {NoLun}
    BY <1>20, ArgumentTypes, DataDisksLunType DEF GetDiskLun
  <2> QED BY <1>20, <2>1 DEF GetDiskLun
<1> QED BY <1>3, <1>4, <1>5, <1>6, <1>7, <1>8, <1>9, <1>10, <1>11, <1>12, <1>13, <1>14, <1>15, <1>16, <1>17,
   <1>18, <1>19, <1>20 DEF AttachStep

LEMMA DetachAnswers ==
  ASSUME TypeOK, NEW t \in Threads, DetachStep(t)
  PROVE /\ pc[t] \in DetachPC /\ UNCHANGED call
        /\ pc'[t] \in DetachPC \/ Answers(t, SawDetached(t))
<1>1. Results = [lun : LUNs \cup {NoLun}, err : {"none", "error", "dangling"}] BY DEF Results
<1> USE <1>1 DEF Answers, SawDetached, DetachPC, DetachLockedPC, TypeOK, ThreadTypeOK, Goto, Return, UnlockReturn, local
<1>2. CASE batchDetachDiskRequest(t) BY <1>2 DEF batchDetachDiskRequest
<1>3. CASE retrieveDetachBatchedDiskRequests(t) BY <1>3 DEF retrieveDetachBatchedDiskRequests
<1>4. CASE VMDetach(t) BY <1>4 DEF VMDetach
<1>5. CASE DetachSucceeds(t) BY <1>5 DEF DetachSucceeds
<1>6. CASE DetachInstanceNotFound(t) BY <1>6 DEF DetachInstanceNotFound
<1>7. CASE DetachInterrupted(t) BY <1>7 DEF DetachInterrupted
<1>8. CASE DetachFails(t) BY <1>8 DEF DetachFails, ForceOrFail
<1>9. CASE ForceDetachFails(t) BY <1>9 DEF ForceDetachFails
<1>10. CASE pollForDetachCompletion(t) BY <1>10 DEF pollForDetachCompletion
<1>11. CASE PollGivesUp(t) BY <1>11 DEF PollGivesUp, ForceOrFail
<1>12. CASE verifyDetach(t) BY <1>12 DEF verifyDetach
<1>13. CASE waitForDiskManagedByTobeRemoved(t) BY <1>13 DEF waitForDiskManagedByTobeRemoved
<1> QED BY <1>2, <1>3, <1>4, <1>5, <1>6, <1>7, <1>8, <1>9, <1>10, <1>11, <1>12, <1>13 DEF DetachStep

-----------------------------------------------------------------------------
(* The detach queue. A step that neither queues a detach, takes the queue  *)
(* nor waits for the lock leaves every queued and batched disk requested.  *)
DetachAside(t) ==
  /\ Frame(t) /\ UNCHANGED detachDiskMap
  /\ pc[t] \notin {"detachLock", "detachLocked"}
  /\ pc'[t] \in DetachBatchPC =>
       pc[t] \in DetachBatchPC /\ diskMap'[t] = diskMap[t] /\ call'[t] = call[t]

LEMMA DetachAsideKeeps ==
  ASSUME DetachQueued, DetachBatched, NEW t \in Threads, DetachAside(t)
  PROVE DetachQueued' /\ DetachBatched'
<1>1. ASSUME NEW u \in Threads \ {t}
      PROVE pc'[u] = pc[u] /\ Disk(u)' = Disk(u) /\ Node(u)' = Node(u) /\ diskMap'[u] = diskMap[u]
  BY DEF DetachAside, Frame, Disk, Node
<1>2. \A u \in Threads : pc[u] \in {"detachLock", "detachLocked"} => u # t BY DEF DetachAside
<1>3. DetachQueued' BY <1>1, <1>2 DEF DetachQueued, DetachAside
<1>4. DetachBatched'
  <2> SUFFICES ASSUME NEW u \in Threads, pc'[u] \in DetachBatchPC, NEW d \in diskMap'[u], d # Disk(u)'
               PROVE \E w \in Threads : pc'[w] = "detachLock" /\ Disk(w)' = d /\ Node(w)' = Node(u)'
    BY DEF DetachBatched
  <2>1. pc[u] \in DetachBatchPC /\ d \in diskMap[u] /\ Disk(u)' = Disk(u) /\ Node(u)' = Node(u)
    BY <1>1 DEF DetachAside, Disk, Node
  <2>2. PICK w \in Threads : pc[w] = "detachLock" /\ Disk(w) = d /\ Node(w) = Node(u)
    BY <2>1 DEF DetachBatched
  <2> QED BY <1>1, <1>2, <2>1, <2>2
<1> QED BY <1>3, <1>4

LEMMA DetachAsideAttach == ASSUME TypeOK, NEW t \in Threads, AttachStep(t) PROVE DetachAside(t)
<1>1. Frame(t) BY AttachOutline
<1>2. pc[t] \in AttachPC /\ (pc'[t] \in AttachPC \/ pc'[t] = "returned") BY AttachAnswers DEF Answers
<1>3. UNCHANGED detachDiskMap
  BY DEF AttachStep, AttachedToThisNode, AttachRefused, batchAttachDiskRequest,
     WaitForDetachRequests, CountDisksFails, AttachBatchedAlready,
     retrieveAttachBatchedDiskRequests, SetDiskLunFails, SetDiskLun, VMAttach, AttachFails,
     AttachHitsMax, AttachPreempted, AttachRetry, AttachSucceeds, verifyAttach, UpdateVM,
     GetDiskLun, UnlockReturn, driver, queues
<1> QED BY <1>1, <1>2, <1>3 DEF DetachAside, AttachPC, AttachLockedPC, DetachBatchPC, FlagPC

LEMMA DetachAsideDetach ==
  ASSUME TypeOK, NEW t \in Threads, DetachStep(t),
         ~batchDetachDiskRequest(t), ~retrieveDetachBatchedDiskRequests(t)
  PROVE DetachAside(t)
<1>1. Frame(t) BY DetachOutline
<1> USE <1>1 DEF DetachAside, DetachBatchPC, FlagPC, TypeOK, ThreadTypeOK, Goto, Return,
        UnlockReturn, driver, queues, local
<1>2. CASE VMDetach(t) BY <1>2 DEF VMDetach
<1>3. CASE DetachSucceeds(t) BY <1>3 DEF DetachSucceeds
<1>4. CASE DetachInstanceNotFound(t) BY <1>4 DEF DetachInstanceNotFound
<1>5. CASE DetachInterrupted(t) BY <1>5 DEF DetachInterrupted
<1>6. CASE DetachFails(t) BY <1>6 DEF DetachFails, ForceOrFail
<1>7. CASE ForceDetachFails(t) BY <1>7 DEF ForceDetachFails
<1>8. CASE pollForDetachCompletion(t) BY <1>8 DEF pollForDetachCompletion
<1>9. CASE PollGivesUp(t) BY <1>9 DEF PollGivesUp, ForceOrFail
<1>10. CASE verifyDetach(t) BY <1>10 DEF verifyDetach
<1>11. CASE waitForDiskManagedByTobeRemoved(t) BY <1>11 DEF waitForDiskManagedByTobeRemoved
<1> QED BY <1>2, <1>3, <1>4, <1>5, <1>6, <1>7, <1>8, <1>9, <1>10, <1>11 DEF DetachStep

LEMMA DetachAsideRest ==
  ASSUME TypeOK, NEW t \in Threads,
         CallStep(t) \/ GetNodeVMSetFails(t) \/ DeleteStep(t) \/ AzureUpdate(t)
  PROVE DetachAside(t)
<1>1. Frame(t) BY CallOutline, AzureOutline
<1> USE <1>1 DEF DetachAside, DetachBatchPC, FlagPC, TypeOK, ThreadTypeOK, Goto, Return,
        UnlockReturn, driver, queues, local
<1>2. CASE CallStep(t)
  BY <1>2 DEF CallStep, CallAttachDisk, CallDetachDisk, CallDeleteManagedDisk, Call, Finish
<1>3. CASE GetNodeVMSetFails(t) BY <1>3 DEF GetNodeVMSetFails
<1>4. CASE DeleteStep(t)
  BY <1>4 DEF DeleteStep, CheckDiskState, GetManagedDisk, DeleteManagedDisk
<1>5. CASE AzureUpdate(t) BY <1>5 DEF AzureUpdate, Accept, FilterNonExistingDisks, SentPC
<1> QED BY <1>2, <1>3, <1>4, <1>5

(* A request that queues its disk waits for the lock.                      *)
LEMMA RequestedBatchDetach ==
  ASSUME TypeOK, DetachQueued, DetachBatched, NEW t \in Threads, batchDetachDiskRequest(t)
  PROVE DetachQueued' /\ DetachBatched'
<1>1. /\ pc[t] = "detach" /\ pc' = [pc EXCEPT ![t] = "detachLock"] /\ pc \in [Threads -> PCs]
      /\ UNCHANGED <<call, diskMap>>
      /\ detachDiskMap' = [detachDiskMap EXCEPT ![Node(t)] = @ \cup {Disk(t)}]
  BY DEF batchDetachDiskRequest, Goto, TypeOK, ThreadTypeOK, local
<1>2. Node(t) \in Nodes /\ detachDiskMap \in [Nodes -> SUBSET Disks]
  BY <1>1, ArgumentTypes DEF TypeOK, DriverTypeOK
<1>3. \A u \in Threads : Disk(u)' = Disk(u) /\ Node(u)' = Node(u) BY <1>1 DEF Disk, Node
<1>4. DetachQueued' BY <1>1, <1>2, <1>3 DEF DetachQueued
<1>5. DetachBatched' BY <1>1, <1>3 DEF DetachBatched, DetachBatchPC, FlagPC
<1> QED BY <1>4, <1>5

(* The lock holder takes the queue: every other request in it waits.       *)
LEMMA RequestedRetrieve ==
  ASSUME TypeOK, LockHeld, DetachQueued, DetachBatched, NEW t \in Threads,
         retrieveDetachBatchedDiskRequests(t)
  PROVE DetachQueued' /\ DetachBatched'
<1> DEFINE n == Node(t)
<1>1. /\ pc[t] = "detachLocked" /\ pc \in [Threads -> PCs] /\ UNCHANGED call
      /\ \A u \in Threads \ {t} : pc'[u] = pc[u] /\ diskMap'[u] = diskMap[u]
  BY DEF retrieveDetachBatchedDiskRequests, Goto, TypeOK, ThreadTypeOK
<1>2. n \in Nodes /\ detachDiskMap \in [Nodes -> SUBSET Disks] /\ diskMap \in [Threads -> SUBSET Disks]
  BY <1>1, ArgumentTypes DEF TypeOK, DriverTypeOK, ThreadTypeOK
<1>3. \A u \in Threads : Disk(u)' = Disk(u) /\ Node(u)' = Node(u) BY <1>1 DEF Disk, Node
<1>4. \A u \in Threads \ {t} : pc[u] = "detachLocked" => Node(u) # n
  BY <1>1, LockApart DEF LockedPC, DetachLockedPC
<1>5. CASE Disk(t) \in detachDiskMap[n]
  <2>1. /\ diskMap'[t] = detachDiskMap[n] /\ pc'[t] = "vmDetach"
        /\ detachDiskMap' = [detachDiskMap EXCEPT ![n] = {}]
    BY <1>1, <1>2, <1>5 DEF retrieveDetachBatchedDiskRequests, Goto
  <2>2. DetachQueued'
    <3> SUFFICES ASSUME NEW m \in Nodes, NEW d \in detachDiskMap'[m]
                 PROVE \E u \in Threads : /\ pc'[u] \in {"detachLock", "detachLocked"}
                                          /\ Disk(u)' = d /\ Node(u)' = m
      BY DEF DetachQueued
    <3>1. m # n /\ d \in detachDiskMap[m] BY <1>2, <2>1
    <3>2. PICK u \in Threads : pc[u] \in {"detachLock", "detachLocked"} /\ Disk(u) = d /\ Node(u) = m
      BY <3>1 DEF DetachQueued
    <3> QED BY <1>1, <1>3, <3>1, <3>2
  <2>3. DetachBatched'
    <3> SUFFICES ASSUME NEW u \in Threads, pc'[u] \in DetachBatchPC, NEW d \in diskMap'[u], d # Disk(u)
                 PROVE \E w \in Threads : pc'[w] = "detachLock" /\ Disk(w) = d /\ Node(w) = Node(u)
      BY <1>3 DEF DetachBatched
    <3>1. CASE u = t
      <4>1. PICK w \in Threads : pc[w] \in {"detachLock", "detachLocked"} /\ Disk(w) = d /\ Node(w) = n
        BY <1>2, <2>1, <3>1 DEF DetachQueued
      <4> QED BY <1>1, <1>4, <3>1, <4>1
    <3>2. CASE u # t BY <1>1, <3>2 DEF DetachBatched
    <3> QED BY <3>1, <3>2
  <2> QED BY <2>2, <2>3
<1>6. CASE Disk(t) \notin detachDiskMap[n]
  <2>1. UNCHANGED <<diskMap, detachDiskMap>> /\ pc'[t] = "verifyDetach"
    BY <1>1, <1>6 DEF retrieveDetachBatchedDiskRequests, Goto
  <2>2. DetachQueued' BY <1>1, <1>3, <1>6, <2>1 DEF DetachQueued
  <2>3. DetachBatched' BY <1>1, <1>3, <2>1 DEF DetachBatched, DetachBatchPC, FlagPC
  <2> QED BY <2>2, <2>3
<1> QED BY <1>5, <1>6

(* A free lock has no batch, so that nobody in a batch is let in.          *)
LEMMA RequestedLock ==
  ASSUME TypeOK, LockHeld, DetachQueued, DetachBatched, NEW t \in Threads, Lock(t)
  PROVE DetachQueued' /\ DetachBatched'
<1>1. /\ \A u \in Threads \ {t} : pc'[u] = pc[u]
      /\ pc'[t] = "detachLocked" \/ (pc[t] \notin {"detachLock", "detachLocked"} /\ pc'[t] \notin DetachBatchPC)
      /\ pc'[t] \in {"attachLocked", "detachLocked", "updateLocked"}
      /\ UNCHANGED <<detachDiskMap, diskMap, call>> /\ lockMap[Node(t)] = NoThread
  BY DEF Lock, LockEntry, Goto, TypeOK, ThreadTypeOK, DetachBatchPC, FlagPC, queues, local
<1>2. \A u \in Threads : Disk(u)' = Disk(u) /\ Node(u)' = Node(u) BY <1>1 DEF Disk, Node
<1>3. DetachQueued' BY <1>1, <1>2 DEF DetachQueued
<1>4. DetachBatched'
  <2> SUFFICES ASSUME NEW u \in Threads, pc'[u] \in DetachBatchPC, NEW d \in diskMap[u], d # Disk(u)
               PROVE \E w \in Threads : pc'[w] = "detachLock" /\ Disk(w) = d /\ Node(w) = Node(u)
    BY <1>1, <1>2 DEF DetachBatched
  <2>1. u # t /\ pc[u] \in DetachBatchPC BY <1>1 DEF DetachBatchPC, FlagPC
  <2>2. PICK w \in Threads : pc[w] = "detachLock" /\ Disk(w) = d /\ Node(w) = Node(u)
    BY <2>1 DEF DetachBatched
  <2>3. lockMap[Node(u)] = u BY <2>1 DEF LockHeld, LockedPC, DetachLockedPC, DetachBatchPC, FlagPC
  <2>4. w # t BY <1>1, <2>2, <2>3, ThreadAssumption
  <2> QED BY <1>1, <2>2, <2>4
<1> QED BY <1>3, <1>4

RequestInv == UpdateInv /\ DetachQueued /\ DetachBatched

LEMMA RequestInvInit == Init => RequestInv
<1>1. Init => DetachQueued /\ DetachBatched
  BY DEF Init, DetachQueued, DetachBatched, DetachBatchPC, FlagPC
<1> QED BY <1>1, UpdateInvInit DEF RequestInv

LEMMA RequestInvNext == RequestInv /\ [Next]_vars => RequestInv'
<1> SUFFICES ASSUME RequestInv, [Next]_vars PROVE DetachQueued' /\ DetachBatched'
  BY UpdateInvNext DEF RequestInv
<1> USE DEF RequestInv, UpdateInv, ListInv
<1>1. ASSUME NEW t \in Threads, ThreadStep(t) PROVE DetachQueued' /\ DetachBatched'
  <2>1. CASE AttachStep(t) BY <2>1, DetachAsideAttach, DetachAsideKeeps
  <2>2. CASE DetachStep(t)
    BY <2>2, DetachAsideDetach, DetachAsideKeeps, RequestedBatchDetach, RequestedRetrieve
  <2>3. CASE Lock(t) BY <2>3, RequestedLock
  <2>4. CASE CallStep(t) \/ GetNodeVMSetFails(t) \/ DeleteStep(t) \/ AzureUpdate(t)
    BY <2>4, DetachAsideRest, DetachAsideKeeps
  <2> QED BY <1>1, <2>1, <2>2, <2>3, <2>4 DEF ThreadStep
<1>2. CASE UNCHANGED <<detachDiskMap, pc, call, diskMap>>
  BY <1>2 DEF DetachQueued, DetachBatched, Disk, Node
<1>3. ASSUME NEW n \in Nodes, NodeStep(n) PROVE DetachQueued' /\ DetachBatched'
  BY <1>2, <1>3 DEF NodeStep, DeleteVM, ExpireCache, DetachCompletes, driver, queues, local
<1>4. CASE Restart
  BY <1>4 DEF Restart, DetachQueued, DetachBatched, DetachBatchPC, FlagPC
<1>5. CASE UNCHANGED vars BY <1>2, <1>5 DEF vars, driver, queues, local
<1> QED BY <1>1, <1>3, <1>4, <1>5 DEF Next

LEMMA FlaggedRequested ==
  ASSUME RequestInv, NEW t \in Threads, NEW d \in Flagged(t) PROVE Detaching(d, Node(t))
<1>1. pc[t] \in DetachBatchPC /\ d \in diskMap[t] /\ pc[t] \in DetachPC
  BY DEF Flagged, FlagPC, DetachBatchPC, DetachPC, DetachLockedPC
<1>2. d = Disk(t) \/ \E u \in Threads : pc[u] = "detachLock" /\ Disk(u) = d /\ Node(u) = Node(t)
  BY <1>1 DEF RequestInv, DetachBatched
<1> QED BY <1>1, <1>2 DEF Detaching, DetachPC

-----------------------------------------------------------------------------
(* An answer of verifyAttach is true by the lock; one of GetDiskLun, which *)
(* reads the VM without it, but for disks that are being detached.         *)
LEMMA AttachedTrue ==
  ASSUME RequestInv, NEW t \in Threads, pc[t] # "idle", SawAttached(t), Node(t) \in nodes,
         ~Detaching(Disk(t), Node(t))
  PROVE result'[t].lun = vm[Node(t)].lun[Disk(t)] /\ HasLun(vm[Node(t)], Disk(t))
<1> DEFINE n == Node(t)
           d == Disk(t)
<1>1. TypeOK /\ n \in Nodes /\ d \in Disks
  BY ArgumentTypes DEF RequestInv, UpdateInv, ListInv
<1>2. HasLun(DataDisks(n), d) /\ result'[t].lun = DataDisks(n).lun[d] BY DEF SawAttached
<1> SUFFICES DataDisks(n).lun[d] = vm[n].lun[d] /\ HasLun(vm[n], d) BY <1>2
<1>3. CASE cache[n] = NoView BY <1>2, <1>3 DEF DataDisks
<1>4. CASE cache[n] # NoView /\ Quiet(n)
  BY <1>1, <1>2, <1>4 DEF RequestInv, UpdateInv, ListInv, CacheHonest, DataDisks, HasLun
<1>5. CASE cache[n] # NoView /\ ~Quiet(n)
  <2>1. PICK u \in Threads : pc[u] \in AcceptedPC /\ Node(u) = n BY <1>5 DEF Quiet
  <2>2. CacheBehind(u) BY DEF RequestInv, UpdateInv, UpdateSound
  <2>3. d \notin Flagged(u) BY <2>1, FlaggedRequested
  <2> QED BY <1>1, <1>2, <1>5, <2>1, <2>2, <2>3 DEF CacheBehind, DataDisks
<1> QED BY <1>3, <1>4, <1>5

LEMMA DetachedTrue ==
  ASSUME WaitForDetachDiskComplete, RequestInv, NEW t \in Threads, pc[t] # "idle", SawDetached(t)
  PROVE Disk(t) \notin Listed(vm[Node(t)])
<1>1. Node(t) \in Nodes BY ArgumentTypes DEF RequestInv, UpdateInv, ListInv
<1>2. CASE pc[t] = "verifyDetach" /\ Disk(t) \notin Listed(DataDisks(Node(t)))
  <2>1. pc[t] \in LockedPC \ AcceptedPC BY <1>2 DEF LockedPC, DetachLockedPC, AcceptedPC
  <2>2. \A d \in Listed(vm[Node(t)]) : DataDisks(Node(t)).lun[d] = vm[Node(t)].lun[d]
    BY <2>1, LockedView DEF RequestInv, UpdateInv
  <2> QED BY <1>2, <2>2 DEF Listed
<1>3. CASE Node(t) \notin ManagedBy(Disk(t)) BY <1>1, <1>3 DEF ManagedBy, Listed
<1> QED BY <1>2, <1>3 DEF SawDetached

(* Who returns, and with what.                                             *)
LEMMA WhoReturns ==
  ASSUME RequestInv, [Next]_vars, NEW t \in Threads, Returns(t)
  PROVE /\ pc[t] \in AttachPC => Answers(t, SawAttached(t))
        /\ pc[t] \in DetachPC => Answers(t, SawDetached(t))
<1>1. TypeOK BY DEF RequestInv, UpdateInv, ListInv
<1>2. pc'[t] = "returned" /\ pc[t] # "returned" BY DEF Returns
<1>3. AttachPC \cap DetachPC = {} /\ "returned" \notin AttachPC \cup DetachPC
  BY DEF AttachPC, AttachLockedPC, DetachPC, DetachLockedPC
<1>4. ThreadStep(t)
  <2>1. ASSUME NEW u \in Threads \ {t}, ThreadStep(u) PROVE FALSE
    <3>1. Frame(u)
      BY <1>1, <2>1, AttachOutline, DetachOutline, CallOutline, AzureOutline DEF ThreadStep
    <3> QED BY <1>2, <3>1 DEF Frame
  <2>2. ~UNCHANGED pc BY <1>2
  <2>3. ASSUME NEW n \in Nodes, NodeStep(n) PROVE FALSE
    BY <2>2, <2>3 DEF NodeStep, DeleteVM, ExpireCache, DetachCompletes
  <2>4. ~Restart BY <1>2 DEF Restart
  <2> QED BY <2>1, <2>2, <2>3, <2>4 DEF Next, vars
<1>5. CASE AttachStep(t) BY <1>1, <1>2, <1>3, <1>5, AttachAnswers
<1>6. CASE DetachStep(t) BY <1>1, <1>2, <1>3, <1>6, DetachAnswers
<1>7. CASE CallStep(t) \/ Lock(t) \/ DeleteStep(t) \/ AzureUpdate(t)
  <2>1. CASE CallStep(t)
    BY <1>1, <1>2, <2>1 DEF CallStep, CallAttachDisk, CallDetachDisk, CallDeleteManagedDisk, Call, Finish,
       Goto, TypeOK, ThreadTypeOK
  <2>2. CASE Lock(t) BY <1>1, <1>2, <2>2 DEF Lock, LockEntry, Goto, TypeOK, ThreadTypeOK
  <2>3. CASE DeleteStep(t)
    BY <2>3 DEF DeleteStep, CheckDiskState, GetManagedDisk, DeleteManagedDisk, AttachPC,
       AttachLockedPC, DetachPC, DetachLockedPC
  <2>4. CASE AzureUpdate(t)
    BY <1>1, <1>2, <2>4 DEF AzureUpdate, Accept, FilterNonExistingDisks, Goto, TypeOK, ThreadTypeOK
  <2> QED BY <1>7, <2>1, <2>2, <2>3, <2>4
<1>8. CASE GetNodeVMSetFails(t)
  BY <1>1, <1>8 DEF GetNodeVMSetFails, Return, UnlockReturn, Goto, Answers, Results, TypeOK, ThreadTypeOK
<1> QED BY <1>4, <1>5, <1>6, <1>7, <1>8 DEF ThreadStep

(* A LUN that AttachDisk answers is the disk's on the VM, where the disk   *)
(* stays: verifyAttach and GetDiskLun trust no cache entry that an update  *)
(* has made wrong about a disk nobody detaches.                            *)
THEOREM AttachAnswersTrue == Spec => AttachReturnsLun
<1>1. RequestInv /\ [Next]_vars =>
        [\A t \in Threads :
           /\ Returns(t) /\ pc[t] \in AttachPC /\ result'[t].err = "none"
           /\ Node(t) \in nodes /\ ~Detaching(Disk(t), Node(t))
           => /\ result'[t].lun = vm[Node(t)].lun[Disk(t)]
              /\ HasLun(vm[Node(t)], Disk(t))]_vars
  <2> SUFFICES ASSUME RequestInv, [Next]_vars, NEW t \in Threads,
                      Returns(t), pc[t] \in AttachPC, result'[t].err = "none",
                      Node(t) \in nodes, ~Detaching(Disk(t), Node(t))
               PROVE result'[t].lun = vm[Node(t)].lun[Disk(t)] /\ HasLun(vm[Node(t)], Disk(t))
    OBVIOUS
  <2>1. SawAttached(t) BY WhoReturns DEF Answers
  <2>2. pc[t] # "idle" BY DEF AttachPC, AttachLockedPC
  <2> QED BY <2>1, <2>2, AttachedTrue
<1> QED BY <1>1, RequestInvInit, RequestInvNext, PTL DEF Spec, AttachReturnsLun

(* A DetachDisk that answers success leaves the disk off the VM, on every  *)
(* path that ends in verifyDetach or waitForDiskManagedByTobeRemoved. With *)
(* --wait-for-detach-disk-complete off the latter answers without looking. *)
THEOREM DetachAnswersTrue == WaitForDetachDiskComplete => (Spec => DetachReturnsDetached)
<1> SUFFICES ASSUME WaitForDetachDiskComplete PROVE Spec => DetachReturnsDetached OBVIOUS
<1>1. RequestInv /\ [Next]_vars =>
        [\A t \in Threads :
           Returns(t) /\ pc[t] \in DetachPC /\ result'[t].err = "none"
             => Disk(t) \notin Listed(vm[Node(t)])]_vars
  <2> SUFFICES ASSUME RequestInv, [Next]_vars, NEW t \in Threads,
                      Returns(t), pc[t] \in DetachPC, result'[t].err = "none"
               PROVE Disk(t) \notin Listed(vm[Node(t)])
    OBVIOUS
  <2>1. SawDetached(t) BY WhoReturns DEF Answers
  <2>2. pc[t] # "idle" BY DEF DetachPC, DetachLockedPC
  <2> QED BY <2>1, <2>2, DetachedTrue
<1> QED BY <1>1, RequestInvInit, RequestInvNext, PTL DEF Spec, DetachReturnsDetached

(* A disk is flagged ToBeDetached on a VM only on behalf of a DetachDisk   *)
(* that is under way: neither a batch, a force detach nor a stale cache    *)
(* entry flags the disk of a request that has ended.                       *)
THEOREM FlaggedOnRequest == Spec => OnlyRequestedDetached
<1>1. RequestInv /\ [Next]_vars =>
        [\A n \in nodes' : \A d \in vm'[n].tbd \ vm[n].tbd : Detaching(d, n)]_vars
  <2> SUFFICES ASSUME RequestInv, [Next]_vars, NEW n \in nodes', NEW d \in vm'[n].tbd \ vm[n].tbd
               PROVE Detaching(d, n)
    OBVIOUS
  <2>1. ~UNCHANGED vm OBVIOUS
  <2>2. /\ TypeOK /\ vm \in [Nodes -> Views] /\ nodes \subseteq Nodes
    BY DEF RequestInv, UpdateInv, ListInv, TypeOK, AzureTypeOK
  <2>3. ASSUME NEW t \in Threads, NEW from \in SentPC, NEW to \in AcceptedPC, Accept(t, from, to)
        PROVE Detaching(d, n)
    <3>1. pc[t] \in SentPC /\ Node(t) \in nodes BY <2>3 DEF Accept, Acceptable
    <3>2. n = Node(t) /\ vm'[n] = Applied(n, sent[t]) BY <2>2, <2>3, <3>1 DEF Accept
    <3>3. d \in Flagged(t) BY <3>1, <3>2, AppliedView DEF RequestInv
    <3> QED BY <3>2, <3>3, FlaggedRequested
  <2>4. ASSUME NEW t \in Threads, ThreadStep(t) PROVE Detaching(d, n)
    BY <2>1, <2>3, <2>4, AzureFrame, DeleteFrame
       DEF ThreadStep, AzureUpdate, FilterNonExistingDisks, SentPC, AcceptedPC, azure
  <2>5. ASSUME NEW m \in Nodes, NodeStep(m) PROVE FALSE
    <3>1. nodes' \subseteq Nodes BY <2>2, <2>5 DEF NodeStep, DeleteVM, ExpireCache, DetachCompletes, azure
    <3>2. CASE DeleteVM(m) BY <2>2, <3>2 DEF DeleteVM
    <3>3. CASE ExpireCache(m) BY <2>1, <3>3 DEF ExpireCache, azure
    <3>4. ASSUME NEW e \in Disks, DetachCompletes(m, e) PROVE FALSE
      BY <2>2, <3>1, <3>4 DEF DetachCompletes
    <3> QED BY <2>5, <3>2, <3>3, <3>4 DEF NodeStep
  <2>6. ~Restart /\ ~UNCHANGED vars BY <2>1 DEF Restart, vars, azure
  <2> QED BY <2>4, <2>5, <2>6 DEF Next
<1> QED BY <1>1, RequestInvInit, RequestInvNext, PTL DEF Spec, OnlyRequestedDetached

-----------------------------------------------------------------------------
(***************************************************************************)
(* DiskController implements DiskPlacement, for every number of nodes,     *)
(* disks and request goroutines, when the data disk count is not checked   *)
(* and detach waits for ManagedBy to be cleared: every step of the         *)
(* controller is a step of DiskPlacement or leaves it where it is.         *)
(***************************************************************************)
(* A disk in the attach queue, or in a batch taken from it, has a request  *)
(* that waits for the node's lock or holds it.                             *)
AttachQueuePC == {"waitDetach", "attachLock"}
AttachBatchPC == {"setLun", "vmAttach", "attachSent"}

AttachQueued ==
  \A n \in Nodes : \A d \in attachDiskMap[n] :
    \E t \in Threads : pc[t] \in AttachQueuePC \cup {"attachLocked"} /\ Disk(t) = d /\ Node(t) = n

AttachBatched ==
  \A u \in Threads : pc[u] \in AttachBatchPC =>
    \A d \in diskMap[u] :
      \/ d = Disk(u)
      \/ \E t \in Threads : pc[t] \in AttachQueuePC /\ Disk(t) = d /\ Node(t) = Node(u)

(* A step that neither queues an attach, takes the queue nor waits for the *)
(* lock leaves every queued and batched disk requested.                    *)
AttachAside(t) ==
  /\ Frame(t) /\ UNCHANGED attachDiskMap
  /\ pc[t] \notin AttachQueuePC \cup {"attachLocked"}
  /\ pc'[t] \in AttachBatchPC =>
       pc[t] \in AttachBatchPC /\ diskMap'[t] = diskMap[t] /\ call'[t] = call[t]

LEMMA AttachAsideKeeps ==
  ASSUME AttachQueued, AttachBatched, NEW t \in Threads, AttachAside(t)
  PROVE AttachQueued' /\ AttachBatched'
<1>1. ASSUME NEW u \in Threads \ {t}
      PROVE pc'[u] = pc[u] /\ Disk(u)' = Disk(u) /\ Node(u)' = Node(u) /\ diskMap'[u] = diskMap[u]
  BY DEF AttachAside, Frame, Disk, Node
<1>2. \A u \in Threads : pc[u] \in AttachQueuePC \cup {"attachLocked"} => u # t BY DEF AttachAside
<1>3. AttachQueued' BY <1>1, <1>2 DEF AttachQueued, AttachAside
<1>4. AttachBatched'
  <2> SUFFICES ASSUME NEW u \in Threads, pc'[u] \in AttachBatchPC, NEW d \in diskMap'[u], d # Disk(u)'
               PROVE \E w \in Threads : pc'[w] \in AttachQueuePC /\ Disk(w)' = d /\ Node(w)' = Node(u)'
    BY DEF AttachBatched
  <2>1. pc[u] \in AttachBatchPC /\ d \in diskMap[u] /\ Disk(u)' = Disk(u) /\ Node(u)' = Node(u)
    BY <1>1 DEF AttachAside, Disk, Node
  <2>2. PICK w \in Threads : pc[w] \in AttachQueuePC /\ Disk(w) = d /\ Node(w) = Node(u)
    BY <2>1 DEF AttachBatched
  <2> QED BY <1>1, <1>2, <2>1, <2>2
<1> QED BY <1>3, <1>4

LEMMA AttachAsideDetach == ASSUME TypeOK, NEW t \in Threads, DetachStep(t) PROVE AttachAside(t)
<1>1. Frame(t) BY DetachOutline
<1>2. pc[t] \in DetachPC /\ (pc'[t] \in DetachPC \/ pc'[t] = "returned") BY DetachAnswers DEF Answers
<1>3. UNCHANGED attachDiskMap
  BY DEF DetachStep, batchDetachDiskRequest, retrieveDetachBatchedDiskRequests, VMDetach,
     DetachSucceeds, DetachInstanceNotFound, DetachInterrupted, DetachFails, ForceDetachFails,
     pollForDetachCompletion, PollGivesUp, verifyDetach, waitForDiskManagedByTobeRemoved,
     ForceOrFail, UnlockReturn, driver, queues
<1> QED BY <1>1, <1>2, <1>3 DEF AttachAside, DetachPC, DetachLockedPC, AttachBatchPC, AttachQueuePC

LEMMA AttachAsideAttach ==
  ASSUME ~CheckDiskCountForBatching, TypeOK, NEW t \in Threads, AttachStep(t),
         ~batchAttachDiskRequest(t), ~WaitForDetachRequests(t), ~AttachBatchedAlready(t),
         ~retrieveAttachBatchedDiskRequests(t)
  PROVE AttachAside(t)
<1>1. Frame(t) BY AttachOutline
<1> USE <1>1 DEF AttachAside, AttachBatchPC, AttachQueuePC, TypeOK, ThreadTypeOK, Goto, Return,
        UnlockReturn, driver, queues, local
<1>2. CASE AttachedToThisNode(t) BY <1>2 DEF AttachedToThisNode
<1>3. CASE AttachRefused(t) BY <1>3 DEF AttachRefused
<1>4. CASE CountDisksFails(t) BY <1>4 DEF CountDisksFails
<1>5. CASE SetDiskLunFails(t) BY <1>5 DEF SetDiskLunFails
<1>6. CASE SetDiskLun(t) BY <1>6 DEF SetDiskLun
<1>7. CASE VMAttach(t) BY <1>7 DEF VMAttach
<1>8. CASE AttachFails(t) BY <1>8 DEF AttachFails
<1>9. CASE AttachHitsMax(t) BY <1>9 DEF AttachHitsMax
<1>10. CASE AttachPreempted(t) BY <1>10 DEF AttachPreempted
<1>11. CASE AttachRetry(t) BY <1>11 DEF AttachRetry
<1>12. CASE AttachSucceeds(t) BY <1>12 DEF AttachSucceeds
<1>13. CASE verifyAttach(t) BY <1>13 DEF verifyAttach
<1>14. CASE UpdateVM(t) BY <1>14 DEF UpdateVM
<1>15. CASE GetDiskLun(t) BY <1>15 DEF GetDiskLun
<1> QED BY <1>2, <1>3, <1>4, <1>5, <1>6, <1>7, <1>8, <1>9, <1>10, <1>11, <1>12, <1>13, <1>14, <1>15
   DEF AttachStep

LEMMA AttachAsideRest ==
  ASSUME TypeOK, NEW t \in Threads,
         CallStep(t) \/ GetNodeVMSetFails(t) \/ DeleteStep(t) \/ AzureUpdate(t)
  PROVE AttachAside(t)
<1>1. Frame(t) BY CallOutline, AzureOutline
<1> USE <1>1 DEF AttachAside, AttachBatchPC, AttachQueuePC, TypeOK, ThreadTypeOK, Goto, Return,
        UnlockReturn, driver, queues, local
<1>2. CASE CallStep(t)
  BY <1>2 DEF CallStep, CallAttachDisk, CallDetachDisk, CallDeleteManagedDisk, Call, Finish
<1>3. CASE GetNodeVMSetFails(t) BY <1>3 DEF GetNodeVMSetFails
<1>4. CASE DeleteStep(t)
  BY <1>4 DEF DeleteStep, CheckDiskState, GetManagedDisk, DeleteManagedDisk
<1>5. CASE AzureUpdate(t) BY <1>5 DEF AzureUpdate, Accept, FilterNonExistingDisks, SentPC
<1> QED BY <1>2, <1>3, <1>4, <1>5

(* A request that queues its disk waits, before the lock or for it.        *)
LEMMA AttachQueues ==
  ASSUME TypeOK, AttachQueued, AttachBatched, NEW t \in Threads,
         batchAttachDiskRequest(t) \/ WaitForDetachRequests(t)
  PROVE AttachQueued' /\ AttachBatched'
<1>1. /\ pc[t] \in {"attach", "waitDetach"} /\ pc \in [Threads -> PCs] /\ UNCHANGED <<call, diskMap>>
      /\ pc'[t] \in AttachQueuePC /\ \A u \in Threads \ {t} : pc'[u] = pc[u]
      /\ \/ UNCHANGED attachDiskMap
         \/ attachDiskMap' = [attachDiskMap EXCEPT ![Node(t)] = @ \cup {Disk(t)}]
  BY DEF batchAttachDiskRequest, WaitForDetachRequests, Goto, TypeOK, ThreadTypeOK, AttachQueuePC,
     driver, queues, local
<1>2. Node(t) \in Nodes /\ attachDiskMap \in [Nodes -> SUBSET Disks]
  BY <1>1, ArgumentTypes DEF TypeOK, DriverTypeOK
<1>3. \A u \in Threads : Disk(u)' = Disk(u) /\ Node(u)' = Node(u) BY <1>1 DEF Disk, Node
<1>4. \A u \in Threads : pc[u] \in AttachQueuePC => pc'[u] \in AttachQueuePC BY <1>1
<1>5. \A u \in Threads : pc[u] = "attachLocked" => pc'[u] = "attachLocked" BY <1>1
<1>6. AttachQueued' BY <1>1, <1>2, <1>3, <1>4, <1>5 DEF AttachQueued
<1>7. \A u \in Threads : pc'[u] \in AttachBatchPC => pc[u] \in AttachBatchPC
  BY <1>1 DEF AttachBatchPC, AttachQueuePC
<1>8. AttachBatched' BY <1>1, <1>3, <1>4, <1>7 DEF AttachBatched
<1> QED BY <1>6, <1>8

(* The lock holder takes the queue: every other request in it waits.       *)
LEMMA AttachRetrieves ==
  ASSUME TypeOK, LockHeld, AttachQueued, AttachBatched, NEW t \in Threads,
         retrieveAttachBatchedDiskRequests(t)
  PROVE AttachQueued' /\ AttachBatched'
<1> DEFINE n == Node(t)
<1>1. /\ pc[t] = "attachLocked" /\ pc \in [Threads -> PCs] /\ UNCHANGED call
      /\ diskMap \in [Threads -> SUBSET Disks] /\ attachDiskMap \in [Nodes -> SUBSET Disks]
  BY DEF retrieveAttachBatchedDiskRequests, TypeOK, ThreadTypeOK, DriverTypeOK
<1>2. /\ \A u \in Threads \ {t} : pc'[u] = pc[u] /\ diskMap'[u] = diskMap[u]
      /\ diskMap'[t] \subseteq attachDiskMap[n] /\ pc'[t] = "setLun"
      /\ attachDiskMap' = [attachDiskMap EXCEPT ![n] = {}]
  BY <1>1 DEF retrieveAttachBatchedDiskRequests, Goto
<1>3. n \in Nodes BY <1>1, ArgumentTypes
<1>4. \A u \in Threads : Disk(u)' = Disk(u) /\ Node(u)' = Node(u) BY <1>1 DEF Disk, Node
<1>5. \A u \in Threads \ {t} : pc[u] = "attachLocked" => Node(u) # n
  BY <1>1, LockApart DEF LockedPC, AttachLockedPC
<1>6. AttachQueued'
  <2> SUFFICES ASSUME NEW m \in Nodes, NEW d \in attachDiskMap'[m]
               PROVE \E u \in Threads : /\ pc'[u] \in AttachQueuePC \cup {"attachLocked"}
                                        /\ Disk(u)' = d /\ Node(u)' = m
    BY DEF AttachQueued
  <2>1. m # n /\ d \in attachDiskMap[m] BY <1>1, <1>2, <1>3
  <2>2. PICK u \in Threads : pc[u] \in AttachQueuePC \cup {"attachLocked"} /\ Disk(u) = d /\ Node(u) = m
    BY <2>1 DEF AttachQueued
  <2> QED BY <1>2, <1>4, <2>1, <2>2
<1>7. AttachBatched'
  <2> SUFFICES ASSUME NEW u \in Threads, pc'[u] \in AttachBatchPC, NEW d \in diskMap'[u], d # Disk(u)
               PROVE \E w \in Threads : pc'[w] \in AttachQueuePC /\ Disk(w) = d /\ Node(w) = Node(u)
    BY <1>4 DEF AttachBatched
  <2>1. CASE u = t
    <3>1. PICK w \in Threads : pc[w] \in AttachQueuePC \cup {"attachLocked"} /\ Disk(w) = d /\ Node(w) = n
      BY <1>2, <1>3, <2>1 DEF AttachQueued
    <3> QED BY <1>2, <1>5, <2>1, <3>1
  <2>2. CASE u # t
    <3>1. PICK w \in Threads : pc[w] \in AttachQueuePC /\ Disk(w) = d /\ Node(w) = Node(u)
      BY <1>2, <2>2 DEF AttachBatched
    <3>2. w # t BY <1>1, <3>1 DEF AttachQueuePC
    <3> QED BY <1>2, <3>1, <3>2
  <2> QED BY <2>1, <2>2
<1> QED BY <1>6, <1>7

LEMMA AttachFindsBatched ==
  ASSUME TypeOK, AttachQueued, AttachBatched, NEW t \in Threads, AttachBatchedAlready(t)
  PROVE AttachQueued' /\ AttachBatched'
<1>1. /\ pc[t] = "attachLocked" /\ pc'[t] = "verifyBatched" /\ Disk(t) \notin attachDiskMap[Node(t)]
      /\ UNCHANGED <<attachDiskMap, call, diskMap>> /\ \A u \in Threads \ {t} : pc'[u] = pc[u]
  BY DEF AttachBatchedAlready, Goto, TypeOK, ThreadTypeOK, driver, queues, local
<1>2. \A u \in Threads : Disk(u)' = Disk(u) /\ Node(u)' = Node(u) BY <1>1 DEF Disk, Node
<1>3. AttachQueued' BY <1>1, <1>2 DEF AttachQueued
<1>4. \A u \in Threads : pc[u] \in AttachQueuePC => pc'[u] = pc[u] BY <1>1 DEF AttachQueuePC
<1>5. AttachBatched' BY <1>1, <1>2, <1>4 DEF AttachBatched, AttachBatchPC
<1> QED BY <1>3, <1>5

(* A free lock has no batch, so that nobody in a batch is let in.          *)
LEMMA AttachLocks ==
  ASSUME TypeOK, LockHeld, AttachQueued, AttachBatched, NEW t \in Threads, Lock(t)
  PROVE AttachQueued' /\ AttachBatched'
<1>1. /\ \A u \in Threads \ {t} : pc'[u] = pc[u]
      /\ pc'[t] = "attachLocked" \/ pc[t] \notin AttachQueuePC \cup {"attachLocked"}
      /\ pc'[t] \in {"attachLocked", "detachLocked", "updateLocked"}
      /\ UNCHANGED <<attachDiskMap, diskMap, call>> /\ lockMap[Node(t)] = NoThread
  BY DEF Lock, LockEntry, Goto, TypeOK, ThreadTypeOK, AttachQueuePC, queues, local
<1>2. \A u \in Threads : Disk(u)' = Disk(u) /\ Node(u)' = Node(u) BY <1>1 DEF Disk, Node
<1>3. AttachQueued' BY <1>1, <1>2 DEF AttachQueued
<1>4. AttachBatched'
  <2> SUFFICES ASSUME NEW u \in Threads, pc'[u] \in AttachBatchPC, NEW d \in diskMap[u], d # Disk(u)
               PROVE \E w \in Threads : pc'[w] \in AttachQueuePC /\ Disk(w) = d /\ Node(w) = Node(u)
    BY <1>1, <1>2 DEF AttachBatched
  <2>1. u # t /\ pc[u] \in AttachBatchPC BY <1>1 DEF AttachBatchPC
  <2>2. PICK w \in Threads : pc[w] \in AttachQueuePC /\ Disk(w) = d /\ Node(w) = Node(u)
    BY <2>1 DEF AttachBatched
  <2>3. lockMap[Node(u)] = u BY <2>1 DEF LockHeld, LockedPC, AttachLockedPC, AttachBatchPC
  <2>4. w # t BY <1>1, <2>2, <2>3, ThreadAssumption
  <2> QED BY <1>1, <2>2, <2>4
<1> QED BY <1>3, <1>4

-----------------------------------------------------------------------------
(* The call a thread serves, by where it is.                               *)
DeletePC == {"delete", "deleteGet", "deleteSend"}

CallServed ==
  \A t \in Threads :
    /\ pc[t] \in AttachPC => call[t].op = "attach"
    /\ pc[t] \in DetachPC => call[t].op = "detach"
    /\ pc[t] \in DeletePC => call[t].op = "delete"

LEMMA PCsApart ==
  /\ AttachPC \cap DetachPC = {} /\ DeletePC \cap (AttachPC \cup DetachPC) = {}
  /\ {"idle", "returned"} \cap (AttachPC \cup DetachPC \cup DeletePC) = {}
  BY DEF AttachPC, AttachLockedPC, DetachPC, DetachLockedPC, DeletePC

(* Every step of a thread makes a call, works on it, answers it or ends.   *)
Works(t, PC) == pc[t] \in PC /\ pc'[t] \in PC /\ UNCHANGED call

LEMMA DeleteMoves ==
  ASSUME TypeOK, NEW t \in Threads, DeleteStep(t)
  PROVE pc[t] \in DeletePC /\ pc'[t] \in DeletePC \cup {"returned"} /\ UNCHANGED call
  BY DEF DeleteStep, CheckDiskState, GetManagedDisk, DeleteManagedDisk, Goto, Return, DeletePC, TypeOK, ThreadTypeOK, local

LEMMA CallMoves ==
  ASSUME TypeOK, NEW t \in Threads, CallStep(t)
  PROVE \/ /\ pc[t] = "idle" /\ call'[t].op = "attach" /\ pc'[t] = "attach"
           /\ call'[t].disk \in Disks /\ call'[t].node \in Nodes
        \/ /\ pc[t] = "idle" /\ call'[t].op = "detach" /\ pc'[t] \in {"detach", "waitManagedBy"}
           /\ call'[t].disk \in Disks /\ call'[t].node \in Nodes
        \/ pc[t] = "idle" /\ call'[t].op = "delete" /\ pc'[t] = "delete"
        \/ Finish(t)
<1> USE DEF TypeOK, ThreadTypeOK, Call, Goto
<1>1. ASSUME NEW d \in Disks, NEW n \in Nodes, CallAttachDisk(t, d, n)
      PROVE /\ pc[t] = "idle" /\ call'[t].op = "attach" /\ pc'[t] = "attach"
            /\ call'[t].disk \in Disks /\ call'[t].node \in Nodes
  BY <1>1 DEF CallAttachDisk
<1>2. ASSUME NEW d \in Disks, NEW n \in Nodes, CallDetachDisk(t, d, n)
      PROVE /\ pc[t] = "idle" /\ call'[t].op = "detach" /\ pc'[t] \in {"detach", "waitManagedBy"}
            /\ call'[t].disk \in Disks /\ call'[t].node \in Nodes
  BY <1>2 DEF CallDetachDisk
<1>3. ASSUME NEW d \in Deletable, NEW n \in Nodes, CallDeleteManagedDisk(t, d, n)
      PROVE pc[t] = "idle" /\ call'[t].op = "delete" /\ pc'[t] = "delete"
  BY <1>3 DEF CallDeleteManagedDisk
<1> QED BY <1>1, <1>2, <1>3 DEF CallStep

LEMMA LockMoves ==
  ASSUME TypeOK, NEW t \in Threads, Lock(t) \/ AzureUpdate(t)
  PROVE Works(t, AttachPC) \/ Works(t, DetachPC)
  BY DEF Lock, LockEntry, AzureUpdate, Accept, FilterNonExistingDisks, Goto, Works, AttachPC, AttachLockedPC,
     DetachPC, DetachLockedPC, SentPC, TypeOK, ThreadTypeOK, local

LEMMA FailMoves ==
  ASSUME TypeOK, NEW t \in Threads, GetNodeVMSetFails(t)
  PROVE pc[t] \in AttachPC \cup DetachPC /\ Answers(t, FALSE) /\ UNCHANGED call
  BY DEF GetNodeVMSetFails, Return, UnlockReturn, Goto, Answers, Results, AttachPC, AttachLockedPC,
     DetachPC, DetachLockedPC, TypeOK, ThreadTypeOK

LEMMA CallServedThread ==
  ASSUME TypeOK, CallServed, NEW t \in Threads, ThreadStep(t) PROVE CallServed'
<1>1. Frame(t) BY AttachOutline, DetachOutline, CallOutline, AzureOutline DEF ThreadStep
<1>2. SUFFICES /\ pc'[t] \in AttachPC => call'[t].op = "attach"
               /\ pc'[t] \in DetachPC => call'[t].op = "detach"
               /\ pc'[t] \in DeletePC => call'[t].op = "delete"
  BY <1>1 DEF Frame, CallServed
<1> USE PCsApart DEF CallServed
<1>3. CASE CallStep(t)
  <2>1. (pc[t] = "returned" /\ pc'[t] = "idle") \/ ~Finish(t)
    BY DEF Finish, Goto, TypeOK, ThreadTypeOK
  <2> QED BY <1>3, <2>1, CallMoves DEF AttachPC, AttachLockedPC, DetachPC, DetachLockedPC, DeletePC
<1>4. CASE Lock(t) \/ AzureUpdate(t) BY <1>4, LockMoves DEF Works
<1>5. CASE GetNodeVMSetFails(t) BY <1>5, FailMoves DEF Answers
<1>6. CASE AttachStep(t) BY <1>6, AttachAnswers DEF Answers
<1>7. CASE DetachStep(t) BY <1>7, DetachAnswers DEF Answers
<1>8. CASE DeleteStep(t) BY <1>8, DeleteMoves
<1> QED BY <1>3, <1>4, <1>5, <1>6, <1>7, <1>8 DEF ThreadStep

(* The invariant of the refinement.                                        *)
PlacementInv == RequestInv /\ AttachQueued /\ AttachBatched /\ CallServed

LEMMA PlacementInvInit == Init => PlacementInv
<1>1. Init => AttachQueued /\ AttachBatched BY DEF Init, AttachQueued, AttachBatched, AttachBatchPC
<1>2. Init => CallServed BY PCsApart DEF Init, CallServed
<1> QED BY <1>1, <1>2, RequestInvInit DEF PlacementInv

LEMMA PlacementInvNext ==
  ASSUME ~CheckDiskCountForBatching PROVE PlacementInv /\ [Next]_vars => PlacementInv'
<1> DEFINE Kept == AttachQueued' /\ AttachBatched' /\ CallServed'
<1> SUFFICES ASSUME PlacementInv, [Next]_vars PROVE Kept BY RequestInvNext DEF PlacementInv
<1> USE DEF PlacementInv, RequestInv, UpdateInv, ListInv
<1>1. ASSUME NEW t \in Threads, ThreadStep(t) PROVE Kept
  <2>1. CASE AttachStep(t)
    BY <1>1, <2>1, CallServedThread, AttachAsideAttach, AttachAsideKeeps, AttachQueues,
       AttachRetrieves, AttachFindsBatched
  <2>2. CASE DetachStep(t) BY <1>1, <2>2, CallServedThread, AttachAsideDetach, AttachAsideKeeps
  <2>3. CASE Lock(t) BY <1>1, <2>3, CallServedThread, AttachLocks
  <2>4. CASE CallStep(t) \/ GetNodeVMSetFails(t) \/ DeleteStep(t) \/ AzureUpdate(t)
    BY <1>1, <2>4, CallServedThread, AttachAsideRest, AttachAsideKeeps
  <2> QED BY <1>1, <2>1, <2>2, <2>3, <2>4 DEF ThreadStep
<1>2. CASE UNCHANGED <<attachDiskMap, pc, call, diskMap>>
  BY <1>2 DEF AttachQueued, AttachBatched, CallServed, Disk, Node
<1>3. ASSUME NEW n \in Nodes, NodeStep(n) PROVE Kept
  BY <1>2, <1>3 DEF NodeStep, DeleteVM, ExpireCache, DetachCompletes, driver, queues, local
<1>4. CASE Restart
  BY <1>4, PCsApart DEF Restart, AttachQueued, AttachBatched, AttachBatchPC, CallServed
<1>5. CASE UNCHANGED vars BY <1>2, <1>5 DEF vars, driver, queues, local
<1> QED BY <1>1, <1>3, <1>4, <1>5 DEF Next

(* With the data disk count unchecked, a disk in attachDiskMap has a       *)
(* request that waits: only CountDisksFails leaves one behind, the case in *)
(* which the run "queue" finds QueueIsWaiting violated.                    *)
THEOREM QueueWaits == ~CheckDiskCountForBatching => (Spec => []QueueIsWaiting)
<1> SUFFICES ASSUME ~CheckDiskCountForBatching PROVE Spec => []QueueIsWaiting OBVIOUS
<1>1. PlacementInv => QueueIsWaiting
  BY DEF PlacementInv, AttachQueued, QueueIsWaiting, Attaching, AttachQueuePC, AttachPC, AttachLockedPC
<1> QED BY <1>1, PlacementInvInit, PlacementInvNext, PTL DEF Spec

-----------------------------------------------------------------------------
(* The refinement. What DiskPlacement sees of a thread.                    *)
AnswerOf(t) == IF pc[t] = "returned" /\ call[t].op # "delete" THEN result[t] ELSE NoCall

LEMMA SeenAlike ==
  ASSUME NEW t \in Threads, Frame(t), NEW u \in Threads \ {t}
  PROVE PlacementRequest(u)' = PlacementRequest(u) /\ AnswerOf(u)' = AnswerOf(u)
  BY DEF Frame, PlacementRequest, AnswerOf, Node, Disk

LEMMA Stutters ==
  ASSUME UNCHANGED <<vm, nodes>>,
         \A t \in Threads : PlacementRequest(t)' = PlacementRequest(t) /\ AnswerOf(t)' = AnswerOf(t)
  PROVE UNCHANGED Placement!vars
<1>1. [t \in Threads |-> PlacementRequest(t)'] = [t \in Threads |-> PlacementRequest(t)] OBVIOUS
<1>2. [t \in Threads |-> AnswerOf(t)'] = [t \in Threads |-> AnswerOf(t)] OBVIOUS
<1> QED BY <1>1, <1>2 DEF Placement!vars, AnswerOf

LEMMA RequestedDetach ==
  ASSUME NEW d, NEW n, Detaching(d, n) PROVE Placement!Requested("detach", d, n)
<1>1. PICK t \in Threads : pc[t] \in DetachPC /\ Disk(t) = d /\ Node(t) = n BY DEF Detaching
<1>2. PlacementRequest(t) = [op |-> "detach", disk |-> d, node |-> n]
  BY <1>1, PCsApart DEF PlacementRequest
<1> QED BY <1>2 DEF Placement!Requested

LEMMA RequestedAttach ==
  ASSUME NEW d, NEW n, Attaching(d, n) PROVE Placement!Requested("attach", d, n)
<1>1. PICK t \in Threads : pc[t] \in AttachPC /\ Disk(t) = d /\ Node(t) = n BY DEF Attaching
<1>2. PlacementRequest(t) = [op |-> "attach", disk |-> d, node |-> n] BY <1>1 DEF PlacementRequest
<1> QED BY <1>2 DEF Placement!Requested

(* A thread at work shows the same request and no answer.                  *)
LEMMA WorksStutters ==
  ASSUME NEW t \in Threads, Frame(t), UNCHANGED <<vm, nodes>>,
         Works(t, AttachPC) \/ Works(t, DetachPC) \/ Works(t, DeletePC)
  PROVE UNCHANGED Placement!vars
<1>1. PlacementRequest(t)' = PlacementRequest(t) /\ AnswerOf(t)' = AnswerOf(t)
  BY PCsApart DEF Works, PlacementRequest, AnswerOf, Node, Disk
<1> QED BY <1>1, SeenAlike, Stutters

LEMMA DeleteStutters ==
  ASSUME CallServed, NEW t \in Threads, Frame(t), UNCHANGED <<vm, nodes, call>>,
         pc[t] \in DeletePC, pc'[t] = "returned"
  PROVE UNCHANGED Placement!vars
<1>1. PlacementRequest(t)' = PlacementRequest(t) /\ AnswerOf(t)' = AnswerOf(t)
  BY PCsApart DEF CallServed, PlacementRequest, AnswerOf
<1> QED BY <1>1, SeenAlike, Stutters

(* A call that returns is an answer, and a true one.                       *)
LEMMA Answering ==
  ASSUME PlacementInv, WaitForDetachDiskComplete, NEW t \in Threads, Frame(t),
         UNCHANGED <<vm, nodes, call>>, pc[t] \in AttachPC \cup DetachPC,
         pc[t] \in AttachPC => Answers(t, SawAttached(t)),
         pc[t] \in DetachPC => Answers(t, SawDetached(t))
  PROVE Placement!Answer(t, result'[t]) /\ result'[t] \in Placement!Answers
<1> DEFINE n == Node(t)
           d == Disk(t)
           r == PlacementRequest(t)
<1>1. RequestInv /\ TypeOK /\ CallServed BY DEF PlacementInv, RequestInv, UpdateInv, ListInv
<1>2. pc[t] # "idle" /\ pc'[t] = "returned" /\ result'[t] \in Results BY PCsApart DEF Answers
<1>3. n \in Nodes /\ d \in Disks BY <1>1, <1>2, ArgumentTypes
<1>4. r = [op |-> call[t].op, disk |-> d, node |-> n] /\ call[t].op \in {"attach", "detach"}
  BY <1>1, PCsApart DEF PlacementRequest, CallServed
<1>5. call[t].op = "attach" <=> pc[t] \in AttachPC BY <1>1 DEF CallServed
<1>6. r \in Requests BY <1>3, <1>4 DEF Requests
<1>7. r # NoCall BY <1>6, CallAssumption
<1>8. PlacementRequest(t)' = NoCall /\ AnswerOf(t)' = result'[t]
  BY <1>2, <1>4, PCsApart DEF PlacementRequest, AnswerOf
<1>9. result'[t].err = "none" /\ pc[t] \in AttachPC => result'[t].lun \in LUNs
  <2> SUFFICES ASSUME SawAttached(t) PROVE result'[t].lun \in LUNs BY DEF Answers
  <2>1. DataDisks(n).lun[d] \in LUNs \cup {NoLun} BY <1>1, <1>3, DataDisksLunType
  <2> QED BY <2>1 DEF SawAttached, HasLun, Listed
<1>10. ASSUME result'[t].err = "none"
       PROVE \/ r.op = "detach" /\ vm[r.node].lun[r.disk] = NoLun
             \/ /\ r.op = "attach"
                /\ \/ r.node \notin nodes \/ Placement!Requested("detach", r.disk, r.node)
                   \/ vm[r.node].lun[r.disk] = result'[t].lun /\ r.disk \notin vm[r.node].tbd
  <2>1. CASE pc[t] \in AttachPC
    <3>1. n \notin nodes \/ Detaching(d, n) \/ (vm[n].lun[d] = result'[t].lun /\ d \notin vm[n].tbd)
      BY <1>1, <1>2, <1>10, <2>1, AttachedTrue DEF Answers, HasLun
    <3>2. Detaching(d, n) => Placement!Requested("detach", d, n) BY RequestedDetach
    <3> QED BY <1>4, <1>5, <2>1, <3>1, <3>2
  <2>2. CASE pc[t] \in DetachPC
    <3>1. d \notin Listed(vm[n]) BY <1>1, <1>2, <1>10, <2>2, DetachedTrue DEF Answers
    <3> QED BY <1>3, <1>4, <1>5, <2>2, <3>1, PCsApart DEF Listed
  <2> QED BY <2>1, <2>2
<1>11. r.node \in Nodes BY <1>3, <1>4
<1> HIDE DEF n, d, r
<1>12. Placement!TrueAnswer(PlacementRequest(t), result'[t])
  BY <1>10, <1>11 DEF Placement!TrueAnswer, r
<1>13. result'[t].err = "none" /\ r.op = "attach" => result'[t].lun \in LUNs BY <1>4, <1>5, <1>9
<1>14. [u \in Threads |-> PlacementRequest(u)'] =
         [[u \in Threads |-> PlacementRequest(u)] EXCEPT ![t] = NoCall]
  BY <1>8, SeenAlike
<1>15. [u \in Threads |-> AnswerOf(u)'] = [[u \in Threads |-> AnswerOf(u)] EXCEPT ![t] = result'[t]]
  BY <1>8, SeenAlike
<1>16. Placement!Answer(t, result'[t])
  BY <1>7, <1>12, <1>13, <1>14, <1>15 DEF Placement!Answer, AnswerOf, r
<1>17. result'[t] \in Placement!Answers BY <1>2 DEF Results, Placement!Answers
<1> QED BY <1>16, <1>17

(* Azure's acceptance of a list is the update of DiskPlacement: the disks  *)
(* it adds and the disks it flags are requested.                           *)
LEMMA Updating ==
  ASSUME PlacementInv, NEW t \in Threads, NEW from \in SentPC, NEW to \in AcceptedPC,
         Accept(t, from, to), from = "attachSent" <=> to = "attachAccepted"
  PROVE \E D, E \in SUBSET Disks : Placement!Update(Node(t), D, E)
<1> DEFINE n == Node(t)
           w == Applied(n, sent[t])
           D == Listed(w) \ Listed(vm[n])
           E == w.tbd \ vm[n].tbd
           l == [d \in D |-> w.lun[d]]
<1>1. /\ RequestInv /\ UpdateInv /\ TypeOK /\ vm \in [Nodes -> Views] /\ nodes \subseteq Nodes
      /\ pc[t] = from /\ n \in nodes /\ sent[t] \in Views
  BY DEF PlacementInv, RequestInv, UpdateInv, ListInv, TypeOK, AzureTypeOK, ThreadTypeOK, Accept, Acceptable
<1>2. n \in Nodes /\ vm[n] \in Views BY <1>1
<1>3. vm' = [vm EXCEPT ![n] = w] /\ UNCHANGED <<nodes, call, result>> BY DEF Accept, local
<1>4. /\ \A d \in Listed(vm[n]) : w.lun[d] = vm[n].lun[d]
      /\ \A d \in Listed(w) : w.lun[d] = sent[t].lun[d] /\ d \in Listed(sent[t])
      /\ \A d \in Listed(w) \ Listed(vm[n]) : d \in Added(t) \ sent[t].tbd
      /\ vm[n].tbd \subseteq w.tbd /\ w.tbd \subseteq Listed(vm[n])
      /\ w.tbd \subseteq vm[n].tbd \cup Flagged(t)
  BY <1>1, AppliedView
<1>5. LunsDistinct(w)
  <2>1. LunsDistinct(sent[t]) BY <1>1 DEF UpdateInv, UpdateSound, SentDistinct
  <2> QED BY <1>4, <2>1 DEF LunsDistinct
<1>6. w.lun \in [Disks -> LUNs \cup {NoLun}] BY <1>1, <1>2 DEF Applied, Views
<1>7. vm[n].lun \in [Disks -> LUNs \cup {NoLun}] BY <1>2 DEF Views
<1>8. ASSUME NEW d \in D PROVE d \notin Listed(vm[n]) /\ Placement!Requested("attach", d, n)
  <2>1. pc[t] = "attachSent" /\ d \in diskMap[t] BY <1>4 DEF Added
  <2>2. d = Disk(t) \/ \E u \in Threads : pc[u] \in AttachQueuePC /\ Disk(u) = d /\ Node(u) = n
    BY <2>1 DEF PlacementInv, AttachBatched, AttachBatchPC
  <2>3. Attaching(d, n)
    BY <2>1, <2>2 DEF Attaching, AttachQueuePC, AttachPC, AttachLockedPC
  <2> QED BY <2>3, RequestedAttach
<1>9. ASSUME NEW e \in E PROVE e \in Listed(vm[n]) \ vm[n].tbd /\ Placement!Requested("detach", e, n)
  <2>1. Detaching(e, n) BY <1>1, <1>4, FlaggedRequested
  <2> QED BY <1>4, <2>1, RequestedDetach
<1>10. D \in SUBSET Disks /\ E \in SUBSET Disks BY <1>4 DEF Listed
<1> HIDE DEF n, w
<1>11. l \in [D -> LUNs \ {vm[n].lun[d] : d \in Listed(vm[n])}]
  <2> SUFFICES ASSUME NEW d \in D
               PROVE w.lun[d] \in LUNs /\ \A e \in Listed(vm[n]) : w.lun[d] # vm[n].lun[e]
    OBVIOUS
  <2>1. w.lun[d] \in LUNs /\ d \in Listed(w) BY <1>6 DEF Listed
  <2>2. \A e \in Listed(vm[n]) : e \in Listed(w) /\ w.lun[e] = vm[n].lun[e] BY <1>4 DEF Listed
  <2> QED BY <1>5, <2>1, <2>2 DEF LunsDistinct
<1>12. \A d, e \in D : l[d] = l[e] => d = e BY <1>5 DEF LunsDistinct
<1>13. w.lun = [d \in Disks |-> IF d \in D THEN l[d] ELSE vm[n].lun[d]]
  <2>1. \A d \in Disks : w.lun[d] = IF d \in D THEN w.lun[d] ELSE vm[n].lun[d] BY <1>4, <1>6, <1>7 DEF Listed
  <2> QED BY <1>6, <2>1
<1>14. w.tbd = vm[n].tbd \cup E BY <1>4
<1> HIDE DEF D, E, l
<1>15. [m \in Nodes |-> vm'[m].lun] =
         [[m \in Nodes |-> vm[m].lun] EXCEPT ![n] = [d \in Disks |-> IF d \in D THEN l[d] ELSE vm[n].lun[d]]]
  BY <1>1, <1>2, <1>3, <1>13
<1>16. [m \in Nodes |-> vm'[m].tbd] = [[m \in Nodes |-> vm[m].tbd] EXCEPT ![n] = vm[n].tbd \cup E]
  BY <1>1, <1>2, <1>3, <1>14
<1>17. /\ [u \in Threads |-> PlacementRequest(u)'] = [u \in Threads |-> PlacementRequest(u)]
       /\ [u \in Threads |-> AnswerOf(u)'] = [u \in Threads |-> AnswerOf(u)]
  <2>1. Frame(t) BY <1>1 DEF Frame, Accept, Goto, TypeOK, ThreadTypeOK, local
  <2>2. Works(t, AttachPC) \/ Works(t, DetachPC)
    BY <1>1, <1>3 DEF Works, Accept, Goto, SentPC, AcceptedPC, AttachPC, AttachLockedPC, DetachPC,
       DetachLockedPC, TypeOK, ThreadTypeOK
  <2>3. PlacementRequest(t)' = PlacementRequest(t) /\ AnswerOf(t)' = AnswerOf(t)
    BY <2>2, PCsApart DEF Works, PlacementRequest, AnswerOf, Node, Disk
  <2> QED BY <2>1, <2>3, SeenAlike
<1>18. Placement!On(n) = Listed(vm[n]) BY <1>2 DEF Placement!On, Listed
<1>19. [m \in Nodes |-> vm[m].lun][n] = vm[n].lun /\ [m \in Nodes |-> vm[m].tbd][n] = vm[n].tbd
  BY <1>2
<1>20. Placement!Update(n, D, E)
  <2> DEFINE lun == [m \in Nodes |-> vm[m].lun]
             leaving == [m \in Nodes |-> vm[m].tbd]
  <2>1. \A d \in D : d \notin Placement!On(n) /\ Placement!Requested("attach", d, n) BY <1>8, <1>18
  <2>2. \A e \in E : e \in Placement!On(n) \ leaving[n] /\ Placement!Requested("detach", e, n)
    BY <1>9, <1>18, <1>19
  <2>3. l \in [D -> LUNs \ {lun[n][d] : d \in Placement!On(n)}]
    <3>1. {lun[n][d] : d \in Placement!On(n)} = {vm[n].lun[d] : d \in Listed(vm[n])} BY <1>18, <1>19
    <3> QED BY <1>11, <3>1
  <2>4. lun' = [lun EXCEPT ![n] = [d \in Disks |-> IF d \in D THEN l[d] ELSE lun[n][d]]]
    BY <1>15, <1>19
  <2>5. leaving' = [leaving EXCEPT ![n] = leaving[n] \cup E] BY <1>16, <1>19
  <2>6. UNCHANGED <<nodes, [u \in Threads |-> PlacementRequest(u)], [u \in Threads |-> AnswerOf(u)]>>
    BY <1>3, <1>17
  <2> QED BY <1>1, <1>12, <2>1, <2>2, <2>3, <2>4, <2>5, <2>6 DEF Placement!Update, AnswerOf
<1>21. Placement!Update(Node(t), D, E) BY <1>20 DEF n
<1> QED BY <1>10, <1>21 DEF Placement!Update

LEMMA Leaving ==
  ASSUME TypeOK, NEW n \in Nodes, NEW d \in Disks, DetachCompletes(n, d)
  PROVE Placement!Leave(n, d)
<1>1. vm \in [Nodes -> Views] /\ vm[n].lun \in [Disks -> LUNs \cup {NoLun}] /\ d \in vm[n].tbd
  BY DEF TypeOK, AzureTypeOK, Views, DetachCompletes
<1>2. /\ vm' = [vm EXCEPT ![n] = [lun |-> [vm[n].lun EXCEPT ![d] = NoLun], tbd |-> vm[n].tbd \ {d}]]
      /\ UNCHANGED <<nodes, pc, call, result>>
  BY DEF DetachCompletes, local
<1>3. [m \in Nodes |-> vm'[m].lun] = [[m \in Nodes |-> vm[m].lun] EXCEPT ![n][d] = NoLun] BY <1>1, <1>2
<1>4. [m \in Nodes |-> vm'[m].tbd] = [[m \in Nodes |-> vm[m].tbd] EXCEPT ![n] = vm[n].tbd \ {d}] BY <1>1, <1>2
<1>5. UNCHANGED <<[u \in Threads |-> PlacementRequest(u)], [u \in Threads |-> AnswerOf(u)]>>
  BY <1>2 DEF PlacementRequest, AnswerOf, Node, Disk
<1> QED BY <1>1, <1>2, <1>3, <1>4, <1>5 DEF Placement!Leave, AnswerOf

LEMMA Deleting ==
  ASSUME TypeOK, NEW n \in Nodes, DeleteVM(n) PROVE Placement!VMDeleted(n)
<1>1. vm \in [Nodes -> Views] /\ n \in nodes /\ nodes' = nodes \ {n}
  BY DEF TypeOK, AzureTypeOK, DeleteVM
<1>2. /\ vm' = [vm EXCEPT ![n] = [lun |-> vm[n].lun, tbd |-> Listed(vm[n])]]
      /\ UNCHANGED <<pc, call, result>>
  BY DEF DeleteVM, local
<1>3. [m \in Nodes |-> vm'[m].lun] = [m \in Nodes |-> vm[m].lun] BY <1>1, <1>2
<1>4. [m \in Nodes |-> vm'[m].tbd] = [[m \in Nodes |-> vm[m].tbd] EXCEPT ![n] = Listed(vm[n])] BY <1>1, <1>2
<1>5. Placement!On(n) = Listed(vm[n]) BY DEF Placement!On, Listed
<1>6. UNCHANGED <<[u \in Threads |-> PlacementRequest(u)], [u \in Threads |-> AnswerOf(u)]>>
  BY <1>2 DEF PlacementRequest, AnswerOf, Node, Disk
<1> QED BY <1>1, <1>3, <1>4, <1>5, <1>6 DEF Placement!VMDeleted, AnswerOf

LEMMA Restarting == ASSUME Restart PROVE Placement!Restart
<1>1. UNCHANGED <<vm, nodes>> /\ pc' = [t \in Threads |-> "idle"] BY DEF Restart, azure
<1>2. \A t \in Threads : PlacementRequest(t)' = NoCall /\ AnswerOf(t)' = NoCall
  BY <1>1, PCsApart DEF PlacementRequest, AnswerOf
<1>3. [t \in Threads |-> PlacementRequest(t)'] = [t \in Threads |-> NoCall] BY <1>2
<1>4. [t \in Threads |-> AnswerOf(t)'] = [t \in Threads |-> NoCall] BY <1>2
<1> QED BY <1>1, <1>3, <1>4 DEF Placement!Restart, AnswerOf

(* A call of DeleteManagedDisk shows nothing.                              *)
LEMMA Calling ==
  ASSUME TypeOK, NEW t \in Threads, CallStep(t) PROVE [Placement!Next]_(Placement!vars)
<1>1. Frame(t) /\ UNCHANGED <<vm, nodes>> BY CallOutline DEF Plain
<1>2. ASSUME NEW op \in {"attach", "detach"}, NEW d \in Disks, NEW n \in Nodes, pc[t] = "idle",
             PlacementRequest(t)' = [op |-> op, disk |-> d, node |-> n],
             pc'[t] # "returned"
      PROVE Placement!Request(t, op, d, n)
  <2>1. PlacementRequest(t) = NoCall /\ AnswerOf(t) = NoCall /\ AnswerOf(t)' = NoCall
    BY <1>2, PCsApart DEF PlacementRequest, AnswerOf
  <2>2. [u \in Threads |-> PlacementRequest(u)'] =
          [[u \in Threads |-> PlacementRequest(u)] EXCEPT ![t] = [op |-> op, disk |-> d, node |-> n]]
    BY <1>1, <1>2, SeenAlike
  <2>3. [u \in Threads |-> AnswerOf(u)'] = [u \in Threads |-> AnswerOf(u)] BY <1>1, <2>1, SeenAlike
  <2> QED BY <1>1, <2>1, <2>2, <2>3 DEF Placement!Request, AnswerOf
<1>3. CASE Finish(t)
  <2>1. /\ pc[t] = "returned" /\ pc'[t] = "idle"
        /\ result[t] \in Results
    BY <1>3 DEF Finish, Goto, TypeOK, ThreadTypeOK
  <2>2. /\ PlacementRequest(t) = NoCall /\ PlacementRequest(t)' = NoCall /\ AnswerOf(t)' = NoCall
        /\ AnswerOf(t) = NoCall \/ AnswerOf(t) = result[t]
    BY <2>1, PCsApart DEF PlacementRequest, AnswerOf
  <2>3. CASE AnswerOf(t) = NoCall BY <1>1, <2>2, <2>3, SeenAlike, Stutters
  <2>4. CASE AnswerOf(t) # NoCall
    <3>1. [u \in Threads |-> AnswerOf(u)'] = [[u \in Threads |-> AnswerOf(u)] EXCEPT ![t] = NoCall]
      BY <1>1, <2>2, SeenAlike
    <3>2. [u \in Threads |-> PlacementRequest(u)'] = [u \in Threads |-> PlacementRequest(u)]
      BY <1>1, <2>2, SeenAlike
    <3>3. Placement!Taken(t) BY <1>1, <2>4, <3>1, <3>2 DEF Placement!Taken, AnswerOf
    <3> QED BY <3>3 DEF Placement!Next
  <2> QED BY <2>3, <2>4
<1>4. CASE /\ pc[t] = "idle" /\ call'[t].op = "attach" /\ pc'[t] = "attach"
           /\ call'[t].disk \in Disks /\ call'[t].node \in Nodes
  <2>1. PlacementRequest(t)' = [op |-> "attach", disk |-> call'[t].disk, node |-> call'[t].node]
    BY <1>4 DEF PlacementRequest, AttachPC, Disk, Node
  <2>2. Placement!Request(t, "attach", call'[t].disk, call'[t].node) BY <1>2, <1>4, <2>1
  <2> QED BY <1>4, <2>2 DEF Placement!Next
<1>5. CASE /\ pc[t] = "idle" /\ call'[t].op = "detach" /\ pc'[t] \in {"detach", "waitManagedBy"}
           /\ call'[t].disk \in Disks /\ call'[t].node \in Nodes
  <2>1. PlacementRequest(t)' = [op |-> "detach", disk |-> call'[t].disk, node |-> call'[t].node]
    BY <1>5, PCsApart DEF PlacementRequest, DetachPC, Disk, Node
  <2>2. Placement!Request(t, "detach", call'[t].disk, call'[t].node) BY <1>2, <1>5, <2>1
  <2> QED BY <1>5, <2>2 DEF Placement!Next
<1>6. CASE pc[t] = "idle" /\ call'[t].op = "delete" /\ pc'[t] = "delete"
  <2>1. PlacementRequest(t)' = PlacementRequest(t) /\ AnswerOf(t)' = AnswerOf(t)
    BY <1>6, PCsApart DEF PlacementRequest, AnswerOf, DeletePC
  <2> QED BY <1>1, <2>1, SeenAlike, Stutters
<1> QED BY <1>3, <1>4, <1>5, <1>6, CallMoves

(* A step of a request for attach or detach works on it or answers it.     *)
LEMMA Serving ==
  ASSUME PlacementInv, WaitForDetachDiskComplete, NEW t \in Threads,
         AttachStep(t) \/ DetachStep(t)
  PROVE [Placement!Next]_(Placement!vars)
<1>1. TypeOK BY DEF PlacementInv, RequestInv, UpdateInv, ListInv
<1>2. Frame(t) BY <1>1, AttachOutline, DetachOutline
<1>3. UNCHANGED <<vm, nodes>>
  BY <1>1, AttachOutline, DetachOutline DEF Plain, SetDiskLun, VMAttach, VMDetach, azure
<1>4. \/ Works(t, AttachPC) \/ Works(t, DetachPC)
      \/ UNCHANGED call /\ pc[t] \in AttachPC \ DetachPC /\ Answers(t, SawAttached(t))
      \/ UNCHANGED call /\ pc[t] \in DetachPC \ AttachPC /\ Answers(t, SawDetached(t))
  BY <1>1, AttachAnswers, DetachAnswers, PCsApart DEF Works
<1>5. CASE Works(t, AttachPC) \/ Works(t, DetachPC) BY <1>2, <1>3, <1>5, WorksStutters
<1>6. CASE ~(Works(t, AttachPC) \/ Works(t, DetachPC))
  <2>1. Placement!Answer(t, result'[t]) /\ result'[t] \in Placement!Answers
    BY <1>2, <1>3, <1>4, <1>6, Answering
  <2> QED BY <2>1 DEF Placement!Next, Placement!Answer
<1> QED BY <1>5, <1>6

LEMMA PlacementInit == Init => Placement!Init
<1> SUFFICES ASSUME Init PROVE Placement!Init OBVIOUS
<1>1. \A t \in Threads : PlacementRequest(t) = NoCall /\ AnswerOf(t) = NoCall
  BY PCsApart DEF Init, PlacementRequest, AnswerOf
<1>2. [t \in Threads |-> PlacementRequest(t)] = [t \in Threads |-> NoCall] BY <1>1
<1>3. [t \in Threads |-> AnswerOf(t)] = [t \in Threads |-> NoCall] BY <1>1
<1>4. [n \in Nodes |-> vm[n].lun] = [n \in Nodes |-> [d \in Disks |-> NoLun]] BY DEF Init, EmptyView
<1>5. [n \in Nodes |-> vm[n].tbd] = [n \in Nodes |-> {}] BY DEF Init, EmptyView
<1>6. nodes = Nodes BY DEF Init
<1> QED BY <1>2, <1>3, <1>4, <1>5, <1>6 DEF Placement!Init, AnswerOf

LEMMA PlacementStep ==
  ASSUME PlacementInv, WaitForDetachDiskComplete, [Next]_vars
  PROVE [Placement!Next]_(Placement!vars)
<1>1. TypeOK /\ CallServed BY DEF PlacementInv, RequestInv, UpdateInv, ListInv
<1>2. ASSUME NEW t \in Threads, ThreadStep(t) PROVE [Placement!Next]_(Placement!vars)
  <2>1. CASE CallStep(t) BY <1>1, <2>1, Calling
  <2>2. CASE AttachStep(t) \/ DetachStep(t) BY <2>2, Serving
  <2>3. CASE Lock(t)
    <3>1. Frame(t) /\ UNCHANGED <<vm, nodes>> BY <1>1, <2>3, CallOutline DEF Plain
    <3> QED BY <1>1, <2>3, <3>1, LockMoves, WorksStutters
  <2>4. CASE GetNodeVMSetFails(t)
    <3>1. Frame(t) /\ UNCHANGED <<vm, nodes>> BY <1>1, <2>4, CallOutline DEF Plain
    <3>2. pc[t] \in AttachPC \cup DetachPC /\ Answers(t, FALSE) /\ UNCHANGED call BY <1>1, <2>4, FailMoves
    <3>3. Answers(t, SawAttached(t)) /\ Answers(t, SawDetached(t)) BY <3>2 DEF Answers
    <3>4. Placement!Answer(t, result'[t]) /\ result'[t] \in Placement!Answers
      BY <3>1, <3>2, <3>3, Answering
    <3> QED BY <3>4 DEF Placement!Next, Placement!Answer
  <2>5. CASE DeleteStep(t)
    <3>1. Frame(t) /\ UNCHANGED <<vm, nodes>> BY <1>1, <2>5, CallOutline DEF Plain
    <3>2. pc[t] \in DeletePC /\ pc'[t] \in DeletePC \cup {"returned"} /\ UNCHANGED call
      BY <1>1, <2>5, DeleteMoves
    <3>3. CASE pc'[t] \in DeletePC BY <3>1, <3>2, <3>3, WorksStutters DEF Works
    <3>4. CASE pc'[t] = "returned" BY <1>1, <3>1, <3>2, <3>4, DeleteStutters
    <3> QED BY <3>2, <3>3, <3>4
  <2>6. CASE FilterNonExistingDisks(t)
    <3>1. AzureUpdate(t) /\ UNCHANGED <<vm, nodes>>
      BY <2>6 DEF AzureUpdate, FilterNonExistingDisks, azure
    <3> QED BY <1>1, <3>1, AzureOutline, LockMoves, WorksStutters
  <2>7. ASSUME NEW from \in SentPC, NEW to \in AcceptedPC, Accept(t, from, to),
               from = "attachSent" <=> to = "attachAccepted"
        PROVE [Placement!Next]_(Placement!vars)
    <3>1. PICK D, E \in SUBSET Disks : Placement!Update(Node(t), D, E) BY <2>7, Updating
    <3>2. pc[t] # "idle" BY <2>7 DEF Accept, SentPC
    <3>3. Node(t) \in Nodes BY <1>1, <3>2, ArgumentTypes
    <3> QED BY <3>1, <3>3 DEF Placement!Next
  <2>8. CASE AzureUpdate(t) BY <2>6, <2>7, <2>8 DEF AzureUpdate, SentPC, AcceptedPC
  <2> QED BY <1>2, <2>1, <2>2, <2>3, <2>4, <2>5, <2>8 DEF ThreadStep
<1>3. CASE UNCHANGED <<vm, nodes, pc, call, result>>
  <2>1. \A t \in Threads : PlacementRequest(t)' = PlacementRequest(t) /\ AnswerOf(t)' = AnswerOf(t)
    BY <1>3 DEF PlacementRequest, AnswerOf, Node, Disk
  <2> QED BY <1>3, <2>1, Stutters
<1>4. ASSUME NEW n \in Nodes, NodeStep(n) PROVE [Placement!Next]_(Placement!vars)
  <2>1. CASE DeleteVM(n)
    <3>1. Placement!VMDeleted(n) BY <1>1, <2>1, Deleting
    <3> QED BY <3>1 DEF Placement!Next
  <2>2. CASE ExpireCache(n) BY <1>3, <2>2 DEF ExpireCache, azure, local
  <2>3. ASSUME NEW d \in Disks, DetachCompletes(n, d) PROVE [Placement!Next]_(Placement!vars)
    <3>1. Placement!Leave(n, d) BY <1>1, <2>3, Leaving
    <3> QED BY <3>1 DEF Placement!Next
  <2> QED BY <1>4, <2>1, <2>2, <2>3 DEF NodeStep
<1>5. CASE Restart
  <2>1. Placement!Restart BY <1>5, Restarting
  <2> QED BY <2>1 DEF Placement!Next
<1>6. CASE UNCHANGED vars BY <1>3, <1>6 DEF vars, azure, local
<1> QED BY <1>2, <1>4, <1>5, <1>6 DEF Next

(* The controller implements DiskPlacement: batches, locks, caches, retries *)
(* and restarts never show, for any number of nodes, disks and requests.    *)
(* Detach must wait for ManagedBy to be cleared                             *)
(* (--wait-for-detach-disk-complete), or it answers early; the data disk    *)
(* count must be unchecked, or CountDisksFails leaves a disk in the queue   *)
(* that a later batch attaches for nobody.                                  *)
THEOREM ControllerKeepsPromise ==
  ~CheckDiskCountForBatching /\ WaitForDetachDiskComplete => (Spec => Promise)
<1> SUFFICES ASSUME ~CheckDiskCountForBatching, WaitForDetachDiskComplete PROVE Spec => Promise
  OBVIOUS
<1>1. PlacementInv /\ [Next]_vars => [Placement!Next]_(Placement!vars) BY PlacementStep
<1> QED BY <1>1, PlacementInit, PlacementInvInit, PlacementInvNext, PTL
   DEF Spec, Promise, Placement!Spec
=============================================================================
