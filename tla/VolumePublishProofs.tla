------------------------ MODULE VolumePublishProofs ------------------------
(***************************************************************************)
(* Proofs about VolumePublish: a published volume stays attached at its    *)
(* LUN, and no other disk is attached at a LUN in use on its node.         *)
(***************************************************************************)
EXTENDS VolumePublish, TLAPS, WellFoundedInduction

Calls == [pc : PCs, seen : Nodes \cup {NoNode, Unknown}, used : SUBSET LUNs, blind : BOOLEAN]

(* A call is under way only for an attachment that is asked for or being   *)
(* deleted, so the attachment is not made anew while it lasts.             *)
CallsServe ==
  \A a \in Attachments : call[a] # Idle => va[a] \in {"asked", "deleting"}

(* What is published is on the VM and in the cache, at its LUN.            *)
PublishedIsCached ==
  \A a \in Attachments : va[a] \in {"attached", "forgotten"} =>
    /\ valun[a] # NoLun
    /\ vm[NodeOf(a)][DiskOf(a)] = valun[a]
    /\ cache[NodeOf(a)][DiskOf(a)] = valun[a]

(* The cache is right about a disk it lists, unless the disk was taken     *)
(* away by hand or is being detached.                                      *)
ListedIsThere ==
  \A a \in Attachments :
    /\ va[a] \in {"none", "asked", "attached", "forgotten"}
    /\ cache[NodeOf(a)][DiskOf(a)] # NoLun
    => vm[NodeOf(a)][DiskOf(a)] = cache[NodeOf(a)][DiskOf(a)]

(* An update on its way keeps what is on its VM.                           *)
LateKeeps ==
  \A n \in Nodes : late[n] # NoUpdate =>
    \A d \in Disks : vm[n][d] # NoLun => late[n][d] = vm[n][d]

(* Before the first update is given up the cache lists all that is there.  *)
NothingLate ==
  lates = 0 => \A n \in Nodes :
    /\ late[n] = NoUpdate
    /\ \A d \in Disks : vm[n][d] # NoLun => cache[n][d] = vm[n][d]

(* A dangling detach is from another node, where the disk has no           *)
(* attachment; none is made there while the call lasts.                    *)
DanglesElsewhere ==
  \A a \in Attachments :
    /\ call[a].pc \in {"dangling", "detach"} => call[a].seen \in Nodes \ {NodeOf(a)}
    /\ call[a].pc = "detach" =>
         \A b \in Attachments : b = <<DiskOf(a), call[a].seen>> => va[b] = "none"

(* The LUN of a lost attachment is known, and a call that is not blind     *)
(* counts it among the occupied ones.                                      *)
LostIsCounted ==
  \A b \in Attachments : va[b] = "lost" =>
    /\ valun[b] # NoLun
    /\ \A a \in Attachments :
         NodeOf(a) = NodeOf(b) /\ call[a].pc \in {"nodeLuns", "attach"} /\ ~call[a].blind
           => valun[b] \in call[a].used

PublishInv ==
  /\ CallsServe /\ PublishedIsCached /\ ListedIsThere /\ LateKeeps
  /\ NothingLate /\ DanglesElsewhere /\ LostIsCounted

-----------------------------------------------------------------------------
(* An attachment is the pair of its disk and its node.                     *)
LEMMA PairOf ==
  ASSUME NEW a \in Attachments
  PROVE  DiskOf(a) \in Disks /\ NodeOf(a) \in Nodes /\ a = <<DiskOf(a), NodeOf(a)>>
BY AttachmentAssumption DEF DiskOf, NodeOf

(* Two attachments of one disk on one node are the same.                   *)
LEMMA PairsDiffer ==
  ASSUME NEW a \in Attachments, NEW b \in Attachments, a # b, NodeOf(a) = NodeOf(b)
  PROVE  DiskOf(a) # DiskOf(b)
BY PairOf

(* A set of LUNs that is not empty has a least one.                        *)
LEMMA FirstLun ==
  ASSUME NEW S, S \subseteq LUNs, S # {}
  PROVE  Min(S) \in S
<1>1. S \subseteq Nat
  BY BoundAssumption DEF LUNs
<1> DEFINE Less == {ss \in Nat \X Nat : ss[1] < ss[2]}
<1>2. IsWellFoundedOn(Less, Nat)
  BY NatLessThanWellFounded DEF OpToRel
<1> HIDE DEF Less
<1>3. PICK x \in S : \A y \in S : ~(<<y, x>> \in Less)
  BY <1>1, <1>2, WFMin
<1>4. \A y \in S : x =< y
  <2>1. SUFFICES ASSUME NEW y \in S, y < x PROVE FALSE
    BY <1>1
  <2>2. <<y, x>> \in Nat \X Nat /\ <<y, x>>[1] < <<y, x>>[2]
    BY <1>1, <2>1
  <2> QED
    BY <1>3, <2>2 DEF Less
<1> QED
  BY <1>4 DEF Min

(* The LUN an attach asks for is free, and its list is a data disk list.   *)
LEMMA AttachListTyped ==
  ASSUME TypeOK, NEW a \in Attachments, FreeLuns(a) # {}
  PROVE  /\ Min(FreeLuns(a)) \in FreeLuns(a)
         /\ AttachList(a) \in Lists
         /\ AttachList(a)[DiskOf(a)] = Min(FreeLuns(a))
         /\ \A d \in Disks \ {DiskOf(a)} : AttachList(a)[d] = cache[NodeOf(a)][d]
<1>1. Min(FreeLuns(a)) \in FreeLuns(a) /\ Min(FreeLuns(a)) \in LUNs
  BY FirstLun DEF FreeLuns
<1>2. cache[NodeOf(a)] \in Lists /\ DiskOf(a) \in Disks
  BY PairOf DEF TypeOK
<1> QED
  BY <1>1, <1>2 DEF AttachList, Lists

-----------------------------------------------------------------------------
(* Type correctness.                                                       *)
CloudTypes ==
  /\ vm \in [Nodes -> Lists] /\ cache \in [Nodes -> Lists]
  /\ late \in [Nodes -> Lists \cup {NoUpdate}]
  /\ lates \in 0 .. MaxLate

LEMMA CountedTypes ==
  ASSUME TypeOK, Failed \/ Answered
  PROVE  faults' \in 0 .. MaxFaults
BY BoundAssumption DEF TypeOK, Failed, Answered

LEMMA UpdatedTypes ==
  ASSUME TypeOK, NEW n \in Nodes, NEW list \in Lists, Updated(n, list)
  PROVE  CloudTypes'
BY DEF TypeOK, CloudTypes, Updated

LEMMA UpdateFailsTypes ==
  ASSUME TypeOK, NEW n \in Nodes, NEW list \in Lists, UpdateFails(n, list)
  PROVE  CloudTypes' /\ (Failed \/ Answered)
BY DEF TypeOK, CloudTypes, UpdateFails, azure

LEMMA UpdateGivenUpTypes ==
  ASSUME TypeOK, NEW n \in Nodes, NEW list \in Lists, UpdateGivenUp(n, list)
  PROVE  CloudTypes' /\ Failed
BY BoundAssumption DEF TypeOK, CloudTypes, UpdateGivenUp

LEMMA RefetchTypes ==
  ASSUME TypeOK, NEW n \in Nodes, cache' = [cache EXCEPT ![n] = vm[n]], UNCHANGED azure
  PROVE  CloudTypes'
BY DEF TypeOK, CloudTypes, azure

LEMMA SameTypes ==
  ASSUME TypeOK, UNCHANGED cache, UNCHANGED azure
  PROVE  CloudTypes'
BY DEF TypeOK, CloudTypes, azure

LEMMA DetachListTyped ==
  ASSUME TypeOK, NEW n \in Nodes, NEW d \in Disks
  PROVE  /\ [cache[n] EXCEPT ![d] = NoLun] \in Lists
         /\ [cache[n] EXCEPT ![d] = NoLun][d] = NoLun
         /\ \A e \in Disks \ {d} : [cache[n] EXCEPT ![d] = NoLun][e] = cache[n][e]
BY DEF TypeOK, Lists

LEMMA DetachTypes ==
  ASSUME TypeOK, NEW n \in Nodes, NEW d \in Disks,
         (Detached(d, n) /\ Answered) \/ DetachFails(d, n)
  PROVE  CloudTypes' /\ (Failed \/ Answered)
BY DetachListTyped, UpdatedTypes, UpdateFailsTypes, SameTypes DEF Detached, DetachFails

(* What the calls keep: idle ones, ended ones and ones that go on.         *)
LEMMA IdleTyped == Idle \in Calls
BY DEF Idle, Calls, PCs

LEMMA ReturnErrorTypes ==
  ASSUME TypeOK, NEW a \in Attachments, ReturnError(a)
  PROVE  va' = va /\ valun' = valun /\ call' \in [Attachments -> Calls]
BY IdleTyped DEF TypeOK, ReturnError, kube, Calls

LEMMA ReturnLunTypes ==
  ASSUME TypeOK, NEW a \in Attachments, NEW lun \in LUNs \cup {NoLun}, ReturnLun(a, lun)
  PROVE  /\ va' \in [Attachments -> VAStates] /\ valun' \in [Attachments -> LUNs \cup {NoLun}]
         /\ call' \in [Attachments -> Calls]
BY IdleTyped DEF TypeOK, ReturnLun, Calls, VAStates

LEMMA GotoTypes ==
  ASSUME TypeOK, NEW a \in Attachments, NEW label \in PCs, Goto(a, label)
  PROVE  va' = va /\ valun' = valun /\ call' \in [Attachments -> Calls]
BY DEF TypeOK, Goto, kube, Calls

(* The types of the next state from those of its parts.                    *)
LEMMA TypesCompose ==
  ASSUME CloudTypes', va' \in [Attachments -> VAStates], valun' \in [Attachments -> LUNs \cup {NoLun}],
         call' \in [Attachments -> Calls], lunThrottled' \in BOOLEAN, faults' \in 0 .. MaxFaults
  PROVE  TypeOK'
BY DEF TypeOK, CloudTypes, Calls

LEMMA PublishTypes ==
  ASSUME TypeOK, DanglesElsewhere, NEW a \in Attachments, PublishStep(a)
  PROVE  TypeOK'
<1> DEFINE n == NodeOf(a)
           d == DiskOf(a)
<1>0. /\ n \in Nodes /\ d \in Disks /\ call[a] \in Calls
      /\ va \in [Attachments -> VAStates] /\ valun \in [Attachments -> LUNs \cup {NoLun}]
      /\ call \in [Attachments -> Calls]
      /\ lunThrottled \in BOOLEAN /\ faults \in 0 .. MaxFaults
      /\ cache[n][d] \in LUNs \cup {NoLun} /\ vm[n][d] \in LUNs \cup {NoLun}
  BY PairOf DEF TypeOK, Calls, Lists
<1> HIDE DEF n, d
<1>1. CASE checkDiskExists(a)
  <2>1. DiskSeen(DiskOf(a)) \in Nodes \cup {NoNode, Unknown}
    BY DEF DiskSeen, ManagedBy
  <2>2. call' \in [Attachments -> Calls]
    BY <1>0, <1>1, <2>1 DEF checkDiskExists, Calls, PCs
  <2>3. (Failed \/ Answered) /\ UNCHANGED <<azure, cache, kube, lunThrottled>>
    BY <1>1 DEF checkDiskExists
  <2> QED
    BY <1>0, <2>2, <2>3, SameTypes, CountedTypes, TypesCompose DEF kube
<1>2. CASE AlreadyAttached(a)
  <2>1. (Failed \/ Answered) /\ UNCHANGED <<azure, lunThrottled>>
    BY <1>2 DEF AlreadyAttached
  <2>2. CloudTypes'
    BY <1>0, <1>2, RefetchTypes, SameTypes DEF AlreadyAttached, n
  <2>3. ReturnError(a) \/ ReturnLun(a, cache[n][d])
    BY <1>2 DEF AlreadyAttached, n, d
  <2> QED
    BY <1>0, <2>1, <2>2, <2>3, ReturnErrorTypes, ReturnLunTypes, CountedTypes, TypesCompose
<1>3. CASE GetDiskLun(a)
  <2>1. (Failed \/ Answered) /\ UNCHANGED <<azure, cache, lunThrottled>>
    BY <1>3 DEF GetDiskLun
  <2>2. ReturnError(a) \/ Goto(a, "occupied")
    BY <1>3 DEF GetDiskLun
  <2> QED
    BY <1>0, <2>1, <2>2, SameTypes, ReturnErrorTypes, GotoTypes, CountedTypes, TypesCompose DEF PCs
<1>4. CASE getUsedLunsFromVolumeAttachments(a)
  <2>1. VALuns(NodeOf(a)) \in SUBSET LUNs
    BY <1>0 DEF VALuns
  <2>2. call' \in [Attachments -> Calls]
    BY <1>0, <1>4, <2>1 DEF getUsedLunsFromVolumeAttachments, Calls, PCs
  <2>3. UNCHANGED <<azure, cache, kube, lunThrottled, faults>>
    BY <1>4 DEF getUsedLunsFromVolumeAttachments
  <2> QED
    BY <1>0, <2>2, <2>3, SameTypes, TypesCompose DEF kube
<1>5. CASE getUsedLunsFromNode(a)
  <2>1. PICK u, b : /\ call' = [call EXCEPT ![a].pc = "attach", ![a].used = u, ![a].blind = b]
                    /\ u \in SUBSET LUNs /\ b \in BOOLEAN
    <3>1. call' = [call EXCEPT ![a].pc = "attach", ![a].used = call[a].used \ UsedLuns(cache[NodeOf(a)]),
                    ![a].blind = call[a].blind \/ cache[NodeOf(a)] # vm[NodeOf(a)] \/ LunShared(NodeOf(a))]
      BY <1>0, <1>5 DEF getUsedLunsFromNode
    <3>2. call[a].used \ UsedLuns(cache[NodeOf(a)]) \in SUBSET LUNs
      BY <1>0 DEF Calls
    <3> QED
      BY <3>1, <3>2
  <2>2. call' \in [Attachments -> Calls]
    BY <1>0, <2>1 DEF Calls, PCs
  <2>3. /\ (Failed \/ Answered) /\ UNCHANGED <<azure, cache, kube>>
        /\ lunThrottled' \in BOOLEAN
    BY <1>0, <1>5 DEF getUsedLunsFromNode
  <2> QED
    BY <1>0, <2>2, <2>3, SameTypes, CountedTypes, TypesCompose DEF kube
<1>6. CASE NoOccupiedLuns(a)
  <2>1. call' \in [Attachments -> Calls]
    BY <1>0, <1>6 DEF NoOccupiedLuns, Calls, PCs
  <2>2. (Failed \/ Answered) /\ UNCHANGED <<azure, cache, kube, lunThrottled>>
    BY <1>6 DEF NoOccupiedLuns
  <2> QED
    BY <1>0, <2>1, <2>2, SameTypes, CountedTypes, TypesCompose DEF kube
<1>7. CASE AttachedHere(a)
  <2>1. (Failed \/ Answered) /\ UNCHANGED <<azure, lunThrottled>> /\ cache' = [cache EXCEPT ![n] = vm[n]]
    BY <1>7 DEF AttachedHere, n
  <2>2. ReturnError(a) \/ ReturnLun(a, vm[n][d])
    BY <1>7 DEF AttachedHere, n, d
  <2> QED
    BY <1>0, <2>1, <2>2, RefetchTypes, ReturnErrorTypes, ReturnLunTypes, CountedTypes, TypesCompose
<1>8. CASE DanglingAttach(a)
  BY <1>0, <1>8, SameTypes, GotoTypes, TypesCompose DEF DanglingAttach, PCs
<1>9. CASE AttachDisk(a)
  <2>1. AttachList(a) \in Lists /\ AttachList(a)[DiskOf(a)] \in LUNs
    BY <1>9, AttachListTyped DEF AttachDisk, FreeLuns
  <2>2. UNCHANGED lunThrottled
    BY <1>9 DEF AttachDisk
  <2>3. CASE Updated(n, AttachList(a)) /\ ReturnLun(a, AttachList(a)[DiskOf(a)]) /\ Answered
    BY <1>0, <2>1, <2>2, <2>3, UpdatedTypes, ReturnLunTypes, CountedTypes, TypesCompose
  <2>4. CASE (UpdateFails(n, AttachList(a)) \/ UpdateGivenUp(n, AttachList(a))) /\ ReturnError(a)
    BY <1>0, <2>1, <2>2, <2>4, UpdateFailsTypes, UpdateGivenUpTypes, ReturnErrorTypes, CountedTypes, TypesCompose
  <2> QED
    BY <1>9, <2>3, <2>4 DEF AttachDisk, n
<1>10. CASE AttachImpossible(a)
  BY <1>0, <1>10, SameTypes, ReturnErrorTypes, TypesCompose DEF AttachImpossible
<1>11. CASE RefuseDanglingDetach(a)
  <2>1. /\ (Failed \/ Answered) /\ UNCHANGED <<azure, cache, lunThrottled>>
        /\ ReturnError(a) \/ Goto(a, "detach")
    BY <1>11 DEF RefuseDanglingDetach
  <2> QED
    BY <1>0, <2>1, SameTypes, ReturnErrorTypes, GotoTypes, CountedTypes, TypesCompose DEF PCs
<1>12. CASE DetachDangling(a)
  <2>1. call[a].seen \in Nodes
    BY <1>12 DEF DetachDangling, DanglesElsewhere
  <2>2. CloudTypes' /\ (Failed \/ Answered)
    BY <1>0, <1>12, <2>1, DetachTypes DEF DetachDangling, d
  <2>3. ReturnError(a) /\ UNCHANGED lunThrottled
    BY <1>12 DEF DetachDangling
  <2> QED
    BY <1>0, <2>2, <2>3, ReturnErrorTypes, CountedTypes, TypesCompose
<1> QED
  BY <1>1, <1>2, <1>3, <1>4, <1>5, <1>6, <1>7, <1>8, <1>9, <1>10, <1>11, <1>12 DEF PublishStep

LEMMA AttachmentTypes ==
  ASSUME TypeOK, NEW a \in Attachments,
         ControllerUnpublishVolume(a) \/ Ask(a) \/ Forget(a) \/ Release(a) \/ RemoveByHand(a)
  PROVE  TypeOK'
<1> DEFINE n == NodeOf(a)
           d == DiskOf(a)
<1>0. /\ n \in Nodes /\ d \in Disks
      /\ va \in [Attachments -> VAStates] /\ valun \in [Attachments -> LUNs \cup {NoLun}]
      /\ call \in [Attachments -> Calls]
      /\ lunThrottled \in BOOLEAN /\ faults \in 0 .. MaxFaults
  BY PairOf DEF TypeOK, Calls
<1> HIDE DEF n, d
<1>1. CASE ControllerUnpublishVolume(a)
  <2>1. CloudTypes' /\ (Failed \/ Answered)
    BY <1>0, <1>1, DetachTypes DEF ControllerUnpublishVolume, n, d
  <2>2. UNCHANGED <<lunThrottled, call>>
    BY <1>1 DEF ControllerUnpublishVolume
  <2>3. va' \in [Attachments -> VAStates] /\ valun' \in [Attachments -> LUNs \cup {NoLun}]
    BY <1>0, <1>1 DEF ControllerUnpublishVolume, kube, VAStates
  <2> QED
    BY <1>0, <2>1, <2>2, <2>3, CountedTypes, TypesCompose
<1>2. CASE Ask(a) \/ Forget(a) \/ Release(a)
  <2>1. /\ UNCHANGED <<azure, cache, valun, call, lunThrottled>>
        /\ faults' \in 0 .. MaxFaults
    BY <1>0, <1>2, CountedTypes DEF Ask, Forget, Release
  <2>2. va' \in [Attachments -> VAStates]
    BY <1>0, <1>2 DEF Ask, Forget, Release, VAStates
  <2> QED
    BY <1>0, <2>1, <2>2, SameTypes, TypesCompose
<1>3. CASE RemoveByHand(a)
  <2>1. /\ UNCHANGED <<late, lates, cache, valun, lunThrottled>>
        /\ faults' \in 0 .. MaxFaults
    BY <1>3, CountedTypes DEF RemoveByHand
  <2>2. va' \in [Attachments -> VAStates]
    BY <1>0, <1>3 DEF RemoveByHand, VAStates
  <2>3. call' \in [Attachments -> Calls]
    BY <1>0, <1>3 DEF RemoveByHand, Calls
  <2>4. vm' \in [Nodes -> Lists]
    BY <1>0, <1>3 DEF RemoveByHand, TypeOK, Lists, n, d
  <2>5. CloudTypes'
    BY <2>1, <2>4 DEF TypeOK, CloudTypes
  <2> QED
    BY <1>0, <2>1, <2>2, <2>3, <2>5, TypesCompose
<1> QED
  BY <1>1, <1>2, <1>3

LEMMA BackgroundTypes ==
  ASSUME TypeOK, (\E n \in Nodes : LateUpdate(n) \/ CacheExpires(n)) \/ ThrottlingExpires \/ Restart
  PROVE  TypeOK'
<1>0. /\ va \in [Attachments -> VAStates] /\ valun \in [Attachments -> LUNs \cup {NoLun}]
      /\ call \in [Attachments -> Calls]
      /\ lunThrottled \in BOOLEAN /\ faults \in 0 .. MaxFaults
  BY DEF TypeOK, Calls
<1>1. ASSUME NEW n \in Nodes, LateUpdate(n) PROVE TypeOK'
  <2>1. UNCHANGED <<kube, call, lunThrottled, faults>>
    BY <1>1 DEF LateUpdate
  <2>2. CloudTypes'
    BY <1>1 DEF LateUpdate, TypeOK, CloudTypes
  <2> QED
    BY <1>0, <2>1, <2>2, TypesCompose DEF kube
<1>2. ASSUME NEW n \in Nodes, CacheExpires(n) PROVE TypeOK'
  BY <1>0, <1>2, RefetchTypes, TypesCompose DEF CacheExpires, kube
<1>3. CASE ThrottlingExpires
  BY <1>0, <1>3, SameTypes, TypesCompose DEF ThrottlingExpires, kube
<1>4. CASE Restart
  <2>1. CloudTypes'
    BY <1>4 DEF Restart, TypeOK, CloudTypes, azure
  <2>2. call' \in [Attachments -> Calls]
    BY <1>4, IdleTyped DEF Restart
  <2>3. UNCHANGED kube /\ lunThrottled' \in BOOLEAN /\ faults' \in 0 .. MaxFaults
    BY <1>4, CountedTypes DEF Restart
  <2> QED
    BY <1>0, <2>1, <2>2, <2>3, TypesCompose DEF kube
<1> QED
  BY <1>1, <1>2, <1>3, <1>4

(* From a typed state where dangling detaches name a node, every step      *)
(* leads to a typed one.                                                   *)
LEMMA TypeStep ==
  ASSUME TypeOK, DanglesElsewhere, Next
  PROVE  TypeOK'
BY PublishTypes, AttachmentTypes, BackgroundTypes DEF Next

-----------------------------------------------------------------------------
(* What an update keeps. A step of the cloud is good if the VMs and the    *)
(* cache it leaves agree with the attachments as they were.                *)
GoodStep ==
  /\ \A b \in Attachments : va[b] \in {"attached", "forgotten"} =>
       /\ vm'[NodeOf(b)][DiskOf(b)] = valun[b]
       /\ cache'[NodeOf(b)][DiskOf(b)] = valun[b]
  /\ \A b \in Attachments :
       /\ va[b] \in {"none", "asked", "attached", "forgotten"}
       /\ cache'[NodeOf(b)][DiskOf(b)] # NoLun
       => vm'[NodeOf(b)][DiskOf(b)] = cache'[NodeOf(b)][DiskOf(b)]
  /\ LateKeeps' /\ NothingLate'

(* A list that leaves the published disks of a node where they are.        *)
KeepsPublished(n, list) ==
  \A b \in Attachments : va[b] \in {"attached", "forgotten"} /\ NodeOf(b) = n => list[DiskOf(b)] = valun[b]

LEMMA SameIsGood ==
  ASSUME PublishInv, UNCHANGED azure, UNCHANGED cache
  PROVE  GoodStep
BY DEF PublishInv, PublishedIsCached, ListedIsThere, LateKeeps, NothingLate, GoodStep, azure

LEMMA RefetchIsGood ==
  ASSUME TypeOK, PublishInv, NEW n \in Nodes, cache' = [cache EXCEPT ![n] = vm[n]], UNCHANGED azure
  PROVE  GoodStep
<1>1. \A m \in Nodes : cache'[m] = IF m = n THEN vm[m] ELSE cache[m]
  BY DEF TypeOK
<1>2. vm' = vm /\ late' = late /\ lates' = lates
  BY DEF azure
<1> QED
  BY <1>1, <1>2, PairOf DEF PublishInv, PublishedIsCached, ListedIsThere, LateKeeps, NothingLate, GoodStep

LEMMA AcceptedIsGood ==
  ASSUME TypeOK, PublishInv, NEW n \in Nodes, NEW list \in Lists, KeepsPublished(n, list),
         vm' = [vm EXCEPT ![n] = list], cache' = [cache EXCEPT ![n] = list],
         late' = [late EXCEPT ![n] = NoUpdate], lates' = lates
  PROVE  GoodStep
<1>1. \A m \in Nodes : /\ cache'[m] = IF m = n THEN list ELSE cache[m]
                       /\ vm'[m] = IF m = n THEN list ELSE vm[m]
                       /\ late'[m] = IF m = n THEN NoUpdate ELSE late[m]
  BY DEF TypeOK
<1> QED
  BY <1>1, PairOf DEF PublishInv, PublishedIsCached, ListedIsThere, LateKeeps, NothingLate, GoodStep, KeepsPublished

LEMMA UpdatedIsGood ==
  ASSUME TypeOK, PublishInv, NEW n \in Nodes, NEW list \in Lists, KeepsPublished(n, list), Updated(n, list)
  PROVE  GoodStep
BY AcceptedIsGood DEF Updated

LEMMA UpdateFailsIsGood ==
  ASSUME TypeOK, PublishInv, NEW n \in Nodes, NEW list \in Lists, KeepsPublished(n, list), UpdateFails(n, list)
  PROVE  GoodStep
<1>1. CASE UNCHANGED azure
  BY <1>1, RefetchIsGood DEF UpdateFails, azure
<1>2. CASE /\ vm' = [vm EXCEPT ![n] = list]
           /\ late' = [late EXCEPT ![n] = NoUpdate] /\ UNCHANGED lates
  <2>1. vm'[n] = list
    BY <1>2 DEF TypeOK
  <2> QED
    BY <1>2, <2>1, AcceptedIsGood DEF UpdateFails
<1> QED
  BY <1>1, <1>2 DEF UpdateFails

(* The first update that is given up was made from a cache that listed all *)
(* that is there.                                                          *)
LEMMA GivenUpIsGood ==
  ASSUME TypeOK, PublishInv, MaxLate =< 1, NEW a \in Attachments, FreeLuns(a) # {},
         cache[NodeOf(a)][DiskOf(a)] = NoLun, UpdateGivenUp(NodeOf(a), AttachList(a))
  PROVE  GoodStep
<1> DEFINE n == NodeOf(a)
<1>1. n \in Nodes /\ DiskOf(a) \in Disks
  BY PairOf
<1>2. lates = 0 /\ lates' = 1
  BY BoundAssumption DEF UpdateGivenUp, TypeOK
<1>3. \A e \in Disks : vm[n][e] # NoLun => AttachList(a)[e] = vm[n][e]
  <2> SUFFICES ASSUME NEW e \in Disks, vm[n][e] # NoLun PROVE AttachList(a)[e] = vm[n][e]
    OBVIOUS
  <2>1. cache[n][e] = vm[n][e]
    BY <1>1, <1>2 DEF PublishInv, NothingLate
  <2> QED
    BY <2>1, AttachListTyped
<1>4. /\ vm' = vm /\ late' = [late EXCEPT ![n] = AttachList(a)]
      /\ cache' = [cache EXCEPT ![n] = vm[n]]
  BY DEF UpdateGivenUp
<1> HIDE DEF n
<1>5. \A m \in Nodes : /\ cache'[m] = IF m = n THEN vm[m] ELSE cache[m]
                       /\ late'[m] = IF m = n THEN AttachList(a) ELSE late[m]
  BY <1>1, <1>4 DEF TypeOK
<1>6. LateKeeps'
  BY <1>3, <1>4, <1>5 DEF PublishInv, LateKeeps
<1>7. NothingLate'
  BY <1>2 DEF NothingLate
<1> QED
  BY <1>4, <1>5, <1>6, <1>7, PairOf DEF PublishInv, PublishedIsCached, ListedIsThere, GoodStep

(* The lists the driver sends keep the published disks.                    *)
LEMMA AttachKeeps ==
  ASSUME TypeOK, PublishInv, NEW a \in Attachments, FreeLuns(a) # {}, cache[NodeOf(a)][DiskOf(a)] = NoLun
  PROVE  KeepsPublished(NodeOf(a), AttachList(a))
<1> SUFFICES ASSUME NEW b \in Attachments, va[b] \in {"attached", "forgotten"}, NodeOf(b) = NodeOf(a)
             PROVE  AttachList(a)[DiskOf(b)] = valun[b]
  BY DEF KeepsPublished
<1>1. cache[NodeOf(b)][DiskOf(b)] = valun[b] /\ valun[b] # NoLun
  BY DEF PublishInv, PublishedIsCached
<1>2. DiskOf(b) \in Disks \ {DiskOf(a)}
  BY <1>1, PairOf
<1> QED
  BY <1>1, <1>2, AttachListTyped

LEMMA DetachIsGood ==
  ASSUME TypeOK, PublishInv, NEW n \in Nodes, NEW d \in Disks,
         Detached(d, n) \/ DetachFails(d, n),
         \A b \in Attachments : DiskOf(b) = d /\ NodeOf(b) = n => va[b] \notin {"attached", "forgotten"}
  PROVE  GoodStep /\ (Detached(d, n) => cache'[n][d] = NoLun)
<1> DEFINE list == [cache[n] EXCEPT ![d] = NoLun]
<1>1. list \in Lists /\ list[d] = NoLun /\ \A e \in Disks \ {d} : list[e] = cache[n][e]
  BY DetachListTyped
<1> HIDE DEF list
<1>2. KeepsPublished(n, list)
  BY <1>1, PairOf DEF PublishInv, PublishedIsCached, KeepsPublished
<1>3. CASE Updated(n, list)
  <2>1. cache'[n] = list
    BY <1>3 DEF Updated, TypeOK
  <2> QED
    BY <1>1, <1>2, <1>3, <2>1, UpdatedIsGood
<1>4. CASE UNCHANGED <<azure, cache>> /\ cache[n][d] = NoLun
  BY <1>4, SameIsGood
<1>5. CASE UpdateFails(n, list) /\ cache[n][d] # NoLun
  <2>1. GoodStep
    BY <1>1, <1>2, <1>5, UpdateFailsIsGood
  <2>2. CASE Detached(d, n)
    BY <1>3, <1>5, <2>2 DEF Detached, list
  <2> QED
    BY <2>1, <2>2
<1> QED
  BY <1>3, <1>4, <1>5 DEF Detached, DetachFails, list

LEMMA LateIsGood ==
  ASSUME TypeOK, PublishInv, NEW n \in Nodes, LateUpdate(n)
  PROVE  GoodStep
<1>1. \A m \in Nodes : /\ late'[m] = IF m = n THEN NoUpdate ELSE late[m]
                       /\ vm'[m] = IF m = n /\ Acceptable(n, late[n]) THEN late[m] ELSE vm[m]
  BY DEF TypeOK, LateUpdate
<1>2. cache' = cache /\ lates' = lates /\ late[n] # NoUpdate /\ lates # 0
  BY DEF LateUpdate, PublishInv, NothingLate
<1>3. \A b \in Attachments : vm[NodeOf(b)][DiskOf(b)] # NoLun =>
        vm'[NodeOf(b)][DiskOf(b)] = vm[NodeOf(b)][DiskOf(b)]
  BY <1>1, <1>2, PairOf DEF PublishInv, LateKeeps
<1>4. LateKeeps' /\ NothingLate'
  BY <1>1, <1>2 DEF PublishInv, LateKeeps, NothingLate
<1> QED
  BY <1>2, <1>3, <1>4 DEF PublishInv, PublishedIsCached, ListedIsThere, GoodStep

-----------------------------------------------------------------------------
(* What a step of a call keeps, given a good step of the cloud.            *)
LEMMA GoodAndSame ==
  ASSUME PublishInv, GoodStep, va' = va, valun' = valun
  PROVE  PublishedIsCached' /\ ListedIsThere' /\ LateKeeps' /\ NothingLate'
BY DEF PublishInv, PublishedIsCached, ListedIsThere, GoodStep

LEMMA CallStepKeeps ==
  ASSUME TypeOK, PublishInv, GoodStep, va' = va, valun' = valun,
         NEW a \in Attachments, NEW c \in Calls, call' = [call EXCEPT ![a] = c],
         c # Idle => va[a] \in {"asked", "deleting"},
         c.pc \in {"dangling", "detach"} => c.seen \in Nodes \ {NodeOf(a)},
         c.pc = "detach" => \A b \in Attachments : b = <<DiskOf(a), c.seen>> => va[b] = "none",
         c.pc \in {"nodeLuns", "attach"} /\ ~c.blind =>
           \A b \in Attachments : va[b] = "lost" /\ NodeOf(b) = NodeOf(a) => valun[b] \in c.used
  PROVE  PublishInv'
<1>1. \A b \in Attachments : call'[b] = IF b = a THEN c ELSE call[b]
  BY DEF TypeOK
<1>2. CallsServe'
  BY <1>1 DEF PublishInv, CallsServe
<1>3. DanglesElsewhere'
  BY <1>1 DEF PublishInv, DanglesElsewhere
<1>4. LostIsCounted'
  BY <1>1 DEF PublishInv, LostIsCounted
<1> QED
  BY <1>2, <1>3, <1>4, GoodAndSame DEF PublishInv

LEMMA ReturnErrorKeeps ==
  ASSUME TypeOK, PublishInv, GoodStep, NEW a \in Attachments, ReturnError(a)
  PROVE  PublishInv'
<1>1. va' = va /\ valun' = valun /\ call' = [call EXCEPT ![a] = Idle] /\ Idle.pc = "idle"
  BY DEF ReturnError, kube, Idle
<1> QED
  BY <1>1, IdleTyped, CallStepKeeps

LEMMA ReturnLunKeeps ==
  ASSUME TypeOK, PublishInv, GoodStep, NEW a \in Attachments, call[a] # Idle,
         NEW lun \in LUNs \cup {NoLun}, lun # NoLun, ReturnLun(a, lun),
         va[a] = "asked" => vm'[NodeOf(a)][DiskOf(a)] = lun /\ cache'[NodeOf(a)][DiskOf(a)] = lun
  PROVE  PublishInv'
<1>1. va[a] \in {"asked", "deleting"}
  BY DEF PublishInv, CallsServe
<1>2. \A b \in Attachments : /\ call'[b] = IF b = a THEN Idle ELSE call[b]
                             /\ valun'[b] = IF b = a THEN lun ELSE valun[b]
                             /\ b # a => va'[b] = va[b]
      /\ va'[a] = IF va[a] = "asked" THEN "attached" ELSE va[a]
  BY DEF ReturnLun, TypeOK
<1>3. Idle.pc = "idle"
  BY DEF Idle
<1>4. CallsServe'
  BY <1>2 DEF PublishInv, CallsServe
<1>5. PublishedIsCached'
  BY <1>1, <1>2 DEF PublishInv, PublishedIsCached, GoodStep
<1>6. ListedIsThere'
  BY <1>1, <1>2 DEF GoodStep, ListedIsThere
<1>7. DanglesElsewhere'
  BY <1>1, <1>2, <1>3 DEF PublishInv, DanglesElsewhere
<1>8. LostIsCounted'
  BY <1>1, <1>2, <1>3 DEF PublishInv, LostIsCounted
<1> QED
  BY <1>4, <1>5, <1>6, <1>7, <1>8 DEF PublishInv, GoodStep

(* A call that is under way serves its attachment.                         *)
LEMMA NotIdle ==
  ASSUME PublishInv, NEW a \in Attachments, call[a].pc # "idle"
  PROVE  call[a] # Idle /\ va[a] \in {"asked", "deleting"}
BY DEF PublishInv, CallsServe, Idle

LEMMA GotoKeeps ==
  ASSUME TypeOK, PublishInv, UNCHANGED azure, UNCHANGED cache,
         NEW a \in Attachments, call[a].pc # "idle", NEW label \in PCs, Goto(a, label),
         label \in {"dangling", "detach"} => call[a].seen \in Nodes \ {NodeOf(a)},
         label = "detach" => \A b \in Attachments : b = <<DiskOf(a), call[a].seen>> => va[b] = "none",
         label \notin {"nodeLuns", "attach"}
  PROVE  PublishInv'
<1> DEFINE c == [call[a] EXCEPT !.pc = label]
<1>1. c \in Calls /\ c.pc = label /\ c.seen = call[a].seen
  BY DEF TypeOK, Calls
<1>2. call' = [call EXCEPT ![a] = c] /\ va' = va /\ valun' = valun
  BY DEF Goto, kube
<1> HIDE DEF c
<1> QED
  BY <1>1, <1>2, NotIdle, SameIsGood, CallStepKeeps

-----------------------------------------------------------------------------
(* Every step keeps the invariant.                                         *)
LEMMA PublishKeeps ==
  ASSUME TypeOK, PublishInv, MaxLate =< 1, NEW a \in Attachments, PublishStep(a)
  PROVE  PublishInv'
<1> DEFINE n == NodeOf(a)
           d == DiskOf(a)
<1>0. /\ n \in Nodes /\ d \in Disks /\ call[a] \in Calls /\ call \in [Attachments -> Calls]
      /\ cache[n][d] \in LUNs \cup {NoLun} /\ vm[n][d] \in LUNs \cup {NoLun}
  BY PairOf DEF TypeOK, Calls, Lists
<1> HIDE DEF n, d
<1>1. CASE checkDiskExists(a)
  <2>1. va[a] = "asked" /\ call[a] = Idle /\ va' = va /\ valun' = valun /\ UNCHANGED <<azure, cache>>
    BY <1>1 DEF checkDiskExists, kube
  <2>2. DiskSeen(DiskOf(a)) \in Nodes \cup {NoNode, Unknown}
    BY DEF DiskSeen, ManagedBy
  <2>3. PICK c \in Calls : call' = [call EXCEPT ![a] = c] /\ c.pc \in {"idle", "getLun"}
    <3>1. CASE call' = [call EXCEPT ![a].pc = "getLun", ![a].seen = DiskSeen(DiskOf(a))]
      <4>1. [call[a] EXCEPT !.pc = "getLun", !.seen = DiskSeen(DiskOf(a))] \in Calls
        BY <1>0, <2>2 DEF Calls, PCs
      <4>2. call' = [call EXCEPT ![a] = [call[a] EXCEPT !.pc = "getLun", !.seen = DiskSeen(DiskOf(a))]]
        BY <1>0, <3>1
      <4>3. [call[a] EXCEPT !.pc = "getLun", !.seen = DiskSeen(DiskOf(a))].pc = "getLun"
        BY <1>0 DEF Calls
      <4> QED
        BY <4>1, <4>2, <4>3
    <3>2. CASE call' = [call EXCEPT ![a].pc = "getLun"]
      <4>1. [call[a] EXCEPT !.pc = "getLun"] \in Calls /\ [call[a] EXCEPT !.pc = "getLun"].pc = "getLun"
        BY <1>0 DEF Calls, PCs
      <4> QED
        BY <3>2, <4>1
    <3>3. CASE call' = call
      BY <1>0, <2>1, <3>3, IdleTyped DEF Idle
    <3> QED
      BY <1>1, <3>1, <3>2, <3>3 DEF checkDiskExists
  <2> QED
    BY <2>1, <2>3, SameIsGood, CallStepKeeps
<1>2. CASE AlreadyAttached(a)
  <2>1. call[a].pc = "getLun" /\ cache[n][d] # NoLun
    BY <1>2 DEF AlreadyAttached, n, d
  <2>2. GoodStep
    BY <1>0, <1>2, RefetchIsGood, SameIsGood DEF AlreadyAttached, n
  <2>3. CASE ReturnError(a)
    BY <2>2, <2>3, ReturnErrorKeeps
  <2>4. CASE ReturnLun(a, cache[n][d])
    <3>1. va[a] = "asked" => vm[n][d] = cache[n][d]
      BY <2>1 DEF PublishInv, ListedIsThere, n, d
    <3>2. vm' = vm /\ (cache' = cache \/ cache' = [cache EXCEPT ![n] = vm[n]])
      BY <1>2 DEF AlreadyAttached, azure, n
    <3>3. va[a] = "asked" => vm'[n][d] = cache[n][d] /\ cache'[n][d] = cache[n][d]
      BY <1>0, <3>1, <3>2 DEF TypeOK
    <3> QED
      BY <1>0, <2>1, <2>2, <2>4, <3>3, NotIdle, ReturnLunKeeps DEF n, d
  <2> QED
    BY <1>2, <2>3, <2>4 DEF AlreadyAttached, n, d
<1>3. CASE GetDiskLun(a)
  <2>1. call[a].pc = "getLun" /\ UNCHANGED <<azure, cache>> /\ (ReturnError(a) \/ Goto(a, "occupied"))
    BY <1>3 DEF GetDiskLun
  <2> QED
    BY <2>1, SameIsGood, ReturnErrorKeeps, GotoKeeps DEF PCs
<1>4. CASE getUsedLunsFromVolumeAttachments(a)
  <2> DEFINE c == [call[a] EXCEPT !.pc = "nodeLuns", !.used = VALuns(n)]
  <2>1. VALuns(n) \in SUBSET LUNs
    BY DEF VALuns, TypeOK
  <2>2. c \in Calls /\ c.pc = "nodeLuns" /\ c.used = VALuns(n)
    BY <1>0, <2>1 DEF Calls, PCs
  <2>3. /\ call[a].pc = "occupied" /\ call' = [call EXCEPT ![a] = c]
        /\ va' = va /\ valun' = valun /\ UNCHANGED <<azure, cache>>
    BY <1>0, <1>4 DEF getUsedLunsFromVolumeAttachments, kube, n
  <2> HIDE DEF c
  <2>4. \A b \in Attachments : va[b] = "lost" /\ NodeOf(b) = NodeOf(a) => valun[b] \in c.used
    BY <2>2 DEF PublishInv, LostIsCounted, VALuns, n
  <2> QED
    BY <2>2, <2>3, <2>4, NotIdle, SameIsGood, CallStepKeeps
<1>5. CASE getUsedLunsFromNode(a)
  <2> DEFINE u == call[a].used \ UsedLuns(cache[n])
             k == call[a].blind \/ cache[n] # vm[n] \/ LunShared(n)
             c == [call[a] EXCEPT !.pc = "attach", !.used = u, !.blind = k]
  <2>1. /\ call[a].pc = "nodeLuns" /\ call' = [call EXCEPT ![a] = c]
        /\ va' = va /\ valun' = valun /\ UNCHANGED <<azure, cache>>
    BY <1>0, <1>5 DEF getUsedLunsFromNode, kube, n
  <2>2. u \in SUBSET LUNs /\ k \in BOOLEAN
    BY <1>0 DEF Calls
  <2> HIDE DEF u, k
  <2>3. c \in Calls /\ c.pc = "attach" /\ c.used = u /\ c.blind = k
    BY <1>0, <2>2 DEF Calls, PCs
  <2> HIDE DEF c
  <2>4. ASSUME ~k, NEW b \in Attachments, va[b] = "lost", NodeOf(b) = NodeOf(a)
        PROVE  valun[b] \in u
    <3>1. ~call[a].blind /\ cache[n] = vm[n] /\ ~LunShared(n)
      BY <2>4 DEF k
    <3>2. valun[b] \in call[a].used
      BY <2>1, <2>4, <3>1 DEF PublishInv, LostIsCounted
    <3>3. valun[b] \notin UsedLuns(vm[n])
      BY <2>4, <3>1 DEF LunShared, n
    <3> QED
      BY <3>1, <3>2, <3>3 DEF u
  <2> QED
    BY <2>1, <2>3, <2>4, NotIdle, SameIsGood, CallStepKeeps
<1>6. CASE NoOccupiedLuns(a)
  <2> DEFINE c == [call[a] EXCEPT !.pc = "attach", !.used = {}, !.blind = TRUE]
  <2>1. c \in Calls /\ c.pc = "attach" /\ c.blind
    BY <1>0 DEF Calls, PCs
  <2>2. /\ call[a].pc # "idle" /\ call' = [call EXCEPT ![a] = c]
        /\ va' = va /\ valun' = valun /\ UNCHANGED <<azure, cache>>
    BY <1>0, <1>6 DEF NoOccupiedLuns, kube
  <2> HIDE DEF c
  <2> QED
    BY <2>1, <2>2, NotIdle, SameIsGood, CallStepKeeps
<1>7. CASE AttachedHere(a)
  <2>1. /\ call[a].pc = "attach" /\ UNCHANGED azure /\ cache' = [cache EXCEPT ![n] = vm[n]]
        /\ ReturnError(a) \/ (vm[n][d] # NoLun /\ ReturnLun(a, vm[n][d]))
    BY <1>7 DEF AttachedHere, n, d
  <2>2. GoodStep
    BY <1>0, <2>1, RefetchIsGood
  <2>3. vm'[n][d] = vm[n][d] /\ cache'[n][d] = vm[n][d]
    BY <1>0, <2>1 DEF azure, TypeOK
  <2> QED
    BY <1>0, <2>1, <2>2, <2>3, NotIdle, ReturnErrorKeeps, ReturnLunKeeps DEF n, d
<1>8. CASE DanglingAttach(a)
  BY <1>8, GotoKeeps DEF DanglingAttach, PCs
<1>9. CASE AttachDisk(a)
  <2> DEFINE lun == AttachList(a)[d]
  <2>1. /\ call[a].pc = "attach" /\ cache[n][d] = NoLun /\ FreeLuns(a) # {}
    BY <1>9 DEF AttachDisk, n, d
  <2>2. AttachList(a) \in Lists /\ lun \in LUNs /\ lun # NoLun
    <3>1. AttachList(a) \in Lists /\ lun \in LUNs
      BY <2>1, AttachListTyped DEF FreeLuns, d
    <3> HIDE DEF lun
    <3> QED
      BY <3>1, BoundAssumption DEF LUNs, NoLun
  <2>3. KeepsPublished(n, AttachList(a))
    BY <2>1, AttachKeeps DEF n, d
  <2>4. CASE Updated(n, AttachList(a)) /\ ReturnLun(a, lun)
    <3>1. vm'[n][d] = lun /\ cache'[n][d] = lun
      BY <1>0, <2>4 DEF Updated, TypeOK
    <3> HIDE DEF lun
    <3>2. GoodStep
      BY <1>0, <2>2, <2>3, <2>4, UpdatedIsGood
    <3> QED
      BY <2>1, <2>2, <2>4, <3>1, <3>2, NotIdle, ReturnLunKeeps DEF n, d
  <2>5. CASE UpdateFails(n, AttachList(a)) /\ ReturnError(a)
    BY <1>0, <2>2, <2>3, <2>5, UpdateFailsIsGood, ReturnErrorKeeps
  <2>6. CASE UpdateGivenUp(n, AttachList(a)) /\ ReturnError(a)
    BY <2>1, <2>6, GivenUpIsGood, ReturnErrorKeeps DEF n, d
  <2> QED
    BY <1>9, <2>4, <2>5, <2>6 DEF AttachDisk, n, d
<1>10. CASE AttachImpossible(a)
  BY <1>10, SameIsGood, ReturnErrorKeeps DEF AttachImpossible
<1>11. CASE RefuseDanglingDetach(a)
  <2>1. call[a].pc = "dangling" /\ UNCHANGED <<azure, cache>>
    BY <1>11 DEF RefuseDanglingDetach
  <2>2. call[a].seen \in Nodes \ {NodeOf(a)}
    BY <2>1 DEF PublishInv, DanglesElsewhere
  <2>3. CASE ReturnError(a)
    BY <2>1, <2>3, SameIsGood, ReturnErrorKeeps
  <2>4. CASE Goto(a, "detach") /\ ~hasVolumeAttachmentForDiskOnNode(DiskOf(a), call[a].seen)
    <3>1. \A b \in Attachments : b = <<DiskOf(a), call[a].seen>> => va[b] = "none"
      BY <2>4 DEF hasVolumeAttachmentForDiskOnNode
    <3> QED
      BY <2>1, <2>2, <2>4, <3>1, GotoKeeps DEF PCs
  <2> QED
    BY <1>11, <2>3, <2>4 DEF RefuseDanglingDetach
<1>12. CASE DetachDangling(a)
  <2>1. /\ call[a].pc = "detach" /\ ReturnError(a)
        /\ Detached(d, call[a].seen) \/ DetachFails(d, call[a].seen)
    BY <1>12 DEF DetachDangling, d
  <2>2. call[a].seen \in Nodes
    BY <2>1 DEF PublishInv, DanglesElsewhere
  <2>3. \A b \in Attachments : DiskOf(b) = d /\ NodeOf(b) = call[a].seen => va[b] \notin {"attached", "forgotten"}
    BY <2>1, PairOf DEF PublishInv, DanglesElsewhere, d
  <2>4. GoodStep
    BY <1>0, <2>1, <2>2, <2>3, DetachIsGood
  <2> QED
    BY <2>1, <2>4, ReturnErrorKeeps
<1> QED
  BY <1>1, <1>2, <1>3, <1>4, <1>5, <1>6, <1>7, <1>8, <1>9, <1>10, <1>11, <1>12 DEF PublishStep

LEMMA UnpublishKeeps ==
  ASSUME TypeOK, PublishInv, NEW a \in Attachments, ControllerUnpublishVolume(a)
  PROVE  PublishInv'
<1> DEFINE n == NodeOf(a)
           d == DiskOf(a)
<1>1. /\ n \in Nodes /\ d \in Disks /\ va[a] = "deleting" /\ call[a] = Idle /\ call' = call
      /\ Idle.pc = "idle"
  BY PairOf DEF ControllerUnpublishVolume, Idle
<1>2. \A b \in Attachments : DiskOf(b) = d /\ NodeOf(b) = n => b = a
  BY PairOf
<1> HIDE DEF n, d
<1>3. \A b \in Attachments : DiskOf(b) = d /\ NodeOf(b) = n => va[b] \notin {"attached", "forgotten"}
  BY <1>1, <1>2
<1>4. CASE /\ Detached(d, n)
           /\ va' = [va EXCEPT ![a] = "none"]
           /\ valun' = [valun EXCEPT ![a] = NoLun]
  <2>1. GoodStep /\ cache'[n][d] = NoLun
    BY <1>1, <1>3, <1>4, DetachIsGood
  <2>2. /\ va'[a] = "none"
        /\ \A b \in Attachments \ {a} : va'[b] = va[b] /\ valun'[b] = valun[b]
    BY <1>4 DEF TypeOK
  <2>3. CallsServe'
    BY <1>1, <2>2 DEF PublishInv, CallsServe
  <2>4. PublishedIsCached' /\ ListedIsThere'
    BY <2>1, <2>2 DEF PublishInv, PublishedIsCached, ListedIsThere, GoodStep, n, d
  <2>5. DanglesElsewhere'
    BY <1>1, <2>2 DEF PublishInv, DanglesElsewhere
  <2>6. LostIsCounted'
    BY <1>1, <2>2 DEF PublishInv, LostIsCounted
  <2> QED
    BY <2>1, <2>3, <2>4, <2>5, <2>6 DEF PublishInv, GoodStep
<1>5. CASE DetachFails(d, n) /\ va' = va /\ valun' = valun
  <2>1. GoodStep
    BY <1>1, <1>3, <1>5, DetachIsGood
  <2>2. CallsServe' /\ DanglesElsewhere' /\ LostIsCounted'
    BY <1>1, <1>5 DEF PublishInv, CallsServe, DanglesElsewhere, LostIsCounted
  <2> QED
    BY <1>5, <2>1, <2>2, GoodAndSame DEF PublishInv
<1> QED
  BY <1>4, <1>5 DEF ControllerUnpublishVolume, kube, n, d

(* The attach-detach controller changes the state of one attachment; it    *)
(* asks for none whose disk another call is moving.                        *)
LEMMA AttachmentKeeps ==
  ASSUME TypeOK, PublishInv, NEW a \in Attachments, Ask(a) \/ Forget(a) \/ Release(a)
  PROVE  PublishInv'
<1>1. UNCHANGED <<azure, cache, valun, call>>
  BY DEF Ask, Forget, Release
<1>2. /\ \A b \in Attachments \ {a} : va'[b] = va[b]
      /\ \/ va[a] = "none" /\ va'[a] = "asked"
         \/ va[a] = "attached" /\ va'[a] = "forgotten"
         \/ va[a] \in {"asked", "attached", "forgotten", "lost"} /\ va'[a] = "deleting"
  BY DEF Ask, Forget, Release, TypeOK
<1>3. CallsServe'
  BY <1>1, <1>2 DEF PublishInv, CallsServe
<1>4. PublishedIsCached' /\ ListedIsThere' /\ LateKeeps' /\ NothingLate'
  BY <1>1, <1>2 DEF PublishInv, PublishedIsCached, ListedIsThere, LateKeeps, NothingLate, azure
<1>5. DanglesElsewhere'
  <2> SUFFICES ASSUME NEW b \in Attachments, call[b].pc = "detach", NEW c \in Attachments,
                      c = <<DiskOf(b), call[b].seen>>
               PROVE  va'[c] = "none"
    BY <1>1 DEF PublishInv, DanglesElsewhere
  <2>1. va[c] = "none" /\ call[b].seen # NodeOf(b)
    BY DEF PublishInv, DanglesElsewhere
  <2>2. b # c /\ DiskOf(b) = DiskOf(c)
    BY <2>1, PairOf DEF DiskOf, NodeOf
  <2>3. va[b] \in {"asked", "deleting"}
    BY NotIdle
  <2>4. ~(a = c /\ Ask(a))
    BY <2>2, <2>3 DEF Ask
  <2>5. a # c
    BY <2>1, <2>4 DEF Forget, Release
  <2> QED
    BY <1>2, <2>1, <2>5
<1>6. LostIsCounted'
  BY <1>1, <1>2 DEF PublishInv, LostIsCounted
<1> QED
  BY <1>3, <1>4, <1>5, <1>6 DEF PublishInv

(* A disk removed by hand: every call on its node is blind from then on.   *)
LEMMA RemoveByHandKeeps ==
  ASSUME TypeOK, PublishInv, NEW a \in Attachments, RemoveByHand(a)
  PROVE  PublishInv'
<1> DEFINE n == NodeOf(a)
           d == DiskOf(a)
<1>1. n \in Nodes /\ d \in Disks
  BY PairOf
<1>2. \A b \in Attachments : DiskOf(b) = d /\ NodeOf(b) = n => b = a
  BY PairOf
<1>3. /\ va[a] \in {"attached", "forgotten"} /\ UNCHANGED <<late, lates, cache, valun>>
      /\ vm' = [vm EXCEPT ![n][d] = NoLun]
  BY DEF RemoveByHand
<1> HIDE DEF n, d
<1>4. /\ \A m \in Nodes, e \in Disks : vm'[m][e] = IF m = n /\ e = d THEN NoLun ELSE vm[m][e]
  BY <1>1, <1>3 DEF TypeOK, Lists
<1>5. va'[a] = "lost" /\ \A b \in Attachments \ {a} : va'[b] = va[b]
  BY DEF RemoveByHand, TypeOK
<1>6. \A b \in Attachments :
        call'[b] = IF NodeOf(b) = n /\ call[b] # Idle THEN [call[b] EXCEPT !.blind = TRUE] ELSE call[b]
  BY DEF RemoveByHand, n
<1>7. \A b \in Attachments : /\ call'[b].pc = call[b].pc /\ call'[b].seen = call[b].seen
                             /\ call'[b].used = call[b].used
                             /\ call'[b] # Idle => call[b] # Idle
                             /\ ~call'[b].blind => ~call[b].blind /\ (NodeOf(b) = n => call[b] = Idle)
  BY <1>6 DEF TypeOK
<1>8. CallsServe'
  BY <1>3, <1>5, <1>7 DEF PublishInv, CallsServe
<1>9. PublishedIsCached' /\ ListedIsThere'
  BY <1>2, <1>3, <1>4, <1>5, PairOf DEF PublishInv, PublishedIsCached, ListedIsThere, n, d
<1>10. LateKeeps' /\ NothingLate'
  BY <1>3, <1>4 DEF PublishInv, LateKeeps, NothingLate
<1>11. DanglesElsewhere'
  BY <1>3, <1>5, <1>7 DEF PublishInv, DanglesElsewhere
<1>12. LostIsCounted'
  <2>1. valun[a] # NoLun /\ Idle.pc = "idle"
    BY <1>3 DEF PublishInv, PublishedIsCached, Idle
  <2>2. \A b \in Attachments : NodeOf(b) = n /\ call'[b].pc \in {"nodeLuns", "attach"} => call'[b].blind
    BY <1>7, <2>1
  <2> QED
    BY <1>3, <1>5, <1>7, <2>1, <2>2 DEF PublishInv, LostIsCounted, n
<1> QED
  BY <1>8, <1>9, <1>10, <1>11, <1>12 DEF PublishInv

LEMMA BackgroundKeeps ==
  ASSUME TypeOK, PublishInv,
         (\E n \in Nodes : LateUpdate(n) \/ CacheExpires(n)) \/ ThrottlingExpires \/ Restart
  PROVE  PublishInv'
<1>1. ASSUME va' = va, valun' = valun, call' = call, GoodStep PROVE PublishInv'
  <2>1. CallsServe' /\ DanglesElsewhere' /\ LostIsCounted'
    BY <1>1 DEF PublishInv, CallsServe, DanglesElsewhere, LostIsCounted
  <2> QED
    BY <1>1, <2>1, GoodAndSame DEF PublishInv
<1>2. ASSUME NEW n \in Nodes, LateUpdate(n) PROVE PublishInv'
  BY <1>1, <1>2, LateIsGood DEF LateUpdate, kube
<1>3. ASSUME NEW n \in Nodes, CacheExpires(n) PROVE PublishInv'
  BY <1>1, <1>3, RefetchIsGood DEF CacheExpires, kube
<1>4. CASE ThrottlingExpires
  BY <1>1, <1>4, SameIsGood DEF ThrottlingExpires, kube
<1>5. CASE Restart
  <2>1. /\ va' = va /\ valun' = valun /\ vm' = vm /\ late' = late /\ lates' = lates /\ cache' = vm
        /\ \A a \in Attachments : call'[a] = Idle
    BY <1>5 DEF Restart, azure, kube
  <2>2. Idle.pc = "idle"
    BY DEF Idle
  <2>3. GoodStep
    BY <2>1 DEF PublishInv, PublishedIsCached, ListedIsThere, LateKeeps, NothingLate, GoodStep
  <2>4. CallsServe' /\ DanglesElsewhere' /\ LostIsCounted'
    BY <2>1, <2>2 DEF PublishInv, CallsServe, DanglesElsewhere, LostIsCounted
  <2> QED
    BY <2>1, <2>3, <2>4, GoodAndSame DEF PublishInv
<1> QED
  BY <1>2, <1>3, <1>4, <1>5

-----------------------------------------------------------------------------
(* The inductive invariant.                                                *)
IInv == TypeOK /\ PublishInv

LEMMA InitKeeps == Init => IInv
<1> SUFFICES ASSUME Init PROVE IInv
  OBVIOUS
<1>1. TypeOK
  <2>1. CloudTypes
    BY BoundAssumption DEF Init, CloudTypes, Lists
  <2>2. call \in [Attachments -> Calls]
    BY IdleTyped DEF Init
  <2>3. va \in [Attachments -> VAStates] /\ valun \in [Attachments -> LUNs \cup {NoLun}]
    BY DEF Init, VAStates
  <2>4. lunThrottled \in BOOLEAN /\ faults \in 0 .. MaxFaults
    <3>1. lunThrottled = FALSE /\ faults = 0
      BY DEF Init
    <3>2. lunThrottled \in BOOLEAN
      BY <3>1, Zenon
    <3>3. faults \in 0 .. MaxFaults
      BY <3>1, BoundAssumption
    <3> QED
      BY <3>2, <3>3
  <2> QED
    BY <2>1, <2>2, <2>3, <2>4 DEF TypeOK, CloudTypes, Calls
<1>2. PublishInv
  <2>1. Idle.pc = "idle" /\ \A a \in Attachments : call[a] = Idle /\ va[a] = "none"
    BY DEF Init, Idle
  <2>2. \A n \in Nodes : late[n] = NoUpdate /\ \A d \in Disks : vm[n][d] = NoLun /\ cache[n][d] = NoLun
    BY DEF Init
  <2> QED
    BY <2>1, <2>2, PairOf DEF PublishInv, CallsServe, PublishedIsCached, ListedIsThere, LateKeeps,
       NothingLate, DanglesElsewhere, LostIsCounted
<1> QED
  BY <1>1, <1>2 DEF IInv

LEMMA NextKeeps ==
  ASSUME MaxLate =< 1, IInv, [Next]_vars
  PROVE  IInv'
<1>1. CASE Next
  <2>1. TypeOK'
    BY <1>1, TypeStep DEF IInv, PublishInv
  <2>2. PublishInv'
    BY <1>1, PublishKeeps, UnpublishKeeps, AttachmentKeeps, RemoveByHandKeeps, BackgroundKeeps DEF Next, IInv
  <2> QED
    BY <2>1, <2>2 DEF IInv
<1>2. CASE UNCHANGED vars
  <2>1. UNCHANGED <<vm, late, lates, cache, va, valun, call, lunThrottled, faults>>
    BY <1>2 DEF vars, azure, kube
  <2>2. TypeOK'
    BY <2>1 DEF IInv, TypeOK
  <2>3. PublishInv'
    BY <2>1 DEF IInv, PublishInv, CallsServe, PublishedIsCached, ListedIsThere, LateKeeps,
       NothingLate, DanglesElsewhere, LostIsCounted
  <2> QED
    BY <2>2, <2>3 DEF IInv
<1> QED
  BY <1>1, <1>2

(* A step of one call leaves the others alone.                             *)
LEMMA OtherCalls ==
  ASSUME TypeOK, NEW c \in Attachments, PublishStep(c), NEW a \in Attachments, a # c
  PROVE  call'[a] = call[a]
<1>1. CASE checkDiskExists(c) \/ getUsedLunsFromVolumeAttachments(c) \/ getUsedLunsFromNode(c) \/ NoOccupiedLuns(c)
  BY <1>1 DEF TypeOK, checkDiskExists, getUsedLunsFromVolumeAttachments, getUsedLunsFromNode, NoOccupiedLuns
<1>2. CASE \/ AlreadyAttached(c) \/ GetDiskLun(c) \/ AttachedHere(c) \/ DanglingAttach(c)
           \/ AttachDisk(c) \/ AttachImpossible(c) \/ RefuseDanglingDetach(c) \/ DetachDangling(c)
  <2>1. ReturnError(c) \/ (\E lun : ReturnLun(c, lun)) \/ (\E label : Goto(c, label))
    BY <1>2 DEF AlreadyAttached, GetDiskLun, AttachedHere, DanglingAttach, AttachDisk, AttachImpossible,
       RefuseDanglingDetach, DetachDangling
  <2> QED
    BY <2>1 DEF TypeOK, ReturnError, ReturnLun, Goto
<1> QED
  BY <1>1, <1>2 DEF PublishStep

(* A call that looked for occupied LUNs and attaches its disk takes a LUN  *)
(* that no attachment in use on the node holds: those on the VM are in the *)
(* list it sends, those lost are among the occupied ones.                  *)
LEMMA AttachTakesFreeLun ==
  ASSUME IInv, Next, NEW a \in Attachments, NEW b \in Attachments,
         call[a].pc = "attach", call'[a] = Idle, ~call[a].blind,
         vm[NodeOf(a)][DiskOf(a)] = NoLun, vm'[NodeOf(a)][DiskOf(a)] # NoLun,
         b # a, NodeOf(b) = NodeOf(a), va[b] \in {"attached", "forgotten", "lost"}
  PROVE  valun[b] # vm'[NodeOf(a)][DiskOf(a)]
<1> DEFINE n == NodeOf(a)
           d == DiskOf(a)
<1>0. n \in Nodes /\ d \in Disks /\ TypeOK /\ PublishInv /\ Idle.pc = "idle"
  BY PairOf DEF IInv, Idle
<1>1. call[a] # Idle /\ call'[a].pc = "idle" /\ vm' # vm
  BY <1>0
<1> HIDE DEF n, d
<1>2. PublishStep(a)
  <2>1. ASSUME NEW c \in Attachments, PublishStep(c) PROVE c = a
    BY <1>0, <1>1, <2>1, OtherCalls
  <2>2. ASSUME NEW c \in Attachments, RemoveByHand(c) PROVE FALSE
    <3>1. call'[a] = IF NodeOf(a) = NodeOf(c) /\ call[a] # Idle THEN [call[a] EXCEPT !.blind = TRUE] ELSE call[a]
      BY <2>2 DEF RemoveByHand
    <3>2. call'[a].pc = "attach"
      BY <1>0, <3>1 DEF TypeOK
    <3> QED
      BY <1>1, <3>2
  <2>3. ASSUME NEW c \in Attachments,
               ControllerUnpublishVolume(c) \/ Ask(c) \/ Forget(c) \/ Release(c)
        PROVE  FALSE
    BY <1>1, <2>3 DEF ControllerUnpublishVolume, Ask, Forget, Release
  <2>4. ASSUME NEW m \in Nodes, LateUpdate(m) \/ CacheExpires(m) PROVE FALSE
    BY <1>1, <2>4 DEF LateUpdate, CacheExpires
  <2>5. ~ThrottlingExpires /\ ~Restart
    BY <1>1 DEF ThrottlingExpires, Restart, azure
  <2> QED
    BY <2>1, <2>2, <2>3, <2>4, <2>5 DEF Next
<1>3. AttachDisk(a)
  BY <1>1, <1>2 DEF PublishStep, checkDiskExists, AlreadyAttached, GetDiskLun, getUsedLunsFromVolumeAttachments,
     getUsedLunsFromNode, NoOccupiedLuns, AttachedHere, DanglingAttach, AttachImpossible, RefuseDanglingDetach,
     DetachDangling, azure, Idle
<1>4. FreeLuns(a) # {} /\ vm' = [vm EXCEPT ![n] = AttachList(a)]
  BY <1>1, <1>3 DEF AttachDisk, Updated, UpdateFails, UpdateGivenUp, azure, n
<1>5. vm'[n][d] \in FreeLuns(a)
  <2>1. vm'[n] = AttachList(a)
    BY <1>0, <1>4 DEF TypeOK
  <2> QED
    BY <1>0, <1>4, <2>1, AttachListTyped DEF d
<1>6. CASE va[b] \in {"attached", "forgotten"}
  <2>1. cache[n][DiskOf(b)] = valun[b] /\ valun[b] # NoLun /\ DiskOf(b) \in Disks
    BY <1>0, <1>6, PairOf DEF PublishInv, PublishedIsCached, n
  <2>2. valun[b] \in UsedLuns(cache[n])
    BY <2>1 DEF UsedLuns
  <2> QED
    BY <1>5, <2>2 DEF FreeLuns, n, d
<1>7. CASE va[b] = "lost"
  <2>1. valun[b] \in call[a].used
    BY <1>0, <1>7 DEF PublishInv, LostIsCounted
  <2> QED
    BY <1>5, <2>1 DEF FreeLuns, n, d
<1> QED
  BY <1>6, <1>7

-----------------------------------------------------------------------------
(* The VMs, the attachments, the calls and the caches keep their types:    *)
(* every list a VM or an update has is a list of LUNs within MaxLUN.       *)
THEOREM TypeCorrect == MaxLate =< 1 => (Spec => []TypeOK)
<1> SUFFICES ASSUME MaxLate =< 1 PROVE Spec => []TypeOK
  OBVIOUS
<1>1. IInv /\ [Next]_vars => IInv'
  BY NextKeeps
<1>2. IInv => TypeOK
  BY DEF IInv
<1> QED
  BY <1>1, <1>2, InitKeeps, PTL DEF Spec

(* A published volume stays on its node at the LUN of its VolumeAttachment *)
(* until it is unpublished, whatever updates are refused, lost or late,    *)
(* whatever the cache is behind on and whatever disks dangle, for any      *)
(* numbers of disks, nodes, LUNs and faults, when at most one update is    *)
(* given up (ControllerPublishVolume).                                     *)
THEOREM PublishedStays == MaxLate =< 1 => (Spec => []PublishedIsAttached)
<1> SUFFICES ASSUME MaxLate =< 1 PROVE Spec => []PublishedIsAttached
  OBVIOUS
<1>1. IInv /\ [Next]_vars => IInv'
  BY NextKeeps
<1>2. IInv => PublishedIsAttached
  BY DEF IInv, PublishInv, PublishedIsCached, PublishedIsAttached
<1> QED
  BY <1>1, <1>2, InitKeeps, PTL DEF Spec

(* A call that looked for occupied LUNs attaches its disk at none that     *)
(* another attachment in use on the node holds, for any numbers of disks,  *)
(* nodes, LUNs and faults, when at most one update is given up             *)
(* (getOccupiedLunsFromNode).                                              *)
THEOREM LunsKeptApart == MaxLate =< 1 => (Spec => LunsApart)
<1> SUFFICES ASSUME MaxLate =< 1 PROVE Spec => LunsApart
  OBVIOUS
<1> DEFINE Apart ==
      \A a, b \in Attachments :
        LET n == NodeOf(a)  d == DiskOf(a)
        IN /\ call[a].pc = "attach" /\ call'[a] = Idle /\ ~call[a].blind
           /\ vm[n][d] = NoLun /\ vm'[n][d] # NoLun
           /\ b # a /\ NodeOf(b) = n /\ va[b] \in {"attached", "forgotten", "lost"}
           => valun[b] # vm'[n][d]
<1>1. IInv /\ [Next]_vars => IInv'
  BY NextKeeps
<1>2. IInv /\ [Next]_vars => [Apart]_vars
  <2> SUFFICES ASSUME IInv, Next PROVE Apart
    OBVIOUS
  <2> QED
    BY AttachTakesFreeLun
<1>3. LunsApart <=> [][Apart]_vars
  BY DEF LunsApart
<1> HIDE DEF Apart
<1> QED
  BY <1>1, <1>2, <1>3, InitKeeps, PTL DEF Spec
=============================================================================
