-------------------------- MODULE NodeAgentProofs --------------------------
(***************************************************************************)
(* Theorems about NodeAgent for any virtual machines and flags, any number *)
(* of steps of the back-off, of failures and of taints set again.          *)
(***************************************************************************)
EXTENDS NodeAgent, TLAPS

-----------------------------------------------------------------------------
(* The count in the CSINode is the one NodeGetInfo answered, or was before *)
(* the plugin started; the goroutine patches after it has seen one.        *)
Count(failing) == Removal!MaxVolumesPerNode(node, failing)

CountInv ==
  /\ node \in NodeTypes /\ (~registered => misread = {})
  /\ allocatable = 0 \/ (allocatable = Count(misread) /\ allocatable > 0)
  /\ NotReady \notin taints \/ remover = "patch" => allocatable > 0

(* What NodeGetInfo answers: the count of the machine, or the one of       *)
(* machines the table does not list, where it is misled.                   *)
MachineCount == IF node.limit >= 0 THEN node.limit ELSE Removal!GetMaxDataDiskCount(node.type) - node.reserved

LEMMA TypeRead ==
  ASSUME node \in NodeTypes, NEW failing
  PROVE  /\ Removal!InstanceType(node, failing) \in {node.type, node.label, Removal!NoType}
         /\ \/ (node.fromLabels \/ "type" \in failing) /\ (node.label = Removal!NoType \/ failing \cap {"labels", "again"} # {})
            \/ Removal!InstanceType(node, failing) = node.type
<1>1. node.label \in {node.type, Removal!NoType}
  BY LabelAssumption
<1>2. CASE Removal!TypeFromCloud(node, failing) # Removal!NoType
  BY <1>2 DEF Removal!InstanceType, Removal!TypeFromCloud
<1>3. CASE Removal!TypeFromCloud(node, failing) = Removal!NoType
  <2>1. (node.fromLabels \/ "type" \in failing) \/ node.type = Removal!NoType
    BY <1>3 DEF Removal!TypeFromCloud
  <2>2. Removal!TypeWithZone(node, failing) \in {Removal!NoType, node.label}
    BY DEF Removal!TypeWithZone, Removal!GetNodeInfoFromLabels
  <2>3. Removal!InstanceType(node, failing) =
          IF Removal!TypeWithZone(node, failing) = Removal!NoType
            THEN IF "again" \in failing THEN Removal!NoType ELSE node.label
            ELSE Removal!TypeWithZone(node, failing)
    BY <1>3 DEF Removal!InstanceType, Removal!ReadsLabelsAgain, Removal!GetNodeInfoFromLabels
  <2>4. "again" \in failing => failing \cap {"labels", "again"} # {}
    OBVIOUS
  <2> QED
    BY <1>1, <2>1, <2>2, <2>3, <2>4
<1> QED
  BY <1>2, <1>3

LEMMA NoLabel ==
  ASSUME node.fromLabels, node.label = Removal!NoType, NEW failing
  PROVE  Removal!InstanceType(node, failing) = Removal!NoType
BY DEF Removal!InstanceType, Removal!TypeFromCloud, Removal!TypeWithZone, Removal!ReadsLabelsAgain,
   Removal!GetNodeInfoFromLabels

LEMMA CountRead ==
  ASSUME node \in NodeTypes, NEW failing
  PROVE  /\ Count(failing) \in Int
         /\ Count(failing) = MachineCount \/ (node.limit < 0 /\ Count(failing) = 16 - node.reserved)
         /\ \/ (node.fromLabels \/ "type" \in failing) /\ (node.label = Removal!NoType \/ failing \cap {"labels", "again"} # {})
            \/ Count(failing) = MachineCount
<1>1. node.limit \in Int /\ node.reserved \in Nat /\ node.label \in {node.type, Removal!NoType}
  BY LabelAssumption
<1>2. Removal!InstanceType(node, failing) \in {node.type, Removal!NoType}
  BY <1>1, TypeRead
<1>3. \A type : Removal!GetMaxDataDiskCount(type) \in Nat
  BY DEF Removal!GetMaxDataDiskCount, Removal!maxDataDiskCounts
<1>4. Removal!GetMaxDataDiskCount(Removal!NoType) = 16
  BY DEF Removal!GetMaxDataDiskCount, Removal!maxDataDiskCounts, Removal!NoType
<1>5. Count(failing) = IF node.limit >= 0 THEN node.limit
                       ELSE Removal!GetMaxDataDiskCount(Removal!InstanceType(node, failing)) - node.reserved
  BY DEF Count, Removal!MaxVolumesPerNode
<1>6. Count(failing) \in Int
  BY <1>1, <1>3, <1>5
<1>7. Count(failing) = MachineCount \/ (node.limit < 0 /\ Count(failing) = 16 - node.reserved)
  BY <1>1, <1>2, <1>4, <1>5 DEF MachineCount
<1>8. Removal!InstanceType(node, failing) = node.type => Count(failing) = MachineCount
  BY <1>5 DEF MachineCount
<1> QED
  BY <1>6, <1>7, <1>8, TypeRead

(* A misread type does not take the count away, unless more slots are      *)
(* reserved than a machine that is not listed has.                         *)
LEMMA CountStays ==
  ASSUME node \in NodeTypes, node.reserved < 16, Count({}) > 0, NEW failing
  PROVE  Count(failing) > 0
<1>1. node.reserved \in Nat /\ Count(failing) \in Int /\ Count({}) \in Int
  BY LabelAssumption, CountRead
<1>2. CASE Count({}) = MachineCount
  BY <1>1, <1>2, CountRead
<1>3. CASE Count({}) # MachineCount
  <2>1. node.fromLabels /\ node.label = Removal!NoType
    BY <1>3, CountRead
  <2>2. Removal!InstanceType(node, failing) = Removal!InstanceType(node, {})
    BY <2>1, NoLabel
  <2>3. Count(failing) = Count({})
    BY <2>2 DEF Count, Removal!MaxVolumesPerNode
  <2> QED
    BY <2>3
<1> QED
  BY <1>2, <1>3

LEMMA CountInit == AgentInit => CountInv
BY DEF AgentInit, Removal!Init, CountInv, Count

LEMMA CountNext ==
  ASSUME CountInv, [AgentNext]_agent, \A t \in NodeTypes : t.reserved < 16
  PROVE  CountInv'
<1>1. CASE UNCHANGED <<node, registered, misread, allocatable>>
  <2>1. Count(misread)' = Count(misread)
    BY <1>1 DEF Count
  <2>2. remover' = "patch" => remover = "patch" \/ allocatable > 0
    BY <1>1 DEF CountInv, AgentNext, agent, removal, AgentHookStep, Cordon, RemoverStep,
       Removal!removeTaintInBackground, Removal!GetNode, Removal!checkAllocatable, Removal!NotAllocatable, Removal!Allocatable,
       Removal!PatchTaints, Removal!RemovalFails, Removal!Register, Removal!TaintAgain, Removal!OtherTaint,
       Removal!AttemptSucceeds, Removal!AttemptFails
  <2>3. NotReady \notin taints' => NotReady \notin taints \/ remover = "patch"
    BY <1>1, TaintAssumption DEF CountInv, AgentNext, agent, removal, AgentHookStep, Cordon, RemoverStep,
       Removal!removeTaintInBackground, Removal!GetNode, Removal!checkAllocatable,
       Removal!PatchTaints, Removal!RemovalFails, Removal!Register, Removal!TaintAgain, Removal!OtherTaint
  <2> QED
    BY <1>1, <2>1, <2>2, <2>3 DEF CountInv
<1>2. CASE Removal!Register
  <2>1. /\ ~registered /\ node' = node /\ taints' = taints /\ remover' = remover
    BY <1>2 DEF Removal!Register
  <2>2. PICK failing :
          /\ misread' = IF registered' THEN failing ELSE {}
          /\ allocatable' = IF registered' THEN IF Count(failing) > 0 THEN Count(failing) ELSE 0 ELSE allocatable
    BY <1>2 DEF Removal!Register, Count
  <2>3. node \in NodeTypes /\ misread = {} /\ (allocatable = 0 \/ (allocatable = Count({}) /\ allocatable > 0))
    BY <2>1 DEF CountInv
  <2>4. Count(misread)' = Removal!MaxVolumesPerNode(node, misread')
    BY <2>1 DEF Count
  <2>5. allocatable > 0 => Count(failing) > 0
    BY <2>3, CountStays
  <2>6. allocatable' = 0 \/ (allocatable' = Count(misread)' /\ allocatable' > 0)
    BY <2>2, <2>3, <2>4 DEF Count
  <2>7. allocatable > 0 => allocatable' > 0
    BY <2>2, <2>5
  <2> QED
    BY <2>1, <2>2, <2>3, <2>6, <2>7 DEF CountInv
<1> QED
  BY <1>1, <1>2 DEF AgentNext, agent, removal, AgentHookStep, Cordon, RemoverStep, Removal!registration,
       Removal!removeTaintInBackground, Removal!GetNode, Removal!checkAllocatable,
       Removal!PatchTaints, Removal!RemovalFails, Removal!TaintAgain, Removal!OtherTaint

(* A node that the scheduler may use has a count in its CSINode, and it is *)
(* the one of its virtual machine less the reserved slots unless           *)
(* NodeGetInfo was misled: whatever else writes the taints, fails or is    *)
(* retried, and however often the node is tainted again. The slots that    *)
(* are reserved must be fewer than the 16 of a machine the table does not  *)
(* list: NodeGetInfo subtracts them from the count of a machine it could   *)
(* not tell, and kubelet then takes the count away from a node whose taint *)
(* the goroutine has removed by the count of an earlier registration.      *)
THEOREM ReadyHasCount ==
  (\A t \in NodeTypes : t.reserved < 16) => (AgentSpec => []ReadyIsLimited)
<1> SUFFICES ASSUME \A t \in NodeTypes : t.reserved < 16
             PROVE  AgentSpec => []ReadyIsLimited
  OBVIOUS
<1>1. AgentInit => CountInv
  BY CountInit
<1>2. CountInv /\ [AgentNext]_agent => CountInv'
  BY CountNext
<1>3. CountInv => ReadyIsLimited
  <2> SUFFICES ASSUME CountInv, NotReady \notin taints
               PROVE  allocatable > 0 /\ (Removal!Misled \/ allocatable = MachineCount)
    BY DEF ReadyIsLimited, Removal!ReadyIsLimited, MachineCount
  <2>1. node \in NodeTypes /\ allocatable > 0 /\ allocatable = Count(misread)
    BY DEF CountInv
  <2>2. Removal!Misled \/ Count(misread) = MachineCount
    BY <2>1, CountRead DEF Removal!Misled
  <2> QED
    BY <2>1, <2>2
<1> QED
  BY <1>1, <1>2, <1>3, PTL DEF AgentSpec

-----------------------------------------------------------------------------
(* The drain taint is on the node as long as the autoscaler wants it: only *)
(* Cordon changes it, as a patch is applied to the taints it was made from.*)
DrainInv == drained \in BOOLEAN /\ (drained <=> Drain \in taints)

LEMMA PatchKeepsDrain ==
  ASSUME RemoverStep
  PROVE  drained' = drained /\ (Drain \in taints' <=> Drain \in taints)
BY TaintAssumption DEF RemoverStep, Removal!removeTaintInBackground, Removal!GetNode, Removal!checkAllocatable,
   Removal!PatchTaints, Removal!RemovalFails, Removal!Register, Removal!TaintAgain

LEMMA DrainInit == AgentInit => DrainInv
<1> SUFFICES ASSUME AgentInit PROVE DrainInv
  OBVIOUS
<1>1. drained = (Drain \in taints)
  BY Zenon DEF AgentInit
<1>2. (Drain \in taints) \in BOOLEAN
  OBVIOUS
<1>3. drained \in BOOLEAN
  BY <1>1, <1>2, Zenon
<1>4. drained <=> Drain \in taints
  BY <1>1, Zenon
<1> QED
  BY <1>3, <1>4 DEF DrainInv

LEMMA DrainNext ==
  ASSUME DrainInv, [AgentNext]_agent
  PROVE  DrainInv'
<1>1. CASE RemoverStep
  BY <1>1, PatchKeepsDrain DEF DrainInv
<1>2. CASE Cordon
  <2>1. drained' = ~drained /\ taints' = IF Drain \in taints THEN taints \ {Drain} ELSE taints \cup {Drain}
    BY <1>2 DEF Cordon, Removal!OtherTaint
  <2>2. Drain \in taints' <=> Drain \notin taints
    BY <2>1
  <2> QED
    BY <2>1, <2>2, Zenon DEF DrainInv
<1>3. CASE UNCHANGED <<removal, drained>>
  BY <1>3 DEF DrainInv, removal
<1> QED
  BY <1>1, <1>2, <1>3 DEF AgentNext, AgentHookStep, agent

(* The hook of a node that is being drained is not skipped, whatever the   *)
(* removal of the not-ready taint reads, patches and retries meanwhile and *)
(* however often the drain taint is set and taken away between the two.    *)
THEOREM DrainIsSeen == AgentSpec => DrainSeen
<1>1. DrainInv /\ [AgentNext]_agent => [pc = "fetch" /\ pc' = "skipped" => ~drained]_agent
  <2> SUFFICES ASSUME DrainInv, AgentNext, pc = "fetch", pc' = "skipped"
               PROVE  ~drained
    OBVIOUS
  <2>1. CASE RemoverStep \/ Cordon
    BY <2>1 DEF RemoverStep, Cordon, hook
  <2>2. CASE Fetch
    BY <2>2 DEF Fetch, DrainInv
  <2>3. CASE HookStep \/ InformerStep \/ (Running /\ WatchBreaks)
    BY <2>3 DEF HookStep, InformerStep, Running, waitForVolumeAttachments, InitialCheck, Finished
  <2>4. CASE \E a \in Attachments : Detached(a) \/ Updated(a)
    BY <2>4 DEF Detached, Updated
  <2> QED
    BY <2>1, <2>2, <2>3, <2>4 DEF AgentNext, AgentHookStep
<1> QED
  BY <1>1, DrainInit, DrainNext, PTL DEF AgentSpec, DrainSeen
=============================================================================
