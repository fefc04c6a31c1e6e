----------------------------- MODULE NodeAgent -----------------------------
(***************************************************************************)
(* What the node plugin does beside the CSI calls: the goroutine that      *)
(* removes the not-ready taint, and the pre-stop hook, which reads the     *)
(* taints of the same Node object to find out whether the node is drained. *)
(***************************************************************************)
EXTENDS PreStopHook, Integers

CONSTANTS NotReady, Drain, Steps, NeverStop, NodeTypes, MaxFailures, MaxTaintings

ASSUME TaintAssumption == NotReady # Drain
ASSUME TypeAssumption == \E t \in NodeTypes : t.limit > 0
ASSUME StepAssumption == Steps \in Nat \ {0} /\ NeverStop \subseteq BOOLEAN

VARIABLES
  taints, node, registered, misread, allocatable, neverStop, remover, read, attempts, looping, failures, taintings,
  drained  \* the autoscaler wants the node drained

Removal == INSTANCE TaintRemoval WITH Others <- {Drain}, pc <- remover

(* A label that names a type names the one of the machine.                 *)
ASSUME LabelAssumption ==
  \A t \in NodeTypes : t.limit \in Int /\ t.reserved \in Nat /\ t.label \in {t.type, Removal!NoType}

hook == <<api, watch, pc, handling, allDeleted, listErrors>>
removal == <<taints, node, registered, misread, allocatable, neverStop, remover, read, attempts, looping, failures, taintings>>
agent == <<hook, removal, drained>>

(* The plugin starts on any node; or the hook is called, on a node with a  *)
(* limit of its own, before the driver was registered.                     *)
AgentInit ==
  /\ Removal!Init /\ drained = (Drain \in taints)
  /\ \/ Idle
     \/ Init /\ node = (CHOOSE t \in NodeTypes : t.limit > 0) /\ allocatable = 0

(* The hook goes on when the node is drained or gone, and ends when it is  *)
(* there and not drained.                                                  *)
Fetch ==
  /\ PreStop
  /\ pc' = "skipped" => Drain \notin taints

Cordon ==
  /\ Removal!OtherTaint(Drain)
  /\ drained' = ~drained
  /\ UNCHANGED hook

RemoverStep ==
  /\ Removal!removeTaintInBackground \/ Removal!RemovalFails
     \/ Removal!Register \/ Removal!TaintAgain
  /\ UNCHANGED <<hook, drained>>

AgentHookStep ==
  /\ \/ Fetch \/ HookStep \/ InformerStep \/ (Running /\ WatchBreaks)
     \/ \E a \in Attachments : Detached(a) \/ Updated(a)
  /\ UNCHANGED <<removal, drained>>

AgentNext == AgentHookStep \/ RemoverStep \/ Cordon

(* The hook, the informer and the goroutine run; volumes are detached and  *)
(* kubelet registers the driver some day.                                  *)
AgentFairness ==
  /\ WF_agent(HookStep /\ UNCHANGED <<removal, drained>>)
  /\ WF_agent(InformerStep /\ UNCHANGED <<removal, drained>>)
  /\ \A a \in Attachments : WF_agent(Detached(a) /\ UNCHANGED <<removal, drained>>)
  /\ WF_agent(Removal!removeTaintInBackground /\ UNCHANGED <<hook, drained>>)
  /\ WF_agent(Removal!Register /\ UNCHANGED <<hook, drained>>)

AgentSpec == AgentInit /\ [][AgentNext]_agent /\ AgentFairness

-----------------------------------------------------------------------------
(* The types of both parts.                                                *)
AgentTypeOK == TypeOK /\ Removal!TypeOK /\ drained \in BOOLEAN

(* The hook of a node that is being drained is not skipped: the removal of *)
(* the not-ready taint never takes the drain taint with it, whatever was   *)
(* changed since it read the taints (PreStop and the patch of              *)
(* removeNotReadyTaint).                                                   *)
DrainSeen == [][pc = "fetch" /\ pc' = "skipped" => ~drained]_agent

(* Unless the goroutine gave up, the not-ready taint goes (TaintRemoval).  *)
TaintGoes == Removal!TaintGoes

(* A node without the not-ready taint has the count of its virtual machine *)
(* in its CSINode (TaintRemoval).                                          *)
ReadyIsLimited == Removal!ReadyIsLimited
=============================================================================
