----------------------------- MODULE NodeServer -----------------------------
(***************************************************************************)
(* The node service: the calls for a volume that the controller attaches   *)
(* (NodeVolume), for one that the nodes attach themselves                  *)
(* (NodeDrivenAttach) and for one whose device is tuned                    *)
(* (DevicePerformance). Volumes share neither state nor lock keys, so a    *)
(* behaviour has a volume of one kind.                                     *)
(***************************************************************************)
EXTENDS NodeVolume

CONSTANTS Nodes, NoNode, MaxMoves, MaxLosses, Requests, NoNodeInfo

ASSUME NodeAssumption == IsFiniteSet(Nodes) /\ NoNode \notin Nodes /\ MaxMoves \in Nat /\ MaxLosses \in Nat
ASSUME ContextAssumption ==  \* sizes and rates are numbers; the rest is compared only
  \A r \in Requests :
    /\ r = [profile |-> r.profile, key |-> r.key, account |-> r.account, size |-> r.size, iops |-> r.iops,
            bw |-> r.bw, settings |-> r.settings, node |-> r.node]
    /\ r.size \in Nat /\ r.iops \in Nat /\ r.bw \in Nat

VARIABLES home, va, adopted, staged, call, net, holder, status, moves, losses, request, device, ready

Driven == INSTANCE NodeDrivenAttach
Perf == INSTANCE DevicePerformance

drivenVars == <<home, va, adopted, staged, call, net, holder, status, moves, losses>>
perfVars == <<request, device, ready>>
otherVars == <<drivenVars, perfVars>>
exceptDriven == <<volumeVars, perfVars>>
nodeVars == <<volumeVars, drivenVars, perfVars>>

NodeInit ==
  \/ VolumeInit /\ Driven!Unused /\ Perf!NoVolume
  \/ Unused /\ Driven!DrivenInit /\ Perf!NoVolume
  \/ Unused /\ Driven!Unused /\ Perf!PerfInit

NodeNext ==
  \/ VolumeNext /\ UNCHANGED otherVars
  \/ Driven!DrivenNext /\ UNCHANGED exceptDriven
  \/ Perf!PerfNext /\ UNCHANGED <<volumeVars, drivenVars>>

(* Calls go on and kubelet retries them (VolumeFairness); so do the calls  *)
(* for the other volume, the attach-detach controller and the wire server  *)
(* (DrivenFairness).                                                       *)
NodeFairness ==
  /\ \A s \in Slots : WF_nodeVars(CallStep(s) /\ UNCHANGED otherVars)
  /\ \A op \in Ops \ {"expand"} : SF_nodeVars(Kubelet(op) /\ UNCHANGED otherVars)
  /\ WF_nodeVars((\E p \in Pods : Forget(p)) /\ UNCHANGED otherVars)
  /\ WF_nodeVars((Driven!PublishNodeDriven \/ Driven!UnpublishNodeDriven) /\ UNCHANGED exceptDriven)
  /\ WF_nodeVars(Driven!Timely /\ UNCHANGED exceptDriven)
  /\ \A n \in Nodes : /\ WF_nodeVars(Driven!Kubelet(n) /\ UNCHANGED exceptDriven)
                      /\ WF_nodeVars(Driven!DrivenStep(n) /\ UNCHANGED exceptDriven)
                      /\ WF_nodeVars(Driven!Complete(n) /\ UNCHANGED exceptDriven)

NodeSpec == NodeInit /\ [][NodeNext]_nodeVars /\ NodeFairness

-----------------------------------------------------------------------------
(* NodeDrivenAttach: the disk is attached where kubelet holds it staged,   *)
(* and nothing is under way that takes it off.                             *)
AttachedWhereStaged == Driven!AttachedWhereStaged

(* NodeDrivenAttach: a pod gets its volume on the node it runs on.         *)
PodAttached == Driven!PodAttached

(* DevicePerformance: a volume staged with a profile has a device whose    *)
(* settings reach the burst limits of the disk and of the node.            *)
StagedIsTuned == Perf!StagedIsTuned
=============================================================================
