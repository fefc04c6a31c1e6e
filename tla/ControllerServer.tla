-------------------------- MODULE ControllerServer --------------------------
(***************************************************************************)
(* The controller service: volumes (VolumeLifecycle), snapshots            *)
(* (SnapshotLifecycle) and their lists (VolumeLister) in one process,      *)
(* which restarts as a whole. The first two take different lock keys and   *)
(* touch different Azure resources, and the lists keep no state between    *)
(* calls, so a behaviour has work of one kind: a claim, a snapshot content *)
(* or a client that pages.                                                 *)
(***************************************************************************)
EXTENDS VolumeLifecycle

CONSTANTS Volume, Other, Absent, Kinds, NumGroups, MaxDisks, MaxLimit, Apis

ASSUME SourceAssumption == Volume # Other /\ Absent \notin [source : {Volume, Other}, complete : BOOLEAN]
ASSUME KindAssumption ==  \* a content written by hand has no parameters
  \A k \in Kinds : /\ k \in [cross : BOOLEAN, wait : BOOLEAN, instant : BOOLEAN, static : BOOLEAN]
                   /\ k.static => ~k.cross
ASSUME ListAssumption ==
  /\ Apis \subseteq {"cluster", "group", "snapshots"}
  /\ NumGroups \in Nat \ {0} /\ MaxDisks \in Nat /\ MaxLimit \in Nat

VARIABLES
  kind, content, local, copy, scalls, waiting, leaked,
  disks, api, maxEntries, start, pc, group, entries, numVisited, startFound, isCompleteRun, seen

Snap == INSTANCE SnapshotLifecycle WITH Calls <- Slots
List == INSTANCE VolumeLister

lists == <<disks, api, maxEntries, start, pc, group, entries, numVisited, startFound, isCompleteRun, seen>>
snapshots == <<kind, content, local, copy, scalls, waiting, leaked>>
volumes == <<kube, disk, calls, current, lost>>
besidesVolumes == <<snapshots, lists>>
besidesSnapshots == <<volumes, lists>>
servervars == <<vars, snapshots, lists>>

NoClaim ==
  /\ req \in Requests /\ req = CHOOSE r \in Requests : TRUE
  /\ pvc = "removed" /\ prov = "todo" /\ pv = NoPV /\ disk = NoDisk
  /\ calls = [s \in Slots |-> Idle] /\ current = NoCall /\ lost = FALSE

ServerInit ==
  \/ Init /\ Snap!Quiet /\ List!NoClient
  \/ NoClaim /\ Snap!Init /\ List!NoClient
  \/ NoClaim /\ Snap!Quiet /\ List!Init /\ faults = MaxFaults

VolumeWork == VolumeStep /\ UNCHANGED besidesVolumes
SnapshotWork == Snap!Next /\ UNCHANGED besidesSnapshots
ListWork == List!Next /\ UNCHANGED <<vars, snapshots>>
ServerRestart == Restart /\ Snap!SnapshotRestart /\ UNCHANGED lists

ServerNext == VolumeWork \/ SnapshotWork \/ ListWork \/ ServerRestart

(* Calls go on, sidecars retry and ask for the next page, pods end, Azure  *)
(* completes its snapshots.                                                *)
ServerFairness ==
  /\ \A s \in Slots : WF_servervars(CallStep(s) /\ UNCHANGED besidesVolumes)
  /\ WF_servervars((\E s \in Slots : Provision(s)) /\ UNCHANGED besidesVolumes)
  /\ WF_servervars((\E s \in Slots : Reclaim(s)) /\ UNCHANGED besidesVolumes)
  /\ WF_servervars(Stop /\ UNCHANGED besidesVolumes)
  /\ \A s \in Slots : WF_servervars(Snap!SnapshotStep(s) /\ UNCHANGED besidesSnapshots)
  /\ WF_servervars((\E s \in Slots : Snap!Snapshot(s)) /\ UNCHANGED besidesSnapshots)
  /\ WF_servervars(Snap!ListSnapshotsByID /\ UNCHANGED besidesSnapshots)
  /\ WF_servervars(Snap!Complete /\ UNCHANGED besidesSnapshots)
  /\ WF_servervars(Snap!DeleteSnapshot /\ UNCHANGED besidesSnapshots)
  /\ WF_servervars(List!Respond /\ UNCHANGED <<vars, snapshots>>)

ServerSpec == ServerInit /\ [][ServerNext]_servervars /\ ServerFairness

-----------------------------------------------------------------------------
(* SnapshotLifecycle: a snapshot reported ready is there and complete.     *)
ReadyIsComplete == Snap!ReadyIsComplete

(* SnapshotLifecycle: no local snapshot is left once its copy is reported. *)
LocalGone == Snap!LocalGone

(* SnapshotLifecycle: a snapshot asked for is ready in the end.            *)
SnapshotServed == Snap!SnapshotServed

(* VolumeLister: where one resource group holds all the disks, the pages   *)
(* together hold every entry.                                              *)
OneListComplete == List!OneListComplete

(* VolumeLister: a client that follows the tokens comes to the last page.  *)
PagingEnds == List!PagingEnds
=============================================================================
