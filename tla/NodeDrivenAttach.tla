-------------------------- MODULE NodeDrivenAttach --------------------------
(***************************************************************************)
(* Volumes that the nodes attach and detach themselves (attachmode         *)
(* NodeDriven): NodeStageVolume and NodeUnstageVolume of nodeserver.go     *)
(* take a new sequence number from an annotation of the PV, ask the wire   *)
(* server of their host, and poll it. ControllerPublishVolume only seeds   *)
(* the annotation; ControllerUnpublishVolume leaves the disk alone.        *)
(*                                                                         *)
(* A pod with the volume moves between nodes. Requests to the wire server  *)
(* may be lost, answered in vain, or arrive after the call that sent them  *)
(* has ended. Of sequence numbers only the order matters: net holds the    *)
(* requests in the order of their numbers.                                 *)
(***************************************************************************)
EXTENDS Naturals, Sequences, SequencesExt

CONSTANTS
  Nodes, NoNode,
  MaxMoves,   \* bound: pods that are started
  MaxLosses   \* bound: requests, answers and operations that fail

VARIABLES
  home,      \* the node of the pod
  va,        \* the node of the VolumeAttachment
  adopted,   \* the PV has the attach-sequence annotation
  staged,    \* what kubelet believes, per node; "failed" is "no" after a final error
  call,      \* the node's call: operation and step
  net,       \* requests on their way: late, when nobody waits for the answer, and stale, when a newer one was accepted
  holder,    \* the node the disk is attached to
  status,    \* the operation in progress there, per node
  moves, losses

drivenVars == <<home, va, adopted, staged, call, net, holder, status, moves, losses>>
cluster == <<home, va, adopted, moves>>
service == <<net, holder, status>>

NoOperation == [op |-> "none", pc |-> "idle"]

Unattached(m) ==
  /\ home = NoNode /\ va = NoNode /\ adopted = FALSE
  /\ staged = [n \in Nodes |-> "no"] /\ call = [n \in Nodes |-> NoOperation]
  /\ net = <<>> /\ holder = NoNode /\ status = [n \in Nodes |-> "none"]
  /\ moves = m /\ losses = 0

DrivenInit == Unattached(0)

(* No pod uses the volume.                                                 *)
Unused == Unattached(MaxMoves)

Lost == losses < MaxLosses /\ losses' = losses + 1
Fine == UNCHANGED losses

-----------------------------------------------------------------------------
(* The pod, and the attach-detach controller: it publishes the volume to   *)
(* the pod's node once no other has it, and unpublishes it from a node     *)
(* where it is not in use.                                                 *)
MovePod(n) ==
  /\ home = NoNode /\ moves < MaxMoves /\ home' = n /\ moves' = moves + 1
  /\ UNCHANGED <<va, adopted, staged, call, service, losses>>

EndPod == home # NoNode /\ home' = NoNode /\ UNCHANGED <<va, adopted, staged, call, service, moves, losses>>

ensureQADPVAnnotations == adopted' = TRUE

PublishNodeDriven ==
  /\ va = NoNode /\ home # NoNode /\ va' = home /\ ensureQADPVAnnotations
  /\ UNCHANGED <<home, staged, call, service, moves, losses>>

NotStaged(n) == staged[n] \in {"no", "failed"}

UnpublishNodeDriven ==
  /\ va # NoNode /\ home # va /\ NotStaged(va) /\ call[va] = NoOperation /\ va' = NoNode
  /\ UNCHANGED <<home, adopted, staged, call, service, moves, losses>>

(* Kubelet.                                                                *)
CallStage(n) ==
  /\ call[n] = NoOperation /\ home = n /\ va = n /\ staged[n] # "yes"
  /\ call' = [call EXCEPT ![n] = [op |-> "attach", pc |-> "lookup"]]
  /\ UNCHANGED <<cluster, staged, service, losses>>

CallUnstage(n) ==
  /\ call[n] = NoOperation /\ home # n /\ ~NotStaged(n)
  /\ call' = [call EXCEPT ![n] = [op |-> "detach", pc |-> "lookup"]]
  /\ UNCHANGED <<cluster, staged, service, losses>>

Kubelet(n) == CallStage(n) \/ CallUnstage(n)

Result(n, code) ==
  /\ call' = [call EXCEPT ![n] = NoOperation]
  /\ staged' = [staged EXCEPT ![n] =
       CASE code = "uncertain" -> "uncertain"
         [] code = "ok" -> IF call[n].op = "attach" THEN "yes" ELSE "no"
         [] code = "final" -> IF call[n].op = "attach" THEN "failed" ELSE "uncertain"]

-----------------------------------------------------------------------------
(* The call. The cache only names the PV, which is read from the API (or   *)
(* found in its list), so that the annotation of a volume that was just    *)
(* adopted is not missed; a volume that is published has it.               *)
hasQADInfo == adopted

getPVFromDiskURI(n) ==
  /\ call[n].pc = "lookup"
  /\ \/ Fine /\ hasQADInfo /\ call' = [call EXCEPT ![n].pc = "increment"] /\ UNCHANGED staged
     \/ Lost /\ Result(n, "final")
  /\ UNCHANGED <<cluster, service>>

(* The annotation is written with the version that was read, and read      *)
(* again after a conflict, so that every request has a number of its own,  *)
(* higher than any before. The update, or its answer, may be lost.         *)
incrementAttachSequenceAnnotation(n) ==
  /\ call[n].pc = "increment"
  /\ \/ /\ Fine /\ call' = [call EXCEPT ![n].pc = "wait"] /\ UNCHANGED staged
        /\ net' = Append(net, [node |-> n, op |-> call[n].op, late |-> FALSE, stale |-> FALSE])
     \/ Lost /\ Result(n, "final") /\ UNCHANGED net
  /\ UNCHANGED <<cluster, holder, status>>

(* The wire server's answer. Attach is through when it says "attached" and *)
(* the device is found; detach when it has no such disk; an operation in   *)
(* progress is polled. (The first definition is a mutant: it does not wait *)
(* for the disk.)                                                          *)
AttachIsAccepted(n, answer) == answer \in {"attached", "attaching"}
AttachIsThrough(n, answer) == answer = "attached"

AttachedAnswer(n) == (Result(n, "ok") /\ Fine) \/ (Result(n, "uncertain") /\ Lost)

executeQADDiskOperation(n, answer) ==
  \/ answer \in {"mismatch", "refused"} /\ Result(n, "uncertain") /\ Fine
  \/ answer = "none" /\ Result(n, "ok") /\ Fine
  \/ AttachIsThrough(n, answer) /\ AttachedAnswer(n)
  \/ /\ answer \in {"attaching", "detaching"} /\ ~AttachIsThrough(n, answer)
     /\ call' = [call EXCEPT ![n].pc = "poll"] /\ UNCHANGED staged /\ Fine

(* What getDiskState reports. (The first definition is a mutant: a disk    *)
(* without an operation counts as none.)                                   *)
getOperationState(n) == IF status[n] # "none" THEN status[n] ELSE "missing"
getDiskState(n) ==
  IF status[n] # "none" THEN status[n] ELSE IF holder = n THEN "attached" ELSE "missing"

PollAttach(n) ==
  /\ call[n].op = "attach" /\ call[n].pc = "poll"
  /\ \/ getDiskState(n) = "attached" /\ AttachedAnswer(n)
     \/ getDiskState(n) = "error" /\ Result(n, "final") /\ Fine
  /\ UNCHANGED <<cluster, service>>

DetachIsThrough(state) == state = "missing"

PollDetach(n) ==
  /\ call[n].op = "detach" /\ call[n].pc = "poll" /\ Fine
  /\ \/ DetachIsThrough(getDiskState(n)) /\ Result(n, "ok")
     \/ getDiskState(n) = "error" /\ Result(n, "final")
  /\ UNCHANGED <<cluster, service>>

(* Kubelet or a poll gives up; or a request fails and the error is final.  *)
CallEnds(n) ==
  /\ call[n].pc \in {"wait", "poll"} /\ Lost /\ \E code \in {"uncertain", "final"} : Result(n, code)
  /\ net' = [i \in DOMAIN net |-> IF net[i].node = n THEN [net[i] EXCEPT !.late = TRUE] ELSE net[i]]
  /\ UNCHANGED <<cluster, holder, status>>

-----------------------------------------------------------------------------
(* The wire server and the disk service: an operation with a sequence      *)
(* number that is not new is refused, and so is an attach while another    *)
(* node has the disk.                                                      *)
Free(n) == holder \in {NoNode, n} /\ \A m \in Nodes \ {n} : status[m] \in {"none", "error"}

AnswerTo(r) ==
  CASE r.stale -> "mismatch"
    [] ~r.stale /\ r.op = "attach" -> IF ~Free(r.node) THEN "refused" ELSE IF holder = r.node THEN "attached" ELSE "attaching"
    [] ~r.stale /\ r.op = "detach" -> IF holder = r.node \/ status[r.node] = "attaching" THEN "detaching" ELSE "none"

(* Older requests are stale from now on.                                   *)
Superseded(i) ==
  LET rest == RemoveAt(net, i)
  IN [j \in DOMAIN rest |-> IF j < i THEN [rest[j] EXCEPT !.stale = TRUE] ELSE rest[j]]

Arrive(i) ==
  LET r == net[i]
      answer == AnswerTo(r)
  IN /\ IF answer \in {"mismatch", "refused"} THEN net' = RemoveAt(net, i) /\ UNCHANGED status
        ELSE /\ net' = Superseded(i)
             /\ status' = [status EXCEPT ![r.node] = IF answer \in {"attaching", "detaching"} THEN answer ELSE "none"]
     /\ IF r.late THEN UNCHANGED <<call, staged, losses>> ELSE executeQADDiskOperation(r.node, answer)
     /\ UNCHANGED <<cluster, holder>>

Complete(n) ==
  /\ status[n] \in {"attaching", "detaching"}
  /\ \/ holder' = (IF status[n] = "attaching" THEN n ELSE NoNode) /\ status' = [status EXCEPT ![n] = "none"] /\ Fine
     \/ status' = [status EXCEPT ![n] = "error"] /\ Lost /\ UNCHANGED holder
  /\ UNCHANGED <<cluster, staged, call, net>>

-----------------------------------------------------------------------------
DrivenStep(n) == getPVFromDiskURI(n) \/ incrementAttachSequenceAnnotation(n) \/ PollAttach(n) \/ PollDetach(n)

DrivenNext ==
  \/ \E n \in Nodes : MovePod(n) \/ Kubelet(n) \/ DrivenStep(n) \/ CallEnds(n) \/ Complete(n)
  \/ EndPod \/ PublishNodeDriven \/ UnpublishNodeDriven
  \/ \E i \in DOMAIN net : Arrive(i)

(* A request arrives while its call waits; a late one may never.           *)
Timely == \E i \in DOMAIN net : ~net[i].late /\ Arrive(i)

DrivenFairness ==
  /\ WF_drivenVars(PublishNodeDriven \/ UnpublishNodeDriven) /\ WF_drivenVars(Timely)
  /\ \A n \in Nodes : WF_drivenVars(Kubelet(n)) /\ WF_drivenVars(DrivenStep(n)) /\ WF_drivenVars(Complete(n))

DrivenSpec == DrivenInit /\ [][DrivenNext]_drivenVars /\ DrivenFairness

-----------------------------------------------------------------------------
(* While kubelet holds the volume staged the disk is attached to its node  *)
(* and nothing is under way that takes it off, late requests of earlier    *)
(* calls included: the sequence numbers keep them out. A node whose kubelet*)
(* does not hold it staged does not have the disk, nor gets it, unless it  *)
(* was told that staging failed for good.                                  *)
AttachedWhereStaged ==
  \A n \in Nodes : call[n] = NoOperation =>
    /\ staged[n] = "yes" => holder = n /\ status[n] = "none"
    /\ staged[n] = "no" => holder # n /\ status[n] # "attaching"

(* The disk is on a node the pod is not on, where no call runs and kubelet *)
(* was told that staging failed for good, so that it never unstages it.    *)
LeftBehind == \E n \in Nodes \ {home} : staged[n] = "failed" /\ call[n] = NoOperation /\ holder = n

(* A pod gets its volume on the node it runs on, wherever it ran before,   *)
(* unless an earlier node keeps the disk like that.                        *)
PodAttached == home # NoNode ~> home = NoNode \/ staged[home] = "yes" \/ LeftBehind
=============================================================================
