--------------------------- MODULE DiskPlacement ---------------------------
(***************************************************************************)
(* What AttachDisk and DetachDisk of controllerCommon promise to the       *)
(* requests of Kubernetes, with no word of batches, locks or caches: a     *)
(* disk moves only on request, keeps its LUN while it is on a VM, and an   *)
(* answer tells the truth at the moment it is given.                       *)
(***************************************************************************)
EXTENDS Integers

CONSTANTS Nodes, Disks, Threads, LUNs, NoLun, NoRequest, NoAnswer

VARIABLES
  lun,      \* LUN of each disk on each VM, NoLun when it is not on it
  leaving,  \* disks whose detach from the VM has begun
  present,  \* VMs that exist
  request,  \* the attach or detach each thread serves
  answer    \* LUN and error of a call that has returned

vars == <<lun, leaving, present, request, answer>>

On(n) == {d \in Disks : lun[n][d] # NoLun}

Requested(op, d, n) == \E t \in Threads : request[t] = [op |-> op, disk |-> d, node |-> n]

Init ==
  /\ lun = [n \in Nodes |-> [d \in Disks |-> NoLun]]
  /\ leaving = [n \in Nodes |-> {}]
  /\ present = Nodes
  /\ request = [t \in Threads |-> NoRequest]
  /\ answer = [t \in Threads |-> NoAnswer]

Request(t, op, d, n) ==
  /\ request[t] = NoRequest /\ answer[t] = NoAnswer
  /\ request' = [request EXCEPT ![t] = [op |-> op, disk |-> d, node |-> n]]
  /\ UNCHANGED <<lun, leaving, present, answer>>

(* One VM update serves any number of requests: the disks D come onto the  *)
(* VM at LUNs nobody uses, the detach of the disks E begins.               *)
Update(n, D, E) ==
  /\ n \in present
  /\ \A d \in D : d \notin On(n) /\ Requested("attach", d, n)
  /\ \A e \in E : e \in On(n) \ leaving[n] /\ Requested("detach", e, n)
  /\ \E l \in [D -> LUNs \ {lun[n][d] : d \in On(n)}] :
       /\ \A d, e \in D : l[d] = l[e] => d = e
       /\ lun' = [lun EXCEPT ![n] = [d \in Disks |-> IF d \in D THEN l[d] ELSE lun[n][d]]]
  /\ leaving' = [leaving EXCEPT ![n] = @ \cup E]
  /\ UNCHANGED <<present, request, answer>>

Leave(n, d) ==
  /\ d \in leaving[n]
  /\ lun' = [lun EXCEPT ![n][d] = NoLun]
  /\ leaving' = [leaving EXCEPT ![n] = @ \ {d}]
  /\ UNCHANGED <<present, request, answer>>

VMDeleted(n) ==
  /\ n \in present
  /\ present' = present \ {n}
  /\ leaving' = [leaving EXCEPT ![n] = On(n)]
  /\ UNCHANGED <<lun, request, answer>>

(* An attach that succeeds names the LUN where the disk is and stays,      *)
(* unless it is being detached meanwhile or the VM is gone; a detach that  *)
(* succeeds leaves the disk off the VM. Any call may fail.                 *)
TrueAnswer(r, a) ==
  a.err = "none" =>
    \/ r.op = "detach" /\ lun[r.node][r.disk] = NoLun
    \/ /\ r.op = "attach"
       /\ \/ r.node \notin present \/ Requested("detach", r.disk, r.node)
          \/ lun[r.node][r.disk] = a.lun /\ r.disk \notin leaving[r.node]

Answer(t, a) ==
  /\ request[t] # NoRequest
  /\ a.err = "none" /\ request[t].op = "attach" => a.lun \in LUNs
  /\ TrueAnswer(request[t], a)
  /\ request' = [request EXCEPT ![t] = NoRequest]
  /\ answer' = [answer EXCEPT ![t] = a]
  /\ UNCHANGED <<lun, leaving, present>>

Taken(t) ==
  /\ answer[t] # NoAnswer
  /\ answer' = [answer EXCEPT ![t] = NoAnswer]
  /\ UNCHANGED <<lun, leaving, present, request>>

(* The controller restarts: calls are lost, the VMs stay as they are.      *)
Restart ==
  /\ request' = [t \in Threads |-> NoRequest]
  /\ answer' = [t \in Threads |-> NoAnswer]
  /\ UNCHANGED <<lun, leaving, present>>

Answers == [lun : LUNs \cup {NoLun}, err : {"none", "error", "dangling"}]

Next ==
  \/ \E t \in Threads, op \in {"attach", "detach"}, d \in Disks, n \in Nodes : Request(t, op, d, n)
  \/ \E n \in Nodes, D, E \in SUBSET Disks : Update(n, D, E)
  \/ \E n \in Nodes, d \in Disks : Leave(n, d)
  \/ \E n \in Nodes : VMDeleted(n)
  \/ \E t \in Threads, a \in Answers : Answer(t, a)
  \/ \E t \in Threads : Taken(t)
  \/ Restart

Spec == Init /\ [][Next]_vars
=============================================================================
