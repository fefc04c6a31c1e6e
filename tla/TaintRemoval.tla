---------------------------- MODULE TaintRemoval ----------------------------
(***************************************************************************)
(* removeTaintInBackground of pkg/azuredisk/azuredisk.go: the node plugin  *)
(* removes the agent-not-ready taint of its node once kubelet has          *)
(* registered the driver, by what NodeGetInfo answers, and published its   *)
(* allocatable count, retrying with a back-off and then, with              *)
(* --never-stop-taint-removal, in a loop. Other controllers change the     *)
(* taints of the node at the same time.                                    *)
(***************************************************************************)
EXTENDS NodeInfo, FiniteSets

CONSTANTS
  NotReady,     \* the taint the driver removes
  Others,       \* taints of other controllers
  Steps,        \* steps of the back-off (10 in the code)
  NeverStop,    \* values of --never-stop-taint-removal to consider
  NodeTypes,    \* virtual machines and flags to consider (NodeInfo)
  MaxFailures,  \* bound: reads and attempts that fail, or that another change makes fail
  MaxTaintings  \* bound: how often the node is tainted again

VARIABLES
  taints,       \* taints of the Node object
  node,         \* the virtual machine and the flags
  registered,   \* kubelet has registered the driver
  misread,      \* what NodeGetInfo failed to read then
  allocatable,  \* the driver's allocatable count in the CSINode, 0 for none
  neverStop,    \* --never-stop-taint-removal
  pc,           \* where the goroutine is
  read,         \* the taints it read
  attempts,     \* steps of the back-off that failed
  looping,      \* it is in the never-stop loop
  failures, taintings  \* what has gone wrong so far

registration == <<node, registered, misread, allocatable>>
vars == <<taints, registration, neverStop, pc, read, attempts, looping, failures, taintings>>

Init ==
  /\ taints \in {s \cup {NotReady} : s \in SUBSET Others}
  /\ node \in NodeTypes /\ registered = FALSE /\ misread = {} /\ neverStop \in NeverStop
  /\ allocatable = 0 \/ (allocatable = MaxVolumesPerNode(node, {}) /\ allocatable > 0)
  /\ pc = "get" /\ read = {} /\ attempts = 0 /\ looping = FALSE
  /\ failures = 0 /\ taintings = 0

(* What the goroutine does with the outcome of an attempt: the back-off    *)
(* ends at a success or at its last step; the loop ends at an error.       *)
AttemptSucceeds ==
  /\ looping' = neverStop
  /\ pc' = IF neverStop THEN "get" ELSE "stopped"
  /\ UNCHANGED attempts

(* Mutant: the first error ends it.                                        *)
FailureStops == pc' = "stopped" /\ UNCHANGED <<attempts, looping>>

AttemptFails ==
  IF looping
  THEN pc' = "stopped" /\ UNCHANGED <<attempts, looping>>
  ELSE /\ attempts' = attempts + 1
       /\ looping' = (neverStop /\ attempts' = Steps)
       /\ pc' = IF attempts' < Steps \/ neverStop THEN "get" ELSE "stopped"

(* removeNotReadyTaint: read the node, check the CSINode, patch the taints *)
(* on condition that they are still the ones read.                         *)
GetNode ==
  /\ pc = "get"
  /\ pc' = "check" /\ read' = taints
  /\ UNCHANGED <<neverStop, taints, registration, attempts, looping, failures, taintings>>

NotAllocatable ==
  /\ allocatable = 0
  /\ IF registered THEN UNCHANGED failures ELSE failures < MaxFailures /\ failures' = failures + 1
  /\ AttemptFails

Allocatable ==
  /\ allocatable > 0
  /\ IF NotReady \in read
     THEN pc' = "patch" /\ UNCHANGED <<attempts, looping>>
     ELSE AttemptSucceeds
  /\ UNCHANGED failures

checkAllocatable ==
  /\ pc = "check"
  /\ NotAllocatable \/ Allocatable
  /\ UNCHANGED <<neverStop, taints, registration, read, taintings>>

(* Mutant: the patch replaces the taints without testing them.             *)
PatchUntested ==
  /\ pc = "patch"
  /\ taints' = read \ {NotReady} /\ AttemptSucceeds
  /\ UNCHANGED <<neverStop, registration, read, failures, taintings>>

PatchTaints ==
  /\ pc = "patch"
  /\ IF read = taints
     THEN taints' = read \ {NotReady} /\ AttemptSucceeds
     ELSE AttemptFails /\ UNCHANGED taints
  /\ UNCHANGED <<neverStop, registration, read, failures, taintings>>

(* The API server does not answer, a patch it applied included.            *)
RemovalFails ==
  /\ pc \in {"get", "check", "patch"}
  /\ failures < MaxFailures /\ failures' = failures + 1
  /\ AttemptFails
  /\ \/ UNCHANGED taints
     \/ pc = "patch" /\ read = taints /\ taints' = read \ {NotReady}
  /\ UNCHANGED <<neverStop, registration, read, taintings>>

(* Kubelet registers the driver when NodeGetInfo answers, and publishes a  *)
(* count that is positive.                                                 *)
Register ==
  /\ ~registered
  /\ \E failing \in SUBSET Reads :
       LET count == MaxVolumesPerNode(node, failing) IN
         /\ Made(node, failing) /\ failures' = failures + Cardinality(failing) /\ failures' <= MaxFailures
         /\ registered' = ~NodeGetInfoFails(node, failing)
         /\ misread' = IF registered' THEN failing ELSE {}
         /\ allocatable' = IF registered' THEN IF count > 0 THEN count ELSE 0 ELSE allocatable
  /\ UNCHANGED <<node, neverStop, taints, pc, read, attempts, looping, taintings>>

(* Other controllers change their taints; the node is tainted again.       *)

OtherTaint(o) ==
  /\ failures < MaxFailures /\ failures' = failures + 1
  /\ taints' = IF o \in taints THEN taints \ {o} ELSE taints \cup {o}
  /\ UNCHANGED <<neverStop, registration, pc, read, attempts, looping, taintings>>

TaintAgain ==
  /\ NotReady \notin taints
  /\ taintings < MaxTaintings /\ taintings' = taintings + 1
  /\ taints' = taints \cup {NotReady}
  /\ UNCHANGED <<neverStop, registration, pc, read, attempts, looping, failures>>

removeTaintInBackground == GetNode \/ checkAllocatable \/ PatchTaints

Next ==
  \/ removeTaintInBackground \/ RemovalFails
  \/ Register \/ TaintAgain \/ \E o \in Others : OtherTaint(o)

(* The goroutine runs, and kubelet registers the driver before the         *)
(* attempts it may fail are used up.                                       *)
Spec == Init /\ [][Next]_vars /\ WF_vars(removeTaintInBackground) /\ WF_vars(Register)

-----------------------------------------------------------------------------
(* The variables of the goroutine have their types; the back-off makes no  *)
(* more than its steps.                                                    *)
TypeOK ==
  /\ taints \subseteq Others \cup {NotReady} /\ read \subseteq Others \cup {NotReady}
  /\ node \in NodeTypes /\ registered \in BOOLEAN /\ misread \subseteq Reads /\ allocatable \in Nat
  /\ neverStop \in NeverStop /\ looping \in BOOLEAN
  /\ pc \in {"get", "check", "patch", "stopped"}
  /\ attempts \in 0 .. Steps /\ (attempts = Steps => looping = neverStop)
  /\ failures \in 0 .. MaxFailures /\ taintings \in 0 .. MaxTaintings

(* The goroutine gave up: the attempts of the back-off all failed, or one  *)
(* of the loop did; or it was done before the node was tainted again.      *)
GaveUp ==
  /\ pc = "stopped"
  /\ attempts = Steps \/ looping \/ (~neverStop /\ taintings > 0)

(* Unless the goroutine gave up, the not-ready taint goes, also when the   *)
(* node is tainted again while the never-stop loop runs.                   *)
TaintGoes == NotReady \in taints ~> NotReady \notin taints \/ GaveUp

(* A node without the not-ready taint has a count in its CSINode, so that  *)
(* no pod is scheduled to it without a limit; and it is the count of its   *)
(* virtual machine less the reserved slots, unless both the metadata and   *)
(* the labels failed to tell the type when the driver was registered       *)
(* (checkAllocatable and NodeGetInfo).                                     *)
Misled ==
  /\ node.fromLabels \/ "type" \in misread
  /\ node.label = NoType \/ misread \cap {"labels", "again"} # {}

ReadyIsLimited ==
  NotReady \notin taints =>
    /\ allocatable > 0
    /\ Misled \/ allocatable = IF node.limit >= 0 THEN node.limit ELSE GetMaxDataDiskCount(node.type) - node.reserved
=============================================================================
