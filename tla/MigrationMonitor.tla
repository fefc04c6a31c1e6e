-------------------------- MODULE MigrationMonitor --------------------------
(***************************************************************************)
(* MigrationProgressMonitor of pkg/azuredisk/migration_monitor.go: one     *)
(* goroutine per disk that is migrated to PremiumV2 polls Azure, reports   *)
(* with events on the claim and keeps a label on the volume, from which    *)
(* monitors are recovered every ten minutes and after a restart.           *)
(***************************************************************************)
EXTENDS Naturals, FiniteSets

CONSTANTS
  Disks,        \* disks, and the volume (PV) of each
  Monitors,     \* identities of the goroutines (tasks)
  SKUs,         \* what a volume's attributes may name as its SKU
  NoDisk, NoMonitor,
  Full,         \* CompletionPercent of a finished copy
  Threshold,    \* progressReportingThreshold, in the unit of Full
  MaxFailures,  \* bound: calls that fail
  MaxRestarts   \* bound: restarts of the controller

ASSUME MonitorAssumption == NoDisk \notin Disks /\ NoMonitor \notin Monitors
ASSUME PercentAssumption == Full \in Nat \ {0} /\ Threshold \in Nat \ {0}
ASSUME BoundAssumption == MaxFailures \in Nat /\ MaxRestarts \in Nat

VARIABLES
  percent,      \* Azure: how much of the disk is copied
  pv,           \* the volume: "none", "bound" or "unbound"
  named,        \* the SKU the volume's attributes name, whatever the disk has become
  label,        \* the volume has the migration-in-progress label
  migrated,     \* Azure: the disk is PremiumV2
  pending,      \* the call for the disk: "modify", "modified", "create", "done"
  activeTasks,  \* the monitor registered for the disk
  task,         \* the task of each monitor
  starting,     \* StartMigrationMonitoring under way: it has both mutexes
  listed,       \* volumes the recovery listed and has yet to start
  stop,         \* Stop: "no", "waiting" or "done"
  started, completed, timedOut,  \* which events the claim got
  failures, restarts

cluster == <<percent, migrated, pv, named, pending>>
events == <<started, completed, timedOut>>
driver == <<activeTasks, task, starting>>
bounds == <<failures, restarts>>
vars == <<cluster, label, driver, listed, stop, events, bounds>>

NoStart == [disk |-> NoDisk, monitor |-> NoMonitor, origin |-> "none", pc |-> "none"]

(* A task: where its goroutine is, what it knows, and its context. Age 0   *)
(* is before MigrationTimeout, 1 after it, 2 after maxMigrationTimeout;    *)
(* polled: a poll has ended since the context was made.                    *)
NoTask == [disk |-> NoDisk, pc |-> "none", labeled |-> FALSE, claim |-> FALSE, last |-> 0,
           cancelled |-> FALSE, timedout |-> FALSE, ctx |-> "live", polled |-> FALSE, age |-> 0]

Init ==
  /\ pending \in [Disks -> {"modify", "create"}]
  /\ migrated = [d \in Disks |-> pending[d] = "create"]
  /\ percent = [d \in Disks |-> IF migrated[d] THEN 0 ELSE Full]
  /\ pv = [d \in Disks |-> IF pending[d] = "modify" THEN "bound" ELSE "none"]
  /\ named \in [Disks -> SKUs] /\ label = [d \in Disks |-> FALSE]
  /\ activeTasks = [d \in Disks |-> NoMonitor]
  /\ task = [m \in Monitors |-> NoTask]
  /\ starting = NoStart /\ listed = {} /\ stop = "no"
  /\ started = [d \in Disks |-> FALSE] /\ completed = [d \in Disks |-> FALSE]
  /\ timedOut = [d \in Disks |-> FALSE]
  /\ failures = 0 /\ restarts = 0

Answered == UNCHANGED failures
Failed == failures < MaxFailures /\ failures' = failures + 1

Unlocked == starting = NoStart

(* An event of the disk is emitted when its claim is known, the context is *)
(* live and the claim can be read; otherwise nobody hears of it.           *)
Emit(event, d, known) ==
  \/ known /\ event' = [event EXCEPT ![d] = TRUE] /\ Answered
  \/ ~known /\ UNCHANGED event /\ Answered
  \/ known /\ UNCHANGED event /\ Failed

-----------------------------------------------------------------------------
(* StartMigrationMonitoring, which holds the mutex of the map until it     *)
(* returns: look for a monitor, read the volume (unless it is being        *)
(* provisioned), register the task, label the volume, start the goroutine  *)
(* and emit the event unless the label was there.                          *)
Registered(d, m, claim) ==
  /\ activeTasks' = [activeTasks EXCEPT ![d] = m]
  /\ task' = [task EXCEPT ![m] = [NoTask EXCEPT !.disk = d, !.claim = claim, !.pc = "new"]]

(* Mutant: the tasks are not looked up first.                              *)
BeginAnyway(d, m, origin) ==
  /\ Unlocked
  /\ origin = "create" \/ pv[d] = "bound"
  /\ task[m] = NoTask
  /\ Registered(d, m, origin # "create")
  /\ starting' = [disk |-> d, monitor |-> m, origin |-> origin, pc |-> "label"]
  /\ UNCHANGED failures

Begin(d, m, origin) ==
  /\ Unlocked /\ activeTasks[d] = NoMonitor
  /\ origin = "create" \/ pv[d] = "bound"
  /\ task[m] = NoTask
  /\ Registered(d, m, origin # "create")
  /\ starting' = [disk |-> d, monitor |-> m, origin |-> origin, pc |-> "label"]
  /\ UNCHANGED failures

(* It is monitored already, the volume has no claim or cannot be read.     *)
NotBegun(d, origin) ==
  /\ Unlocked
  /\ \/ activeTasks[d] # NoMonitor /\ Answered
     \/ activeTasks[d] = NoMonitor /\ origin # "create" /\ pv[d] # "bound" /\ Answered
     \/ activeTasks[d] = NoMonitor /\ origin # "create" /\ Failed
  /\ UNCHANGED driver

StartMigrationMonitoring(d, origin) ==
  NotBegun(d, origin) \/ \E m \in Monitors : Begin(d, m, origin)

StartLabel ==
  LET d == starting.disk  m == starting.monitor
      added == pv[d] # "none"
  IN /\ starting.pc = "label"
     /\ \/ /\ added /\ Answered
           /\ label' = [label EXCEPT ![d] = TRUE]
           /\ starting' = [starting EXCEPT !.pc = IF label[d] \/ starting.origin = "create" THEN "return" ELSE "event"]
           /\ task' = [task EXCEPT ![m].labeled = TRUE, ![m].pc = "wait"]
        \/ /\ IF added THEN Failed ELSE Answered
           /\ starting' = [starting EXCEPT !.pc = IF starting.origin = "create" THEN "return" ELSE "event"]
           /\ task' = [task EXCEPT ![m].pc = "wait"]
           /\ UNCHANGED label
     /\ UNCHANGED <<cluster, activeTasks, listed, stop, events, restarts>>

StartEvent ==
  /\ starting.pc = "event"
  /\ Emit(started, starting.disk, task[starting.monitor].claim)
  /\ starting' = [starting EXCEPT !.pc = "return"]
  /\ UNCHANGED <<cluster, label, activeTasks, task, listed, stop, completed, timedOut, restarts>>

StartReturn ==
  /\ starting.pc = "return"
  /\ starting' = NoStart
  /\ UNCHANGED <<cluster, label, activeTasks, task, listed, stop, events, bounds>>

(* ControllerModifyVolume reads the SKU and changes it. A call repeated    *)
(* for a disk that is PremiumV2 wants a monitor too, but passes its SKU as *)
(* the old one, and startSKUMigrationMonitor finds nothing to monitor. A   *)
(* call that fails is repeated; ModifyDisk may have changed the disk.      *)
ControllerModifyVolume(d) ==
  /\ pending[d] = "modify"
  /\ \/ /\ ~migrated[d] /\ Answered
        /\ migrated' = [migrated EXCEPT ![d] = TRUE] /\ percent' = [percent EXCEPT ![d] = 0]
        /\ pending' = [pending EXCEPT ![d] = "modified"]
     \/ /\ migrated[d] /\ Answered
        /\ pending' = [pending EXCEPT ![d] = "done"] /\ UNCHANGED <<migrated, percent>>
     \/ /\ Failed
        /\ \/ UNCHANGED <<migrated, percent>>
           \/ /\ ~migrated[d] /\ migrated' = [migrated EXCEPT ![d] = TRUE]
              /\ percent' = [percent EXCEPT ![d] = 0]
        /\ UNCHANGED pending
  /\ UNCHANGED <<pv, named, label, driver, listed, stop, events, restarts>>

(* startSKUMigrationMonitor, at the end of ControllerModifyVolume and of   *)
(* CreateVolume; the next item of the recovery.                            *)
startSKUMigrationMonitor(d) ==
  /\ pending[d] \in {"modified", "create"}
  /\ pending' = [pending EXCEPT ![d] = "done"]
  /\ StartMigrationMonitoring(d, IF pending[d] = "create" THEN "create" ELSE "modify")
  /\ UNCHANGED <<percent, migrated, pv, named, label, listed, stop, events, restarts>>

RecoverList ==
  /\ listed = {}
  /\ listed' = {d \in Disks : label[d] /\ pv[d] = "bound"}
  /\ UNCHANGED <<cluster, label, driver, stop, events, bounds>>

(* The SKUs of the migration are not recorded: the recovery takes them to  *)
(* be these two, and skips a volume whose attributes name another one, or  *)
(* which is none of this driver's (it counts as naming another).           *)
Recoverable(d) == named[d] \in {"none", "Premium_LRS", "PremiumV2_LRS"}

recoverMigrationMonitorsFromLabels(d) ==
  /\ d \in listed /\ listed' = listed \ {d}
  /\ \/ Recoverable(d) /\ StartMigrationMonitoring(d, "recovery")
     \/ ~Recoverable(d) /\ UNCHANGED driver /\ Answered
  /\ UNCHANGED <<cluster, label, stop, events, restarts>>

-----------------------------------------------------------------------------
(* monitorMigrationProgress of monitor m. Calls it makes with a context    *)
(* that is not live fail. TaskMutex: StartMigrationMonitoring of the task  *)
(* has returned.                                                           *)
At(m, pc) == task[m].pc = pc
Live(m) == task[m].ctx = "live"
TaskMutex(m) == starting.monitor # m
Goto(m, pc) == task' = [task EXCEPT ![m].pc = pc]

Answers(m) == Live(m) /\ Answered
Fails(m) == IF Live(m) THEN Failed ELSE Answered

monitored == <<cluster, activeTasks, starting, listed, stop, restarts>>

PollCancelled(m) ==
  /\ At(m, "wait") /\ Live(m) /\ task[m].cancelled
  /\ Goto(m, "end")
  /\ UNCHANGED <<monitored, label, events, failures>>

PollPastMax(m) ==
  /\ At(m, "wait") /\ Live(m) /\ ~task[m].cancelled /\ task[m].age = 2
  /\ Emit(timedOut, task[m].disk, task[m].claim)
  /\ Goto(m, "end")
  /\ UNCHANGED <<monitored, label, started, completed>>

(* Mutant: the poll looks neither for a cancel nor at its maximal time.    *)
PollBeginsAnyway(m) ==
  /\ At(m, "wait") /\ Live(m)
  /\ Goto(m, "label")
  /\ UNCHANGED <<monitored, label, events, failures>>

PollBegins(m) ==
  /\ At(m, "wait") /\ Live(m) /\ ~task[m].cancelled /\ task[m].age < 2
  /\ Goto(m, "label")
  /\ UNCHANGED <<monitored, label, events, failures>>

addMigrationLabelIfNotExists(m) ==
  LET d == task[m].disk
  IN /\ At(m, "label")
     /\ \/ /\ ~task[m].labeled /\ pv[d] # "none" /\ Answers(m) /\ TaskMutex(m)
           /\ label' = [label EXCEPT ![d] = TRUE]
           /\ task' = [task EXCEPT ![m].labeled = TRUE, ![m].pc = "claim"]
        \/ /\ \/ task[m].labeled /\ Answered
              \/ ~task[m].labeled /\ pv[d] = "none" /\ Answered
              \/ ~task[m].labeled /\ pv[d] # "none" /\ Fails(m)
           /\ Goto(m, "claim")
           /\ UNCHANGED label
     /\ UNCHANGED <<monitored, events>>

(* Mutant: the claim is looked up without the mutex of the task.           *)
FindClaimUnlocked(m) ==
  LET d == task[m].disk
      wanted == task[m].labeled /\ ~task[m].claim
  IN /\ At(m, "claim")
     /\ \/ /\ wanted /\ pv[d] = "bound" /\ Live(m)
           /\ Emit(started, d, TRUE)
           /\ task' = [task EXCEPT ![m].claim = TRUE, ![m].pc = "check"]
        \/ /\ IF wanted /\ pv[d] = "bound" THEN Fails(m) ELSE Answered
           /\ Goto(m, "check")
           /\ UNCHANGED started
     /\ UNCHANGED <<monitored, label, completed, timedOut>>

(* A volume that was being provisioned: find its claim, emit the event.    *)
FindClaim(m) ==
  LET d == task[m].disk
      wanted == task[m].labeled /\ ~task[m].claim
  IN /\ At(m, "claim") /\ (task[m].labeled => TaskMutex(m))
     /\ \/ /\ wanted /\ pv[d] = "bound" /\ Live(m)
           /\ Emit(started, d, TRUE)
           /\ task' = [task EXCEPT ![m].claim = TRUE, ![m].pc = "check"]
        \/ /\ IF wanted /\ pv[d] = "bound" THEN Fails(m) ELSE Answered
           /\ Goto(m, "check")
           /\ UNCHANGED started
     /\ UNCHANGED <<monitored, label, completed, timedOut>>

shouldReportProgress(current, last) ==
  current < Full /\ current \div Threshold > last \div Threshold

checkMigrationProgress(m) ==
  LET current == percent[task[m].disk]
  IN /\ At(m, "check")
     /\ \/ /\ Answers(m)
           /\ task' = [task EXCEPT
                ![m].last = IF shouldReportProgress(current, @) THEN current ELSE @,
                ![m].polled = @ \/ current < Full,
                ![m].pc = IF current >= Full THEN "completed" ELSE "wait"]
        \/ Fails(m) /\ task' = [task EXCEPT ![m].polled = TRUE, ![m].pc = "wait"]
     /\ UNCHANGED <<monitored, label, events>>

EmitCompleted(m) ==
  /\ At(m, "completed")
  /\ Emit(completed, task[m].disk, task[m].claim /\ Live(m))
  /\ Goto(m, "unlabel")
  /\ UNCHANGED <<monitored, label, started, timedOut>>

(* Mutant: the label is left.                                              *)
keepMigrationLabel(m) ==
  /\ At(m, "unlabel")
  /\ Answered /\ Goto(m, "end")
  /\ UNCHANGED <<monitored, label, events>>

removeMigrationLabel(m) ==
  LET d == task[m].disk
  IN /\ At(m, "unlabel")
     /\ \/ Answers(m) /\ label' = [label EXCEPT ![d] = FALSE]
        \/ Fails(m) /\ UNCHANGED label
     /\ Goto(m, "end")
     /\ UNCHANGED <<monitored, events>>

(* The poll ends with its context. Past MigrationTimeout it is extended    *)
(* once; the event of the timeout is emitted with the context that ended.  *)
PollEnds(m) ==
  /\ At(m, "wait") /\ ~Live(m)
  /\ Goto(m, IF task[m].ctx = "expired" /\ ~task[m].timedout THEN "timeout" ELSE "end")
  /\ UNCHANGED <<monitored, label, events, failures>>

TimeoutEvent(m) ==
  /\ At(m, "timeout") /\ TaskMutex(m)
  /\ Emit(timedOut, task[m].disk, task[m].claim /\ Live(m))
  /\ task' = [task EXCEPT ![m].timedout = TRUE, ![m].pc = IF task[m].age < 2 THEN "extend" ELSE "end"]
  /\ UNCHANGED <<monitored, label, started, completed>>

ExtendPoll(m) ==
  /\ At(m, "extend")
  /\ task' = [task EXCEPT ![m].ctx = "live", ![m].polled = FALSE, ![m].pc = "wait"]
  /\ UNCHANGED <<monitored, label, events, failures>>

MonitorEnds(m) ==
  /\ At(m, "end") /\ Unlocked
  /\ activeTasks' = [activeTasks EXCEPT ![task[m].disk] = NoMonitor]
  /\ task' = [task EXCEPT ![m] = NoTask]
  /\ UNCHANGED <<cluster, starting, listed, stop, restarts, label, events, failures>>

monitorMigrationProgress(m) ==
  \/ PollCancelled(m) \/ PollPastMax(m) \/ PollBegins(m)
  \/ addMigrationLabelIfNotExists(m) \/ FindClaim(m) \/ checkMigrationProgress(m)
  \/ EmitCompleted(m) \/ removeMigrationLabel(m)
  \/ PollEnds(m) \/ TimeoutEvent(m) \/ ExtendPoll(m) \/ MonitorEnds(m)

-----------------------------------------------------------------------------
(* Stop cancels the tasks of the map and waits, two minutes at most, until *)
(* they are gone. The process then ends and is started again.              *)
Cancel(t) ==
  IF t.pc = "none" \/ t.cancelled THEN t
  ELSE [t EXCEPT !.cancelled = TRUE, !.ctx = IF @ = "live" THEN "cancelled" ELSE @]

Stop ==
  /\ stop = "no" /\ restarts < MaxRestarts /\ Unlocked
  /\ stop' = "waiting"
  /\ task' = [m \in Monitors |-> IF \E d \in Disks : activeTasks[d] = m THEN Cancel(task[m]) ELSE task[m]]
  /\ UNCHANGED <<cluster, label, activeTasks, starting, listed, events, bounds>>

StopReturns ==
  /\ stop = "waiting" /\ stop' = "done"
  /\ UNCHANGED <<cluster, label, driver, listed, events, bounds>>

(* The process ends, after Stop or in a crash, and starts again; the       *)
(* sidecar repeats a call that was not answered.                           *)
Unanswered(d) ==
  CASE pending[d] = "modified" -> "modify"
    [] starting.disk = d /\ starting.origin \in {"modify", "create"} -> starting.origin
    [] OTHER -> pending[d]

Restart ==
  /\ restarts < MaxRestarts /\ restarts' = restarts + 1
  /\ activeTasks' = [d \in Disks |-> NoMonitor]
  /\ task' = [m \in Monitors |-> NoTask]
  /\ starting' = NoStart /\ listed' = {} /\ stop' = "no"
  /\ pending' = [d \in Disks |-> Unanswered(d)]
  /\ UNCHANGED <<percent, migrated, pv, named, label, events, failures>>

(* Azure copies; the provisioner creates the volume; the claim is cleared; *)
(* time passes, hours in which a monitor polls every minute.               *)
Copy(d) ==
  /\ percent[d] < Full
  /\ percent' = [percent EXCEPT ![d] = @ + 1]
  /\ UNCHANGED <<migrated, pv, named, pending, label, driver, listed, stop, events, bounds>>

CreatePV(d) ==
  /\ pv[d] = "none" /\ pending[d] = "done" /\ starting.disk # d
  /\ pv' = [pv EXCEPT ![d] = "bound"]
  /\ UNCHANGED <<percent, migrated, named, pending, label, driver, listed, stop, events, bounds>>

ClearClaim(d) ==
  /\ pv[d] = "bound" /\ Failed
  /\ pv' = [pv EXCEPT ![d] = "unbound"]
  /\ UNCHANGED <<percent, migrated, named, pending, label, driver, listed, stop, events, restarts>>

TimePasses(m) ==
  /\ task[m].polled /\ task[m].pc \notin {"timeout", "extend", "end"} /\ task[m].age < 2
  /\ task[m].age = 1 => task[m].timedout
  /\ task' = [task EXCEPT ![m].age = @ + 1,
                          ![m].ctx = IF task[m].age = 0 /\ @ = "live" THEN "expired" ELSE @]
  /\ UNCHANGED <<cluster, label, activeTasks, starting, listed, stop, events, bounds>>

StartStep == StartLabel \/ StartEvent \/ StartReturn

DiskStep(d) ==
  \/ ControllerModifyVolume(d) \/ startSKUMigrationMonitor(d)
  \/ recoverMigrationMonitorsFromLabels(d)
  \/ Copy(d) \/ CreatePV(d) \/ ClearClaim(d)

MonitorStep(m) == monitorMigrationProgress(m) \/ TimePasses(m)

Next ==
  \/ StartStep \/ RecoverList \/ Stop \/ StopReturns \/ Restart
  \/ \E d \in Disks : DiskStep(d)
  \/ \E m \in Monitors : MonitorStep(m)

Spec == Init /\ [][Next]_vars

(* The goroutines run, whoever waits for the mutex of the map gets it some *)
(* day (sync.Mutex is fair to waiters), and time passes. That a process    *)
(* which was stopped ends is not assumed.                                  *)
Fairness ==
  /\ WF_vars(StartStep) /\ WF_vars(RecoverList) /\ WF_vars(StopReturns)
  /\ \A d \in Disks :
       /\ WF_vars(ControllerModifyVolume(d))
       /\ SF_vars(startSKUMigrationMonitor(d))
       /\ SF_vars(recoverMigrationMonitorsFromLabels(d))
  /\ \A m \in Monitors :
       /\ WF_vars(monitorMigrationProgress(m)) /\ SF_vars(MonitorEnds(m))
       /\ WF_vars(TimePasses(m))

FairSpec == Spec /\ Fairness

-----------------------------------------------------------------------------
Origins == {"modify", "create", "recovery"}

Starts == [disk : Disks, monitor : Monitors, origin : Origins, pc : {"label", "event", "return"}]

TaskPCs == {"new", "wait", "label", "claim", "check", "completed", "unlabel", "timeout", "extend", "end"}

TaskTypes ==
  [disk : Disks, pc : TaskPCs, labeled : BOOLEAN, claim : BOOLEAN, last : 0 .. Full,
   cancelled : BOOLEAN, timedout : BOOLEAN, ctx : {"live", "expired", "cancelled"},
   polled : BOOLEAN, age : 0 .. 2]

(* The variables have their types; a task is one of a disk.                *)
TypeOK ==
  /\ percent \in [Disks -> 0 .. Full] /\ migrated \in [Disks -> BOOLEAN]
  /\ pv \in [Disks -> {"none", "bound", "unbound"}] /\ named \in [Disks -> SKUs] /\ label \in [Disks -> BOOLEAN]
  /\ pending \in [Disks -> {"modify", "modified", "create", "done"}]
  /\ activeTasks \in [Disks -> Monitors \cup {NoMonitor}]
  /\ task \in [Monitors -> TaskTypes \cup {NoTask}]
  /\ starting \in Starts \cup {NoStart} /\ listed \subseteq Disks
  /\ stop \in {"no", "waiting", "done"}
  /\ started \in [Disks -> BOOLEAN] /\ completed \in [Disks -> BOOLEAN] /\ timedOut \in [Disks -> BOOLEAN]
  /\ failures \in 0 .. MaxFailures /\ restarts \in 0 .. MaxRestarts

(* A goroutine polls a disk if and only if it is the one in activeTasks:   *)
(* recovery, a repeated call and the end of a monitor never leave two, or  *)
(* an entry that keeps the disk from being monitored again.                *)
OneMonitorPerDisk ==
  /\ \A m \in Monitors : task[m] # NoTask => activeTasks[task[m].disk] = m
  /\ \A d \in Disks : activeTasks[d] # NoMonitor => task[activeTasks[d]].disk = d

(* The claim hears of the end of a migration only after it heard of the    *)
(* beginning, although the goroutine runs before StartMigrationMonitoring  *)
(* emits that event: the mutex of the task orders them. (An event is lost  *)
(* when the API server fails or the controller is stopped or crashes.)     *)
EventsInOrder ==
  failures = 0 /\ restarts = 0 /\ stop = "no" => \A d \in Disks : completed[d] => started[d]

(* The label of a volume whose disk is copied goes, also when the monitor  *)
(* could not remove it, was stopped or crashed: recovery starts another,   *)
(* unless the volume was made with an SKU that recovery does not expect    *)
(* (its disk got one of the two later). Then the label stays for ever.     *)
Abandoned(d) == ~Recoverable(d) /\ activeTasks[d] = NoMonitor
LabelGoes ==
  \A d \in Disks :
    label[d] /\ percent[d] = Full ~> ~label[d] \/ pv[d] # "bound" \/ Abandoned(d)

(* A monitor that Stop cancelled ends, also when it is just extending its  *)
(* poll past the timeout with a new context.                               *)
CancelledEnds ==
  \A m \in Monitors : task[m].cancelled ~> ~task[m].cancelled

(* "during re-attempt, we can check this condition and set                 *)
(* monitorSKUMigration accordingly": a disk whose modification was         *)
(* answered is monitored, or labelled for the recovery, until it is copied.*)
ModifiedIsMonitored ==
  failures = 0 =>
    \A d \in Disks :
      pending[d] = "done" /\ pv[d] = "bound" /\ percent[d] < Full =>
        label[d] \/ activeTasks[d] # NoMonitor
=============================================================================
