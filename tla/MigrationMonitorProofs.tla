----------------------- MODULE MigrationMonitorProofs -----------------------
(***************************************************************************)
(* A disk has one monitor and its claim hears of the end of a migration    *)
(* after the beginning, for every number of disks and monitors, every      *)
(* threshold and every number of failures and restarts.                    *)
(***************************************************************************)
EXTENDS MigrationMonitor, TLAPS

(* The map and the goroutines name each other, and the start under way is  *)
(* one of a registered task that has not ended: it holds the mutex that    *)
(* the end of the monitor takes.                                           *)
StartRegistered ==
  starting # NoStart =>
    /\ activeTasks[starting.disk] = starting.monitor
    /\ starting.pc = "label" <=> task[starting.monitor].pc = "new"

NewIsStarting ==
  \A m \in Monitors : task[m].pc = "new" => starting.monitor = m /\ starting.pc = "label"

MonitorInv == TypeOK /\ OneMonitorPerDisk /\ StartRegistered /\ NewIsStarting

(* Nothing has failed and the controller has not been stopped.             *)
Undisturbed == failures = 0 /\ restarts = 0 /\ stop = "no"

(* What a task knows of its context: the timeout expires it once, and the  *)
(* poll is then extended, before maxMigrationTimeout.                      *)
ContextSound(m) ==
  /\ task[m].ctx # "cancelled" /\ ~task[m].cancelled
  /\ task[m].timedout => task[m].age # 0
  /\ task[m].ctx = "expired" => task[m].age = 1 /\ (task[m].timedout => task[m].pc = "extend")
  /\ task[m].pc = "timeout" => task[m].ctx = "expired"
  /\ task[m].pc = "extend" => task[m].ctx = "expired" /\ task[m].timedout

(* A monitor that labelled its volume and has yet to tell the claim is in  *)
(* that poll, or lost it to the timeout and gets another one whole.        *)
Owing(m) == task[m].labeled /\ ~task[m].claim

OwingTells(m) ==
  /\ pv[task[m].disk] = "bound"
  /\ \/ task[m].pc \in {"claim", "extend"}
     \/ task[m].pc \in {"check", "wait", "timeout"} /\ task[m].ctx = "expired"
     \/ /\ task[m].pc \in {"wait", "label"} /\ task[m].ctx = "live"
        /\ ~task[m].polled /\ task[m].age = 1

(* The start under way has yet to tell the claim of disk d: its monitor    *)
(* does not get past the mutex of the task.                                *)
ToldByStart(m) ==
  /\ starting.monitor = m /\ starting.pc \in {"label", "event"}
  /\ task[m].age = 0 /\ ~task[m].polled
  /\ \/ task[m].pc = "new"
     \/ task[m].labeled /\ task[m].pc \in {"wait", "label", "claim"}

ClaimsToldOf == \A m \in Monitors : task[m].claim => started[task[m].disk] \/ ToldByStart(m)

LabelsToldOf ==
  \A d \in Disks : label[d] =>
    \/ started[d]
    \/ starting.pc = "event" /\ starting.disk = d
    \/ \E m \in Monitors : task[m].disk = d /\ Owing(m)

Provisioned ==
  /\ \A d \in Disks : pv[d] # "unbound" /\ (label[d] => pv[d] = "bound")
                      /\ (pending[d] = "create" => pv[d] = "none")
  /\ starting.origin = "create" /\ starting.pc # "return" =>
       starting.pc = "label" /\ pv[starting.disk] = "none" /\ ~task[starting.monitor].claim
  /\ starting.origin \in {"modify", "recovery"} =>
       pv[starting.disk] = "bound" /\ task[starting.monitor].claim

OwedIsTold == \A m \in Monitors : ContextSound(m) /\ (Owing(m) => OwingTells(m))

EventsOrdered == \A d \in Disks : completed[d] => started[d]

EventInv ==
  Undisturbed => OwedIsTold /\ Provisioned /\ ClaimsToldOf /\ LabelsToldOf /\ EventsOrdered

-----------------------------------------------------------------------------
(* Types. A step of a monitor changes its own task, which stays the task   *)
(* of its disk.                                                            *)
LEMMA NoTaskNot == NoTask \notin TaskTypes /\ NoTask.pc = "none" /\ NoTask.disk = NoDisk
  BY MonitorAssumption DEF NoTask, TaskTypes

LEMMA ATask ==
  ASSUME TypeOK, NEW m \in Monitors, task[m].pc # "none" PROVE task[m] \in TaskTypes /\ task[m].disk \in Disks
  BY NoTaskNot DEF TypeOK, TaskTypes

(* What a step of monitor m leaves alone.                                  *)
OwnTask(m) ==
  /\ task[m] \in TaskTypes /\ task'[m] \in TaskTypes /\ task'[m].disk = task[m].disk
  /\ task'[m].pc = "new" <=> task[m].pc = "new"
  /\ task' = [task EXCEPT ![m] = task'[m]]

LEMMA MonitorMoves ==
  ASSUME TypeOK, NEW m \in Monitors, MonitorStep(m), ~MonitorEnds(m)
  PROVE OwnTask(m)
<1>1. task \in [Monitors -> TaskTypes \cup {NoTask}] /\ percent \in [Disks -> 0 .. Full] BY DEF TypeOK
<1>2. task[m].pc # "none" => task[m] \in TaskTypes /\ task[m].disk \in Disks BY ATask
<1> USE <1>1, <1>2 DEF OwnTask, TaskTypes, TaskPCs, At, Goto
<1>3. CASE PollCancelled(m) BY <1>3 DEF PollCancelled
<1>4. CASE PollPastMax(m) BY <1>4 DEF PollPastMax
<1>5. CASE PollBegins(m) BY <1>5 DEF PollBegins
<1>6. CASE addMigrationLabelIfNotExists(m) BY <1>6 DEF addMigrationLabelIfNotExists
<1>7. CASE FindClaim(m)
  <2>1. \/ task' = [task EXCEPT ![m].claim = TRUE, ![m].pc = "check"]
        \/ task' = [task EXCEPT ![m].pc = "check"]
    BY <1>7, Zenon DEF FindClaim
  <2>2. task[m] \in TaskTypes BY <1>7 DEF FindClaim
  <2> QED BY <1>7, <2>1, <2>2 DEF FindClaim
<1>8. CASE checkMigrationProgress(m)
  <2>1. task[m] \in TaskTypes /\ percent[task[m].disk] \in 0 .. Full BY <1>8 DEF checkMigrationProgress
  <2>2. \A l : (IF shouldReportProgress(percent[task[m].disk], l) THEN percent[task[m].disk] ELSE l)
                 \in {percent[task[m].disk], l}
    OBVIOUS
  <2> QED BY <1>8, <2>1, <2>2 DEF checkMigrationProgress
<1>9. CASE EmitCompleted(m) BY <1>9 DEF EmitCompleted
<1>10. CASE removeMigrationLabel(m) BY <1>10 DEF removeMigrationLabel
<1>11. CASE PollEnds(m) BY <1>11 DEF PollEnds
<1>12. CASE TimeoutEvent(m) BY <1>12 DEF TimeoutEvent
<1>13. CASE ExtendPoll(m) BY <1>13 DEF ExtendPoll
<1>14. CASE TimePasses(m)
  <2>1. task[m] \in TaskTypes BY <1>14 DEF TimePasses, NoTask
  <2>2. task[m].age + 1 \in 0 .. 2 BY <1>14, <2>1 DEF TimePasses
  <2>3. \E c \in {"expired", task[m].ctx} : task' = [task EXCEPT ![m].age = @ + 1, ![m].ctx = c]
    BY <1>14, Zenon DEF TimePasses
  <2>4. PICK c \in {"live", "expired", "cancelled"} :
               task' = [task EXCEPT ![m].age = @ + 1, ![m].ctx = c]
    BY <2>1, <2>3
  <2> QED BY <2>1, <2>2, <2>4
<1> QED BY <1>3, <1>4, <1>5, <1>6, <1>7, <1>8, <1>9, <1>10, <1>11, <1>12, <1>13, <1>14
   DEF MonitorStep, monitorMigrationProgress

(* The variables that a step of a monitor may change beside its task.      *)
RestTypeOK ==
  /\ percent \in [Disks -> 0 .. Full] /\ migrated \in [Disks -> BOOLEAN]
  /\ pv \in [Disks -> {"none", "bound", "unbound"}] /\ named \in [Disks -> SKUs] /\ label \in [Disks -> BOOLEAN]
  /\ pending \in [Disks -> {"modify", "modified", "create", "done"}]
  /\ listed \subseteq Disks /\ stop \in {"no", "waiting", "done"}
  /\ started \in [Disks -> BOOLEAN] /\ completed \in [Disks -> BOOLEAN] /\ timedOut \in [Disks -> BOOLEAN]
  /\ failures \in 0 .. MaxFailures /\ restarts \in 0 .. MaxRestarts

DriverTypeOK ==
  /\ activeTasks \in [Disks -> Monitors \cup {NoMonitor}]
  /\ task \in [Monitors -> TaskTypes \cup {NoTask}]
  /\ starting \in Starts \cup {NoStart}

LEMMA TypeSplit == TypeOK <=> RestTypeOK /\ DriverTypeOK BY DEF TypeOK, RestTypeOK, DriverTypeOK

LEMMA TypeInit == Init => TypeOK
<1> SUFFICES ASSUME Init PROVE TypeOK OBVIOUS
<1>1. DriverTypeOK BY DEF Init, DriverTypeOK
<1>2. /\ percent \in [Disks -> 0 .. Full] /\ failures \in 0 .. MaxFailures
      /\ restarts \in 0 .. MaxRestarts
  BY PercentAssumption, BoundAssumption DEF Init
<1>3. /\ pv \in [Disks -> {"none", "bound", "unbound"}] /\ migrated \in [Disks -> BOOLEAN]
      /\ pending \in [Disks -> {"modify", "modified", "create", "done"}]
  BY DEF Init
<1>4. RestTypeOK BY <1>2, <1>3 DEF Init, RestTypeOK
<1> QED BY <1>1, <1>4, TypeSplit

LEMMA FailureTypes ==
  ASSUME RestTypeOK, Answered \/ Failed PROVE failures' \in 0 .. MaxFailures
  BY BoundAssumption DEF RestTypeOK, Answered, Failed

LEMMA MonitorTypes ==
  ASSUME TypeOK, NEW m \in Monitors, MonitorStep(m) PROVE TypeOK'
<1>1. RestTypeOK /\ DriverTypeOK /\ UNCHANGED starting
  BY TypeSplit DEF MonitorStep, monitorMigrationProgress, PollCancelled, PollPastMax, PollBegins,
     addMigrationLabelIfNotExists, FindClaim, checkMigrationProgress, EmitCompleted,
     removeMigrationLabel, PollEnds, TimeoutEvent, ExtendPoll, MonitorEnds, TimePasses, monitored
<1>2. CASE MonitorEnds(m)
  <2>1. DriverTypeOK' BY <1>1, <1>2 DEF MonitorEnds, DriverTypeOK
  <2>2. RestTypeOK' BY <1>1, <1>2 DEF MonitorEnds, RestTypeOK, cluster, events
  <2> QED BY <2>1, <2>2 DEF TypeOK, RestTypeOK, DriverTypeOK
<1>3. CASE ~MonitorEnds(m)
  <2>1. OwnTask(m) BY <1>3, MonitorMoves
  <2>2. UNCHANGED activeTasks
    BY <1>3 DEF MonitorStep, monitorMigrationProgress, PollCancelled, PollPastMax, PollBegins,
     addMigrationLabelIfNotExists, FindClaim, checkMigrationProgress, EmitCompleted,
     removeMigrationLabel, PollEnds, TimeoutEvent, ExtendPoll, TimePasses, monitored
  <2>3. DriverTypeOK' BY <1>1, <2>1, <2>2 DEF OwnTask, DriverTypeOK
  <2>4. RestTypeOK'
    <3>0. failures' \in 0 .. MaxFailures
      BY <1>1, <1>3, FailureTypes DEF MonitorStep, monitorMigrationProgress, PollCancelled, PollPastMax, PollBegins,
     addMigrationLabelIfNotExists, FindClaim, checkMigrationProgress, EmitCompleted,
     removeMigrationLabel, PollEnds, TimeoutEvent, ExtendPoll, TimePasses, monitored, Emit, Answers, Fails, Answered, bounds
    <3> USE <1>1, <3>0 DEF RestTypeOK, monitored, cluster, events, bounds, Emit
    <3>1. CASE PollCancelled(m) \/ PollBegins(m) \/ PollEnds(m) \/ ExtendPoll(m) \/ TimePasses(m)
      BY <3>1 DEF PollCancelled, PollBegins, PollEnds, ExtendPoll, TimePasses
    <3>2. CASE PollPastMax(m) BY <3>2 DEF PollPastMax
    <3>3. CASE addMigrationLabelIfNotExists(m) BY <3>3 DEF addMigrationLabelIfNotExists
    <3>4. CASE FindClaim(m) BY <3>4 DEF FindClaim
    <3>5. CASE checkMigrationProgress(m) BY <3>5 DEF checkMigrationProgress
    <3>6. CASE EmitCompleted(m) BY <3>6 DEF EmitCompleted
    <3>7. CASE removeMigrationLabel(m) BY <3>7 DEF removeMigrationLabel
    <3>8. CASE TimeoutEvent(m) BY <3>8 DEF TimeoutEvent
    <3> QED BY <1>3, <3>1, <3>2, <3>3, <3>4, <3>5, <3>6, <3>7, <3>8
       DEF MonitorStep, monitorMigrationProgress
  <2> QED BY <2>3, <2>4 DEF TypeOK, RestTypeOK, DriverTypeOK
<1> QED BY <1>2, <1>3

LEMMA BeginTypes ==
  ASSUME DriverTypeOK, NEW d \in Disks, NEW m \in Monitors, NEW origin \in Origins, Begin(d, m, origin)
  PROVE DriverTypeOK'
<1>1. ASSUME NEW c \in BOOLEAN PROVE [NoTask EXCEPT !.disk = d, !.claim = c, !.pc = "new"] \in TaskTypes
  <2> DEFINE Any == [disk : Disks \cup {NoDisk}, pc : TaskPCs \cup {"none"}, labeled : BOOLEAN,
                     claim : BOOLEAN, last : 0 .. Full, cancelled : BOOLEAN, timedout : BOOLEAN,
                     ctx : {"live", "expired", "cancelled"}, polled : BOOLEAN, age : 0 .. 2]
  <2>1. NoTask \in Any BY PercentAssumption DEF NoTask
  <2>2. [NoTask EXCEPT !.disk = d] \in [disk : Disks, pc : TaskPCs \cup {"none"}, labeled : BOOLEAN,
                     claim : BOOLEAN, last : 0 .. Full, cancelled : BOOLEAN, timedout : BOOLEAN,
                     ctx : {"live", "expired", "cancelled"}, polled : BOOLEAN, age : 0 .. 2]
    BY <2>1
  <2>3. [[NoTask EXCEPT !.disk = d] EXCEPT !.pc = "new"] \in TaskTypes BY <2>2 DEF TaskTypes, TaskPCs
  <2>4. [[[NoTask EXCEPT !.disk = d] EXCEPT !.pc = "new"] EXCEPT !.claim = c] \in TaskTypes
    BY <2>3 DEF TaskTypes
  <2>5. [NoTask EXCEPT !.disk = d, !.claim = c, !.pc = "new"] =
          [[[NoTask EXCEPT !.disk = d] EXCEPT !.pc = "new"] EXCEPT !.claim = c]
    BY DEF NoTask
  <2> QED BY <2>4, <2>5
<1>2. PICK c \in BOOLEAN : Registered(d, m, c) BY DEF Begin
<1>3. activeTasks' \in [Disks -> Monitors \cup {NoMonitor}] BY <1>2 DEF Registered, DriverTypeOK
<1>4. task' \in [Monitors -> TaskTypes \cup {NoTask}] BY <1>1, <1>2 DEF Registered, DriverTypeOK
<1>5. starting' \in Starts BY DEF Begin, Starts, Origins
<1> QED BY <1>3, <1>4, <1>5 DEF DriverTypeOK

LEMMA DiskTypes ==
  ASSUME TypeOK, NEW d \in Disks, DiskStep(d) PROVE TypeOK'
<1>1. RestTypeOK /\ DriverTypeOK BY TypeSplit
<1>2. SUFFICES RestTypeOK' /\ DriverTypeOK' BY DEF TypeOK, RestTypeOK, DriverTypeOK
<1>3. CASE startSKUMigrationMonitor(d) \/ recoverMigrationMonitorsFromLabels(d)
  <2>1. PICK origin \in Origins : StartMigrationMonitoring(d, origin) \/ (UNCHANGED driver /\ Answered)
    BY <1>3 DEF startSKUMigrationMonitor, recoverMigrationMonitorsFromLabels, Origins
  <2>2. DriverTypeOK'
    <3>1. CASE UNCHANGED driver BY <1>1, <3>1 DEF driver, DriverTypeOK
    <3>2. CASE NotBegun(d, origin) BY <3>1, <3>2 DEF NotBegun
    <3> QED BY <1>1, <2>1, <3>1, <3>2, BeginTypes DEF StartMigrationMonitoring
  <2>3. failures' \in 0 .. MaxFailures
    BY <1>1, <2>1, FailureTypes DEF StartMigrationMonitoring, NotBegun, Begin, Answered
  <2>4. RestTypeOK'
    BY <1>1, <1>3, <2>3 DEF startSKUMigrationMonitor, recoverMigrationMonitorsFromLabels, RestTypeOK,
       cluster, events
  <2> QED BY <2>2, <2>4
<1>4. CASE ControllerModifyVolume(d) \/ Copy(d) \/ CreatePV(d) \/ ClearClaim(d)
  <2>1. DriverTypeOK'
    BY <1>1, <1>4 DEF ControllerModifyVolume, Copy, CreatePV, ClearClaim, driver, DriverTypeOK
  <2>6. failures' \in 0 .. MaxFailures
    BY <1>1, <1>4, FailureTypes DEF ControllerModifyVolume, Copy, CreatePV, ClearClaim, Answered, bounds
  <2> USE <1>1, <2>1, <2>6, PercentAssumption DEF RestTypeOK, events, bounds
  <2>2. CASE ControllerModifyVolume(d)
    <3>1. /\ migrated' = migrated \/ migrated' = [migrated EXCEPT ![d] = TRUE]
          /\ percent' = percent \/ percent' = [percent EXCEPT ![d] = 0]
      BY <2>2, Zenon DEF ControllerModifyVolume
    <3>2. migrated' \in [Disks -> BOOLEAN] BY <3>1
    <3>3. 0 \in 0 .. Full /\ percent \in [Disks -> 0 .. Full] OBVIOUS
    <3>4. percent' \in [Disks -> 0 .. Full] BY <3>1, <3>3
    <3>5. pending' \in [Disks -> {"modify", "modified", "create", "done"}]
      BY <2>2 DEF ControllerModifyVolume
    <3> QED BY <2>2, <3>4, <3>5, <3>2 DEF ControllerModifyVolume
  <2>3. CASE Copy(d) BY <2>3 DEF Copy
  <2>4. CASE CreatePV(d) BY <2>4 DEF CreatePV
  <2>5. CASE ClearClaim(d) BY <2>5 DEF ClearClaim
  <2> QED BY <1>4, <2>1, <2>2, <2>3, <2>4, <2>5
<1> QED BY <1>3, <1>4 DEF DiskStep

LEMMA TypeNext == TypeOK /\ StartRegistered /\ [Next]_vars => TypeOK'
<1> SUFFICES ASSUME TypeOK, StartRegistered, [Next]_vars PROVE RestTypeOK' /\ DriverTypeOK'
  BY DEF TypeOK, RestTypeOK, DriverTypeOK
<1>1. RestTypeOK /\ DriverTypeOK BY TypeSplit
<1>2. ASSUME TypeOK' PROVE RestTypeOK' /\ DriverTypeOK' BY <1>2 DEF TypeOK, RestTypeOK, DriverTypeOK
<1>3. ASSUME NEW m \in Monitors, MonitorStep(m) PROVE RestTypeOK' /\ DriverTypeOK' BY <1>2, <1>3, MonitorTypes
<1>4. ASSUME NEW d \in Disks, DiskStep(d) PROVE RestTypeOK' /\ DriverTypeOK' BY <1>2, <1>4, DiskTypes
<1> USE <1>1
<1>5. CASE StartStep
  <2>1. starting \in Starts /\ starting.monitor \in Monitors /\ starting.disk \in Disks
    BY <1>5 DEF StartStep, StartLabel, StartEvent, StartReturn, DriverTypeOK, Starts, NoStart
  <2>2. starting' \in Starts \cup {NoStart}
    BY <1>5, <2>1 DEF StartStep, StartLabel, StartEvent, StartReturn, Starts
  <2>3. task' \in [Monitors -> TaskTypes \cup {NoTask}]
    <3>1. CASE UNCHANGED task BY <3>1 DEF DriverTypeOK
    <3>2. CASE StartLabel
      <4> DEFINE m == starting.monitor
      <4>1. \/ task' = [task EXCEPT ![m].labeled = TRUE, ![m].pc = "wait"]
            \/ task' = [task EXCEPT ![m].pc = "wait"]
        BY <3>2, Zenon DEF StartLabel
      <4>2. starting.pc = "label" /\ starting # NoStart BY <3>2 DEF StartLabel, NoStart
      <4>3. task[m].pc = "new" BY <4>2 DEF StartRegistered
      <4>4. task[m] \in TaskTypes BY <2>1, <4>3, NoTaskNot DEF DriverTypeOK
      <4>5. /\ [task[m] EXCEPT !.pc = "wait"] \in TaskTypes
            /\ [task[m] EXCEPT !.labeled = TRUE, !.pc = "wait"] \in TaskTypes
        BY <4>4 DEF TaskTypes, TaskPCs
      <4>6. task'[m] \in TaskTypes BY <2>1, <4>1, <4>5 DEF DriverTypeOK
      <4> QED BY <2>1, <4>1, <4>6 DEF DriverTypeOK
    <3> QED BY <1>5, <3>1, <3>2 DEF StartStep, StartEvent, StartReturn
  <2>4. DriverTypeOK'
    BY <1>5, <2>2, <2>3 DEF StartStep, StartLabel, StartEvent, StartReturn, DriverTypeOK
  <2>5. failures' \in 0 .. MaxFailures
    BY <1>5, FailureTypes DEF StartStep, StartLabel, StartEvent, StartReturn, Emit, Answered, bounds
  <2>6. started' \in [Disks -> BOOLEAN] /\ label' \in [Disks -> BOOLEAN]
    BY <1>5, <2>1 DEF StartStep, StartLabel, StartEvent, StartReturn, Emit, RestTypeOK, events
  <2>7. RestTypeOK'
    BY <1>5, <2>5, <2>6 DEF StartStep, StartLabel, StartEvent, StartReturn, RestTypeOK, cluster, events, bounds
  <2> QED BY <2>4, <2>7
<1>6. CASE RecoverList \/ StopReturns
  BY <1>6 DEF RecoverList, StopReturns, RestTypeOK, DriverTypeOK, cluster, driver, events, bounds
<1>7. CASE Stop
  <2>1. ASSUME NEW t \in TaskTypes \cup {NoTask} PROVE Cancel(t) \in TaskTypes \cup {NoTask}
    BY NoTaskNot DEF Cancel, TaskTypes
  <2>2. task' \in [Monitors -> TaskTypes \cup {NoTask}] BY <1>7, <2>1 DEF Stop, DriverTypeOK
  <2> QED BY <1>7, <2>2 DEF Stop, RestTypeOK, DriverTypeOK, cluster, events, bounds
<1>8. CASE Restart
  <2>1. restarts' \in 0 .. MaxRestarts BY <1>8, BoundAssumption DEF Restart, RestTypeOK
  <2>2. \A d \in Disks : Unanswered(d) \in {"modify", "modified", "create", "done"}
    BY DEF Unanswered, RestTypeOK
  <2>3. pending' \in [Disks -> {"modify", "modified", "create", "done"}] BY <1>8, <2>2 DEF Restart
  <2> QED BY <1>8, <2>1, <2>3 DEF Restart, RestTypeOK, DriverTypeOK, events
<1>9. CASE UNCHANGED vars BY <1>9 DEF vars, RestTypeOK, DriverTypeOK, cluster, driver, events, bounds
<1> QED BY <1>3, <1>4, <1>5, <1>6, <1>7, <1>8, <1>9 DEF Next

-----------------------------------------------------------------------------
(* The map and the goroutines. A step that keeps the map, the start and    *)
(* the disk of every task keeps them in step.                              *)
LEMMA RegisteredKept ==
  ASSUME MonitorInv, UNCHANGED <<activeTasks, starting>>,
         \A m \in Monitors :
           /\ task'[m].disk = task[m].disk /\ (task'[m] = NoTask <=> task[m] = NoTask)
           /\ task'[m].pc = "new" <=> task[m].pc = "new"
  PROVE OneMonitorPerDisk' /\ StartRegistered' /\ NewIsStarting'
<1>1. activeTasks \in [Disks -> Monitors \cup {NoMonitor}] /\ starting \in Starts \cup {NoStart}
  BY DEF MonitorInv, TypeOK
<1>2. OneMonitorPerDisk' BY <1>1 DEF MonitorInv, OneMonitorPerDisk
<1>3. StartRegistered' BY <1>1 DEF MonitorInv, StartRegistered, Starts
<1>4. NewIsStarting' BY DEF MonitorInv, NewIsStarting
<1> QED BY <1>2, <1>3, <1>4

LEMMA MonitorStepRegistered ==
  ASSUME MonitorInv, NEW m \in Monitors, MonitorStep(m)
  PROVE OneMonitorPerDisk' /\ StartRegistered' /\ NewIsStarting'
<1>1. TypeOK /\ task \in [Monitors -> TaskTypes \cup {NoTask}]
      /\ activeTasks \in [Disks -> Monitors \cup {NoMonitor}] BY DEF MonitorInv, TypeOK
<1>2. CASE MonitorEnds(m)
  <2>1. /\ starting = NoStart /\ UNCHANGED starting /\ task[m].pc = "end" /\ task' = [task EXCEPT ![m] = NoTask]
        /\ activeTasks' = [activeTasks EXCEPT ![task[m].disk] = NoMonitor]
    BY <1>2 DEF MonitorEnds, Unlocked, At
  <2>2. task[m] \in TaskTypes /\ task[m].disk \in Disks /\ task[m] # NoTask BY <1>1, <2>1, ATask, NoTaskNot
  <2>3. OneMonitorPerDisk'
    BY <1>1, <2>1, <2>2, NoTaskNot, MonitorAssumption DEF MonitorInv, OneMonitorPerDisk
  <2>4. StartRegistered' BY <2>1 DEF StartRegistered
  <2>5. NewIsStarting' BY <1>1, <2>1, NoTaskNot DEF MonitorInv, NewIsStarting
  <2> QED BY <2>3, <2>4, <2>5
<1>3. CASE ~MonitorEnds(m)
  <2>1. UNCHANGED <<activeTasks, starting>>
    BY <1>3 DEF MonitorStep, monitorMigrationProgress, PollCancelled, PollPastMax, PollBegins,
     addMigrationLabelIfNotExists, FindClaim, checkMigrationProgress, EmitCompleted,
     removeMigrationLabel, PollEnds, TimeoutEvent, ExtendPoll, TimePasses, monitored
  <2>2. OwnTask(m) BY <1>1, <1>3, MonitorMoves
  <2>3. \A n \in Monitors :
           /\ task'[n].disk = task[n].disk /\ (task'[n] = NoTask <=> task[n] = NoTask)
           /\ task'[n].pc = "new" <=> task[n].pc = "new"
    BY <1>1, <2>2, NoTaskNot DEF OwnTask
  <2> QED BY <2>1, <2>3, RegisteredKept
<1> QED BY <1>2, <1>3

LEMMA BeginRegistered ==
  ASSUME MonitorInv, NEW d \in Disks, NEW m \in Monitors, NEW origin, Begin(d, m, origin)
  PROVE OneMonitorPerDisk' /\ StartRegistered' /\ NewIsStarting'
<1>1. task \in [Monitors -> TaskTypes \cup {NoTask}] /\ activeTasks \in [Disks -> Monitors \cup {NoMonitor}]
  BY DEF MonitorInv, TypeOK
<1>2. /\ activeTasks[d] = NoMonitor /\ task[m] = NoTask /\ starting = NoStart
      /\ activeTasks' = [activeTasks EXCEPT ![d] = m]
      /\ starting' = [disk |-> d, monitor |-> m, origin |-> origin, pc |-> "label"]
  BY DEF Begin, Unlocked, Registered
<1>3. /\ task'[m].disk = d /\ task'[m].pc = "new"
      /\ \A n \in Monitors \ {m} : task'[n] = task[n]
  BY <1>1 DEF Begin, Registered, NoTask
<1>4. \A e \in Disks : activeTasks[e] # m
  BY <1>1, <1>2, NoTaskNot, MonitorAssumption DEF MonitorInv, OneMonitorPerDisk
<1>5. task'[m] # NoTask BY <1>3, NoTaskNot
<1>6. OneMonitorPerDisk'
  <2>1. \A n \in Monitors : task[n] # NoTask => task[n].disk \in Disks BY <1>1 DEF TaskTypes
  <2> QED BY <1>1, <1>2, <1>3, <1>4, <1>5, <2>1, MonitorAssumption DEF MonitorInv, OneMonitorPerDisk
<1>7. StartRegistered' BY <1>1, <1>2, <1>3 DEF StartRegistered
<1>8. \A n \in Monitors : task[n].pc # "new"
  BY <1>2, MonitorAssumption DEF MonitorInv, NewIsStarting, NoStart
<1>9. NewIsStarting' BY <1>2, <1>3, <1>8 DEF NewIsStarting
<1> QED BY <1>6, <1>7, <1>9

LEMMA MonitorInvInit == Init => MonitorInv
<1> SUFFICES ASSUME Init PROVE OneMonitorPerDisk /\ StartRegistered /\ NewIsStarting
  BY TypeInit DEF MonitorInv
<1> QED BY NoTaskNot DEF Init, OneMonitorPerDisk, StartRegistered, NewIsStarting

LEMMA MonitorInvNext == MonitorInv /\ [Next]_vars => MonitorInv'
<1> DEFINE Kept == OneMonitorPerDisk' /\ StartRegistered' /\ NewIsStarting'
<1> SUFFICES ASSUME MonitorInv, [Next]_vars PROVE Kept BY TypeNext DEF MonitorInv
<1>1. TypeOK /\ StartRegistered /\ task \in [Monitors -> TaskTypes \cup {NoTask}] /\ starting \in Starts \cup {NoStart}
  BY DEF MonitorInv, TypeOK
<1>2. ASSUME NEW m \in Monitors, MonitorStep(m) PROVE Kept BY <1>2, MonitorStepRegistered
<1>3. CASE UNCHANGED driver BY <1>3, RegisteredKept DEF driver
<1>4. ASSUME NEW d \in Disks, DiskStep(d) PROVE Kept
  <2>1. CASE startSKUMigrationMonitor(d) \/ recoverMigrationMonitorsFromLabels(d)
    <3>1. PICK origin : StartMigrationMonitoring(d, origin) \/ UNCHANGED driver
      BY <2>1 DEF startSKUMigrationMonitor, recoverMigrationMonitorsFromLabels
    <3>2. CASE NotBegun(d, origin) BY <1>3, <3>2 DEF NotBegun
    <3> QED BY <1>3, <3>1, <3>2, BeginRegistered DEF StartMigrationMonitoring
  <2>2. CASE ControllerModifyVolume(d) \/ Copy(d) \/ CreatePV(d) \/ ClearClaim(d)
    <3>1. UNCHANGED driver BY <2>2, Zenon DEF ControllerModifyVolume, Copy, CreatePV, ClearClaim
    <3> QED BY <1>3, <3>1
  <2> QED BY <1>4, <2>1, <2>2 DEF DiskStep
<1>5. CASE StartLabel
  <2>1. /\ starting.pc = "label" /\ starting'.pc \in {"event", "return"} /\ UNCHANGED activeTasks
        /\ starting'.disk = starting.disk /\ starting'.monitor = starting.monitor
    BY <1>1, <1>5 DEF StartLabel, Starts, NoStart
  <2> DEFINE m == starting.monitor
  <2>2. starting \in Starts /\ starting # NoStart /\ m \in Monitors BY <1>1, <2>1 DEF Starts, NoStart
  <2>3. task[m].pc = "new" /\ task[m] \in TaskTypes BY <1>1, <2>1, <2>2, NoTaskNot DEF StartRegistered
  <2>4. \/ task' = [task EXCEPT ![m].labeled = TRUE, ![m].pc = "wait"]
        \/ task' = [task EXCEPT ![m].pc = "wait"]
    BY <1>5, Zenon DEF StartLabel
  <2>5. /\ task'[m].pc = "wait" /\ task'[m].disk = task[m].disk
        /\ \A n \in Monitors \ {m} : task'[n] = task[n]
    BY <1>1, <2>2, <2>3, <2>4 DEF TaskTypes
  <2>6. task'[m] # NoTask /\ task[m] # NoTask BY <2>3, <2>5, NoTaskNot
  <2>7. OneMonitorPerDisk' BY <1>1, <2>1, <2>2, <2>5, <2>6 DEF MonitorInv, OneMonitorPerDisk, TypeOK
  <2>8. StartRegistered' BY <1>1, <2>1, <2>2, <2>5 DEF StartRegistered, NoStart
  <2>9. NewIsStarting' BY <2>2, <2>5, <2>1 DEF MonitorInv, NewIsStarting
  <2> QED BY <2>7, <2>8, <2>9
<1>6. CASE StartEvent \/ StartReturn
  <2>1. /\ UNCHANGED <<activeTasks, task>> /\ starting \in Starts /\ starting.pc # "label"
        /\ starting' = NoStart \/ (starting'.pc = "return" /\ starting'.disk = starting.disk
                                  /\ starting'.monitor = starting.monitor)
    BY <1>1, <1>6 DEF StartEvent, StartReturn, Starts, NoStart
  <2>2. OneMonitorPerDisk' BY <2>1 DEF MonitorInv, OneMonitorPerDisk
  <2>3. \A n \in Monitors : task[n].pc # "new" BY <2>1 DEF MonitorInv, NewIsStarting
  <2>4. NewIsStarting' BY <2>1, <2>3 DEF NewIsStarting
  <2>5. StartRegistered' BY <1>1, <2>1, <2>3 DEF StartRegistered, Starts, NoStart
  <2> QED BY <2>2, <2>4, <2>5
<1>7. CASE Stop
  <2>1. UNCHANGED <<activeTasks, starting>> BY <1>7 DEF Stop
  <2>2. ASSUME NEW t \in TaskTypes \cup {NoTask}
        PROVE Cancel(t).disk = t.disk /\ Cancel(t).pc = t.pc /\ (Cancel(t) = NoTask <=> t = NoTask)
    BY NoTaskNot DEF Cancel, TaskTypes, NoTask
  <2>3. \A m \in Monitors : task'[m] = task[m] \/ task'[m] = Cancel(task[m]) BY <1>7 DEF Stop
  <2> QED BY <1>1, <2>1, <2>2, <2>3, RegisteredKept
<1>8. CASE Restart
  BY <1>8, NoTaskNot DEF Restart, OneMonitorPerDisk, StartRegistered, NewIsStarting
<1>9. CASE RecoverList \/ StopReturns \/ UNCHANGED vars BY <1>3, <1>9 DEF RecoverList, StopReturns, vars
<1> QED BY <1>2, <1>4, <1>5, <1>6, <1>7, <1>8, <1>9 DEF Next, StartStep

(* Every variable of the monitor keeps its type: a registered task is one  *)
(* of a disk whatever was cancelled, extended or restarted.                *)
THEOREM TypeCorrect == Spec => []TypeOK
<1>1. MonitorInv => TypeOK BY DEF MonitorInv
<1> QED BY <1>1, MonitorInvInit, MonitorInvNext, PTL DEF Spec

(* A disk never has two monitors, nor an entry in activeTasks without one: *)
(* StartMigrationMonitoring and the end of a monitor exclude each other.   *)
THEOREM OneMonitor == Spec => []OneMonitorPerDisk
<1>1. MonitorInv => OneMonitorPerDisk BY DEF MonitorInv
<1> QED BY <1>1, MonitorInvInit, MonitorInvNext, PTL DEF Spec

-----------------------------------------------------------------------------
(* The order of the events. A step that nothing disturbs.                  *)
Calm == MonitorInv /\ Undisturbed /\ UNCHANGED <<failures, restarts, stop>>

LEMMA CalmAnswers == ASSUME Calm PROVE ~Failed BY DEF Calm, Undisturbed, Failed

LEMMA StaysCalm ==
  ASSUME MonitorInv, [Next]_vars, Undisturbed'
  PROVE Calm /\ ~Stop /\ ~StopReturns /\ ~Restart
<1>1. failures \in Nat /\ restarts \in Nat BY BoundAssumption DEF MonitorInv, TypeOK
<1>2. ~Restart BY <1>1 DEF Restart, Undisturbed
<1>3. ~Stop /\ ~StopReturns BY DEF Stop, StopReturns, Undisturbed
<1>4. UNCHANGED <<restarts, stop>>
  BY <1>2, <1>3, Zenon DEF Next, StartStep, StartLabel, StartEvent, StartReturn, RecoverList, DiskStep,
     ControllerModifyVolume, startSKUMigrationMonitor, recoverMigrationMonitorsFromLabels, Copy,
     CreatePV, ClearClaim, MonitorStep, monitorMigrationProgress, PollCancelled, PollPastMax, PollBegins,
     addMigrationLabelIfNotExists, FindClaim, checkMigrationProgress, EmitCompleted,
     removeMigrationLabel, PollEnds, TimeoutEvent, ExtendPoll, MonitorEnds, TimePasses, monitored,
     bounds, vars
<1>5. failures' = failures \/ failures' = failures + 1
  <2>1. Answered \/ Failed
    BY <1>2, <1>3, Zenon DEF Next, StartStep, StartLabel, StartEvent, StartReturn, RecoverList, DiskStep,
     ControllerModifyVolume, startSKUMigrationMonitor, recoverMigrationMonitorsFromLabels,
     StartMigrationMonitoring, NotBegun, Begin, Copy,
     CreatePV, ClearClaim, MonitorStep, monitorMigrationProgress, PollCancelled, PollPastMax, PollBegins,
     addMigrationLabelIfNotExists, FindClaim, checkMigrationProgress, EmitCompleted,
     removeMigrationLabel, PollEnds, TimeoutEvent, ExtendPoll, MonitorEnds, TimePasses, monitored,
     bounds, vars, Emit, Answers, Fails, Answered
  <2> QED BY <2>1 DEF Answered, Failed
<1> QED BY <1>1, <1>2, <1>3, <1>4, <1>5 DEF Undisturbed, Calm

(* What a step of monitor m does to the label and the events, calmly.      *)
Tells(m) ==
  /\ \A d \in Disks : started[d] => started'[d]
  /\ \A d \in Disks : label'[d] =>
       label[d] \/ (d = task[m].disk /\ pv[d] # "none" /\ task[m].pc = "label" /\ task'[m].labeled)
  /\ \A d \in Disks : completed'[d] =>
       completed[d] \/ (d = task[m].disk /\ task[m].claim /\ task[m].pc = "completed")
  /\ task[m].labeled => task'[m].labeled
  /\ task[m].claim => task'[m].claim
  /\ task'[m].claim => task[m].claim \/ started'[task[m].disk]

LEMMA MonitorTells ==
  ASSUME Calm, NEW m \in Monitors, MonitorStep(m), ~MonitorEnds(m)
  PROVE Tells(m)
<1>1. /\ task \in [Monitors -> TaskTypes \cup {NoTask}] /\ label \in [Disks -> BOOLEAN]
      /\ started \in [Disks -> BOOLEAN] /\ completed \in [Disks -> BOOLEAN] /\ TypeOK
  BY DEF Calm, MonitorInv, TypeOK
<1>2. task[m] \in TaskTypes /\ task[m].disk \in Disks BY <1>1, MonitorMoves DEF OwnTask, TaskTypes
<1> USE <1>1, <1>2, CalmAnswers DEF Tells, TaskTypes, At, Goto, Emit, events, Fails, Answers
<1>3. CASE PollCancelled(m) BY <1>3 DEF PollCancelled
<1>4. CASE PollPastMax(m) BY <1>4 DEF PollPastMax
<1>5. CASE PollBegins(m) BY <1>5 DEF PollBegins
<1>6. CASE addMigrationLabelIfNotExists(m) BY <1>6 DEF addMigrationLabelIfNotExists
<1>7. CASE FindClaim(m) BY <1>7 DEF FindClaim
<1>8. CASE checkMigrationProgress(m) BY <1>8 DEF checkMigrationProgress
<1>9. CASE EmitCompleted(m) BY <1>9 DEF EmitCompleted
<1>10. CASE removeMigrationLabel(m) BY <1>10 DEF removeMigrationLabel
<1>11. CASE PollEnds(m) BY <1>11 DEF PollEnds
<1>12. CASE TimeoutEvent(m) BY <1>12 DEF TimeoutEvent
<1>13. CASE ExtendPoll(m) BY <1>13 DEF ExtendPoll
<1>14. CASE TimePasses(m) BY <1>14 DEF TimePasses
<1> QED BY <1>3, <1>4, <1>5, <1>6, <1>7, <1>8, <1>9, <1>10, <1>11, <1>12, <1>13, <1>14
   DEF MonitorStep, monitorMigrationProgress

(* A monitor that owes an event does not lose its poll for good.           *)
LEMMA MonitorOwes ==
  ASSUME Calm, Provisioned, NEW m \in Monitors, MonitorStep(m), ~MonitorEnds(m),
         ContextSound(m), Owing(m) => OwingTells(m)
  PROVE ContextSound(m)' /\ (Owing(m)' => OwingTells(m)')
<1>1. TypeOK /\ task \in [Monitors -> TaskTypes \cup {NoTask}] /\ pv \in [Disks -> {"none", "bound", "unbound"}]
  BY DEF Calm, MonitorInv, TypeOK
<1>2. /\ task[m] \in TaskTypes /\ task'[m].disk = task[m].disk /\ task[m].disk \in Disks
      /\ UNCHANGED pv
  BY <1>1, MonitorMoves DEF OwnTask, TaskTypes, MonitorStep, monitorMigrationProgress, PollCancelled,
     PollPastMax, PollBegins, addMigrationLabelIfNotExists, FindClaim, checkMigrationProgress,
     EmitCompleted, removeMigrationLabel, PollEnds, TimeoutEvent, ExtendPoll, TimePasses, monitored,
     cluster
<1>3. pv[task[m].disk] \in {"none", "bound"} BY <1>1, <1>2 DEF Provisioned
<1> USE <1>1, <1>2, <1>3, CalmAnswers DEF ContextSound, Owing, OwingTells, TaskTypes, At, Goto, Live,
        Fails, Answers
<1>4. CASE PollCancelled(m) BY <1>4 DEF PollCancelled
<1>5. CASE PollPastMax(m) BY <1>5 DEF PollPastMax
<1>6. CASE PollBegins(m) BY <1>6 DEF PollBegins
<1>7. CASE addMigrationLabelIfNotExists(m) BY <1>7 DEF addMigrationLabelIfNotExists
<1>8. CASE FindClaim(m)
  <2>1. \/ task' = [task EXCEPT ![m].claim = TRUE, ![m].pc = "check"]
        \/ task' = [task EXCEPT ![m].pc = "check"] /\ (Owing(m) => task[m].ctx # "live")
    BY <1>8 DEF FindClaim
  <2>2. task[m].pc = "claim" BY <1>8 DEF FindClaim
  <2> QED BY <2>1, <2>2
<1>9. CASE checkMigrationProgress(m) BY <1>9 DEF checkMigrationProgress
<1>10. CASE EmitCompleted(m) BY <1>10 DEF EmitCompleted
<1>11. CASE removeMigrationLabel(m) BY <1>11 DEF removeMigrationLabel
<1>12. CASE PollEnds(m) BY <1>12 DEF PollEnds
<1>13. CASE TimeoutEvent(m) BY <1>13 DEF TimeoutEvent
<1>14. CASE ExtendPoll(m) BY <1>14 DEF ExtendPoll
<1>15. CASE TimePasses(m) BY <1>15 DEF TimePasses
<1> QED BY <1>4, <1>5, <1>6, <1>7, <1>8, <1>9, <1>10, <1>11, <1>12, <1>13, <1>14, <1>15
   DEF MonitorStep, monitorMigrationProgress

(* A monitor whose start has yet to emit the event waits for the mutex.    *)
LEMMA MonitorWaits ==
  ASSUME Calm, NEW m \in Monitors, MonitorStep(m), ~MonitorEnds(m), ContextSound(m), ToldByStart(m)
  PROVE ToldByStart(m)'
<1>1. TypeOK /\ task \in [Monitors -> TaskTypes \cup {NoTask}] BY DEF Calm, MonitorInv, TypeOK
<1>2. /\ task[m] \in TaskTypes /\ UNCHANGED starting
  BY <1>1, MonitorMoves DEF OwnTask, MonitorStep, monitorMigrationProgress, PollCancelled,
     PollPastMax, PollBegins, addMigrationLabelIfNotExists, FindClaim, checkMigrationProgress,
     EmitCompleted, removeMigrationLabel, PollEnds, TimeoutEvent, ExtendPoll, TimePasses, monitored
<1>3. ~TaskMutex(m) BY DEF TaskMutex, ToldByStart
<1> USE <1>1, <1>2, <1>3 DEF ContextSound, ToldByStart, TaskTypes, At, Goto, Live
<1>4. CASE PollBegins(m) BY <1>4 DEF PollBegins
<1>5. CASE addMigrationLabelIfNotExists(m) BY <1>5 DEF addMigrationLabelIfNotExists
<1>6. CASE FindClaim(m) BY <1>6 DEF FindClaim
<1>7. ~checkMigrationProgress(m) /\ ~EmitCompleted(m) /\ ~removeMigrationLabel(m)
  BY DEF checkMigrationProgress, EmitCompleted, removeMigrationLabel
<1>8. ~TimeoutEvent(m) /\ ~ExtendPoll(m) /\ ~TimePasses(m) /\ ~PollCancelled(m) /\ ~PollPastMax(m)
  BY DEF TimeoutEvent, ExtendPoll, TimePasses, PollCancelled, PollPastMax
<1>9. ~PollEnds(m) BY DEF PollEnds
<1> QED BY <1>4, <1>5, <1>6, <1>7, <1>8, <1>9 DEF MonitorStep, monitorMigrationProgress

EventsSound == OwedIsTold /\ Provisioned /\ ClaimsToldOf /\ LabelsToldOf /\ EventsOrdered

LEMMA MonitorEvents ==
  ASSUME Calm, EventsSound, NEW m \in Monitors, MonitorStep(m), ~MonitorEnds(m)
  PROVE EventsSound'
<1>1. TypeOK /\ task \in [Monitors -> TaskTypes \cup {NoTask}] BY DEF Calm, MonitorInv, TypeOK
<1>2. OwnTask(m) BY <1>1, MonitorMoves
<1>3. Tells(m) BY MonitorTells
<1>4. UNCHANGED <<pv, pending, starting>>
  BY DEF MonitorStep, monitorMigrationProgress, PollCancelled,
     PollPastMax, PollBegins, addMigrationLabelIfNotExists, FindClaim, checkMigrationProgress,
     EmitCompleted, removeMigrationLabel, PollEnds, TimeoutEvent, ExtendPoll, TimePasses, monitored,
     cluster
<1>5. \A n \in Monitors \ {m} : task'[n] = task[n] BY <1>1, <1>2 DEF OwnTask
<1>6. task[m] \in TaskTypes /\ task[m].disk \in Disks /\ task'[m].disk = task[m].disk
  BY <1>2 DEF OwnTask, TaskTypes
<1> USE DEF EventsSound
<1>7. OwedIsTold'
  <2>1. ContextSound(m)' /\ (Owing(m)' => OwingTells(m)') BY MonitorOwes DEF OwedIsTold
  <2>2. \A n \in Monitors \ {m} : ContextSound(n)' /\ (Owing(n)' => OwingTells(n)')
    BY <1>4, <1>5 DEF OwedIsTold, ContextSound, Owing, OwingTells
  <2> QED BY <2>1, <2>2 DEF OwedIsTold
<1>8. Provisioned'
  <2>1. \A d \in Disks : label'[d] => pv[d] = "bound"
    <3>1. pv \in [Disks -> {"none", "bound", "unbound"}] BY <1>1 DEF TypeOK
    <3> QED BY <1>3, <3>1 DEF Tells, Provisioned
  <2>2. starting.monitor = m /\ starting.pc = "label" => task[m].pc = "new"
    BY <1>1 DEF Calm, MonitorInv, StartRegistered, NoStart
  <2>5. starting.origin # "none" => starting.monitor \in Monitors
    BY <1>1 DEF TypeOK, Starts, NoStart
  <2>3. starting.origin = "create" /\ starting.pc # "return" => ~task'[starting.monitor].claim
    <3> SUFFICES ASSUME starting.origin = "create", starting.pc # "return"
                 PROVE ~task'[starting.monitor].claim
      OBVIOUS
    <3>1. starting.pc = "label" /\ ~task[starting.monitor].claim BY DEF Provisioned
    <3>2. CASE starting.monitor = m
      <4>1. TimePasses(m)
        BY <2>2, <3>1, <3>2 DEF MonitorStep, monitorMigrationProgress, PollCancelled,
           PollPastMax, PollBegins, addMigrationLabelIfNotExists, FindClaim, checkMigrationProgress,
           EmitCompleted, removeMigrationLabel, PollEnds, TimeoutEvent, ExtendPoll, At
      <4>2. task'[m].claim = task[m].claim BY <1>1, <1>6, <4>1 DEF TimePasses, TaskTypes
      <4> QED BY <3>1, <3>2, <4>2
    <3> QED BY <1>5, <2>5, <3>1, <3>2
  <2>4. starting.origin \in {"modify", "recovery"} => task'[starting.monitor].claim
    BY <1>3, <1>5, <2>5 DEF Provisioned, Tells
  <2> QED BY <1>4, <2>1, <2>3, <2>4 DEF Provisioned
<1>9. ClaimsToldOf'
  <2>1. \A n \in Monitors \ {m} : ToldByStart(n) => ToldByStart(n)' BY <1>4, <1>5 DEF ToldByStart
  <2>2. ToldByStart(m) => ToldByStart(m)' BY MonitorWaits DEF OwedIsTold
  <2>3. \A n \in Monitors \ {m} : task[n].claim /\ started[task[n].disk] => started'[task[n].disk]
    <3>1. \A n \in Monitors : task[n].claim => task[n].disk \in Disks BY <1>1 DEF TaskTypes, NoTask
    <3> QED BY <1>3, <3>1 DEF Tells
  <2>4. \A n \in Monitors \ {m} : task'[n].claim => started'[task'[n].disk] \/ ToldByStart(n)'
    BY <1>5, <2>1, <2>3 DEF ClaimsToldOf
  <2>5. task'[m].claim => started'[task'[m].disk] \/ ToldByStart(m)'
    BY <1>3, <1>6, <2>2 DEF ClaimsToldOf, Tells
  <2> QED BY <2>4, <2>5 DEF ClaimsToldOf
<1>10. LabelsToldOf'
  <2> SUFFICES ASSUME NEW d \in Disks, label'[d], ~started'[d], ~(starting.pc = "event" /\ starting.disk = d)
               PROVE \E n \in Monitors : task'[n].disk = d /\ Owing(n)'
    BY <1>4 DEF LabelsToldOf
  <2>1. ~started[d] BY <1>3 DEF Tells
  <2>2. ASSUME NEW n \in Monitors, task[n].disk = d, Owing(n) PROVE task'[n].disk = d /\ Owing(n)'
    BY <1>3, <1>5, <1>6, <2>2 DEF Owing, Tells
  <2>3. CASE label[d] BY <2>1, <2>2, <2>3 DEF LabelsToldOf
  <2>4. CASE ~label[d]
    <3>1. d = task[m].disk /\ task[m].pc = "label" /\ task'[m].labeled BY <1>3, <2>4 DEF Tells
    <3>2. CASE task[m].labeled /\ ~task[m].claim BY <2>2, <3>1, <3>2 DEF Owing
    <3>3. CASE task[m].labeled /\ task[m].claim
      <4>1. addMigrationLabelIfNotExists(m) \/ UNCHANGED label
        BY <3>1 DEF MonitorStep, monitorMigrationProgress, PollCancelled, PollPastMax, PollBegins,
           FindClaim, checkMigrationProgress, EmitCompleted, removeMigrationLabel, PollEnds,
           TimeoutEvent, ExtendPoll, TimePasses, At
      <4> QED BY <2>4, <3>3, <4>1 DEF addMigrationLabelIfNotExists
    <3>4. CASE ~task[m].labeled
      <4>1. ~ToldByStart(m) BY <3>1, <3>4 DEF ToldByStart
      <4>2. ~task[m].claim BY <2>1, <3>1, <4>1 DEF ClaimsToldOf
      <4> QED BY <1>3, <1>6, <3>1, <4>2 DEF Tells, Owing
    <3> QED BY <3>2, <3>3, <3>4
  <2> QED BY <2>3, <2>4
<1>11. EventsOrdered'
  <2>1. task[m].pc = "completed" => ~ToldByStart(m) BY DEF ToldByStart
  <2> QED BY <1>3, <2>1 DEF EventsOrdered, Tells, ClaimsToldOf
<1> QED BY <1>7, <1>8, <1>9, <1>10, <1>11

LEMMA NoTaskSound ==
  ASSUME NEW m \in Monitors, task[m] = NoTask PROVE ~task[m].claim /\ ~Owing(m) /\ ContextSound(m)
  BY DEF NoTask, Owing, ContextSound

LEMMA EndEvents ==
  ASSUME Calm, EventsSound, NEW m \in Monitors, MonitorEnds(m)
  PROVE EventsSound'
<1>1. TypeOK /\ task \in [Monitors -> TaskTypes \cup {NoTask}] BY DEF Calm, MonitorInv, TypeOK
<1>2. /\ starting = NoStart /\ UNCHANGED <<starting, pv, pending, label, started, completed>>
      /\ task[m].pc = "end" /\ task'[m] = NoTask /\ \A n \in Monitors \ {m} : task'[n] = task[n]
  BY <1>1 DEF MonitorEnds, Unlocked, At, cluster, events
<1>3. ~task'[m].claim /\ ~Owing(m)' /\ ContextSound(m)' BY <1>2 DEF NoTask, Owing, ContextSound
<1>4. ~Owing(m) BY <1>2 DEF EventsSound, OwedIsTold, OwingTells
<1> USE <1>2, <1>3 DEF EventsSound
<1>5. OwedIsTold'
  <2>1. \A n \in Monitors \ {m} : ContextSound(n)' /\ (Owing(n)' => OwingTells(n)')
    BY DEF OwedIsTold, ContextSound, Owing, OwingTells
  <2> QED BY <2>1 DEF OwedIsTold
<1>6. Provisioned' BY DEF Provisioned, NoStart
<1>7. ClaimsToldOf' BY DEF ClaimsToldOf, ToldByStart
<1>8. LabelsToldOf' BY <1>4 DEF LabelsToldOf, Owing
<1>9. EventsOrdered' BY DEF EventsOrdered
<1> QED BY <1>5, <1>6, <1>7, <1>8, <1>9

(* The start labels the volume of a bound claim, and owes it the event     *)
(* unless the label was there: whoever put it there has told the claim.    *)
LEMMA LabelEvents ==
  ASSUME Calm, EventsSound, StartLabel PROVE EventsSound'
<1>1. /\ TypeOK /\ task \in [Monitors -> TaskTypes \cup {NoTask}] /\ label \in [Disks -> BOOLEAN]
      /\ starting \in Starts \cup {NoStart} /\ starting.pc = "label"
  BY DEF Calm, MonitorInv, TypeOK, StartLabel
<1>1a. starting \in Starts /\ starting # NoStart BY <1>1 DEF Starts, NoStart
<1>1b. PICK m \in Monitors, d \in Disks : starting.monitor = m /\ starting.disk = d BY <1>1a DEF Starts
<1>2. starting \in Starts /\ starting # NoStart /\ m \in Monitors /\ d \in Disks
      /\ starting.monitor = m /\ starting.disk = d
  BY <1>1a, <1>1b
<1>3. task[m].pc = "new" BY <1>1, <1>2 DEF Calm, MonitorInv, StartRegistered
<1>4. task[m] \in TaskTypes /\ task[m].disk = d /\ \A n \in Monitors : task[n].disk = d => n = m
  <2>1. task[m] \in TaskTypes /\ activeTasks[d] = m BY <1>1, <1>2, <1>3, NoTaskNot DEF Calm, MonitorInv, StartRegistered
  <2>2. task[m].disk = d BY <1>2, <2>1, MonitorAssumption DEF Calm, MonitorInv, OneMonitorPerDisk
  <2>3. \A n \in Monitors : task[n].disk = d => task[n] # NoTask BY <1>2, NoTaskNot, MonitorAssumption
  <2> QED BY <2>1, <2>2, <2>3 DEF Calm, MonitorInv, OneMonitorPerDisk
<1>5. /\ UNCHANGED <<pv, pending, started, completed>>
      /\ starting'.disk = d /\ starting'.monitor = m /\ starting'.origin = starting.origin
  BY <1>2 DEF StartLabel, cluster, events, Starts
<1>6. \/ /\ starting.origin = "create" /\ UNCHANGED label /\ starting'.pc = "return" /\ ~task[m].claim
         /\ task' = [task EXCEPT ![m].pc = "wait"]
      \/ /\ starting.origin # "create" /\ label' = [label EXCEPT ![d] = TRUE] /\ task[m].claim
         /\ pv[d] = "bound"
         /\ starting'.pc = IF label[d] THEN "return" ELSE "event"
         /\ task' = [task EXCEPT ![m].labeled = TRUE, ![m].pc = "wait"]
  <2>1. \/ starting.origin = "create" /\ pv[d] = "none" /\ ~task[m].claim
        \/ starting.origin # "create" /\ pv[d] = "bound" /\ task[m].claim
    BY <1>1, <1>2 DEF EventsSound, Provisioned, Starts, Origins
  <2> QED BY <1>2, <2>1, CalmAnswers DEF StartLabel, Starts
<1>7. /\ \A n \in Monitors \ {m} : task'[n] = task[n]
      /\ task'[m].pc = "wait" /\ task'[m].disk = d /\ task'[m].claim = task[m].claim
      /\ task'[m].ctx = task[m].ctx /\ task'[m].cancelled = task[m].cancelled
      /\ task'[m].timedout = task[m].timedout /\ task'[m].age = task[m].age
      /\ task'[m].polled = task[m].polled
      /\ starting.origin = "create" => task'[m].labeled = task[m].labeled
      /\ starting.origin # "create" => task'[m].labeled
  <2>1. CASE starting.origin = "create"
    <3>1. task' = [task EXCEPT ![m].pc = "wait"] BY <1>6, <2>1
    <3> QED BY <1>1, <1>2, <1>4, <2>1, <3>1 DEF TaskTypes
  <2>2. CASE starting.origin # "create"
    <3>1. task' = [task EXCEPT ![m].labeled = TRUE, ![m].pc = "wait"] BY <1>6, <2>2
    <3> QED BY <1>1, <1>2, <1>4, <2>2, <3>1 DEF TaskTypes
  <2> QED BY <2>1, <2>2
<1>8. ~Owing(m) BY <1>2, <1>3 DEF EventsSound, OwedIsTold, OwingTells
<1>9. ~Owing(m)' BY <1>6, <1>7, <1>8 DEF Owing
<1> USE DEF EventsSound
<1>10. OwedIsTold'
  <2>1. \A n \in Monitors \ {m} : ContextSound(n)' /\ (Owing(n)' => OwingTells(n)')
    BY <1>5, <1>7 DEF OwedIsTold, ContextSound, Owing, OwingTells
  <2>2. ContextSound(m)' BY <1>2, <1>3, <1>7 DEF OwedIsTold, ContextSound
  <2> QED BY <1>9, <2>1, <2>2 DEF OwedIsTold
<1>11. Provisioned'
  <2>1. \A e \in Disks : label'[e] => pv[e] = "bound" BY <1>1, <1>2, <1>6 DEF Provisioned
  <2>2. starting.origin \in {"modify", "recovery"} => pv[d] = "bound" /\ task'[m].claim
    BY <1>6, <1>7
  <2> QED BY <1>5, <1>6, <2>1, <2>2 DEF Provisioned
<1>12. label[d] /\ task[m].claim => started[d]
  BY <1>1, <1>2, <1>4, <1>8 DEF LabelsToldOf
<1>13. ClaimsToldOf'
  <2>1. \A n \in Monitors \ {m} : ~ToldByStart(n) BY <1>2 DEF ToldByStart
  <2>2. \A n \in Monitors \ {m} : task'[n].claim => started'[task'[n].disk]
    BY <1>5, <1>7, <2>1 DEF ClaimsToldOf
  <2>3. task[m].claim => started[d] \/ (task[m].age = 0 /\ ~task[m].polled)
    BY <1>2, <1>4 DEF ClaimsToldOf, ToldByStart
  <2>4. task'[m].claim => started'[task'[m].disk] \/ ToldByStart(m)'
    BY <1>5, <1>6, <1>7, <1>12, <2>3 DEF ToldByStart
  <2> QED BY <1>2, <2>2, <2>4 DEF ClaimsToldOf
<1>14. LabelsToldOf'
  <2> SUFFICES ASSUME NEW e \in Disks, label'[e], ~started[e]
               PROVE \/ starting'.pc = "event" /\ starting'.disk = e
                     \/ \E n \in Monitors : task'[n].disk = e /\ Owing(n)'
    BY <1>5 DEF LabelsToldOf
  <2>1. CASE e = d BY <1>1, <1>2, <1>4, <1>5, <1>6, <1>8, <1>12, <2>1 DEF LabelsToldOf
  <2>2. CASE e # d
    <3>1. label[e] BY <1>1, <1>6, <2>2
    <3>2. PICK n \in Monitors : task[n].disk = e /\ Owing(n) BY <1>1, <3>1 DEF LabelsToldOf
    <3>3. n # m BY <1>8, <3>2
    <3> QED BY <1>7, <3>2, <3>3 DEF Owing
  <2> QED BY <2>1, <2>2
<1>15. EventsOrdered' BY <1>5 DEF EventsOrdered
<1> QED BY <1>10, <1>11, <1>13, <1>14, <1>15

LEMMA StartEvents ==
  ASSUME Calm, EventsSound, StartEvent \/ StartReturn PROVE EventsSound'
<1>1. /\ starting \in Starts \cup {NoStart} /\ started \in [Disks -> BOOLEAN]
      /\ task \in [Monitors -> TaskTypes \cup {NoTask}]
  BY DEF Calm, MonitorInv, TypeOK
<1>2. starting \in Starts /\ starting # NoStart BY <1>1 DEF StartEvent, StartReturn, Starts, NoStart
<1>3. PICK m \in Monitors, d \in Disks : starting.monitor = m /\ starting.disk = d BY <1>2 DEF Starts
<1>4. task[m].disk = d
  BY <1>2, <1>3, MonitorAssumption DEF Calm, MonitorInv, StartRegistered, OneMonitorPerDisk
<1>5. /\ UNCHANGED <<pv, pending, label, completed, task>>
      /\ starting' = NoStart \/ (/\ starting'.pc = "return" /\ starting'.monitor = m /\ starting'.disk = d
                                 /\ starting'.origin = starting.origin)
  BY <1>2, <1>3 DEF StartEvent, StartReturn, cluster, events, Starts
<1>6. /\ \A e \in Disks : started[e] => started'[e]
      /\ starting.pc = "event" => started'[d]
  <2>1. starting.pc = "event" => task[m].claim
    BY <1>2, <1>3 DEF EventsSound, Provisioned, Starts, Origins
  <2>2. \/ starting.pc = "event" /\ started' = [started EXCEPT ![d] = TRUE]
        \/ starting.pc # "event" /\ UNCHANGED started
    BY <1>3, <2>1, CalmAnswers DEF StartEvent, StartReturn, Emit, events
  <2> QED BY <1>1, <1>3, <2>2
<1> USE DEF EventsSound
<1>7. OwedIsTold' BY <1>5 DEF OwedIsTold, ContextSound, Owing, OwingTells
<1>8. Provisioned' BY <1>3, <1>5 DEF Provisioned, NoStart
<1>9. ClaimsToldOf'
  <2>1. starting.pc # "label" BY DEF StartEvent, StartReturn
  <2>2. \A n \in Monitors : ToldByStart(n) => n = m /\ starting.pc = "event" BY <1>3, <2>1 DEF ToldByStart
  <2>3. \A n \in Monitors : task[n].claim => task[n].disk \in Disks BY <1>1 DEF TaskTypes, NoTask
  <2> QED BY <1>4, <1>5, <1>6, <2>2, <2>3 DEF ClaimsToldOf
<1>10. LabelsToldOf' BY <1>3, <1>5, <1>6 DEF LabelsToldOf, Owing
<1>11. EventsOrdered' BY <1>5, <1>6 DEF EventsOrdered
<1> QED BY <1>7, <1>8, <1>9, <1>10, <1>11

LEMMA BeginEvents ==
  ASSUME Calm, EventsSound, NEW d \in Disks, NEW m \in Monitors, NEW origin \in Origins,
         Begin(d, m, origin), UNCHANGED <<pv, label, started, completed>>,
         \A e \in Disks : pending'[e] = "create" => pending[e] = "create",
         origin = "create" => pv[d] = "none"
  PROVE EventsSound'
<1>1. task \in [Monitors -> TaskTypes \cup {NoTask}] BY DEF Calm, MonitorInv, TypeOK
<1>2. /\ task[m] = NoTask /\ starting = NoStart /\ (origin # "create" => pv[d] = "bound")
      /\ starting' = [disk |-> d, monitor |-> m, origin |-> origin, pc |-> "label"]
  BY DEF Begin, Unlocked
<1>3. PICK c \in BOOLEAN : c = (origin # "create") /\ Registered(d, m, c) BY DEF Begin
<1>4. /\ \A n \in Monitors \ {m} : task'[n] = task[n]
      /\ task'[m].disk = d /\ task'[m].pc = "new" /\ task'[m].claim = c
      /\ ~task'[m].labeled /\ task'[m].ctx = "live" /\ ~task'[m].cancelled /\ ~task'[m].timedout
      /\ task'[m].age = 0 /\ ~task'[m].polled
  BY <1>1, <1>3 DEF Registered, NoTask
<1>5. ~Owing(m) /\ ~Owing(m)' BY <1>2, <1>4, NoTaskSound DEF Owing
<1>6. \A n \in Monitors : ~ToldByStart(n) BY <1>2, MonitorAssumption DEF ToldByStart, NoStart
<1> USE DEF EventsSound
<1>7. OwedIsTold'
  <2>1. \A n \in Monitors \ {m} : ContextSound(n)' /\ (Owing(n)' => OwingTells(n)')
    BY <1>4 DEF OwedIsTold, ContextSound, Owing, OwingTells
  <2>2. ContextSound(m)' BY <1>4 DEF ContextSound
  <2> QED BY <1>5, <2>1, <2>2 DEF OwedIsTold
<1>8. Provisioned'
  <2>1. origin = "create" => ~task'[m].claim BY <1>3, <1>4
  <2>2. origin # "create" => task'[m].claim BY <1>3, <1>4
  <2> QED BY <1>2, <2>1, <2>2 DEF Provisioned
<1>9. ClaimsToldOf'
  <2>1. ToldByStart(m)' BY <1>2, <1>4 DEF ToldByStart
  <2> QED BY <1>4, <1>6, <2>1 DEF ClaimsToldOf
<1>10. LabelsToldOf'
  <2>1. \A n \in Monitors : Owing(n) => Owing(n)' /\ task'[n].disk = task[n].disk BY <1>4, <1>5 DEF Owing
  <2> QED BY <1>2, <2>1 DEF LabelsToldOf, NoStart
<1>11. EventsOrdered' BY DEF EventsOrdered
<1> QED BY <1>7, <1>8, <1>9, <1>10, <1>11

(* Azure, the provisioner and a call that starts no monitor.               *)
LEMMA OtherEvents ==
  ASSUME Calm, EventsSound, UNCHANGED <<driver, label, started, completed>>,
         \A d \in Disks : pv'[d] = pv[d] \/ (pv[d] = "none" /\ pv'[d] = "bound" /\ pending[d] = "done" /\ starting.disk # d),
         \A d \in Disks : pending'[d] = "create" => pending[d] = "create"
  PROVE EventsSound'
<1>1. starting \in Starts \cup {NoStart} /\ task \in [Monitors -> TaskTypes \cup {NoTask}] /\ UNCHANGED <<task, starting>>
  BY DEF Calm, MonitorInv, TypeOK, driver
<1>2. \A m \in Monitors : Owing(m) => task[m].disk \in Disks BY <1>1 DEF TaskTypes, NoTask, Owing
<1> USE <1>1 DEF EventsSound
<1>3. OwedIsTold'
  <2>1. \A m \in Monitors : ContextSound(m)' /\ (Owing(m)' <=> Owing(m)) BY DEF OwedIsTold, ContextSound, Owing
  <2>2. \A m \in Monitors : Owing(m) => OwingTells(m)' BY <1>2 DEF OwedIsTold, OwingTells
  <2> QED BY <2>1, <2>2 DEF OwedIsTold
<1>4. Provisioned'
  <2>1. starting.origin # "none" => starting.disk \in Disks BY DEF Starts, NoStart
  <2> QED BY <2>1 DEF Provisioned
<1>5. ClaimsToldOf' BY DEF ClaimsToldOf, ToldByStart
<1>6. LabelsToldOf' BY DEF LabelsToldOf, Owing
<1>7. EventsOrdered' BY DEF EventsOrdered
<1> QED BY <1>3, <1>4, <1>5, <1>6, <1>7

LEMMA EventInvInit == Init => EventInv
<1> SUFFICES ASSUME Init PROVE EventsSound BY DEF EventInv, EventsSound
<1>1. \A m \in Monitors : task[m] = NoTask BY DEF Init
<1>2. OwedIsTold BY <1>1, NoTaskSound DEF OwedIsTold
<1>3. ClaimsToldOf BY <1>1, NoTaskSound DEF ClaimsToldOf
<1>4. Provisioned BY DEF Init, Provisioned, NoStart
<1>5. LabelsToldOf /\ EventsOrdered BY DEF Init, LabelsToldOf, EventsOrdered
<1> QED BY <1>2, <1>3, <1>4, <1>5 DEF EventsSound

LEMMA EventInvNext == MonitorInv /\ EventInv /\ [Next]_vars => EventInv'
<1> SUFFICES ASSUME MonitorInv, EventInv, [Next]_vars, Undisturbed' PROVE EventsSound'
  BY DEF EventInv, EventsSound
<1>1. Calm /\ EventsSound /\ ~Stop /\ ~StopReturns /\ ~Restart
  BY StaysCalm DEF Calm, EventInv, EventsSound
<1>2. TypeOK BY DEF MonitorInv
<1>3. ASSUME NEW m \in Monitors, MonitorStep(m) PROVE EventsSound'
  BY <1>1, <1>3, MonitorEvents, EndEvents
<1>4. CASE UNCHANGED <<driver, label, started, completed, pv, pending>> BY <1>1, <1>4, OtherEvents
<1>5. ASSUME NEW d \in Disks, DiskStep(d) PROVE EventsSound'
  <2>1. CASE startSKUMigrationMonitor(d) \/ recoverMigrationMonitorsFromLabels(d)
    <3>1. /\ UNCHANGED <<pv, label, started, completed>>
          /\ \A e \in Disks : pending'[e] = "create" => pending[e] = "create"
      BY <1>2, <2>1 DEF startSKUMigrationMonitor, recoverMigrationMonitorsFromLabels, events, cluster, TypeOK
    <3>2. PICK origin \in Origins : /\ StartMigrationMonitoring(d, origin) \/ UNCHANGED driver
                                    /\ origin = "create" => pv[d] = "none"
      BY <1>1, <2>1 DEF startSKUMigrationMonitor, recoverMigrationMonitorsFromLabels, Origins,
         EventsSound, Provisioned
    <3>3. CASE UNCHANGED driver BY <1>1, <3>1, <3>3, OtherEvents
    <3>4. CASE NotBegun(d, origin) BY <3>3, <3>4 DEF NotBegun
    <3>5. ASSUME NEW m \in Monitors, Begin(d, m, origin) PROVE EventsSound'
      BY <1>1, <3>1, <3>2, <3>5, BeginEvents
    <3> QED BY <3>2, <3>3, <3>4, <3>5 DEF StartMigrationMonitoring
  <2>2. CASE ControllerModifyVolume(d)
    <3>1. /\ UNCHANGED <<driver, label, started, completed, pv>>
          /\ \A e \in Disks : pending'[e] = "create" => pending[e] = "create"
      BY <1>2, <2>2 DEF ControllerModifyVolume, events, TypeOK
    <3> QED BY <1>1, <3>1, OtherEvents
  <2>3. CASE Copy(d) BY <1>4, <2>3 DEF Copy, events
  <2>4. CASE CreatePV(d)
    <3>1. \A e \in Disks : pv'[e] = pv[e] \/ (pv[e] = "none" /\ pv'[e] = "bound" /\ pending[e] = "done" /\ starting.disk # e)
      BY <1>2, <2>4 DEF CreatePV, TypeOK
    <3>2. UNCHANGED <<driver, label, started, completed, pending>> BY <2>4 DEF CreatePV, events
    <3> QED BY <1>1, <3>1, <3>2, OtherEvents
  <2>5. ~ClearClaim(d) BY <1>1, CalmAnswers DEF ClearClaim
  <2> QED BY <1>5, <2>1, <2>2, <2>3, <2>4, <2>5 DEF DiskStep
<1>6. CASE StartStep BY <1>1, <1>6, LabelEvents, StartEvents DEF StartStep
<1>7. CASE RecoverList \/ UNCHANGED vars BY <1>4, <1>7 DEF RecoverList, vars, cluster, events
<1> QED BY <1>1, <1>3, <1>5, <1>6, <1>7 DEF Next

(* The claim hears of the completion only after it heard of the start,     *)
(* although the goroutine runs before StartMigrationMonitoring emits that  *)
(* event and a poll that labels the volume may be cut by the timeout       *)
(* before it emits its own.                                                *)
THEOREM StartedBeforeCompleted == Spec => []EventsInOrder
<1>1. EventInv => EventsInOrder BY DEF EventInv, Undisturbed, EventsOrdered, EventsInOrder
<1> QED BY <1>1, MonitorInvInit, MonitorInvNext, EventInvInit, EventInvNext, PTL DEF Spec
=============================================================================
