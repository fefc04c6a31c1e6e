------------------------- MODULE SnapshotLifecycle -------------------------
(***************************************************************************)
(* CreateSnapshot and DeleteSnapshot of pkg/azuredisk/controllerserver.go  *)
(* for one VolumeSnapshotContent, with the reading of snapshots in         *)
(* pkg/azureutils/azure_snapshot_utils.go. A snapshot for another region   *)
(* is taken locally first (local_<name>), copied, and the local one is     *)
(* deleted when the copy is complete.                                      *)
(*                                                                         *)
(* As in VolumeLifecycle the server may run a call the client gave up,     *)
(* whose request in flight takes effect or not before the call ends.       *)
(***************************************************************************)
EXTENDS Integers

CONSTANTS
  Volume, Other,  \* the source asked for, and another disk
  Calls,          \* calls the server runs at a time
  Absent, NoCall,
  Kinds,          \* what the parameters and flags ask for: see kind below
  MaxFaults       \* bound: requests that fail or lose their answer, waits that
                  \* time out, calls given up, restarts

VARIABLES
  kind,     \* cross: for another region; wait: shouldWaitForSnapshotReady;
            \* instant: instantAccessDurationMinutes is given; static: the content
            \* was written by hand for a snapshot that exists
  content,  \* the VolumeSnapshotContent: "present" or "removed", and whether it is ready
  local,    \* Azure: the snapshot in the region of the cloud
  copy,     \* Azure: its copy in the other region
  scalls,   \* the calls of the server: their pc
  waiting,  \* the call external-snapshotter waits for
  leaked,   \* the local snapshot could not be deleted
  faults

azure == <<local, copy>>

Snapshots == [source : {Volume, Other}, complete : BOOLEAN]
Named == IF kind.cross THEN copy ELSE local  \* the one in the answers

Init ==
  /\ kind \in Kinds
  /\ content = [state |-> "present", ready |-> FALSE, refused |-> FALSE]
  /\ local \in IF kind.static THEN {[source |-> Volume, complete |-> FALSE]} ELSE {Absent, [source |-> Other, complete |-> TRUE]}
  /\ copy = Absent
  /\ scalls = [c \in Calls |-> "idle"] /\ waiting = NoCall
  /\ leaked = FALSE /\ faults = 0

Quiet ==
  /\ kind = [cross |-> FALSE, wait |-> FALSE, instant |-> FALSE, static |-> FALSE]
  /\ content = [state |-> "removed", ready |-> FALSE, refused |-> FALSE]
  /\ local = Absent /\ copy = Absent
  /\ scalls = [c \in Calls |-> "idle"] /\ waiting = NoCall
  /\ leaked = FALSE

Failed == faults < MaxFaults /\ faults' = faults + 1
Answered == UNCHANGED faults

-----------------------------------------------------------------------------
(* Azure: a snapshot of another source is not replaced; a copy goes on as  *)
(* long as what it copies is there.                                        *)
Put(snap, source) == IF snap = Absent THEN [source |-> source, complete |-> FALSE] ELSE snap

Complete ==
  /\ \/ local # Absent /\ ~local.complete /\ local' = [local EXCEPT !.complete = TRUE] /\ UNCHANGED copy
     \/ /\ copy # Absent /\ ~copy.complete /\ local # Absent
        /\ copy' = [copy EXCEPT !.complete = TRUE] /\ UNCHANGED local
  /\ UNCHANGED <<kind, content, scalls, waiting, leaked, faults>>

(* GenerateCSISnapshot: provisioned, and complete or of instant access.    *)
(* (The first definition is a mutant: provisioned.)                        *)
Provisioned(snap) == snap # Absent

ReadyToUse(snap) == snap # Absent /\ (snap.complete \/ kind.instant)

(* A snapshot is read by its name or URI.                                  *)
getSnapshotByID(snap) == IF snap = Absent THEN "missing" ELSE IF ReadyToUse(snap) THEN "ready" ELSE "pending"

-----------------------------------------------------------------------------
(* external-snapshotter calls until the snapshot is ready.                 *)
Snapshot(c) ==
  /\ content.state = "present" /\ ~content.ready /\ ~content.refused /\ ~kind.static
  /\ waiting = NoCall /\ scalls[c] = "idle"
  /\ scalls' = [scalls EXCEPT ![c] = "lock"] /\ waiting' = c
  /\ UNCHANGED <<kind, content, azure, leaked, faults>>

GiveUpSnapshot ==
  /\ Failed
  /\ waiting # NoCall /\ waiting' = NoCall
  /\ UNCHANGED <<kind, content, azure, scalls, leaked>>

At(c, pc) == waiting = c /\ scalls[c] = pc
Goto(c, pc) == scalls' = [scalls EXCEPT ![c] = pc] /\ UNCHANGED <<waiting, content>>
Return(c) == scalls' = [scalls EXCEPT ![c] = "idle"] /\ waiting' = NoCall
ReturnError(c) == Return(c) /\ UNCHANGED content
ReturnSnapshot(c, ready) == Return(c) /\ content' = [content EXCEPT !.ready = ready]
AlreadyExists(c) == Return(c) /\ content' = [content EXCEPT !.refused = TRUE]

(* CreateSnapshot: the lock is on the name.                                *)
LockSnapshot(c) ==
  /\ At(c, "lock")
  /\ IF \E d \in Calls \ {c} : scalls[d] \notin {"idle", "lock"} THEN ReturnError(c) ELSE Goto(c, "find")
  /\ UNCHANGED <<kind, azure, leaked, faults>>

(* A snapshot of the volume is not created again; whatever the reading     *)
(* failed with, a create is tried.                                         *)
FindSnapshot(c) ==
  /\ At(c, "find")
  /\ \/ Goto(c, IF local # Absent /\ local.source = Volume THEN "wait" ELSE "create") /\ Answered
     \/ Goto(c, "create") /\ Failed
  /\ UNCHANGED <<kind, azure, leaked>>

CreateLocal(c) ==
  /\ At(c, "create")
  /\ \/ local # Absent /\ local.source # Volume /\ AlreadyExists(c) /\ UNCHANGED azure /\ Answered
     \/ local' = Put(local, Volume) /\ local'.source = Volume /\ UNCHANGED copy /\ Goto(c, "wait") /\ Answered
     \/ (local' = Put(local, Volume) \/ UNCHANGED local) /\ UNCHANGED copy /\ ReturnError(c) /\ Failed
  /\ UNCHANGED <<kind, leaked>>

(* waitForSnapshotReady, of the local one and of the copy: until it is     *)
(* complete, an error or ten minutes.                                      *)
waitForSnapshotReady(c, snap, here, next) ==
  /\ At(c, here)
  /\ \/ (~kind.wait \/ (snap # Absent /\ snap.complete)) /\ Goto(c, next) /\ Answered
     \/ kind.wait /\ snap = Absent /\ ReturnError(c) /\ Answered
     \/ kind.wait /\ ReturnError(c) /\ Failed
  /\ UNCHANGED <<kind, azure, leaked>>

(* The local snapshot is read again. One that is not ready is answered as  *)
(* not ready, under the name of the copy if there is to be one.            *)
ReadLocal(c) ==
  /\ At(c, "read")
  /\ \/ getSnapshotByID(local) = "missing" /\ ReturnError(c) /\ Answered
     \/ getSnapshotByID(local) = "pending" /\ ReturnSnapshot(c, FALSE) /\ Answered
     \/ getSnapshotByID(local) = "ready" /\ (IF kind.cross THEN Goto(c, "findCopy") ELSE ReturnSnapshot(c, TRUE)) /\ Answered
     \/ ReturnError(c) /\ Failed
  /\ UNCHANGED <<kind, azure, leaked>>

(* The copy is started unless it is there.                                 *)
FindCopy(c) ==
  /\ At(c, "findCopy")
  /\ \/ Goto(c, IF getSnapshotByID(copy) # "missing" THEN "waitCopy" ELSE "copy") /\ Answered
     \/ Goto(c, "copy") /\ Failed
  /\ UNCHANGED <<kind, azure, leaked>>

CopyStarted == local # Absent /\ copy' = Put(copy, local.source) /\ UNCHANGED local

StartCopy(c) ==
  /\ At(c, "copy")
  /\ \/ CopyStarted /\ Goto(c, "waitCopy") /\ Answered
     \/ (CopyStarted \/ UNCHANGED azure) /\ ReturnError(c) /\ Failed
     \/ local = Absent /\ UNCHANGED azure /\ ReturnError(c) /\ Answered
  /\ UNCHANGED <<kind, leaked>>

(* The local snapshot goes when the copy is ready. (The first definition   *)
(* is a mutant: as soon as the copy is there.)                             *)
ReadCopyEarly(c) ==
  /\ At(c, "readCopy")
  /\ \/ copy = Absent /\ ReturnError(c) /\ Answered
     \/ copy # Absent /\ Goto(c, "delete") /\ Answered
     \/ ReturnError(c) /\ Failed
  /\ UNCHANGED <<kind, azure, leaked>>

ReadCopy(c) ==
  /\ At(c, "readCopy")
  /\ \/ getSnapshotByID(copy) = "missing" /\ ReturnError(c) /\ Answered
     \/ getSnapshotByID(copy) = "ready" /\ Goto(c, "delete") /\ Answered
     \/ getSnapshotByID(copy) = "pending" /\ ReturnSnapshot(c, FALSE) /\ Answered
     \/ ReturnError(c) /\ Failed
  /\ UNCHANGED <<kind, azure, leaked>>

(* A failing delete is only logged. (The first definition is a mutant: it  *)
(* is forgotten.)                                                          *)
KeepLocal(c) ==
  /\ At(c, "delete")
  /\ ReturnSnapshot(c, ReadyToUse(copy))
  /\ UNCHANGED <<kind, azure, leaked, faults>>

DeleteLocal(c) ==
  /\ At(c, "delete")
  /\ \/ local' = Absent /\ UNCHANGED leaked /\ Answered
     \/ UNCHANGED local /\ leaked' = TRUE /\ Failed
  /\ ReturnSnapshot(c, ReadyToUse(copy))
  /\ UNCHANGED <<kind, copy>>

-----------------------------------------------------------------------------
(* ListSnapshots of one ID, by which external-snapshotter learns when a    *)
(* snapshot it did not create is ready. One that is missing is no error,   *)
(* and no entry.                                                           *)
ListSnapshotsByID ==
  /\ kind.static /\ content.state = "present" /\ ~content.ready
  /\ \/ content' = [content EXCEPT !.ready = (getSnapshotByID(local) = "ready")] /\ Answered
     \/ UNCHANGED content /\ Failed
  /\ UNCHANGED <<kind, azure, scalls, waiting, leaked>>

(* DeleteSnapshot deletes the snapshot it is given, without a lock.        *)
RemoveContent ==
  /\ content.state = "present" /\ content' = [content EXCEPT !.state = "deleting"]
  /\ UNCHANGED <<kind, azure, scalls, waiting, leaked, faults>>

DeleteSnapshot ==
  /\ content.state = "deleting" /\ waiting = NoCall
  /\ \/ content' = [content EXCEPT !.state = "removed"] /\ Answered
     \/ UNCHANGED content /\ Failed
  /\ IF kind.cross THEN copy' = Absent /\ UNCHANGED local
     ELSE local' = (IF local # Absent /\ local.source = Volume THEN Absent ELSE local) /\ UNCHANGED copy
  /\ UNCHANGED <<kind, scalls, waiting, leaked>>

(* A call that was given up ends.                                          *)
InFlight(c) ==
  \/ UNCHANGED azure
  \/ scalls[c] = "create" /\ local' = Put(local, Volume) /\ UNCHANGED copy
  \/ scalls[c] = "copy" /\ CopyStarted
  \/ scalls[c] = "delete" /\ local' = Absent /\ UNCHANGED copy

SnapshotCancelled(c) ==
  /\ scalls[c] # "idle" /\ waiting # c
  /\ InFlight(c)
  /\ scalls' = [scalls EXCEPT ![c] = "idle"]
  /\ UNCHANGED <<kind, content, waiting, leaked, faults>>

(* The controller restarts; faults is counted by whoever calls this.       *)
SnapshotRestart ==
  /\ \E c \in Calls : InFlight(c)
  /\ scalls' = [c \in Calls |-> "idle"] /\ waiting' = NoCall
  /\ UNCHANGED <<kind, content, leaked>>

SnapshotStep(c) ==
  \/ SnapshotCancelled(c) \/ LockSnapshot(c) \/ FindSnapshot(c) \/ CreateLocal(c)
  \/ waitForSnapshotReady(c, local, "wait", "read") \/ ReadLocal(c)
  \/ FindCopy(c) \/ StartCopy(c) \/ waitForSnapshotReady(c, copy, "waitCopy", "readCopy") \/ ReadCopy(c) \/ DeleteLocal(c)

Next ==
  \/ \E c \in Calls : SnapshotStep(c) \/ Snapshot(c)
  \/ Complete \/ GiveUpSnapshot \/ ListSnapshotsByID \/ RemoveContent \/ DeleteSnapshot

-----------------------------------------------------------------------------
(* The snapshots, the content and the calls.                               *)
TypeOK ==
  /\ local \in Snapshots \cup {Absent} /\ copy \in Snapshots \cup {Absent}
  /\ content \in [state : {"present", "deleting", "removed"}, ready : BOOLEAN, refused : BOOLEAN]
  /\ waiting \in Calls \cup {NoCall} /\ leaked \in BOOLEAN

(* A snapshot reported ready is there, complete (or of instant access),    *)
(* and of the volume asked for, as long as its content is (CreateSnapshot  *)
(* answers with the name of a copy before there is one).                   *)
ReadyIsComplete ==
  content.ready /\ content.state = "present" =>
    Named # Absent /\ Named.source = Volume /\ (Named.complete \/ kind.instant)

(* Once a copy is reported ready and no call runs, its local snapshot is   *)
(* gone, also if a retry created it again, unless its delete failed.       *)
LocalGone ==
  content.ready /\ kind.cross /\ (\A c \in Calls : scalls[c] = "idle") => local = Absent \/ leaked

(* A snapshot asked for is ready in the end: retries find what was begun,  *)
(* and the local snapshot stays until it is copied. Not so if its name is  *)
(* taken by a snapshot of another disk.                                    *)
SnapshotServed ==
  content.state = "present" ~> content.ready \/ content.refused \/ content.state # "present"
=============================================================================
