--------------------------- MODULE SnapshotProofs ---------------------------
(***************************************************************************)
(* Theorems about the snapshots and the lists of ControllerServer, for any *)
(* number of calls at a time, of faults, groups and disks. For snapshots:  *)
(* one call at a time is past the lock, a call past the create works on a  *)
(* snapshot of the volume asked for, and once the snapshot is reported     *)
(* ready no call touches it. For lists: the pages so far hold what is      *)
(* listed up to a position, and the next page starts no later.             *)
(***************************************************************************)
EXTENDS ControllerServer, FiniteSetTheorems, SequenceTheorems, WellFoundedInduction, TLAPS

SnapshotPCs == {"idle", "lock", "find", "create", "wait", "read", "findCopy", "copy", "waitCopy", "readCopy", "delete"}
PastCreate == {"wait", "read", "findCopy", "copy", "waitCopy", "readCopy", "delete"}
SnapshotTypes == [source : {Volume, Other}, complete : BOOLEAN]
ContentTypes == [state : {"present", "deleting", "removed"}, ready : BOOLEAN, refused : BOOLEAN]

SnapTyped ==
  /\ kind \in [cross : BOOLEAN, wait : BOOLEAN, instant : BOOLEAN, static : BOOLEAN] /\ (kind.static => ~kind.cross)
  /\ content \in ContentTypes
  /\ local \in SnapshotTypes \cup {Absent} /\ copy \in SnapshotTypes \cup {Absent}
  /\ scalls \in [Slots -> SnapshotPCs] /\ waiting \in Slots \cup {NoCall}

(* The lock of the name.                                                   *)
OneSnapshotCall ==
  \A c, d \in Slots : scalls[c] \notin {"idle", "lock"} /\ scalls[d] \notin {"idle", "lock"} => c = d

(* The snapshot of another disk is neither copied nor reported.            *)
OfTheVolume ==
  /\ (\E c \in Slots : scalls[c] \in PastCreate) \/ kind.static => local = Absent \/ local.source = Volume
  /\ copy = Absent \/ copy.source = Volume

(* Only calls for another region get to the copy, none runs for a content  *)
(* that was written by hand.                                               *)
CallsOfKind ==
  \A c \in Slots : /\ scalls[c] \in {"findCopy", "copy", "waitCopy", "readCopy", "delete"} => kind.cross
                   /\ scalls[c] # "idle" => ~kind.static

(* Once it is ready the calls that are left do nothing, and nobody waits   *)
(* for a content that was written by hand.                                 *)
ReadyIsLast ==
  content.ready \/ kind.static => waiting = NoCall /\ \A c \in Slots : scalls[c] \in {"idle", "lock"}

ReadyLocalGone == content.ready /\ kind.cross => local = Absent \/ leaked

SnapInv ==
  /\ SnapTyped /\ OneSnapshotCall /\ OfTheVolume /\ CallsOfKind /\ ReadyIsLast /\ ReadyLocalGone
  /\ ReadyIsComplete

-----------------------------------------------------------------------------
(* What is done to the snapshots keeps their source.                       *)
SourceKept ==
  /\ local' \in SnapshotTypes \cup {Absent} /\ copy' \in SnapshotTypes \cup {Absent}
  /\ local' # Absent => (local # Absent /\ local'.source = local.source) \/ (local = Absent /\ local'.source = Volume)
  /\ copy' = Absent \/ copy'.source = Volume

LEMMA NewSnapshot ==
  /\ [source |-> Volume, complete |-> FALSE] \in SnapshotTypes
  /\ \A snap \in SnapshotTypes :
       /\ snap # Absent /\ [snap EXCEPT !.complete = TRUE] \in SnapshotTypes
       /\ [snap EXCEPT !.complete = TRUE].source = snap.source /\ [snap EXCEPT !.complete = TRUE].complete = TRUE
BY SourceAssumption DEF SnapshotTypes

LEMMA SameSource ==
  ASSUME SnapInv, UNCHANGED <<local, copy>>
  PROVE  SourceKept
BY DEF SnapInv, SnapTyped, OfTheVolume, SourceKept

LEMMA PutSource ==
  ASSUME SnapInv, local' = Snap!Put(local, Volume), UNCHANGED copy
  PROVE  SourceKept
<1>1. CASE local = Absent
  BY <1>1, NewSnapshot DEF SnapInv, SnapTyped, OfTheVolume, SourceKept, Snap!Put
<1>2. CASE local # Absent
  BY <1>2, SameSource DEF Snap!Put
<1> QED
  BY <1>1, <1>2

LEMMA CopySource ==
  ASSUME SnapInv, NEW c \in Slots, scalls[c] = "copy", Snap!CopyStarted
  PROVE  SourceKept
<1>1. local # Absent /\ local.source = Volume /\ local' = local /\ copy' = Snap!Put(copy, Volume)
  BY DEF Snap!CopyStarted, SnapInv, OfTheVolume, PastCreate
<1>2. CASE copy = Absent
  BY <1>1, <1>2, NewSnapshot DEF SnapInv, SnapTyped, SourceKept, Snap!Put
<1>3. CASE copy # Absent
  BY <1>1, <1>3, SameSource DEF Snap!Put
<1> QED
  BY <1>2, <1>3

LEMMA GoneSource ==
  ASSUME SnapInv, local' \in {local, Absent}, copy' \in {copy, Absent}
  PROVE  SourceKept
BY DEF SnapInv, SnapTyped, OfTheVolume, SourceKept

(* What the lock, the sources and the kind say of the calls after a step   *)
(* of one of them.                                                         *)
LEMMA CallsKept ==
  ASSUME SnapInv, kind' = kind, SourceKept, NEW c \in Slots, NEW label \in SnapshotPCs,
         scalls' = [scalls EXCEPT ![c] = label],
         label \notin {"idle", "lock"} =>
           scalls[c] \notin {"idle", "lock"} \/ \A d \in Slots \ {c} : scalls[d] \in {"idle", "lock"},
         label \in PastCreate => scalls[c] \in PastCreate \/ local' = Absent \/ local'.source = Volume,
         label \in {"findCopy", "copy", "waitCopy", "readCopy", "delete"} => kind.cross,
         label # "idle" => ~kind.static
  PROVE  /\ scalls' \in [Slots -> SnapshotPCs] /\ OneSnapshotCall' /\ OfTheVolume' /\ CallsOfKind'
         /\ scalls'[c] = label /\ \A d \in Slots \ {c} : scalls'[d] = scalls[d]
<1>1. /\ scalls' \in [Slots -> SnapshotPCs] /\ scalls'[c] = label
      /\ \A d \in Slots \ {c} : scalls'[d] = scalls[d]
  BY DEF SnapInv, SnapTyped
<1>2. OneSnapshotCall'
  BY <1>1 DEF SnapInv, OneSnapshotCall
<1>3. CallsOfKind'
  BY <1>1 DEF SnapInv, CallsOfKind
<1>4. OfTheVolume'
  <2>1. ASSUME \E d \in Slots : scalls[d] \in PastCreate PROVE local' = Absent \/ local'.source = Volume
    BY <2>1 DEF SnapInv, OfTheVolume, SourceKept
  <2>2. ASSUME kind.static PROVE local' = Absent \/ local'.source = Volume
    BY <2>2 DEF SnapInv, OfTheVolume, SourceKept
  <2>3. ASSUME \E d \in Slots : scalls'[d] \in PastCreate PROVE local' = Absent \/ local'.source = Volume
    BY <1>1, <2>1, <2>3
  <2> QED
    BY <2>2, <2>3 DEF OfTheVolume, SourceKept
<1> QED
  BY <1>1, <1>2, <1>3, <1>4

(* A step of the call the client waits for.                                *)
LEMMA SnapshotCallKeeps ==
  ASSUME SnapInv, kind' = kind, SourceKept, NEW c \in Slots, waiting = c, waiting' \in {c, NoCall},
         NEW label \in SnapshotPCs, scalls' = [scalls EXCEPT ![c] = label],
         label \notin {"idle", "lock"} =>
           scalls[c] \notin {"idle", "lock"} \/ \A d \in Slots \ {c} : scalls[d] \in {"idle", "lock"},
         label \in PastCreate => scalls[c] \in PastCreate \/ local' = Absent \/ local'.source = Volume,
         label \in {"findCopy", "copy", "waitCopy", "readCopy", "delete"} => kind.cross,
         label # "idle" => scalls[c] # "idle",
         content' \in ContentTypes,
         content'.ready =>
           /\ label = "idle" /\ waiting' = NoCall /\ scalls[c] \notin {"idle", "lock"}
           /\ ReadyIsComplete' /\ ReadyLocalGone'
  PROVE  SnapInv'
<1>1. label # "idle" => ~kind.static
  BY DEF SnapInv, CallsOfKind
<1>2. /\ scalls' \in [Slots -> SnapshotPCs] /\ OneSnapshotCall' /\ OfTheVolume' /\ CallsOfKind'
      /\ scalls'[c] = label /\ \A d \in Slots \ {c} : scalls'[d] = scalls[d]
  BY <1>1, CallsKept
<1>3. SnapTyped'
  BY <1>2 DEF SnapInv, SnapTyped, SourceKept
<1>4. ReadyIsLast'
  <2>1. ~kind.static
    BY SlotAssumption DEF SnapInv, ReadyIsLast
  <2> QED
    BY <1>2, <2>1 DEF SnapInv, OneSnapshotCall, ReadyIsLast
<1>5. CASE content'.ready
  BY <1>2, <1>3, <1>4, <1>5 DEF SnapInv
<1>6. CASE ~content'.ready
  BY <1>2, <1>3, <1>4, <1>6 DEF SnapInv, ReadyIsComplete, Snap!ReadyIsComplete, ReadyLocalGone
<1> QED
  BY <1>5, <1>6

LEMMA WaitingIsNotReady ==
  ASSUME SnapInv, NEW c \in Slots, waiting = c
  PROVE  ~content.ready
BY SlotAssumption DEF SnapInv, ReadyIsLast

LEMMA SnapshotErrorKeeps ==
  ASSUME SnapInv, kind' = kind, SourceKept, NEW c \in Slots, waiting = c, Snap!ReturnError(c)
  PROVE  SnapInv'
<1>1. /\ scalls' = [scalls EXCEPT ![c] = "idle"] /\ waiting' = NoCall
      /\ content' = content /\ content \in ContentTypes /\ ~content.ready
  BY WaitingIsNotReady DEF Snap!ReturnError, Snap!Return, SnapInv, SnapTyped
<1> QED
  BY <1>1, SnapshotCallKeeps DEF SnapshotPCs, PastCreate

LEMMA RefusedKeeps ==
  ASSUME SnapInv, kind' = kind, SourceKept, NEW c \in Slots, waiting = c, Snap!AlreadyExists(c)
  PROVE  SnapInv'
<1>1. /\ scalls' = [scalls EXCEPT ![c] = "idle"] /\ waiting' = NoCall
      /\ content' = [content EXCEPT !.refused = TRUE]
  BY DEF Snap!AlreadyExists, Snap!Return
<1>2. content' \in ContentTypes /\ content'.ready = content.ready
  BY <1>1 DEF SnapInv, SnapTyped, ContentTypes
<1>3. ~content'.ready
  BY <1>2, WaitingIsNotReady
<1> QED
  BY <1>1, <1>2, <1>3, SnapshotCallKeeps DEF SnapshotPCs, PastCreate

LEMMA SnapshotGotoKeeps ==
  ASSUME SnapInv, kind' = kind, SourceKept, NEW c \in Slots, waiting = c, NEW label \in SnapshotPCs, Snap!Goto(c, label),
         label \notin {"idle", "lock"} =>
           scalls[c] \notin {"idle", "lock"} \/ \A d \in Slots \ {c} : scalls[d] \in {"idle", "lock"},
         label \in PastCreate => scalls[c] \in PastCreate \/ local' = Absent \/ local'.source = Volume,
         label \in {"findCopy", "copy", "waitCopy", "readCopy", "delete"} => kind.cross,
         scalls[c] # "idle"
  PROVE  SnapInv'
<1>1. /\ scalls' = [scalls EXCEPT ![c] = label] /\ waiting' = c
      /\ content' = content /\ content \in ContentTypes /\ ~content.ready
  BY WaitingIsNotReady DEF Snap!Goto, SnapInv, SnapTyped
<1> QED
  BY <1>1, SnapshotCallKeeps

(* The answer: ready only if the snapshot named is, and, after a copy,     *)
(* only with the local snapshot gone or leaked.                            *)
LEMMA AnswerKeeps ==
  ASSUME SnapInv, kind' = kind, SourceKept, NEW c \in Slots, waiting = c, scalls[c] \notin {"idle", "lock"},
         NEW ready \in BOOLEAN, Snap!ReturnSnapshot(c, ready),
         ready =>
           /\ Snap!Named' # Absent /\ Snap!Named'.source = Volume /\ (Snap!Named'.complete \/ kind.instant)
           /\ kind.cross => local' = Absent \/ leaked'
  PROVE  SnapInv'
<1>1. /\ scalls' = [scalls EXCEPT ![c] = "idle"] /\ waiting' = NoCall
      /\ content' = [content EXCEPT !.ready = ready]
  BY DEF Snap!ReturnSnapshot, Snap!Return
<1>2. content' \in ContentTypes /\ content'.ready = ready
  BY <1>1 DEF SnapInv, SnapTyped, ContentTypes
<1>3. content'.ready => ReadyIsComplete' /\ ReadyLocalGone'
  BY <1>2 DEF ReadyIsComplete, Snap!ReadyIsComplete, ReadyLocalGone
<1> QED
  BY <1>1, <1>2, <1>3, SnapshotCallKeeps DEF SnapshotPCs, PastCreate

LEMMA ReadKeeps ==
  ASSUME SnapInv, NEW c \in Slots, Snap!ReadLocal(c) \/ Snap!ReadCopy(c) \/ Snap!DeleteLocal(c)
  PROVE  SnapInv'
<1>1. waiting = c /\ kind' = kind
  BY DEF Snap!ReadLocal, Snap!ReadCopy, Snap!DeleteLocal, Snap!At
<1>2. CASE Snap!ReadLocal(c)
  <2>1. scalls[c] = "read" /\ UNCHANGED <<local, copy>>
    BY <1>2 DEF Snap!ReadLocal, Snap!At, Snap!azure
  <2>2. SourceKept
    BY <2>1, SameSource
  <2>3. CASE Snap!ReturnError(c)
    BY <1>1, <2>2, <2>3, SnapshotErrorKeeps
  <2>4. CASE Snap!ReturnSnapshot(c, FALSE)
    BY <1>1, <2>1, <2>2, <2>4, AnswerKeeps
  <2>5. CASE kind.cross /\ Snap!Goto(c, "findCopy")
    BY <1>1, <2>1, <2>2, <2>5, SnapshotGotoKeeps DEF SnapshotPCs, PastCreate
  <2>6. CASE ~kind.cross /\ Snap!getSnapshotByID(local) = "ready" /\ Snap!ReturnSnapshot(c, TRUE)
    <3>1. local # Absent /\ (local.complete \/ kind.instant)
      BY <2>6 DEF Snap!getSnapshotByID, Snap!ReadyToUse
    <3>2. local.source = Volume
      BY <2>1, <3>1 DEF SnapInv, OfTheVolume, PastCreate
    <3>3. Snap!Named' = local
      BY <1>1, <2>1, <2>6 DEF Snap!Named
    <3> QED
      BY <1>1, <2>1, <2>2, <2>6, <3>1, <3>2, <3>3, AnswerKeeps
  <2> QED
    BY <1>2, <2>3, <2>4, <2>5, <2>6 DEF Snap!ReadLocal
<1>3. CASE Snap!ReadCopy(c)
  <2>1. scalls[c] = "readCopy" /\ UNCHANGED <<local, copy>>
    BY <1>3 DEF Snap!ReadCopy, Snap!At, Snap!azure
  <2>2. SourceKept /\ kind.cross
    BY <2>1, SameSource DEF SnapInv, CallsOfKind
  <2>3. CASE Snap!ReturnError(c)
    BY <1>1, <2>2, <2>3, SnapshotErrorKeeps
  <2>4. CASE Snap!ReturnSnapshot(c, FALSE)
    BY <1>1, <2>1, <2>2, <2>4, AnswerKeeps
  <2>5. CASE Snap!Goto(c, "delete")
    BY <1>1, <2>1, <2>2, <2>5, SnapshotGotoKeeps DEF SnapshotPCs, PastCreate
  <2> QED
    BY <1>3, <2>3, <2>4, <2>5 DEF Snap!ReadCopy
<1>4. CASE Snap!DeleteLocal(c)
  <2>1. scalls[c] = "delete" /\ copy' = copy /\ local' \in {local, Absent} /\ (local' = Absent \/ leaked')
    BY <1>4 DEF Snap!DeleteLocal, Snap!At
  <2>2. SourceKept /\ kind.cross
    BY <2>1, GoneSource DEF SnapInv, CallsOfKind
  <2>3. PICK ready \in BOOLEAN : ready = Snap!ReadyToUse(copy)
    BY Zenon DEF Snap!ReadyToUse
  <2>4. ready => copy # Absent /\ copy.source = Volume /\ (copy.complete \/ kind.instant)
    BY <2>3 DEF Snap!ReadyToUse, SnapInv, OfTheVolume
  <2>5. Snap!Named' = copy
    BY <1>1, <2>1, <2>2 DEF Snap!Named
  <2>6. Snap!ReturnSnapshot(c, ready)
    BY <1>4, <2>3 DEF Snap!DeleteLocal
  <2> QED
    BY <1>1, <2>1, <2>2, <2>4, <2>5, <2>6, AnswerKeeps
<1> QED
  BY <1>2, <1>3, <1>4

LEMMA WaitKeeps ==
  ASSUME SnapInv, NEW c \in Slots, NEW snap,
         NEW here \in {"wait", "waitCopy"}, NEW next \in {"read", "readCopy"}, here = "wait" <=> next = "read",
         Snap!waitForSnapshotReady(c, snap, here, next)
  PROVE  SnapInv'
<1>1. waiting = c /\ kind' = kind /\ scalls[c] = here /\ UNCHANGED <<local, copy>>
  BY DEF Snap!waitForSnapshotReady, Snap!At, Snap!azure
<1>2. SourceKept
  BY <1>1, SameSource
<1>3. Snap!Goto(c, next) \/ Snap!ReturnError(c)
  BY DEF Snap!waitForSnapshotReady
<1>4. next = "readCopy" => kind.cross
  BY <1>1 DEF SnapInv, CallsOfKind
<1> QED
  BY <1>1, <1>2, <1>3, <1>4, SnapshotGotoKeeps, SnapshotErrorKeeps DEF SnapshotPCs, PastCreate

LEMMA MakeKeeps ==
  ASSUME SnapInv, NEW c \in Slots,
         Snap!LockSnapshot(c) \/ Snap!FindSnapshot(c) \/ Snap!CreateLocal(c) \/ Snap!FindCopy(c) \/ Snap!StartCopy(c)
  PROVE  SnapInv'
<1>1. waiting = c /\ kind' = kind
  BY DEF Snap!LockSnapshot, Snap!FindSnapshot, Snap!CreateLocal, Snap!FindCopy, Snap!StartCopy, Snap!At
<1>2. CASE Snap!LockSnapshot(c)
  <2>1. scalls[c] = "lock" /\ UNCHANGED <<local, copy>>
    BY <1>2 DEF Snap!LockSnapshot, Snap!At, Snap!azure
  <2>2. \/ Snap!ReturnError(c)
        \/ Snap!Goto(c, "find") /\ \A d \in Slots \ {c} : scalls[d] \in {"idle", "lock"}
    BY <1>2 DEF Snap!LockSnapshot
  <2> QED
    BY <1>1, <2>1, <2>2, SameSource, SnapshotErrorKeeps, SnapshotGotoKeeps DEF SnapshotPCs, PastCreate
<1>3. CASE Snap!FindSnapshot(c)
  <2>1. scalls[c] = "find" /\ UNCHANGED <<local, copy>>
    BY <1>3 DEF Snap!FindSnapshot, Snap!At, Snap!azure
  <2>2. (Snap!Goto(c, "wait") /\ local.source = Volume) \/ Snap!Goto(c, "create")
    BY <1>3 DEF Snap!FindSnapshot
  <2> QED
    BY <1>1, <2>1, <2>2, SameSource, SnapshotGotoKeeps DEF SnapshotPCs, PastCreate
<1>4. CASE Snap!CreateLocal(c)
  <2>1. scalls[c] = "create" /\ copy' = copy /\ (local' = local \/ local' = Snap!Put(local, Volume))
    BY <1>4 DEF Snap!CreateLocal, Snap!At, Snap!azure
  <2>2. SourceKept
    BY <2>1, SameSource, PutSource
  <2>3. Snap!AlreadyExists(c) \/ (Snap!Goto(c, "wait") /\ local'.source = Volume) \/ Snap!ReturnError(c)
    BY <1>4 DEF Snap!CreateLocal
  <2> QED
    BY <1>1, <2>1, <2>2, <2>3, RefusedKeeps, SnapshotErrorKeeps, SnapshotGotoKeeps DEF SnapshotPCs, PastCreate
<1>5. CASE Snap!FindCopy(c)
  <2>1. scalls[c] = "findCopy" /\ UNCHANGED <<local, copy>> /\ kind.cross
    BY <1>5 DEF Snap!FindCopy, Snap!At, Snap!azure, SnapInv, CallsOfKind
  <2>2. Snap!Goto(c, "waitCopy") \/ Snap!Goto(c, "copy")
    BY <1>5 DEF Snap!FindCopy
  <2> QED
    BY <1>1, <2>1, <2>2, SameSource, SnapshotGotoKeeps DEF SnapshotPCs, PastCreate
<1>6. CASE Snap!StartCopy(c)
  <2>1. scalls[c] = "copy" /\ kind.cross
    BY <1>6 DEF Snap!StartCopy, Snap!At, SnapInv, CallsOfKind
  <2>2. SourceKept
    BY <1>6, <2>1, SameSource, CopySource DEF Snap!StartCopy, Snap!azure
  <2>3. Snap!Goto(c, "waitCopy") \/ Snap!ReturnError(c)
    BY <1>6 DEF Snap!StartCopy
  <2> QED
    BY <1>1, <2>1, <2>2, <2>3, SnapshotGotoKeeps, SnapshotErrorKeeps DEF SnapshotPCs, PastCreate
<1> QED
  BY <1>2, <1>3, <1>4, <1>5, <1>6

(* A call that was given up: none works on a snapshot that is ready.       *)
LEMMA SnapInFlight ==
  ASSUME SnapInv, NEW c \in Slots, Snap!InFlight(c)
  PROVE  SourceKept /\ (content.ready => UNCHANGED <<local, copy>>)
<1>1. content.ready => scalls[c] \in {"idle", "lock"}
  BY DEF SnapInv, ReadyIsLast
<1>2. CASE scalls[c] = "delete" /\ local' = Absent /\ UNCHANGED copy
  BY <1>1, <1>2, GoneSource
<1>3. CASE scalls[c] = "create" /\ local' = Snap!Put(local, Volume) /\ UNCHANGED copy
  BY <1>1, <1>3, PutSource
<1>4. CASE scalls[c] = "copy" /\ Snap!CopyStarted
  BY <1>1, <1>4, CopySource
<1>5. CASE UNCHANGED <<local, copy>>
  BY <1>5, SameSource
<1> QED
  BY <1>2, <1>3, <1>4, <1>5 DEF Snap!InFlight, Snap!azure

(* A step that does not touch a snapshot that is ready.                    *)
LEMMA ReadyStays ==
  ASSUME SnapInv, kind' = kind, content'.ready => content.ready, content'.state = "present" => content.state = "present",
         leaked => leaked', content.ready => UNCHANGED <<local, copy>>
  PROVE  ReadyIsComplete' /\ ReadyLocalGone'
<1>1. CASE content'.ready
  <2>1. content.ready /\ local' = local /\ copy' = copy /\ Snap!Named' = Snap!Named
    BY <1>1 DEF Snap!Named
  <2>2. ReadyLocalGone'
    BY <2>1 DEF SnapInv, ReadyLocalGone
  <2>3. ReadyIsComplete'
    BY <2>1 DEF SnapInv, ReadyIsComplete, Snap!ReadyIsComplete
  <2> QED
    BY <2>2, <2>3
<1>2. CASE ~content'.ready
  BY <1>2 DEF ReadyIsComplete, Snap!ReadyIsComplete, ReadyLocalGone
<1> QED
  BY <1>1, <1>2

LEMMA SnapshotCancelledKeeps ==
  ASSUME SnapInv, NEW c \in Slots, Snap!SnapshotCancelled(c)
  PROVE  SnapInv'
<1>1. /\ scalls' = [scalls EXCEPT ![c] = "idle"] /\ kind' = kind /\ content' = content
      /\ waiting' = waiting /\ leaked' = leaked
      /\ SourceKept /\ (content.ready => UNCHANGED <<local, copy>>)
  BY SnapInFlight DEF Snap!SnapshotCancelled
<1>2. /\ scalls' \in [Slots -> SnapshotPCs] /\ OneSnapshotCall' /\ OfTheVolume' /\ CallsOfKind'
      /\ scalls'[c] = "idle" /\ \A d \in Slots \ {c} : scalls'[d] = scalls[d]
  BY <1>1, CallsKept DEF SnapshotPCs, PastCreate
<1>3. ReadyIsComplete' /\ ReadyLocalGone'
  BY <1>1, ReadyStays
<1>4. SnapTyped' /\ ReadyIsLast'
  BY <1>1, <1>2 DEF SnapInv, SnapTyped, ReadyIsLast, SourceKept
<1> QED
  BY <1>2, <1>3, <1>4 DEF SnapInv

LEMMA SnapshotRestartKeeps ==
  ASSUME SnapInv, Snap!SnapshotRestart
  PROVE  SnapInv'
<1>1. /\ scalls' = [c \in Slots |-> "idle"] /\ waiting' = NoCall /\ kind' = kind /\ content' = content
      /\ leaked' = leaked /\ SourceKept /\ (content.ready => UNCHANGED <<local, copy>>)
  BY SnapInFlight DEF Snap!SnapshotRestart
<1>2. ReadyIsComplete' /\ ReadyLocalGone'
  BY <1>1, ReadyStays
<1>3. SnapTyped' /\ ReadyIsLast'
  BY <1>1 DEF SnapInv, SnapTyped, ReadyIsLast, SourceKept, SnapshotPCs
<1>4. OneSnapshotCall' /\ CallsOfKind'
  BY <1>1 DEF OneSnapshotCall, CallsOfKind
<1>5. OfTheVolume'
  BY <1>1 DEF SnapInv, OfTheVolume, SourceKept, PastCreate
<1> QED
  BY <1>2, <1>3, <1>4, <1>5 DEF SnapInv

LEMMA AskKeeps ==
  ASSUME SnapInv, NEW c \in Slots, Snap!Snapshot(c)
  PROVE  SnapInv'
<1>1. /\ scalls' = [scalls EXCEPT ![c] = "lock"] /\ waiting' = c /\ kind' = kind /\ content' = content
      /\ UNCHANGED <<local, copy>> /\ leaked' = leaked /\ ~content.ready /\ ~kind.static
  BY DEF Snap!Snapshot, Snap!azure
<1>2. SourceKept
  BY <1>1, SameSource
<1>3. scalls' \in [Slots -> SnapshotPCs] /\ OneSnapshotCall' /\ OfTheVolume' /\ CallsOfKind'
  BY <1>1, <1>2, CallsKept DEF SnapshotPCs, PastCreate
<1>4. ReadyIsComplete' /\ ReadyLocalGone'
  BY <1>1, ReadyStays
<1>5. SnapTyped' /\ ReadyIsLast'
  BY <1>1, <1>3 DEF SnapInv, SnapTyped, ReadyIsLast
<1> QED
  BY <1>3, <1>4, <1>5 DEF SnapInv

(* Azure goes on, and the content is removed with its snapshot.            *)
LEMMA CompleteKeeps ==
  ASSUME SnapInv, Snap!Complete
  PROVE  SnapInv'
<1>1. UNCHANGED <<kind, content, scalls, waiting, leaked>>
  BY DEF Snap!Complete
<1>2. CASE local # Absent /\ local' = [local EXCEPT !.complete = TRUE] /\ UNCHANGED copy
  <2>1. local \in SnapshotTypes
    BY <1>2 DEF SnapInv, SnapTyped
  <2>2. local' \in SnapshotTypes /\ local' # Absent /\ local'.source = local.source /\ local'.complete = TRUE
    BY <1>2, <2>1, NewSnapshot, Zenon
  <2> QED
    BY <1>1, <1>2, <2>1, <2>2 DEF SnapInv, SnapTyped, OneSnapshotCall, OfTheVolume, CallsOfKind, ReadyIsLast, ReadyLocalGone,
       ReadyIsComplete, Snap!ReadyIsComplete, Snap!Named
<1>3. CASE copy # Absent /\ copy' = [copy EXCEPT !.complete = TRUE] /\ UNCHANGED local
  <2>1. copy \in SnapshotTypes
    BY <1>3 DEF SnapInv, SnapTyped
  <2>2. copy' \in SnapshotTypes /\ copy' # Absent /\ copy'.source = copy.source /\ copy'.complete = TRUE
    BY <1>3, <2>1, NewSnapshot, Zenon
  <2> QED
    BY <1>1, <1>3, <2>1, <2>2 DEF SnapInv, SnapTyped, OneSnapshotCall, OfTheVolume, CallsOfKind, ReadyIsLast, ReadyLocalGone,
       ReadyIsComplete, Snap!ReadyIsComplete, Snap!Named
<1> QED
  BY <1>2, <1>3 DEF Snap!Complete

LEMMA ContentKeeps ==
  ASSUME SnapInv, Snap!RemoveContent \/ Snap!DeleteSnapshot \/ Snap!ListSnapshotsByID \/ Snap!GiveUpSnapshot
  PROVE  SnapInv'
<1>1. CASE Snap!GiveUpSnapshot
  BY <1>1 DEF Snap!GiveUpSnapshot, Snap!azure, SnapInv, SnapTyped, OneSnapshotCall, OfTheVolume, CallsOfKind, ReadyIsLast,
     ReadyLocalGone, ReadyIsComplete, Snap!ReadyIsComplete, Snap!Named
<1>2. CASE Snap!RemoveContent
  <2>1. content' = [content EXCEPT !.state = "deleting"] /\ UNCHANGED <<kind, local, copy, scalls, waiting, leaked>>
    BY <1>2 DEF Snap!RemoveContent, Snap!azure
  <2>2. content' \in ContentTypes /\ content'.ready = content.ready /\ content'.state = "deleting"
    BY <2>1 DEF SnapInv, SnapTyped, ContentTypes
  <2> QED
    BY <2>1, <2>2 DEF SnapInv, SnapTyped, OneSnapshotCall, OfTheVolume, CallsOfKind, ReadyIsLast, ReadyLocalGone,
       ReadyIsComplete, Snap!ReadyIsComplete
<1>3. CASE Snap!DeleteSnapshot
  <2>1. /\ content.state = "deleting" /\ content' \in {content, [content EXCEPT !.state = "removed"]}
        /\ UNCHANGED <<kind, scalls, waiting, leaked>>
        /\ local' \in {local, Absent} /\ copy' \in {copy, Absent} /\ (kind.cross => local' = local)
    BY <1>3 DEF Snap!DeleteSnapshot
  <2>2. content' \in ContentTypes /\ content'.ready = content.ready /\ content'.state # "present"
    BY <2>1 DEF SnapInv, SnapTyped, ContentTypes
  <2>3. SnapTyped' /\ OfTheVolume'
    BY <2>1, <2>2 DEF SnapInv, SnapTyped, OfTheVolume
  <2> QED
    BY <2>1, <2>2, <2>3 DEF SnapInv, OneSnapshotCall, CallsOfKind, ReadyIsLast, ReadyLocalGone,
       ReadyIsComplete, Snap!ReadyIsComplete
<1>4. CASE Snap!ListSnapshotsByID
  <2>1. kind.static /\ ~kind.cross /\ ~content.ready /\ UNCHANGED <<kind, local, copy, scalls, waiting, leaked>>
    BY <1>4 DEF Snap!ListSnapshotsByID, Snap!azure, SnapInv, SnapTyped
  <2>2. \A c \in Slots : scalls[c] = "idle"
    BY <2>1 DEF SnapInv, CallsOfKind
  <2>3. PICK ready \in BOOLEAN : ready = (Snap!getSnapshotByID(local) = "ready")
    BY Zenon
  <2>4. content' = content \/ content' = [content EXCEPT !.ready = ready]
    BY <1>4, <2>3 DEF Snap!ListSnapshotsByID
  <2>5. content' \in ContentTypes /\ (content'.ready => ready)
    BY <2>1, <2>4 DEF SnapInv, SnapTyped, ContentTypes
  <2>6. ready => local # Absent /\ local.source = Volume /\ (local.complete \/ kind.instant)
    BY <2>1, <2>3 DEF Snap!getSnapshotByID, Snap!ReadyToUse, SnapInv, OfTheVolume
  <2> QED
    BY <2>1, <2>2, <2>5, <2>6 DEF SnapInv, SnapTyped, OneSnapshotCall, OfTheVolume, CallsOfKind, ReadyIsLast, ReadyLocalGone,
       ReadyIsComplete, Snap!ReadyIsComplete, Snap!Named
<1> QED
  BY <1>1, <1>2, <1>3, <1>4

LEMMA SnapshotsUnchanged ==
  ASSUME SnapInv, UNCHANGED snapshots
  PROVE  SnapInv'
BY DEF snapshots, SnapInv, SnapTyped, OneSnapshotCall, OfTheVolume, CallsOfKind, ReadyIsLast, ReadyLocalGone,
   ReadyIsComplete, Snap!ReadyIsComplete, Snap!Named

LEMMA SnapshotServerKeeps ==
  ASSUME SnapInv, [ServerNext]_servervars
  PROVE  SnapInv'
<1>1. ASSUME NEW c \in Slots, Snap!SnapshotStep(c) PROVE SnapInv'
  <2>1. CASE Snap!waitForSnapshotReady(c, local, "wait", "read")
    BY <2>1, WaitKeeps
  <2>2. CASE Snap!waitForSnapshotReady(c, copy, "waitCopy", "readCopy")
    BY <2>2, WaitKeeps
  <2> QED
    BY <1>1, <2>1, <2>2, MakeKeeps, ReadKeeps, SnapshotCancelledKeeps DEF Snap!SnapshotStep
<1>2. CASE SnapshotWork
  BY <1>1, <1>2, AskKeeps, CompleteKeeps, ContentKeeps DEF SnapshotWork, Snap!Next
<1>3. CASE ServerRestart
  BY <1>3, SnapshotRestartKeeps DEF ServerRestart
<1>4. CASE VolumeWork \/ ListWork \/ UNCHANGED servervars
  BY <1>4, SnapshotsUnchanged DEF VolumeWork, besidesVolumes, ListWork, servervars
<1> QED
  BY <1>2, <1>3, <1>4 DEF ServerNext

LEMMA SnapshotInitKeeps == ServerInit => SnapInv
<1> SUFFICES ASSUME ServerInit PROVE SnapInv
  OBVIOUS
<1>1. /\ kind \in [cross : BOOLEAN, wait : BOOLEAN, instant : BOOLEAN, static : BOOLEAN] /\ (kind.static => ~kind.cross)
      /\ content \in ContentTypes /\ ~content.ready
      /\ local \in SnapshotTypes \cup {Absent} /\ (kind.static => local = Absent \/ local.source = Volume)
      /\ copy = Absent /\ scalls = [c \in Slots |-> "idle"] /\ waiting = NoCall
  <2>1. CASE Snap!Quiet
    BY <2>1 DEF Snap!Quiet, ContentTypes
  <2>2. CASE Snap!Init
    <3>1. kind \in Kinds
      BY <2>2 DEF Snap!Init
    <3>2. /\ kind.static => local = [source |-> Volume, complete |-> FALSE]
          /\ ~kind.static => local = Absent \/ local = [source |-> Other, complete |-> TRUE]
      BY <2>2 DEF Snap!Init
    <3>3. local \in SnapshotTypes \cup {Absent} /\ (kind.static => local = Absent \/ local.source = Volume)
      <4>1. [source |-> Other, complete |-> TRUE] \in SnapshotTypes
        BY DEF SnapshotTypes
      <4>2. [source |-> Volume, complete |-> FALSE].source = Volume
        OBVIOUS
      <4> QED
        BY <3>2, <4>1, <4>2, NewSnapshot, Zenon
    <3>4. content \in ContentTypes /\ ~content.ready
      <4>1. content = [state |-> "present", ready |-> FALSE, refused |-> FALSE]
        BY <2>2, Zenon DEF Snap!Init
      <4> QED
        BY <4>1 DEF ContentTypes
    <3>5. copy = Absent /\ scalls = [c \in Slots |-> "idle"] /\ waiting = NoCall
      BY <2>2, Zenon DEF Snap!Init
    <3>6. kind \in [cross : BOOLEAN, wait : BOOLEAN, instant : BOOLEAN, static : BOOLEAN] /\ (kind.static => ~kind.cross)
      BY <3>1, KindAssumption, Zenon
    <3> QED
      BY <3>3, <3>4, <3>5, <3>6, Zenon
  <2> QED
    BY <2>1, <2>2 DEF ServerInit
<1> QED
  BY <1>1 DEF SnapInv, SnapTyped, OneSnapshotCall, OfTheVolume, CallsOfKind, ReadyIsLast, ReadyLocalGone, SnapshotPCs,
     PastCreate, ReadyIsComplete, Snap!ReadyIsComplete

(* A snapshot reported ready is there, complete or of instant access, and  *)
(* of the volume asked for, for any number of calls and faults: a name     *)
(* taken by a snapshot of another disk is neither copied nor reported, and *)
(* no call is left that could touch what was reported (CreateSnapshot).    *)
THEOREM ReadySnapshots == ServerSpec => []ReadyIsComplete
<1>1. SnapInv => ReadyIsComplete
  BY DEF SnapInv
<1>2. SnapInv /\ [ServerNext]_servervars => SnapInv'
  BY SnapshotServerKeeps
<1> QED
  BY <1>1, <1>2, SnapshotInitKeeps, PTL DEF ServerSpec

(* Once a copy is reported ready its local snapshot is gone or its delete  *)
(* failed, also after retries and calls that were given up: none of them   *)
(* creates it again behind the answer (CreateSnapshot, cleanup of the      *)
(* local snapshot).                                                        *)
THEOREM LocalSnapshotsGone == ServerSpec => []LocalGone
<1>1. SnapInv => LocalGone
  BY DEF SnapInv, ReadyLocalGone, LocalGone, Snap!LocalGone
<1>2. SnapInv /\ [ServerNext]_servervars => SnapInv'
  BY SnapshotServerKeeps
<1> QED
  BY <1>1, <1>2, SnapshotInitKeeps, PTL DEF ServerSpec

-----------------------------------------------------------------------------
(* Lists. The invariant: the pages so far hold what is listed up to some   *)
(* position, and the next page starts no later than there. It needs only   *)
(* that a page ends after it starts, and not where.                        *)
OneList == api # "cluster" \/ \A g \in List!Groups \ {1} : List!Size(g) = 0

(* What is listed of the first group from a to b, and up to m.             *)
Part(a, b) == {<<1, i>> : i \in List!Wanted(1, a, b)}
Upto(m) == Part(0, m)

(* Pages together hold all up to a position that is not before from.       *)
ListedFrom(pages, from) == \E m \in from .. List!Size(1) : pages = Upto(m)

ListTyped ==
  /\ disks \in [List!Groups -> List!Lists] /\ api \in {"cluster", "group", "snapshots"} /\ maxEntries \in Nat /\ start \in Nat
  /\ pc \in {"idle", "request", "listing", "page", "done", "failed"}
  /\ group \in Nat \ {0} /\ numVisited \in Nat /\ startFound \in BOOLEAN /\ isCompleteRun \in BOOLEAN

(* The loop over the groups: before the first, past it with its entries,   *)
(* or past a first group that has nothing after the start.                 *)
BeforeFirst == group = 1 /\ entries = {} /\ numVisited = 0 /\ ~startFound /\ isCompleteRun
PastFirst ==
  /\ group > 1 /\ startFound
  /\ \E last \in start .. List!Size(1) :
       /\ numVisited = last - start /\ entries = Part(start, last)
       /\ isCompleteRun <=> last = List!Size(1)
       /\ start < List!Size(1) => start < last
PastEnd == group > 1 /\ start = List!Size(1) /\ entries = {} /\ isCompleteRun /\ start > 0

Paged ==
  /\ pc \in {"request", "listing"} => ListedFrom(seen, start)
  /\ pc = "listing" => api = "cluster" /\ (BeforeFirst \/ PastFirst \/ PastEnd)
  /\ pc = "page" => ListedFrom(seen \cup entries, IF start = 0 THEN List!Size(1) ELSE start)
  /\ pc = "done" => seen = Upto(List!Size(1))

ListInv == ListTyped /\ (OneList => Paged)

(* A set of positions that is not empty has a first one.                   *)
LEMMA FirstPosition ==
  ASSUME NEW S, S \subseteq Nat, S # {}
  PROVE  List!Min(S) \in S
<1> DEFINE Less == {ss \in Nat \X Nat : ss[1] < ss[2]}
<1>1. IsWellFoundedOn(Less, Nat)
  BY NatLessThanWellFounded DEF OpToRel
<1> HIDE DEF Less
<1>2. PICK x \in S : \A y \in S : ~(<<y, x>> \in Less)
  BY <1>1, WFMin
<1>3. \A y \in S : x =< y
  <2>1. SUFFICES ASSUME NEW y \in S, y < x PROVE FALSE
    OBVIOUS
  <2>2. <<y, x>> \in Nat \X Nat /\ <<y, x>>[1] < <<y, x>>[2]
    BY <2>1
  <2> QED
    BY <1>2, <2>2 DEF Less
<1> QED
  BY <1>3 DEF List!Min

LEMMA SizeTyped ==
  ASSUME ListTyped, NEW g \in List!Groups
  PROVE  List!Size(g) \in Nat
<1>1. PICK n \in 0 .. MaxDisks : disks[g] \in [1 .. n -> BOOLEAN]
  BY DEF ListTyped, List!Lists
<1>2. disks[g] \in Seq(BOOLEAN)
  BY <1>1, ListAssumption
<1> QED
  BY <1>2, LenProperties DEF List!Size

LEMMA FirstGroup == 1 \in List!Groups
BY ListAssumption DEF List!Groups

(* A page ends in the list, and after its start if there is anything.      *)
LEMMA PageEnds ==
  ASSUME ListTyped, NEW g \in List!Groups, NEW i \in 0 .. List!Size(g), NEW n, NEW limit
  PROVE  /\ List!PageEnd(g, i, n, limit) \in i .. List!Size(g)
         /\ n = 0 /\ limit \in Int /\ i < List!Size(g) => List!PageEnd(g, i, n, limit) > i
<1> DEFINE ends == {List!Size(g)} \cup {j \in i .. List!Size(g) : limit > 0 /\ n + List!Cardinality(List!Wanted(g, i, j)) >= limit}
<1>1. List!Size(g) \in Nat
  BY SizeTyped
<1>2. ends \subseteq i .. List!Size(g) /\ ends # {}
  BY <1>1
<1>3. List!Min(ends) \in ends
  <2>1. ends \subseteq Nat
    BY <1>1, <1>2
  <2> HIDE DEF ends
  <2> QED
    BY <1>2, <2>1, FirstPosition
<1>4. List!PageEnd(g, i, n, limit) = List!Min(ends)
  BY DEF List!PageEnd
<1>5. ASSUME n = 0, limit \in Int, i < List!Size(g) PROVE i \notin ends
  <2>1. List!Wanted(g, i, i) = {}
    BY <1>1 DEF List!Wanted
  <2>2. List!Cardinality(List!Wanted(g, i, i)) = 0
    BY <2>1, FS_EmptySet DEF List!Cardinality, Cardinality
  <2> QED
    BY <1>1, <1>5, <2>2
<1> HIDE DEF ends
<1>6. List!PageEnd(g, i, n, limit) \in ends /\ List!PageEnd(g, i, n, limit) \in i .. List!Size(g)
  BY <1>2, <1>3, <1>4
<1>7. n = 0 /\ limit \in Int /\ i < List!Size(g) => List!PageEnd(g, i, n, limit) # i
  BY <1>5, <1>6
<1> QED
  BY <1>1, <1>6, <1>7

(* A page that starts no later than the ones before it end.                *)
LEMMA PagesJoin ==
  ASSUME ListTyped, NEW a \in 0 .. List!Size(1), NEW b \in a .. List!Size(1), NEW pages, ListedFrom(pages, a)
  PROVE  ListedFrom(pages \cup Part(a, b), b)
<1>1. List!Size(1) \in Nat
  BY FirstGroup, SizeTyped
<1>2. PICK m \in a .. List!Size(1) : pages = Upto(m)
  BY DEF ListedFrom
<1>3. \A x, y, z \in 0 .. List!Size(1) : x =< y /\ y =< z => List!Wanted(1, 0, z) = List!Wanted(1, 0, y) \cup List!Wanted(1, x, z)
  BY <1>1 DEF List!Wanted
<1>4. \A x, y, z \in 0 .. List!Size(1) : x =< z /\ z =< y => List!Wanted(1, 0, y) = List!Wanted(1, 0, y) \cup List!Wanted(1, x, z)
  BY <1>1 DEF List!Wanted
<1>5. CASE m =< b
  <2>1. List!Wanted(1, 0, b) = List!Wanted(1, 0, m) \cup List!Wanted(1, a, b)
    BY <1>1, <1>2, <1>3, <1>5
  <2>2. pages \cup Part(a, b) = Upto(b)
    BY <1>2, <2>1 DEF Upto, Part
  <2> QED
    BY <1>1, <2>2 DEF ListedFrom
<1>6. CASE m > b
  <2>1. List!Wanted(1, 0, m) = List!Wanted(1, 0, m) \cup List!Wanted(1, a, b)
    BY <1>1, <1>2, <1>4, <1>6
  <2>2. pages \cup Part(a, b) = Upto(m)
    BY <1>2, <2>1 DEF Upto, Part
  <2> QED
    BY <1>1, <1>2, <1>6, <2>2 DEF ListedFrom
<1> QED
  BY <1>1, <1>2, <1>5, <1>6

LEMMA ListedSooner ==
  ASSUME ListTyped, NEW a \in Nat, NEW b \in a .. List!Size(1), NEW pages, ListedFrom(pages, b)
  PROVE  ListedFrom(pages, a)
<1>1. List!Size(1) \in Nat
  BY FirstGroup, SizeTyped
<1> QED
  BY <1>1 DEF ListedFrom

(* What is found in a group, from any position.                            *)
LEMMA GroupFound ==
  ASSUME ListTyped, NEW g \in List!Groups, NEW from \in Int, NEW n, NEW limit, NEW st,
         st = List!listVolumesByResourceGroup(g, from, n, limit)
  PROVE  /\ st.numVisited \in Nat /\ st.precondition \in BOOLEAN /\ st.isCompleteRun \in BOOLEAN
         /\ List!Size(g) = 0 => st.new = {} /\ st.isCompleteRun /\ st.numVisited = 0
         /\ from > 0 /\ from >= List!Size(g) => ~st.precondition /\ st.new = {} /\ st.isCompleteRun
         /\ from = 0 \/ (from > 0 /\ from < List!Size(g)) =>
              /\ st.precondition
              /\ \E last \in from .. List!Size(g) :
                   /\ st.numVisited = last - from /\ (st.isCompleteRun <=> last = List!Size(g))
                   /\ st.new = {<<g, i>> : i \in List!Wanted(g, from, last)}
                   /\ n = 0 /\ limit \in Int /\ from < List!Size(g) => from < last
<1> DEFINE first == IF from < 0 THEN 0 ELSE from
           last == List!PageEnd(g, first, n, limit)
<1>1. List!Size(g) \in Nat
  BY SizeTyped
<1>2. CASE from > 0 /\ from >= List!Size(g)
  <2>1. st = [precondition |-> FALSE, numVisited |-> List!Size(g), isCompleteRun |-> TRUE, new |-> {}]
    BY <1>2 DEF List!listVolumesByResourceGroup
  <2> QED
    BY <1>1, <1>2, <2>1
<1>3. CASE ~(from > 0 /\ from >= List!Size(g))
  <2>1. st = [precondition |-> TRUE, numVisited |-> last - first, isCompleteRun |-> last = List!Size(g),
              new |-> {<<g, i>> : i \in List!Wanted(g, first, last)}]
    BY <1>3, Zenon DEF List!listVolumesByResourceGroup
  <2>2. /\ st.precondition /\ st.precondition \in BOOLEAN /\ st.isCompleteRun \in BOOLEAN
        /\ st.isCompleteRun <=> last = List!Size(g)
    <3> DEFINE all == last = List!Size(g)
    <3>1. st = [precondition |-> TRUE, numVisited |-> last - first, isCompleteRun |-> all,
                new |-> {<<g, i>> : i \in List!Wanted(g, first, last)}]
      BY <2>1
    <3>2. all \in BOOLEAN /\ (all <=> last = List!Size(g))
      OBVIOUS
    <3> HIDE DEF all
    <3>3. st.precondition = TRUE /\ st.isCompleteRun = all
      BY <3>1
    <3> QED
      BY <3>2, <3>3, Zenon
  <2>3. st.numVisited = last - first /\ st.new = {<<g, i>> : i \in List!Wanted(g, first, last)}
    BY <2>1
  <2>4. first \in 0 .. List!Size(g)
    BY <1>1, <1>3
  <2>5. /\ last \in first .. List!Size(g)
        /\ n = 0 /\ limit \in Int /\ first < List!Size(g) => last > first
    BY <2>4, PageEnds
  <2> HIDE DEF last
  <2>6. ASSUME List!Size(g) = 0 PROVE st.new = {} /\ st.numVisited = 0 /\ st.isCompleteRun
    <3>1. first = 0 /\ last = 0
      BY <2>4, <2>5, <2>6
    <3>2. List!Wanted(g, first, last) = {}
      BY <3>1 DEF List!Wanted
    <3> QED
      BY <2>2, <2>3, <2>6, <3>1, <3>2
  <2>7. from = 0 \/ (from > 0 /\ from < List!Size(g)) => first = from
    OBVIOUS
  <2>8. st.numVisited \in Nat
    BY <1>1, <2>3, <2>4, <2>5
  <2> HIDE DEF first
  <2> QED
    BY <1>1, <1>3, <2>2, <2>3, <2>5, <2>6, <2>7, <2>8
<1> QED
  BY <1>2, <1>3

(* The resources and the listing stay.                                     *)
LEMMA ListsStay ==
  ASSUME disks' = disks, api' = api
  PROVE  /\ OneList' <=> OneList
         /\ \A a, b : Part(a, b)' = Part(a, b)
         /\ \A m : Upto(m)' = Upto(m)
         /\ \A g : List!Size(g)' = List!Size(g)
         /\ \A pages, from : ListedFrom(pages, from)' <=> ListedFrom(pages, from)
<1>1. \A g : List!Size(g)' = List!Size(g)
  BY DEF List!Size
<1>2. \A a, b : Part(a, b)' = Part(a, b)
  BY DEF Part, List!Wanted
<1>3. \A m : Upto(m)' = Upto(m)
  BY <1>2 DEF Upto
<1>4. \A pages, from : ListedFrom(pages, from)' <=> ListedFrom(pages, from)
  BY <1>1, <1>3 DEF ListedFrom
<1>5. OneList' <=> OneList
  BY <1>1 DEF OneList
<1> QED
  BY <1>1, <1>2, <1>3, <1>4, <1>5

LEMMA NothingListed ==
  ASSUME ListTyped
  PROVE  ListedFrom({}, 0)
<1>1. List!Size(1) \in Nat
  BY FirstGroup, SizeTyped
<1>2. Upto(0) = {}
  BY DEF Upto, Part, List!Wanted
<1> QED
  BY <1>1, <1>2 DEF ListedFrom

LEMMA NoEntries == List!Cardinality({}) = 0
BY FS_EmptySet DEF List!Cardinality, Cardinality

(* A page is answered, or an error.                                        *)
LEMMA PageKeeps ==
  ASSUME ListInv, NEW page, NEW token \in Nat, List!RespondWith(page, token),
         OneList => ListedFrom(seen \cup page, IF token = 0 THEN List!Size(1) ELSE token)
  PROVE  ListInv'
<1>1. /\ entries' = page /\ start' = token /\ pc' = "page" /\ seen' = seen
      /\ UNCHANGED <<disks, api, maxEntries, group, numVisited, startFound, isCompleteRun>>
  BY DEF List!RespondWith, List!loop
<1>2. ListTyped'
  BY <1>1 DEF ListInv, ListTyped, List!Groups, List!Lists
<1>3. ASSUME OneList' PROVE ListedFrom(seen \cup entries, IF start = 0 THEN List!Size(1) ELSE start)'
  <2>1. OneList /\ disks' = disks /\ api' = api
    BY <1>1, <1>3, ListsStay
  <2>2. ListedFrom(seen \cup page, IF token = 0 THEN List!Size(1) ELSE token)
    BY <2>1
  <2> QED
    BY <1>1, <2>1, <2>2, ListsStay DEF ListedFrom, List!Size
<1> QED
  BY <1>1, <1>2, <1>3 DEF ListInv, Paged

LEMMA FailKeeps ==
  ASSUME ListInv, List!Fail
  PROVE  ListInv'
<1>1. pc' = "failed" /\ UNCHANGED <<disks, api, maxEntries, start, group, numVisited, startFound, isCompleteRun>>
  BY DEF List!Fail, List!loop
<1>2. ListTyped'
  BY <1>1 DEF ListInv, ListTyped, List!Groups, List!Lists
<1> QED
  BY <1>1, <1>2 DEF ListInv, Paged

LEMMA ClusterPageKeeps ==
  ASSUME ListInv, List!ClusterPage
  PROVE  ListInv'
<1>1. pc = "listing" /\ (group \notin List!Groups \/ List!PageFull)
  BY DEF List!ClusterPage
<1>2. CASE start > 0 /\ ~startFound
  BY <1>2, FailKeeps DEF List!ClusterPage
<1>3. CASE ~(start > 0 /\ ~startFound)
  <2>1. List!RespondWith(entries, List!NextToken)
    BY <1>3 DEF List!ClusterPage
  <2>2. List!NextToken \in Nat
    BY DEF List!NextToken, ListInv, ListTyped
  <2>3. ASSUME OneList PROVE ListedFrom(seen \cup entries, IF List!NextToken = 0 THEN List!Size(1) ELSE List!NextToken)
    <3>1. ListTyped /\ ListedFrom(seen, start) /\ (BeforeFirst \/ PastFirst \/ PastEnd)
      BY <1>1, <2>3 DEF ListInv, Paged
    <3>2. List!Size(1) \in Nat /\ start \in 0 .. List!Size(1)
      BY <3>1, FirstGroup, SizeTyped DEF ListedFrom, ListTyped
    <3>3. entries = {} => ~(maxEntries > 0 /\ List!Cardinality(entries) >= maxEntries)
      BY <3>1, NoEntries DEF ListTyped
    <3>4. CASE BeforeFirst
      BY <1>1, <3>3, <3>4, FirstGroup DEF BeforeFirst, List!PageFull
    <3>5. CASE PastFirst
      <4>1. PICK last \in start .. List!Size(1) :
              /\ numVisited = last - start /\ entries = Part(start, last)
              /\ isCompleteRun <=> last = List!Size(1)
              /\ start < List!Size(1) => start < last
        BY <3>5 DEF PastFirst
      <4>2. ListedFrom(seen \cup entries, last)
        BY <3>1, <3>2, <4>1, PagesJoin
      <4>3. CASE List!NextToken = last /\ last # 0
        BY <4>2, <4>3
      <4>4. CASE last = List!Size(1) /\ (List!NextToken = 0 \/ List!NextToken = last)
        BY <4>2, <4>4
      <4>5. List!NextToken = IF isCompleteRun /\ group > NumGroups THEN 0 ELSE last
        BY <3>2, <4>1 DEF List!NextToken
      <4>6. last = 0 => last = List!Size(1)
        BY <3>2, <4>1
      <4> QED
        BY <4>1, <4>3, <4>4, <4>5, <4>6
    <3>6. CASE PastEnd
      <4>1. group \notin List!Groups /\ isCompleteRun
        BY <1>1, <3>3, <3>6 DEF PastEnd, List!PageFull
      <4>2. group > NumGroups
        BY <3>1, <4>1, ListAssumption DEF List!Groups, ListTyped
      <4>3. List!NextToken = 0
        BY <4>1, <4>2 DEF List!NextToken
      <4>4. seen \cup entries = seen /\ start = List!Size(1)
        BY <3>6 DEF PastEnd
      <4> QED
        BY <3>1, <4>3, <4>4
    <3> QED
      BY <3>1, <3>4, <3>5, <3>6
  <2> QED
    BY <2>1, <2>2, <2>3, PageKeeps
<1> QED
  BY <1>2, <1>3

LEMMA GroupKeeps ==
  ASSUME ListInv, List!listVolumesInCluster
  PROVE  ListInv'
<1> DEFINE n == List!Cardinality(entries)
           from == IF startFound THEN 0 ELSE start - numVisited
           st == List!listVolumesByResourceGroup(group, from, n, maxEntries - n)
<1>1. /\ pc = "listing" /\ group \in List!Groups /\ ~List!PageFull /\ group' = group + 1
      /\ numVisited' = numVisited + st.numVisited /\ entries' = entries \cup st.new
      /\ (startFound' = (startFound \/ st.precondition)) /\ isCompleteRun' = st.isCompleteRun
      /\ UNCHANGED <<disks, api, maxEntries, start, pc, seen>>
  BY DEF List!listVolumesInCluster
<1>2. ListTyped /\ from \in Int
  BY DEF ListInv, ListTyped
<1>3. PICK status : status = st
  OBVIOUS
<1>4. PICK limit, m : limit = maxEntries - n /\ m = n
  OBVIOUS
<1>5. /\ status.numVisited \in Nat /\ status.precondition \in BOOLEAN /\ status.isCompleteRun \in BOOLEAN
      /\ List!Size(group) = 0 => status.new = {} /\ status.isCompleteRun /\ status.numVisited = 0
      /\ from > 0 /\ from >= List!Size(group) => ~status.precondition /\ status.new = {} /\ status.isCompleteRun
      /\ from = 0 \/ (from > 0 /\ from < List!Size(group)) =>
           /\ status.precondition
           /\ \E last \in from .. List!Size(group) :
                /\ status.numVisited = last - from /\ (status.isCompleteRun <=> last = List!Size(group))
                /\ status.new = {<<group, i>> : i \in List!Wanted(group, from, last)}
                /\ m = 0 /\ limit \in Int /\ from < List!Size(group) => from < last
  <2>1. status = List!listVolumesByResourceGroup(group, from, m, limit)
    BY <1>3, <1>4
  <2> HIDE DEF from, n, st
  <2> QED
    BY <1>1, <1>2, <2>1, GroupFound
<1>6. /\ numVisited' = numVisited + status.numVisited /\ entries' = entries \cup status.new
      /\ (startFound' <=> startFound \/ status.precondition) /\ startFound' \in BOOLEAN /\ isCompleteRun' = status.isCompleteRun
  BY <1>1, <1>3
<1> HIDE DEF st
<1>7. ListTyped'
  BY <1>1, <1>2, <1>5, <1>6 DEF ListTyped, List!Groups, List!Lists
<1>8. ASSUME OneList PROVE PastFirst' \/ PastEnd'
  <2>1. api = "cluster" /\ ListedFrom(seen, start) /\ (BeforeFirst \/ PastFirst \/ PastEnd)
    BY <1>1, <1>8 DEF ListInv, Paged
  <2>2. List!Size(1) \in Nat /\ start \in 0 .. List!Size(1)
    BY <1>2, <2>1, FirstGroup, SizeTyped DEF ListedFrom, ListTyped
  <2>3. List!Size(1)' = List!Size(1) /\ group' > 1 /\ start' = start
    BY <1>1, <1>2, ListsStay DEF ListTyped
  <2>4. \A a, b : Part(a, b)' = Part(a, b)
    BY <1>1, ListsStay
  <2>5. CASE BeforeFirst
    <3>1. group = 1 /\ from = start /\ m = 0 /\ limit \in Int /\ entries = {} /\ numVisited = 0 /\ ~startFound
      BY <1>2, <1>4, <2>5, NoEntries DEF BeforeFirst, ListTyped
    <3>2. CASE start > 0 /\ start >= List!Size(1)
      BY <1>5, <1>6, <2>2, <2>3, <3>1, <3>2 DEF PastEnd
    <3>3. CASE start = 0 \/ (start > 0 /\ start < List!Size(1))
      <4>1. status.precondition
        BY <1>5, <3>1, <3>3
      <4>2. PICK last \in start .. List!Size(1) :
              /\ status.numVisited = last - start /\ (status.isCompleteRun <=> last = List!Size(1))
              /\ status.new = {<<1, i>> : i \in List!Wanted(1, start, last)}
              /\ start < List!Size(1) => start < last
        BY <1>5, <3>1, <3>3
      <4>3. numVisited' = last - start /\ entries' = Part(start, last)
        BY <1>6, <2>2, <3>1, <4>2 DEF Part
      <4>4. startFound' /\ (isCompleteRun' <=> last = List!Size(1))
        BY <1>6, <4>1, <4>2
      <4>5. entries' = Part(start, last)' /\ last \in start' .. List!Size(1)'
        BY <2>3, <2>4, <4>3
      <4> QED
        BY <2>3, <4>2, <4>3, <4>4, <4>5 DEF PastFirst
    <3> QED
      BY <2>2, <3>2, <3>3
  <2>6. CASE PastFirst \/ PastEnd
    <3>1. group \in List!Groups \ {1}
      BY <1>1, <2>6 DEF PastFirst, PastEnd
    <3>2. List!Size(group) = 0
      BY <1>8, <2>1, <3>1 DEF OneList
    <3>3. numVisited' = numVisited /\ entries' = entries /\ isCompleteRun' /\ isCompleteRun /\ (startFound => startFound')
      <4>1. isCompleteRun
        BY <1>1 DEF List!PageFull
      <4> QED
        BY <1>2, <1>5, <1>6, <3>2, <4>1 DEF ListTyped
    <3>4. CASE PastFirst
      <4>1. PICK last \in start .. List!Size(1) :
              /\ numVisited = last - start /\ entries = Part(start, last)
              /\ isCompleteRun <=> last = List!Size(1)
              /\ start < List!Size(1) => start < last
        BY <3>4 DEF PastFirst
      <4>2. startFound' /\ (isCompleteRun' <=> last = List!Size(1))
        BY <3>3, <3>4, <4>1 DEF PastFirst
      <4>3. entries' = Part(start, last)' /\ last \in start' .. List!Size(1)' /\ numVisited' = last - start
        BY <2>3, <2>4, <3>3, <4>1
      <4> QED
        BY <2>3, <4>1, <4>2, <4>3 DEF PastFirst
    <3>5. CASE PastEnd
      BY <2>3, <3>3, <3>5 DEF PastEnd
    <3> QED
      BY <2>6, <3>4, <3>5
  <2> QED
    BY <2>1, <2>5, <2>6
<1>9. ASSUME OneList' PROVE Paged'
  <2>1. OneList /\ (ListedFrom(seen, start)' <=> ListedFrom(seen, start))
    BY <1>1, <1>9, ListsStay DEF ListedFrom, Upto, Part, List!Wanted, List!Size
  <2>2. api' = "cluster" /\ pc' = "listing" /\ ListedFrom(seen, start)'
    BY <1>1, <2>1 DEF ListInv, Paged
  <2> QED
    BY <1>8, <2>1, <2>2 DEF Paged
<1> QED
  BY <1>7, <1>9 DEF ListInv

LEMMA OneGroupKeeps ==
  ASSUME ListInv, List!listVolumesInNodeResourceGroup
  PROVE  ListInv'
<1> DEFINE st == List!listVolumesByResourceGroup(1, start, 0, maxEntries)
<1>1. PICK status : status = st
  OBVIOUS
<1>2. /\ pc = "request" /\ api = "group"
      /\ IF status.precondition
         THEN List!RespondWith(status.new, IF status.isCompleteRun THEN 0 ELSE status.numVisited)
         ELSE List!Fail
  BY <1>1 DEF List!listVolumesInNodeResourceGroup
<1>3. ListTyped
  BY DEF ListInv
<1>4. /\ status.numVisited \in Nat
      /\ start > 0 /\ start >= List!Size(1) => ~status.precondition
      /\ start = 0 \/ (start > 0 /\ start < List!Size(1)) =>
           \E last \in start .. List!Size(1) :
             /\ status.numVisited = last - start /\ (status.isCompleteRun <=> last = List!Size(1))
             /\ status.new = {<<1, i>> : i \in List!Wanted(1, start, last)}
             /\ start < List!Size(1) => start < last
  <2>1. start \in Int /\ maxEntries \in Int
    BY <1>3 DEF ListTyped
  <2> HIDE DEF st
  <2>2. status = List!listVolumesByResourceGroup(1, start, 0, maxEntries)
    BY <1>1 DEF st
  <2> QED
    BY <1>3, <2>1, <2>2, FirstGroup, GroupFound
<1> HIDE DEF st
<1>5. CASE ~status.precondition
  BY <1>2, <1>5, FailKeeps
<1>6. CASE status.precondition
  <2> DEFINE token == IF status.isCompleteRun THEN 0 ELSE status.numVisited
  <2>1. List!RespondWith(status.new, token) /\ token \in Nat
    BY <1>2, <1>4, <1>6
  <2>2. ASSUME OneList PROVE ListedFrom(seen \cup status.new, IF token = 0 THEN List!Size(1) ELSE token)
    <3>1. ListedFrom(seen, start)
      BY <1>2, <2>2 DEF ListInv, Paged
    <3>2. List!Size(1) \in Nat /\ start \in 0 .. List!Size(1)
      BY <1>3, <3>1, FirstGroup, SizeTyped DEF ListedFrom, ListTyped
    <3>3. PICK last \in start .. List!Size(1) :
            /\ status.numVisited = last - start /\ (status.isCompleteRun <=> last = List!Size(1))
            /\ status.new = {<<1, i>> : i \in List!Wanted(1, start, last)}
            /\ start < List!Size(1) => start < last
      BY <1>4, <1>6, <3>2
    <3>4. status.new = Part(start, last)
      BY <3>3 DEF Part
    <3>5. ListedFrom(seen \cup status.new, last)
      BY <1>3, <3>1, <3>2, <3>4, PagesJoin
    <3>6. CASE last = List!Size(1)
      BY <3>3, <3>5, <3>6
    <3>7. CASE last # List!Size(1)
      <4>1. token = last - start /\ token \in Nat \ {0} /\ last \in token .. List!Size(1)
        BY <3>2, <3>3, <3>7
      <4> HIDE DEF token
      <4>2. ListedFrom(seen \cup status.new, token)
        BY <1>3, <3>5, <4>1, ListedSooner
      <4> QED
        BY <4>1, <4>2
    <3> QED
      BY <3>6, <3>7
  <2> HIDE DEF token
  <2> QED
    BY <2>1, <2>2, PageKeeps
<1> QED
  BY <1>5, <1>6

LEMMA SnapshotPageKeeps ==
  ASSUME ListInv, List!GetEntriesAndNextToken
  PROVE  ListInv'
<1> DEFINE left == List!Size(1) - start
           limit == IF maxEntries > 0 /\ maxEntries < left THEN maxEntries ELSE left
           end == IF limit = 0 THEN start ELSE List!PageEnd(1, start, 0, limit)
<1>1. PICK last : last = end
  OBVIOUS
<1>2. /\ pc = "request"
      /\ IF start > 0 /\ start >= List!Size(1) THEN List!Fail
         ELSE List!RespondWith({<<1, i>> : i \in List!Wanted(1, start, last)}, List!SnapshotToken(last))
  BY <1>1 DEF List!GetEntriesAndNextToken
<1>3. ListTyped /\ List!Size(1) \in Nat /\ start \in Nat /\ maxEntries \in Nat
  BY FirstGroup, SizeTyped DEF ListInv, ListTyped
<1>4. CASE start > 0 /\ start >= List!Size(1)
  BY <1>2, <1>4, FailKeeps
<1>5. CASE ~(start > 0 /\ start >= List!Size(1))
  <2>1. start \in 0 .. List!Size(1) /\ limit \in Int /\ (limit = 0 => start = List!Size(1))
    BY <1>3, <1>5
  <2>2. last \in start .. List!Size(1) /\ (start < List!Size(1) => start < last)
    <3>1. CASE limit = 0
      BY <1>1, <2>1, <3>1
    <3>2. CASE limit # 0
      <4>1. last = List!PageEnd(1, start, 0, limit)
        BY <1>1, <3>2
      <4> HIDE DEF limit
      <4> QED
        BY <1>3, <2>1, <4>1, FirstGroup, PageEnds
    <3> QED
      BY <3>1, <3>2
  <2>3. List!RespondWith(Part(start, last), List!SnapshotToken(last))
    BY <1>2, <1>5 DEF Part
  <2>4. List!SnapshotToken(last) \in Nat
    BY <1>3, <2>1, <2>2 DEF List!SnapshotToken
  <2>5. ASSUME OneList
        PROVE  ListedFrom(seen \cup Part(start, last), IF List!SnapshotToken(last) = 0 THEN List!Size(1) ELSE List!SnapshotToken(last))
    <3>1. ListedFrom(seen, start)
      BY <1>2, <2>5 DEF ListInv, Paged
    <3>2. ListedFrom(seen \cup Part(start, last), last)
      BY <1>3, <2>1, <2>2, <3>1, PagesJoin
    <3>3. last = (IF List!SnapshotToken(last) = 0 THEN List!Size(1) ELSE List!SnapshotToken(last))
      BY <1>3, <2>1, <2>2 DEF List!SnapshotToken
    <3> QED
      BY <3>2, <3>3
  <2> QED
    BY <2>3, <2>4, <2>5, PageKeeps
<1> QED
  BY <1>4, <1>5

(* The client.                                                             *)
LEMMA ClientKeeps ==
  ASSUME ListInv, List!ListVolumes \/ List!FollowToken \/ List!StartOver
  PROVE  ListInv'
<1>1. disks' = disks /\ api' = api
  BY DEF List!ListVolumes, List!FollowToken, List!StartOver
<1>2. ListTyped
  BY DEF ListInv
<1>3. ListTyped'
  <2>1. List!StartOver => maxEntries' \in Nat
    BY ListAssumption DEF List!StartOver
  <2>2. maxEntries' \in Nat /\ start' \in Nat
    BY <1>2, <2>1 DEF ListTyped, List!ListVolumes, List!FollowToken, List!StartOver
  <2>3. pc' \in {"request", "listing", "done"}
    BY DEF List!ListVolumes, List!FollowToken, List!StartOver
  <2>4. UNCHANGED List!loop \/ (group' = 1 /\ numVisited' = 0 /\ startFound' = FALSE /\ isCompleteRun' = TRUE)
    BY DEF List!ListVolumes, List!FollowToken, List!StartOver
  <2>5. group' \in Nat \ {0} /\ numVisited' \in Nat
    BY <1>2, <2>4 DEF ListTyped, List!loop
  <2>6. startFound' \in BOOLEAN /\ isCompleteRun' \in BOOLEAN
    BY <1>2, <2>4, Zenon DEF ListTyped, List!loop
  <2> QED
    BY <1>1, <1>2, <2>2, <2>3, <2>5, <2>6 DEF ListTyped, List!Groups, List!Lists
<1>4. ASSUME OneList' PROVE Paged'
  <2>1. OneList /\ Paged /\ List!Size(1) \in Nat
    BY <1>1, <1>2, <1>4, ListsStay, FirstGroup, SizeTyped DEF ListInv
  <2>2. \A pages, from : ListedFrom(pages, from)' <=> ListedFrom(pages, from)
    BY <1>1, ListsStay
  <2>3. List!Size(1)' = List!Size(1) /\ Upto(List!Size(1))' = Upto(List!Size(1))
    BY <1>1, ListsStay DEF Upto, Part, List!Wanted
  <2>4. CASE List!ListVolumes
    <3>1. pc = "request" /\ pc' = "listing" /\ api' = "cluster" /\ BeforeFirst' /\ seen' = seen /\ start' = start
      BY <2>4 DEF List!ListVolumes, BeforeFirst
    <3>2. ListedFrom(seen, start)
      BY <2>1, <3>1 DEF Paged
    <3>3. ListedFrom(seen, start)'
      BY <1>1, <3>1, <3>2, ListsStay DEF ListedFrom, Upto, Part, List!Wanted, List!Size
    <3> QED
      BY <3>1, <3>3 DEF Paged
  <2>5. CASE List!FollowToken
    <3>1. pc = "page" /\ seen' = seen \cup entries /\ start' = start /\ pc' = IF start = 0 THEN "done" ELSE "request"
      BY <2>5 DEF List!FollowToken
    <3>2. ListedFrom(seen \cup entries, IF start = 0 THEN List!Size(1) ELSE start)
      BY <2>1, <3>1 DEF Paged
    <3>3. CASE start = 0
      <4>1. seen \cup entries = Upto(List!Size(1))
        BY <2>1, <3>2, <3>3 DEF ListedFrom
      <4> QED
        BY <2>3, <3>1, <3>3, <4>1 DEF Paged
    <3>4. CASE start # 0
      <4>1. ListedFrom(seen, start)'
        BY <1>1, <3>1, <3>2, <3>4 DEF ListedFrom, Upto, Part, List!Wanted, List!Size
      <4> QED
        BY <3>1, <3>4, <4>1 DEF Paged
    <3> QED
      BY <3>3, <3>4
  <2>6. CASE List!StartOver
    <3>1. pc' = "request" /\ start' = 0 /\ seen' = {}
      BY <2>6 DEF List!StartOver
    <3>2. ListedFrom(seen, start)'
      BY <1>1, <1>2, <3>1, NothingListed DEF ListedFrom, Upto, Part, List!Wanted, List!Size
    <3> QED
      BY <3>1, <3>2 DEF Paged
  <2> QED
    BY <2>4, <2>5, <2>6
<1> QED
  BY <1>3, <1>4 DEF ListInv

LEMMA ListServerKeeps ==
  ASSUME ListInv, [ServerNext]_servervars
  PROVE  ListInv'
<1>1. CASE UNCHANGED lists
  BY <1>1 DEF lists, ListInv, ListTyped, OneList, Paged, ListedFrom, BeforeFirst, PastFirst, PastEnd, Upto, Part,
     List!Wanted, List!Size, List!Groups, List!Lists
<1>2. CASE ListWork
  <2>1. List!Next
    BY <1>2 DEF ListWork
  <2> QED
    BY <2>1, ClientKeeps, GroupKeeps, ClusterPageKeeps, OneGroupKeeps, SnapshotPageKeeps, FailKeeps
    DEF List!Next, List!Respond, List!ListFails
<1>3. UNCHANGED lists \/ ListWork
  BY DEF ServerNext, servervars, VolumeWork, SnapshotWork, ServerRestart, besidesVolumes, besidesSnapshots
<1> QED
  BY <1>1, <1>2, <1>3

LEMMA ListInitKeeps == ServerInit => ListInv
<1> SUFFICES ASSUME ServerInit PROVE ListInv
  OBVIOUS
<1>1. ListTyped
  <2>1. CASE List!NoClient
    <3>1. disks \in [List!Groups -> List!Lists]
      <4>1. <<>> \in [1 .. 0 -> BOOLEAN] /\ 0 \in 0 .. MaxDisks
        BY ListAssumption
      <4>2. <<>> \in List!Lists
        BY <4>1 DEF List!Lists
      <4> QED
        BY <2>1, <4>2 DEF List!NoClient
    <3>2. startFound \in BOOLEAN /\ isCompleteRun \in BOOLEAN
      BY <2>1, Zenon DEF List!NoClient
    <3> QED
      BY <2>1, <3>1, <3>2 DEF List!NoClient, ListTyped
  <2>2. CASE List!Init
    <3>1. startFound \in BOOLEAN /\ isCompleteRun \in BOOLEAN
      BY <2>2, Zenon DEF List!Init
    <3> QED
      BY <2>2, <3>1, ListAssumption DEF List!Init, ListTyped
  <2> QED
    BY <2>1, <2>2 DEF ServerInit
<1>2. pc = "idle" \/ (pc = "request" /\ start = 0 /\ seen = {})
  BY DEF ServerInit, List!NoClient, List!Init
<1> QED
  BY <1>1, <1>2, NothingListed DEF ListInv, Paged

(* Where one resource group holds all the disks, a client that follows the *)
(* tokens to the end has seen every entry (ListVolumes, ListSnapshots and  *)
(* listVolumesInNodeResourceGroup), for any numbers of groups, of disks    *)
(* and of entries to a page, and wherever a page ends.                     *)
THEOREM PagesAreComplete == ServerSpec => []OneListComplete
<1>1. ListInv => OneListComplete
  <2> SUFFICES ASSUME ListInv, pc = "done", OneList PROVE seen = List!Listable
    BY DEF OneListComplete, List!OneListComplete, OneList
  <2>1. seen = Upto(List!Size(1))
    BY DEF ListInv, Paged
  <2>2. \A g \in List!Groups \ {1} : api = "cluster" => List!Wanted(g, 0, List!Size(g)) = {}
    BY DEF OneList, List!Wanted
  <2>3. List!Listable = {<<1, i>> : i \in List!Wanted(1, 0, List!Size(1))}
    BY <2>2, FirstGroup DEF List!Listable
  <2> QED
    BY <2>1, <2>3 DEF Upto, Part
<1>2. ListInv /\ [ServerNext]_servervars => ListInv'
  BY ListServerKeeps
<1> QED
  BY <1>1, <1>2, ListInitKeeps, PTL DEF ServerSpec

-----------------------------------------------------------------------------
(* What PagingEnds rests on: each token leads on. Entries come from        *)
(* visited disks, and a page that ends early has visited one.              *)
VisitInv ==
  /\ ListTyped
  /\ pc = "listing" => api = "cluster" /\ (entries # {} \/ ~isCompleteRun => numVisited > 0)

LEMMA GroupVisited ==
  ASSUME ListTyped, NEW g \in List!Groups, NEW from \in Int, NEW limit \in Int, NEW st,
         st = List!listVolumesByResourceGroup(g, from, 0, limit),
         st.new # {} \/ ~st.isCompleteRun
  PROVE  st.numVisited > 0
<1> DEFINE first == IF from < 0 THEN 0 ELSE from
           last == List!PageEnd(g, first, 0, limit)
<1>1. List!Size(g) \in Nat
  BY SizeTyped
<1>2. ~(from > 0 /\ from >= List!Size(g))
  <2>1. SUFFICES ASSUME from > 0 /\ from >= List!Size(g) PROVE FALSE
    OBVIOUS
  <2>2. st = [precondition |-> FALSE, numVisited |-> List!Size(g), isCompleteRun |-> TRUE, new |-> {}]
    BY <2>1 DEF List!listVolumesByResourceGroup
  <2> QED
    BY <2>2
<1>3. st = [precondition |-> TRUE, numVisited |-> last - first, isCompleteRun |-> last = List!Size(g),
            new |-> {<<g, i>> : i \in List!Wanted(g, first, last)}]
  BY <1>2, Zenon DEF List!listVolumesByResourceGroup
<1>4. first \in 0 .. List!Size(g) /\ 0 \in Nat
  BY <1>1, <1>2
<1>5. last \in first .. List!Size(g) /\ (first < List!Size(g) => last > first)
  BY <1>4, PageEnds
<1>6. /\ st.numVisited = last - first /\ st.new = {<<g, i>> : i \in List!Wanted(g, first, last)}
      /\ st.isCompleteRun <=> last = List!Size(g)
  <2> DEFINE all == last = List!Size(g)
  <2>1. st = [precondition |-> TRUE, numVisited |-> last - first, isCompleteRun |-> all,
              new |-> {<<g, i>> : i \in List!Wanted(g, first, last)}]
    BY <1>3
  <2>2. all <=> last = List!Size(g)
    OBVIOUS
  <2> HIDE DEF all
  <2>3. st.isCompleteRun = all /\ st.numVisited = last - first /\ st.new = {<<g, i>> : i \in List!Wanted(g, first, last)}
    BY <2>1
  <2> QED
    BY <2>2, <2>3, Zenon
<1>7. first < List!Size(g)
  <2>1. SUFFICES ASSUME first = List!Size(g) PROVE FALSE
    BY <1>1, <1>4
  <2> HIDE DEF last, first
  <2>2. last = List!Size(g) /\ last = first
    BY <1>1, <1>5, <2>1
  <2>3. List!Wanted(g, first, last) = {}
    BY <1>1, <2>1, <2>2 DEF List!Wanted
  <2>4. st.new = {} /\ st.isCompleteRun
    BY <1>6, <2>2, <2>3
  <2> QED
    BY <2>4
<1> HIDE DEF last, first
<1> QED
  BY <1>1, <1>4, <1>5, <1>7, <1>6

LEMMA VisitKeeps ==
  ASSUME ListTyped, VisitInv, ListTyped', List!listVolumesInCluster
  PROVE  VisitInv'
<1> DEFINE n == List!Cardinality(entries)
           from == IF startFound THEN 0 ELSE start - numVisited
           st == List!listVolumesByResourceGroup(group, from, n, maxEntries - n)
<1>1. /\ pc = "listing" /\ group \in List!Groups /\ pc' = pc /\ api' = api
      /\ numVisited' = numVisited + st.numVisited /\ entries' = entries \cup st.new
      /\ isCompleteRun' = st.isCompleteRun /\ ~List!PageFull
  BY DEF List!listVolumesInCluster
<1>2. from \in Int /\ numVisited \in Nat /\ maxEntries \in Nat
  BY DEF ListTyped
<1>3. PICK status : status = st
  OBVIOUS
<1>4. numVisited' = numVisited + status.numVisited /\ entries' = entries \cup status.new /\ isCompleteRun' = status.isCompleteRun
  BY <1>1, <1>3
<1>5. status.numVisited \in Nat
  <2>1. PICK m, limit : m = n /\ limit = maxEntries - n
    OBVIOUS
  <2>2. status = List!listVolumesByResourceGroup(group, from, m, limit)
    BY <1>3, <2>1
  <2> HIDE DEF n, from, st
  <2> QED
    BY <1>1, <1>2, <2>2, GroupFound
<1>6. ASSUME entries' # {} \/ ~isCompleteRun' PROVE numVisited' > 0
  <2>1. CASE entries # {}
    BY <1>1, <1>2, <1>4, <1>5, <2>1 DEF VisitInv
  <2>2. CASE entries = {}
    <3>1. n = 0
      BY <2>2, NoEntries
    <3>2. status = List!listVolumesByResourceGroup(group, from, 0, maxEntries)
      BY <1>2, <1>3, <3>1
    <3>3. status.new # {} \/ ~status.isCompleteRun
      BY <1>4, <1>6, <2>2
    <3> HIDE DEF n, from, st
    <3>4. status.numVisited > 0
      BY <1>1, <1>2, <3>2, <3>3, GroupVisited
    <3> QED
      BY <1>2, <1>4, <1>5, <3>4
  <2> QED
    BY <2>1, <2>2
<1>7. pc' = "listing" => api' = "cluster"
  BY <1>1 DEF VisitInv
<1> HIDE DEF n, from, st
<1> QED
  BY <1>6, <1>7 DEF VisitInv

LEMMA VisitServerKeeps ==
  ASSUME ListInv, VisitInv, ListInv', [ServerNext]_servervars
  PROVE  VisitInv'
<1>1. ListTyped /\ ListTyped'
  BY DEF ListInv
<1>2. CASE UNCHANGED lists
  BY <1>1, <1>2 DEF lists, VisitInv
<1>3. CASE ListWork
  <2>1. CASE List!listVolumesInCluster
    BY <1>1, <2>1, VisitKeeps
  <2>2. CASE List!ListVolumes
    BY <1>1, <2>2 DEF VisitInv, List!ListVolumes
  <2>3. CASE List!ListFails \/ List!ClusterPage \/ List!listVolumesInNodeResourceGroup \/ List!GetEntriesAndNextToken
             \/ List!FollowToken \/ List!StartOver
    <3>1. pc' # "listing"
      BY <2>3 DEF List!ListFails, List!ClusterPage, List!listVolumesInNodeResourceGroup, List!GetEntriesAndNextToken,
         List!FollowToken, List!StartOver, List!Fail, List!RespondWith
    <3> QED
      BY <1>1, <3>1 DEF VisitInv
  <2> QED
    BY <1>3, <2>1, <2>2, <2>3 DEF ListWork, List!Next, List!Respond
<1>4. UNCHANGED lists \/ ListWork
  BY DEF ServerNext, servervars, VolumeWork, SnapshotWork, ServerRestart, besidesVolumes, besidesSnapshots
<1> QED
  BY <1>2, <1>3, <1>4

(* A page of the cluster that has a token has visited a disk.              *)
LEMMA ClusterTokenGrows ==
  ASSUME VisitInv, List!ClusterPage, pc' = "page", start' # 0
  PROVE  start' > start
<1>1. pc = "listing" /\ start' = List!NextToken /\ (group \notin List!Groups \/ List!PageFull)
  BY DEF List!ClusterPage, List!Fail, List!RespondWith
<1>2. start' = start + numVisited /\ ~(isCompleteRun /\ group > NumGroups)
  BY <1>1 DEF List!NextToken
<1>3. start \in Nat /\ numVisited \in Nat /\ group \in Nat \ {0}
  BY DEF VisitInv, ListTyped
<1>4. maxEntries \in Nat
  BY DEF VisitInv, ListTyped
<1>5. entries # {} \/ ~isCompleteRun
  <2>1. SUFFICES ASSUME entries = {}, isCompleteRun PROVE FALSE
    OBVIOUS
  <2>2. ~List!PageFull
    BY <2>1, NoEntries, <1>4 DEF List!PageFull
  <2>3. group \notin List!Groups /\ group =< NumGroups
    BY <1>1, <1>2, <1>3, <2>1, <2>2, ListAssumption
  <2> QED
    BY <1>3, <2>3, ListAssumption DEF List!Groups
<1> QED
  BY <1>1, <1>2, <1>3, <1>5 DEF VisitInv

LEMMA SnapshotTokenGrows ==
  ASSUME ListTyped, List!GetEntriesAndNextToken, pc' = "page", start' # 0
  PROVE  start' > start
<1> DEFINE left == List!Size(1) - start
           limit == IF maxEntries > 0 /\ maxEntries < left THEN maxEntries ELSE left
           end == IF limit = 0 THEN start ELSE List!PageEnd(1, start, 0, limit)
<1>1. ~(start > 0 /\ start >= List!Size(1)) /\ start' = List!SnapshotToken(end)
  BY DEF List!GetEntriesAndNextToken, List!Fail, List!RespondWith
<1>2. List!Size(1) \in Nat /\ start \in Nat /\ maxEntries \in Nat
  BY FirstGroup, SizeTyped DEF ListTyped
<1>3. start \in 0 .. List!Size(1) /\ limit \in Int /\ (limit = 0 => start = List!Size(1))
  BY <1>1, <1>2
<1>4. start' = end /\ end < List!Size(1)
  BY <1>1 DEF List!SnapshotToken
<1>5. limit # 0
  BY <1>2, <1>3, <1>4
<1>6. start' = List!PageEnd(1, start, 0, limit)
  BY <1>4, <1>5
<1>7. start' < List!Size(1)
  BY <1>4
<1> HIDE DEF limit, end
<1>8. start' \in start .. List!Size(1) /\ (start < List!Size(1) => start' > start)
  BY <1>3, <1>6, FirstGroup, PageEnds
<1> QED
  BY <1>2, <1>3, <1>7, <1>8

(* Each token of a client that follows them lies beyond the one it asked   *)
(* with, so that no page comes twice (except without a Kubernetes client,  *)
(* where the token counts the disks of one page): NextToken and            *)
(* SnapshotToken of listVolumesInCluster and GetEntriesAndNextToken.       *)
THEOREM TokensGrow == ServerSpec => [][pc # "page" /\ pc' = "page" /\ start' # 0 /\ api # "group" => start' > start]_servervars
<1>1. ServerInit => VisitInv
  BY ListInitKeeps DEF ListInv, VisitInv, ServerInit, List!NoClient, List!Init
<1>2. VisitInv /\ ListInv /\ ListInv' /\ [ServerNext]_servervars => VisitInv'
  BY VisitServerKeeps
<1>3. ListInv /\ [ServerNext]_servervars => ListInv'
  BY ListServerKeeps
<1>4. VisitInv /\ ListInv /\ [ServerNext]_servervars
      => [pc # "page" /\ pc' = "page" /\ start' # 0 /\ api # "group" => start' > start]_servervars
  <2>1. SUFFICES ASSUME VisitInv, ServerNext, pc # "page", pc' = "page", start' # 0, api # "group"
                 PROVE  start' > start
    OBVIOUS
  <2>2. ListWork
    BY <2>1 DEF ServerNext, servervars, VolumeWork, SnapshotWork, ServerRestart, besidesVolumes, besidesSnapshots, lists
  <2>3. List!ClusterPage \/ List!GetEntriesAndNextToken
    BY <2>1, <2>2 DEF ListWork, List!Next, List!Respond, List!ListVolumes, List!listVolumesInCluster,
       List!listVolumesInNodeResourceGroup, List!FollowToken, List!ListFails, List!StartOver, List!Fail
  <2> QED
    BY <2>1, <2>3, ClusterTokenGrows, SnapshotTokenGrows DEF VisitInv
<1> QED
  BY <1>1, <1>2, <1>3, <1>4, ListInitKeeps, PTL DEF ServerSpec
=============================================================================
