---------------------------- MODULE PreStopHook ----------------------------
(***************************************************************************)
(* The pre-stop hook of the node plugin (azurediskplugin/hooks/prestop.go):*)
(* on a node that is drained or gone it waits until no VolumeAttachment    *)
(* names the node. It lists the attachments once itself and again at each  *)
(* update or delete event of an informer it started just before. The       *)
(* informer and the API server are external.                               *)
(***************************************************************************)
EXTENDS Naturals

CONSTANTS
  Attachments,   \* VolumeAttachments of the node when the hook starts
  MaxListErrors, \* bound: lists the API server fails
  MaxUpdates,    \* bound: updates of an attachment
  MaxDrops       \* bound: watches that break and miss what happens meanwhile

ASSUME BoundAssumption == MaxListErrors \in Nat /\ MaxUpdates \in Nat /\ MaxDrops \in Nat

VARIABLES
  attachments,   \* API server: the attachments of the node that exist
  pc,            \* the hook
  informer,      \* "off", "starting", "watching" or "broken"
  store,         \* the attachments the informer knows
  updated,       \* attachments with an update the informer has not delivered
  handling,      \* an event handler is about to list the attachments
  allDeleted,    \* the channel is closed
  listErrors, updates, drops

api == <<attachments, updates>>
watch == <<informer, store, updated, drops>>
vars == <<api, watch, pc, handling, allDeleted, listErrors>>

Init ==
  /\ attachments = Attachments
  /\ pc = "fetch" /\ informer = "off" /\ store = {} /\ updated = {}
  /\ handling = FALSE /\ allDeleted = FALSE
  /\ listErrors = 0 /\ updates = 0 /\ drops = 0

(* The plugin is not being stopped.                                        *)
Idle ==
  /\ attachments = {}
  /\ pc = "off" /\ informer = "off" /\ store = {} /\ updated = {}
  /\ handling = FALSE /\ allDeleted = FALSE
  /\ listErrors = 0 /\ updates = 0 /\ drops = 0

(* PreStop: a node that is not drained, or that cannot be read, ends the   *)
(* hook at once.                                                           *)
PreStop ==
  /\ pc = "fetch"
  /\ pc' \in {"addHandler", "skipped", "error"}
  /\ UNCHANGED <<api, watch, handling, allDeleted, listErrors>>

waitForVolumeAttachments ==
  /\ pc = "addHandler"
  /\ pc' = "check" /\ informer' = "starting"
  /\ UNCHANGED <<api, store, updated, drops, handling, allDeleted, listErrors>>

(* List the attachments; close the channel when none names the node. An    *)
(* error is logged and nobody lists again.                                 *)
checkVolumeAttachments ==
  \/ /\ listErrors < MaxListErrors /\ listErrors' = listErrors + 1
     /\ UNCHANGED allDeleted
  \/ /\ allDeleted' = (allDeleted \/ attachments = {})
     /\ UNCHANGED listErrors

InitialCheck ==
  /\ pc = "check"
  /\ checkVolumeAttachments
  /\ pc' = "wait"
  /\ UNCHANGED <<api, watch, handling>>

HandlerCheck ==
  /\ handling /\ handling' = FALSE
  /\ checkVolumeAttachments
  /\ UNCHANGED <<api, watch, pc>>

Finished ==
  /\ pc = "wait" /\ allDeleted
  /\ pc' = "done"
  /\ UNCHANGED <<api, watch, handling, allDeleted, listErrors>>

-----------------------------------------------------------------------------
(* The informer lists, then watches. A delete or update it sees while it   *)
(* watches becomes an event. What it missed shows when it lists again, as  *)
(* DeletedFinalStateUnknown: the assertion in the handler fails, and it    *)
(* goes on with a nil attachment, which panics.                            *)
InformerLists ==
  /\ informer = "starting"
  /\ informer' = "watching" /\ store' = attachments /\ updated' = {}
  /\ UNCHANGED <<api, drops, pc, handling, allDeleted, listErrors>>

(* Mutant: the handler of delete events does not list.                     *)
IgnoredDeleteEvent(a) ==
  /\ informer = "watching" /\ ~handling /\ ~allDeleted
  /\ a \in store \ attachments
  /\ store' = store \ {a} /\ updated' = updated \ {a}
  /\ UNCHANGED <<api, informer, drops, pc, handling, allDeleted, listErrors>>

DeleteEvent(a) ==
  /\ informer = "watching" /\ ~handling /\ ~allDeleted
  /\ a \in store \ attachments
  /\ store' = store \ {a} /\ updated' = updated \ {a} /\ handling' = TRUE
  /\ UNCHANGED <<api, informer, drops, pc, allDeleted, listErrors>>

UpdateEvent(a) ==
  /\ informer = "watching" /\ ~handling /\ ~allDeleted
  /\ a \in updated \cap store
  /\ updated' = updated \ {a} /\ handling' = TRUE
  /\ UNCHANGED <<api, informer, store, drops, pc, allDeleted, listErrors>>

WatchBreaks ==
  /\ informer = "watching"
  /\ drops < MaxDrops /\ drops' = drops + 1
  /\ informer' = "broken"
  /\ UNCHANGED <<api, store, updated, pc, handling, allDeleted, listErrors>>

Relist ==
  /\ informer = "broken" /\ ~handling /\ ~allDeleted
  /\ informer' = "watching" /\ store' = attachments /\ updated' = {}
  /\ pc' = IF store \subseteq attachments THEN pc ELSE "panic"
  /\ handling' = (updated \cap attachments # {})
  /\ UNCHANGED <<api, drops, allDeleted, listErrors>>

(* The attach-detach controller detaches the volumes of the node.          *)
Detached(a) ==
  /\ a \in attachments
  /\ attachments' = attachments \ {a}
  /\ UNCHANGED <<updates, watch, pc, handling, allDeleted, listErrors>>

Updated(a) ==
  /\ a \in attachments
  /\ updates < MaxUpdates /\ updates' = updates + 1
  /\ updated' = updated \cup {a}
  /\ UNCHANGED <<attachments, informer, store, drops, pc, handling, allDeleted, listErrors>>

Running == pc \in {"addHandler", "check", "wait"}

HookStep ==
  \/ waitForVolumeAttachments \/ InitialCheck \/ Finished
  \/ Running /\ HandlerCheck

InformerStep ==
  Running /\ (InformerLists \/ Relist \/ \E a \in Attachments : DeleteEvent(a) \/ UpdateEvent(a))

Next ==
  \/ PreStop \/ HookStep \/ InformerStep
  \/ Running /\ WatchBreaks
  \/ \E a \in Attachments : Detached(a) \/ Updated(a)

(* The hook and its informer run, and every volume is detached some day.   *)
Spec ==
  /\ Init /\ [][Next]_vars
  /\ WF_vars(HookStep) /\ WF_vars(InformerStep)
  /\ \A a \in Attachments : WF_vars(Detached(a))

-----------------------------------------------------------------------------
(* The variables have their types; a hook that checks or waits has its     *)
(* informer running.                                                       *)
TypeOK ==
  /\ attachments \subseteq Attachments /\ store \subseteq Attachments /\ updated \subseteq Attachments
  /\ pc \in {"off", "fetch", "addHandler", "check", "wait", "done", "skipped", "error", "panic"}
  /\ informer \in {"off", "starting", "watching", "broken"}
  /\ informer = "off" <=> pc \in {"off", "fetch", "addHandler", "skipped", "error"}
  /\ handling \in BOOLEAN /\ allDeleted \in BOOLEAN
  /\ listErrors \in 0 .. MaxListErrors /\ updates \in 0 .. MaxUpdates /\ drops \in 0 .. MaxDrops

(* A hook whose informer knows an attachment ends once it is deleted: the  *)
(* last delete event finds the list empty, unless the watch broke or the   *)
(* API server failed a list.                                               *)
SeenDeletionEndsHook ==
  pc = "wait" /\ store # {} ~> pc = "done" \/ listErrors > 0 \/ drops > 0
=============================================================================
