------------------------ MODULE MCControllerServer -------------------------
(* ControllerServer on claims that differ from a plain one in one respect, *)
(* and on snapshots of each kind.                                          *)
EXTENDS ControllerServer

NoParams == <<>>
Class(k, v) == k :> v
NoSource == [kind |-> "none", bytes |-> 0, zone |-> 0]
Snapshot(gib) == [kind |-> "snapshot", bytes |-> gib * GiB, zone |-> 0]
Clone(gib, zone) == [kind |-> "disk", bytes |-> gib * GiB, zone |-> zone]

Plain ==
  [bytes |-> 2 * GiB, limit |-> 0, params |-> Class("skuname", "Premium_LRS"), mutable |-> NoParams,
   multi |-> FALSE, block |-> FALSE, zones |-> << <<Home, 1>> >>, source |-> NoSource, change |-> NoParams,
   nodeDrivenEnabled |-> FALSE, capacityCheck |-> FALSE, onlineResize |-> FALSE]
NodeDrivenClass == Plain.params @@ Class("attachmode", "NodeDriven")

(* Sizes and sources.                                                      *)
SizeRequests ==
  {[Plain EXCEPT !.bytes = b, !.limit = l, !.capacityCheck = TRUE] : b \in {0, 3}, l \in {0, 4}} \cup
  {[Plain EXCEPT !.source = Snapshot(g)] : g \in {1, 40, 80}} \cup
  {[Plain EXCEPT !.source = Snapshot(40), !.capacityCheck = TRUE], [Plain EXCEPT !.source = Clone(1, 2)], [Plain EXCEPT !.params = @ @@ Class("perfplus", TRUE)], [Plain EXCEPT !.limit = 3]}

(* Parameters: keys, aliases, kinds of disks, zones.                       *)
ParamRequests ==
  {[Plain EXCEPT !.mutable = Class(k, v)] :
     k \in {"skuname", "storageaccounttype"}, v \in {"PremiumV2_LRS", "UltraSSD_LRS", "Premium_ZRS"}} \cup
  {[Plain EXCEPT !.params = @ @@ Class("storageaccounttype", "StandardSSD_LRS")],
   [Plain EXCEPT !.params = @ @@ Class("storageaccounttype", "PremiumV2_LRS") @@ Class("cachingmode", "ReadOnly")],
   [Plain EXCEPT !.params = Class("skuname", "UltraSSD_LRS"), !.mutable = Class("diskiops", 800)],
   [Plain EXCEPT !.mutable = Class("diskiops", 800)],
   [Plain EXCEPT !.params = Class("storageaccounttype", "Premium_LRS"), !.mutable = Class("skuname", "PremiumV2_LRS")],
   [Plain EXCEPT !.mutable = Class("skuname", "UltraSSD_LRS") @@ Class("storageaccounttype", "UltraSSD_LRS")],
   [Plain EXCEPT !.params = @ @@ Class("diskiops", NotANumber)],
   [Plain EXCEPT !.zones = << <<"far", 2>>, <<Home, 1>> >>],
   [Plain EXCEPT !.params = @ @@ Class("location", Home), !.zones = << <<"far", 2>>, <<Home, 3>> >>],
   [Plain EXCEPT !.params = @ @@ Class("maxshares", 2), !.multi = TRUE, !.block = TRUE],
   [Plain EXCEPT !.multi = TRUE, !.block = TRUE],
   [Plain EXCEPT !.params = Class("skuname", "Premium_ZRS"), !.zones = << <<"far", 2>> >>],
   [Plain EXCEPT !.mutable = Class("skuname", "")]}

(* Changes after the create, and node-driven volumes.                      *)
LaterRequests ==
  {[Plain EXCEPT !.change = Class("skuname", "PremiumV2_LRS") @@ Class("diskiops", 4000), !.onlineResize = o] : o \in BOOLEAN} \cup
  {[Plain EXCEPT !.change = c] :
     c \in {Class("diskiops", 800), Class("storageaccounttype", "UltraSSD_LRS"), Class("skuname", "Premium_ZRS"), Class("skuname", "None")}} \cup
  {[Plain EXCEPT !.params = Class("skuname", "UltraSSD_LRS"), !.change = c] :
     c \in {Class("skuname", "Premium_LRS"), Class("skuname", "") @@ Class("diskmbps", 300), Class("diskiops", NotANumber)}} \cup
  {[Plain EXCEPT !.params = NodeDrivenClass, !.nodeDrivenEnabled = e] : e \in BOOLEAN}

Claims == SizeRequests \cup ParamRequests \cup LaterRequests
MCChanges == {r.change : r \in LaterRequests} \ {NoParams}

(* Instant access and another region together are left out: see README.    *)
SnapshotKinds ==
  {k \in [cross : BOOLEAN, wait : BOOLEAN, instant : BOOLEAN, static : BOOLEAN] :
     ~(k.cross /\ k.instant) /\ (k.static => ~k.cross /\ ~k.wait)}
=============================================================================
