------------------------------ MODULE NodeInfo ------------------------------
(***************************************************************************)
(* NodeGetInfo (pkg/azuredisk/nodeserver.go): how many volumes the node    *)
(* takes, by the type of its virtual machine, which is read from the       *)
(* instance metadata or the labels of the Node object. A type is named by  *)
(* its entry in the table of disk counts. A node has                       *)
(*   limit       --volume-attach-limit, -1 for none                        *)
(*   reserved    --reserved-data-disk-slot-num                             *)
(*   zones       --support-zone                                            *)
(*   fromLabels  --get-node-info-from-labels                               *)
(*   type        the type of the virtual machine                           *)
(*   label       the type its labels name                                  *)
(***************************************************************************)
EXTENDS Integers

NoType == -1    \* the empty string
Unlisted == -2  \* a type the table does not have

(* The counts in maxDataDiskCountMap.                                      *)
maxDataDiskCounts == {0, 1, 2, 4, 5, 6, 8, 10, 12, 14, 16, 24, 26, 32, 36, 40, 48, 64}

GetMaxDataDiskCount(type) == IF type \in maxDataDiskCounts THEN type ELSE 16

(* What NodeGetInfo may read: the zone and the type from the metadata, the *)
(* labels for the zone and once more for the type.                         *)
Reads == {"zone", "type", "labels", "again"}

GetNodeInfoFromLabels(node, failing, read) == IF read \in failing THEN NoType ELSE node.label

ReadsLabels(node, failing) == node.zones /\ (node.fromLabels \/ "zone" \in failing)
TypeWithZone(node, failing) == IF ReadsLabels(node, failing) THEN GetNodeInfoFromLabels(node, failing, "labels") ELSE NoType
TypeFromCloud(node, failing) == IF node.fromLabels \/ "type" \in failing THEN NoType ELSE node.type

(* (The first definition is a mutant: the labels are not read again where  *)
(* the metadata fail.)                                                     *)
ReadsLabelsWhereAsked(node, failing) == node.fromLabels /\ TypeWithZone(node, failing) = NoType
ReadsLabelsAgain(node, failing) == TypeFromCloud(node, failing) = NoType /\ TypeWithZone(node, failing) = NoType

InstanceType(node, failing) ==
  IF TypeFromCloud(node, failing) # NoType THEN TypeFromCloud(node, failing)
  ELSE IF ReadsLabelsAgain(node, failing) THEN GetNodeInfoFromLabels(node, failing, "again")
  ELSE TypeWithZone(node, failing)

(* Reads that fail are ones that are made.                                 *)
Made(node, failing) ==
  /\ "zone" \in failing => node.zones /\ ~node.fromLabels
  /\ "labels" \in failing => ReadsLabels(node, failing)
  /\ "type" \in failing => node.limit < 0 /\ ~node.fromLabels
  /\ "again" \in failing => node.limit < 0 /\ ReadsLabelsAgain(node, failing)

(* Without a zone the call fails; without a type it goes on.               *)
NodeGetInfoFails(node, failing) == ReadsLabels(node, failing) /\ "labels" \in failing

MaxVolumesPerNode(node, failing) ==
  IF node.limit >= 0 THEN node.limit
  ELSE GetMaxDataDiskCount(InstanceType(node, failing)) - node.reserved
=============================================================================
