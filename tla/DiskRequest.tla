---------------------------- MODULE DiskRequest ----------------------------
(***************************************************************************)
(* What CreateVolume and ControllerModifyVolume make of the parameters of  *)
(* a request before they call Azure: pkg/azuredisk/controllerserver.go,    *)
(* the parsing of pkg/azureutils/azure_disk_utils.go, the sizes of         *)
(* pkg/util/util.go, and the disk CreateManagedDisk and ModifyDisk send.   *)
(*                                                                         *)
(* A request is a record: bytes and limit (CapacityRange), params and      *)
(* mutable (maps of lower-case keys), multi and block (capabilities),      *)
(* zones (the topology requirement: preferred before requisite, the        *)
(* well-known key before the driver's own), source and gates.              *)
(* Every refusal here is a final error, whatever its code.                 *)
(***************************************************************************)
EXTENDS Integers, Sequences, TLC

(* Sizes in bytes are in halves of a GiB.                                  *)
GiB == 2
MinimumDiskSizeGiB == 1
PerformancePlusMinimumDiskSizeGiB == 513
maxSnapshotSizeDifferenceAllowed == 50
diskCachingLimit == 4096

NoValue == -1     \* a number that is not given
NotANumber == -2  \* a value strconv.Atoi refuses
Home == "home"    \* the location of the cloud
NoZone == <<"", 0>>  \* a zone is <<region, id>>

Value(p, k, default) == IF k \in DOMAIN p THEN p[k] ELSE default

-----------------------------------------------------------------------------
RoundUpSize(size, unit) == size \div unit + (IF size % unit > 0 THEN 1 ELSE 0)
RoundUpGiB(bytes) == RoundUpSize(bytes, GiB)

AtLeast(n, min) == IF n < min THEN min ELSE n
AtMost(n, max) == IF n > max THEN max ELSE n

-----------------------------------------------------------------------------
(* Mutable parameters (VolumeAttributesClass): three keys, one of which    *)
(* has an alias. They win over the parameters of the storage class.        *)
mutableDiskParameterKey(k) == IF k = "storageaccounttype" THEN "skuname" ELSE k

normalizable(m) ==
  /\ \A k \in DOMAIN m : mutableDiskParameterKey(k) \in {"skuname", "diskiops", "diskmbps"}
  /\ \A j, k \in DOMAIN m : mutableDiskParameterKey(j) = mutableDiskParameterKey(k) => j = k

normalizeMutableDiskParameters(m) ==
  [c \in {mutableDiskParameterKey(k) : k \in DOMAIN m} |->
     m[CHOOSE k \in DOMAIN m : mutableDiskParameterKey(k) = c]]

(* Mutant: a mutable parameter replaces only the same key.                 *)
EffectiveBySpelling(params, mutable) == normalizeMutableDiskParameters(mutable) @@ params

EffectiveParams(params, mutable) ==
  LET m == normalizeMutableDiskParameters(mutable)
      kept == {j \in DOMAIN params : mutableDiskParameterKey(j) \notin DOMAIN m}
  IN [k \in kept \cup DOMAIN m |-> IF k \in DOMAIN m THEN m[k] ELSE params[k]]

(* Both keys of the SKU may be given: the map is walked in no fixed order, *)
(* so either wins.                                                         *)
AccountTypes(p) ==
  LET given == DOMAIN p \cap {"skuname", "storageaccounttype"}
  IN IF given = {} THEN {""} ELSE {p[k] : k \in given}

KnownKeys ==
  {"skuname", "storageaccounttype", "diskiops", "diskmbps", "logicalsectorsize", "cachingmode", "maxshares",
   "location", "perfplus", "des", "destype", "networkpolicy", "diskaccess", "attachmode"}

(* ParseDiskParameters: unknown keys and malformed numbers are refused,    *)
(* PremiumV2 takes no caching.                                             *)
ParseDiskParameters(p, sku) ==
  /\ DOMAIN p \subseteq KnownKeys
  /\ \A k \in DOMAIN p \cap {"diskiops", "diskmbps", "logicalsectorsize", "maxshares"} : p[k] # NotANumber
  /\ "maxshares" \in DOMAIN p => p["maxshares"] >= 1
  /\ sku = "PremiumV2_LRS" => Value(p, "cachingmode", "") \in {"", "None"}

getAttachMode(p) == Value(p, "attachmode", "ControllerDriven")

-----------------------------------------------------------------------------
SKUs == {"Standard_LRS", "StandardSSD_LRS", "Premium_LRS", "Premium_ZRS", "StandardSSD_ZRS", "UltraSSD_LRS", "PremiumV2_LRS"}
ZRS == {"Premium_ZRS", "StandardSSD_ZRS"}
Provisioned == {"UltraSSD_LRS", "PremiumV2_LRS"}  \* IOPS and MBps are the user's

NormalizeStorageAccountType(sku) == IF sku = "" THEN "StandardSSD_LRS" ELSE sku
NormalizeCachingMode(mode) == IF mode = "" THEN "ReadOnly" ELSE mode

Normalizable(p, sku) ==
  /\ NormalizeStorageAccountType(sku) \in SKUs
  /\ NormalizeCachingMode(Value(p, "cachingmode", "")) \in {"None", "ReadOnly", "ReadWrite"}
  /\ Value(p, "destype", "") \in {"", "EncryptionAtRestWithCustomerKey", "EncryptionAtRestWithPlatformAndCustomerKeys"}
  /\ Value(p, "networkpolicy", "") \in {"", "AllowAll", "AllowPrivate", "DenyAll"}

(* Several nodes may only share a block volume of a shared disk.           *)
IsValidVolumeCapabilities(r, maxShares) == r.multi => r.block /\ maxShares >= 2

-----------------------------------------------------------------------------
(* The size: rounded up, at least the minimum, within the limit.           *)
requestGiB(r, p) ==
  AtLeast(IF Value(p, "perfplus", FALSE) THEN AtLeast(RoundUpGiB(r.bytes), PerformancePlusMinimumDiskSizeGiB)
          ELSE RoundUpGiB(r.bytes), MinimumDiskSizeGiB)

WithinLimit(r, p) == RoundUpGiB(r.limit) = 0 \/ RoundUpGiB(r.limit) >= requestGiB(r, p)

(* A snapshot a little larger than the request: no size is sent and Azure  *)
(* takes the snapshot's. (The first definition is a mutant: a smaller      *)
(* snapshot counts too.)                                                   *)
AnySizeNear(r, p) ==
  r.source.kind = "snapshot" /\ RoundUpGiB(r.source.bytes) - requestGiB(r, p) <= maxSnapshotSizeDifferenceAllowed

SizeFromSnapshot(r, p) ==
  /\ r.source.kind = "snapshot"
  /\ LET difference == RoundUpGiB(r.source.bytes) - requestGiB(r, p)
     IN difference > 0 /\ difference <= maxSnapshotSizeDifferenceAllowed

SuppliedGiB(r, p) == IF SizeFromSnapshot(r, p) THEN 0 ELSE requestGiB(r, p)

-----------------------------------------------------------------------------
(* The zone: the first of the requirement that fits the location; without  *)
(* a location the zone decides on the region. A clone goes to the zone of  *)
(* its source, a ZRS disk to none: it may be used from everywhere.         *)
IsValidAvailabilityZone(z, region) == z[2] # 0 /\ (region = "" \/ z[1] = region)

PickAvailabilityZone(zones, region) ==
  LET fits == {i \in DOMAIN zones : IsValidAvailabilityZone(zones[i], region)}
  IN IF fits = {} THEN NoZone ELSE zones[CHOOSE i \in fits : \A j \in fits : i <= j]

Location(r, p) ==
  LET region == PickAvailabilityZone(r.zones, "")[1]
  IN IF Value(p, "location", "") # "" THEN p["location"] ELSE IF region # "" THEN region ELSE Home

(* GetSourceDiskSize follows the sources of a source for up to ten levels  *)
(* and returns the disk at the root; r.source is that disk. When it fails, *)
(* the failure is only logged.                                             *)
DiskZone(r, p, sourceRead) ==
  IF r.source.kind = "disk" /\ sourceRead /\ r.source.zone # 0 THEN <<Location(r, p), r.source.zone>>
  ELSE PickAvailabilityZone(r.zones, Value(p, "location", ""))

ResizeRequired(r, p, sourceRead) ==
  r.source.kind = "disk" /\ sourceRead /\ RoundUpGiB(r.source.bytes) < requestGiB(r, p)

AccessibleTopology(r, p, sku, sourceRead) ==
  IF sku \in ZRS THEN {<<Location(r, p), i>> : i \in 1 .. 4} \cup {NoZone}
  ELSE {DiskZone(r, p, sourceRead)}

GetZoneID(zone) == IF zone[1] = Home THEN zone[2] ELSE 0

-----------------------------------------------------------------------------
getDefaultDiskIOPSReadWrite(gib) == AtMost(AtLeast(gib, 500), 160000)

getDefaultDiskMBPSReadWrite(gib) ==
  LET iops == getDefaultDiskIOPSReadWrite(gib)
      wide == IF iops \div 256 > 100 THEN RoundUpSize(iops, 256) ELSE 100
  IN AtMost(IF wide > iops \div 4 THEN RoundUpSize(iops, 4) ELSE wide, 4000)

(* An Ultra disk gets both defaults when neither number is given, and the  *)
(* least one when only the other is; PremiumV2 is left to Azure.           *)
Performance(p, sku, gib, key) ==
  LET given == Value(p, key, NoValue)
      neither == DOMAIN p \cap {"diskiops", "diskmbps"} = {}
  IN CASE given # NoValue -> given
       [] sku = "UltraSSD_LRS" /\ neither /\ key = "diskiops" -> getDefaultDiskIOPSReadWrite(gib)
       [] sku = "UltraSSD_LRS" /\ neither /\ key = "diskmbps" -> getDefaultDiskMBPSReadWrite(gib)
       [] sku = "UltraSSD_LRS" /\ ~neither -> IF key = "diskiops" THEN 500 ELSE 100
       [] OTHER -> NoValue

(* What CreateManagedDisk refuses before it calls Azure.                   *)
ModelAllowed(p, sku) ==
  /\ sku \notin Provisioned => DOMAIN p \cap {"diskiops", "diskmbps", "logicalsectorsize"} = {}
  /\ "destype" \in DOMAIN p => "des" \in DOMAIN p
  /\ Value(p, "networkpolicy", "") = "AllowPrivate" => "diskaccess" \in DOMAIN p
  /\ Value(p, "networkpolicy", "") \in {"AllowAll", "DenyAll"} => "diskaccess" \notin DOMAIN p

-----------------------------------------------------------------------------
(* The request as a whole: refused, or a disk to ask Azure for.            *)
Params(r) == EffectiveParams(r.params, r.mutable)

(* Checked before the lock is taken ...                                    *)
WellFormed(r, sku) ==
  LET p == Params(r)
  IN /\ normalizable(r.mutable)
     /\ ParseDiskParameters(p, sku)
     /\ getAttachMode(p) \in {"ControllerDriven", "NodeDriven"}
     /\ getAttachMode(p) = "NodeDriven" => r.nodeDrivenEnabled
     /\ IsValidVolumeCapabilities(r, Value(p, "maxshares", 0))

(* ... and after it.                                                       *)
Admissible(r, sku) ==
  LET p == Params(r)
  IN WithinLimit(r, p) /\ Normalizable(p, sku) /\ ModelAllowed(p, NormalizeStorageAccountType(sku))

Acceptable(r, sku) == WellFormed(r, sku) /\ Admissible(r, sku)

(* effectiveCachingModeForDisk: a disk of 4 TiB is not cached. The volume  *)
(* context carries the mode to the publish calls.                          *)
CachingMode(p, sku, gib) ==
  IF sku = "PremiumV2_LRS" \/ (getAttachMode(p) = "NodeDriven" /\ gib >= diskCachingLimit) THEN "None"
  ELSE NormalizeCachingMode(Value(p, "cachingmode", ""))

(* The disk in the PUT.                                                    *)
DiskModel(r, accountType, sourceRead) ==
  LET p == Params(r)
      sku == NormalizeStorageAccountType(accountType)
      gib == requestGiB(r, p)
  IN [size |-> SuppliedGiB(r, p), sku |-> sku,
      zone |-> IF sku \in ZRS THEN 0 ELSE GetZoneID(DiskZone(r, p, sourceRead)),
      iops |-> Performance(p, sku, gib, "diskiops"), mbps |-> Performance(p, sku, gib, "diskmbps"),
      shares |-> AtLeast(Value(p, "maxshares", 0), 1)]

(* What CreateVolume answers.                                              *)
VolumeAnswer(r, accountType, sourceRead) ==
  LET p == Params(r)
      sku == NormalizeStorageAccountType(accountType)
  IN [capacity |-> SuppliedGiB(r, p) * GiB,
      topology |-> AccessibleTopology(r, p, sku, sourceRead),
      caching |-> CachingMode(p, sku, requestGiB(r, p)),
      resize |-> ResizeRequired(r, p, sourceRead)]

-----------------------------------------------------------------------------
(* ControllerModifyVolume and ModifyDisk: the new SKU, if one is named,    *)
(* then the numbers, which only two SKUs take.                             *)
ModifiedSku(m, disk) == IF Value(m, "skuname", "") = "" THEN disk.sku ELSE m["skuname"]

ModifyAllowed(m, disk) ==
  /\ ParseDiskParameters(m, Value(m, "skuname", ""))
  /\ NormalizeStorageAccountType(Value(m, "skuname", "")) \in SKUs
  /\ DOMAIN m \cap {"diskiops", "diskmbps"} # {} => ModifiedSku(m, disk) \in Provisioned

Modified(m, disk) ==
  [disk EXCEPT !.sku = ModifiedSku(m, disk), !.iops = Value(m, "diskiops", @), !.mbps = Value(m, "diskmbps", @)]
=============================================================================
