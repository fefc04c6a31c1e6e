------------------------- MODULE DevicePerformance -------------------------
(***************************************************************************)
(* Block device tuning of NodeStageVolume (pkg/optimization): from the     *)
(* burst limits of the disk and of the virtual machine to the settings of  *)
(* the device, which are written one file after another, in the order of a *)
(* Go map. The settings are the kernel's: they go with the device when it  *)
(* is detached or the node starts again.                                   *)
(*                                                                         *)
(* Rates are in operations and in kB (1000 bytes) a second, latencies in   *)
(* units of 0.1 ms. Quotients are exact here; in floating point a ceiling  *)
(* may be one higher.                                                      *)
(***************************************************************************)
EXTENDS Naturals, FiniteSetsExt, DiskTables

CONSTANTS
  Requests,  \* volume contexts: profile, key (of the account), account, size, iops, bw (0 when not
             \* given) and settings; with the limits of the node
  NoNodeInfo \* stands for the limits of a node whose instance type is not found

VARIABLES
  request,  \* the volume and the node
  device,   \* its settings, with what they are: "default", "partly" written, "overrides", "tuned"; or "absent"
  ready     \* the volume was staged since the device is there

perfVars == <<request, device, ready>>

Other(what) == [what |-> what, sectors |-> 0, depth |-> 0]

-----------------------------------------------------------------------------
meetsRequest(sku, r) == sku.size >= r.size /\ sku.bw >= r.bw /\ sku.iops >= r.iops

(* The smallest of the SKUs that meet the request, if any.                 *)
getMatchingDiskSku(r) ==
  LET fit == {sku \in DiskSkuMap[r.account] : meetsRequest(sku, r)} IN
    {sku \in fit : \A other \in fit : sku.size <= other.size}

Smaller(a, b) == IF a <= b THEN a ELSE b
Larger(a, b) == IF a <= b THEN b ELSE a
Ceiling(a, b) == (a + b - 1) \div b

(* The limit the node sets, or the disk's where the node's is not known.   *)
(* (The first definition is a mutant: the bandwidth stays in MB a second.) *)
BurstBwUnscaled(sku, node) == Smaller(sku.burstBw, node[2])
BurstBw(sku, node) ==
  LET least == Smaller(sku.burstBw, node[2]) * 1000 IN IF least <= 0 THEN sku.burstBw ELSE least
BurstIops(sku, node) ==
  LET least == Smaller(sku.burstIops, node[1]) IN IF least <= 0 THEN sku.burstIops ELSE least

(* A request as large as gives the bandwidth with three quarters of the    *)
(* operations, and a queue as long as both loads need. Without operations  *)
(* the quotient is not a number.                                           *)
getOptimalDeviceSettings(sku, node) ==
  LET iops == BurstIops(sku, node)
      bw == BurstBw(sku, node)
      sectors == Smaller(512, Ceiling(4 * bw, 3 * iops))
      sequential == Ceiling(bw * GetSequentialIOLatency(sku), 10000 * sectors)
      random == Ceiling(iops * GetRandomIOLatency(sku), 10000)
  IN [what |-> "tuned", sectors |-> sectors, depth |-> Larger(Ceiling(random + 4 * sequential, 4), random)]

-----------------------------------------------------------------------------
(* What the volume context asks for; nothing when the profile is unknown.  *)
(* The account is read under one of its two keys only.                     *)
GetDiskPerfAttributes(r) ==
  {[r EXCEPT !.profile = IF r.profile = "absent" THEN "none" ELSE r.profile,
             !.account = IF r.key = "skuname" THEN r.account ELSE "none"] : x \in {r.profile} \ {"other"}}

DiskSupportsPerfOptimization(r) ==
  /\ r.profile \in {"basic", "advanced"}
  /\ r.account \in {"premium_lrs", "premium_zrs", "premiumv2_lrs", "standardssd_lrs", "standardssd_zrs"}

(* Overrides of the advanced profile: some, and none outside the device's  *)
(* directory.                                                              *)
AreDeviceSettingsValid(r) == r.settings = "inside"

(* What is to be written, for the profile; nothing when that is an error.  *)
Settings(r) ==
  IF r.node = NoNodeInfo THEN {}
  ELSE IF r.profile = "advanced" THEN {x \in {Other("overrides")} : AreDeviceSettingsValid(r)}
  ELSE {IF sku.burstIops = 0 THEN Other("NaN") ELSE getOptimalDeviceSettings(sku, r.node) : sku \in getMatchingDiskSku(r)}

(* NodeStageVolume goes on when the device is tuned, or needs no tuning;   *)
(* the kernel takes no setting that is not a number.                       *)
OptimizeDiskPerformance ==
  /\ device.what # "absent" /\ ~ready
  /\ \E r \in GetDiskPerfAttributes(request) :
       IF DiskSupportsPerfOptimization(r)
       THEN \E s \in Settings(r) : s.what # "NaN" /\ device' = s
       ELSE UNCHANGED device
  /\ ready' = TRUE
  /\ UNCHANGED request

(* A setting cannot be written: those before it are, and kubelet stages    *)
(* the volume again.                                                       *)
echoFails ==
  /\ device.what # "absent" /\ ~ready
  /\ \E r \in GetDiskPerfAttributes(request) : DiskSupportsPerfOptimization(r) /\ Settings(r) # {}
  /\ device' = Other("partly")
  /\ UNCHANGED <<request, ready>>

(* The device is detached and attached again, or the node starts again.    *)
DeviceReturns ==
  /\ device.what # "absent" /\ device' = Other("default") /\ ready' = FALSE
  /\ UNCHANGED request

(* The limits of the node are looked up once, at start-up.                 *)
NewNodeInfo(vm) == IF vm \in NodeInfoMap THEN vm ELSE NoNodeInfo

PerfInit ==
  /\ request \in {[r EXCEPT !.node = NewNodeInfo(r.node)] : r \in Requests}
  /\ device = Other("default") /\ ready = FALSE

PerfNext == OptimizeDiskPerformance \/ echoFails \/ DeviceReturns

(* There is no such volume.                                                *)
NoVolume == request = (CHOOSE r \in Requests : TRUE) /\ device = Other("absent") /\ ready = FALSE

PerfSpec == PerfInit /\ [][PerfNext]_perfVars

-----------------------------------------------------------------------------
(* A volume staged with a profile has a device whose settings are all      *)
(* written, and with the basic profile they let the disk reach what both   *)
(* it and the node allow in a burst: the bandwidth with requests of that   *)
(* size, in three quarters of the operations unless that takes larger      *)
(* requests than the device has, and all the operations; whatever attempts *)
(* before have written and whatever the disk and the machine               *)
(* (getOptimalDeviceSettings and applyDeviceSettings).                     *)
Reaches(s, sku, node) ==
  LET bw == 1000 * Smaller(sku.burstBw, node[2])
      iops == Smaller(sku.burstIops, node[1])
  IN /\ s.depth * s.sectors * 10000 >= bw * GetSequentialIOLatency(sku)
     /\ s.depth * 10000 >= iops * GetRandomIOLatency(sku)
     /\ s.sectors = 512 \/ 3 * iops * s.sectors >= 4 * bw

StagedIsTuned ==
  ready => \A r \in GetDiskPerfAttributes(request) :
    DiskSupportsPerfOptimization(r) =>
      \/ r.profile = "advanced" /\ device.what = "overrides"
      \/ r.profile = "basic"
         /\ LET fit == {sku \in DiskSkuMap[r.account] : meetsRequest(sku, r)} IN
              \A sku \in fit : sku.size = Min({x.size : x \in fit}) => Reaches(device, sku, r.node)
=============================================================================
