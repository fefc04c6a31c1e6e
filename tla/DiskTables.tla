----------------------------- MODULE DiskTables -----------------------------
(***************************************************************************)
(* The tables of pkg/optimization: the SKUs of managed disks and the burst *)
(* limits of the virtual machines. Rates and latencies are in the units    *)
(* of DevicePerformance.                                                   *)
(***************************************************************************)
EXTENDS Naturals

(* DiskSkuMap: a SKU for each size, with its limits and those of a burst.  *)
Skus(sizes, iops, bw, burstIops, burstBw) ==
  {[size |-> s, iops |-> iops, bw |-> bw, burstIops |-> burstIops, burstBw |-> burstBw] : s \in sizes}

Premium ==
  Skus({4, 8, 16, 32}, 120, 25, 3500, 170) \cup Skus({64}, 240, 50, 3500, 170)
  \cup Skus({128}, 500, 100, 3500, 170) \cup Skus({256}, 1100, 125, 3500, 170)
  \cup Skus({512}, 2300, 150, 3500, 170) \cup Skus({1024}, 5000, 200, 5000, 200)
  \cup Skus({2048, 4096}, 7500, 250, 7500, 250) \cup Skus({8192}, 16000, 500, 16000, 500)
  \cup Skus({16384}, 18000, 750, 18000, 750) \cup Skus({32767}, 20000, 900, 20000, 900)

StandardSSD ==
  Skus({4, 8, 16, 32, 64, 128, 256, 512}, 500, 100, 600, 150) \cup Skus({1024}, 500, 100, 1000, 250)
  \cup Skus({2048, 4096}, 500, 100, 500, 100) \cup Skus({8192}, 2000, 400, 2000, 400)
  \cup Skus({16384}, 4000, 600, 4000, 600) \cup Skus({32767}, 6000, 750, 6000, 750)

Standard ==
  Skus({32, 64, 128, 256, 512, 1024, 2048, 4096}, 500, 60, 500, 60)
  \cup Skus({8192}, 1300, 300, 1300, 300) \cup Skus({16384, 32767}, 2000, 500, 2000, 500)

DiskSkuMap ==
  [premium_lrs |-> Premium, premium_zrs |-> Premium, standardssd_lrs |-> StandardSSD,
   standardssd_zrs |-> StandardSSD, standard_lrs |-> Standard,
   premiumv2_lrs |-> Skus({65536}, 0, 0, 0, 0), ultrassd_lrs |-> Skus({65536}, 0, 0, 0, 0)]

(* NodeInfoMap: the burst limits of the virtual machines, as pairs of      *)
(* operations and MB a second.                                             *)
NodeInfoMap ==
  {<<320, 21>>, <<500, 3>>, <<640, 21>>, <<1280, 21>>, <<1600, 22>>, <<1600, 24>>, <<1920, 21>>, <<2880, 33>>,
   <<3200, 30>>, <<3200, 45>>, <<3200, 48>>, <<3750, 45>>, <<3750, 78>>, <<3750, 81>>, <<3750, 101>>,
   <<4000, 85>>, <<4320, 47>>, <<5000, 119>>, <<6050, 162>>, <<6400, 61>>, <<6400, 91>>, <<6400, 95>>,
   <<6400, 96>>, <<6400, 137>>, <<6400, 138>>, <<6400, 145>>, <<6400, 202>>, <<6700, 100>>, <<7600, 171>>,
   <<8000, 160>>, <<10000, 238>>, <<12100, 324>>, <<12800, 122>>, <<12800, 183>>, <<12800, 190>>,
   <<12800, 192>>, <<12800, 276>>, <<12800, 290>>, <<12800, 404>>, <<15200, 343>>, <<16000, 320>>,
   <<16250, 371>>, <<20000, 286>>, <<20000, 292>>, <<20000, 300>>, <<20000, 476>>, <<22800, 514>>,
   <<24200, 648>>, <<25600, 244>>, <<25600, 366>>, <<25600, 384>>, <<25600, 572>>, <<25600, 600>>,
   <<25600, 808>>, <<30000, 976>>, <<30400, 686>>, <<32000, 457>>, <<32000, 640>>, <<32000, 715>>,
   <<32000, 750>>, <<32000, 1010>>, <<32500, 743>>, <<37500, 101>>, <<38000, 858>>, <<38400, 576>>,
   <<40000, 572>>, <<40000, 585>>, <<40000, 600>>, <<40000, 953>>, <<44000, 953>>, <<45600, 1029>>,
   <<48000, 703>>, <<48000, 960>>, <<48400, 1306>>, <<51200, 488>>, <<51200, 732>>, <<51200, 768>>,
   <<51200, 824>>, <<51200, 865>>, <<51200, 1617>>, <<53200, 1201>>, <<57600, 1373>>, <<60000, 900>>,
   <<60000, 1953>>, <<64000, 915>>, <<64000, 1280>>, <<65000, 1487>>, <<76800, 1098>>, <<76800, 1152>>,
   <<76800, 1254>>, <<76800, 1315>>, <<76800, 2426>>, <<80000, 1144>>, <<80000, 1167>>, <<80000, 1171>>,
   <<80000, 1200>>, <<80000, 1220>>, <<80000, 1335>>, <<80000, 1400>>, <<80000, 1430>>, <<80000, 1525>>,
   <<80000, 1654>>, <<80000, 1735>>, <<80000, 1907>>, <<80000, 2059>>, <<80000, 2479>>, <<80000, 2600>>,
   <<86400, 2059>>, <<88000, 1907>>, <<96800, 2613>>, <<100000, 2861>>, <<102400, 3234>>, <<115200, 2746>>,
   <<120000, 1167>>, <<120000, 1907>>, <<120000, 3814>>, <<130000, 2975>>, <<130000, 3814>>, <<130000, 5722>>,
   <<130000, 7629>>, <<153600, 4768>>, <<153600, 4852>>, <<172800, 4119>>, <<204800, 6467>>, <<240000, 6675>>,
   <<260000, 3814>>, <<260000, 11444>>, <<265000, 3814>>, <<265000, 5722>>, <<265000, 9536>>}

(* The latencies of an operation, for a disk of that size.                 *)
GetRandomIOLatency(sku) ==
  IF sku.size <= 4096 THEN 22 ELSE IF sku.size <= 8192 THEN 28 ELSE IF sku.size <= 16384 THEN 34 ELSE 40
GetSequentialIOLatency(sku) ==
  IF sku.size <= 4096 THEN 33 ELSE IF sku.size <= 8192 THEN 41 ELSE IF sku.size <= 16384 THEN 46 ELSE 52
=============================================================================
