SPECIFICATION FairSpec
CONSTANTS
  Disks = {d1}
  Monitors = {m1, m2}
  SKUs = {"Premium_LRS", "StandardSSD_LRS"}
  NoDisk = NoDisk
  NoMonitor = NoMonitor
  Full = 2
  Threshold = 1
  MaxFailures = 1
  MaxRestarts = 1
INVARIANTS OneMonitorPerDisk EventsInOrder
PROPERTIES LabelGoes CancelledEnds
CHECK_DEADLOCK FALSE
