SPECIFICATION Spec
CONSTANTS
  Disks = {d1}
  Monitors = {m1, m2}
  SKUs = {"Premium_LRS"}
  NoDisk = NoDisk
  NoMonitor = NoMonitor
  Full = 1
  Threshold = 1
  MaxFailures = 0
  MaxRestarts = 1
INVARIANT ModifiedIsMonitored
CHECK_DEADLOCK FALSE
