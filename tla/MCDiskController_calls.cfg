SPECIFICATION FairSpec
CONSTANTS
  Nodes = {n1}
  Disks = {d1}
  Shared = {}
  Threads = {t1, t2}
  NoThread = NoThread
  NoCall = NoCall
  NoView = NoView
  MaxLUN = 2
  MaxDataDisks = 1
  OccupiedLuns = {{}}
  Deletable = {d1}
  Removable = {}
  WaitForDetach = TRUE
  CheckDiskCountForBatching = TRUE
  ForceDetachBackoff = TRUE
  WaitForDetachDiskComplete = TRUE
PROPERTIES CallReturns
