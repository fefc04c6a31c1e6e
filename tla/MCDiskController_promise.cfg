SPECIFICATION Spec
CONSTANTS
  Nodes = {n1}
  Disks = {d1, d2}
  Shared = {}
  Threads = {t1, t2}
  NoThread = NoThread
  NoCall = NoCall
  NoView = NoView
  MaxLUN = 2
  MaxDataDisks = 2
  OccupiedLuns = {{}}
  Deletable = {}
  Removable = {n1}
  WaitForDetach = FALSE
  CheckDiskCountForBatching = FALSE
  ForceDetachBackoff = FALSE
  WaitForDetachDiskComplete = TRUE
SYMMETRY Symmetry
PROPERTIES Promise
