SPECIFICATION Spec
CONSTANTS
  Nodes = {n1}
  Disks = {d1, d2}
  Shared = {}
  Threads = {t1, t2}
  NoThread = NoThread
  NoCall = NoCall
  NoView = NoView
  MaxLUN = 2
  MaxDataDisks = 1
  OccupiedLuns = {{}, {0}}
  Deletable = {}
  Removable = {}
  WaitForDetach = TRUE
  CheckDiskCountForBatching = TRUE
  ForceDetachBackoff = TRUE
  WaitForDetachDiskComplete = TRUE
SYMMETRY Symmetry
INVARIANTS UpdateLunsDistinct
PROPERTIES AttachReturnsLun
