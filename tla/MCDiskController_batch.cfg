SPECIFICATION Spec
CONSTANTS
  Nodes = {n1}
  Disks = {d1, d2}
  Shared = {}
  Threads = {t1, t2}
  NoThread = NoThread
  NoCall = NoCall
  NoView = NoView
  MaxLUN = 2
  MaxDataDisks = 2
  OccupiedLuns = {{}}
  Deletable = {d1, d2}
  Removable = {}
  WaitForDetach = TRUE
  CheckDiskCountForBatching = TRUE
  ForceDetachBackoff = TRUE
  WaitForDetachDiskComplete = TRUE
SYMMETRY Symmetry
INVARIANTS TypeOK LockHeld CacheHonest
PROPERTIES DetachReturnsDetached DisksUndisturbed OnlyRequestedDetached
