SPECIFICATION ServerSpec
CONSTANTS
  Requests <- Claims
  Changes <- MCChanges
  Growth = 3
  Slots = {s1, s2}
  NoCall = noCall
  Volume = d1
  Other = d2
  Absent = absent
  Kinds <- SnapshotKinds
  MaxFaults = 3
  NumGroups = 2
  MaxDisks = 3
  MaxLimit = 2
  Apis = {"cluster", "group", "snapshots"}
INVARIANTS PVFits DiskAsAsked NoLeak ReadyIsComplete LocalGone OneListComplete
PROPERTIES ClaimIsServed DeleteEnds SnapshotServed PagingEnds
CHECK_DEADLOCK FALSE
