SPECIFICATION NodeSpec
CONSTANTS
  Volumes <- MCVolumes
  Pods = {1, 2}
  volDev = volDev
  osDev = osDev
  tempDev = tempDev
  Staging = staging
  Slots = {1, 2}
  NoPod = noPod
  NoCall = noCall
  NoDevice = noDevice
  MaxFaults = 2
  Nodes = {n1, n2}
  NoNode = noNode
  MaxMoves = 3
  MaxLosses = 2
  Requests <- MCRequests
  NoNodeInfo = noNodeInfo
INVARIANTS DeviceIsTheVolume PublishedIsMounted HostLetsGo AttachedWhereStaged StagedIsTuned
PROPERTIES DataKept PodServed UnstageEnds PodAttached
CHECK_DEADLOCK FALSE
