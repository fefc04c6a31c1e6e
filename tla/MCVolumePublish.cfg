SPECIFICATION Spec
CONSTANTS
  d1 = d1
  d2 = d2
  n1 = n1
  n2 = n2
  Disks = {d1, d2}
  Nodes = {n1, n2}
  Attachments <- Pairs
  NoNode = none
  Unknown = unknown
  NoUpdate = noUpdate
  MaxLUN = 2
  MaxLate = 1
  MaxFaults = 2
INVARIANTS PublishedIsAttached
PROPERTIES LunsApart AskedIsServed
