------------------------- MODULE MCDiskController -------------------------
EXTENDS DiskController, TLC

Symmetry == Permutations(Threads) \cup Permutations(Disks) \cup Permutations(Nodes)
=============================================================================
