-------------------------- MODULE MCVolumePublish --------------------------
(* VolumePublish with one disk that two nodes ask for and a second one     *)
(* beside it on the first node.                                            *)
EXTENDS VolumePublish

CONSTANTS d1, d2, n1, n2
Pairs == {<<d1, n1>>, <<d1, n2>>, <<d2, n1>>}
=============================================================================
