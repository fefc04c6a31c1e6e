--------------------------- MODULE MCVolumeLister ---------------------------
(* VolumeLister on lists short enough to page through in every way.        *)
EXTENDS VolumeLister
=============================================================================
