---------------------------- MODULE MCNodeAgent ----------------------------
(* NodeAgent with a few attachments, a short back-off and machines of      *)
(* several sizes.                                                          *)
EXTENDS NodeAgent, Integers

Types == INSTANCE NodeInfo

Machine == [limit |-> -1, reserved |-> 2, zones |-> TRUE, fromLabels |-> FALSE, type |-> 8, label |-> 8]
MCNodeTypes ==
  {Machine, [Machine EXCEPT !.fromLabels = TRUE, !.zones = FALSE], [Machine EXCEPT !.label = Types!NoType],
   [Machine EXCEPT !.type = 2, !.label = 2], [Machine EXCEPT !.type = Types!Unlisted, !.label = Types!Unlisted],
   [Machine EXCEPT !.limit = 4, !.zones = FALSE]}
=============================================================================
