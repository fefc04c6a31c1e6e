------------------------- MODULE MCMigrationMonitor -------------------------
(* MigrationMonitor on one disk, with identities for two monitors.         *)
EXTENDS MigrationMonitor
=============================================================================
