-------------------------- MODULE MCGhostingMonitor --------------------------
(* Instances of GhostingMonitor: the constants are given in the .cfg files.     *)
EXTENDS GhostingMonitor
=============================================================================
