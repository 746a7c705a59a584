------------------------- MODULE MCDistributedLock -------------------------
(* The lock instance for TLC: three instances, one of them blocking.      *)
EXTENDS DistributedLock
CONSTANTS c1, c2, c3
=============================================================================
