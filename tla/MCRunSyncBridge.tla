--------------------------- MODULE MCRunSyncBridge ---------------------------
(* RunSyncBridge for TLC.  Its liveness rules out a symmetry set: all        *)
(* constants are model values that Bridge.cfg gives.                         *)
EXTENDS RunSyncBridge
=============================================================================
