---------------------------- MODULE MCStoreBridge ----------------------------
(* Small instance of StoreBridge for TLC.                                  *)
EXTENDS StoreBridge

=============================================================================
