---------------------------- MODULE MCOffscreen ----------------------------
(* Small instances of Offscreen for TLC.                                   *)
EXTENDS Offscreen
=============================================================================
