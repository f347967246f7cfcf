---------------------------- MODULE MCPopupCalls ----------------------------
(* Small instance of PopupCalls for TLC.                                   *)
EXTENDS PopupCalls
=============================================================================
