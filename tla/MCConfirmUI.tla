---------------------------- MODULE MCConfirmUI ----------------------------
(* Small instance of ConfirmUI for TLC.                                    *)
EXTENDS ConfirmUI, TLC

Symmetry == Permutations(Requests) \cup Permutations(Ports)
=============================================================================
