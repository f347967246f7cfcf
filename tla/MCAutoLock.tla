----------------------------- MODULE MCAutoLock -----------------------------
(* Small instance of AutoLock for TLC.                                     *)
EXTENDS AutoLock, TLC

Symmetry == Permutations(Ports)
=============================================================================
