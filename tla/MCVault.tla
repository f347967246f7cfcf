------------------------------- MODULE MCVault -------------------------------
(* Small instance of Vault for TLC.                                        *)
EXTENDS Vault, TLC

Symmetry == Permutations(Wallets) \cup Permutations(Seeds)
=============================================================================
