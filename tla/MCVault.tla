------------------------------ MODULE MCVault ------------------------------
(* Small instances of Vault for TLC.                                       *)
EXTENDS Vault, TLC

CONSTANTS p, q     \* two processes
CONSTANTS w, v     \* two passwords

MCProcesses == Permutations({p, q})
=============================================================================
