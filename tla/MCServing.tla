----------------------------- MODULE MCServing -----------------------------
(* Small instance of Serving for TLC.                                      *)
EXTENDS Serving, TLC

CONSTANTS p, q    \* two peers

MCPeers == Permutations({p, q})
=============================================================================
