--------------------------- MODULE MCKeyRotation ---------------------------
(* Small instances of KeyRotation for TLC.                                 *)
EXTENDS KeyRotation, TLC

CONSTANTS p, q

\* p rotates its key, q does not; or both do.
MCOneRotation == p :> 2 @@ q :> 1
MCBothRotate == p :> 2 @@ q :> 2

MCOne == p :> 1 @@ q :> 1
MCTwo == p :> 2 @@ q :> 2
MCOneTwo == p :> 1 @@ q :> 2
=============================================================================
