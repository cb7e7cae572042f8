--------------------------- MODULE MCContactStore ---------------------------
(* Small instances of ContactStore for TLC.                                *)
EXTENDS ContactStore, TLC

CONSTANTS t1, t2, c1, f1, f2, f3

\* f1 is rotated to f2, and f2 to f3.
MCNoRotation == [f \in {} |-> f1]
MCTwoRotations == f1 :> f2 @@ f2 :> f3

\* The handler threads are alike.
MCSymmetry == Permutations({t1, t2})
=============================================================================
