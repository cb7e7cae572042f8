--------------------------- MODULE MCFileSession ---------------------------
(* Small instances of FileSession for TLC.                                 *)
EXTENDS FileSession, TLC

CONSTANTS a           \* the requesting peer
CONSTANTS s1, s2      \* two connections

\* Two chunks of 2 and 1 bytes, an edited version of the same length, and one
\* that fits in a single chunk.
Original == <<1, 2, 3>>
Edited == <<1, 9, 3>>
Truncated == <<1>>

MCOneClient == [s \in {s1} |-> a]
MCSameClient == [s \in {s1, s2} |-> a]

MCContents == {Original, Edited, Truncated}
MCOneFile == [f \in {1} |-> Original]
MCEdits == [f \in {1} |-> {Original, Edited, Truncated, None}]
MCOldOwner == [f \in {1} |-> 1]

\* The same with an empty file and one of a single full chunk beside it.
MCLengths == 1 :> Original @@ 2 :> <<>> @@ 3 :> <<7, 8>>
MCLengthContents == MCContents \union {<<>>, <<7, 8>>}
MCLengthEdits == 1 :> {Edited, None} @@ 2 :> {} @@ 3 :> {}
MCOldOwners == [f \in 1..3 |-> 1]

MCSameSessions == Permutations({s1, s2})
=============================================================================
