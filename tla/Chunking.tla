------------------------------ MODULE Chunking ------------------------------
(***************************************************************************)
(* How Server._send_file cuts a file into chunks and how                   *)
(* Client._recv_transfer puts them together again.                         *)
(***************************************************************************)
EXTENDS Integers, Sequences, SequencesExt

CONSTANT ChunkSize   \* CHUNK_SIZE, 524288 bytes

ASSUME ChunkSizeAssumption == ChunkSize \in Nat \ {0}

\* Mutant: the remainder is forgotten.
TotalChunksFloor(data) ==
  LET n == Len(data) \div ChunkSize
  IN  IF n = 0 THEN 1 ELSE n

\* max(1, ceil(len / CHUNK_SIZE)): an empty file is one empty chunk.
TotalChunks(data) ==
  LET n == (Len(data) + ChunkSize - 1) \div ChunkSize
  IN  IF n = 0 THEN 1 ELSE n

\* data[idx * CHUNK_SIZE : (idx + 1) * CHUNK_SIZE], clipped as a slice is.
Chunk(data, idx) ==
  LET end == (idx + 1) * ChunkSize
  IN  SubSeq(data, idx * ChunkSize + 1, IF end < Len(data) THEN end ELSE Len(data))

\* b"".join(chunks[i] for i in range(total)); chunks is keyed by index.
Join(chunks, total) == FlattenSeq([i \in 1..total |-> chunks[i - 1]])
============================================================================
