--------------------------- MODULE MCChunkStream ---------------------------
(* Chunks and buffers for TLC. *)
EXTENDS ChunkStreamProperties
=============================================================================
