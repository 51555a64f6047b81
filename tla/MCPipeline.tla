----------------------------- MODULE MCPipeline -----------------------------
(* Model-checking instance of ChunkPipeline. *)
EXTENDS ChunkPipeline

CONSTANTS w1, w2, w3
=============================================================================
