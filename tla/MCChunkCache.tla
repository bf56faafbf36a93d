---------------------------- MODULE MCChunkCache ----------------------------
(* Instances of ChunkCache for TLC: chunks of two bytes in a file of eleven, *)
(* so that the last chunk is short and reads straddle chunks.                *)
EXTENDS ChunkCache, TLC

\* One chunk; parts of the next two; what the cut source no longer has; past
\* the declared end.
MCRequests == {[offset |-> 0, want |-> 2], [offset |-> 3, want |-> 3],
               [offset |-> 8, want |-> 4], [offset |-> 11, want |-> 1]}
=============================================================================
