---------------------------- MODULE MCChunkStage ------------------------------
(***************************************************************************)
(* Small instances of enrichment and embedding for TLC.                    *)
(***************************************************************************)
EXTENDS ChunkStage, TLC

CONSTANTS c1, c2, h1, h2, h3, poor

AllChunks == {h1, h2, h3, poor}

\* Three sub-batches; a document with a near duplicate of one of its chunks.
Batches == (c1 :> <<h1, poor, h2>>) @@ (c2 :> <<h3>>)

\* h3 is like h1 by the first band and like h2 by the second.
Signatures == (h1 :> <<1, 1>>) @@ (h2 :> <<2, 2>>) @@ (h3 :> <<1, 2>>) @@ (poor :> <<3, 3>>)
=============================================================================
