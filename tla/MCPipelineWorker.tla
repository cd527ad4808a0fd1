--------------------------- MODULE MCPipelineWorker --------------------------
(***************************************************************************)
(* Small instances of the pipeline worker for TLC.                         *)
(***************************************************************************)
EXTENDS PipelineWorker, TLC

CONSTANTS h1, h2, h3, part, blank, p1, p2, w1, w2, d1, d2

TwoPods == (w1 :> p1) @@ (w2 :> p2)
OnePod == (w1 :> p1) @@ (w2 :> p1)
SingleWorker == (w1 :> p1)

IDs == 1 .. MaxVectors

\* A document of two chunks; two documents that share one, the second with a
\* blank one; a document of which two chunks are not worth storing.
TwoChunks == d1 :> <<h1, h2>>
Overlapping == (d1 :> <<h1, h2>>) @@ (d2 :> <<h2, blank>>)
PoorAndBlank == d1 :> <<h1, h3, h2, blank>>

\* Beginnings of them: nothing, chunks as they are, or a last one that is cut and
\* is another content then.
CutTwoChunks == d1 :> {<< >>, <<h1>>, <<h1, h2>>}
CutOverlapping == (d1 :> {<< >>, <<h1>>}) @@ (d2 :> {<<h2>>, <<h2, blank>>})
CutPoorAndBlank == d1 :> {<< >>, <<part>>, <<h1, part>>, <<h1, h3, h2>>}
=============================================================================
