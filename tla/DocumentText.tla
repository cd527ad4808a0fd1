----------------------------- MODULE DocumentText -----------------------------
(***************************************************************************)
(* From a stored file to its chunks: the first half of ProcessDocument.    *)
(* The extracting goroutine and the worker run side by side; the worker    *)
(* then normalises the lines and segments them.                            *)
(***************************************************************************)
EXTENDS TextExtractor

vars == <<segVars, extVars>>

Init == SegInit /\ ExtInit

Normalize ==
  /\ reader = "read"
  /\ reader' = "normalized"
  /\ SegmentDocument(NormalizeLines(extractedLines))
  /\ UNCHANGED <<output, scanned, currentPage, unsent, extractor, error, lineChan, closed,
                 extractErr, extractedLines>>

\* Steps of the worker's goroutine, in the order of the code.
WorkerStep ==
  \/ (Receive \/ ReadError) /\ UNCHANGED segVars
  \/ Normalize
  \/ SegStep /\ UNCHANGED extVars

Next == WorkerStep \/ (ExtractorStep /\ UNCHANGED segVars)

\* Both goroutines run, and pdftotext writes its output and exits.
Spec == Init /\ [][Next]_vars /\ WF_vars(WorkerStep)
             /\ WF_vars(ExtractorStep /\ UNCHANGED segVars)

-----------------------------------------------------------------------------
Ended == reader \in {"failed", "done"} \/ stage = "segmented"

\* Types of the whole; the channel keeps to its capacity.
TypeOK == SegTypeOK /\ ExtTypeOK

\* Neither goroutine is left waiting for the other, and every loop of the
\* segmenter ends, whatever the text and the strategy.
TextEnds == <>(Ended /\ extractor = "ended")

\* A text is removed as a header only where it occurs at least twice, in a document
\* of more than one page; what is not removed and not garbage is among the lines
\* that are segmented, as often as it was extracted.
HeadersRecur ==
  reader = "normalized" => \A t \in Texts \ (Garbage \cup {Blank}) :
    LET before == Occurrences(extractedLines, t)
    IN \/ Occurrences(lines, t) = before
       \/ /\ Occurrences(lines, t) = 0
          /\ before >= 2
          /\ \E i \in DOMAIN extractedLines : extractedLines[i].page > 1
=============================================================================
