---------------------------- MODULE TextExtractor ----------------------------
(***************************************************************************)
(* ExtractFromReader of the pipe service, the goroutine that reads what    *)
(* pdftotext writes and sends it line by line to the worker, and the       *)
(* worker's loop over the channel.  pdftotext ends a page with a form      *)
(* feed, in front of the first line of the next: a line of its output is   *)
(* the sequence of the texts between form feeds.                           *)
(***************************************************************************)
EXTENDS TextNormalizer, SequencesExt

CONSTANTS Outputs,  \* what pdftotext may write
          ChanCap   \* room in lineChan: 500

ASSUME ExtractorAssumption == /\ \A o \in Outputs : o \in Seq(Seq(Texts) \ {<< >>})
                              /\ ChanCap \in Nat \ {0}

VARIABLES output, scanned,  \* of pdftotext; lines of it that the scanner returned
          currentPage,
          unsent,           \* lines of the last scan that are not yet in the channel
          extractor, error, \* where the goroutine stands; what it is to return
          lineChan, closed, \* the channel
          extractErr,       \* the variable it shares with the worker
          extractedLines,
          reader            \* where the worker stands

extVars == <<output, scanned, currentPage, unsent, extractor, error, lineChan, closed,
             extractErr, extractedLines, reader>>

ExtInit ==
  /\ output \in Outputs
  /\ scanned = 0
  /\ currentPage = 1
  /\ unsent = << >>
  /\ extractor = "scanning"
  /\ error = FALSE
  /\ lineChan = << >>
  /\ closed = FALSE
  /\ extractErr = FALSE
  /\ extractedLines = << >>
  /\ reader = "receiving"

\* Blank text is dropped next to a form feed, and only there.
Split(parts, page) ==
  LET all == [i \in DOMAIN parts |-> [text |-> parts[i], page |-> page + i - 1]]
  IN IF Len(parts) = 1 THEN all ELSE Select(all, {i \in DOMAIN parts : parts[i] # Blank})

Scan ==
  /\ extractor = "scanning"
  /\ unsent = << >>
  /\ scanned < Len(output)
  /\ scanned' = scanned + 1
  /\ unsent' = Split(output[scanned + 1], currentPage)
  /\ currentPage' = currentPage + Len(output[scanned + 1]) - 1
  /\ UNCHANGED <<output, extractor, error, lineChan, closed, extractErr, extractedLines, reader>>

SendLine ==
  /\ unsent # << >>
  /\ Len(lineChan) < ChanCap
  /\ lineChan' = Append(lineChan, Head(unsent))
  /\ unsent' = Tail(unsent)
  /\ UNCHANGED <<output, scanned, currentPage, extractor, error, closed, extractErr,
                 extractedLines, reader>>

\* The output is at its end and pdftotext exits with 0; or it could not be
\* started, the scanner fails or pdftotext fails, wherever it is.
ScanEnds ==
  /\ extractor = "scanning"
  /\ unsent = << >>
  /\ \/ scanned = Len(output) /\ UNCHANGED error
     \/ error' = TRUE
  /\ extractor' = "returning"
  /\ UNCHANGED <<output, scanned, currentPage, unsent, lineChan, closed, extractErr,
                 extractedLines, reader>>

\* Mutant: the channel is closed where the function returns nil, and only there.
CloseOnSuccess ==
  /\ extractor = "returning"
  /\ closed' = ~error
  /\ extractor' = "returned"
  /\ UNCHANGED <<output, scanned, currentPage, unsent, error, lineChan, extractErr,
                 extractedLines, reader>>

\* The deferred close runs before the caller has the error.
CloseChan ==
  /\ extractor = "returning"
  /\ closed' = TRUE
  /\ extractor' = "returned"
  /\ UNCHANGED <<output, scanned, currentPage, unsent, error, lineChan, extractErr,
                 extractedLines, reader>>

AssignError ==
  /\ extractor = "returned"
  /\ extractErr' = error
  /\ extractor' = "ended"
  /\ UNCHANGED <<output, scanned, currentPage, unsent, error, lineChan, closed,
                 extractedLines, reader>>

ExtractorStep == Scan \/ SendLine \/ ScanEnds \/ CloseChan \/ AssignError

Receive ==
  /\ reader = "receiving"
  /\ lineChan # << >>
  /\ extractedLines' = Append(extractedLines, Head(lineChan))
  /\ lineChan' = Tail(lineChan)
  /\ UNCHANGED <<output, scanned, currentPage, unsent, extractor, error, closed, extractErr,
                 reader>>

\* Mutant: the worker leaves when the channel is closed, whatever is still in it.
ReadErrorAtClose ==
  /\ reader = "receiving"
  /\ closed
  /\ reader' = CASE extractErr                -> "failed"
                 [] extractedLines = << >>    -> "done"
                 [] OTHER                     -> "read"
  /\ UNCHANGED <<output, scanned, currentPage, unsent, extractor, error, lineChan, closed,
                 extractErr, extractedLines>>

\* The worker reads extractErr as soon as the channel is closed and empty.
ReadError ==
  /\ reader = "receiving"
  /\ lineChan = << >>
  /\ closed
  /\ reader' = CASE extractErr                -> "failed"
                 [] extractedLines = << >>    -> "done"
                 [] OTHER                     -> "read"
  /\ UNCHANGED <<output, scanned, currentPage, unsent, extractor, error, lineChan, closed,
                 extractErr, extractedLines>>

-----------------------------------------------------------------------------
\* Types of the extractor's state; the channel keeps to its capacity.
ExtTypeOK ==
  /\ output \in Outputs
  /\ scanned \in 0 .. Len(output)
  /\ currentPage \in Nat
  /\ unsent \in Seq(Line) /\ extractedLines \in Seq(Line)
  /\ lineChan \in Seq(Line) /\ Len(lineChan) <= ChanCap
  /\ extractor \in {"scanning", "returning", "returned", "ended"}
  /\ reader \in {"receiving", "read", "failed", "done", "normalized"}
  /\ {error, closed, extractErr} \subseteq BOOLEAN

\* Form feeds in the first k lines of an output.
FormFeeds(o) ==
  LET feeds[k \in 0 .. Len(o)] == IF k = 0 THEN 0 ELSE feeds[k - 1] + Len(o[k]) - 1 IN feeds

\* The lines of a whole output: a text is on the page after as many form feeds as
\* come before it, and blank text next to one is no line.
Visible(o, k) ==
  LET placed == [j \in DOMAIN o[k] |-> [text |-> o[k][j], page |-> FormFeeds(o)[k - 1] + j]]
  IN Select(placed, {j \in DOMAIN o[k] : Len(o[k]) = 1 \/ o[k][j] # Blank})

LinesUpTo(o) ==
  LET upTo[k \in 0 .. Len(o)] == IF k = 0 THEN << >> ELSE upTo[k - 1] \o Visible(o, k) IN upTo

LinesOf(o) == LinesUpTo(o)[Len(o)]

\* Through scanner, channel and worker no line is lost, doubled, reordered or put
\* on another page, however the two goroutines run and however full the channel; and
\* the worker goes on with less than the whole document only when the extraction
\* failed: the end of the channel is never taken for the end of the text otherwise.
LinesInOrder ==
  /\ IsPrefix(extractedLines \o lineChan \o unsent, LinesOf(output))
  /\ reader \in {"read", "done", "normalized"} /\ extractedLines # LinesOf(output) => error
=============================================================================
