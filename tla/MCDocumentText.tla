---------------------------- MODULE MCDocumentText ----------------------------
(***************************************************************************)
(* Small instances of the path from file to chunks for TLC.                *)
(***************************************************************************)
EXTENDS DocumentText, TLC

CONSTANTS body, header, blank, junk

AllTexts == {body, header, blank, junk}

TokensOfText == (body :> 5) @@ (header :> 2) @@ (blank :> 0) @@ (junk :> 1)

SentencesOfText == (body :> <<2, 3>>) @@ (header :> <<2>>) @@ (blank :> << >>) @@ (junk :> <<1>>)

\* A line, an empty line, one that begins a page, one that ends two.
OutputLines == {<<body>>, <<header>>, <<blank>>, <<junk>>, <<blank, header>>, <<body, blank, body>>}

\* Bound: the lines of the output.
CONSTANT MaxLines

AllOutputs == UNION {[1 .. n -> OutputLines] : n \in 0 .. MaxLines}
=============================================================================
