---------------------------- MODULE TextNormalizer ----------------------------
(***************************************************************************)
(* NormalizeLines of the pipe service: lines that recur over the pages of  *)
(* a document are taken for headers and footers and removed; of the rest,  *)
(* control characters and superfluous spaces are.  Two lines that differ   *)
(* only in the spaces around them are one text here.                       *)
(***************************************************************************)
EXTENDS Segmenter, Selection, FiniteSetsExt

CONSTANTS HeaderSized,  \* texts of more than 5 and less than 120 bytes
          Garbage       \* texts of nothing but control characters

ASSUME NormalizerAssumption == /\ HeaderSized \subseteq Texts \ {Blank}
                               /\ Garbage \subseteq Texts \ {Blank}

TotalPages(ls) == Max({ls[i].page : i \in DOMAIN ls})

Occurrences(ls, t) == Cardinality({i \in DOMAIN ls : ls[i].text = t})

Threshold(ls) == IF TotalPages(ls) \div 2 < 2 THEN 2 ELSE TotalPages(ls) \div 2

\* Mutant: a line of a document of one page can be a header.
RecurringHeadersAnywhere(ls) == {t \in HeaderSized : Occurrences(ls, t) >= Threshold(ls)}

RecurringHeaders(ls) ==
  {t \in HeaderSized : TotalPages(ls) > 1 /\ Occurrences(ls, t) >= Threshold(ls)}

Clean(t) == IF t \in Garbage THEN Blank ELSE t

NormalizeLines(ls) ==
  LET kept == IF ls = << >> THEN << >>
              ELSE Select(ls, {i \in DOMAIN ls : ls[i].text \notin RecurringHeaders(ls)})
  IN [i \in DOMAIN kept |-> [text |-> Clean(kept[i].text), page |-> kept[i].page]]
=============================================================================
