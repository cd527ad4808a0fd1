------------------------------ MODULE Segmenter ------------------------------
(***************************************************************************)
(* SegmentDocument of the pipe service: the lines of a document become the *)
(* chunks that are embedded, by one of four strategies.  "paragraph" and   *)
(* "sentence" cut the text into units and fill a buffer of units up to the *)
(* token budget; "exact" and "character-based" slide a window over the     *)
(* tokens, or the runes, of the whole text.  The loops of the code are     *)
(* steps here.                                                             *)
(*                                                                         *)
(* A text is a constant with a number of tokens and the tokens of each of  *)
(* its sentences; blank text has none.  A piece <<l, s>> of the document   *)
(* is the s-th sentence of its l-th line.  The tokens of lines put         *)
(* together are the sum of theirs, and a token is four runes long, which   *)
(* is what the code takes it for.  Decoding what the tokenizer encoded     *)
(* does not fail.  Offsets, versions, ids and times are left out.          *)
(***************************************************************************)
EXTENDS Integers, Sequences

CONSTANTS Texts, Blank,  \* texts of lines; the one with nothing but spaces
          Tokens,        \* tokens of each text
          Sentences,     \* tokens of each sentence of a text
          Budget,        \* targetTokenBudget: 450
          Overlap        \* overlapTokens: 80

ASSUME TextAssumption ==
  /\ Blank \in Texts
  /\ Tokens \in [Texts -> Nat]
  /\ Sentences \in [Texts -> Seq(Nat)]
  /\ \A t \in Texts : (Tokens[t] = 0 <=> t = Blank) /\ (Sentences[t] = << >> <=> t = Blank)

\* With a budget of one and an overlap the window would not move.
ASSUME BudgetAssumption == Budget \in Nat /\ Budget >= 2 /\ Overlap \in Nat

VARIABLES strategy, encoder,  \* CHUNK_STRATEGY; the tokenizer was loaded and encodes the text
          lines,              \* the normalised lines of the document
          stage,              \* the loop the segmenter is in
          at,                 \* its index
          current,            \* the paragraph being put together
          units,              \* textUnits
          total,              \* length of the text that is put together
          first,              \* the buffer is the units from first to the last one read
          bufferTokens,
          chunks

segVars == <<strategy, encoder, lines, stage, at, current, units, total, first,
             bufferTokens, chunks>>

Strategies == {"exact", "paragraph", "sentence", "character-based"}

NoUnit == [pieces |-> {}, tokens |-> 0, startPage |-> 0, endPage |-> 0]

SegInit ==
  /\ strategy \in Strategies
  /\ encoder \in BOOLEAN
  /\ lines = << >>
  /\ stage = "idle"
  /\ at = 1
  /\ current = NoUnit
  /\ units = << >>
  /\ total = 0
  /\ first = 1
  /\ bufferTokens = 0
  /\ chunks = << >>

\* Mutant: the loop is named as the strategy is configured.
FirstStageRaw == strategy

\* An unknown strategy is "paragraph" to the constructor.
FirstStage ==
  CASE strategy = "sentence"                       -> "sentences"
    [] strategy \in {"exact", "character-based"}   -> "join"
    [] OTHER                                       -> "paragraphs"

SegmentDocument(ls) ==
  /\ stage = "idle"
  /\ lines' = ls
  /\ stage' = IF ls = << >> THEN "segmented" ELSE FirstStage
  /\ UNCHANGED <<strategy, encoder, at, current, units, total, first, bufferTokens, chunks>>

-----------------------------------------------------------------------------
(* A window that slides over the whole text. *)

Window     == IF strategy = "exact" THEN Budget ELSE 4 * Budget
WindowOver == IF strategy = "exact" THEN Overlap ELSE 4 * Overlap

\* A line that is not blank is followed by a line feed.
Size(t) == IF strategy = "exact" \/ t = Blank THEN Tokens[t] ELSE 4 * Tokens[t] + 1

\* Mutant: overlap is taken for a gap.
CalcStepGap(budget, overlap) == budget + overlap

CalcStep(budget, overlap) == IF budget - overlap <= 0 THEN budget \div 2 ELSE budget - overlap

JoinLine ==
  /\ stage = "join"
  /\ at <= Len(lines)
  /\ total' = total + Size(lines[at].text)
  /\ at' = at + 1
  /\ UNCHANGED <<strategy, encoder, lines, stage, current, units, first, bufferTokens, chunks>>

\* Without a tokenizer the tokens cannot be cut exactly: paragraphs are.
Joined ==
  /\ stage = "join"
  /\ at > Len(lines)
  /\ \/ /\ total = 0
        /\ stage' = "segmented"
        /\ at' = at
     \/ /\ total > 0
        /\ strategy = "exact" /\ ~encoder
        /\ stage' = "paragraphs"
        /\ at' = 1
     \/ /\ total > 0
        /\ ~(strategy = "exact" /\ ~encoder)
        /\ stage' = "window"
        /\ at' = 0
  /\ UNCHANGED <<strategy, encoder, lines, current, units, total, first, bufferTokens, chunks>>

\* at is the position before the window.
SlideWindow ==
  LET end == IF at + Window < total THEN at + Window ELSE total
  IN /\ stage = "window"
     /\ chunks' = Append(chunks, [from |-> at + 1, to |-> end,
                                  startPage |-> lines[1].page,
                                  endPage |-> lines[Len(lines)].page])
     /\ \/ end = total /\ stage' = "segmented" /\ at' = at
        \/ end < total /\ stage' = stage /\ at' = at + CalcStep(Window, WindowOver)
     /\ UNCHANGED <<strategy, encoder, lines, current, units, total, first, bufferTokens>>

-----------------------------------------------------------------------------
(* The units of the text. *)

\* Mutant: the last page of a paragraph stays that of its first line.
WithLinePageKept(u, l) ==
  [pieces    |-> u.pieces \cup ({l} \X DOMAIN Sentences[lines[l].text]),
   tokens    |-> u.tokens + Tokens[lines[l].text],
   startPage |-> IF u = NoUnit THEN lines[l].page ELSE u.startPage,
   endPage   |-> IF u = NoUnit THEN lines[l].page ELSE u.endPage]

Pieces(l) == {l} \X DOMAIN Sentences[lines[l].text]

WithLine(u, l) ==
  [pieces    |-> u.pieces \cup Pieces(l),
   tokens    |-> u.tokens + Tokens[lines[l].text],
   startPage |-> IF u = NoUnit THEN lines[l].page ELSE u.startPage,
   endPage   |-> lines[l].page]

Flushed == IF current = NoUnit THEN units ELSE Append(units, current)

\* Mutant: the paragraph that the text ends with is forgotten.
ParagraphsEndUnflushed ==
  /\ stage = "paragraphs"
  /\ at > Len(lines)
  /\ stage' = IF units = << >> THEN "segmented" ELSE "units"
  /\ at' = 1
  /\ current' = NoUnit
  /\ UNCHANGED <<strategy, encoder, lines, units, total, first, bufferTokens, chunks>>

ParagraphLine ==
  LET t == lines[at].text
  IN /\ stage = "paragraphs"
     /\ at <= Len(lines)
     /\ \/ t = Blank /\ units' = Flushed /\ current' = NoUnit
        \/ t # Blank /\ current' = WithLine(current, at) /\ units' = units
     /\ at' = at + 1
     /\ UNCHANGED <<strategy, encoder, lines, stage, total, first, bufferTokens, chunks>>

ParagraphsEnd ==
  /\ stage = "paragraphs"
  /\ at > Len(lines)
  /\ units' = Flushed
  /\ stage' = IF Flushed = << >> THEN "segmented" ELSE "units"
  /\ at' = 1
  /\ current' = NoUnit
  /\ UNCHANGED <<strategy, encoder, lines, total, first, bufferTokens, chunks>>

SentenceUnits(l) ==
  LET sentences == Sentences[lines[l].text]
  IN [s \in DOMAIN sentences |-> [pieces |-> {<<l, s>>}, tokens |-> sentences[s],
                                  startPage |-> lines[l].page, endPage |-> lines[l].page]]

SentenceLine ==
  /\ stage = "sentences"
  /\ at <= Len(lines)
  /\ units' = units \o SentenceUnits(at)
  /\ at' = at + 1
  /\ UNCHANGED <<strategy, encoder, lines, stage, current, total, first, bufferTokens, chunks>>

SentencesEnd ==
  /\ stage = "sentences"
  /\ at > Len(lines)
  /\ stage' = IF units = << >> THEN "segmented" ELSE "units"
  /\ at' = 1
  /\ UNCHANGED <<strategy, encoder, lines, current, units, total, first, bufferTokens, chunks>>

-----------------------------------------------------------------------------
(* The buffer of units. *)

\* Tokens of the first k units.
TokensUpTo[k \in 0 .. Len(units)] == IF k = 0 THEN 0 ELSE TokensUpTo[k - 1] + units[k].tokens

TokensOf(j, k) == TokensUpTo[k] - TokensUpTo[j - 1]

\* calcOverlapBuffer goes back over the buffer while the units fit.
OverlapFrom(j) ==
  /\ TokensOf(j, at) <= Overlap
  /\ j > first => TokensOf(j - 1, at) > Overlap

Full(tokens) == tokens >= Budget \/ at = Len(units)

ReadUnit ==
  LET tokens == bufferTokens + units[at].tokens
  IN /\ stage = "units"
     /\ at <= Len(units)
     /\ \/ /\ ~Full(tokens)
           /\ bufferTokens' = tokens
           /\ UNCHANGED <<first, chunks>>
        \/ /\ Full(tokens)
           /\ chunks' = Append(chunks, [from |-> first, to |-> at,
                                        startPage |-> units[first].startPage,
                                        endPage |-> units[at].endPage])
           /\ \E j \in first .. at + 1 : /\ OverlapFrom(j)
                                         /\ first' = j
                                         /\ bufferTokens' = TokensOf(j, at)
     /\ at' = at + 1
     /\ UNCHANGED <<strategy, encoder, lines, stage, current, units, total>>

UnitsEnd ==
  /\ stage = "units"
  /\ at > Len(units)
  /\ stage' = "segmented"
  /\ UNCHANGED <<strategy, encoder, lines, at, current, units, total, first, bufferTokens,
                 chunks>>

SegStep ==
  \/ JoinLine \/ Joined \/ SlideWindow
  \/ ParagraphLine \/ ParagraphsEnd \/ SentenceLine \/ SentencesEnd
  \/ ReadUnit \/ UnitsEnd

-----------------------------------------------------------------------------
Line == [text : Texts, page : Nat]

\* Pages never go back.
Documents == {ls \in Seq(Line) : \A i, j \in DOMAIN ls : i <= j => ls[i].page <= ls[j].page}

SegNext == SegStep \/ \E ls \in Documents : SegmentDocument(ls)

SegSpec == SegInit /\ [][SegNext]_segVars

Unit == [pieces : SUBSET (Nat \X Nat), tokens : Nat, startPage : Nat, endPage : Nat]

Chunk == [from : Nat, to : Nat, startPage : Nat, endPage : Nat]

\* Types of the segmenter's state.
SegTypeOK ==
  /\ strategy \in Strategies
  /\ encoder \in BOOLEAN
  /\ lines \in Seq(Line)
  /\ stage \in {"idle", "join", "window", "paragraphs", "sentences", "units", "segmented"}
  /\ at \in Nat
  /\ current \in Unit
  /\ units \in Seq(Unit)
  /\ total \in Nat
  /\ first \in Nat \ {0}
  /\ bufferTokens \in Nat
  /\ chunks \in Seq(Chunk)

Windowed == strategy = "character-based" \/ (strategy = "exact" /\ encoder)

InChunk(k) == \E n \in DOMAIN chunks : k \in chunks[n].from .. chunks[n].to

\* Whatever the strategy, the budget and the overlap: when the document is
\* segmented every sentence of every line is in a unit and every unit in a chunk,
\* or every position of the text in some window.  No text is lost between chunks,
\* in front of the first or behind the last.
NothingLost ==
  stage = "segmented" =>
    IF Windowed
      THEN \A k \in 1 .. total : InChunk(k)
      ELSE \A l \in DOMAIN lines : \A p \in Pieces(l) :
             \E k \in DOMAIN units : p \in units[k].pieces /\ InChunk(k)

\* Chunks go forward: each ends behind the one before, and begins no earlier.
ChunksAdvance ==
  \A n \in 2 .. Len(chunks) : /\ chunks[n].to > chunks[n - 1].to
                              /\ chunks[n].from >= chunks[n - 1].from
                              /\ chunks[n].from <= chunks[n - 1].to + 1

Larger(a, b) == IF a > b THEN a ELSE b

\* A window keeps to its size and shares with the one before no more than the
\* overlap, or half a window where the overlap leaves no room for a step.  A chunk of
\* units is over the budget by less than its last unit, shares no more than the
\* overlap with the one before, and names every page that its text comes from.
ChunksFit ==
  IF Windowed
    THEN \A n \in DOMAIN chunks :
           /\ chunks[n].to - chunks[n].from < Window
           /\ n > 1 => chunks[n - 1].to - chunks[n].from + 1
                         <= Larger(WindowOver, Window - Window \div 2)
    ELSE \A n \in DOMAIN chunks :
           /\ TokensOf(chunks[n].from, chunks[n].to - 1) < Larger(Budget, Overlap + 1)
           /\ n > 1 => TokensOf(chunks[n].from, chunks[n - 1].to) <= Overlap
           /\ \A k \in chunks[n].from .. chunks[n].to : \A p \in units[k].pieces :
                /\ chunks[n].startPage <= lines[p[1]].page
                /\ lines[p[1]].page <= chunks[n].endPage
=============================================================================
