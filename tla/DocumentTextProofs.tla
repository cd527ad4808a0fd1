------------------------- MODULE DocumentTextProofs ---------------------------
(***************************************************************************)
(* Proofs about the way of a document from pdftotext to its chunks, for    *)
(* any output, texts, budget, overlap and room in the channel.  First the  *)
(* segmenter by itself, over documents of any length: no text is lost,     *)
(* chunks go forward and keep to their size.  Then the extractor: the      *)
(* lines that arrive are those of the output, in their order.  Last the    *)
(* two together: every behaviour of the whole is one of the segmenter, on  *)
(* the document that was extracted.                                        *)
(***************************************************************************)
EXTENDS DocumentText, SelectionProofs, SequenceTheorems, TLAPS

\* SegTypeOK but for the sums of tokens.
SegShapes ==
  /\ strategy \in Strategies
  /\ lines \in Seq(Line)
  /\ stage \in {"idle", "join", "window", "paragraphs", "sentences", "units", "segmented"}
  /\ at \in Nat
  /\ current \in Unit
  /\ units \in Seq(Unit)
  /\ total \in Nat
  /\ first \in Nat \ {0}
  /\ chunks \in Seq(Chunk)

InUnits(l) == \A p \in Pieces(l) : \E k \in DOMAIN units : p \in units[k].pieces

Kept(l) ==
  \A p \in Pieces(l) : \/ p \in current.pieces
                       \/ \E k \in DOMAIN units : p \in units[k].pieces

Covered(n) == \A k \in 1 .. n : InChunk(k)

\* The chunk that comes next may begin anywhere up to n, and ends at n or later.
Advances(n, end) ==
  chunks # << >> => /\ chunks[Len(chunks)].to < end
                    /\ chunks[Len(chunks)].from <= n
                    /\ n <= chunks[Len(chunks)].to + 1

JoinInv ==
  stage = "join" =>
    /\ strategy \in {"exact", "character-based"}
    /\ lines # << >>
    /\ at \in 1 .. Len(lines) + 1
    /\ total = 0 => \A l \in 1 .. at - 1 : lines[l].text = Blank

WindowEnd == IF at + Window < total THEN at + Window ELSE total

WindowInv ==
  stage = "window" =>
    /\ Windowed
    /\ lines # << >>
    /\ at < total
    /\ Covered(at)
    /\ Advances(at + 1, WindowEnd)

ReadingInv ==
  stage \in {"paragraphs", "sentences"} =>
    /\ ~Windowed
    /\ at \in 1 .. Len(lines) + 1
    /\ \A l \in 1 .. at - 1 : Kept(l)
    /\ stage = "sentences" => current = NoUnit

UnitsInv ==
  stage = "units" =>
    /\ ~Windowed
    /\ at \in 1 .. Len(units) + 1
    /\ first <= at
    /\ \A l \in DOMAIN lines : InUnits(l)
    /\ Covered(first - 1)
    /\ at > Len(units) => Covered(Len(units))
    /\ Advances(first, at)

\* Until a loop fills them there are neither chunks nor units.
EmptyInv ==
  /\ stage \notin {"window", "units", "segmented"} => chunks = << >> /\ first = 1
  /\ stage \in {"idle", "join"} => current = NoUnit /\ units = << >>
  /\ stage = "idle" => at = 1 /\ total = 0

SegInv ==
  /\ SegShapes /\ EmptyInv /\ JoinInv /\ WindowInv /\ ReadingInv /\ UnitsInv
  /\ NothingLost /\ ChunksAdvance

-----------------------------------------------------------------------------
(* Lemmas about the definitions. *)

\* A window moves on, and not further than its end.
LEMMA StepBounds ==
  /\ Window \in Nat \ {0}
  /\ CalcStep(Window, WindowOver) \in 1 .. Window
<1>1. Budget \in Nat /\ Budget >= 2 /\ Overlap \in Nat  BY BudgetAssumption
<1>2. Window \in Nat /\ Window >= 2 /\ WindowOver \in Nat
  BY <1>1 DEF Window, WindowOver
<1>3. ASSUME NEW w \in Nat, w >= 2, NEW o \in Nat
      PROVE  CalcStep(w, o) \in 1 .. w
  <2>1. w \div 2 \in 1 .. w  BY <1>3, SMT
  <2> QED  BY <1>3, <2>1, SMT DEF CalcStep
<1> QED  BY <1>2, <1>3

\* Only blank lines have no tokens, and they have no sentences.
LEMMA BlankPieces ==
  ASSUME SegShapes, NEW l \in DOMAIN lines
  PROVE  /\ lines[l].text \in Texts /\ lines[l].page \in Nat
         /\ Pieces(l) \subseteq Nat \X Nat
         /\ lines[l].text = Blank => Pieces(l) = {}
<1>1. l \in Nat /\ lines[l] \in Line  BY DEF SegShapes
<1>2. lines[l].text \in Texts /\ lines[l].page \in Nat  BY <1>1 DEF Line
<1>3. Sentences[lines[l].text] \in Seq(Nat)  BY <1>2, TextAssumption
<1>4. DOMAIN Sentences[lines[l].text] \subseteq Nat  BY <1>3
<1>5. lines[l].text = Blank => DOMAIN Sentences[lines[l].text] = {}
  BY <1>2, TextAssumption
<1> QED  BY <1>1, <1>2, <1>4, <1>5 DEF Pieces

\* A chunk more covers what is covered, and itself, and comes behind the others.
LEMMA OneChunkMore ==
  ASSUME SegShapes, ChunksAdvance,
         NEW from \in Nat, NEW to \in Nat, NEW c \in Chunk,
         c.from = from, c.to = to,
         chunks' = Append(chunks, c), Advances(from, to)
  PROVE  /\ chunks' \in Seq(Chunk)
         /\ chunks' # << >> /\ chunks'[Len(chunks')] = c
         /\ ChunksAdvance'
         /\ \A k : InChunk(k) \/ k \in from .. to => InChunk(k)'
<1>1. chunks \in Seq(Chunk)  BY DEF SegShapes
<1>2. /\ chunks' \in Seq(Chunk) /\ Len(chunks') = Len(chunks) + 1
      /\ \A n \in 1 .. Len(chunks) : chunks'[n] = chunks[n]
      /\ chunks'[Len(chunks) + 1] = c
  BY <1>1, AppendProperties
<1>3. Len(chunks) \in Nat /\ DOMAIN chunks = 1 .. Len(chunks)
      /\ DOMAIN chunks' = 1 .. Len(chunks) + 1
  BY <1>1, <1>2
<1>4. chunks' # << >> /\ chunks'[Len(chunks')] = c  BY <1>2, <1>3
<1>5. ASSUME NEW n \in 2 .. Len(chunks')
      PROVE  /\ chunks'[n].to > chunks'[n - 1].to
             /\ chunks'[n].from >= chunks'[n - 1].from
             /\ chunks'[n].from <= chunks'[n - 1].to + 1
  <2>1. CASE n \in 2 .. Len(chunks)
    <3>1. n \in 1 .. Len(chunks) /\ n - 1 \in 1 .. Len(chunks)  BY <1>3, <2>1
    <3> QED  BY <1>2, <2>1, <3>1 DEF ChunksAdvance
  <2>2. CASE n = Len(chunks) + 1
    <3>1. chunks # << >> /\ n - 1 = Len(chunks) /\ n - 1 \in 1 .. Len(chunks)
      BY <1>1, <1>2, <1>3, <1>5, <2>2
    <3>2. chunks'[n] = c /\ chunks'[n - 1] = chunks[Len(chunks)]  BY <1>2, <2>2, <3>1
    <3>3. chunks[Len(chunks)] \in Chunk  BY <1>1, <3>1
    <3>4. chunks[Len(chunks)].to \in Nat /\ chunks[Len(chunks)].from \in Nat
      BY <3>3 DEF Chunk
    <3> QED  BY <3>1, <3>2, <3>4 DEF Advances
  <2> QED  BY <1>2, <1>3, <1>5, <2>1, <2>2
<1>6. ChunksAdvance'  BY <1>5 DEF ChunksAdvance
<1>7. ASSUME NEW k, InChunk(k) \/ k \in from .. to
      PROVE  InChunk(k)'
  <2>1. CASE InChunk(k)
    <3>1. PICK n \in DOMAIN chunks : k \in chunks[n].from .. chunks[n].to
      BY <2>1 DEF InChunk
    <3>2. n \in DOMAIN chunks' /\ chunks'[n] = chunks[n]  BY <1>2, <1>3, <3>1
    <3> QED  BY <3>1, <3>2 DEF InChunk
  <2>2. CASE k \in from .. to
    <3>1. Len(chunks) + 1 \in DOMAIN chunks'  BY <1>3
    <3> QED  BY <1>2, <2>2, <3>1 DEF InChunk
  <2> QED  BY <1>7, <2>1, <2>2
<1> QED  BY <1>2, <1>4, <1>6, <1>7

\* The end of the last chunk is a number.
LEMMA AdvancesFrom ==
  ASSUME SegShapes, NEW n \in Nat, NEW end \in Nat, Advances(n, end)
  PROVE  Advances(n, end + 1)
<1>1. chunks # << >> => chunks[Len(chunks)] \in Chunk  BY DEF SegShapes
<1>2. chunks # << >> => chunks[Len(chunks)].to \in Nat  BY <1>1 DEF Chunk
<1> QED  BY <1>2 DEF Advances

-----------------------------------------------------------------------------
(* One lemma per action. *)

LEMMA SegInvInit == SegInit => SegInv
<1> SUFFICES ASSUME SegInit PROVE SegInv
  OBVIOUS
<1>1. NoUnit \in Unit  BY DEF NoUnit, Unit
<1>2. SegShapes  BY <1>1 DEF SegInit, SegShapes
<1>3. NothingLost /\ ChunksAdvance  BY DEF SegInit, NothingLost, ChunksAdvance
<1> QED
  BY <1>2, <1>3 DEF SegInit, SegInv, EmptyInv, JoinInv, WindowInv, ReadingInv, UnitsInv

LEMMA SegmentDocumentInv ==
  ASSUME SegInv, NEW ls \in Documents, SegmentDocument(ls)
  PROVE  SegInv'
<1> USE DEF SegmentDocument
<1>1. /\ SegShapes /\ ls \in Seq(Line) /\ lines' = ls
      /\ chunks = << >> /\ first = 1 /\ at = 1 /\ total = 0
      /\ current = NoUnit /\ units = << >>
  BY DEF SegInv, EmptyInv, Documents
<1>2. /\ strategy \in {"exact", "character-based"} => FirstStage = "join"
      /\ strategy = "paragraph" => FirstStage = "paragraphs"
      /\ strategy = "sentence" => FirstStage = "sentences"
      /\ strategy \in Strategies
  BY <1>1 DEF FirstStage, SegShapes, Strategies
<1>3. /\ stage' \in {"segmented", "join", "paragraphs", "sentences"}
      /\ stage' = "segmented" <=> ls = << >>
      /\ stage' = "join" => strategy \in {"exact", "character-based"}
      /\ stage' \in {"paragraphs", "sentences"} => ~Windowed
  BY <1>2 DEF Strategies, Windowed
<1>4. SegShapes'  BY <1>1, <1>3 DEF SegShapes
<1>5. ChunksAdvance'  BY <1>1 DEF ChunksAdvance
<1>6. NothingLost'  BY <1>1, <1>3 DEF NothingLost, Windowed, InChunk
<1>7. JoinInv' /\ ReadingInv'
  BY <1>1, <1>3 DEF JoinInv, ReadingInv, Windowed
<1>8. EmptyInv' /\ WindowInv' /\ UnitsInv'
  BY <1>1, <1>3 DEF EmptyInv, WindowInv, UnitsInv
<1> QED  BY <1>4, <1>5, <1>6, <1>7, <1>8 DEF SegInv

LEMMA JoinLineInv == ASSUME SegInv, JoinLine PROVE SegInv'
<1> USE DEF JoinLine
<1>1. /\ SegShapes /\ stage = "join" /\ stage' = "join"
      /\ at \in Nat /\ at \in DOMAIN lines /\ total \in Nat /\ Len(lines) \in Nat
  BY DEF SegInv, SegShapes, JoinInv
<1>2. lines[at].text \in Texts  BY <1>1, BlankPieces
<1>3. /\ Size(lines[at].text) \in Nat
      /\ Size(lines[at].text) = 0 => lines[at].text = Blank
  <2> DEFINE t == lines[at].text
  <2>1. Tokens[t] \in Nat /\ (Tokens[t] = 0 => t = Blank)  BY <1>2, TextAssumption
  <2>2. Size(t) = Tokens[t] \/ Size(t) = 4 * Tokens[t] + 1  BY DEF Size
  <2> QED  BY <2>1, <2>2
<1>4. total' \in Nat /\ (total' = 0 => total = 0 /\ lines[at].text = Blank)
  BY <1>1, <1>3
<1>5. SegShapes'  BY <1>1, <1>4 DEF SegShapes
<1>6. JoinInv'  BY <1>1, <1>4 DEF SegInv, JoinInv
<1>7. NothingLost' /\ ChunksAdvance'
  BY <1>1 DEF SegInv, NothingLost, ChunksAdvance
<1>8. EmptyInv' /\ WindowInv' /\ ReadingInv' /\ UnitsInv'
  BY <1>1 DEF SegInv, EmptyInv, WindowInv, ReadingInv, UnitsInv
<1> QED  BY <1>5, <1>6, <1>7, <1>8 DEF SegInv

LEMMA JoinedInv == ASSUME SegInv, Joined PROVE SegInv'
<1> USE DEF Joined
<1>1. /\ SegShapes /\ EmptyInv /\ stage = "join" /\ chunks = << >> /\ first = 1
      /\ strategy \in {"exact", "character-based"} /\ lines # << >>
      /\ at = Len(lines) + 1 /\ Len(lines) \in Nat /\ DOMAIN lines = 1 .. Len(lines)
      /\ total = 0 => \A l \in DOMAIN lines : lines[l].text = Blank
      /\ ChunksAdvance
  BY DEF SegInv, EmptyInv, JoinInv, SegShapes
<1>2. CASE total = 0 /\ stage' = "segmented" /\ at' = at
  <2>1. \A l \in DOMAIN lines : Pieces(l) = {}  BY <1>1, <1>2, BlankPieces
  <2>2. NothingLost'
    BY <1>1, <1>2, <2>1 DEF NothingLost, Windowed, InChunk, Pieces
  <2>3. SegShapes' /\ ChunksAdvance'  BY <1>1, <1>2 DEF SegShapes, ChunksAdvance
  <2> QED
    BY <1>1, <1>2, <2>2, <2>3 DEF SegInv, EmptyInv, JoinInv, WindowInv, ReadingInv, UnitsInv
<1>3. CASE strategy = "exact" /\ ~encoder /\ stage' = "paragraphs" /\ at' = 1
  <2>1. SegShapes' /\ ChunksAdvance'  BY <1>1, <1>3 DEF SegShapes, ChunksAdvance
  <2>2. ReadingInv'  BY <1>1, <1>3 DEF ReadingInv, Windowed
  <2> QED
    BY <1>1, <1>3, <2>1, <2>2 DEF SegInv, EmptyInv, JoinInv, WindowInv, UnitsInv, NothingLost
<1>4. CASE /\ total > 0 /\ ~(strategy = "exact" /\ ~encoder)
           /\ stage' = "window" /\ at' = 0
  <2>1. SegShapes' /\ ChunksAdvance'  BY <1>1, <1>4 DEF SegShapes, ChunksAdvance
  <2>2. Windowed'  BY <1>1, <1>4 DEF Windowed
  <2>3. WindowInv'  BY <1>1, <1>4, <2>2 DEF WindowInv, Covered, Advances
  <2> QED
    BY <1>1, <1>4, <2>1, <2>3 DEF SegInv, EmptyInv, JoinInv, ReadingInv, UnitsInv, NothingLost
<1> QED  BY <1>2, <1>3, <1>4

LEMMA SlideWindowInv == ASSUME SegInv, SlideWindow PROVE SegInv'
<1> DEFINE end == WindowEnd
           c == [from |-> at + 1, to |-> end, startPage |-> lines[1].page,
                 endPage |-> lines[Len(lines)].page]
<1>1. /\ SegShapes /\ ChunksAdvance /\ stage = "window" /\ Windowed /\ lines # << >>
      /\ at \in Nat /\ total \in Nat /\ at < total
      /\ Covered(at) /\ Advances(at + 1, end)
  BY DEF SegInv, SegShapes, WindowInv, SlideWindow
<1>2. /\ chunks' = Append(chunks, c)
      /\ \/ end = total /\ stage' = "segmented" /\ at' = at
         \/ end < total /\ stage' = "window" /\ at' = at + CalcStep(Window, WindowOver)
      /\ UNCHANGED <<strategy, encoder, lines, current, units, total, first>>
  BY <1>1 DEF SlideWindow, WindowEnd
<1>3. Window \in Nat \ {0} /\ CalcStep(Window, WindowOver) \in 1 .. Window
  BY StepBounds
<1>4. end \in Nat /\ end > at /\ end <= total /\ (end < total => end = at + Window)
  BY <1>1, <1>3 DEF WindowEnd
<1>5. c \in Chunk
  <2>1. 1 \in DOMAIN lines /\ Len(lines) \in DOMAIN lines  BY <1>1 DEF SegShapes
  <2>2. lines[1].page \in Nat /\ lines[Len(lines)].page \in Nat
    BY <1>1, <2>1, BlankPieces
  <2> QED  BY <1>1, <1>4, <2>2 DEF Chunk
<1>6. c.from = at + 1 /\ c.to = end  OBVIOUS
<1> HIDE DEF c, end
<1>7. /\ chunks' \in Seq(Chunk) /\ chunks' # << >> /\ chunks'[Len(chunks')] = c
      /\ ChunksAdvance'
      /\ \A k : InChunk(k) \/ k \in at + 1 .. end => InChunk(k)'
  BY <1>1, <1>2, <1>4, <1>5, <1>6, OneChunkMore
<1>8. \A k \in 1 .. end : InChunk(k)'
  <2>1. \A k \in 1 .. end : k \in 1 .. at \/ k \in at + 1 .. end  BY <1>1, <1>4
  <2> QED  BY <1>1, <1>7, <2>1 DEF Covered
<1>9. Windowed'  BY <1>1, <1>2 DEF Windowed
<1>10. at' \in Nat  BY <1>1, <1>2, <1>3
<1>11. SegShapes'  BY <1>1, <1>2, <1>7, <1>10 DEF SegShapes
<1>12. CASE end = total /\ stage' = "segmented" /\ at' = at
  <2>1. NothingLost'  BY <1>2, <1>8, <1>9, <1>12 DEF NothingLost
  <2> QED
    BY <1>7, <1>11, <1>12, <2>1 DEF SegInv, EmptyInv, JoinInv, WindowInv, ReadingInv, UnitsInv
<1>13. CASE end < total /\ stage' = "window" /\ at' = at + CalcStep(Window, WindowOver)
  <2>1. at' < total' /\ at' <= end /\ at' > at /\ total' = total
    BY <1>1, <1>2, <1>3, <1>4, <1>13
  <2>2. Window' = Window  BY <1>2 DEF Window
  <2>3. WindowEnd' \in Nat /\ WindowEnd' > end
    BY <1>1, <1>3, <1>4, <1>10, <1>13, <2>1, <2>2 DEF WindowEnd
  <2>4. \A k \in 1 .. at' : InChunk(k)'  BY <1>4, <1>8, <1>10, <2>1
  <2>5. /\ chunks'[Len(chunks')].to < WindowEnd'
        /\ chunks'[Len(chunks')].from <= at' + 1
        /\ at' + 1 <= chunks'[Len(chunks')].to + 1
    BY <1>1, <1>4, <1>6, <1>7, <1>10, <2>1, <2>3
  <2>6. WindowInv'
    BY <1>1, <1>2, <1>9, <2>1, <2>4, <2>5 DEF WindowInv, Covered, Advances
  <2> QED
    BY <1>7, <1>11, <1>13, <2>6 DEF SegInv, EmptyInv, JoinInv, ReadingInv, UnitsInv, NothingLost
<1> QED  BY <1>2, <1>12, <1>13

\* Flushing a paragraph adds a unit, and loses none.
LEMMA FlushedKeeps ==
  ASSUME SegShapes
  PROVE  /\ Flushed \in Seq(Unit)
         /\ \A p : (\E k \in DOMAIN units : p \in units[k].pieces)
                     => \E k \in DOMAIN Flushed : p \in Flushed[k].pieces
         /\ \A p \in current.pieces : \E k \in DOMAIN Flushed : p \in Flushed[k].pieces
<1>1. units \in Seq(Unit) /\ current \in Unit  BY DEF SegShapes
<1>2. CASE current = NoUnit
  <2>1. Flushed = units /\ current.pieces = {}  BY <1>2 DEF Flushed, NoUnit
  <2> QED  BY <1>1, <2>1
<1>3. CASE current # NoUnit
  <2>1. Flushed = Append(units, current)  BY <1>3 DEF Flushed
  <2>2. /\ Flushed \in Seq(Unit) /\ Len(Flushed) = Len(units) + 1
        /\ \A k \in 1 .. Len(units) : Flushed[k] = units[k]
        /\ Flushed[Len(units) + 1] = current
    BY <1>1, <2>1, AppendProperties
  <2>3. /\ DOMAIN units = 1 .. Len(units) /\ Len(units) \in Nat
        /\ DOMAIN Flushed = 1 .. Len(units) + 1
    BY <1>1, <2>2
  <2>4. DOMAIN units \subseteq DOMAIN Flushed /\ Len(units) + 1 \in DOMAIN Flushed
    BY <2>3
  <2> QED  BY <2>2, <2>3, <2>4
<1> QED  BY <1>2, <1>3

LEMMA ParagraphLineInv == ASSUME SegInv, ParagraphLine PROVE SegInv'
<1>1. /\ SegShapes /\ stage = "paragraphs" /\ chunks = << >> /\ first = 1 /\ ~Windowed
      /\ at \in DOMAIN lines /\ at \in Nat /\ Len(lines) \in Nat
      /\ DOMAIN lines = 1 .. Len(lines)
      /\ \A l \in 1 .. at - 1 : Kept(l)
  BY DEF SegInv, SegShapes, EmptyInv, ReadingInv, ParagraphLine
<1>2. /\ at' = at + 1
      /\ UNCHANGED <<strategy, encoder, lines, stage, total, first, chunks>>
  BY DEF ParagraphLine
<1>3. /\ lines[at].text \in Texts /\ lines[at].page \in Nat
      /\ Pieces(at) \subseteq Nat \X Nat
      /\ lines[at].text = Blank => Pieces(at) = {}
  BY <1>1, BlankPieces
<1>4. units' \in Seq(Unit) /\ current' \in Unit /\ \A l \in 1 .. at : Kept(l)'
  <2>1. CASE lines[at].text = Blank /\ units' = Flushed /\ current' = NoUnit
    <3>1. Flushed \in Seq(Unit) /\ NoUnit \in Unit  BY <1>1, FlushedKeeps DEF NoUnit, Unit
    <3>2. ASSUME NEW l \in 1 .. at PROVE Kept(l)'
      <4>1. Pieces(l)' = Pieces(l)  BY <1>2 DEF Pieces
      <4>2. CASE l = at  BY <1>3, <2>1, <4>1, <4>2 DEF Kept
      <4>3. CASE l \in 1 .. at - 1
        <5>1. Kept(l)  BY <1>1, <4>3
        <5> QED  BY <1>1, <2>1, <4>1, <5>1, FlushedKeeps DEF Kept
      <4> QED  BY <1>1, <3>2, <4>2, <4>3
    <3> QED  BY <2>1, <3>1, <3>2
  <2>2. CASE /\ lines[at].text # Blank
             /\ current' = WithLine(current, at) /\ units' = units
    <3>1. /\ current'.pieces = current.pieces \cup Pieces(at)
          /\ current'.pieces = current.pieces \cup Pieces(at)
      BY <2>2 DEF WithLine
    <3>2. Tokens[lines[at].text] \in Nat  BY <1>3, TextAssumption
    <3>3. /\ current.pieces \subseteq Nat \X Nat
          /\ current.tokens \in Nat /\ current.startPage \in Nat
      BY <1>1 DEF SegShapes, Unit
    <3>4. WithLine(current, at) \in Unit
      BY <1>3, <3>2, <3>3 DEF WithLine, Unit
    <3>5. ASSUME NEW l \in 1 .. at PROVE Kept(l)'
      <4>1. Pieces(l)' = Pieces(l)  BY <1>2 DEF Pieces
      <4>2. CASE l = at  BY <3>1, <4>1, <4>2 DEF Kept
      <4>3. CASE l \in 1 .. at - 1
        <5>1. Kept(l)  BY <1>1, <4>3
        <5> QED  BY <2>2, <3>1, <4>1, <5>1 DEF Kept
      <4> QED  BY <1>1, <3>5, <4>2, <4>3
    <3> QED  BY <1>1, <2>2, <3>4, <3>5 DEF SegShapes
  <2> QED  BY <2>1, <2>2 DEF ParagraphLine
<1>5. SegShapes'  BY <1>1, <1>2, <1>4 DEF SegShapes
<1>6. ReadingInv'  BY <1>1, <1>2, <1>4 DEF ReadingInv, Windowed
<1>7. ChunksAdvance'  BY <1>1, <1>2 DEF ChunksAdvance
<1> QED
  BY <1>1, <1>2, <1>5, <1>6, <1>7
  DEF SegInv, EmptyInv, JoinInv, WindowInv, UnitsInv, NothingLost

\* All lines are read: the buffer begins, unless there is nothing to put into it.
LEMMA ReadingEnds ==
  ASSUME SegInv, stage \in {"paragraphs", "sentences"}, at > Len(lines),
         NEW us \in Seq(Unit), units' = us, current' = NoUnit, at' = 1,
         stage' = IF us = << >> THEN "segmented" ELSE "units",
         UNCHANGED <<strategy, encoder, lines, total, first, bufferTokens, chunks>>,
         \A p : (\E k \in DOMAIN units : p \in units[k].pieces) \/ p \in current.pieces
                  => \E k \in DOMAIN us : p \in us[k].pieces
  PROVE  SegInv'
<1>1. /\ SegShapes /\ chunks = << >> /\ first = 1 /\ ~Windowed
      /\ DOMAIN lines = 1 .. Len(lines) /\ at = Len(lines) + 1 /\ Len(lines) \in Nat
      /\ \A l \in 1 .. at - 1 : Kept(l)
  BY DEF SegInv, SegShapes, EmptyInv, ReadingInv
<1>2. \A l \in DOMAIN lines : InUnits(l)'
  <2> SUFFICES ASSUME NEW l \in DOMAIN lines PROVE InUnits(l)'
    OBVIOUS
  <2>1. Kept(l) /\ Pieces(l)' = Pieces(l)  BY <1>1 DEF Pieces
  <2> QED  BY <2>1 DEF Kept, InUnits
<1>3. NoUnit \in Unit /\ Len(us) \in Nat /\ (us # << >> => Len(us) > 0)
      /\ DOMAIN us = 1 .. Len(us)
  BY DEF NoUnit, Unit
<1>4. SegShapes' /\ ChunksAdvance' /\ ~Windowed'
  BY <1>1, <1>3 DEF SegShapes, ChunksAdvance, Windowed
<1>5. NothingLost'
  BY <1>2, <1>3, <1>4 DEF NothingLost, InUnits
<1>6. UnitsInv'
  BY <1>1, <1>2, <1>3, <1>4 DEF UnitsInv, Covered, Advances
<1> QED
  BY <1>1, <1>4, <1>5, <1>6 DEF SegInv, EmptyInv, JoinInv, WindowInv, ReadingInv

LEMMA ParagraphsEndInv == ASSUME SegInv, ParagraphsEnd PROVE SegInv'
<1>1. SegShapes  BY DEF SegInv
<1>2. Flushed \in Seq(Unit)  BY <1>1, FlushedKeeps
<1>3. \A p : (\E k \in DOMAIN units : p \in units[k].pieces) \/ p \in current.pieces
               => \E k \in DOMAIN Flushed : p \in Flushed[k].pieces
  BY <1>1, FlushedKeeps
<1> HIDE DEF Flushed
<1> QED  BY <1>2, <1>3, ReadingEnds DEF ParagraphsEnd

LEMMA SentenceLineInv == ASSUME SegInv, SentenceLine PROVE SegInv'
<1>1. /\ SegShapes /\ stage = "sentences" /\ chunks = << >> /\ first = 1 /\ ~Windowed
      /\ at \in DOMAIN lines /\ at \in Nat /\ Len(lines) \in Nat
      /\ DOMAIN lines = 1 .. Len(lines)
      /\ current = NoUnit
      /\ \A l \in 1 .. at - 1 : Kept(l)
  BY DEF SegInv, SegShapes, EmptyInv, ReadingInv, SentenceLine
<1>2. /\ at' = at + 1 /\ units' = units \o SentenceUnits(at)
      /\ UNCHANGED <<strategy, encoder, lines, stage, current, total, first, chunks>>
  BY DEF SentenceLine
<1>3. lines[at].text \in Texts /\ lines[at].page \in Nat  BY <1>1, BlankPieces
<1> DEFINE us == SentenceUnits(at)
           ss == Sentences[lines[at].text]
<1>4. /\ us \in Seq(Unit) /\ DOMAIN us = DOMAIN ss
      /\ \A n \in DOMAIN ss : us[n].pieces = {<<at, n>>}
  <2>1. ss \in Seq(Nat)  BY <1>3, TextAssumption
  <2>2. DOMAIN ss = 1 .. Len(ss) /\ Len(ss) \in Nat /\ \A n \in DOMAIN ss : ss[n] \in Nat
    BY <2>1
  <2>3. \A n \in DOMAIN ss : [pieces |-> {<<at, n>>}, tokens |-> ss[n],
                              startPage |-> lines[at].page, endPage |-> lines[at].page] \in Unit
    BY <1>1, <1>3, <2>2 DEF Unit
  <2>4. us \in [1 .. Len(ss) -> Unit]  BY <2>2, <2>3 DEF SentenceUnits
  <2> QED  BY <2>2, <2>4, IsASeq DEF SentenceUnits
<1> HIDE DEF us
<1>5. units \in Seq(Unit)  BY <1>1 DEF SegShapes
<1>6. /\ units' \in Seq(Unit) /\ Len(units') = Len(units) + Len(us)
      /\ \A i \in 1 .. Len(units) + Len(us) :
           units'[i] = IF i <= Len(units) THEN units[i] ELSE us[i - Len(units)]
  BY <1>2, <1>4, <1>5, ConcatProperties DEF us
<1>7. \A k \in DOMAIN units : k \in DOMAIN units' /\ units'[k] = units[k]
  BY <1>4, <1>5, <1>6
<1>8. \A n \in DOMAIN us : Len(units) + n \in DOMAIN units' /\ units'[Len(units) + n] = us[n]
  BY <1>4, <1>5, <1>6
<1>9. ASSUME NEW l \in 1 .. at PROVE Kept(l)'
  <2>1. Pieces(l)' = Pieces(l)  BY <1>2 DEF Pieces
  <2>2. CASE l = at
    <3>1. ASSUME NEW p \in Pieces(at) PROVE \E k \in DOMAIN units' : p \in units'[k].pieces
      <4>1. PICK n \in DOMAIN ss : p = <<at, n>>  BY DEF Pieces
      <4>2. n \in DOMAIN us /\ us[n].pieces = {<<at, n>>}  BY <1>4
      <4> QED  BY <1>8, <4>1, <4>2
    <3> QED  BY <2>1, <2>2, <3>1 DEF Kept
  <2>3. CASE l \in 1 .. at - 1
    <3>1. Kept(l)  BY <1>1, <2>3
    <3> QED  BY <1>2, <1>7, <2>1, <3>1 DEF Kept
  <2> QED  BY <1>1, <1>9, <2>2, <2>3
<1>10. SegShapes'  BY <1>1, <1>2, <1>6 DEF SegShapes
<1>11. ReadingInv'  BY <1>1, <1>2, <1>9 DEF ReadingInv, Windowed
<1>12. ChunksAdvance'  BY <1>1, <1>2 DEF ChunksAdvance
<1> QED
  BY <1>1, <1>2, <1>10, <1>11, <1>12
  DEF SegInv, EmptyInv, JoinInv, WindowInv, UnitsInv, NothingLost

LEMMA SentencesEndInv == ASSUME SegInv, SentencesEnd PROVE SegInv'
<1>1. units \in Seq(Unit) /\ current = NoUnit /\ stage = "sentences"
  BY DEF SegInv, SegShapes, ReadingInv, SentencesEnd
<1>2. current.pieces = {}  BY <1>1 DEF NoUnit
<1> QED  BY <1>1, <1>2, ReadingEnds DEF SentencesEnd

LEMMA ReadUnitInv == ASSUME SegInv, ReadUnit PROVE SegInv'
<1>1. /\ SegShapes /\ ChunksAdvance /\ stage = "units" /\ ~Windowed
      /\ at \in Nat /\ first \in Nat \ {0} /\ first <= at
      /\ at \in 1 .. Len(units) /\ Len(units) \in Nat /\ DOMAIN units = 1 .. Len(units)
      /\ \A l \in DOMAIN lines : InUnits(l)
      /\ Covered(first - 1) /\ Advances(first, at)
  BY DEF SegInv, SegShapes, UnitsInv, ReadUnit
<1>2. /\ at' = at + 1
      /\ UNCHANGED <<strategy, encoder, lines, stage, current, units, total>>
  BY DEF ReadUnit
<1>3. ~Windowed' /\ \A l \in DOMAIN lines' : InUnits(l)'
  BY <1>1, <1>2 DEF Windowed, InUnits, Pieces
<1>4. CASE at # Len(units) /\ UNCHANGED <<first, chunks>>
  <2>1. SegShapes' /\ ChunksAdvance'  BY <1>1, <1>2, <1>4 DEF SegShapes, ChunksAdvance
  <2>2. Advances(first, at + 1)  BY <1>1, AdvancesFrom
  <2>3. Advances(first, at)'  BY <1>2, <1>4, <2>2 DEF Advances
  <2>4. Covered(first - 1)'  BY <1>1, <1>4 DEF Covered, InChunk
  <2>5. at' \in 1 .. Len(units') + 1 /\ first' <= at' /\ ~(at' > Len(units'))
    <3>1. at' = at + 1 /\ units' = units /\ first' = first  BY <1>2, <1>4
    <3>2. /\ at \in Nat /\ first \in Nat /\ first <= at
          /\ Len(units) \in Nat /\ at \in 1 .. Len(units) /\ at # Len(units)
      BY <1>1, <1>4
    <3>3. at + 1 \in 1 .. Len(units) + 1 /\ first <= at + 1 /\ ~(at + 1 > Len(units))
      BY <3>2
    <3> QED  BY <3>1, <3>3
  <2>6. UnitsInv'
    BY <1>1, <1>2, <1>3, <2>3, <2>4, <2>5 DEF UnitsInv
  <2> QED
    BY <1>1, <1>2, <2>1, <2>6 DEF SegInv, EmptyInv, JoinInv, WindowInv, ReadingInv, NothingLost
<1>5. ASSUME NEW j \in first .. at + 1,
             first' = j,
             chunks' = Append(chunks, [from |-> first, to |-> at,
                                       startPage |-> units[first].startPage,
                                       endPage |-> units[at].endPage])
      PROVE  SegInv'
  <2> DEFINE c == [from |-> first, to |-> at, startPage |-> units[first].startPage,
                   endPage |-> units[at].endPage]
  <2>1. units[first] \in Unit /\ units[at] \in Unit  BY <1>1 DEF SegShapes
  <2>2. c \in Chunk  BY <1>1, <2>1 DEF Chunk, Unit
  <2>3. c.from = first /\ c.to = at  OBVIOUS
  <2> HIDE DEF c
  <2>4. /\ chunks' \in Seq(Chunk) /\ chunks' # << >> /\ chunks'[Len(chunks')] = c
        /\ ChunksAdvance'
        /\ \A k : InChunk(k) \/ k \in first .. at => InChunk(k)'
    BY <1>1, <1>5, <2>2, <2>3, OneChunkMore DEF c
  <2>5. \A k \in 1 .. at : InChunk(k)'
    <3>1. \A k \in 1 .. at : k \in 1 .. first - 1 \/ k \in first .. at  BY <1>1
    <3> QED  BY <1>1, <2>4, <3>1 DEF Covered
  <2>6. SegShapes'  BY <1>1, <1>2, <1>5, <2>4 DEF SegShapes
  <2>7. Advances(first, at)'  BY <1>1, <1>2, <1>5, <2>3, <2>4 DEF Advances
  <2>8. Covered(first - 1)' /\ (at' > Len(units') => Covered(Len(units))')
    BY <1>1, <1>2, <1>5, <2>5 DEF Covered
  <2>9. UnitsInv'
    BY <1>1, <1>2, <1>3, <1>5, <2>7, <2>8 DEF UnitsInv
  <2> QED
    BY <1>1, <1>2, <2>4, <2>6, <2>9 DEF SegInv, EmptyInv, JoinInv, WindowInv, ReadingInv, NothingLost
<1> QED
  <2>1. CASE ~Full(bufferTokens + units[at].tokens) /\ UNCHANGED <<first, chunks>>
    BY <1>4, <2>1 DEF Full
  <2>2. CASE \E j \in first .. at + 1 :
               /\ first' = j
               /\ chunks' = Append(chunks, [from |-> first, to |-> at,
                                            startPage |-> units[first].startPage,
                                            endPage |-> units[at].endPage])
    BY <1>5, <2>2
  <2> QED  BY <2>1, <2>2 DEF ReadUnit

LEMMA UnitsEndInv == ASSUME SegInv, UnitsEnd PROVE SegInv'
<1>1. /\ SegShapes /\ ChunksAdvance /\ stage = "units" /\ ~Windowed
      /\ stage' = "segmented" /\ Len(units) \in Nat /\ DOMAIN units = 1 .. Len(units)
      /\ \A l \in DOMAIN lines : InUnits(l)
      /\ Covered(Len(units))
      /\ UNCHANGED <<strategy, encoder, lines, at, current, units, total, first, chunks>>
  BY DEF SegInv, SegShapes, UnitsInv, UnitsEnd
<1>2. SegShapes' /\ ChunksAdvance' /\ ~Windowed'
  BY <1>1 DEF SegShapes, ChunksAdvance, Windowed
<1>3. NothingLost'
  BY <1>1, <1>2 DEF NothingLost, InUnits, Covered, InChunk, Pieces
<1> QED
  BY <1>1, <1>2, <1>3 DEF SegInv, EmptyInv, JoinInv, WindowInv, ReadingInv, UnitsInv

-----------------------------------------------------------------------------
(* The theorems. *)

LEMMA SegInvStep == SegInv /\ [SegNext]_segVars => SegInv'
<1> SUFFICES ASSUME SegInv, [SegNext]_segVars PROVE SegInv'
  OBVIOUS
<1>1. CASE UNCHANGED segVars
  <2> USE <1>1 DEF segVars, SegInv
  <2>1. SegShapes' /\ EmptyInv' /\ JoinInv' /\ ChunksAdvance'
    BY DEF SegShapes, EmptyInv, JoinInv, ChunksAdvance
  <2>2. Windowed' = Windowed /\ WindowEnd' = WindowEnd
    BY DEF Windowed, WindowEnd, Window
  <2>3. \A k : InChunk(k)' <=> InChunk(k)  BY DEF InChunk
  <2>4. WindowInv'  BY <2>2, <2>3 DEF WindowInv, Covered, Advances
  <2>5. ReadingInv'  BY <2>2 DEF ReadingInv, Kept, Pieces
  <2>6. UnitsInv'  BY <2>2, <2>3 DEF UnitsInv, Covered, Advances, InUnits, Pieces
  <2>7. NothingLost'  BY <2>2, <2>3 DEF NothingLost, Pieces
  <2> QED  BY <2>1, <2>4, <2>5, <2>6, <2>7
<1>2. CASE SegStep
  BY <1>2, JoinLineInv, JoinedInv, SlideWindowInv, ParagraphLineInv, ParagraphsEndInv,
     SentenceLineInv, SentencesEndInv, ReadUnitInv, UnitsEndInv DEF SegStep
<1>3. ASSUME NEW ls \in Documents, SegmentDocument(ls) PROVE SegInv'
  BY <1>3, SegmentDocumentInv
<1> QED  BY <1>1, <1>2, <1>3 DEF SegNext

\* The invariant of SegmentDocument's loops that the next theorems rest on.
THEOREM SegInvariant == SegSpec => []SegInv
BY SegInvInit, SegInvStep, PTL DEF SegSpec

\* Whatever the strategy of SegmentDocument, the budget and the overlap, no sentence
\* and no position of the text is left out of the chunks.
THEOREM SegNothingLost == SegSpec => []NothingLost
<1>1. SegInv => NothingLost  BY DEF SegInv
<1> QED  BY <1>1, SegInvariant, PTL

\* The chunks of SegmentDocument go forward, and leave no gap.
THEOREM SegChunksAdvance == SegSpec => []ChunksAdvance
<1>1. SegInv => ChunksAdvance  BY DEF SegInv
<1> QED  BY <1>1, SegInvariant, PTL

-----------------------------------------------------------------------------
(* The sizes of the chunks: sums of tokens, and the pages of the units. *)

\* What the sums of tokens are, of any units.
LEMMA SumSpec ==
  ASSUME NEW us \in Seq(Unit), NEW f,
         f = CHOOSE g : g = [k \in 0 .. Len(us) |-> IF k = 0 THEN 0 ELSE g[k - 1] + us[k].tokens]
  PROVE  /\ f \in [0 .. Len(us) -> Nat]
         /\ f[0] = 0
         /\ \A k \in 1 .. Len(us) : f[k] = f[k - 1] + us[k].tokens
<1> DEFINE n == Len(us)
           step == [k \in 1 .. n |-> [s \in Nat |-> s + us[k].tokens]]
<1>1. n \in Nat /\ \A k \in 1 .. n : us[k].tokens \in Nat
  <2>1. n \in Nat /\ \A k \in 1 .. n : us[k] \in Unit  OBVIOUS
  <2> QED  BY <2>1 DEF Unit
<1>2. step \in [1 .. n -> [Nat -> Nat]]  BY <1>1
<1> HIDE DEF step
<1>3. PICK h : Iterates(h, n, Nat, 0, step)
  <2>1. n \in Nat /\ 0 \in Nat  BY <1>1
  <2> HIDE DEF n
  <2> QED  BY <1>2, <2>1, Recursion
<1>4. h = [k \in 0 .. n |-> IF k = 0 THEN 0 ELSE h[k - 1] + us[k].tokens]
  <2>1. /\ h \in [0 .. n -> Nat] /\ h[0] = 0
        /\ \A k \in 1 .. n : h[k] = step[k][h[k - 1]]
    BY <1>3 DEF Iterates
  <2>2. ASSUME NEW k \in 0 .. n PROVE h[k] = IF k = 0 THEN 0 ELSE h[k - 1] + us[k].tokens
    <3>1. CASE k = 0  BY <2>1, <3>1
    <3>2. CASE k # 0
      <4>1. k \in 1 .. n /\ k - 1 \in 0 .. n  BY <1>1, <3>2
      <4>2. h[k - 1] \in Nat  BY <2>1, <4>1
      <4> QED  BY <2>1, <3>2, <4>1, <4>2 DEF step
    <3> QED  BY <3>1, <3>2
  <2> QED  BY <2>1, <2>2
<1>5. f = [k \in 0 .. n |-> IF k = 0 THEN 0 ELSE f[k - 1] + us[k].tokens]
  BY <1>4
<1>6. f[0] = 0 /\ \A k \in 1 .. n : f[k] = f[k - 1] + us[k].tokens
  <2>1. 0 \in 0 .. n /\ \A k \in 1 .. n : k \in 0 .. n /\ k # 0  BY <1>1
  <2> QED  BY <1>5, <2>1
<1> DEFINE A == {k \in 0 .. n : f[k] \in Nat}
<1>7. A = 0 .. n
  <2>1. A \in SUBSET (0 .. n) /\ 0 \in A  BY <1>1, <1>6
  <2>2. ASSUME NEW k \in 1 .. n, k - 1 \in A PROVE k \in A
    <3>1. f[k - 1] \in Nat /\ us[k].tokens \in Nat /\ k \in 0 .. n  BY <1>1, <2>2
    <3>2. f[k - 1] + us[k].tokens \in Nat  BY <3>1
    <3>3. f[k] = f[k - 1] + us[k].tokens  BY <1>6, <2>2
    <3> QED  BY <3>1, <3>2, <3>3
  <2> HIDE DEF A
  <2> QED  BY <1>1, <2>1, <2>2, UpTheNumbers
<1> QED  BY <1>5, <1>6, <1>7

LEMMA TokensUpToSpec ==
  ASSUME units \in Seq(Unit)
  PROVE  /\ TokensUpTo \in [0 .. Len(units) -> Nat]
         /\ TokensUpTo[0] = 0
         /\ \A k \in 1 .. Len(units) : TokensUpTo[k] = TokensUpTo[k - 1] + units[k].tokens
BY SumSpec DEF TokensUpTo

LEMMA TokensUpToSpecPrime ==
  ASSUME (units \in Seq(Unit))'
  PROVE  (/\ TokensUpTo \in [0 .. Len(units) -> Nat]
         /\ TokensUpTo[0] = 0
         /\ \A k \in 1 .. Len(units) : TokensUpTo[k] = TokensUpTo[k - 1] + units[k].tokens)'
BY SumSpec DEF TokensUpTo

LEMMA TokensSame == UNCHANGED units => TokensUpTo' = TokensUpTo
BY DEF TokensUpTo

\* A unit is on the pages of its pieces.
UnitFits(u) ==
  /\ u.startPage <= u.endPage
  /\ \A p \in u.pieces : /\ p[1] \in DOMAIN lines
                         /\ u.startPage <= lines[p[1]].page
                         /\ lines[p[1]].page <= u.endPage

Before(u, l) == l \in DOMAIN lines => u.endPage <= lines[l].page

PagesInv ==
  /\ \A i, j \in DOMAIN lines : i <= j => lines[i].page <= lines[j].page
  /\ \A k \in DOMAIN units : UnitFits(units[k])
  /\ \A j, k \in DOMAIN units : j < k => units[j].endPage <= units[k].startPage
  /\ stage \in {"paragraphs", "sentences"} =>
       /\ \A k \in DOMAIN units : Before(units[k], at)
       /\ current # NoUnit => /\ UnitFits(current) /\ Before(current, at)
                              /\ \A k \in DOMAIN units : units[k].endPage <= current.startPage

\* bufferTokens is what the units of the buffer have.
TokensInv ==
  /\ stage \notin {"units", "segmented"} => bufferTokens = 0
  /\ stage = "units" =>
       /\ bufferTokens = TokensOf(first, at - 1)
       /\ bufferTokens < Larger(Budget, Overlap + 1)
       /\ chunks # << >> => TokensOf(first, chunks[Len(chunks)].to) <= Overlap

StepInv ==
  stage = "window" /\ chunks # << >> =>
    chunks[Len(chunks)].to - at <= Larger(WindowOver, Window - Window \div 2)

FitInv ==
  /\ encoder \in BOOLEAN /\ bufferTokens \in Nat
  /\ PagesInv /\ TokensInv /\ StepInv /\ ChunksFit

\* The sums of tokens grow.
LEMMA TokensGrow ==
  ASSUME units \in Seq(Unit), NEW j \in 0 .. Len(units), NEW k \in j .. Len(units)
  PROVE  TokensUpTo[j] <= TokensUpTo[k]
<1> DEFINE n == Len(units)
           A == {m \in 0 .. n : j <= m => TokensUpTo[j] <= TokensUpTo[m]}
<1>1. n \in Nat /\ j \in 0 .. n /\ k \in 0 .. n /\ j <= k  OBVIOUS
<1>2. \A m \in 0 .. n : TokensUpTo[m] \in Nat  BY TokensUpToSpec
<1>3. ASSUME NEW m \in 1 .. n PROVE TokensUpTo[m - 1] <= TokensUpTo[m]
  <2>1. units[m] \in Unit /\ m - 1 \in 0 .. n  BY <1>1, <1>3
  <2>2. units[m].tokens \in Nat  BY <2>1 DEF Unit
  <2>3. TokensUpTo[m] = TokensUpTo[m - 1] + units[m].tokens  BY <1>3, TokensUpToSpec
  <2> QED  BY <1>2, <2>1, <2>2, <2>3
<1>4. A \in SUBSET (0 .. n) /\ 0 \in A
  <2>1. 0 \in 0 .. n /\ (j <= 0 => j = 0)  BY <1>1
  <2> QED  BY <1>2, <2>1
<1>5. ASSUME NEW m \in 1 .. n, m - 1 \in A PROVE m \in A
  <2>1. m \in 0 .. n /\ m - 1 \in 0 .. n  BY <1>1
  <2>2. CASE j <= m - 1  BY <1>1, <1>2, <1>3, <1>5, <2>1, <2>2
  <2>3. CASE j = m  BY <1>2, <2>1, <2>3
  <2>4. CASE j > m  BY <1>1, <2>1, <2>4
  <2> QED  BY <1>1, <2>2, <2>3, <2>4
<1>6. A = 0 .. n
  <2> HIDE DEF A
  <2> QED  BY <1>1, <1>4, <1>5, UpTheNumbers
<1> QED  BY <1>1, <1>6

LEMMA SameTokens == UNCHANGED units => \A j, k : TokensOf(j, k)' = TokensOf(j, k)
BY TokensSame DEF TokensOf

\* The tokens of a run of units are a number, and one unit more adds its own.
LEMMA TokensOfSpec ==
  ASSUME units \in Seq(Unit), NEW j \in 1 .. Len(units) + 1, NEW k \in j - 1 .. Len(units)
  PROVE  /\ TokensOf(j, k) \in Nat
         /\ k = j - 1 => TokensOf(j, k) = 0
         /\ k > 0 => TokensOf(j, k) = TokensOf(j, k - 1) + units[k].tokens
<1>1. /\ j - 1 \in 0 .. Len(units) /\ k \in 0 .. Len(units) /\ Len(units) \in Nat
      /\ k \in (j - 1) .. Len(units)
  OBVIOUS
<1>2. TokensUpTo[j - 1] \in Nat /\ TokensUpTo[k] \in Nat  BY <1>1, TokensUpToSpec
<1>3. TokensUpTo[j - 1] <= TokensUpTo[k]  BY <1>1, TokensGrow
<1>4. ASSUME k > 0 PROVE TokensOf(j, k) = TokensOf(j, k - 1) + units[k].tokens
  <2>1. k \in 1 .. Len(units) /\ k - 1 \in 0 .. Len(units)  BY <1>1, <1>4
  <2>2. units[k].tokens \in Nat
    <3>1. units[k] \in Unit  BY <2>1
    <3> QED  BY <3>1 DEF Unit
  <2>3. TokensUpTo[k] = TokensUpTo[k - 1] + units[k].tokens /\ TokensUpTo[k - 1] \in Nat
    BY <2>1, TokensUpToSpec
  <2> QED  BY <1>2, <2>2, <2>3 DEF TokensOf
<1> QED  BY <1>2, <1>3, <1>4 DEF TokensOf

LEMMA SameWindows ==
  UNCHANGED <<strategy, encoder>> =>
    Windowed' = Windowed /\ Window' = Window /\ WindowOver' = WindowOver
BY DEF Windowed, Window, WindowOver

LEMMA SameChunksFit ==
  ASSUME ChunksFit, UNCHANGED <<strategy, encoder, lines, units, chunks>>
  PROVE  ChunksFit'
BY SameTokens, SameWindows DEF ChunksFit

LEMMA NoChunksFit == (chunks = << >>)' => ChunksFit'
BY DEF ChunksFit

LEMMA SamePages ==
  ASSUME PagesInv, UNCHANGED <<lines, units>>,
         stage' \notin {"paragraphs", "sentences"} \/ UNCHANGED <<stage, at, current>>
  PROVE  PagesInv'
BY DEF PagesInv, UnitFits, Before

\* What a window shares with the next.
LEMMA StepLeaves ==
  Window - CalcStep(Window, WindowOver) <= Larger(WindowOver, Window - Window \div 2)
<1>1. Budget \in Nat /\ Budget >= 2 /\ Overlap \in Nat  BY BudgetAssumption
<1>2. Window \in Nat /\ Window >= 2 /\ WindowOver \in Nat
  BY <1>1 DEF Window, WindowOver
<1>3. ASSUME NEW w \in Nat, w >= 2, NEW o \in Nat
      PROVE  w - CalcStep(w, o) <= Larger(o, w - w \div 2)
  <2>1. w \div 2 \in Nat  BY <1>3, SMT
  <2>2. Larger(o, w - w \div 2) >= o /\ Larger(o, w - w \div 2) >= w - w \div 2
    BY <1>3, <2>1 DEF Larger
  <2>3. w - CalcStep(w, o) = o \/ w - CalcStep(w, o) = w - w \div 2
    BY <1>3, <2>1 DEF CalcStep
  <2>4. Larger(o, w - w \div 2) \in Int  BY <1>3, <2>1 DEF Larger
  <2> QED  BY <1>3, <2>1, <2>2, <2>3, <2>4
<1> QED  BY <1>2, <1>3

-----------------------------------------------------------------------------
(* One lemma per action again. *)

LEMMA FitInit == SegInit => FitInv
<1> SUFFICES ASSUME SegInit PROVE FitInv
  OBVIOUS
<1>1. PagesInv  BY DEF SegInit, PagesInv
<1>2. TokensInv /\ StepInv /\ ChunksFit  BY DEF SegInit, TokensInv, StepInv, ChunksFit
<1> QED  BY <1>1, <1>2 DEF SegInit, FitInv

LEMMA SegmentDocumentFit ==
  ASSUME SegInv, FitInv, NEW ls \in Documents, SegmentDocument(ls)
  PROVE  FitInv'
<1>1. /\ chunks = << >> /\ current = NoUnit /\ units = << >> /\ bufferTokens = 0
      /\ stage' \notin {"units", "window"}
      /\ lines' = ls /\ UNCHANGED <<encoder, current, units, bufferTokens, chunks>>
  BY DEF SegInv, SegShapes, EmptyInv, FitInv, TokensInv, SegmentDocument, FirstStage, Strategies
<1>2. \A i, j \in DOMAIN ls : i <= j => ls[i].page <= ls[j].page  BY DEF Documents
<1>3. PagesInv'  BY <1>1, <1>2 DEF PagesInv
<1>4. TokensInv' /\ StepInv'  BY <1>1 DEF TokensInv, StepInv
<1>5. ChunksFit'  BY <1>1, NoChunksFit
<1> QED  BY <1>1, <1>3, <1>4, <1>5 DEF FitInv

LEMMA JoinFit == ASSUME SegInv, FitInv, JoinLine \/ Joined PROVE FitInv'
<1>1. /\ chunks = << >> /\ current = NoUnit /\ units = << >> /\ bufferTokens = 0
      /\ stage' # "units"
      /\ UNCHANGED <<strategy, encoder, lines, current, units, bufferTokens, chunks>>
  BY DEF SegInv, EmptyInv, FitInv, TokensInv, JoinLine, Joined
<1>2. PagesInv'  BY <1>1 DEF FitInv, PagesInv
<1>3. TokensInv' /\ StepInv'  BY <1>1 DEF TokensInv, StepInv
<1>4. ChunksFit'  BY <1>1, NoChunksFit
<1> QED  BY <1>1, <1>2, <1>3, <1>4 DEF FitInv

LEMMA SlideWindowFit == ASSUME SegInv, FitInv, SlideWindow PROVE FitInv'
<1> DEFINE end == WindowEnd
           c == [from |-> at + 1, to |-> end, startPage |-> lines[1].page,
                 endPage |-> lines[Len(lines)].page]
           most == Larger(WindowOver, Window - Window \div 2)
<1>1. /\ stage = "window" /\ Windowed /\ chunks \in Seq(Chunk)
      /\ at \in Nat /\ total \in Nat /\ at < total
      /\ chunks' = Append(chunks, c)
      /\ \/ end = total /\ stage' = "segmented" /\ at' = at
         \/ end < total /\ stage' = "window" /\ at' = at + CalcStep(Window, WindowOver)
      /\ UNCHANGED <<strategy, encoder, lines, current, units, bufferTokens>>
  BY DEF SegInv, SegShapes, WindowInv, SlideWindow, WindowEnd
<1>2. Window \in Nat \ {0} /\ CalcStep(Window, WindowOver) \in 1 .. Window
  BY StepBounds
<1>3. end \in Nat /\ end <= at + Window /\ (end < total => end = at + Window)
  BY <1>1, <1>2 DEF WindowEnd
<1>4. Len(chunks) \in Nat /\ DOMAIN chunks = 1 .. Len(chunks)  BY <1>1
<1>5. /\ Len(chunks') = Len(chunks) + 1
      /\ DOMAIN chunks' = 1 .. Len(chunks) + 1
      /\ \A n \in 1 .. Len(chunks) : chunks'[n] = chunks[n]
      /\ chunks'[Len(chunks) + 1] = c
  BY <1>1
<1>6. c.from = at + 1 /\ c.to = end  OBVIOUS
<1>7. /\ \A n \in DOMAIN chunks :
           /\ chunks[n].to - chunks[n].from < Window
           /\ n > 1 => chunks[n - 1].to - chunks[n].from + 1 <= most
      /\ chunks # << >> => chunks[Len(chunks)].to - at <= most
  BY <1>1 DEF FitInv, ChunksFit, StepInv
<1>8. \A n \in DOMAIN chunks : chunks[n].to \in Nat
  <2>1. \A n \in DOMAIN chunks : chunks[n] \in Chunk  BY <1>1
  <2> QED  BY <2>1 DEF Chunk
<1>9. Window' = Window /\ WindowOver' = WindowOver /\ Windowed'  BY <1>1, SameWindows
<1>10. Window - CalcStep(Window, WindowOver) <= most  BY StepLeaves
<1> HIDE DEF c, end, most
<1>11. ASSUME NEW n \in DOMAIN chunks'
       PROVE  /\ chunks'[n].to - chunks'[n].from < Window
              /\ n > 1 => chunks'[n - 1].to - chunks'[n].from + 1 <= most
  <2>1. CASE n \in 1 .. Len(chunks)
    <3>1. n > 1 => n - 1 \in 1 .. Len(chunks)  BY <1>4, <2>1
    <3> QED  BY <1>4, <1>5, <1>7, <2>1, <3>1
  <2>2. CASE n = Len(chunks) + 1
    <3>1. chunks'[n].to - chunks'[n].from < Window
      BY <1>1, <1>2, <1>3, <1>5, <1>6, <2>2
    <3>2. ASSUME n > 1 PROVE chunks'[n - 1].to - chunks'[n].from + 1 <= most
      <4>1. n - 1 = Len(chunks) /\ Len(chunks) \in DOMAIN chunks /\ chunks # << >>
        BY <1>4, <2>2, <3>2
      <4>2. chunks[Len(chunks)].to \in Nat /\ chunks[Len(chunks)].to - at <= most
        BY <1>7, <1>8, <4>1
      <4>3. chunks'[n - 1] = chunks[Len(chunks)] /\ chunks'[n] = c
        BY <1>4, <1>5, <2>2, <4>1
      <4>4. chunks[Len(chunks)].to - (at + 1) + 1 = chunks[Len(chunks)].to - at
        <5>1. \A m, i \in Nat : m - (i + 1) + 1 = m - i  OBVIOUS
        <5> QED  BY <1>1, <4>2, <5>1
      <4> QED  BY <1>6, <4>2, <4>3, <4>4
    <3> QED  BY <3>1, <3>2
  <2> QED  BY <1>4, <1>5, <2>1, <2>2
<1>12. ChunksFit'  BY <1>9, <1>11 DEF ChunksFit, most
<1>13. StepInv'
  <2> SUFFICES ASSUME stage' = "window"
               PROVE  chunks'[Len(chunks')].to - at' <= most
    BY <1>9 DEF StepInv, most
  <2>1. end = at + Window /\ at' = at + CalcStep(Window, WindowOver)  BY <1>1, <1>3
  <2>2. end - at' = Window - CalcStep(Window, WindowOver)  BY <1>1, <1>2, <2>1
  <2> QED  BY <1>5, <1>6, <1>10, <2>2
<1>14. PagesInv'  BY <1>1, SamePages DEF FitInv
<1>15. TokensInv'  BY <1>1 DEF FitInv, TokensInv
<1> QED  BY <1>1, <1>12, <1>13, <1>14, <1>15 DEF FitInv

\* The lines are read: no chunk is there yet.
LEMMA ReadingFit ==
  ASSUME SegInv, FitInv, stage \in {"paragraphs", "sentences"}, PagesInv',
         stage' \in {"paragraphs", "sentences", "segmented"}
           \/ (stage' = "units" /\ at' = 1 /\ (units \in Seq(Unit))'),
         UNCHANGED <<strategy, encoder, first, bufferTokens, chunks>>
  PROVE  FitInv'
<1>1. chunks = << >> /\ first = 1 /\ bufferTokens = 0
  BY DEF SegInv, EmptyInv, FitInv, TokensInv
<1>2. ChunksFit'  BY <1>1, NoChunksFit
<1>3. StepInv'  BY <1>1 DEF StepInv
<1>4. TokensInv'
  <2>1. CASE stage' \in {"paragraphs", "sentences", "segmented"}
    BY <1>1, <2>1 DEF TokensInv
  <2>2. CASE stage' = "units" /\ at' = 1 /\ (units \in Seq(Unit))'
    <3>1. TokensUpTo'[0] \in Nat
      <4>1. (TokensUpTo \in [0 .. Len(units) -> Nat])'  BY <2>2, TokensUpToSpecPrime
      <4>2. Len(units') \in Nat  BY <2>2
      <4> QED  BY <4>1, <4>2
    <3>2. TokensOf(first, at - 1)' = TokensUpTo'[0] - TokensUpTo'[0]
      BY <1>1, <2>2 DEF TokensOf
    <3>3. 0 < Larger(Budget, Overlap + 1)  BY BudgetAssumption DEF Larger
    <3> QED  BY <1>1, <2>2, <3>1, <3>2, <3>3 DEF TokensInv
  <2> QED  BY <2>1, <2>2
<1> QED  BY <1>1, <1>2, <1>3, <1>4 DEF FitInv

LEMMA SameFits ==
  UNCHANGED lines =>
    /\ \A u : UnitFits(u)' <=> UnitFits(u)
    /\ \A u, l : Before(u, l)' <=> Before(u, l)
BY DEF UnitFits, Before

LEMMA LinePage ==
  ASSUME NEW ls \in Seq(Line)
  PROVE  \A i \in DOMAIN ls : i \in Nat /\ ls[i] \in Line /\ ls[i].text \in Texts
                              /\ ls[i].page \in Nat
<1>1. \A i \in DOMAIN ls : i \in Nat /\ ls[i] \in Line  OBVIOUS
<1> QED  BY <1>1 DEF Line

LEMMA UnitPages ==
  ASSUME NEW u \in Unit
  PROVE  u.startPage \in Nat /\ u.endPage \in Nat
BY DEF Unit

\* What is behind a unit is behind it one line on.
LEMMA BeforeNext ==
  ASSUME lines \in Seq(Line), PagesInv, NEW u \in Unit, at \in DOMAIN lines, Before(u, at)
  PROVE  Before(u, at + 1)
<1> SUFFICES ASSUME at + 1 \in DOMAIN lines PROVE u.endPage <= lines[at + 1].page
  BY DEF Before
<1>1. u.endPage <= lines[at].page  BY DEF Before
<1>2. at <= at + 1  BY LinePage
<1>3. lines[at].page <= lines[at + 1].page  BY <1>2 DEF PagesInv
<1>4. u.endPage \in Nat /\ lines[at].page \in Nat /\ lines[at + 1].page \in Nat
  BY LinePage, UnitPages
<1> QED  BY <1>1, <1>3, <1>4

\* With the paragraph flushed the units are in the order of their pages.
LEMMA FlushedFits ==
  ASSUME SegShapes, PagesInv, stage = "paragraphs"
  PROVE  /\ Flushed \in Seq(Unit)
         /\ \A k \in DOMAIN Flushed : UnitFits(Flushed[k]) /\ Before(Flushed[k], at)
         /\ \A j, k \in DOMAIN Flushed : j < k => Flushed[j].endPage <= Flushed[k].startPage
<1>1. /\ units \in Seq(Unit) /\ current \in Unit
      /\ \A k \in DOMAIN units : UnitFits(units[k]) /\ Before(units[k], at)
      /\ \A j, k \in DOMAIN units : j < k => units[j].endPage <= units[k].startPage
      /\ current # NoUnit => /\ UnitFits(current) /\ Before(current, at)
                             /\ \A k \in DOMAIN units : units[k].endPage <= current.startPage
  BY DEF SegShapes, PagesInv
<1>2. CASE current = NoUnit  BY <1>1, <1>2 DEF Flushed
<1>3. CASE current # NoUnit
  <2>1. /\ Flushed \in Seq(Unit) /\ Len(Flushed) = Len(units) + 1
        /\ \A k \in 1 .. Len(units) : Flushed[k] = units[k]
        /\ Flushed[Len(units) + 1] = current
    BY <1>1, <1>3, AppendProperties DEF Flushed
  <2>2. /\ DOMAIN units = 1 .. Len(units) /\ Len(units) \in Nat
        /\ DOMAIN Flushed = 1 .. Len(units) + 1
    BY <1>1, <2>1
  <2>3. \A k \in DOMAIN Flushed : k \in 1 .. Len(units) \/ k = Len(units) + 1
    BY <2>2
  <2>4. \A k \in DOMAIN Flushed : UnitFits(Flushed[k]) /\ Before(Flushed[k], at)
    BY <1>1, <1>3, <2>1, <2>2, <2>3
  <2>5. ASSUME NEW j \in DOMAIN Flushed, NEW k \in DOMAIN Flushed, j < k
        PROVE  Flushed[j].endPage <= Flushed[k].startPage
    <3>1. j \in 1 .. Len(units)  BY <2>2, <2>5
    <3>2. CASE k \in 1 .. Len(units)  BY <1>1, <2>1, <2>2, <2>5, <3>1, <3>2
    <3>3. CASE k = Len(units) + 1  BY <1>1, <1>3, <2>1, <2>2, <3>1, <3>3
    <3> QED  BY <2>3, <3>2, <3>3
  <2> QED  BY <2>1, <2>4, <2>5
<1> QED  BY <1>2, <1>3

LEMMA ParagraphLineFit == ASSUME SegInv, FitInv, ParagraphLine PROVE FitInv'
<1>1. /\ SegShapes /\ PagesInv /\ stage = "paragraphs" /\ at \in DOMAIN lines
      /\ at \in Nat /\ lines \in Seq(Line) /\ current \in Unit /\ units \in Seq(Unit)
      /\ stage' = stage /\ at' = at + 1 /\ lines' = lines
      /\ UNCHANGED <<strategy, encoder, first, bufferTokens, chunks>>
  BY DEF SegInv, SegShapes, FitInv, ReadingInv, ParagraphLine
<1>2. /\ \A u : UnitFits(u)' <=> UnitFits(u)
      /\ \A u, l : Before(u, l)' <=> Before(u, l)
  BY <1>1, SameFits
<1>3. \A i, j \in DOMAIN lines : i <= j => lines[i].page <= lines[j].page
  BY <1>1 DEF PagesInv
<1>4. CASE units' = Flushed /\ current' = NoUnit
  <2>1. /\ Flushed \in Seq(Unit)
        /\ \A k \in DOMAIN Flushed : UnitFits(Flushed[k]) /\ Before(Flushed[k], at)
        /\ \A j, k \in DOMAIN Flushed : j < k => Flushed[j].endPage <= Flushed[k].startPage
    BY <1>1, FlushedFits
  <2>2. ASSUME NEW k \in DOMAIN Flushed PROVE Before(Flushed[k], at + 1)
    <3>1. Flushed[k] \in Unit /\ Before(Flushed[k], at)  BY <2>1
    <3> QED  BY <1>1, <3>1, BeforeNext
  <2>3. \A k \in DOMAIN units' : UnitFits(units[k])' /\ Before(units[k], at)'
    BY <1>1, <1>2, <1>4, <2>1, <2>2
  <2> QED  BY <1>1, <1>3, <1>4, <2>1, <2>3, ReadingFit DEF PagesInv
<1>5. CASE current' = WithLine(current, at) /\ units' = units
  <2> DEFINE u == WithLine(current, at)
             page == lines[at].page
  <2>1. page \in Nat /\ \A l \in DOMAIN lines : l \in Nat /\ lines[l].page \in Nat
    BY <1>1, LinePage
  <2>2. /\ u.pieces = current.pieces \cup Pieces(at)
        /\ u.startPage = IF current = NoUnit THEN page ELSE current.startPage
        /\ u.endPage = page
    BY DEF WithLine
  <2>3. /\ current = NoUnit => current.pieces = {}
        /\ current # NoUnit => /\ UnitFits(current) /\ current.endPage <= page
                               /\ \A k \in DOMAIN units : units[k].endPage <= current.startPage
        /\ \A k \in DOMAIN units : UnitFits(units[k]) /\ Before(units[k], at)
    BY <1>1 DEF PagesInv, Before, NoUnit
  <2>4. current.startPage \in Nat /\ current.endPage \in Nat  BY <1>1, UnitPages
  <2>5. \A p \in Pieces(at) : p[1] = at  BY DEF Pieces
  <2>6. UnitFits(u)
    <3>1. u.startPage <= page /\ (current # NoUnit => current.startPage <= current.endPage)
      BY <2>1, <2>2, <2>3, <2>4 DEF UnitFits
    <3>2. ASSUME NEW p \in current.pieces
          PROVE  p[1] \in DOMAIN lines /\ u.startPage <= lines[p[1]].page /\ lines[p[1]].page <= page
      <4>1. /\ current # NoUnit /\ p[1] \in DOMAIN lines
            /\ current.startPage <= lines[p[1]].page /\ lines[p[1]].page <= current.endPage
        BY <2>3, <3>2 DEF UnitFits
      <4> QED  BY <2>1, <2>2, <2>3, <2>4, <4>1
    <3>3. ASSUME NEW p \in Pieces(at)
          PROVE  p[1] \in DOMAIN lines /\ u.startPage <= lines[p[1]].page /\ lines[p[1]].page <= page
      BY <1>1, <2>1, <2>5, <3>1, <3>3
    <3> HIDE DEF u
    <3> QED  BY <2>2, <3>1, <3>2, <3>3 DEF UnitFits
  <2>7. Before(u, at + 1)
    <3> SUFFICES ASSUME at + 1 \in DOMAIN lines PROVE page <= lines[at + 1].page
      BY <2>2 DEF Before
    <3> QED  BY <1>1, <1>3
  <2>8. \A k \in DOMAIN units : units[k].endPage <= u.startPage
    BY <1>1, <2>2, <2>3 DEF Before
  <2>9. ASSUME NEW k \in DOMAIN units PROVE Before(units[k], at + 1)
    <3>1. units[k] \in Unit /\ Before(units[k], at)  BY <1>1, <2>3
    <3> QED  BY <1>1, <3>1, BeforeNext
  <2> HIDE DEF u
  <2>10. /\ \A k \in DOMAIN units' : UnitFits(units[k])' /\ Before(units[k], at)'
         /\ UnitFits(current)' /\ Before(current, at)'
         /\ \A k \in DOMAIN units' : units'[k].endPage <= current'.startPage
    BY <1>1, <1>2, <1>5, <2>3, <2>6, <2>7, <2>8, <2>9 DEF u
  <2>11. PagesInv'  BY <1>1, <1>3, <1>5, <2>10 DEF PagesInv
  <2> QED  BY <1>1, <2>11, ReadingFit
<1> QED  BY <1>4, <1>5 DEF ParagraphLine

LEMMA ParagraphsEndFit == ASSUME SegInv, FitInv, ParagraphsEnd PROVE FitInv'
<1>1. /\ SegShapes /\ PagesInv /\ stage = "paragraphs" /\ units' = Flushed
      /\ stage' \in {"units", "segmented"} /\ at' = 1 /\ lines' = lines
      /\ UNCHANGED <<strategy, encoder, first, bufferTokens, chunks>>
  BY DEF SegInv, FitInv, ParagraphsEnd
<1>2. /\ Flushed \in Seq(Unit)
      /\ \A k \in DOMAIN Flushed : UnitFits(Flushed[k])
      /\ \A j, k \in DOMAIN Flushed : j < k => Flushed[j].endPage <= Flushed[k].startPage
  BY <1>1, FlushedFits
<1>3. \A u : UnitFits(u)' <=> UnitFits(u)  BY <1>1, SameFits
<1>4. PagesInv'  BY <1>1, <1>2, <1>3 DEF PagesInv
<1> QED  BY <1>1, <1>2, <1>4, ReadingFit

LEMMA SentenceLineFit == ASSUME SegInv, FitInv, SentenceLine PROVE FitInv'
<1> DEFINE more == SentenceUnits(at)
           page == lines[at].page
<1>1. /\ SegShapes /\ PagesInv /\ stage = "sentences" /\ at \in DOMAIN lines /\ current = NoUnit
      /\ at \in Nat /\ lines \in Seq(Line) /\ units \in Seq(Unit)
      /\ stage' = stage /\ at' = at + 1 /\ lines' = lines /\ current' = current
      /\ units' = units \o more
      /\ UNCHANGED <<strategy, encoder, first, bufferTokens, chunks>>
  BY DEF SegInv, SegShapes, FitInv, ReadingInv, SentenceLine
<1>2. page \in Nat /\ lines[at].text \in Texts  BY <1>1, BlankPieces
<1>3. Sentences[lines[at].text] \in Seq(Nat)  BY <1>2, TextAssumption
<1>4. /\ more \in Seq(Unit)
      /\ \A s \in DOMAIN more : /\ more[s].startPage = page /\ more[s].endPage = page
                                /\ more[s].pieces = {<<at, s>>}
  <2> DEFINE ss == Sentences[lines[at].text]
  <2>1. Len(ss) \in Nat /\ \A s \in 1 .. Len(ss) : s \in Nat /\ ss[s] \in Nat  BY <1>3
  <2>2. more = [s \in 1 .. Len(ss) |-> [pieces |-> {<<at, s>>}, tokens |-> ss[s],
                                       startPage |-> page, endPage |-> page]]
    BY <1>3 DEF SentenceUnits
  <2> HIDE DEF more
  <2>3. ASSUME NEW s \in 1 .. Len(ss)
        PROVE  [pieces |-> {<<at, s>>}, tokens |-> ss[s], startPage |-> page, endPage |-> page]
                 \in Unit
    <3>1. {<<at, s>>} \in SUBSET (Nat \X Nat) /\ ss[s] \in Nat  BY <1>1, <2>1
    <3> HIDE DEF ss, page
    <3> QED  BY <1>2, <3>1 DEF Unit
  <2>4. more \in [1 .. Len(ss) -> Unit]  BY <2>2, <2>3
  <2>5. more \in Seq(Unit) /\ DOMAIN more = 1 .. Len(ss)  BY <2>1, <2>4
  <2> QED  BY <2>2, <2>5
<1>5. \A s \in DOMAIN more : UnitFits(more[s]) /\ Before(more[s], at)
  BY <1>1, <1>2, <1>4 DEF UnitFits, Before
<1> HIDE DEF more
<1>6. /\ Len(units') = Len(units) + Len(more) /\ units' \in Seq(Unit)
      /\ \A k \in 1 .. Len(units) + Len(more) :
           units'[k] = IF k <= Len(units) THEN units[k] ELSE more[k - Len(units)]
  BY <1>1, <1>4, ConcatProperties
<1>7. /\ Len(units) \in Nat /\ DOMAIN units = 1 .. Len(units)
      /\ Len(more) \in Nat /\ DOMAIN more = 1 .. Len(more)
      /\ DOMAIN units' = 1 .. Len(units) + Len(more)
  BY <1>1, <1>4, <1>6
<1>8. /\ \A k \in DOMAIN units : UnitFits(units[k]) /\ Before(units[k], at)
      /\ \A j, k \in DOMAIN units : j < k => units[j].endPage <= units[k].startPage
      /\ \A i, j \in DOMAIN lines : i <= j => lines[i].page <= lines[j].page
  BY <1>1 DEF PagesInv
<1>9. ASSUME NEW k \in DOMAIN units'
      PROVE  \/ k \in DOMAIN units /\ units'[k] = units[k]
             \/ k > Len(units) /\ k - Len(units) \in DOMAIN more /\ units'[k] = more[k - Len(units)]
  BY <1>6, <1>7, <1>9
<1>10. ASSUME NEW k \in DOMAIN units'
       PROVE  UnitFits(units'[k]) /\ Before(units'[k], at + 1)
  <2>1. UnitFits(units'[k]) /\ Before(units'[k], at)  BY <1>5, <1>8, <1>9
  <2>2. units'[k] \in Unit  BY <1>6
  <2> QED  BY <1>1, <2>1, <2>2, BeforeNext
<1>11. ASSUME NEW j \in DOMAIN units', NEW k \in DOMAIN units', j < k
       PROVE  units'[j].endPage <= units'[k].startPage
  <2>1. CASE k \in DOMAIN units
    BY <1>6, <1>7, <1>8, <1>9, <1>11, <2>1
  <2>2. CASE k > Len(units)
    <3>1. units'[k].startPage = page  BY <1>4, <1>7, <1>9, <2>2
    <3>2. units'[j].endPage <= page
      <4>1. CASE j \in DOMAIN units /\ units'[j] = units[j]
        BY <1>1, <1>8, <4>1 DEF Before
      <4>2. CASE j - Len(units) \in DOMAIN more /\ units'[j] = more[j - Len(units)]
        BY <1>2, <1>4, <4>2
      <4> QED  BY <1>9, <4>1, <4>2
    <3> QED  BY <3>1, <3>2
  <2> QED  BY <1>7, <2>1, <2>2
<1>12. /\ \A u : UnitFits(u)' <=> UnitFits(u)
       /\ \A u, l : Before(u, l)' <=> Before(u, l)
  BY <1>1, SameFits
<1>13. \A k \in DOMAIN units' : UnitFits(units[k])' /\ Before(units[k], at)'
  BY <1>1, <1>10, <1>12
<1>14. PagesInv'  BY <1>1, <1>8, <1>11, <1>13 DEF PagesInv
<1> QED  BY <1>1, <1>14, ReadingFit

LEMMA SentencesEndFit == ASSUME SegInv, FitInv, SentencesEnd PROVE FitInv'
<1>1. /\ SegShapes /\ PagesInv /\ stage = "sentences" /\ at' = 1
      /\ stage' \in {"units", "segmented"}
      /\ UNCHANGED <<strategy, encoder, lines, current, units, first, bufferTokens, chunks>>
  BY DEF SegInv, FitInv, SentencesEnd
<1>2. PagesInv'  BY <1>1, SamePages
<1>3. (units \in Seq(Unit))'  BY <1>1 DEF SegShapes
<1> QED  BY <1>1, <1>2, <1>3, ReadingFit

LEMMA UnitsEndFit == ASSUME SegInv, FitInv, UnitsEnd PROVE FitInv'
<1>1. /\ PagesInv /\ ChunksFit /\ stage' = "segmented"
      /\ UNCHANGED <<strategy, encoder, lines, current, units, first, bufferTokens, chunks>>
  BY DEF FitInv, UnitsEnd
<1>2. PagesInv' /\ ChunksFit'  BY <1>1, SamePages, SameChunksFit
<1>3. TokensInv' /\ StepInv'  BY <1>1 DEF TokensInv, StepInv
<1> QED  BY <1>1, <1>2, <1>3 DEF FitInv

\* A buffer that is closed is a chunk of the size that is promised.
LEMMA OneUnitChunk ==
  ASSUME SegInv, FitInv, ReadUnit, Full(bufferTokens + units[at].tokens)
  PROVE  ChunksFit'
<1> DEFINE c == [from |-> first, to |-> at, startPage |-> units[first].startPage,
                 endPage |-> units[at].endPage]
           most == Larger(Budget, Overlap + 1)
<1>1. /\ stage = "units" /\ ~Windowed /\ chunks \in Seq(Chunk) /\ units \in Seq(Unit)
      /\ lines \in Seq(Line)
      /\ at \in DOMAIN units /\ first \in 1 .. at /\ at \in Nat
      /\ chunks' = Append(chunks, c) /\ lines' = lines /\ units' = units
      /\ UNCHANGED <<strategy, encoder>>
  BY DEF SegInv, SegShapes, UnitsInv, ReadUnit
<1>2. /\ bufferTokens = TokensOf(first, at - 1) /\ bufferTokens < most
      /\ chunks # << >> => TokensOf(first, chunks[Len(chunks)].to) <= Overlap
  BY <1>1 DEF FitInv, TokensInv
<1>3. ASSUME NEW k \in first .. at, NEW p \in units[k].pieces
      PROVE  units[first].startPage <= lines[p[1]].page /\ lines[p[1]].page <= units[at].endPage
  <2>1. k \in DOMAIN units /\ first \in DOMAIN units  BY <1>1
  <2>2. /\ UnitFits(units[k]) /\ UnitFits(units[first]) /\ UnitFits(units[at])
        /\ first < k => units[first].endPage <= units[k].startPage
        /\ k < at => units[k].endPage <= units[at].startPage
    BY <1>1, <2>1 DEF FitInv, PagesInv
  <2>3. /\ units[k].startPage <= lines[p[1]].page /\ lines[p[1]].page <= units[k].endPage
        /\ units[first].startPage <= units[first].endPage
        /\ units[at].startPage <= units[at].endPage
        /\ p[1] \in DOMAIN lines
    BY <2>2 DEF UnitFits
  <2>4. /\ units[k].startPage \in Nat /\ units[k].endPage \in Nat
        /\ units[first].startPage \in Nat /\ units[first].endPage \in Nat
        /\ units[at].startPage \in Nat /\ units[at].endPage \in Nat
    <3>1. units[k] \in Unit /\ units[first] \in Unit /\ units[at] \in Unit  BY <1>1, <2>1
    <3> QED  BY <3>1, UnitPages
  <2>5. lines[p[1]].page \in Nat  BY <1>1, <2>3, LinePage
  <2>6. units[first].startPage <= units[k].startPage
    <3>1. k = first \/ first < k  BY <1>1
    <3> QED  BY <2>2, <2>3, <2>4, <3>1
  <2>7. units[k].endPage <= units[at].endPage
    <3>1. k = at \/ k < at  BY <1>1
    <3> QED  BY <2>2, <2>3, <2>4, <3>1
  <2> QED  BY <2>3, <2>4, <2>5, <2>6, <2>7
<1>4. /\ Len(chunks) \in Nat /\ DOMAIN chunks = 1 .. Len(chunks)
      /\ DOMAIN chunks' = 1 .. Len(chunks) + 1
      /\ \A n \in 1 .. Len(chunks) : chunks'[n] = chunks[n]
      /\ chunks'[Len(chunks) + 1] = c
  BY <1>1
<1>5. c.from = first /\ c.to = at /\ c.startPage = units[first].startPage
      /\ c.endPage = units[at].endPage
  OBVIOUS
<1> HIDE DEF c, most
<1>6. \A n \in DOMAIN chunks :
        /\ TokensOf(chunks[n].from, chunks[n].to - 1) < most
        /\ n > 1 => TokensOf(chunks[n].from, chunks[n - 1].to) <= Overlap
        /\ \A k \in chunks[n].from .. chunks[n].to : \A p \in units[k].pieces :
             /\ chunks[n].startPage <= lines[p[1]].page
             /\ lines[p[1]].page <= chunks[n].endPage
  BY <1>1 DEF FitInv, ChunksFit, most
<1>7. ASSUME NEW n \in DOMAIN chunks'
      PROVE  /\ TokensOf(chunks'[n].from, chunks'[n].to - 1) < most
             /\ n > 1 => TokensOf(chunks'[n].from, chunks'[n - 1].to) <= Overlap
             /\ \A k \in chunks'[n].from .. chunks'[n].to : \A p \in units[k].pieces :
                  /\ chunks'[n].startPage <= lines[p[1]].page
                  /\ lines[p[1]].page <= chunks'[n].endPage
  <2>1. CASE n \in 1 .. Len(chunks)
    <3>1. chunks'[n] = chunks[n] /\ (n > 1 => chunks'[n - 1] = chunks[n - 1])
      BY <1>4, <2>1
    <3> QED  BY <1>4, <1>6, <2>1, <3>1
  <2>2. CASE n = Len(chunks) + 1
    <3>1. chunks'[n] = c  BY <1>4, <2>2
    <3>2. ASSUME n > 1 PROVE chunks # << >> /\ chunks'[n - 1] = chunks[Len(chunks)]
      <4>1. n - 1 = Len(chunks) /\ Len(chunks) \in 1 .. Len(chunks)  BY <1>4, <2>2, <3>2
      <4>2. chunks # << >>  BY <1>1, <4>1
      <4> QED  BY <1>4, <4>1, <4>2
    <3> QED  BY <1>2, <1>3, <1>5, <3>1, <3>2
  <2> QED  BY <1>4, <1>7, <2>1, <2>2
<1>8. (~Windowed)' /\ \A j, k : TokensOf(j, k)' = TokensOf(j, k)
  BY <1>1, SameWindows, SameTokens
<1> QED  BY <1>1, <1>7, <1>8 DEF ChunksFit, most

LEMMA ReadUnitFit == ASSUME SegInv, FitInv, ReadUnit PROVE FitInv'
<1> DEFINE most == Larger(Budget, Overlap + 1)
           tokens == bufferTokens + units[at].tokens
<1>1. /\ PagesInv /\ ChunksFit /\ stage = "units" /\ stage' = "units" /\ at' = at + 1
      /\ chunks \in Seq(Chunk) /\ units \in Seq(Unit)
      /\ at \in DOMAIN units /\ first \in 1 .. at /\ at \in Nat /\ first \in Nat
      /\ UNCHANGED <<strategy, encoder, lines, current, units>>
      /\ encoder \in BOOLEAN /\ bufferTokens \in Nat
  BY DEF SegInv, SegShapes, UnitsInv, FitInv, ReadUnit
<1>2. /\ bufferTokens = TokensOf(first, at - 1)
      /\ chunks # << >> => TokensOf(first, chunks[Len(chunks)].to) <= Overlap
  BY <1>1 DEF FitInv, TokensInv
<1>3. /\ Budget \in Nat /\ Overlap \in Nat /\ most \in Nat /\ Budget <= most /\ Overlap < most
  BY BudgetAssumption DEF Larger
<1>4. PagesInv' /\ StepInv'  BY <1>1, SamePages DEF StepInv
<1>5. \A j, k : TokensOf(j, k)' = TokensOf(j, k)  BY <1>1, SameTokens
<1>6. at - 1 + 1 = at /\ at + 1 - 1 = at /\ at' - 1 = at  BY <1>1
<1> HIDE DEF most
<1>7. CASE ~Full(tokens) /\ bufferTokens' = tokens /\ UNCHANGED <<first, chunks>>
  <2>1. tokens < Budget  
    <3>1. units[at].tokens \in Nat
      <4>1. units[at] \in Unit  BY <1>1
      <4> QED  BY <4>1 DEF Unit
    <3> QED  BY <1>1, <1>3, <1>7, <3>1 DEF Full
  <2>2. tokens = TokensOf(first, at) /\ TokensOf(first, at) \in Nat
    <3>1. first \in 1 .. Len(units) + 1 /\ at \in first - 1 .. Len(units) /\ at > 0
      BY <1>1
    <3> QED  BY <1>1, <1>2, <3>1, TokensOfSpec
  <2>3. TokensInv'
    BY <1>1, <1>2, <1>3, <1>5, <1>6, <1>7, <2>1, <2>2 DEF TokensInv, most
  <2>4. ChunksFit'  BY <1>1, <1>7, SameChunksFit
  <2> QED  BY <1>1, <1>4, <1>7, <2>2, <2>3, <2>4 DEF FitInv
<1>8. CASE Full(tokens)
  <2>1. PICK j \in first .. at + 1 :
          OverlapFrom(j) /\ first' = j /\ bufferTokens' = TokensOf(j, at)
    BY <1>8 DEF ReadUnit
  <2>2. TokensOf(j, at) \in Nat
    <3>1. j \in 1 .. Len(units) + 1 /\ at \in j - 1 .. Len(units)  BY <1>1, <2>1
    <3> QED  BY <1>1, <3>1, TokensOfSpec
  <2>3. TokensOf(j, at) <= Overlap  BY <2>1 DEF OverlapFrom
  <2>4. chunks'[Len(chunks')].to = at
    <3> DEFINE c == [from |-> first, to |-> at, startPage |-> units[first].startPage,
                     endPage |-> units[at].endPage]
    <3>1. chunks' = Append(chunks, c)  BY <1>8 DEF ReadUnit
    <3>2. c.to = at  OBVIOUS
    <3> HIDE DEF c
    <3>3. Len(chunks') = Len(chunks) + 1 /\ chunks'[Len(chunks) + 1] = c
      BY <1>1, <3>1
    <3> QED  BY <3>2, <3>3
  <2>5. TokensInv'
    BY <1>1, <1>3, <1>5, <1>6, <2>1, <2>2, <2>3, <2>4 DEF TokensInv, most
  <2>6. ChunksFit'  BY <1>8, OneUnitChunk
  <2> QED  BY <1>1, <1>4, <2>1, <2>2, <2>5, <2>6 DEF FitInv
<1> QED  BY <1>7, <1>8 DEF ReadUnit

LEMMA FitStep == ASSUME SegInv, FitInv, [SegNext]_segVars PROVE FitInv'
<1>1. CASE UNCHANGED segVars
  <2> USE <1>1 DEF segVars
  <2>1. PagesInv' /\ ChunksFit'  BY SamePages, SameChunksFit DEF FitInv
  <2>2. \A j, k : TokensOf(j, k)' = TokensOf(j, k)  BY SameTokens
  <2>3. TokensInv'  BY <2>2 DEF FitInv, TokensInv
  <2>4. StepInv'  BY SameWindows DEF FitInv, StepInv
  <2> QED  BY <2>1, <2>3, <2>4 DEF FitInv
<1>2. CASE SegStep
  BY <1>2, JoinFit, SlideWindowFit, ParagraphLineFit, ParagraphsEndFit,
     SentenceLineFit, SentencesEndFit, ReadUnitFit, UnitsEndFit DEF SegStep
<1>3. ASSUME NEW ls \in Documents, SegmentDocument(ls) PROVE FitInv'
  BY <1>3, SegmentDocumentFit
<1> QED  BY <1>1, <1>2, <1>3 DEF SegNext

LEMMA SegFitInvariant == SegSpec => [](SegInv /\ FitInv)
<1>1. SegInit => SegInv /\ FitInv  BY SegInvInit, FitInit
<1>2. SegInv /\ FitInv /\ [SegNext]_segVars => (SegInv /\ FitInv)'  BY SegInvStep, FitStep
<1> QED  BY <1>1, <1>2, PTL DEF SegSpec

\* The types of the segmenter's state: a strategy, a stage, numbers, units and chunks,
\* whichever loop of SegmentDocument is running.
THEOREM SegTypes == SegSpec => []SegTypeOK
<1>1. SegInv /\ FitInv => SegTypeOK  BY DEF SegInv, SegShapes, FitInv, SegTypeOK
<1> QED  BY <1>1, SegFitInvariant, PTL

\* Chunks of SegmentDocument keep to their size and to the overlap, and name the pages
\* of their text, for any budget, overlap and tokens.
THEOREM SegChunksFit == SegSpec => []ChunksFit
<1>1. FitInv => ChunksFit  BY DEF FitInv
<1> QED  BY <1>1, SegFitInvariant, PTL

-----------------------------------------------------------------------------
(* The lines of an output, page by page. *)

\* Outputs are lines of one text or more.
LEMMA OutputParts ==
  ASSUME NEW o \in Outputs
  PROVE  /\ Len(o) \in Nat /\ DOMAIN o = 1 .. Len(o)
         /\ \A k \in DOMAIN o : /\ o[k] \in Seq(Texts) /\ Len(o[k]) \in Nat \ {0}
                                /\ DOMAIN o[k] = 1 .. Len(o[k])
<1>1. o \in Seq(Seq(Texts) \ {<< >>})  BY ExtractorAssumption
<1>2. \A k \in DOMAIN o : o[k] \in Seq(Texts) \ {<< >>}  BY <1>1
<1>3. \A s \in Seq(Texts) \ {<< >>} : Len(s) \in Nat \ {0} /\ DOMAIN s = 1 .. Len(s)
  OBVIOUS
<1> QED  BY <1>1, <1>2, <1>3

LEMMA FeedsSpec ==
  ASSUME NEW o \in Outputs
  PROVE  /\ FormFeeds(o) \in [0 .. Len(o) -> Nat]
         /\ FormFeeds(o)[0] = 0
         /\ \A k \in 1 .. Len(o) : FormFeeds(o)[k] = FormFeeds(o)[k - 1] + Len(o[k]) - 1
<1> DEFINE n == Len(o)
           f == FormFeeds(o)
           step == [k \in 1 .. n |-> [s \in Nat |-> s + Len(o[k]) - 1]]
<1>1. n \in Nat /\ \A k \in 1 .. n : Len(o[k]) \in Nat \ {0}  BY OutputParts
<1>2. step \in [1 .. n -> [Nat -> Nat]]  BY <1>1
<1> HIDE DEF step
<1>3. PICK h : Iterates(h, n, Nat, 0, step)
  <2>1. n \in Nat /\ 0 \in Nat  BY <1>1
  <2> HIDE DEF n
  <2> QED  BY <1>2, <2>1, Recursion
<1>4. h = [k \in 0 .. n |-> IF k = 0 THEN 0 ELSE h[k - 1] + Len(o[k]) - 1]
  <2>1. /\ h \in [0 .. n -> Nat] /\ h[0] = 0
        /\ \A k \in 1 .. n : h[k] = step[k][h[k - 1]]
    BY <1>3 DEF Iterates
  <2>2. ASSUME NEW k \in 0 .. n PROVE h[k] = IF k = 0 THEN 0 ELSE h[k - 1] + Len(o[k]) - 1
    <3>1. CASE k = 0  BY <2>1, <3>1
    <3>2. CASE k # 0
      <4>1. k \in 1 .. n /\ k - 1 \in 0 .. n  BY <1>1, <3>2
      <4>2. h[k - 1] \in Nat  BY <2>1, <4>1
      <4> QED  BY <2>1, <3>2, <4>1, <4>2 DEF step
    <3> QED  BY <3>1, <3>2
  <2> QED  BY <2>1, <2>2
<1>5. f = [k \in 0 .. n |-> IF k = 0 THEN 0 ELSE f[k - 1] + Len(o[k]) - 1]
  <2>1. f = CHOOSE g : g = [k \in 0 .. n |-> IF k = 0 THEN 0 ELSE g[k - 1] + Len(o[k]) - 1]
    BY DEF FormFeeds
  <2> HIDE DEF f
  <2> QED  BY <1>4, <2>1
<1> HIDE DEF f
<1>6. f[0] = 0 /\ \A k \in 1 .. n : f[k] = f[k - 1] + Len(o[k]) - 1
  <2>1. 0 \in 0 .. n /\ \A k \in 1 .. n : k \in 0 .. n /\ k # 0  BY <1>1
  <2> QED  BY <1>5, <2>1
<1> DEFINE A == {k \in 0 .. n : f[k] \in Nat}
<1>7. A = 0 .. n
  <2>1. A \in SUBSET (0 .. n) /\ 0 \in A  BY <1>1, <1>6
  <2>2. ASSUME NEW k \in 1 .. n, k - 1 \in A PROVE k \in A
    <3>1. f[k - 1] \in Nat /\ Len(o[k]) \in Nat \ {0} /\ k \in 0 .. n  BY <1>1, <2>2
    <3>2. f[k - 1] + Len(o[k]) - 1 \in Nat  BY <3>1
    <3>3. f[k] = f[k - 1] + Len(o[k]) - 1  BY <1>6, <2>2
    <3> QED  BY <3>1, <3>2, <3>3
  <2> HIDE DEF A
  <2> QED  BY <1>1, <2>1, <2>2, UpTheNumbers
<1> QED  BY <1>5, <1>6, <1>7 DEF f

\* Pages of a sequence of lines do not go back, and lie between two.
Ascend(ls, from, to) ==
  /\ ls \in Seq(Line)
  /\ \A i, j \in DOMAIN ls : i <= j => ls[i].page <= ls[j].page
  /\ \A i \in DOMAIN ls : from <= ls[i].page /\ ls[i].page <= to

\* A selection of lines in order is in order.
LEMMA SelectAscends ==
  ASSUME NEW ls, NEW from, NEW to, Ascend(ls, from, to), NEW I \in SUBSET DOMAIN ls
  PROVE  Ascend(Select(ls, I), from, to)
<1>1. /\ ls \in Seq(Line)
      /\ \A i, j \in DOMAIN ls : i <= j => ls[i].page <= ls[j].page
      /\ \A i \in DOMAIN ls : from <= ls[i].page /\ ls[i].page <= to
  BY DEF Ascend
<1>2. /\ Select(ls, I) \in Seq(Line)
      /\ DOMAIN Select(ls, I) \subseteq Nat
      /\ \A k \in DOMAIN Select(ls, I) : Nth(I, k) \in I /\ Select(ls, I)[k] = ls[Nth(I, k)]
      /\ \A k, l \in DOMAIN Select(ls, I) : k < l => Nth(I, k) < Nth(I, l)
  BY <1>1, SelectSpec
<1>3. ASSUME NEW k \in DOMAIN Select(ls, I), NEW l \in DOMAIN Select(ls, I), k <= l
      PROVE  Select(ls, I)[k].page <= Select(ls, I)[l].page
  <2>1. Nth(I, k) \in DOMAIN ls /\ Nth(I, l) \in DOMAIN ls
        /\ Nth(I, k) \in Nat /\ Nth(I, l) \in Nat
    BY <1>1, <1>2
  <2>2. Nth(I, k) <= Nth(I, l)
    <3>1. k = l \/ k < l  BY <1>2, <1>3
    <3> QED  BY <1>2, <2>1, <3>1
  <2> QED  BY <1>1, <1>2, <2>1, <2>2
<1>4. \A k \in DOMAIN Select(ls, I) : from <= Select(ls, I)[k].page /\ Select(ls, I)[k].page <= to
  BY <1>1, <1>2
<1> QED  BY <1>2, <1>3, <1>4 DEF Ascend

\* Lines of later pages come behind.
LEMMA ConcatAscends ==
  ASSUME NEW s, NEW t, NEW from \in Nat, NEW mid \in Nat, NEW to \in Nat,
         from <= mid, mid <= to, Ascend(s, from, mid), Ascend(t, mid, to)
  PROVE  Ascend(s \o t, from, to)
<1>1. /\ s \in Seq(Line) /\ t \in Seq(Line)
      /\ \A i, j \in DOMAIN s : i <= j => s[i].page <= s[j].page
      /\ \A i \in DOMAIN s : from <= s[i].page /\ s[i].page <= mid
      /\ \A i, j \in DOMAIN t : i <= j => t[i].page <= t[j].page
      /\ \A i \in DOMAIN t : mid <= t[i].page /\ t[i].page <= to
  BY DEF Ascend
<1> DEFINE st == s \o t
<1>2. /\ st \in Seq(Line) /\ Len(st) = Len(s) + Len(t)
      /\ \A i \in 1 .. Len(s) + Len(t) : st[i] = IF i <= Len(s) THEN s[i] ELSE t[i - Len(s)]
  BY <1>1, ConcatProperties
<1> HIDE DEF st
<1>3. /\ Len(s) \in Nat /\ DOMAIN s = 1 .. Len(s) /\ Len(t) \in Nat /\ DOMAIN t = 1 .. Len(t)
      /\ DOMAIN st = 1 .. Len(s) + Len(t)
  BY <1>1, <1>2
<1>4. \A i \in DOMAIN st :
        \/ i \in DOMAIN s /\ st[i] = s[i]
        \/ i > Len(s) /\ i - Len(s) \in DOMAIN t /\ st[i] = t[i - Len(s)]
  BY <1>2, <1>3
<1>5. \A i \in DOMAIN st : st[i].page \in Nat  BY <1>2, LinePage
<1>6. ASSUME NEW i \in DOMAIN st PROVE from <= st[i].page /\ st[i].page <= to
  BY <1>1, <1>4, <1>5
<1>7. ASSUME NEW i \in DOMAIN st, NEW j \in DOMAIN st, i <= j
      PROVE  st[i].page <= st[j].page
  <2>1. CASE j \in DOMAIN s /\ st[j] = s[j]
    <3>1. i \in DOMAIN s /\ st[i] = s[i]  BY <1>3, <1>4, <1>7, <2>1
    <3> QED  BY <1>1, <1>7, <2>1, <3>1
  <2>2. CASE j > Len(s) /\ j - Len(s) \in DOMAIN t /\ st[j] = t[j - Len(s)]
    <3>1. CASE i \in DOMAIN s /\ st[i] = s[i]
      <4>1. st[i].page <= mid /\ mid <= st[j].page  BY <1>1, <2>2, <3>1
      <4> QED  BY <1>5, <1>7, <4>1
    <3>2. CASE i > Len(s) /\ i - Len(s) \in DOMAIN t /\ st[i] = t[i - Len(s)]
      <4>1. i - Len(s) <= j - Len(s)  BY <1>3, <1>7
      <4> QED  BY <1>1, <2>2, <3>2, <4>1
    <3> QED  BY <1>4, <1>7, <3>1, <3>2
  <2> QED  BY <1>4, <1>7, <2>1, <2>2
<1> QED  BY <1>2, <1>6, <1>7 DEF Ascend, st

\* Select of all positions is the sequence itself.
LEMMA SelectAll ==
  ASSUME NEW T, NEW s \in Seq(T)
  PROVE  Select(s, DOMAIN s) = s
<1> DEFINE u == Select(s, DOMAIN s)
<1>1. DOMAIN s = 1 .. Len(s) /\ Len(s) \in Nat  OBVIOUS
<1>2. Cardinality(DOMAIN s) = Len(s)  BY <1>1, UpTo
<1>3. u \in Seq(T) /\ Len(u) = Len(s) /\ DOMAIN u = 1 .. Len(s)
  BY <1>2, SelectSpec
<1>4. \A k \in 1 .. Len(u) : u[k] = s[k]  BY <1>3, SelectPrefix
<1> HIDE DEF u
<1> QED  BY <1>3, <1>4, SeqEqual DEF u

\* The lines of one line of the output, on pages from the one it begins on.
LEMMA VisibleSpec ==
  ASSUME NEW o \in Outputs, NEW k \in 1 .. Len(o)
  PROVE  /\ Visible(o, k) = Split(o[k], 1 + FormFeeds(o)[k - 1])
         /\ Ascend(Visible(o, k), 1 + FormFeeds(o)[k - 1], 1 + FormFeeds(o)[k])
<1> DEFINE parts == o[k]
           base == FormFeeds(o)[k - 1]
           placed == [j \in DOMAIN parts |-> [text |-> parts[j], page |-> base + j]]
           all == [i \in DOMAIN parts |-> [text |-> parts[i], page |-> 1 + base + i - 1]]
           I == {j \in DOMAIN parts : Len(parts) = 1 \/ parts[j] # Blank}
           J == {i \in DOMAIN parts : parts[i] # Blank}
<1>1. /\ parts \in Seq(Texts) /\ Len(parts) \in Nat \ {0} /\ DOMAIN parts = 1 .. Len(parts)
  BY OutputParts
<1>2. /\ base \in Nat /\ FormFeeds(o)[k] = base + Len(parts) - 1
  <2>1. k - 1 \in 0 .. Len(o)  BY OutputParts
  <2> QED  BY <2>1, FeedsSpec
<1>3. \A j \in DOMAIN parts : j \in Nat /\ base + j \in Nat /\ parts[j] \in Texts
                              /\ base + j = 1 + base + j - 1
  <2> HIDE DEF parts, base
  <2> QED  BY <1>1, <1>2
<1>4. placed = all
  <2> HIDE DEF parts, base
  <2> QED  BY <1>3
<1>5. Ascend(placed, 1 + base, 1 + FormFeeds(o)[k])
  <2> HIDE DEF parts, base
  <2>1. \A j \in DOMAIN parts : [text |-> parts[j], page |-> base + j] \in Line
    BY <1>3 DEF Line
  <2>2. placed \in [1 .. Len(parts) -> Line]  BY <1>1, <2>1
  <2>3. placed \in Seq(Line) /\ DOMAIN placed = 1 .. Len(parts)  BY <1>1, <2>2
  <2>4. \A j \in DOMAIN placed : placed[j].page = base + j  BY <1>1, <2>3
  <2> HIDE DEF placed
  <2>5. \A i, j \in DOMAIN placed : i <= j => placed[i].page <= placed[j].page
    BY <1>1, <1>2, <2>3, <2>4
  <2>6. \A i \in DOMAIN placed : 1 + base <= placed[i].page
                                 /\ placed[i].page <= 1 + FormFeeds(o)[k]
    BY <1>1, <1>2, <2>3, <2>4
  <2> QED  BY <2>3, <2>5, <2>6 DEF Ascend
<1>6. Visible(o, k) = Select(placed, I)  BY DEF Visible
<1>7. I \in SUBSET DOMAIN placed /\ DOMAIN placed = DOMAIN parts  OBVIOUS
<1>8. Split(parts, 1 + base) = IF Len(parts) = 1 THEN all ELSE Select(all, J)
  BY DEF Split
<1>9. Select(placed, I) = IF Len(parts) = 1 THEN placed ELSE Select(placed, J)
  <2>1. CASE Len(parts) = 1
    <3>1. I = DOMAIN placed  BY <2>1
    <3>2. placed \in Seq(Line)  BY <1>5 DEF Ascend
    <3> HIDE DEF placed, I
    <3> QED  BY <2>1, <3>1, <3>2, SelectAll
  <2>2. CASE Len(parts) # 1
    <3>1. I = J  BY <2>2
    <3> QED  BY <2>2, <3>1
  <2> QED  BY <2>1, <2>2
<1> HIDE DEF placed, all, I, J
<1>10. Ascend(Select(placed, I), 1 + base, 1 + FormFeeds(o)[k])
  BY <1>5, <1>7, SelectAscends
<1> QED  BY <1>4, <1>6, <1>8, <1>9, <1>10

LEMMA LinesUpToSpec ==
  ASSUME NEW o \in Outputs
  PROVE  /\ LinesUpTo(o) \in [0 .. Len(o) -> Seq(Line)]
         /\ LinesUpTo(o)[0] = << >>
         /\ \A k \in 1 .. Len(o) : LinesUpTo(o)[k] = LinesUpTo(o)[k - 1] \o Visible(o, k)
<1> DEFINE n == Len(o)
           f == LinesUpTo(o)
           S == Seq(Line)
           step == [k \in 1 .. n |-> [s \in S |-> s \o Visible(o, k)]]
<1>1. n \in Nat /\ \A k \in 1 .. n : Visible(o, k) \in S
  BY OutputParts, VisibleSpec DEF Ascend
<1>2. /\ << >> \in S
      /\ \A s, t \in S : s \o t \in S
  OBVIOUS
<1> HIDE DEF S
<1>3. step \in [1 .. n -> [S -> S]]  BY <1>1, <1>2
<1> HIDE DEF step
<1>4. PICK h : Iterates(h, n, S, << >>, step)
  <2>1. n \in Nat  BY <1>1
  <2> DEFINE empty == << >>
  <2>2. empty \in S  BY <1>2
  <2> HIDE DEF n, empty
  <2>3. \E h : Iterates(h, n, S, empty, step)  BY <1>3, <2>1, <2>2, Recursion
  <2> QED  BY <2>3 DEF empty
<1>5. h = [k \in 0 .. n |-> IF k = 0 THEN << >> ELSE h[k - 1] \o Visible(o, k)]
  <2>1. /\ h \in [0 .. n -> S] /\ h[0] = << >>
        /\ \A k \in 1 .. n : h[k] = step[k][h[k - 1]]
    BY <1>4 DEF Iterates
  <2>2. ASSUME NEW k \in 0 .. n PROVE h[k] = IF k = 0 THEN << >> ELSE h[k - 1] \o Visible(o, k)
    <3>1. CASE k = 0  BY <2>1, <3>1
    <3>2. CASE k # 0
      <4>1. k \in 1 .. n /\ k - 1 \in 0 .. n  BY <1>1, <3>2
      <4>2. h[k - 1] \in S  BY <2>1, <4>1
      <4> QED  BY <2>1, <3>2, <4>1, <4>2 DEF step
    <3> QED  BY <3>1, <3>2
  <2> QED  BY <2>1, <2>2
<1>6. f = [k \in 0 .. n |-> IF k = 0 THEN << >> ELSE f[k - 1] \o Visible(o, k)]
  <2>1. f = CHOOSE g : g = [k \in 0 .. n |-> IF k = 0 THEN << >> ELSE g[k - 1] \o Visible(o, k)]
    BY DEF LinesUpTo
  <2> HIDE DEF f
  <2> QED  BY <1>5, <2>1
<1> HIDE DEF f
<1>7. f[0] = << >> /\ \A k \in 1 .. n : f[k] = f[k - 1] \o Visible(o, k)
  <2>1. 0 \in 0 .. n /\ \A k \in 1 .. n : k \in 0 .. n /\ k # 0  BY <1>1
  <2> QED  BY <1>6, <2>1
<1> DEFINE A == {k \in 0 .. n : f[k] \in S}
<1>8. A = 0 .. n
  <2>1. A \in SUBSET (0 .. n) /\ 0 \in A  BY <1>1, <1>2, <1>7
  <2>2. ASSUME NEW k \in 1 .. n, k - 1 \in A PROVE k \in A
    <3>1. f[k - 1] \in S /\ Visible(o, k) \in S /\ k \in 0 .. n  BY <1>1, <2>2
    <3>2. f[k] = f[k - 1] \o Visible(o, k)  BY <1>7, <2>2
    <3> QED  BY <1>2, <3>1, <3>2
  <2> HIDE DEF A
  <2> QED  BY <1>1, <2>1, <2>2, UpTheNumbers
<1> QED  BY <1>6, <1>7, <1>8 DEF f, S

\* The lines of an output are in the order of their pages.
LEMMA LinesAscend ==
  ASSUME NEW o \in Outputs, NEW k \in 0 .. Len(o)
  PROVE  Ascend(LinesUpTo(o)[k], 1, 1 + FormFeeds(o)[k])
<1> DEFINE n == Len(o)
           A == {m \in 0 .. n : Ascend(LinesUpTo(o)[m], 1, 1 + FormFeeds(o)[m])}
<1>1. n \in Nat /\ \A m \in 0 .. n : FormFeeds(o)[m] \in Nat  BY OutputParts, FeedsSpec
<1>2. A \in SUBSET (0 .. n) /\ 0 \in A
  <2>1. LinesUpTo(o)[0] = << >> /\ FormFeeds(o)[0] = 0  BY LinesUpToSpec, FeedsSpec
  <2>2. Ascend(LinesUpTo(o)[0], 1, 1 + FormFeeds(o)[0])  BY <2>1 DEF Ascend
  <2> QED  BY <1>1, <2>2
<1>3. ASSUME NEW m \in 1 .. n, m - 1 \in A PROVE m \in A
  <2>1. m \in 0 .. n /\ m - 1 \in 0 .. n  BY <1>1
  <2>2. FormFeeds(o)[m - 1] <= FormFeeds(o)[m]
    <3>1. FormFeeds(o)[m] = FormFeeds(o)[m - 1] + Len(o[m]) - 1  BY FeedsSpec
    <3>2. Len(o[m]) \in Nat \ {0}  BY OutputParts
    <3> QED  BY <1>1, <2>1, <3>1, <3>2
  <2>3. LinesUpTo(o)[m] = LinesUpTo(o)[m - 1] \o Visible(o, m)  BY LinesUpToSpec
  <2>4. Ascend(LinesUpTo(o)[m - 1], 1, 1 + FormFeeds(o)[m - 1])  BY <1>3
  <2>5. Ascend(Visible(o, m), 1 + FormFeeds(o)[m - 1], 1 + FormFeeds(o)[m])
    BY VisibleSpec
  <2> DEFINE mid == 1 + FormFeeds(o)[m - 1]
             to == 1 + FormFeeds(o)[m]
  <2>6. 1 \in Nat /\ mid \in Nat /\ to \in Nat /\ 1 <= mid /\ mid <= to
    BY <1>1, <2>1, <2>2
  <2> HIDE DEF mid, to
  <2>7. Ascend(LinesUpTo(o)[m - 1] \o Visible(o, m), 1, to)
    BY <2>4, <2>5, <2>6, ConcatAscends DEF mid, to
  <2> QED  BY <2>1, <2>3, <2>7 DEF to
<1>4. A = 0 .. n
  <2> HIDE DEF A
  <2> QED  BY <1>1, <1>2, <1>3, UpTheNumbers
<1> QED  BY <1>4

\* What is read is the beginning of what there is to read.
LEMMA LinesPrefix ==
  ASSUME NEW o \in Outputs, NEW k \in 0 .. Len(o)
  PROVE  IsPrefix(LinesUpTo(o)[k], LinesOf(o))
<1> DEFINE n == Len(o)
           f == LinesUpTo(o)
           A == {m \in 0 .. n : k <= m => IsPrefix(f[k], f[m])}
<1>1. n \in Nat /\ k \in 0 .. n /\ n \in 0 .. n  BY OutputParts
<1>2. \A m \in 0 .. n : f[m] \in Seq(Line)  BY LinesUpToSpec
<1>3. \A s \in Seq(Line) : IsPrefix(s, s)  BY DEF IsPrefix
<1>4. ASSUME NEW s \in Seq(Line), NEW t \in Seq(Line), NEW u \in Seq(Line), IsPrefix(s, t)
      PROVE  IsPrefix(s, t \o u)
  <2>1. /\ Len(s) \in Nat /\ Len(t) \in Nat /\ Len(u) \in Nat /\ Len(s) <= Len(t)
        /\ SubSeq(s, 1, Len(s)) = SubSeq(t, 1, Len(s))
    BY <1>4 DEF IsPrefix
  <2>2. Len(t \o u) = Len(t) + Len(u)  BY ConcatProperties
  <2>3. SubSeq(t \o u, 1, Len(s)) = SubSeq(t, 1, Len(s))
    <3>1. CASE Len(s) = 0  BY <2>1, <3>1, SubSeqEmpty
    <3>2. CASE Len(s) # 0
      <4>1. 1 \in 1 .. Len(t) /\ Len(s) \in 1 .. Len(t)  BY <2>1, <3>2
      <4> QED  BY <4>1, SubSeqOfConcat1
    <3> QED  BY <3>1, <3>2
  <2> QED  BY <2>1, <2>2, <2>3 DEF IsPrefix
<1>5. A \in SUBSET (0 .. n) /\ 0 \in A
  <2>1. k <= 0 => k = 0  BY <1>1
  <2> QED  BY <1>1, <1>2, <1>3, <2>1
<1>6. ASSUME NEW m \in 1 .. n, m - 1 \in A PROVE m \in A
  <2>1. m \in 0 .. n /\ m - 1 \in 0 .. n  BY <1>1
  <2>2. CASE k <= m - 1
    <3>1. f[m] = f[m - 1] \o Visible(o, m) /\ Visible(o, m) \in Seq(Line)
      BY LinesUpToSpec, VisibleSpec DEF Ascend
    <3>2. IsPrefix(f[k], f[m - 1])  BY <1>6, <2>2
    <3>3. f[k] \in Seq(Line) /\ f[m - 1] \in Seq(Line)  BY <1>1, <1>2, <2>1
    <3> HIDE DEF f
    <3>4. IsPrefix(f[k], f[m])  BY <1>4, <3>1, <3>2, <3>3
    <3> QED  BY <2>1, <3>4
  <2>3. CASE k = m  BY <1>1, <1>2, <1>3, <2>1, <2>3
  <2>4. CASE k > m  BY <1>1, <2>1, <2>4
  <2> QED  BY <1>1, <2>1, <2>2, <2>3, <2>4
<1>7. A = 0 .. n
  <2> HIDE DEF A
  <2> QED  BY <1>1, <1>5, <1>6, UpTheNumbers
<1> QED  BY <1>1, <1>7 DEF LinesOf

-----------------------------------------------------------------------------
(* Normalising them. *)

LEMMA AscendsBefore ==
  ASSUME NEW s \in Seq(Line), NEW t \in Seq(Line), NEW from, NEW to, Ascend(s \o t, from, to)
  PROVE  Ascend(s, from, to)
<1> DEFINE st == s \o t
<1>1. /\ Len(st) = Len(s) + Len(t) /\ st \in Seq(Line)
      /\ \A i \in 1 .. Len(s) + Len(t) : st[i] = IF i <= Len(s) THEN s[i] ELSE t[i - Len(s)]
  BY ConcatProperties
<1>2. /\ \A i, j \in DOMAIN st : i <= j => st[i].page <= st[j].page
      /\ \A i \in DOMAIN st : from <= st[i].page /\ st[i].page <= to
  BY DEF Ascend
<1> HIDE DEF st
<1>3. Len(s) \in Nat /\ Len(t) \in Nat /\ DOMAIN s = 1 .. Len(s)
      /\ DOMAIN st = 1 .. Len(s) + Len(t)
  BY <1>1
<1>4. \A i \in DOMAIN s : i \in DOMAIN st /\ st[i] = s[i]  BY <1>1, <1>3
<1> QED  BY <1>2, <1>4 DEF Ascend

\* A finite set of numbers has a greatest.
LEMMA MaxSpec ==
  ASSUME NEW I \in SUBSET Nat, IsFiniteSet(I), I # {}
  PROVE  Max(I) \in I /\ \A j \in I : j <= Max(I)
<1>1. /\ Cardinality(I) \in Nat
      /\ \A i \in I : Rank(I, i) \in 1 .. Cardinality(I)
      /\ \A k \in 1 .. Cardinality(I) : \E i \in I : Rank(I, i) = k
  BY RankBijective
<1>2. Cardinality(I) \in 1 .. Cardinality(I)
  <2>1. PICK i \in I : TRUE  OBVIOUS
  <2>2. Rank(I, i) \in 1 .. Cardinality(I)  BY <1>1
  <2> QED  BY <1>1, <2>2
<1>3. PICK i \in I : Rank(I, i) = Cardinality(I)  BY <1>1, <1>2
<1>4. ASSUME NEW j \in I PROVE i >= j
  <2>1. i \in Nat /\ j \in Nat  OBVIOUS
  <2>2. CASE i < j
    <3>1. Rank(I, i) < Rank(I, j)  BY <2>2, RankGrows
    <3>2. Rank(I, j) <= Cardinality(I) /\ Rank(I, j) \in Nat  BY <1>1
    <3> QED  BY <1>1, <1>3, <3>1, <3>2
  <2> QED  BY <2>1, <2>2
<1>5. Max(I) \in I /\ \A j \in I : Max(I) >= j  BY <1>4 DEF Max
<1> QED  BY <1>5

LEMMA TotalPagesSpec ==
  ASSUME NEW ls \in Seq(Line), ls # << >>
  PROVE  TotalPages(ls) \in Nat /\ \E i \in DOMAIN ls : ls[i].page = TotalPages(ls)
<1> DEFINE I == {ls[i].page : i \in DOMAIN ls}
<1>1. DOMAIN ls = 1 .. Len(ls) /\ Len(ls) \in Nat /\ 1 \in DOMAIN ls  OBVIOUS
<1>2. I \in SUBSET Nat /\ I # {}  BY <1>1, LinePage
<1>3. IsFiniteSet(I)
  <2> DEFINE g == [i \in 1 .. Len(ls) |-> ls[i].page]
  <2>1. g \in Surjection(1 .. Len(ls), I)  BY <1>1 DEF Surjection
  <2> QED  BY <1>1, <2>1, UpTo, FS_Surjection
<1>4. Max(I) \in I
  <2> HIDE DEF I
  <2> QED  BY <1>2, <1>3, MaxSpec
<1> QED  BY <1>2, <1>4 DEF TotalPages

\* Where the lines are that NormalizeLines leaves.
Left(ls) == IF ls = << >> THEN {} ELSE {i \in DOMAIN ls : ls[i].text \notin RecurringHeaders(ls)}

LEMMA NormalizeSpec ==
  ASSUME NEW ls \in Seq(Line)
  PROVE  /\ Left(ls) \in SUBSET DOMAIN ls
         /\ NormalizeLines(ls) = [k \in DOMAIN Select(ls, Left(ls)) |->
                                    [text |-> Clean(Select(ls, Left(ls))[k].text),
                                     page |-> Select(ls, Left(ls))[k].page]]
<1>1. CASE ls = << >>
  <2>1. DOMAIN Select(ls, {}) = {}
    <3>1. DOMAIN Select(ls, {}) = 1 .. Cardinality({})  BY SelectSpec
    <3> QED  BY <3>1, FS_EmptySet
  <2> QED  BY <1>1, <2>1 DEF NormalizeLines, Left
<1>2. CASE ls # << >>  BY <1>2 DEF NormalizeLines, Left
<1> QED  BY <1>1, <1>2

\* Normalised lines are lines, in the order of their pages.
LEMMA NormalizedDocuments ==
  ASSUME NEW ls, NEW to, Ascend(ls, 1, to)
  PROVE  NormalizeLines(ls) \in Documents
<1> DEFINE kept == Select(ls, Left(ls))
           new == NormalizeLines(ls)
<1>1. ls \in Seq(Line)  BY DEF Ascend
<1>2. Ascend(kept, 1, to)  BY <1>1, NormalizeSpec, SelectAscends
<1>3. new = [k \in DOMAIN kept |-> [text |-> Clean(kept[k].text), page |-> kept[k].page]]
  BY <1>1, NormalizeSpec
<1> HIDE DEF kept, new
<1>4. /\ kept \in Seq(Line) /\ DOMAIN kept = 1 .. Len(kept) /\ Len(kept) \in Nat
      /\ \A i, j \in DOMAIN kept : i <= j => kept[i].page <= kept[j].page
  BY <1>2 DEF Ascend
<1>5. \A t \in Texts : Clean(t) \in Texts  BY TextAssumption DEF Clean
<1>6. ASSUME NEW k \in DOMAIN kept
      PROVE  [text |-> Clean(kept[k].text), page |-> kept[k].page] \in Line
  <2>1. kept[k].text \in Texts /\ kept[k].page \in Nat  BY <1>4, LinePage
  <2>2. Clean(kept[k].text) \in Texts  BY <1>5, <2>1
  <2> QED  BY <2>1, <2>2 DEF Line
<1>7. new \in [1 .. Len(kept) -> Line]  BY <1>3, <1>4, <1>6
<1>8. new \in Seq(Line) /\ DOMAIN new = DOMAIN kept  BY <1>4, <1>7
<1>9. \A k \in DOMAIN new : new[k].page = kept[k].page  BY <1>3
<1>10. \A i, j \in DOMAIN new : i <= j => new[i].page <= new[j].page
  BY <1>4, <1>8, <1>9
<1> QED  BY <1>8, <1>10 DEF Documents, new

\* Of a text that is not garbage all lines are left, or none: then it is on two
\* lines or more, and there is more than one page.
LEMMA OccurrencesLeft ==
  ASSUME NEW ls \in Seq(Line), NEW t \in Texts \ (Garbage \cup {Blank})
  PROVE  \/ Occurrences(NormalizeLines(ls), t) = Occurrences(ls, t)
         \/ /\ Occurrences(NormalizeLines(ls), t) = 0
            /\ Occurrences(ls, t) >= 2
            /\ \E i \in DOMAIN ls : ls[i].page > 1
<1> DEFINE I == Left(ls)
           kept == Select(ls, I)
           new == NormalizeLines(ls)
           P == {i \in DOMAIN ls : ls[i].text = t}
           N == {k \in DOMAIN new : new[k].text = t}
<1>1. I \in SUBSET DOMAIN ls
      /\ new = [k \in DOMAIN kept |-> [text |-> Clean(kept[k].text), page |-> kept[k].page]]
  BY NormalizeSpec
<1>2. DOMAIN ls = 1 .. Len(ls) /\ Len(ls) \in Nat  OBVIOUS
<1>3. /\ DOMAIN kept \subseteq Nat
      /\ \A k \in DOMAIN kept : Nth(I, k) \in I /\ kept[k] = ls[Nth(I, k)]
      /\ \A i \in I : \E k \in DOMAIN kept : Nth(I, k) = i
      /\ \A k, l \in DOMAIN kept : k < l => Nth(I, k) < Nth(I, l)
  BY <1>1, SelectSpec
<1>4. \A u \in Texts : Clean(u) = t <=> u = t  BY DEF Clean
<1>5. ASSUME NEW k \in DOMAIN new
      PROVE  k \in DOMAIN kept /\ (new[k].text = t <=> ls[Nth(I, k)].text = t)
  <2>1. k \in DOMAIN kept /\ new[k].text = Clean(kept[k].text)  BY <1>1
  <2>2. Nth(I, k) \in DOMAIN ls /\ kept[k] = ls[Nth(I, k)]  BY <1>1, <1>3, <2>1
  <2>3. ls[Nth(I, k)].text \in Texts  BY <2>2, LinePage
  <2> QED  BY <1>4, <2>1, <2>2, <2>3
<1>6. DOMAIN new = DOMAIN kept  BY <1>1
<1>7. IsFiniteSet(P)
  <2>1. P \in SUBSET DOMAIN ls  OBVIOUS
  <2> HIDE DEF P
  <2> QED  BY <2>1, PositionsFinite
<1> HIDE DEF I, kept, new
<1>8. CASE ls = << >> \/ t \notin RecurringHeaders(ls)
  <2>1. P \subseteq I  BY <1>2, <1>8 DEF I, Left
  <2> DEFINE g == [k \in N |-> Nth(I, k)]
  <2>2. g \in [N -> P]  BY <1>1, <1>3, <1>5
  <2>3. \A i \in P : \E k \in N : g[k] = i  BY <1>3, <1>5, <1>6, <2>1
  <2>4. ASSUME NEW k \in N, NEW l \in N, g[k] = g[l] PROVE k = l
    <3>1. k \in DOMAIN kept /\ l \in DOMAIN kept /\ Nth(I, k) = Nth(I, l)  BY <1>6, <2>4
    <3>2. Nth(I, k) \in Nat /\ k \in Nat /\ l \in Nat  BY <1>1, <1>2, <1>3, <3>1
    <3>3. ~(k < l) /\ ~(l < k)  BY <1>3, <3>1, <3>2
    <3> QED  BY <3>2, <3>3
  <2>5. g \in Bijection(N, P)
    <3> HIDE DEF g, N, P
    <3> QED  BY <2>2, <2>3, <2>4 DEF Bijection, Injection, Surjection, IsInjective
  <2>6. IsFiniteSet(N)
    <3> HIDE DEF g, N, P
    <3> QED  BY <1>7, <2>5, FS_Injection DEF Bijection
  <2>7. Cardinality(P) = Cardinality(N)
    <3> HIDE DEF g, N, P
    <3> QED  BY <2>5, <2>6, FS_Bijection DEF ExistsBijection
  <2> QED  BY <2>7 DEF Occurrences, new
<1>9. CASE ls # << >> /\ t \in RecurringHeaders(ls)
  <2>1. N = {}
    <3>1. \A i \in I : ls[i].text # t  BY <1>9 DEF I, Left
    <3> QED  BY <1>3, <1>5, <3>1
  <2>2. Cardinality(N) = 0  BY <2>1, FS_EmptySet
  <2>3. TotalPages(ls) > 1 /\ Occurrences(ls, t) >= Threshold(ls)
    BY <1>9 DEF RecurringHeaders
  <2>4. TotalPages(ls) \in Nat /\ \E i \in DOMAIN ls : ls[i].page = TotalPages(ls)
    BY <1>9, TotalPagesSpec
  <2>5. Threshold(ls) >= 2 /\ Threshold(ls) \in Nat
    <3>1. TotalPages(ls) \div 2 \in Nat  BY <2>4, SMT
    <3> QED  BY <3>1 DEF Threshold
  <2>6. Occurrences(ls, t) \in Nat
    <3> HIDE DEF P
    <3>1. Cardinality(P) \in Nat  BY <1>7, FS_CardinalityType
    <3> QED  BY <3>1 DEF Occurrences, P
  <2>7. Occurrences(ls, t) >= 2  BY <2>3, <2>5, <2>6
  <2> QED  BY <2>2, <2>3, <2>4, <2>7 DEF Occurrences, new
<1> QED  BY <1>8, <1>9

-----------------------------------------------------------------------------
(* The goroutine, the channel and the worker. *)

ExtTypes ==
  /\ output \in Outputs
  /\ scanned \in 0 .. Len(output)
  /\ unsent \in Seq(Line) /\ extractedLines \in Seq(Line)
  /\ lineChan \in Seq(Line) /\ Len(lineChan) <= ChanCap
  /\ extractor \in {"scanning", "returning", "returned", "ended"}
  /\ reader \in {"receiving", "read", "failed", "done", "normalized"}
  /\ error \in BOOLEAN /\ closed \in BOOLEAN /\ extractErr \in BOOLEAN

\* What the worker has, what is in the channel and what waits to be sent are the lines
\* that were scanned.
ScannedInv ==
  /\ currentPage = 1 + FormFeeds(output)[scanned]
  /\ extractedLines \o (lineChan \o unsent) = LinesUpTo(output)[scanned]

\* The channel is closed behind the last line, or behind an error, and the worker does
\* not go on before it is closed and empty.
ClosedInv ==
  /\ unsent # << >> => extractor = "scanning"
  /\ extractor # "scanning" => scanned = Len(output) \/ error
  /\ closed => extractor \in {"returned", "ended"}
  /\ reader # "receiving" => closed /\ lineChan = << >>

NormalizedInv == reader = "normalized" => lines = NormalizeLines(extractedLines)

ExtInv == ExtTypes /\ ScannedInv /\ ClosedInv

\* The lines before, in and behind the channel, in either grouping.
LEMMA LinesRegroup ==
  \A a, b, c \in Seq(Line) : (a \o b) \o c = a \o (b \o c)
BY ConcatAssociative

\* The first of one sequence put behind the other.
LEMMA MoveHead ==
  ASSUME NEW T, NEW c \in Seq(T), NEW u \in Seq(T), u # << >>
  PROVE  /\ Append(c, Head(u)) \o Tail(u) = c \o u
         /\ Append(c, Head(u)) \in Seq(T) /\ Tail(u) \in Seq(T)
         /\ Len(Append(c, Head(u))) = Len(c) + 1
<1>1. /\ Head(u) \in T /\ Tail(u) \in Seq(T) /\ Len(Tail(u)) = Len(u) - 1
      /\ \A i \in 1 .. Len(Tail(u)) : Tail(u)[i] = u[i + 1]
      /\ Head(u) = u[1]
  BY HeadTailProperties
<1> DEFINE a == Append(c, Head(u))
           t == Tail(u)
<1>2. /\ a \in Seq(T) /\ Len(a) = Len(c) + 1
      /\ \A i \in 1 .. Len(c) : a[i] = c[i]
      /\ a[Len(c) + 1] = u[1]
  BY <1>1, AppendProperties
<1>3. Len(c) \in Nat /\ Len(u) \in Nat \ {0}  OBVIOUS
<1>4. t \in Seq(T) /\ Len(t) = Len(u) - 1 /\ \A i \in 1 .. Len(t) : t[i] = u[i + 1]
  BY <1>1
<1> HIDE DEF a, t
<1>5. /\ a \o t \in Seq(T) /\ Len(a \o t) = Len(a) + Len(t)
      /\ \A i \in 1 .. Len(a) + Len(t) : (a \o t)[i] = IF i <= Len(a) THEN a[i] ELSE t[i - Len(a)]
  BY <1>2, <1>4, ConcatProperties
<1>6. /\ c \o u \in Seq(T) /\ Len(c \o u) = Len(c) + Len(u)
      /\ \A i \in 1 .. Len(c) + Len(u) : (c \o u)[i] = IF i <= Len(c) THEN c[i] ELSE u[i - Len(c)]
  BY ConcatProperties
<1>7. Len(a \o t) = Len(c \o u) /\ Len(a) + Len(t) = Len(c) + Len(u)
  BY <1>2, <1>3, <1>4, <1>5, <1>6
<1>8. ASSUME NEW i \in 1 .. Len(c) + Len(u) PROVE (a \o t)[i] = (c \o u)[i]
  <2>1. CASE i \in 1 .. Len(c)  BY <1>2, <1>3, <1>5, <1>6, <1>7, <2>1
  <2>2. CASE i = Len(c) + 1
    <3>1. (a \o t)[i] = a[Len(c) + 1]  BY <1>2, <1>3, <1>5, <1>7, <1>8, <2>2
    <3>2. (c \o u)[i] = u[1]  BY <1>3, <1>6, <1>8, <2>2
    <3> QED  BY <1>2, <3>1, <3>2
  <2>3. CASE i > Len(c) + 1
    <3>1. (a \o t)[i] = t[i - Len(a)]  BY <1>2, <1>3, <1>5, <1>7, <1>8, <2>3
    <3>2. (c \o u)[i] = u[i - Len(c)]  BY <1>3, <1>6, <1>8, <2>3
    <3>3. i - Len(a) \in 1 .. Len(t) /\ i - Len(a) + 1 = i - Len(c)
      BY <1>2, <1>3, <1>4, <1>8, <2>3
    <3> QED  BY <1>4, <3>1, <3>2, <3>3
  <2>4. i \in 1 .. Len(c) \/ i = Len(c) + 1 \/ i > Len(c) + 1  BY <1>3
  <2> QED  BY <2>1, <2>2, <2>3, <2>4
<1>9. a \o t = c \o u
  BY <1>5, <1>6, <1>7, <1>8, SeqEqual
<1> QED  BY <1>2, <1>4, <1>9 DEF a, t

LEMMA ExtInvInit == ExtInit => ExtInv
<1> SUFFICES ASSUME ExtInit PROVE ExtInv
  OBVIOUS
<1>1. output \in Outputs /\ scanned = 0 /\ 0 \in 0 .. Len(output)
  BY OutputParts DEF ExtInit
<1>2. Len(lineChan) = 0 /\ 0 <= ChanCap  BY ExtractorAssumption DEF ExtInit
<1>3. ExtTypes
  <2>1. << >> \in Seq(Line)  OBVIOUS
  <2> QED  BY <1>1, <1>2, <2>1 DEF ExtInit, ExtTypes
<1>4. FormFeeds(output)[0] = 0 /\ LinesUpTo(output)[0] = << >>
  BY <1>1, FeedsSpec, LinesUpToSpec
<1>5. ScannedInv  BY <1>1, <1>4 DEF ExtInit, ScannedInv
<1>6. ClosedInv  BY DEF ExtInit, ClosedInv
<1> QED  BY <1>3, <1>5, <1>6 DEF ExtInv

LEMMA ScanInv == ASSUME ExtInv, Scan PROVE ExtInv'
<1> DEFINE k == scanned + 1
<1>1. /\ output \in Outputs /\ scanned \in 0 .. Len(output) /\ unsent = << >>
      /\ extractor = "scanning" /\ k \in 1 .. Len(output) /\ k - 1 = scanned
      /\ lineChan \in Seq(Line) /\ extractedLines \in Seq(Line)
      /\ scanned' = k /\ unsent' = Split(output[k], currentPage)
      /\ currentPage' = currentPage + Len(output[k]) - 1
      /\ UNCHANGED <<output, extractor, error, lineChan, closed, extractErr, extractedLines,
                     reader>>
  BY OutputParts DEF ExtInv, ExtTypes, Scan
<1> HIDE DEF k
<1>2. currentPage = 1 + FormFeeds(output)[scanned]
      /\ extractedLines \o (lineChan \o unsent) = LinesUpTo(output)[scanned]
  BY DEF ExtInv, ScannedInv
<1>3. unsent' = Visible(output, k) /\ Visible(output, k) \in Seq(Line)
  BY <1>1, <1>2, VisibleSpec DEF Ascend
<1>4. currentPage' = 1 + FormFeeds(output)[k]
  <2>1. FormFeeds(output)[scanned] \in Nat
        /\ FormFeeds(output)[k] = FormFeeds(output)[scanned] + Len(output[k]) - 1
    BY <1>1, FeedsSpec
  <2>2. Len(output[k]) \in Nat  BY <1>1, OutputParts
  <2> QED  BY <1>1, <1>2, <2>1, <2>2
<1>5. extractedLines \o (lineChan \o Visible(output, k)) = LinesUpTo(output)[k]
  <2>1. lineChan \o unsent = lineChan  BY <1>1, ConcatEmptySeq
  <2>2. extractedLines \o lineChan = LinesUpTo(output)[scanned]  BY <1>2, <2>1
  <2>3. LinesUpTo(output)[k] = LinesUpTo(output)[scanned] \o Visible(output, k)
    BY <1>1, LinesUpToSpec
  <2>4. /\ extractedLines \in Seq(Line) /\ lineChan \in Seq(Line)
        /\ Visible(output, k) \in Seq(Line)
    BY <1>1, <1>3
  <2>5. (extractedLines \o lineChan) \o Visible(output, k)
          = extractedLines \o (lineChan \o Visible(output, k))
    BY <2>4, LinesRegroup, Zenon
  <2> QED  BY <2>2, <2>3, <2>5
<1>6. ScannedInv'  BY <1>1, <1>3, <1>4, <1>5 DEF ScannedInv
<1>7. ExtTypes'
  <2>1. k \in 0 .. Len(output)  BY <1>1, OutputParts
  <2> QED  BY <1>1, <1>3, <2>1 DEF ExtInv, ExtTypes
<1>8. ClosedInv'  BY <1>1 DEF ExtInv, ClosedInv
<1> QED  BY <1>6, <1>7, <1>8 DEF ExtInv

LEMMA SendLineInv == ASSUME ExtInv, SendLine PROVE ExtInv'
<1>1. /\ unsent # << >> /\ Len(lineChan) < ChanCap
      /\ unsent \in Seq(Line) /\ lineChan \in Seq(Line)
      /\ lineChan' = Append(lineChan, Head(unsent)) /\ unsent' = Tail(unsent)
      /\ UNCHANGED <<output, scanned, currentPage, extractor, error, closed, extractErr,
                     extractedLines, reader>>
  BY DEF ExtInv, ExtTypes, SendLine
<1>2. /\ lineChan' \o unsent' = lineChan \o unsent
      /\ lineChan' \in Seq(Line) /\ unsent' \in Seq(Line)
      /\ Len(lineChan') = Len(lineChan) + 1
  BY <1>1, MoveHead
<1>3. Len(lineChan') <= ChanCap
  <2>1. Len(lineChan) \in Nat /\ ChanCap \in Nat  BY <1>1, ExtractorAssumption
  <2> QED  BY <1>1, <1>2, <2>1
<1>4. ExtTypes'  BY <1>1, <1>2, <1>3 DEF ExtInv, ExtTypes
<1>5. ScannedInv'  BY <1>1, <1>2 DEF ExtInv, ScannedInv
<1>6. ClosedInv'
  <2>1. extractor = "scanning" /\ ~closed /\ reader = "receiving"
    BY <1>1 DEF ExtInv, ExtTypes, ClosedInv
  <2> QED  BY <1>1, <2>1 DEF ClosedInv
<1> QED  BY <1>4, <1>5, <1>6 DEF ExtInv

LEMMA ReceiveInv == ASSUME ExtInv, Receive PROVE ExtInv'
<1>1. /\ reader = "receiving" /\ lineChan # << >>
      /\ unsent \in Seq(Line) /\ lineChan \in Seq(Line) /\ extractedLines \in Seq(Line)
      /\ Len(lineChan) <= ChanCap
      /\ extractedLines' = Append(extractedLines, Head(lineChan)) /\ lineChan' = Tail(lineChan)
      /\ UNCHANGED <<output, scanned, currentPage, unsent, extractor, error, closed,
                     extractErr, reader>>
  BY DEF ExtInv, ExtTypes, Receive
<1>2. /\ extractedLines' \o lineChan' = extractedLines \o lineChan
      /\ extractedLines' \in Seq(Line) /\ lineChan' \in Seq(Line)
  BY <1>1, MoveHead
<1>3. extractedLines' \o (lineChan' \o unsent') = extractedLines \o (lineChan \o unsent)
  <2>1. /\ extractedLines \in Seq(Line) /\ lineChan \in Seq(Line) /\ unsent \in Seq(Line)
        /\ extractedLines' \in Seq(Line) /\ lineChan' \in Seq(Line) /\ unsent' = unsent
    BY <1>1, <1>2
  <2>2. extractedLines' \o (lineChan' \o unsent) = (extractedLines' \o lineChan') \o unsent
    BY <2>1, LinesRegroup, Zenon
  <2>3. extractedLines \o (lineChan \o unsent) = (extractedLines \o lineChan) \o unsent
    BY <2>1, LinesRegroup, Zenon
  <2> QED  BY <1>2, <2>1, <2>2, <2>3
<1>4. Len(lineChan') <= ChanCap
  <2>1. Len(Tail(lineChan)) = Len(lineChan) - 1  BY <1>1, HeadTailProperties
  <2>2. Len(lineChan) \in Nat /\ ChanCap \in Nat  BY <1>1, ExtractorAssumption
  <2> QED  BY <1>1, <2>1, <2>2
<1>5. ExtTypes'  BY <1>1, <1>2, <1>4 DEF ExtInv, ExtTypes
<1>6. ScannedInv'  BY <1>1, <1>3 DEF ExtInv, ScannedInv
<1>7. ClosedInv'  BY <1>1 DEF ExtInv, ClosedInv
<1> QED  BY <1>5, <1>6, <1>7 DEF ExtInv

\* Steps that move no line.
LEMMA NoLineInv ==
  ASSUME ExtInv, UNCHANGED <<output, scanned, currentPage, unsent, lineChan, extractedLines>>,
         \/ ScanEnds \/ CloseChan \/ AssignError \/ ReadError
         \/ /\ reader = "read" /\ reader' = "normalized"
            /\ UNCHANGED <<extractor, error, closed, extractErr>>
         \/ UNCHANGED <<extractor, error, closed, extractErr, reader>>
  PROVE  ExtInv'
<1>1. ScannedInv'  BY DEF ExtInv, ScannedInv
<1>2. CASE ScanEnds
  BY <1>1, <1>2 DEF ScanEnds, ExtInv, ExtTypes, ClosedInv
<1>3. CASE CloseChan
  BY <1>1, <1>3 DEF CloseChan, ExtInv, ExtTypes, ClosedInv
<1>4. CASE AssignError
  BY <1>1, <1>4 DEF AssignError, ExtInv, ExtTypes, ClosedInv
<1>5. CASE ReadError
  <2>1. reader' \in {"failed", "done", "read"}  BY <1>5 DEF ReadError
  <2>2. lineChan = << >> /\ closed /\ UNCHANGED <<extractor, error, closed, extractErr>>
    BY <1>5 DEF ReadError
  <2> QED  BY <1>1, <2>1, <2>2 DEF ExtInv, ExtTypes, ClosedInv
<1>6. CASE /\ reader = "read" /\ reader' = "normalized"
           /\ UNCHANGED <<extractor, error, closed, extractErr>>
  BY <1>1, <1>6 DEF ExtInv, ExtTypes, ClosedInv
<1>7. CASE UNCHANGED <<extractor, error, closed, extractErr, reader>>
  BY <1>1, <1>7 DEF ExtInv, ExtTypes, ClosedInv
<1> QED  BY <1>2, <1>3, <1>4, <1>5, <1>6, <1>7

-----------------------------------------------------------------------------
(* The whole. *)

TextInv == SegInv /\ FitInv /\ ExtInv /\ NormalizedInv

\* Whatever the worker has received is a document to the segmenter.
LEMMA ExtractedDocuments == ExtInv => NormalizeLines(extractedLines) \in Documents
<1> SUFFICES ASSUME ExtInv PROVE NormalizeLines(extractedLines) \in Documents
  OBVIOUS
<1> DEFINE to == 1 + FormFeeds(output)[scanned]
<1>1. /\ output \in Outputs /\ scanned \in 0 .. Len(output)
      /\ extractedLines \in Seq(Line) /\ lineChan \in Seq(Line) /\ unsent \in Seq(Line)
      /\ extractedLines \o (lineChan \o unsent) = LinesUpTo(output)[scanned]
  BY DEF ExtInv, ExtTypes, ScannedInv
<1>2. Ascend(extractedLines \o (lineChan \o unsent), 1, to)  BY <1>1, LinesAscend
<1>3. lineChan \o unsent \in Seq(Line)  BY <1>1, ConcatProperties
<1> HIDE DEF to
<1>4. Ascend(extractedLines, 1, to)  BY <1>1, <1>2, <1>3, AscendsBefore
<1> QED  BY <1>4, NormalizedDocuments

LEMMA SegStepLines == SegStep => lines' = lines
BY DEF SegStep, JoinLine, Joined, SlideWindow, ParagraphLine, ParagraphsEnd, SentenceLine,
       SentencesEnd, ReadUnit, UnitsEnd

\* The steps of the text are steps of the segmenter, or leave it alone.
LEMMA SegmenterSteps == ExtInv /\ [Next]_vars => [SegNext]_segVars
<1> SUFFICES ASSUME ExtInv, [Next]_vars PROVE [SegNext]_segVars
  OBVIOUS
<1>1. CASE Normalize
  BY <1>1, ExtractedDocuments DEF Normalize, SegNext
<1>2. CASE SegStep  BY <1>2 DEF SegNext
<1>3. CASE UNCHANGED segVars  BY <1>3
<1> QED  BY <1>1, <1>2, <1>3 DEF Next, WorkerStep, vars

LEMMA ExtInvStep == ExtInv /\ [Next]_vars => ExtInv'
<1> SUFFICES ASSUME ExtInv, [Next]_vars PROVE ExtInv'
  OBVIOUS
<1>1. CASE Receive  BY <1>1, ReceiveInv
<1>2. CASE ReadError  BY <1>2, NoLineInv DEF ReadError
<1>3. CASE Normalize  BY <1>3, NoLineInv DEF Normalize
<1>4. CASE UNCHANGED extVars  BY <1>4, NoLineInv DEF extVars
<1>5. CASE Scan  BY <1>5, ScanInv
<1>6. CASE SendLine  BY <1>6, SendLineInv
<1>7. CASE ScanEnds  BY <1>7, NoLineInv DEF ScanEnds
<1>8. CASE CloseChan  BY <1>8, NoLineInv DEF CloseChan
<1>9. CASE AssignError  BY <1>9, NoLineInv DEF AssignError
<1> QED
  BY <1>1, <1>2, <1>3, <1>4, <1>5, <1>6, <1>7, <1>8, <1>9
  DEF Next, WorkerStep, ExtractorStep, vars

LEMMA NormalizedStep == NormalizedInv /\ [Next]_vars => NormalizedInv'
<1> SUFFICES ASSUME NormalizedInv, [Next]_vars PROVE NormalizedInv'
  OBVIOUS
<1>1. CASE Receive /\ UNCHANGED segVars
  BY <1>1 DEF Receive, NormalizedInv
<1>2. CASE ReadError /\ UNCHANGED segVars
  <2>1. reader' \in {"failed", "done", "read"}  BY <1>2 DEF ReadError
  <2> QED  BY <2>1 DEF NormalizedInv
<1>3. CASE Normalize
  BY <1>3 DEF Normalize, SegmentDocument, NormalizedInv
<1>4. CASE SegStep /\ UNCHANGED extVars
  <2>1. lines' = lines /\ UNCHANGED <<reader, extractedLines>>  BY <1>4, SegStepLines DEF extVars
  <2> QED  BY <2>1 DEF NormalizedInv
<1>5. CASE ExtractorStep /\ UNCHANGED segVars
  <2>1. lines' = lines /\ UNCHANGED <<reader, extractedLines>>
    BY <1>5 DEF ExtractorStep, Scan, SendLine, ScanEnds, CloseChan, AssignError, segVars
  <2> QED  BY <2>1 DEF NormalizedInv
<1>6. CASE UNCHANGED vars
  BY <1>6 DEF vars, extVars, segVars, NormalizedInv
<1> QED  BY <1>1, <1>2, <1>3, <1>4, <1>5, <1>6 DEF Next, WorkerStep

LEMMA TextInvariant == Spec => []TextInv
<1>1. Init => TextInv
  BY SegInvInit, FitInit, ExtInvInit DEF Init, ExtInit, TextInv, NormalizedInv
<1>2. TextInv /\ [Next]_vars => TextInv'
  BY SegmenterSteps, SegInvStep, FitStep, ExtInvStep, NormalizedStep DEF TextInv
<1> QED  BY <1>1, <1>2, PTL DEF Spec

\* Extraction, the channel and NormalizeLines only ever hand a document with its pages in
\* order to SegmentDocument: ProcessDocument's text is a behaviour of the segmenter.
THEOREM TextSegments == Spec => SegSpec
<1>1. Init => SegInit  BY DEF Init
<1>2. TextInv /\ [Next]_vars => [SegNext]_segVars  BY SegmenterSteps DEF TextInv
<1> QED  BY <1>1, <1>2, TextInvariant, PTL DEF Spec, SegSpec

\* The types of the goroutine of ExtractFromReader, of its channel, whose room it keeps
\* to, and of the worker that normalises and segments.
THEOREM TextTypes == Spec => []TypeOK
<1>1. TextInv => TypeOK
  <2> SUFFICES ASSUME TextInv PROVE TypeOK
    OBVIOUS
  <2>1. SegTypeOK  BY DEF TextInv, SegInv, SegShapes, FitInv, SegTypeOK
  <2>2. currentPage \in Nat
    <3>1. FormFeeds(output)[scanned] \in Nat  BY FeedsSpec DEF TextInv, ExtInv, ExtTypes
    <3> QED  BY <3>1 DEF TextInv, ExtInv, ScannedInv
  <2>3. ExtTypeOK  BY <2>2 DEF TextInv, ExtInv, ExtTypes, ExtTypeOK
  <2> QED  BY <2>1, <2>3 DEF TypeOK
<1> QED  BY <1>1, TextInvariant, PTL

LEMMA ExtLines == ExtInv => LinesInOrder
<1> SUFFICES ASSUME ExtInv PROVE LinesInOrder
  OBVIOUS
<1>1. /\ output \in Outputs /\ scanned \in 0 .. Len(output)
      /\ extractedLines \in Seq(Line) /\ lineChan \in Seq(Line) /\ unsent \in Seq(Line)
      /\ extractedLines \o (lineChan \o unsent) = LinesUpTo(output)[scanned]
  BY DEF ExtInv, ExtTypes, ScannedInv
<1>2. (extractedLines \o lineChan) \o unsent = LinesUpTo(output)[scanned]
  <2>1. extractedLines \in Seq(Line) /\ lineChan \in Seq(Line) /\ unsent \in Seq(Line)
    BY <1>1
  <2>2. (extractedLines \o lineChan) \o unsent = extractedLines \o (lineChan \o unsent)
    BY <2>1, LinesRegroup, Zenon
  <2> QED  BY <1>1, <2>2
<1>3. IsPrefix(LinesUpTo(output)[scanned], LinesOf(output))  BY <1>1, LinesPrefix
<1>4. ASSUME reader \in {"read", "done", "normalized"}, extractedLines # LinesOf(output)
      PROVE  error
  <2>1. closed /\ lineChan = << >> /\ extractor # "scanning" /\ unsent = << >>
    BY <1>4 DEF ExtInv, ClosedInv
  <2>2. extractedLines = LinesUpTo(output)[scanned]
    <3>1. lineChan \o unsent = << >>  BY <2>1
    <3> QED  BY <1>1, <3>1, ConcatEmptySeq
  <2>3. scanned # Len(output)  BY <1>4, <2>2 DEF LinesOf
  <2> QED  BY <2>1, <2>3 DEF ExtInv, ClosedInv
<1> QED  BY <1>2, <1>3, <1>4 DEF LinesInOrder

\* ExtractFromReader and the loop over lineChan: every line arrives once, in order and on
\* its page, and a document that is cut short is an error.
THEOREM TextLines == Spec => []LinesInOrder
<1>1. TextInv => LinesInOrder  BY ExtLines DEF TextInv
<1> QED  BY <1>1, TextInvariant, PTL

\* NormalizeLines removes no text but one that recurs, in a document of several pages.
THEOREM TextHeaders == Spec => []HeadersRecur
<1>1. TextInv => HeadersRecur
  <2> SUFFICES ASSUME TextInv, reader = "normalized", NEW t \in Texts \ (Garbage \cup {Blank})
               PROVE  \/ Occurrences(lines, t) = Occurrences(extractedLines, t)
                      \/ /\ Occurrences(lines, t) = 0
                         /\ Occurrences(extractedLines, t) >= 2
                         /\ \E i \in DOMAIN extractedLines : extractedLines[i].page > 1
    BY DEF HeadersRecur
  <2>1. lines = NormalizeLines(extractedLines) /\ extractedLines \in Seq(Line)
    BY DEF TextInv, NormalizedInv, ExtInv, ExtTypes
  <2> QED  BY <2>1, OccurrencesLeft
<1> QED  BY <1>1, TextInvariant, PTL

\* What is proved of SegmentDocument holds where it runs behind the extraction.
THEOREM TextChunks == Spec => [](NothingLost /\ ChunksAdvance /\ ChunksFit)
<1>1. TextInv => NothingLost /\ ChunksAdvance /\ ChunksFit  BY DEF TextInv, SegInv, FitInv
<1> QED  BY <1>1, TextInvariant, PTL
=============================================================================
