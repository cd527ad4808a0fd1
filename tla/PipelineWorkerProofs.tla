------------------------- MODULE PipelineWorkerProofs -------------------------
(***************************************************************************)
(* Proofs about the pipeline worker, for any documents, workers, pods and  *)
(* any number of deliveries and crashes: it runs the deduplicator as it    *)
(* is, and what it stores of a document is whole, of one attempt, and with *)
(* the vectors of its own content.                                         *)
(***************************************************************************)
EXTENDS PipelineWorker, ChunkDeduplicatorProofs, SelectionProofs

-----------------------------------------------------------------------------
(* The inductive invariant. *)

Early   == {"fetch", "extract", "dedup", "lookup"}
HasText == {"dedup", "lookup", "embed", "register"}
HasWork == {"embed", "register"}

\* What may be read of a document.
Texts(d) == {DocChunks[d]} \cup CutChunks[d]

\* What dropped chunks may do to the pairing of chunks and vectors depends on where
\* they are; what the INSERT does to a chunk, on whether it is repeated.
DroppedLast ==
  \A d \in Docs : \A text \in Texts(d) : \A i, k \in DOMAIN text :
    i < k /\ text[i] \in Dropped => text[k] \in Dropped

NoRepeats ==
  \A d \in Docs : \A text \in Texts(d) : \A i, k \in DOMAIN text :
    text[i] = text[k] => i = k

\* The text is what may be read of the document; all of it in a clean attempt.
TextTrue(j) ==
  /\ j.text \in Texts(j.doc)
  /\ j.clean => j.text = DocChunks[j.doc]

\* A final row is of this attempt, and the only one of its chunk.
FinalTrue(j) ==
  /\ \A r \in j.final : /\ r.doc = j.doc /\ r.by = j.try /\ r.clean = j.clean
                        /\ r.index \in DOMAIN j.text /\ r.hash = j.text[r.index]
  /\ \A r, s \in j.final : r.index = s.index => r = s

\* Chunks wait in the order of the text, and only those that have no row.
TodoTrue(j) ==
  /\ j.next \in 1 .. Len(j.todo) + 1
  /\ \A k \in DOMAIN j.todo : /\ j.todo[k].index \in DOMAIN j.text
                              /\ j.todo[k].hash = j.text[j.todo[k].index]
  /\ \A k, l \in DOMAIN j.todo : k < l => j.todo[k].index < j.todo[l].index
  /\ \A k \in j.next .. Len(j.todo) : \A r \in j.final : r.index # j.todo[k].index

\* No chunk worth storing gets lost on the way.
Covered(j) ==
  \A i \in DOMAIN j.text : j.text[i] \notin Dropped =>
    \/ \E r \in j.final : r.index = i
    \/ \E k \in j.next .. Len(j.todo) : j.todo[k].index = i

VecsTrue(j) ==
  /\ Len(j.todo) <= Len(j.vecs)
  /\ DroppedLast => \A i \in DOMAIN j.todo : j.todo[i].hash = j.vecs[i].hash
  /\ NoRepeats => \A i, k \in DOMAIN j.vecs : j.vecs[i].hash = j.vecs[k].hash => i = k

JobInv(j) ==
  /\ Len(j.todo) <= Len(j.text)
  /\ j.stage = "idle" => j.doc = NoDoc
  /\ j.stage \notin {"idle", "done"} => j.doc \in Docs
  /\ j.stage \in Early => j.todo = << >> /\ j.next = 1
  /\ j.stage \in HasText => TextTrue(j)
  /\ j.stage \in HasWork => FinalTrue(j) /\ TodoTrue(j) /\ Covered(j)
  /\ j.stage = "embed" => j.next = 1
  /\ j.stage = "register" => VecsTrue(j)

JobsInv == job \in [Workers -> Job] /\ \A w \in Workers : JobInv(job[w])

\* There is one row of each chunk, a row of a clean attempt is of its document, and
\* that attempt has stored all that is worth storing.
TableInv ==
  /\ chunks \subseteq Rows
  /\ \A r \in chunks : r.clean => /\ r.index \in DOMAIN DocChunks[r.doc]
                                  /\ r.hash = DocChunks[r.doc][r.index]
  /\ \A r, s \in chunks : r.doc = s.doc /\ r.index = s.index => r = s
  /\ \A r \in chunks : r.clean =>
       \A i \in DOMAIN DocChunks[r.doc] : DocChunks[r.doc][i] \notin Dropped =>
         \E s \in chunks : s.doc = r.doc /\ s.index = i /\ s.by = r.by /\ s.clean

\* The id was made for the hash, wherever it has come to.
MadeFor(h, id) ==
  \/ vectors[h] = id
  \/ <<h, id>> \in registered
  \/ \E w \in Workers : \E i \in DOMAIN job[w].vecs :
       job[w].vecs[i].id = id /\ job[w].vecs[i].hash = h

\* An id is made for one hash only, and rows have ids that were made for theirs.
IdInv ==
  /\ \A h, g \in Hashes : \A id \in VectorIDs : MadeFor(h, id) /\ MadeFor(g, id) => h = g
  /\ \A h \in Hashes : \A id \in VectorIDs : MadeFor(h, id) => id <= minted
  /\ VectorMatchesContent

\* The rows of an attempt have ids that were stored or registered for them.
FinalVouched ==
  \A w \in Workers : job[w].stage \in HasWork => \A r \in job[w].final : Vouched(r.hash, r.vector)

PipeInv ==
  /\ CacheInv
  /\ JobsInv
  /\ TableInv
  /\ attempts \in [Docs -> 0 .. MaxAttempts]
  /\ minted \in 0 .. MaxVectors
  /\ SuccessMeansStored
  /\ RefusedMeansStored
  /\ BindingsVouched
  /\ FinalVouched
  /\ DroppedLast => IdInv

-----------------------------------------------------------------------------
(* One worker's attempt. *)

LEMMA JobUpdated ==
  ASSUME JobsInv, NEW w \in Workers, NEW jn \in Job, JobInv(jn),
         job' = [job EXCEPT ![w] = jn]
  PROVE  JobsInv'
<1>1. job' \in [Workers -> Job]  BY DEF JobsInv
<1>2. ASSUME NEW v \in Workers PROVE JobInv(job'[v])
  <2>1. CASE v = w  BY <2>1 DEF JobsInv
  <2>2. CASE v # w
    <3>1. job'[v] = job[v]  BY <2>2 DEF JobsInv
    <3> QED  BY <3>1 DEF JobsInv
  <2> QED  BY <2>1, <2>2
<1> QED  BY <1>1, <1>2 DEF JobsInv

LEMMA StageChanged ==
  ASSUME NEW j \in Job, NEW s \in Stages
  PROVE  LET jn == [j EXCEPT !.stage = s]
         IN /\ jn \in Job /\ jn.stage = s /\ jn.doc = j.doc /\ jn.text = j.text
            /\ jn.todo = j.todo /\ jn.next = j.next /\ jn.clean = j.clean
            /\ jn.final = j.final /\ jn.try = j.try /\ jn.vecs = j.vecs
BY DEF Job

LEMMA JobFailed ==
  ASSUME NEW j \in Job, NEW y \in Errors
  PROVE  LET jn == [j EXCEPT !.stage = "failed", !.why = y]
         IN /\ jn \in Job /\ jn.stage = "failed" /\ jn.doc = j.doc /\ jn.text = j.text
            /\ jn.todo = j.todo /\ jn.vecs = j.vecs /\ jn.why = y
BY DEF Job, Stages

LEMMA GotoIs ==
  ASSUME JobsInv, NEW w \in Workers, NEW s, NEW y
  PROVE  /\ Goto(w, s) => job' = [job EXCEPT ![w] = [job[w] EXCEPT !.stage = s]]
         /\ FailWith(w, y) => job' = [job EXCEPT ![w] = [job[w] EXCEPT !.stage = "failed", !.why = y]]
BY DEF Goto, FailWith, JobsInv, Job

LEMMA NoJobInv == NoJob \in Job /\ JobInv(NoJob)
<1>1. << >> \in Seq(Hashes) /\ << >> \in Seq(PendingChunk) /\ << >> \in Seq(NewVector)
  OBVIOUS
<1>2. NoJob \in Job  BY <1>1 DEF NoJob, Job, Stages, Errors
<1>3. JobInv(NoJob)  BY DEF NoJob, JobInv, Early, HasText, HasWork
<1> QED  BY <1>2, <1>3

LEMMA FailJob ==
  ASSUME JobsInv, NEW w \in Workers, NEW y \in Errors, FailWith(w, y),
         job[w].stage \notin {"idle", "done"}
  PROVE  JobsInv'
<1> DEFINE jn == [job[w] EXCEPT !.stage = "failed", !.why = y]
<1>1. job[w] \in Job /\ JobInv(job[w])  BY DEF JobsInv
<1>3. /\ jn \in Job /\ jn.stage = "failed" /\ jn.doc = job[w].doc
      /\ jn.text = job[w].text /\ jn.todo = job[w].todo
  BY <1>1, JobFailed
<1>4. job' = [job EXCEPT ![w] = jn]  BY GotoIs
<1> HIDE DEF jn
<1>5. JobInv(jn)  BY <1>1, <1>3 DEF JobInv, Early, HasText, HasWork
<1> QED  BY <1>3, <1>4, <1>5, JobUpdated

LEMMA StartJob ==
  ASSUME JobsInv, attempts \in [Docs -> 0 .. MaxAttempts],
         NEW w \in Workers, NEW d \in Docs \cup {NoDoc}, Start(w, d)
  PROVE  JobsInv' /\ attempts' \in [Docs -> 0 .. MaxAttempts]
<1>1. job[w] \in Job /\ JobInv(job[w]) /\ job[w].stage = "idle"  BY DEF JobsInv, Start, At
<1>2. CASE d = NoDoc
  <2> DEFINE jn == [job[w] EXCEPT !.stage = "done"]
  <2>1. Goto(w, "done") /\ UNCHANGED attempts  BY <1>2, DocAssumption DEF Start
  <2>2. job' = [job EXCEPT ![w] = jn]  BY <2>1, GotoIs
  <2>3. "done" \in Stages  BY DEF Stages
  <2>4. /\ jn \in Job /\ jn.stage = "done" /\ jn.text = job[w].text /\ jn.todo = job[w].todo
    BY <1>1, <2>3, StageChanged
  <2> HIDE DEF jn
  <2>5. JobInv(jn)  BY <1>1, <2>4 DEF JobInv, Early, HasText, HasWork
  <2> QED  BY <2>1, <2>2, <2>4, <2>5, JobUpdated
<1>3. CASE d # NoDoc
  <2> DEFINE jn == [NoJob EXCEPT !.stage = "fetch", !.doc = d, !.try = attempts[d] + 1]
  <2>1. /\ d \in Docs /\ attempts[d] < MaxAttempts
        /\ attempts' = [attempts EXCEPT ![d] = @ + 1]
        /\ job' = [job EXCEPT ![w] = jn]
    BY <1>3 DEF Start
  <2>2. attempts[d] \in Nat /\ attempts' \in [Docs -> 0 .. MaxAttempts]  BY <2>1, BoundAssumption
  <2>3. attempts[d] + 1 \in Nat /\ d \in Docs \cup {NoDoc} /\ "fetch" \in Stages
    BY <2>1, <2>2 DEF Stages
  <2>4. jn \in Job  BY <2>3, NoJobInv DEF Job
  <2>5. jn.stage = "fetch" /\ jn.doc = d /\ jn.text = << >> /\ jn.todo = << >> /\ jn.next = 1
    BY DEF NoJob
  <2> HIDE DEF jn
  <2>6. JobInv(jn)  BY <2>1, <2>5 DEF JobInv, Early, HasText, HasWork
  <2> QED  BY <2>1, <2>2, <2>4, <2>6, JobUpdated
<1> QED  BY <1>2, <1>3

LEMMA FetchJob ==
  ASSUME JobsInv, NEW w \in Workers, Fetch(w)
  PROVE  JobsInv'
<1>1. job[w] \in Job /\ JobInv(job[w]) /\ job[w].stage = "fetch"  BY DEF JobsInv, Fetch, At
<1>2. CASE FailWith(w, "fetch")
  BY <1>1, <1>2, FailJob DEF Errors
<1>3. CASE Goto(w, "extract")
  <2> DEFINE jn == [job[w] EXCEPT !.stage = "extract"]
  <2>1. job' = [job EXCEPT ![w] = jn]  BY <1>3, GotoIs
  <2>2. "extract" \in Stages  BY DEF Stages
  <2>3. /\ jn \in Job /\ jn.stage = "extract" /\ jn.doc = job[w].doc /\ jn.text = job[w].text
        /\ jn.todo = job[w].todo /\ jn.next = job[w].next
    BY <1>1, <2>2, StageChanged
  <2> HIDE DEF jn
  <2>4. JobInv(jn)  BY <1>1, <2>3 DEF JobInv, Early, HasText, HasWork
  <2> QED  BY <2>1, <2>3, <2>4, JobUpdated
<1> QED  BY <1>2, <1>3 DEF Fetch

LEMMA ReadJob ==
  ASSUME JobsInv, NEW w \in Workers, At(w, "extract"), NEW text \in Seq(Hashes),
         NEW clean \in BOOLEAN, Read(w, text, clean),
         text \in Texts(job[w].doc), clean => text = DocChunks[job[w].doc]
  PROVE  JobsInv'
<1> DEFINE s  == IF text = << >> THEN "done" ELSE "dedup"
           jn == [job[w] EXCEPT !.stage = s, !.text = text, !.clean = clean]
<1>1. job[w] \in Job /\ JobInv(job[w]) /\ job[w].stage = "extract"  BY DEF JobsInv, At
<1>2. job[w].todo = << >> /\ job[w].next = 1 /\ job[w].doc \in Docs
  BY <1>1 DEF JobInv, Early
<1>3. job' = [job EXCEPT ![w] = jn]  BY DEF Read, JobsInv
<1>4. s \in {"done", "dedup"}  OBVIOUS
<1> HIDE DEF s
<1>5. /\ jn \in Job /\ jn.stage = s /\ jn.doc = job[w].doc /\ jn.text = text
      /\ jn.todo = << >> /\ jn.next = 1 /\ jn.clean = clean
  <2>1. s \in Stages  BY <1>4 DEF Stages
  <2> QED  BY <1>1, <1>2, <2>1 DEF Job
<1> HIDE DEF jn
<1>6. TextTrue(jn)  BY <1>5 DEF TextTrue
<1>7. JobInv(jn)  BY <1>2, <1>4, <1>5, <1>6 DEF JobInv, Early, HasText, HasWork
<1> QED  BY <1>3, <1>5, <1>7, JobUpdated

LEMMA ExtractJob ==
  ASSUME JobsInv, NEW w \in Workers, Extract(w)
  PROVE  JobsInv'
<1> DEFINE all == DocChunks[job[w].doc]
<1>1. job[w] \in Job /\ JobInv(job[w]) /\ job[w].stage = "extract" /\ At(w, "extract")
  BY DEF JobsInv, Extract, At
<1>2. job[w].doc \in Docs  BY <1>1 DEF JobInv
<1>3. all \in Seq(Hashes) /\ all \in Texts(job[w].doc)  BY <1>2, DocAssumption DEF Texts
<1>4. CASE Read(w, all, TRUE)
  <2>1. TRUE \in BOOLEAN /\ (TRUE => all = DocChunks[job[w].doc])  OBVIOUS
  <2> HIDE DEF all
  <2> QED  BY <1>1, <1>3, <1>4, <2>1, ReadJob
<1>5. CASE FailWith(w, "extract")
  BY <1>1, <1>5, FailJob DEF Errors
<1>6. ASSUME NEW text \in CutChunks[job[w].doc], Read(w, text, FALSE)
      PROVE  JobsInv'
  <2>1. text \in Seq(Hashes) /\ text \in Texts(job[w].doc)
    BY <1>2, <1>6, DocAssumption DEF Texts
  <2>2. FALSE \in BOOLEAN /\ (FALSE => text = DocChunks[job[w].doc])  OBVIOUS
  <2> QED  BY <1>1, <1>6, <2>1, <2>2, ReadJob
<1> QED  BY <1>4, <1>5, <1>6 DEF Extract

LEMMA LookupJob ==
  ASSUME JobsInv, NEW w \in Workers, Lookup(w)
  PROVE  JobsInv'
<1> DEFINE jn == [job[w] EXCEPT !.stage = "lookup"]
<1>1. job[w] \in Job /\ JobInv(job[w]) /\ job[w].stage = "dedup"  BY DEF JobsInv, Lookup, At
<1>2. job' = [job EXCEPT ![w] = jn]  BY GotoIs DEF Lookup
<1>3. "lookup" \in Stages  BY DEF Stages
<1>4. /\ jn \in Job /\ jn.stage = "lookup" /\ jn.doc = job[w].doc /\ jn.text = job[w].text
      /\ jn.todo = job[w].todo /\ jn.next = job[w].next /\ jn.clean = job[w].clean
  BY <1>1, <1>3, StageChanged
<1> HIDE DEF jn
<1>5. TextTrue(jn)  BY <1>1, <1>4 DEF JobInv, HasText, TextTrue
<1>6. JobInv(jn)  BY <1>1, <1>4, <1>5 DEF JobInv, Early, HasText, HasWork
<1> QED  BY <1>2, <1>4, <1>6, JobUpdated

\* The chunks that a lookup did not find are the ones to embed, in their order.
LEMMA SplitJob ==
  ASSUME JobsInv, CacheInv, NEW w \in Workers, Split(w)
  PROVE  JobsInv'
<1> DEFINE j     == job[w]
           text  == j.text
           found == call[w].found
           dup   == {i \in DOMAIN text : found[text[i]] # None}
           new   == DOMAIN text \ dup
           chunk == [i \in DOMAIN text |-> [index |-> i, hash |-> text[i]]]
           todo  == Select(chunk, new)
           final == {Row(w, i, text[i], found[text[i]]) : i \in dup}
           jn    == [j EXCEPT !.stage = "embed", !.final = final, !.todo = todo]
<1>1. j \in Job /\ JobInv(j) /\ j.stage = "lookup"  BY DEF JobsInv, Split, At
<1>2. /\ j.doc \in Docs /\ j.next = 1 /\ TextTrue(j)
  BY <1>1 DEF JobInv, Early, HasText
<1>3. text \in Seq(Hashes) /\ j.try \in Nat /\ j.clean \in BOOLEAN  BY <1>1 DEF Job
<1>4. found \in IdMap
  BY DEF CacheInv, DedupTypeOK, CallType, Goroutines
<1>5. job' = [job EXCEPT ![w] = jn]  BY DEF Split, JobsInv
<1>6. /\ chunk \in Seq(PendingChunk) /\ DOMAIN chunk = DOMAIN text /\ Len(chunk) = Len(text)
      /\ new \in SUBSET DOMAIN chunk
  <2>1. \A i \in DOMAIN text : chunk[i] \in PendingChunk  BY <1>3 DEF PendingChunk
  <2>2. DOMAIN text = 1 .. Len(text) /\ Len(text) \in Nat  BY <1>3
  <2>3. DOMAIN chunk = DOMAIN text /\ new \subseteq DOMAIN text  OBVIOUS
  <2> HIDE DEF chunk, new
  <2>4. chunk = [i \in 1 .. Len(text) |-> chunk[i]]  BY <2>2 DEF chunk
  <2> QED  BY <2>1, <2>2, <2>3, <2>4
<1>7. \A i \in DOMAIN text : chunk[i].index = i /\ chunk[i].hash = text[i]
  OBVIOUS
<1>8. final \in SUBSET Rows
  <2> SUFFICES ASSUME NEW i \in dup PROVE Row(w, i, text[i], found[text[i]]) \in Rows
    OBVIOUS
  <2>1. i \in Nat /\ text[i] \in Hashes  BY <1>3
  <2>2. found[text[i]] \in VectorIDs  BY <2>1, <1>4 DEF IdMap
  <2> QED  BY <1>2, <1>3, <2>1, <2>2 DEF Row, Rows
<1>9. \A r \in final : /\ r.doc = j.doc /\ r.by = j.try /\ r.clean = j.clean
                       /\ r.index \in dup /\ r.hash = text[r.index]
                       /\ r.vector = found[text[r.index]]
  BY DEF Row
<1>10. \A i \in dup : \E r \in final : r.index = i
  <2> SUFFICES ASSUME NEW i \in dup PROVE \E r \in final : r.index = i
    OBVIOUS
  <2>1. Row(w, i, text[i], found[text[i]]) \in final  OBVIOUS
  <2>2. Row(w, i, text[i], found[text[i]]).index = i  BY DEF Row
  <2> QED  BY <2>1, <2>2
<1>11. \A r, s \in final : r.index = s.index => r = s
  <2> SUFFICES ASSUME NEW i \in dup, NEW k \in dup,
                      Row(w, i, text[i], found[text[i]]).index
                        = Row(w, k, text[k], found[text[k]]).index
               PROVE  i = k
    OBVIOUS
  <2>1. Row(w, i, text[i], found[text[i]]).index = i  BY DEF Row
  <2>2. Row(w, k, text[k], found[text[k]]).index = k  BY DEF Row
  <2> QED  BY <2>1, <2>2
<1> HIDE DEF final, chunk, new
<1>12. /\ todo \in Seq(PendingChunk) /\ Len(todo) \in Nat /\ Len(todo) <= Len(text)
       /\ DOMAIN todo = 1 .. Cardinality(new) /\ Len(todo) = Cardinality(new)
       /\ \A k \in DOMAIN todo : Nth(new, k) \in new /\ todo[k] = chunk[Nth(new, k)]
       /\ \A i \in new : \E k \in DOMAIN todo : Nth(new, k) = i
  <2>1. Len(Select(chunk, new)) <= Len(chunk)  BY <1>6, SelectSpec
  <2> QED  BY <1>6, <2>1, SelectSpec
<1>13. IsFiniteSet(new) /\ new \in SUBSET Nat
  BY <1>6, PositionsFinite
<1>14. \A k, l \in 1 .. Cardinality(new) : k < l => Nth(new, k) < Nth(new, l)
  BY <1>13, NthGrows
<1> HIDE DEF todo
<1>15. /\ jn \in Job /\ jn.stage = "embed" /\ jn.doc = j.doc /\ jn.text = text
       /\ jn.todo = todo /\ jn.next = 1 /\ jn.clean = j.clean /\ jn.final = final
       /\ jn.try = j.try
  <2>1. "embed" \in Stages  BY DEF Stages
  <2> QED  BY <1>1, <1>2, <1>8, <1>12, <2>1 DEF Job
<1> HIDE DEF jn
<1>16. \A k \in DOMAIN todo : /\ todo[k].index = Nth(new, k) /\ Nth(new, k) \in DOMAIN text
                              /\ Nth(new, k) \notin dup /\ todo[k].hash = text[Nth(new, k)]
  BY <1>7, <1>12 DEF new
<1> HIDE DEF dup
<1>17. TextTrue(jn)  BY <1>2, <1>15 DEF TextTrue
<1>18. FinalTrue(jn)
  <2>1. dup \subseteq DOMAIN text  BY DEF dup
  <2> QED  BY <1>9, <1>11, <1>15, <2>1 DEF FinalTrue
<1>19. TodoTrue(jn)
  <2>1. 1 \in 1 .. Len(todo) + 1 /\ 1 .. Len(todo) = DOMAIN todo  BY <1>12
  <2>2. \A k, l \in DOMAIN todo : k < l => todo[k].index < todo[l].index
    BY <1>12, <1>14, <1>16
  <2>3. \A k \in DOMAIN todo : \A r \in final : r.index # todo[k].index
    BY <1>9, <1>16
  <2> QED  BY <1>15, <1>16, <2>1, <2>2, <2>3 DEF TodoTrue
<1>20. Covered(jn)
  <2> SUFFICES ASSUME NEW i \in DOMAIN text
               PROVE  \/ \E r \in final : r.index = i
                      \/ \E k \in 1 .. Len(todo) : todo[k].index = i
    BY <1>15 DEF Covered
  <2>1. CASE i \in dup  BY <1>10, <2>1
  <2>2. CASE i \notin dup
    <3>1. i \in new  BY <2>2 DEF new
    <3>2. PICK k \in DOMAIN todo : Nth(new, k) = i  BY <3>1, <1>12
    <3>3. k \in 1 .. Len(todo) /\ todo[k].index = i  BY <3>2, <1>12, <1>16
    <3> QED  BY <3>3
  <2> QED  BY <2>1, <2>2
<1>21. JobInv(jn)
  BY <1>2, <1>12, <1>15, <1>17, <1>18, <1>19, <1>20 DEF JobInv, Early, HasText, HasWork
<1> QED  BY <1>5, <1>15, <1>21, JobUpdated

\* Embedding and enrichment start from the same list: each chunk that is left
\* still stands where its vector does, or earlier.
LEMMA EmbedJob ==
  ASSUME JobsInv, minted \in 0 .. MaxVectors, NEW w \in Workers, Embed(w)
  PROVE  JobsInv' /\ minted' \in 0 .. MaxVectors
<1> DEFINE j    == job[w]
           old  == j.todo
           kept == {i \in DOMAIN old : old[i].hash \notin Dropped}
           todo == Select(old, kept)
           vecs == [i \in DOMAIN old |-> [id |-> minted + i, hash |-> old[i].hash]]
           jn   == [j EXCEPT !.stage = "register", !.vecs = vecs, !.todo = todo]
<1>1. j \in Job /\ JobInv(j) /\ j.stage = "embed"  BY DEF JobsInv, Embed, At
<1>2. /\ j.doc \in Docs /\ j.next = 1 /\ TextTrue(j) /\ FinalTrue(j) /\ TodoTrue(j)
      /\ Covered(j) /\ Len(old) <= Len(j.text)
  BY <1>1 DEF JobInv, HasText, HasWork
<1>3. /\ old \in Seq(PendingChunk) /\ j.text \in Seq(Hashes) /\ minted \in Nat
      /\ minted + Len(old) <= MaxVectors /\ minted' = minted + Len(old)
  BY <1>1 DEF Job, Embed
<1>4. job' = [job EXCEPT ![w] = jn]  BY DEF Embed, Enriched, JobsInv
<1>5. /\ Len(old) \in Nat /\ DOMAIN old = 1 .. Len(old) /\ kept \in SUBSET DOMAIN old
      /\ \A i \in DOMAIN old : old[i].index \in Nat /\ old[i].hash \in Hashes
      /\ Len(j.text) \in Nat
  <2>1. \A i \in DOMAIN old : old[i] \in PendingChunk  BY <1>3
  <2> QED  BY <1>3, <2>1 DEF PendingChunk
<1>6. minted' \in 0 .. MaxVectors  BY <1>3, <1>5, BoundAssumption
<1>7. vecs \in Seq(NewVector) /\ Len(vecs) = Len(old) /\ DOMAIN vecs = DOMAIN old
  <2>1. ASSUME NEW i \in DOMAIN old PROVE [id |-> minted + i, hash |-> old[i].hash] \in NewVector
    <3>1. minted + i \in 1 .. MaxVectors  BY <1>3, <1>5, BoundAssumption
    <3> QED  BY <3>1, <1>5, IdAssumption DEF NewVector
  <2> QED  BY <2>1, <1>5
<1>8. \A i \in DOMAIN old : vecs[i].hash = old[i].hash
  OBVIOUS
<1> HIDE DEF vecs
<1>9. /\ todo \in Seq(PendingChunk) /\ Len(todo) \in Nat /\ Len(todo) <= Len(old)
      /\ DOMAIN todo = 1 .. Cardinality(kept) /\ Len(todo) = Cardinality(kept)
      /\ \A k \in DOMAIN todo : Nth(kept, k) \in kept /\ todo[k] = old[Nth(kept, k)]
      /\ \A i \in kept : \E k \in DOMAIN todo : Nth(kept, k) = i
  <2> HIDE DEF kept
  <2> QED  BY <1>3, <1>5, SelectSpec
<1>10. \A k, l \in 1 .. Cardinality(kept) : k < l => Nth(kept, k) < Nth(kept, l)
  <2> HIDE DEF kept
  <2>1. IsFiniteSet(kept) /\ kept \in SUBSET Nat  BY <1>3, <1>5, PositionsFinite
  <2> QED  BY <2>1, NthGrows
<1>11. /\ jn \in Job /\ jn.stage = "register" /\ jn.doc = j.doc /\ jn.text = j.text
       /\ jn.todo = todo /\ jn.next = 1 /\ jn.clean = j.clean /\ jn.final = j.final
       /\ jn.try = j.try /\ jn.vecs = vecs
  <2>1. "register" \in Stages  BY DEF Stages
  <2> HIDE DEF todo
  <2> QED  BY <1>1, <1>2, <1>7, <1>9, <2>1 DEF Job
<1> HIDE DEF jn
<1>12. TextTrue(jn)  BY <1>2, <1>11 DEF TextTrue
<1>13. FinalTrue(jn)  BY <1>2, <1>11 DEF FinalTrue
<1>14. \A k \in DOMAIN todo : Nth(kept, k) \in DOMAIN old /\ todo[k] = old[Nth(kept, k)]
  BY <1>5, <1>9
<1>15. /\ \A k \in DOMAIN old : /\ old[k].index \in DOMAIN j.text
                                /\ old[k].hash = j.text[old[k].index]
       /\ \A k, l \in DOMAIN old : k < l => old[k].index < old[l].index
       /\ \A k \in DOMAIN old : \A r \in j.final : r.index # old[k].index
  BY <1>2, <1>5 DEF TodoTrue
<1>16. TodoTrue(jn)
  <2> HIDE DEF kept, todo
  <2>1. \A k \in DOMAIN todo : /\ todo[k].index \in DOMAIN j.text
                               /\ todo[k].hash = j.text[todo[k].index]
    BY <1>14, <1>15
  <2>2. \A k, l \in DOMAIN todo : k < l => todo[k].index < todo[l].index
    BY <1>9, <1>10, <1>14, <1>15
  <2>3. \A k \in 1 .. Len(todo) : \A r \in j.final : r.index # todo[k].index
    BY <1>9, <1>14, <1>15
  <2>4. 1 \in 1 .. Len(todo) + 1  BY <1>9
  <2> QED  BY <1>11, <2>1, <2>2, <2>3, <2>4 DEF TodoTrue
<1>17. Covered(jn)
  <2> SUFFICES ASSUME NEW i \in DOMAIN j.text, j.text[i] \notin Dropped
               PROVE  \/ \E r \in j.final : r.index = i
                      \/ \E k \in 1 .. Len(todo) : todo[k].index = i
    BY <1>11 DEF Covered
  <2>1. CASE \E r \in j.final : r.index = i  BY <2>1
  <2>2. CASE \E k \in 1 .. Len(old) : old[k].index = i
    <3>1. PICK k \in 1 .. Len(old) : old[k].index = i  BY <2>2
    <3>2. k \in kept  BY <3>1, <1>5, <1>15
    <3>3. PICK l \in DOMAIN todo : Nth(kept, l) = k  BY <3>2, <1>9
    <3>4. l \in 1 .. Len(todo) /\ todo[l].index = i  BY <3>1, <3>3, <1>9, <1>14
    <3> QED  BY <3>4
  <2> QED  BY <1>2, <2>1, <2>2 DEF Covered
<1>18. VecsTrue(jn)
  <2>1. Len(todo) <= Len(vecs)  BY <1>7, <1>9
  <2>2. ASSUME DroppedLast, NEW i \in DOMAIN todo PROVE todo[i].hash = vecs[i].hash
    <3>1. \A k \in kept : \A l \in DOMAIN old : l < k => l \in kept
      <4> SUFFICES ASSUME NEW k \in kept, NEW l \in DOMAIN old, l < k, old[l].hash \in Dropped
                   PROVE  FALSE
        OBVIOUS
      <4>1. /\ old[l].index < old[k].index /\ old[k].index \in DOMAIN j.text
            /\ old[l].index \in DOMAIN j.text
            /\ old[k].hash = j.text[old[k].index] /\ old[l].hash = j.text[old[l].index]
        BY <1>5, <1>15
      <4>2. j.text \in Texts(j.doc)  BY <1>2 DEF TextTrue
      <4>3. old[k].hash \in Dropped  BY <1>2, <2>2, <4>1, <4>2 DEF DroppedLast
      <4> QED  BY <4>3
    <3>2. todo[i] = old[i]
      <4> HIDE DEF kept
      <4> QED  BY <1>3, <1>5, <3>1, SelectPrefix
    <3>3. i \in DOMAIN old  BY <1>5, <1>9
    <3> QED  BY <3>2, <3>3, <1>8
  <2>3. ASSUME NoRepeats, NEW i \in DOMAIN vecs, NEW k \in DOMAIN vecs,
               vecs[i].hash = vecs[k].hash
        PROVE  i = k
    <3>1. /\ old[i].index \in DOMAIN j.text /\ old[k].index \in DOMAIN j.text
          /\ j.text[old[i].index] = j.text[old[k].index]
      BY <1>7, <1>8, <1>15, <2>3
    <3>2. j.text \in Texts(j.doc)  BY <1>2 DEF TextTrue
    <3>5. old[i].index = old[k].index  BY <1>2, <2>3, <3>1, <3>2 DEF NoRepeats
    <3>6. ~(i < k) /\ ~(k < i)  BY <1>5, <1>7, <1>15, <3>5
    <3> QED  BY <1>5, <1>7, <3>6
  <2> QED  BY <1>11, <2>1, <2>2, <2>3 DEF VecsTrue
<1>19. JobInv(jn)
  <2>1. Len(todo) <= Len(j.text)  BY <1>2, <1>5, <1>9
  <2> QED  BY <1>2, <1>11, <1>12, <1>13, <1>16, <1>17, <1>18, <2>1
           DEF JobInv, Early, HasText, HasWork
<1> QED  BY <1>4, <1>6, <1>11, <1>19, JobUpdated

\* One turn of the loop: a chunk less to do, a row more.  Its vector is there.
LEMMA RegisterJob ==
  ASSUME JobsInv, NEW w \in Workers, Register(w)
  PROVE  JobsInv'
<1> DEFINE j   == job[w]
           i   == j.next
           c   == j.todo[i]
           row == Row(w, c.index, c.hash, j.vecs[i].id)
           jn  == [j EXCEPT !.next = i + 1, !.final = @ \cup {row}]
<1>1. /\ j \in Job /\ JobInv(j) /\ j.stage = "register" /\ i <= Len(j.todo)
      /\ job' = [job EXCEPT ![w].next = i + 1, ![w].final = @ \cup {row}]
  BY DEF JobsInv, Register, At
<1>2. job' = [job EXCEPT ![w] = jn]  BY <1>1 DEF JobsInv
<1>3. /\ j.doc \in Docs /\ TextTrue(j) /\ FinalTrue(j) /\ TodoTrue(j) /\ Covered(j) /\ VecsTrue(j)
      /\ Len(j.todo) <= Len(j.text)
  BY <1>1 DEF JobInv, HasText, HasWork
<1>4. /\ j.todo \in Seq(PendingChunk) /\ j.vecs \in Seq(NewVector) /\ j.text \in Seq(Hashes)
      /\ j.try \in Nat /\ j.clean \in BOOLEAN /\ j.final \in SUBSET Rows /\ i \in Nat
  BY <1>1 DEF Job
<1>5. /\ i \in 1 .. Len(j.todo) /\ Len(j.todo) \in Nat /\ DOMAIN j.todo = 1 .. Len(j.todo)
      /\ Len(j.vecs) \in Nat /\ DOMAIN j.vecs = 1 .. Len(j.vecs) /\ i \in DOMAIN j.vecs
  <2>1. i \in 1 .. Len(j.todo) + 1 /\ Len(j.todo) <= Len(j.vecs)
    BY <1>3 DEF TodoTrue, VecsTrue
  <2> QED  BY <1>1, <1>4, <2>1
<1>6. /\ c.index \in DOMAIN j.text /\ c.hash = j.text[c.index] /\ c.index \in Nat
      /\ c.hash \in Hashes /\ j.vecs[i].id \in VectorIDs
  <2>1. c \in PendingChunk /\ j.vecs[i] \in NewVector  BY <1>4, <1>5
  <2> QED  BY <1>3, <1>5, <2>1 DEF TodoTrue, PendingChunk, NewVector
<1>7. /\ row.doc = j.doc /\ row.index = c.index /\ row.hash = c.hash /\ row.by = j.try
      /\ row.clean = j.clean
  BY DEF Row
<1>8. row \in Rows  BY <1>3, <1>4, <1>6 DEF Row, Rows
<1> HIDE DEF row
<1>9. /\ jn \in Job /\ jn.stage = "register" /\ jn.doc = j.doc /\ jn.text = j.text
      /\ jn.todo = j.todo /\ jn.next = i + 1 /\ jn.clean = j.clean
      /\ jn.final = j.final \cup {row} /\ jn.try = j.try /\ jn.vecs = j.vecs
  <2>1. j.final \cup {row} \in SUBSET Rows /\ i + 1 \in Nat  BY <1>4, <1>8
  <2>2. jn \in Job  BY <1>1, <2>1 DEF Job
  <2> QED  BY <1>1, <2>2 DEF Job
<1> HIDE DEF jn
<1>10. TextTrue(jn)  BY <1>3, <1>9 DEF TextTrue
<1>11. \A r \in j.final : r.index # c.index
  <2>1. i \in j.next .. Len(j.todo)  BY <1>5
  <2> QED  BY <1>3, <2>1 DEF TodoTrue
<1>12. FinalTrue(jn)
  <2>1. \A r \in jn.final : /\ r.doc = j.doc /\ r.by = j.try /\ r.clean = j.clean
                            /\ r.index \in DOMAIN j.text /\ r.hash = j.text[r.index]
    BY <1>3, <1>6, <1>7, <1>9 DEF FinalTrue
  <2>2. \A r, s \in jn.final : r.index = s.index => r = s
    BY <1>3, <1>7, <1>9, <1>11 DEF FinalTrue
  <2> QED  BY <1>9, <2>1, <2>2 DEF FinalTrue
<1>13. /\ \A k \in DOMAIN j.todo : /\ j.todo[k].index \in DOMAIN j.text
                                   /\ j.todo[k].hash = j.text[j.todo[k].index]
       /\ \A k, l \in DOMAIN j.todo : k < l => j.todo[k].index < j.todo[l].index
       /\ \A k \in i .. Len(j.todo) : \A r \in j.final : r.index # j.todo[k].index
  BY <1>3 DEF TodoTrue
<1>14. TodoTrue(jn)
  <2>1. i + 1 \in 1 .. Len(j.todo) + 1  BY <1>5
  <2>2. ASSUME NEW k \in i + 1 .. Len(j.todo), NEW r \in jn.final
        PROVE  r.index # j.todo[k].index
    <3>1. k \in i .. Len(j.todo) /\ k \in DOMAIN j.todo /\ i < k  BY <1>5
    <3>2. CASE r \in j.final  BY <1>13, <3>1, <3>2
    <3>3. CASE r = row
      <4>1. j.todo[i].index < j.todo[k].index  BY <1>5, <1>13, <3>1
      <4>2. j.todo[k].index \in Nat
        <5>1. j.todo[k] \in PendingChunk  BY <1>4, <3>1
        <5> QED  BY <5>1 DEF PendingChunk
      <4> QED  BY <1>6, <1>7, <3>3, <4>1, <4>2
    <3> QED  BY <1>9, <3>2, <3>3
  <2> QED  BY <1>9, <1>13, <2>1, <2>2 DEF TodoTrue
<1>15. Covered(jn)
  <2> SUFFICES ASSUME NEW l \in DOMAIN j.text, j.text[l] \notin Dropped
               PROVE  \/ \E r \in jn.final : r.index = l
                      \/ \E k \in i + 1 .. Len(j.todo) : j.todo[k].index = l
    BY <1>9 DEF Covered
  <2>1. CASE \E r \in j.final : r.index = l  BY <1>9, <2>1
  <2>2. CASE \E k \in i .. Len(j.todo) : j.todo[k].index = l
    <3>1. PICK k \in i .. Len(j.todo) : j.todo[k].index = l  BY <2>2
    <3>2. CASE k = i  BY <1>7, <1>9, <3>1, <3>2
    <3>3. CASE k # i
      <4>1. k \in i + 1 .. Len(j.todo)  BY <1>5, <3>3
      <4> QED  BY <3>1, <4>1
    <3> QED  BY <3>2, <3>3
  <2> QED  BY <1>3, <2>1, <2>2 DEF Covered
<1>16. VecsTrue(jn)  BY <1>3, <1>9 DEF VecsTrue
<1>17. JobInv(jn)
  BY <1>3, <1>9, <1>10, <1>12, <1>14, <1>15, <1>16 DEF JobInv, Early, HasText, HasWork
<1> QED  BY <1>2, <1>9, <1>17, JobUpdated

LEMMA FailingJob ==
  ASSUME JobsInv, NEW w \in Workers, LookupFails(w) \/ EmbedFails(w)
  PROVE  JobsInv'
<1>1. \/ At(w, "lookup") /\ FailWith(w, "dedup")
      \/ At(w, "embed") /\ FailWith(w, "embed")
  BY DEF LookupFails, EmbedFails
<1>2. job[w].stage \notin {"idle", "done"}  BY <1>1 DEF At
<1> QED  BY <1>1, <1>2, FailJob DEF Errors

LEMMA SaveErrors ==
  ASSUME NEW v, NEW c, NEW vecs, NEW rows
  PROVE  SaveError(v, c, vecs, rows) \in {"none", "second_time", "unique", "foreign_key"}
BY DEF SaveError

LEMMA SaveJob ==
  ASSUME JobsInv, NEW w \in Workers, Save(w)
  PROVE  JobsInv'
<1> DEFINE error == SaveError(vectors, chunks, job[w].vecs, job[w].final)
<1>1. job[w] \in Job /\ JobInv(job[w]) /\ job[w].stage = "register"  BY DEF JobsInv, Save, At
<1>2. \/ Goto(w, "done") \/ FailWith(w, "reply_lost") \/ FailWith(w, error)
      \/ FailWith(w, "transient")
  BY DEF Save
<1>3. error \in Errors  BY SaveErrors DEF Errors
<1> HIDE DEF error
<1>4. "reply_lost" \in Errors /\ "transient" \in Errors  BY DEF Errors
<1>5. CASE Goto(w, "done")
  <2> DEFINE jn == [job[w] EXCEPT !.stage = "done"]
  <2>1. job' = [job EXCEPT ![w] = jn]  BY <1>5, GotoIs
  <2>2. "done" \in Stages  BY DEF Stages
  <2>3. /\ jn \in Job /\ jn.stage = "done" /\ jn.text = job[w].text /\ jn.todo = job[w].todo
    BY <1>1, <2>2, StageChanged
  <2> HIDE DEF jn
  <2>4. JobInv(jn)  BY <1>1, <2>3 DEF JobInv, Early, HasText, HasWork
  <2> QED  BY <2>1, <2>3, <2>4, JobUpdated
<1>6. CASE FailWith(w, "reply_lost") \/ FailWith(w, error) \/ FailWith(w, "transient")
  BY <1>1, <1>3, <1>4, <1>6, FailJob
<1> QED  BY <1>2, <1>5, <1>6

LEMMA ReturnJob ==
  ASSUME JobsInv, NEW w \in Workers, Return(w)
  PROVE  JobsInv'
BY NoJobInv, JobUpdated DEF Return

LEMMA CrashJob ==
  ASSUME JobsInv, NEW p \in Pods, Crash(p)
  PROVE  JobsInv'
<1>1. job' = [w \in Workers |-> IF PodOf[w] = p THEN NoJob ELSE job[w]]  BY DEF Crash
<1> QED  BY <1>1, NoJobInv DEF JobsInv

LEMMA JobsStep ==
  ASSUME JobsInv, CacheInv, minted \in 0 .. MaxVectors, attempts \in [Docs -> 0 .. MaxAttempts],
         [Next]_vars
  PROVE  JobsInv' /\ minted' \in 0 .. MaxVectors /\ attempts' \in [Docs -> 0 .. MaxAttempts]
<1>1. ASSUME UNCHANGED jobVars
      PROVE  JobsInv' /\ minted' \in 0 .. MaxVectors /\ attempts' \in [Docs -> 0 .. MaxAttempts]
  <2>1. job' = job /\ minted' = minted /\ attempts' = attempts  BY <1>1 DEF jobVars
  <2>2. JobsInv'  BY <2>1 DEF JobsInv
  <2> QED  BY <2>1, <2>2
<1>2. ASSUME NEW w \in Workers, WorkerStep(w)
      PROVE  JobsInv' /\ minted' \in 0 .. MaxVectors /\ attempts' \in [Docs -> 0 .. MaxAttempts]
  <2>1. CASE InsideCall(w) \/ Registered(w)
    BY <1>1, <2>1 DEF InsideCall, Registered
  <2>2. CASE Embed(w)
    <3>1. attempts' = attempts  BY <2>2 DEF Embed
    <3> QED  BY <2>2, <3>1, EmbedJob
  <2>3. CASE ~Embed(w) /\ ~InsideCall(w) /\ ~Registered(w)
    <3>1. attempts' = attempts /\ minted' = minted
      BY <1>2, <2>3 DEF WorkerStep, Fetch, Extract, Lookup, Split, LookupFails, EmbedFails,
         Register, Save, Return
    <3>2. JobsInv'
      BY <1>2, <2>3, FetchJob, ExtractJob, LookupJob, SplitJob, FailingJob, RegisterJob, SaveJob,
         ReturnJob DEF WorkerStep
    <3> QED  BY <3>1, <3>2
  <2> QED  BY <2>1, <2>2, <2>3
<1>3. ASSUME NEW w \in Workers, NEW d \in Docs \cup {NoDoc}, Start(w, d)
      PROVE  JobsInv' /\ minted' \in 0 .. MaxVectors /\ attempts' \in [Docs -> 0 .. MaxAttempts]
  <2>1. minted' = minted  BY <1>3 DEF Start
  <2> QED  BY <1>3, <2>1, StartJob
<1>4. ASSUME NEW p \in Pods, Crash(p)
      PROVE  JobsInv' /\ minted' \in 0 .. MaxVectors /\ attempts' \in [Docs -> 0 .. MaxAttempts]
  <2>1. minted' = minted /\ attempts' = attempts  BY <1>4 DEF Crash
  <2> QED  BY <1>4, <2>1, CrashJob
<1>5. CASE UNCHANGED vars  BY <1>1, <1>5 DEF vars
<1> QED  BY <1>1, <1>2, <1>3, <1>4, <1>5 DEF Next

-----------------------------------------------------------------------------
(* The worker runs the deduplicator. *)

LEMMA FirstPosition ==
  ASSUME NEW vecs \in Seq(NewVector), NEW h, PositionsOf(vecs, h) # {}
  PROVE  /\ Min(PositionsOf(vecs, h)) \in PositionsOf(vecs, h)
         /\ \A i \in PositionsOf(vecs, h) : Min(PositionsOf(vecs, h)) <= i
         /\ Min(PositionsOf(vecs, h)) \in DOMAIN vecs
         /\ vecs[Min(PositionsOf(vecs, h))].hash = h
<1> DEFINE P == PositionsOf(vecs, h)
<1>1. P \subseteq DOMAIN vecs /\ DOMAIN vecs \subseteq Nat /\ \A i \in P : vecs[i].hash = h
  BY DEF PositionsOf
<1> HIDE DEF P
<1>2. \E n \in P : \A m \in P : n <= m  BY <1>1, NatMin DEF P
<1>3. Min(P) \in P /\ \A m \in P : Min(P) <= m  BY <1>2 DEF Min
<1> QED  BY <1>1, <1>3 DEF P

LEMMA UpsertedType ==
  ASSUME vectors \in IdMap, NEW vecs \in Seq(NewVector)
  PROVE  Upserted(vectors, vecs) \in IdMap
<1> SUFFICES ASSUME NEW h \in Hashes
             PROVE  Upserted(vectors, vecs)[h] \in VectorIDs \cup {None}
  BY DEF Upserted, IdMap
<1>1. CASE vectors[h] # None \/ PositionsOf(vecs, h) = {}
  BY <1>1 DEF Upserted, IdMap
<1>2. CASE vectors[h] = None /\ PositionsOf(vecs, h) # {}
  <2>1. vecs[Min(PositionsOf(vecs, h))] \in NewVector  BY <1>2, FirstPosition
  <2> QED  BY <1>2, <2>1 DEF Upserted, NewVector
<1> QED  BY <1>1, <1>2

\* Whatever a worker does, the deduplicator makes one of its own steps or none.
LEMMA StepOfDedup ==
  ASSUME JobsInv, CacheInv, [Next]_vars
  PROVE  [DedupNext]_dedupVars
<1>0. Workers \subseteq Goroutines /\ Pods \subseteq Goroutines  BY DEF Goroutines
<1>1. ASSUME NEW w \in Workers, Lookup(w) PROVE DedupNext
  <2>1. job[w].text \in Seq(Hashes)  BY DEF JobsInv, Job
  <2>2. {job[w].text[i] : i \in DOMAIN job[w].text} \in SUBSET Hashes  BY <2>1
  <2> QED  BY <1>1, <2>2 DEF Lookup, DedupNext
<1>2. ASSUME NEW w \in Workers, InsideCall(w) PROVE DedupNext
  BY <1>0, <1>2 DEF InsideCall, DedupNext
<1>3. ASSUME NEW w \in Workers, Split(w) \/ LookupFails(w) \/ Registered(w) PROVE DedupNext
  BY <1>3 DEF Split, LookupFails, Registered, DedupNext
<1>4. ASSUME NEW w \in Workers, Register(w) PROVE DedupNext
  <2> DEFINE j == job[w]
             i == j.next
  <2>1. /\ j \in Job /\ JobInv(j) /\ j.stage = "register" /\ i <= Len(j.todo)
        /\ RegisterVectorHash(w, j.todo[i].hash, j.vecs[i].id)
    BY <1>4 DEF JobsInv, Register, At
  <2>2. /\ j.todo \in Seq(PendingChunk) /\ j.vecs \in Seq(NewVector) /\ i \in Nat
        /\ i \in 1 .. Len(j.todo) + 1 /\ Len(j.todo) <= Len(j.vecs)
    BY <2>1 DEF Job, JobInv, HasWork, TodoTrue, VecsTrue
  <2>3. i \in DOMAIN j.todo /\ i \in DOMAIN j.vecs  BY <2>1, <2>2
  <2>4. j.todo[i] \in PendingChunk /\ j.vecs[i] \in NewVector  BY <2>2, <2>3
  <2>5. j.todo[i].hash \in Hashes /\ j.vecs[i].id \in VectorIDs
    BY <2>4 DEF PendingChunk, NewVector
  <2> QED  BY <2>1, <2>5 DEF DedupNext
<1>5. ASSUME NEW w \in Workers, Save(w) PROVE [DedupNext]_dedupVars
  <2>1. job[w].vecs \in Seq(NewVector)  BY DEF JobsInv, Job
  <2>2. Upserted(vectors, job[w].vecs) \in IdMap
    BY <2>1, UpsertedType DEF CacheInv, DedupTypeOK
  <2>3. /\ CommitVectors(Upserted(vectors, job[w].vecs)) \/ UNCHANGED vectors
        /\ UNCHANGED <<cache, redis, call, registered>>
    BY <1>5 DEF Save
  <2> QED  BY <2>2, <2>3 DEF DedupNext, dedupVars
<1>6. ASSUME NEW w \in Workers, Fetch(w) \/ Extract(w) \/ Embed(w) \/ EmbedFails(w) \/ Return(w)
      PROVE  UNCHANGED dedupVars
  BY <1>6 DEF Fetch, Extract, Embed, EmbedFails, Return
<1>7. ASSUME NEW w \in Workers, NEW d \in Docs \cup {NoDoc}, Start(w, d)
      PROVE  UNCHANGED dedupVars
  BY <1>7 DEF Start
<1>8. ASSUME NEW p \in Pods, Crash(p) PROVE DedupNext
  BY <1>8 DEF Crash, DedupNext
<1>9. ASSUME NEW p \in Pods, WarmupCache(p) \/ CallStep(p) PROVE DedupNext
  BY <1>0, <1>9 DEF DedupNext
<1>10. ASSUME NEW h \in Hashes, RedisDrops(h) PROVE DedupNext
  BY <1>10 DEF DedupNext
<1>11. CASE UNCHANGED vars  BY <1>11 DEF vars
<1> QED
  BY <1>1, <1>2, <1>3, <1>4, <1>5, <1>6, <1>7, <1>8, <1>9, <1>10, <1>11 DEF Next, WorkerStep

\* What an attempt is made of, and the state of the deduplicator it works with.
AttemptInv ==
  /\ CacheInv
  /\ JobsInv
  /\ attempts \in [Docs -> 0 .. MaxAttempts]
  /\ minted \in 0 .. MaxVectors

LEMMA AttemptInit == Init => AttemptInv /\ DedupInit
<1> SUFFICES ASSUME Init PROVE AttemptInv /\ DedupInit
  OBVIOUS
<1>1. DedupInit /\ CacheInv  BY CacheInvInit DEF Init
<1>2. JobsInv  BY NoJobInv DEF Init, JobsInv
<1>3. attempts \in [Docs -> 0 .. MaxAttempts] /\ minted \in 0 .. MaxVectors
  BY BoundAssumption DEF Init
<1> QED  BY <1>1, <1>2, <1>3 DEF AttemptInv

LEMMA AttemptStep == AttemptInv /\ [Next]_vars => AttemptInv' /\ [DedupNext]_dedupVars
  BY JobsStep, StepOfDedup, CacheInvStep DEF AttemptInv

LEMMA AttemptAlways == Spec => []AttemptInv
  BY AttemptInit, AttemptStep, PTL DEF Spec

\* The pipeline is a legal user of the deduplicator: everything proved of
\* DedupSpec, its refinement of DedupService included, is true of the whole.
THEOREM PipelineRunsDedup == Spec => DedupSpec
  BY AttemptInit, AttemptStep, PTL DEF Spec, DedupSpec

\* Caches, Redis and lookups only ever hold bindings that were stored or registered,
\* while workers fail, are redelivered their documents and die.
THEOREM PipelineVouched == Spec => []BindingsVouched
  BY PipelineRunsDedup, DedupVouched, PTL

THEOREM PipelineComplete == Spec => []NoMissedDuplicate
  BY PipelineRunsDedup, DedupComplete, PTL

-----------------------------------------------------------------------------
(* What a transaction inserts. *)

LEMMA ActualIdType ==
  ASSUME vectors \in IdMap, NEW vecs \in Seq(NewVector), NEW id \in VectorIDs
  PROVE  ActualId(vectors, vecs, id) \in VectorIDs
<1> DEFINE firsts == {i \in DOMAIN vecs : i = Min(PositionsOf(vecs, vecs[i].hash))}
           own    == {i \in firsts : vecs[i].id = id}
           h      == vecs[Min(own)].hash
<1>1. ActualId(vectors, vecs, id) = IF own = {} THEN id ELSE Upserted(vectors, vecs)[h]
  BY DEF ActualId
<1>2. CASE own = {}  BY <1>1, <1>2
<1>3. CASE own # {}
  <2>1. own \subseteq DOMAIN vecs /\ DOMAIN vecs \subseteq Nat  OBVIOUS
  <2> HIDE DEF own
  <2>2. \E n \in own : \A m \in own : n <= m  BY <1>3, <2>1, NatMin
  <2>3. Min(own) \in DOMAIN vecs  BY <2>1, <2>2 DEF Min
  <2>4. h \in Hashes
    <3>1. vecs[Min(own)] \in NewVector  BY <2>3
    <3> QED  BY <3>1 DEF NewVector
  <2>5. Min(own) \in PositionsOf(vecs, h)  BY <2>3 DEF PositionsOf
  <2> HIDE DEF h
  <2>6. PositionsOf(vecs, h) # {}  BY <2>5
  <2>7. vecs[Min(PositionsOf(vecs, h))] \in NewVector  BY <2>6, FirstPosition
  <2>8. Upserted(vectors, vecs)[h] \in VectorIDs
    BY <2>4, <2>6, <2>7 DEF Upserted, IdMap, NewVector
  <2> QED  BY <1>1, <1>3, <2>8
<1> QED  BY <1>2, <1>3

LEMMA InsertedSpec ==
  ASSUME vectors \in IdMap, NEW vecs \in Seq(NewVector), NEW rows \in SUBSET Rows
  PROVE  LET new == InsertedRows(vectors, vecs, rows)
         IN /\ new \subseteq Rows
            /\ \A s \in new : \E r \in rows :
                 /\ s = [r EXCEPT !.vector = ActualId(vectors, vecs, r.vector)]
                 /\ s.vector = ActualId(vectors, vecs, r.vector)
                 /\ s.doc = r.doc /\ s.index = r.index /\ s.hash = r.hash /\ s.by = r.by
                 /\ s.clean = r.clean
            /\ \A r \in rows : \E s \in new :
                 /\ s.doc = r.doc /\ s.index = r.index /\ s.hash = r.hash /\ s.by = r.by
                 /\ s.clean = r.clean
<1> DEFINE new == InsertedRows(vectors, vecs, rows)
           ins(r) == [r EXCEPT !.vector = ActualId(vectors, vecs, r.vector)]
<1>1. new = {ins(r) : r \in rows}  BY DEF InsertedRows
<1>2. ASSUME NEW r \in rows
      PROVE  /\ ins(r) \in Rows
             /\ ins(r).vector = ActualId(vectors, vecs, r.vector)
             /\ ins(r).doc = r.doc /\ ins(r).index = r.index /\ ins(r).hash = r.hash
             /\ ins(r).by = r.by /\ ins(r).clean = r.clean
  <2>1. r \in Rows /\ r.vector \in VectorIDs  BY DEF Rows
  <2>2. ActualId(vectors, vecs, r.vector) \in VectorIDs  BY <2>1, ActualIdType
  <2> QED  BY <2>1, <2>2 DEF Rows
<1> HIDE DEF new
<1>3. new \subseteq Rows  BY <1>1, <1>2
<1>4. ASSUME NEW s \in new
      PROVE  \E r \in rows :
                 /\ s = [r EXCEPT !.vector = ActualId(vectors, vecs, r.vector)]
                 /\ s.vector = ActualId(vectors, vecs, r.vector)
                 /\ s.doc = r.doc /\ s.index = r.index /\ s.hash = r.hash /\ s.by = r.by
                 /\ s.clean = r.clean
  <2>1. PICK r \in rows : s = ins(r)  BY <1>1
  <2> QED  BY <1>2, <2>1
<1>5. ASSUME NEW r \in rows
      PROVE  \E s \in new :
                 /\ s.doc = r.doc /\ s.index = r.index /\ s.hash = r.hash /\ s.by = r.by
                 /\ s.clean = r.clean
  <2>1. ins(r) \in new  BY <1>1
  <2> QED  BY <1>2, <2>1
<1> QED  BY <1>3, <1>4, <1>5 DEF new

Committed(w) ==
  /\ Save(w)
  /\ SaveError(vectors, chunks, job[w].vecs, job[w].final) = "none"
  /\ vectors' = [h \in Hashes |-> IF vectors[h] = None
                                    THEN Upserted(vectors, job[w].vecs)[h] ELSE vectors[h]]
  /\ chunks' = chunks \cup InsertedRows(vectors, job[w].vecs, job[w].final)

\* The tables change in a commit and nowhere else.
LEMMA TableChanges ==
  ASSUME [Next]_vars
  PROVE  UNCHANGED <<vectors, chunks>> \/ \E w \in Workers : Committed(w)
<1>1. ASSUME NEW w \in Workers, Save(w) PROVE UNCHANGED <<vectors, chunks>> \/ Committed(w)
  BY <1>1 DEF Save, Committed, CommitVectors
<1>2. ASSUME NEW w \in Workers, WorkerStep(w), ~Save(w) PROVE UNCHANGED <<vectors, chunks>>
  BY <1>2 DEF WorkerStep, Fetch, Extract, Lookup, LookupL1, InsideCall, LookupStep, AllInL1,
     LookupRedis, LookupDB, LookupDBFails, RedisHitsCached, CallStep, CacheFound, RowsCached,
     WriteRedis, RedisWritten, jobVars, Split, Finish, LookupFails, Embed, EmbedFails, Register,
     RegisterVectorHash, Registered, Return, dedupVars
<1>3. ASSUME NEW w \in Workers, NEW d \in Docs \cup {NoDoc}, Start(w, d)
      PROVE  UNCHANGED <<vectors, chunks>>
  BY <1>3 DEF Start, dedupVars
<1>4. ASSUME NEW p \in Pods, \/ Crash(p)
                             \/ (WarmupCache(p) \/ CallStep(p)) /\ UNCHANGED jobVars
      PROVE  UNCHANGED <<vectors, chunks>>
  BY <1>4 DEF Crash, PodRestarts, WarmupCache, CallStep, CacheFound, RowsCached,
     WriteRedis, RedisWritten, jobVars
<1>5. ASSUME NEW h \in Hashes, RedisDrops(h) /\ UNCHANGED jobVars
      PROVE  UNCHANGED <<vectors, chunks>>
  BY <1>5 DEF RedisDrops, jobVars
<1>6. CASE UNCHANGED vars  BY <1>6 DEF vars, dedupVars, jobVars
<1> QED  BY <1>1, <1>2, <1>3, <1>4, <1>5, <1>6 DEF Next

LEMMA NothingRefused ==
  ASSUME NEW v, NEW c, NEW vecs, NEW rows, SaveError(v, c, vecs, rows) = "none"
  PROVE  /\ ~HashTwice(vecs)
         /\ \A r \in rows, s \in c : ~(r.doc = s.doc /\ r.index = s.index)
         /\ \A r \in InsertedRows(v, vecs, rows) : r.vector \in StoredIds(Upserted(v, vecs))
BY DEF SaveError

\* What a worker commits: one row for every chunk worth storing of what it read.
LEMMA CommitSpec ==
  ASSUME AttemptInv, NEW w \in Workers, Committed(w)
  PROVE  LET j == job[w]
             new == InsertedRows(vectors, j.vecs, j.final)
         IN /\ j.doc \in Docs /\ j.stage = "register"
            /\ new \subseteq Rows
            /\ \A s \in new : /\ s.doc = j.doc /\ s.by = j.try /\ s.clean = j.clean
                              /\ j.clean => /\ s.index \in DOMAIN DocChunks[j.doc]
                                            /\ s.hash = DocChunks[j.doc][s.index]
            /\ \A s, t \in new : s.index = t.index => s = t
            /\ \A s \in new, t \in chunks : ~(s.doc = t.doc /\ s.index = t.index)
            /\ j.clean => \A i \in DOMAIN DocChunks[j.doc] :
                 DocChunks[j.doc][i] \notin Dropped =>
                   \E s \in new : s.index = i
<1> DEFINE j   == job[w]
           new == InsertedRows(vectors, j.vecs, j.final)
           all == DocChunks[j.doc]
<1>1. /\ j \in Job /\ JobInv(j) /\ j.stage = "register" /\ j.next > Len(j.todo)
      /\ SaveError(vectors, chunks, j.vecs, j.final) = "none"
  BY DEF AttemptInv, JobsInv, Committed, Save, At
<1>2. /\ j.doc \in Docs /\ TextTrue(j) /\ FinalTrue(j) /\ TodoTrue(j) /\ Covered(j)
  BY <1>1 DEF JobInv, HasText, HasWork
<1>3. /\ j.vecs \in Seq(NewVector) /\ j.final \in SUBSET Rows /\ j.text \in Seq(Hashes)
      /\ j.todo \in Seq(PendingChunk) /\ j.next \in Nat
  BY <1>1 DEF Job
<1>4. vectors \in IdMap  BY DEF AttemptInv, CacheInv, DedupTypeOK
<1>5. /\ new \subseteq Rows
      /\ \A s \in new : \E r \in j.final :
           /\ s = [r EXCEPT !.vector = ActualId(vectors, j.vecs, r.vector)]
           /\ s.doc = r.doc /\ s.index = r.index /\ s.hash = r.hash /\ s.by = r.by
           /\ s.clean = r.clean
      /\ \A r \in j.final : \E s \in new : s.index = r.index
  BY <1>3, <1>4, InsertedSpec
<1>6. all \in Seq(Hashes)  BY <1>2, DocAssumption
<1>7. j.clean => j.text = all  BY <1>2 DEF TextTrue
<1>8. \A r \in j.final : /\ r.doc = j.doc /\ r.by = j.try /\ r.clean = j.clean
                         /\ j.clean => r.index \in DOMAIN all /\ r.hash = all[r.index]
  BY <1>2, <1>7 DEF FinalTrue
<1>9. \A r, s \in j.final : r.index = s.index => r = s  BY <1>2 DEF FinalTrue
<1>10. \A r \in j.final, t \in chunks : ~(r.doc = t.doc /\ r.index = t.index)
  BY <1>1, NothingRefused
<1> HIDE DEF new
<1>11. \A s \in new : /\ s.doc = j.doc /\ s.by = j.try /\ s.clean = j.clean
                      /\ j.clean => s.index \in DOMAIN all /\ s.hash = all[s.index]
  BY <1>5, <1>8
<1>12. \A s, t \in new : s.index = t.index => s = t
  <2> SUFFICES ASSUME NEW s \in new, NEW t \in new, s.index = t.index PROVE s = t
    OBVIOUS
  <2>1. PICK r \in j.final : /\ s = [r EXCEPT !.vector = ActualId(vectors, j.vecs, r.vector)]
                             /\ s.index = r.index
    BY <1>5
  <2>2. PICK q \in j.final : /\ t = [q EXCEPT !.vector = ActualId(vectors, j.vecs, q.vector)]
                             /\ t.index = q.index
    BY <1>5
  <2>3. r = q  BY <1>9, <2>1, <2>2
  <2> QED  BY <2>1, <2>2, <2>3
<1>13. \A s \in new, t \in chunks : ~(s.doc = t.doc /\ s.index = t.index)
  BY <1>5, <1>10
<1>14. ASSUME j.clean, NEW i \in DOMAIN all, all[i] \notin Dropped
       PROVE  \E s \in new : s.index = i
  <2>1. i \in DOMAIN j.text /\ j.text[i] \notin Dropped  BY <1>7, <1>14
  <2>3. ~ \E k \in j.next .. Len(j.todo) : j.todo[k].index = i
    <3>1. Len(j.todo) \in Nat  BY <1>3
    <3> QED  BY <1>1, <1>3, <3>1
  <2>4. \E r \in j.final : r.index = i  BY <1>2, <2>1, <2>3 DEF Covered
  <2> QED  BY <1>5, <2>4
<1> QED  BY <1>1, <1>2, <1>5, <1>11, <1>12, <1>13, <1>14 DEF new

-----------------------------------------------------------------------------
(* The chunks table, and what attempts report of it. *)

LEMMA TableInit == Init => TableInv
  BY DEF Init, TableInv

LEMMA TableStep ==
  ASSUME AttemptInv, TableInv, [Next]_vars
  PROVE  TableInv'
<1>1. CASE chunks' = chunks  BY <1>1 DEF TableInv
<1>2. ASSUME NEW w \in Workers, Committed(w) PROVE TableInv'
  <2> DEFINE j   == job[w]
             new == InsertedRows(vectors, j.vecs, j.final)
  <2>1. /\ j.doc \in Docs
        /\ new \subseteq Rows
        /\ \A s \in new : /\ s.doc = j.doc /\ s.by = j.try /\ s.clean = j.clean
                          /\ j.clean => /\ s.index \in DOMAIN DocChunks[j.doc]
                                        /\ s.hash = DocChunks[j.doc][s.index]
        /\ \A s, t \in new : s.index = t.index => s = t
        /\ \A s \in new, t \in chunks : ~(s.doc = t.doc /\ s.index = t.index)
        /\ j.clean => \A i \in DOMAIN DocChunks[j.doc] :
             DocChunks[j.doc][i] \notin Dropped => \E s \in new : s.index = i
    BY <1>2, CommitSpec
  <2>2. chunks' = chunks \cup new  BY <1>2 DEF Committed
  <2> HIDE DEF new, j
  <2>3. chunks' \subseteq Rows  BY <2>1, <2>2 DEF TableInv
  <2>4. \A r \in chunks' : r.clean => /\ r.index \in DOMAIN DocChunks[r.doc]
                                      /\ r.hash = DocChunks[r.doc][r.index]
    BY <2>1, <2>2 DEF TableInv
  <2>5. \A r, s \in chunks' : r.doc = s.doc /\ r.index = s.index => r = s
    BY <2>1, <2>2 DEF TableInv
  <2>6. ASSUME NEW r \in chunks', r.clean, NEW i \in DOMAIN DocChunks[r.doc],
               DocChunks[r.doc][i] \notin Dropped
        PROVE  \E s \in chunks' : s.doc = r.doc /\ s.index = i /\ s.by = r.by /\ s.clean
    <3>1. CASE r \in chunks  BY <2>2, <2>6, <3>1 DEF TableInv
    <3>2. CASE r \in new
      <4>1. r.doc = j.doc /\ j.clean /\ r.by = j.try  BY <2>1, <2>6, <3>2
      <4>2. PICK s \in new : s.index = i  BY <2>1, <2>6, <4>1
      <4>3. s.doc = r.doc /\ s.by = r.by /\ s.clean /\ s \in chunks'  BY <2>1, <2>2, <4>1, <4>2
      <4> QED  BY <4>2, <4>3
    <3> QED  BY <2>2, <3>1, <3>2
  <2> QED  BY <2>3, <2>4, <2>5, <2>6 DEF TableInv
<1> QED  BY <1>1, <1>2, TableChanges

LEMMA TableGrows ==
  ASSUME [Next]_vars
  PROVE  chunks \subseteq chunks'
BY TableChanges DEF Committed

\* StoredInFull(d) in the next state.
StoredNext(d) ==
  \A i \in DOMAIN DocChunks[d] : DocChunks[d][i] \notin Dropped =>
    \E r \in chunks' : r.doc = d /\ r.index = i /\ r.hash = DocChunks[d][i]

LEMMA StoredStays ==
  ASSUME [Next]_vars, NEW d, StoredInFull(d)
  PROVE  StoredNext(d)
BY TableGrows DEF StoredInFull, HasRow, StoredNext

\* A document of which a clean attempt has stored anything is stored in full.
LEMMA CleanRowStored ==
  ASSUME TableInv, NEW r \in chunks, r.clean
  PROVE  StoredInFull(r.doc)
<1> SUFFICES ASSUME NEW i \in DOMAIN DocChunks[r.doc], DocChunks[r.doc][i] \notin Dropped
             PROVE  HasRow(r.doc, i)
  BY DEF StoredInFull
<1>1. PICK s \in chunks : s.doc = r.doc /\ s.index = i /\ s.clean  BY DEF TableInv
<1>2. s.hash = DocChunks[r.doc][i]  BY <1>1 DEF TableInv
<1> QED  BY <1>1, <1>2 DEF HasRow

\* How an attempt may come to its end.
Ends(v) ==
  \/ job'[v] = job[v]
  \/ job'[v].stage \notin {"done", "failed"}
  \/ job'[v].stage = "failed" /\ job'[v].why \notin {"unique", "foreign_key"}
  \/ job'[v].stage = "done" /\ job'[v].doc = NoDoc
  \/ /\ job'[v].stage = "done" /\ job[v].doc \in Docs /\ job'[v].doc = job[v].doc
     /\ job'[v].clean => DocChunks[job[v].doc] = << >>
  \/ /\ job'[v].stage = "done" /\ job'[v].doc = job[v].doc /\ job'[v].clean = job[v].clean
     /\ Committed(v)
  \/ /\ job'[v].stage = "failed" /\ job'[v].doc = job[v].doc
     /\ Save(v)
     /\ job'[v].why = SaveError(vectors, chunks, job[v].vecs, job[v].final)

LEMMA GotoEnds ==
  ASSUME JobsInv, NEW w \in Workers, NEW s, NEW y
  PROVE  /\ Goto(w, s) => /\ job'[w].stage = s /\ job'[w].doc = job[w].doc
                          /\ job'[w].clean = job[w].clean
         /\ FailWith(w, y) => /\ job'[w].stage = "failed" /\ job'[w].why = y
                              /\ job'[w].doc = job[w].doc
         /\ Goto(w, s) \/ FailWith(w, y) => \A v \in Workers \ {w} : job'[v] = job[v]
BY DEF Goto, FailWith, JobsInv, Job

LEMMA JobEnds ==
  ASSUME AttemptInv, [Next]_vars, NEW v \in Workers
  PROVE  Ends(v)
<1>0. JobsInv /\ job \in [Workers -> Job]  BY DEF AttemptInv, JobsInv
<1>1. ASSUME NEW w \in Workers, WorkerStep(w), v # w PROVE job'[v] = job[v]
  BY <1>0, <1>1 DEF WorkerStep, Fetch, Extract, Read, Goto, FailWith, Lookup, InsideCall,
     jobVars, Split, LookupFails, Embed, EmbedFails, Register, Registered, Save, Return
<1>2. CASE Fetch(v) \/ LookupFails(v) \/ EmbedFails(v)
  <2>1. Goto(v, "extract") \/ FailWith(v, "fetch") \/ FailWith(v, "dedup") \/ FailWith(v, "embed")
    BY <1>2 DEF Fetch, LookupFails, EmbedFails
  <2>2. \/ job'[v].stage = "extract"
        \/ job'[v].stage = "failed" /\ job'[v].why \in {"fetch", "dedup", "embed"}
    BY <1>0, <2>1, GotoEnds
  <2> QED  BY <2>2 DEF Ends
<1>3. CASE Extract(v)
  <2>1. job[v].doc \in Docs /\ At(v, "extract")
    BY <1>0, <1>3 DEF Extract, At, JobsInv, JobInv
  <2>2. ASSUME NEW text, NEW clean, Read(v, text, clean),
               clean => text = DocChunks[job[v].doc]
        PROVE  Ends(v)
    <3>1. /\ job'[v].stage = IF text = << >> THEN "done" ELSE "dedup"
          /\ job'[v].doc = job[v].doc /\ job'[v].clean = clean
      BY <1>0, <2>2 DEF Read, Job
    <3> QED  BY <2>1, <2>2, <3>1 DEF Ends
  <2>3. CASE FailWith(v, "extract")
    <3>1. job'[v].stage = "failed" /\ job'[v].why = "extract"  BY <1>0, <2>3, GotoEnds
    <3> QED  BY <3>1 DEF Ends
  <2> QED  BY <1>3, <2>2, <2>3 DEF Extract
<1>4. CASE Lookup(v)
  <2>1. job'[v].stage = "lookup"  BY <1>0, <1>4, GotoEnds DEF Lookup
  <2> QED  BY <2>1 DEF Ends
<1>5. CASE Split(v) \/ Embed(v) \/ Return(v)
  <2>1. job'[v].stage \in {"embed", "register", "idle"}
    <3>1. CASE Split(v)
      <4>1. PICK f, t : job' = [job EXCEPT ![v] = [job[v] EXCEPT !.stage = "embed", !.final = f,
                                                                 !.todo = t]]
        BY <1>0, <3>1 DEF Split
      <4> QED  BY <1>0, <4>1 DEF Job
    <3>3. CASE Embed(v)
      <4>1. PICK f, t : job' = [job EXCEPT ![v] = [job[v] EXCEPT !.stage = "register", !.vecs = f,
                                                                 !.todo = t]]
        BY <1>0, <3>3 DEF Embed
      <4> QED  BY <1>0, <4>1 DEF Job
    <3>2. CASE Return(v)
      <4>1. job'[v] = NoJob  BY <1>0, <3>2 DEF Return
      <4> QED  BY <4>1 DEF NoJob
    <3> QED  BY <1>5, <3>1, <3>2, <3>3
  <2> QED  BY <2>1 DEF Ends
<1>6. CASE Register(v)
  <2>1. job'[v].stage = "register"
    BY <1>0, <1>6 DEF Register, At, Job
  <2> QED  BY <2>1 DEF Ends
<1>7. CASE InsideCall(v) \/ Registered(v)
  BY <1>7 DEF InsideCall, Registered, jobVars, Ends
<1>8. CASE Save(v)
  <2> DEFINE error == SaveError(vectors, chunks, job[v].vecs, job[v].final)
  <2>1. CASE error = "none" /\ Goto(v, "done") /\ Committed(v)
    <3>1. /\ job'[v].stage = "done" /\ job'[v].doc = job[v].doc
          /\ job'[v].clean = job[v].clean
      BY <1>0, <2>1, GotoEnds
    <3> QED  BY <2>1, <3>1 DEF Ends
  <2>2. CASE FailWith(v, "reply_lost") \/ FailWith(v, "transient")
    <3>1. job'[v].stage = "failed" /\ job'[v].why \in {"reply_lost", "transient"}
      BY <1>0, <2>2, GotoEnds
    <3> QED  BY <3>1 DEF Ends
  <2>3. CASE FailWith(v, error)
    <3>1. job'[v].stage = "failed" /\ job'[v].why = error /\ job'[v].doc = job[v].doc
      BY <1>0, <2>3, GotoEnds
    <3> QED  BY <1>8, <3>1 DEF Ends
  <2> QED  BY <1>8, <2>1, <2>2, <2>3 DEF Save, Committed, CommitVectors
<1>9. ASSUME NEW w \in Workers, NEW d \in Docs \cup {NoDoc}, Start(w, d) PROVE Ends(v)
  <2>1. CASE v # w
    <3>1. job'[v] = job[v]  BY <1>0, <1>9, <2>1 DEF Start, Goto
    <3> QED  BY <3>1 DEF Ends
  <2>2. CASE v = w /\ Goto(w, "done")
    <3>1. job'[v].stage = "done" /\ job'[v].doc = job[v].doc  BY <1>0, <2>2, GotoEnds
    <3>2. job[v].doc = NoDoc  BY <1>0, <1>9, <2>2 DEF Start, At, JobsInv, JobInv
    <3> QED  BY <3>1, <3>2 DEF Ends
  <2>3. CASE v = w /\ ~Goto(w, "done")
    <3>1. job'[v].stage = "fetch"  BY <1>0, <1>9, <2>3 DEF Start, NoJob
    <3> QED  BY <3>1 DEF Ends
  <2> QED  BY <2>1, <2>2, <2>3
<1>10. ASSUME NEW p \in Pods, Crash(p) PROVE Ends(v)
  <2>1. job'[v] = job[v] \/ job'[v].stage = "idle"  BY <1>10 DEF Crash, NoJob
  <2> QED  BY <2>1 DEF Ends
<1>11. CASE UNCHANGED vars \/ UNCHANGED jobVars
  BY <1>11 DEF vars, jobVars, Ends
<1>12. ASSUME NEW w \in Workers, WorkerStep(w) PROVE Ends(v)
  <2>1. CASE v # w  BY <1>1, <1>12, <2>1 DEF Ends
  <2>2. CASE v = w
    BY <1>2, <1>3, <1>4, <1>5, <1>6, <1>7, <1>8, <1>12, <2>2 DEF WorkerStep
  <2> QED  BY <2>1, <2>2
<1> QED  BY <1>9, <1>10, <1>11, <1>12 DEF Next

LEMMA SuccessStep ==
  ASSUME AttemptInv, TableInv, SuccessMeansStored, [Next]_vars
  PROVE  SuccessMeansStored'
<1> SUFFICES ASSUME NEW v \in Workers, job'[v].stage = "done", job'[v].doc \in Docs,
                    job'[v].clean
             PROVE  StoredNext(job'[v].doc)
  BY DEF SuccessMeansStored, At, StoredInFull, HasRow, StoredNext
<1>1. CASE job'[v] = job[v]
  BY <1>1, StoredStays DEF SuccessMeansStored, At
<1>2. CASE job'[v].doc = job[v].doc /\ DocChunks[job[v].doc] = << >>
  BY <1>2 DEF StoredNext
<1>3. CASE job'[v].doc = job[v].doc /\ job'[v].clean = job[v].clean /\ Committed(v)
  <2> DEFINE new == InsertedRows(vectors, job[v].vecs, job[v].final)
             d   == job[v].doc
  <2>1. /\ \A s \in new : s.doc = d /\ s.hash = DocChunks[d][s.index]
        /\ \A i \in DOMAIN DocChunks[d] : DocChunks[d][i] \notin Dropped =>
             \E s \in new : s.index = i
    BY <1>3, CommitSpec
  <2>2. new \subseteq chunks'  BY <1>3 DEF Committed
  <2> HIDE DEF new
  <2>3. StoredNext(d)  BY <2>1, <2>2, <1>3 DEF StoredNext
  <2> QED  BY <1>3, <2>3
<1> QED  BY <1>1, <1>2, <1>3, JobEnds, DocAssumption DEF Ends

LEMMA RefusedStep ==
  ASSUME AttemptInv, TableInv, RefusedMeansStored, [Next]_vars
  PROVE  RefusedMeansStored'
<1> SUFFICES ASSUME NEW v \in Workers, job'[v].stage = "failed", job'[v].why = "unique"
             PROVE  \/ StoredNext(job'[v].doc)
                    \/ \E r \in chunks' : r.doc = job'[v].doc /\ ~r.clean
  BY DEF RefusedMeansStored, At, StoredInFull, HasRow, StoredNext
<1>1. CASE job'[v] = job[v]
  BY <1>1, StoredStays, TableGrows DEF RefusedMeansStored, At
<1>2. CASE /\ job'[v].doc = job[v].doc /\ Save(v)
           /\ SaveError(vectors, chunks, job[v].vecs, job[v].final) = "unique"
  <2>1. PICK r \in job[v].final, s \in chunks : r.doc = s.doc /\ r.index = s.index
    BY <1>2 DEF SaveError
  <2>2. r.doc = job[v].doc
    <3>1. JobInv(job[v]) /\ job[v].stage = "register"
      BY <1>2 DEF AttemptInv, JobsInv, Save, At
    <3> QED  BY <2>1, <3>1 DEF JobInv, HasWork, FinalTrue
  <2>3. CASE s.clean
    <3>1. StoredInFull(s.doc)  BY <2>1, <2>3, CleanRowStored
    <3> QED  BY <1>2, <2>1, <2>2, <3>1, StoredStays
  <2>4. CASE ~s.clean  BY <1>2, <2>1, <2>2, <2>4, TableGrows
  <2> QED  BY <2>3, <2>4
<1> QED  BY <1>1, <1>2, JobEnds DEF Ends

LEMMA StoreInit == Init => TableInv /\ SuccessMeansStored /\ RefusedMeansStored
  BY TableInit DEF Init, SuccessMeansStored, RefusedMeansStored, At, NoJob

StoreInv == AttemptInv /\ TableInv /\ SuccessMeansStored /\ RefusedMeansStored

LEMMA StoreStep == StoreInv /\ [Next]_vars => StoreInv'
  BY AttemptStep, TableStep, SuccessStep, RefusedStep DEF StoreInv

LEMMA StoreAlways == Spec => []StoreInv
  BY AttemptInit, StoreInit, StoreStep, PTL DEF Spec, StoreInv

\* Every attempt and every row is what the declarations of ProcessDocument say.
THEOREM PipelineTypeCorrect == Spec => []TypeOK
<1>1. StoreInv => TypeOK
  BY DEF StoreInv, AttemptInv, TableInv, TypeOK, CacheInv, JobsInv, JobInv
<1> QED  BY <1>1, StoreAlways, PTL

\* ProcessDocument returns nil only when the document is in the table.
THEOREM SuccessIsStored == Spec => []SuccessMeansStored
  BY StoreAlways, PTL DEF StoreInv

\* The unique constraint refuses an attempt only for a document that is there.
THEOREM RefusalIsStored == Spec => []RefusedMeansStored
  BY StoreAlways, PTL DEF StoreInv

\* Two rows of clean attempts are of one attempt: the first has covered all that
\* is worth storing, one such chunk of the second would be there twice.
THEOREM OneAttemptPerDocument == Spec => []RowsOfOneAttempt
<1>1. TableInv => RowsOfOneAttempt
  <2> SUFFICES ASSUME TableInv, NEW r \in chunks, NEW s \in chunks, r.doc = s.doc,
                      r.clean, s.clean, WorthStoring(r.doc)
               PROVE  r.by = s.by
    BY DEF RowsOfOneAttempt
  <2>1. PICK i \in DOMAIN DocChunks[r.doc] : DocChunks[r.doc][i] \notin Dropped
    BY DEF WorthStoring
  <2>2. PICK q \in chunks : q.doc = r.doc /\ q.index = i /\ q.by = r.by  BY <2>1 DEF TableInv
  <2>3. PICK t \in chunks : t.doc = s.doc /\ t.index = i /\ t.by = s.by  BY <2>1 DEF TableInv
  <2>4. q = t  BY <2>2, <2>3 DEF TableInv
  <2> QED  BY <2>2, <2>3, <2>4
<1> QED  BY <1>1, StoreAlways, PTL DEF StoreInv

-----------------------------------------------------------------------------
(* Vectors and contents. *)

LEMMA VouchedStays ==
  ASSUME AttemptInv, [Next]_vars, NEW h \in Hashes, NEW id \in VectorIDs, Vouched(h, id)
  PROVE  VouchedNext(h, id)
<1> DEFINE m == [g \in Hashes |-> IF g = h THEN id ELSE None]
<1>1. m \in IdMap /\ m[h] = id /\ h \in Keys(m)
  BY NoneAssumption DEF IdMap, Keys
<1>2. MapVouched(m)  BY DEF MapVouched, Keys
<1>3. CacheInv /\ [DedupNext]_dedupVars  BY AttemptStep DEF AttemptInv
<1> HIDE DEF m
<1>4. MapVouchedNext(m)  BY <1>1, <1>2, <1>3, MapVouchedStable
<1> QED  BY <1>1, <1>4 DEF MapVouchedNext

LEMMA GotoKeeps ==
  ASSUME JobsInv, NEW w \in Workers, NEW s, NEW y
  PROVE  Goto(w, s) \/ FailWith(w, y) => /\ job'[w].vecs = job[w].vecs
                                         /\ job'[w].stage \in {s, "failed"}
BY DEF Goto, FailWith, JobsInv, Job

\* Only Embed makes vectors, and only Split and Register make rows.
LEMMA WorkOfWorker ==
  ASSUME JobsInv, [Next]_vars, NEW v \in Workers
  PROVE  /\ job'[v].vecs = job[v].vecs \/ job'[v].vecs = << >> \/ Embed(v)
         /\ job'[v].stage \in HasWork =>
              \/ job'[v].final = job[v].final /\ job[v].stage \in HasWork
              \/ Split(v) \/ Register(v)
<1> DEFINE Kept == /\ job'[v].vecs = job[v].vecs \/ job'[v].vecs = << >> \/ Embed(v)
                   /\ job'[v].stage \in HasWork =>
                        \/ job'[v].final = job[v].final /\ job[v].stage \in HasWork
                        \/ Split(v) \/ Register(v)
<1> SUFFICES Kept
  OBVIOUS
<1>0. job \in [Workers -> Job]  BY DEF JobsInv
<1>1. ASSUME job'[v] = job[v] PROVE Kept  BY <1>1
<1>2. ASSUME NEW w \in Workers, WorkerStep(w), v # w PROVE Kept
  <2>1. job'[v] = job[v]
    BY <1>0, <1>2 DEF WorkerStep, Fetch, Extract, Read, Goto, FailWith, Lookup, InsideCall,
       jobVars, Split, LookupFails, Embed, EmbedFails, Register, Registered, Save, Return
  <2> QED  BY <1>1, <2>1
<1>3. CASE Fetch(v) \/ Lookup(v) \/ LookupFails(v) \/ EmbedFails(v) \/ Save(v)
  <2>1. \/ Goto(v, "extract") \/ Goto(v, "lookup") \/ Goto(v, "done")
        \/ FailWith(v, "fetch") \/ FailWith(v, "dedup") \/ FailWith(v, "embed")
        \/ FailWith(v, "reply_lost") \/ FailWith(v, "transient")
        \/ FailWith(v, SaveError(vectors, chunks, job[v].vecs, job[v].final))
    BY <1>3 DEF Fetch, Lookup, LookupFails, EmbedFails, Save
  <2>2. job'[v].vecs = job[v].vecs /\ job'[v].stage \in {"extract", "lookup", "done", "failed"}
    BY <2>1, GotoKeeps
  <2> QED  BY <2>2 DEF HasWork
<1>4. CASE Extract(v)
  <2>1. CASE FailWith(v, "extract")
    <3>1. job'[v].vecs = job[v].vecs /\ job'[v].stage = "failed"  BY <2>1, GotoEnds, GotoKeeps
    <3> QED  BY <3>1 DEF HasWork
  <2>2. ASSUME NEW text, NEW clean, Read(v, text, clean) PROVE Kept
    <3>1. job'[v].vecs = job[v].vecs /\ job'[v].stage \in {"done", "dedup"}
      BY <1>0, <2>2 DEF Read, Job
    <3> QED  BY <3>1 DEF HasWork
  <2> QED  BY <1>4, <2>1, <2>2 DEF Extract
<1>5. CASE Split(v)
  <2>1. PICK f, t : job' = [job EXCEPT ![v] = [job[v] EXCEPT !.stage = "embed", !.final = f,
                                                             !.todo = t]]
    BY <1>0, <1>5 DEF Split
  <2>2. job'[v].vecs = job[v].vecs  BY <1>0, <2>1 DEF Job
  <2> QED  BY <1>5, <2>2
<1>6. CASE Embed(v)
  <2>1. PICK f, t : job' = [job EXCEPT ![v] = [job[v] EXCEPT !.stage = "register", !.vecs = f,
                                                             !.todo = t]]
    BY <1>0, <1>6 DEF Embed
  <2>2. job'[v].final = job[v].final  BY <1>0, <2>1 DEF Job
  <2>3. job[v].stage = "embed"  BY <1>6 DEF Embed, At
  <2> QED  BY <1>6, <2>2, <2>3 DEF HasWork
<1>7. CASE Register(v)
  <2>1. job'[v].vecs = job[v].vecs  BY <1>0, <1>7 DEF Register, Job
  <2> QED  BY <1>7, <2>1
<1>8. CASE InsideCall(v) \/ Registered(v) \/ UNCHANGED vars \/ UNCHANGED jobVars
  BY <1>1, <1>8 DEF InsideCall, Registered, vars, jobVars
<1>9. CASE Return(v)
  <2>1. job'[v] = NoJob  BY <1>0, <1>9 DEF Return
  <2> QED  BY <2>1 DEF NoJob, HasWork
<1>10. ASSUME NEW p \in Pods, Crash(p) PROVE Kept
  <2>1. job'[v] = job[v] \/ job'[v] = NoJob  BY <1>10 DEF Crash
  <2> QED  BY <2>1 DEF NoJob, HasWork
<1>11. ASSUME NEW w \in Workers, NEW d \in Docs \cup {NoDoc}, Start(w, d) PROVE Kept
  <2>1. CASE v # w
    <3>1. job'[v] = job[v]  BY <1>0, <1>11, <2>1 DEF Start, Goto
    <3> QED  BY <1>1, <3>1
  <2>2. CASE v = w /\ Goto(w, "done")
    <3>1. job'[v].vecs = job[v].vecs /\ job'[v].stage \in {"done", "failed"}  BY <2>2, GotoKeeps
    <3> QED  BY <3>1 DEF HasWork
  <2>3. CASE v = w /\ ~Goto(w, "done")
    <3>1. job'[v].vecs = << >> /\ job'[v].stage = "fetch"
      BY <1>0, <1>11, <2>3 DEF Start, NoJob
    <3> QED  BY <3>1 DEF HasWork
  <2> QED  BY <2>1, <2>2, <2>3
<1>12. ASSUME NEW w \in Workers, WorkerStep(w) PROVE Kept
  <2>1. CASE v # w  BY <1>2, <1>12, <2>1
  <2>2. CASE v = w
    <3> HIDE DEF Kept
    <3> QED  BY <1>3, <1>4, <1>5, <1>6, <1>7, <1>8, <1>9, <1>12, <2>2 DEF WorkerStep
  <2> QED  BY <2>1, <2>2
<1> HIDE DEF Kept
<1> QED  BY <1>8, <1>10, <1>11, <1>12 DEF Next

LEMMA RegisteredBy ==
  ASSUME [Next]_vars
  PROVE  \/ registered' = registered
         \/ \E w \in Workers :
              LET i == job[w].next
              IN /\ Register(w)
                 /\ registered' = registered \cup {<<job[w].todo[i].hash, job[w].vecs[i].id>>}
<1>1. ASSUME NEW w \in Workers, WorkerStep(w), ~Register(w) PROVE registered' = registered
  BY <1>1 DEF WorkerStep, Fetch, Extract, Lookup, LookupL1, InsideCall, LookupStep, AllInL1,
     LookupRedis, LookupDB, LookupDBFails, RedisHitsCached, CallStep, CacheFound, RowsCached,
     WriteRedis, RedisWritten, Split, Finish, LookupFails, Embed, EmbedFails, Registered, Save,
     Return, dedupVars
<1>2. ASSUME NEW w \in Workers, Register(w)
      PROVE  registered' = registered \cup {<<job[w].todo[job[w].next].hash,
                                              job[w].vecs[job[w].next].id>>}
  BY <1>2 DEF Register, RegisterVectorHash
<1>3. ASSUME NEW w \in Workers, NEW d \in Docs \cup {NoDoc}, Start(w, d)
      PROVE  registered' = registered
  BY <1>3 DEF Start, dedupVars
<1>4. ASSUME NEW p \in Pods, Crash(p) \/ WarmupCache(p) \/ CallStep(p)
      PROVE  registered' = registered
  BY <1>4 DEF Crash, PodRestarts, WarmupCache, CallStep, CacheFound, RowsCached, WriteRedis,
     RedisWritten
<1>5. ASSUME NEW h \in Hashes, RedisDrops(h) PROVE registered' = registered
  BY <1>5 DEF RedisDrops
<1>6. CASE UNCHANGED vars  BY <1>6 DEF vars, dedupVars
<1> QED  BY <1>1, <1>2, <1>3, <1>4, <1>5, <1>6 DEF Next

LEMMA MintedBy ==
  ASSUME [Next]_vars
  PROVE  minted' = minted \/ \E w \in Workers : Embed(w)
BY DEF Next, WorkerStep, Fetch, Extract, Lookup, InsideCall, Split, LookupFails, EmbedFails,
   Register, Registered, Save, Return, Start, Crash, jobVars, vars

\* The chunk that is registered with an id, as RegisterJob knows it.
LEMMA RegisterTypes ==
  ASSUME JobsInv, NEW w \in Workers, Register(w)
  PROVE  LET j == job[w]
             i == j.next
         IN /\ i \in DOMAIN j.todo /\ i \in DOMAIN j.vecs
            /\ j.todo[i].hash \in Hashes /\ j.vecs[i].id \in VectorIDs
            /\ DroppedLast => j.todo[i].hash = j.vecs[i].hash
<1> DEFINE j == job[w]
           i == j.next
<1>1. j \in Job /\ JobInv(j) /\ j.stage = "register" /\ i <= Len(j.todo)
  BY DEF JobsInv, Register, At
<1>2. /\ j.todo \in Seq(PendingChunk) /\ j.vecs \in Seq(NewVector) /\ i \in Nat
      /\ i \in 1 .. Len(j.todo) + 1 /\ Len(j.todo) <= Len(j.vecs)
      /\ DroppedLast => \A k \in DOMAIN j.todo : j.todo[k].hash = j.vecs[k].hash
  BY <1>1 DEF Job, JobInv, HasWork, TodoTrue, VecsTrue
<1>3. i \in DOMAIN j.todo /\ i \in DOMAIN j.vecs  BY <1>1, <1>2
<1>4. j.todo[i] \in PendingChunk /\ j.vecs[i] \in NewVector  BY <1>2, <1>3
<1>5. j.todo[i].hash \in Hashes /\ j.vecs[i].id \in VectorIDs
  BY <1>4 DEF PendingChunk, NewVector
<1> QED  BY <1>2, <1>3, <1>5

\* MadeFor in the next state.
MadeNext(h, id) ==
  \/ vectors'[h] = id
  \/ <<h, id>> \in registered'
  \/ \E w \in Workers : \E i \in DOMAIN job'[w].vecs :
       job'[w].vecs[i].id = id /\ job'[w].vecs[i].hash = h

Fresh(w, h, id) ==
  Embed(w) /\ \E i \in DOMAIN job[w].todo : id = minted + i /\ h = job[w].todo[i].hash

\* Where an id is made for a hash, it was before, or is minted in this step.
LEMMA MadeStep ==
  ASSUME AttemptInv, DroppedLast, [Next]_vars, NEW h \in Hashes, NEW id \in VectorIDs,
         MadeNext(h, id)
  PROVE  MadeFor(h, id) \/ \E w \in Workers : Fresh(w, h, id)
<1>0. JobsInv /\ job \in [Workers -> Job] /\ vectors \in IdMap
  BY DEF AttemptInv, JobsInv, CacheInv, DedupTypeOK
<1>1. CASE vectors'[h] = id
  <2>1. CASE vectors' = vectors  BY <1>1, <2>1 DEF MadeFor
  <2>2. ASSUME NEW w \in Workers, Committed(w) PROVE MadeFor(h, id)
    <3> DEFINE vecs == job[w].vecs
    <3>1. CASE vectors[h] = id  BY <3>1 DEF MadeFor
    <3>2. CASE vectors[h] # id
      <4>1. vectors[h] = None /\ Upserted(vectors, vecs)[h] = id
        BY <1>1, <2>2, <3>2 DEF Committed
      <4>2. PositionsOf(vecs, h) # {} /\ id = vecs[Min(PositionsOf(vecs, h))].id
        BY <4>1, NoneAssumption DEF Upserted
      <4>3. vecs \in Seq(NewVector)  BY <1>0 DEF Job
      <4>4. /\ Min(PositionsOf(vecs, h)) \in DOMAIN vecs
            /\ vecs[Min(PositionsOf(vecs, h))].hash = h
        BY <4>2, <4>3, FirstPosition
      <4> QED  BY <4>2, <4>4 DEF MadeFor
    <3> QED  BY <3>1, <3>2
  <2> QED  BY <2>1, <2>2, TableChanges
<1>2. CASE <<h, id>> \in registered'
  <2>1. CASE registered' = registered  BY <1>2, <2>1 DEF MadeFor
  <2>2. ASSUME NEW w \in Workers, Register(w),
               registered' = registered \cup {<<job[w].todo[job[w].next].hash,
                                                job[w].vecs[job[w].next].id>>}
        PROVE  MadeFor(h, id)
    <3> DEFINE i == job[w].next
    <3>1. i \in DOMAIN job[w].vecs /\ job[w].todo[i].hash = job[w].vecs[i].hash
      BY <1>0, <2>2, RegisterTypes
    <3>2. CASE <<h, id>> \in registered  BY <3>2 DEF MadeFor
    <3>3. CASE <<h, id>> = <<job[w].todo[i].hash, job[w].vecs[i].id>>
      BY <3>1, <3>3 DEF MadeFor
    <3> QED  BY <1>2, <2>2, <3>2, <3>3
  <2> QED  BY <2>1, <2>2, RegisteredBy
<1>3. ASSUME NEW w \in Workers, NEW i \in DOMAIN job'[w].vecs,
             job'[w].vecs[i].id = id, job'[w].vecs[i].hash = h
      PROVE  MadeFor(h, id) \/ Fresh(w, h, id)
  <2>1. CASE job'[w].vecs = job[w].vecs  BY <1>3, <2>1 DEF MadeFor
  <2>2. CASE job'[w].vecs = << >>  BY <1>3, <2>2
  <2>3. CASE Embed(w)
    <3> DEFINE todo == job[w].todo
               vecs == [k \in DOMAIN todo |-> [id |-> minted + k, hash |-> todo[k].hash]]
    <3>1. PICK t : job' = [job EXCEPT ![w] = [job[w] EXCEPT !.stage = "register",
                                                            !.vecs = vecs, !.todo = t]]
      BY <1>0, <2>3 DEF Embed
    <3> HIDE DEF vecs
    <3>2. job'[w].vecs = vecs  BY <1>0, <3>1 DEF Job
    <3>3. i \in DOMAIN todo /\ vecs[i].id = minted + i /\ vecs[i].hash = todo[i].hash
      BY <1>3, <3>2 DEF vecs
    <3> QED  BY <1>3, <2>3, <3>2, <3>3 DEF Fresh
  <2> QED  BY <1>0, <2>1, <2>2, <2>3, WorkOfWorker
<1> QED  BY <1>1, <1>2, <1>3 DEF MadeNext

LEMMA FreshSpec ==
  ASSUME AttemptInv, NEW w \in Workers, NEW h, NEW id \in VectorIDs, Fresh(w, h, id)
  PROVE  /\ id > minted /\ id <= minted'
         /\ \A g : \A v \in Workers : Fresh(v, g, id) => g = h
<1>1. /\ job \in [Workers -> Job] /\ minted \in Nat /\ job[w].todo \in Seq(PendingChunk)
  BY DEF AttemptInv, JobsInv, Job
<1>2. PICK i \in DOMAIN job[w].todo : id = minted + i /\ h = job[w].todo[i].hash
  BY DEF Fresh
<1>3. minted' = minted + Len(job[w].todo)  BY DEF Fresh, Embed
<1>4. i \in 1 .. Len(job[w].todo) /\ Len(job[w].todo) \in Nat  BY <1>1, <1>2
<1>5. ASSUME NEW g, NEW v \in Workers, Fresh(v, g, id) PROVE g = h
  <2>1. v = w
    <3>1. \A u \in Workers : Embed(u) => job[u].stage = "embed" /\ job'[u].stage = "register"
      BY <1>1 DEF Embed, At, Job
    <3>2. \A u \in Workers \ {w} : job'[u] = job[u]  BY <1>1 DEF Fresh, Embed
    <3> QED  BY <1>5, <3>1, <3>2 DEF Fresh
  <2>2. PICK k \in DOMAIN job[w].todo : id = minted + k /\ g = job[w].todo[k].hash
    BY <1>5, <2>1 DEF Fresh
  <2>3. k \in Nat  BY <1>1
  <2>4. k = i  BY <1>1, <1>2, <1>4, <2>2, <2>3
  <2> QED  BY <1>2, <2>2, <2>4
<1> QED  BY <1>1, <1>2, <1>3, <1>4, <1>5

\* A commit gives each row the id of its content.
LEMMA CommitIds ==
  ASSUME AttemptInv, FinalVouched, IdInv, NEW w \in Workers, Committed(w),
         NEW s \in InsertedRows(vectors, job[w].vecs, job[w].final)
  PROVE  vectors'[s.hash] = s.vector
<1> DEFINE vecs == job[w].vecs
           U    == Upserted(vectors, vecs)
<1>1. /\ job[w].stage = "register" /\ job[w] \in Job
      /\ SaveError(vectors, chunks, vecs, job[w].final) = "none"
  BY DEF AttemptInv, JobsInv, Committed, Save, At
<1>2. vectors \in IdMap /\ vecs \in Seq(NewVector) /\ job[w].final \in SUBSET Rows
  BY <1>1 DEF AttemptInv, CacheInv, DedupTypeOK, Job
<1>3. PICK r \in job[w].final : s.vector = ActualId(vectors, vecs, r.vector) /\ s.hash = r.hash
  BY <1>2, InsertedSpec
<1>4. r.hash \in Hashes /\ r.vector \in VectorIDs  BY <1>2 DEF Rows
<1>5. MadeFor(r.hash, r.vector)
  BY <1>1 DEF FinalVouched, HasWork, Vouched, MadeFor
<1>6. \A h \in Hashes : vectors'[h] = U[h]
  BY DEF Committed, Upserted
<1>7. \A h \in Hashes : U[h] # None => U[h] \in VectorIDs /\ MadeFor(h, U[h])
  <2> SUFFICES ASSUME NEW h \in Hashes, U[h] # None PROVE U[h] \in VectorIDs /\ MadeFor(h, U[h])
    OBVIOUS
  <2>0. U[h] \in VectorIDs  BY <1>2, UpsertedType DEF IdMap
  <2>1. CASE vectors[h] # None  BY <2>0, <2>1 DEF Upserted, MadeFor
  <2>2. CASE vectors[h] = None
    <3>1. PositionsOf(vecs, h) # {} /\ U[h] = vecs[Min(PositionsOf(vecs, h))].id
      BY <2>2 DEF Upserted
    <3>2. /\ Min(PositionsOf(vecs, h)) \in DOMAIN vecs
          /\ vecs[Min(PositionsOf(vecs, h))].hash = h
      BY <1>2, <3>1, FirstPosition
    <3> HIDE DEF U
    <3> QED  BY <2>0, <3>1, <3>2 DEF MadeFor
  <2> QED  BY <2>1, <2>2
<1>8. \A h, g \in Hashes : \A id \in VectorIDs : MadeFor(h, id) /\ MadeFor(g, id) => h = g
  BY DEF IdInv
<1> DEFINE firsts == {i \in DOMAIN vecs : i = Min(PositionsOf(vecs, vecs[i].hash))}
           own    == {i \in firsts : vecs[i].id = r.vector}
<1>9. s.vector = IF own = {} THEN r.vector ELSE U[vecs[Min(own)].hash]
  BY <1>3 DEF ActualId
<1>10. CASE own = {}
  <2>1. s.vector \in StoredIds(U)
    BY <1>1, NothingRefused
  <2>2. PICK g \in Hashes : U[g] # None /\ s.vector = U[g]
    BY <2>1 DEF StoredIds, Keys
  <2>3. MadeFor(g, r.vector) /\ s.vector = r.vector
    <3>1. s.vector = r.vector  BY <1>9, <1>10
    <3> HIDE DEF U
    <3> QED  BY <1>7, <2>2, <3>1
  <2>4. g = r.hash  BY <1>4, <1>5, <1>8, <2>3
  <2> HIDE DEF U
  <2> QED  BY <1>3, <1>6, <2>2, <2>4
<1>11. CASE own # {}
  <2>1. own \subseteq DOMAIN vecs /\ DOMAIN vecs \subseteq Nat /\ \A i \in own : vecs[i].id = r.vector
    BY <1>2
  <2> HIDE DEF own
  <2>2. \E n \in own : \A m \in own : n <= m  BY <1>11, <2>1, NatMin
  <2>3. Min(own) \in own  BY <2>2 DEF Min
  <2>4. vecs[Min(own)] \in NewVector /\ vecs[Min(own)].id = r.vector  BY <1>2, <2>1, <2>3
  <2>5. vecs[Min(own)].hash \in Hashes  BY <2>4 DEF NewVector
  <2>6. MadeFor(vecs[Min(own)].hash, r.vector)  BY <2>1, <2>3, <2>4 DEF MadeFor
  <2>7. vecs[Min(own)].hash = r.hash  BY <1>4, <1>5, <1>8, <2>5, <2>6
  <2> HIDE DEF U
  <2> QED  BY <1>3, <1>4, <1>6, <1>9, <1>11, <2>7
<1> QED  BY <1>10, <1>11

LEMMA IdStep ==
  ASSUME AttemptInv, TableInv, FinalVouched, DroppedLast, IdInv, [Next]_vars
  PROVE  IdInv'
<1>0. minted \in Nat /\ minted' \in Nat /\ minted <= minted' /\ vectors \in IdMap
  <2>1. /\ job \in [Workers -> Job] /\ minted \in Nat /\ minted' \in Nat /\ vectors \in IdMap
    BY AttemptStep DEF AttemptInv, JobsInv, CacheInv, DedupTypeOK
  <2>2. ASSUME NEW w \in Workers, Embed(w) PROVE minted <= minted'
    <3>1. Len(job[w].todo) \in Nat  BY <2>1 DEF Job
    <3> QED  BY <2>1, <2>2, <3>1 DEF Embed
  <2> QED  BY <2>1, <2>2, MintedBy
<1>1. ASSUME NEW h \in Hashes, NEW g \in Hashes, NEW id \in VectorIDs,
             MadeNext(h, id), MadeNext(g, id)
      PROVE  h = g
  <2>1. /\ MadeFor(h, id) \/ \E w \in Workers : Fresh(w, h, id)
        /\ MadeFor(g, id) \/ \E w \in Workers : Fresh(w, g, id)
    BY <1>1, MadeStep
  <2>2. \A k \in Hashes : MadeFor(k, id) => id <= minted  BY DEF IdInv
  <2>3. id \in Nat  BY IdAssumption
  <2>4. CASE MadeFor(h, id) /\ MadeFor(g, id)  BY <2>4 DEF IdInv
  <2>5. ASSUME NEW w \in Workers, Fresh(w, h, id) PROVE h = g
    <3>1. id > minted /\ \A k : \A v \in Workers : Fresh(v, k, id) => k = h
      BY <2>5, FreshSpec
    <3> QED  BY <1>0, <2>1, <2>2, <2>3, <3>1
  <2>6. ASSUME NEW w \in Workers, Fresh(w, g, id) PROVE h = g
    <3>1. id > minted /\ \A k : \A v \in Workers : Fresh(v, k, id) => k = g
      BY <2>6, FreshSpec
    <3> QED  BY <1>0, <2>1, <2>2, <2>3, <3>1
  <2> QED  BY <2>1, <2>4, <2>5, <2>6
<1>2. ASSUME NEW h \in Hashes, NEW id \in VectorIDs, MadeNext(h, id) PROVE id <= minted'
  <2>1. CASE MadeFor(h, id)
    <3>1. id <= minted  BY <2>1 DEF IdInv
    <3>2. id \in Nat  BY IdAssumption
    <3> QED  BY <1>0, <3>1, <3>2
  <2>2. ASSUME NEW w \in Workers, Fresh(w, h, id) PROVE id <= minted'
    BY <2>2, FreshSpec
  <2> QED  BY <1>2, <2>1, <2>2, MadeStep
<1>3. \A r \in chunks' : vectors'[r.hash] = r.vector
  <2>1. CASE UNCHANGED <<vectors, chunks>>  BY <2>1 DEF IdInv, VectorMatchesContent
  <2>2. ASSUME NEW w \in Workers, Committed(w), NEW r \in chunks'
        PROVE  vectors'[r.hash] = r.vector
    <3>1. CASE r \in chunks
      <4>1. r.hash \in Hashes /\ r.vector \in VectorIDs  BY <3>1 DEF TableInv, Rows
      <4>2. vectors[r.hash] = r.vector  BY <3>1 DEF IdInv, VectorMatchesContent
      <4> QED  BY <2>2, <4>1, <4>2, NoneAssumption DEF Committed
    <3>2. CASE r \in InsertedRows(vectors, job[w].vecs, job[w].final)
      BY <2>2, <3>2, CommitIds
    <3> QED  BY <2>2, <3>1, <3>2 DEF Committed
  <2> QED  BY <2>1, <2>2, TableChanges
<1> QED  BY <1>1, <1>2, <1>3 DEF IdInv, MadeFor, MadeNext, VectorMatchesContent

\* Rows are made with what a lookup has found, or with what is registered for them.
LEMMA FinalVouchedStep ==
  ASSUME AttemptInv, BindingsVouched, FinalVouched, [Next]_vars
  PROVE  FinalVouched'
<1> SUFFICES ASSUME NEW v \in Workers, job'[v].stage \in HasWork, NEW r \in job'[v].final
             PROVE  VouchedNext(r.hash, r.vector)
  BY DEF FinalVouched, Vouched, VouchedNext
<1>0. JobsInv /\ job \in [Workers -> Job] /\ JobsInv'
  BY AttemptStep DEF AttemptInv, JobsInv
<1>1. r.hash \in Hashes /\ r.vector \in VectorIDs
  <2>1. job'[v].final \subseteq Rows  BY <1>0 DEF JobsInv, Job
  <2> QED  BY <2>1 DEF Rows
<1>2. SUFFICES Vouched(r.hash, r.vector) \/ <<r.hash, r.vector>> \in registered'
  BY <1>1, VouchedStays DEF VouchedNext
<1>3. CASE job'[v].final = job[v].final /\ job[v].stage \in HasWork
  BY <1>3 DEF FinalVouched
<1>4. CASE Split(v)
  <2> DEFINE text  == job[v].text
             found == call[v].found
             dup   == {i \in DOMAIN text : found[text[i]] # None}
  <2>1. PICK t : job' = [job EXCEPT ![v] =
                  [job[v] EXCEPT !.stage = "embed",
                                 !.final = {Row(v, i, text[i], found[text[i]]) : i \in dup},
                                 !.todo = t]]
    BY <1>0, <1>4 DEF Split
  <2>2. job'[v].final = {Row(v, i, text[i], found[text[i]]) : i \in dup}
    BY <1>0, <2>1 DEF Job
  <2>3. PICK i \in dup : r = Row(v, i, text[i], found[text[i]])  BY <2>2
  <2>4. text \in Seq(Hashes)  BY <1>0 DEF Job
  <2>5. text[i] \in Keys(found)  BY <2>4 DEF Keys
  <2>6. Vouched(text[i], found[text[i]])
    BY <2>5 DEF BindingsVouched, MapVouched, Goroutines
  <2> QED  BY <2>3, <2>6 DEF Row
<1>5. CASE Register(v)
  <2> DEFINE j   == job[v]
             i   == j.next
             row == Row(v, j.todo[i].index, j.todo[i].hash, j.vecs[i].id)
  <2>1. job' = [job EXCEPT ![v].next = i + 1, ![v].final = @ \cup {row}]
    BY <1>5 DEF Register
  <2>2. job'[v].final = j.final \cup {row}  BY <1>0, <2>1 DEF Job
  <2>3. j.stage = "register"  BY <1>5 DEF Register, At
  <2>4. CASE r \in j.final  BY <2>3, <2>4 DEF FinalVouched, HasWork
  <2>5. CASE r = row
    <3>1. r.hash = j.todo[i].hash /\ r.vector = j.vecs[i].id  BY <2>5 DEF Row
    <3>2. <<j.todo[i].hash, j.vecs[i].id>> \in registered'
      BY <1>5 DEF Register, RegisterVectorHash
    <3> QED  BY <3>1, <3>2
  <2> QED  BY <2>2, <2>4, <2>5
<1> QED  BY <1>0, <1>3, <1>4, <1>5, WorkOfWorker

LEMMA IdInit == Init => BindingsVouched /\ FinalVouched /\ IdInv
<1> SUFFICES ASSUME Init PROVE BindingsVouched /\ FinalVouched /\ IdInv
  OBVIOUS
<1>1. BindingsVouched  BY VouchedInit DEF Init
<1>2. FinalVouched  BY DEF Init, FinalVouched, NoJob, HasWork
<1>3. \A h \in Hashes : \A id \in VectorIDs : ~MadeFor(h, id)
  BY NoneAssumption DEF Init, DedupInit, NoEntries, NoJob, MadeFor
<1>4. IdInv  BY <1>3 DEF Init, IdInv, VectorMatchesContent
<1> QED  BY <1>1, <1>2, <1>4

LEMMA PipeInit == Init => PipeInv
  BY AttemptInit, StoreInit, IdInit DEF PipeInv, AttemptInv

LEMMA PipeStep == PipeInv /\ [Next]_vars => PipeInv'
<1> SUFFICES ASSUME PipeInv, [Next]_vars PROVE PipeInv'
  OBVIOUS
<1>1. StoreInv  BY DEF PipeInv, StoreInv, AttemptInv
<1>2. StoreInv'  BY <1>1, StoreStep
<1>3. AttemptInv /\ TableInv  BY <1>1 DEF StoreInv
<1>4. BindingsVouched'
  BY <1>3, AttemptStep, VouchedStep DEF PipeInv, AttemptInv
<1>5. FinalVouched'  BY <1>3, FinalVouchedStep DEF PipeInv
<1>6. DroppedLast => IdInv'  BY <1>3, IdStep DEF PipeInv
<1> QED  BY <1>2, <1>4, <1>5, <1>6 DEF PipeInv, StoreInv, AttemptInv, DroppedLast

LEMMA PipeAlways == Spec => []PipeInv
  BY PipeInit, PipeStep, PTL DEF Spec

\* Where the chunks that enrichment drops come last, as a short rest of a document
\* does, every stored chunk has the vector of its own content: ids are made for one
\* hash, and caches, Redis, registration and the transaction keep them to it.
THEOREM VectorsMatch == Spec => [](DroppedLast => VectorMatchesContent)
  BY PipeAlways, PTL DEF PipeInv, IdInv

LEMMA OwnVectorStored ==
  ASSUME AttemptInv, NoRepeats, NEW w \in Workers, Save(w), NEW r \in job[w].final,
         r.vector \in OwnIds(w)
  PROVE  ActualId(vectors, job[w].vecs, r.vector) \in StoredIds(Upserted(vectors, job[w].vecs))
<1> DEFINE vecs   == job[w].vecs
           U      == Upserted(vectors, vecs)
           firsts == {i \in DOMAIN vecs : i = Min(PositionsOf(vecs, vecs[i].hash))}
           own    == {i \in firsts : vecs[i].id = r.vector}
<1>1. job[w] \in Job /\ JobInv(job[w]) /\ job[w].stage = "register"
  BY DEF AttemptInv, JobsInv, Save, At
<1>2. /\ vecs \in Seq(NewVector) /\ vectors \in IdMap
      /\ \A i, k \in DOMAIN vecs : vecs[i].hash = vecs[k].hash => i = k
  BY <1>1 DEF Job, JobInv, VecsTrue, AttemptInv, CacheInv, DedupTypeOK
<1>3. PICK k \in DOMAIN vecs : vecs[k].id = r.vector  BY DEF OwnIds
<1>4. k = Min(PositionsOf(vecs, vecs[k].hash))
  <2>1. PositionsOf(vecs, vecs[k].hash) # {}  BY <1>3 DEF PositionsOf
  <2> QED  BY <1>2, <2>1, FirstPosition
<1>5. own # {} /\ own \subseteq DOMAIN vecs /\ DOMAIN vecs \subseteq Nat
  BY <1>2, <1>3, <1>4
<1>6. ActualId(vectors, vecs, r.vector) = U[vecs[Min(own)].hash]
  BY <1>5 DEF ActualId
<1> HIDE DEF own
<1>7. \E n \in own : \A m \in own : n <= m  BY <1>5, NatMin
<1>8. Min(own) \in DOMAIN vecs  BY <1>5, <1>7 DEF Min
<1> DEFINE h == vecs[Min(own)].hash
<1>9. h \in Hashes
  <2>1. vecs[Min(own)] \in NewVector  BY <1>2, <1>8
  <2> QED  BY <2>1 DEF NewVector
<1>10. Min(own) \in PositionsOf(vecs, h)  BY <1>8 DEF PositionsOf
<1> HIDE DEF h
<1>11. PositionsOf(vecs, h) # {}  BY <1>10
<1>12. vecs[Min(PositionsOf(vecs, h))] \in NewVector  BY <1>2, <1>11, FirstPosition
<1>13. U[h] # None
  BY <1>9, <1>11, <1>12, NoneAssumption DEF Upserted, NewVector
<1> QED  BY <1>6, <1>9, <1>13 DEF StoredIds, Keys, h

LEMMA UpsertKeeps ==
  ASSUME NEW v, NEW vecs
  PROVE  StoredIds(v) \subseteq StoredIds(Upserted(v, vecs))
<1> SUFFICES ASSUME NEW h \in Hashes, v[h] # None PROVE v[h] \in StoredIds(Upserted(v, vecs))
  BY DEF StoredIds, Keys
<1>1. Upserted(v, vecs)[h] = v[h]  BY DEF Upserted
<1> QED  BY <1>1 DEF StoredIds, Keys

\* When no content occurs twice in a document, an attempt that the foreign key
\* refuses has an id from a lookup that was never stored: what it made itself is
\* saved with it or taken from the row that is there already.
THEOREM OwnVectorsNeverDangle ==
  ASSUME NoRepeats
  PROVE  Spec => DanglingComesFromCache
<1> DEFINE Blames(w) == ~At(w, "failed") /\ job'[w].stage = "failed"
                          /\ job'[w].why = "foreign_key"
                            => \E r \in Dangling(w) : r.vector \notin OwnIds(w)
<1>1. ASSUME AttemptInv, [Next]_vars, NEW w \in Workers, ~At(w, "failed"),
             job'[w].stage = "failed", job'[w].why = "foreign_key"
      PROVE  \E r \in Dangling(w) : r.vector \notin OwnIds(w)
  <2> DEFINE vecs == job[w].vecs
             U    == Upserted(vectors, vecs)
  <2>1. Save(w) /\ SaveError(vectors, chunks, vecs, job[w].final) = "foreign_key"
    BY <1>1, JobEnds DEF Ends, At
  <2>2. PICK s \in InsertedRows(vectors, vecs, job[w].final) : s.vector \notin StoredIds(U)
    BY <2>1 DEF SaveError
  <2>3. /\ vecs \in Seq(NewVector) /\ vectors \in IdMap /\ job[w].final \in SUBSET Rows
    BY <1>1 DEF AttemptInv, JobsInv, Job, CacheInv, DedupTypeOK
  <2>4. PICK r \in job[w].final : s.vector = ActualId(vectors, vecs, r.vector)
    BY <2>2, <2>3, InsertedSpec
  <2>5. r.vector \notin OwnIds(w)
    BY <1>1, <2>1, <2>2, <2>4, OwnVectorStored
  <2>6. ActualId(vectors, vecs, r.vector) = r.vector
    BY <2>5 DEF ActualId, OwnIds
  <2>7. r.vector \notin StoredIds(vectors)
    BY <2>2, <2>4, <2>6, UpsertKeeps
  <2> QED  BY <2>5, <2>7 DEF Dangling
<1>2. AttemptInv /\ [Next]_vars => \A w \in Workers : Blames(w)
  BY <1>1
<1>3. Spec => [][\A w \in Workers : Blames(w)]_vars
  BY <1>2, AttemptAlways, PTL DEF Spec
<1> QED  BY <1>3 DEF DanglingComesFromCache
=============================================================================
