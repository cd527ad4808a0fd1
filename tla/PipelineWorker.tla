--------------------------- MODULE PipelineWorker ----------------------------
(***************************************************************************)
(* ProcessDocument of the pipe service, as run by the worker goroutines of *)
(* several pods on top of the chunk deduplicator: fetch, extract and       *)
(* segment the document, look its chunks up, embed the new ones, register  *)
(* their hashes, and save vectors and chunks in one transaction.           *)
(*                                                                         *)
(* A chunk is its hash: two chunks with one hash have one content.  What   *)
(* segmentation makes of a document is DocChunks; what it may make of the  *)
(* lines that arrive when the extraction breaks off is CutChunks: its last *)
(* chunk is another one then, and recurring headers may pass for text.     *)
(* The attempt a worker is in is the record job[w]:                        *)
(*   stage   the call of ProcessDocument the worker has come to            *)
(*   text    the hashes of rawChunks                                       *)
(*   todo    chunksToEmbed, then enrichedChunks: [index, hash] each        *)
(*   vecs    newVectors                                                    *)
(*   next    loop index over enrichedChunks                                *)
(*   final   finalChunks, as rows                                          *)
(*   why     the error of a failed attempt                                 *)
(*   try, clean   history: number of the attempt; no error went unseen     *)
(***************************************************************************)
EXTENDS ChunkDeduplicator, VectorRepository, Selection

CONSTANTS Docs, NoDoc,  \* document ids; the blank id of a malformed event
          DocChunks,    \* hashes of the chunks of each document, in order
          CutChunks,    \* the same of the beginnings that may be read of it
          LowQuality,   \* hashes of content the quality filter rejects
          MaxAttempts,  \* bound: deliveries of one document
          MaxVectors    \* bound: vector ids minted; VectorIDs is 1 .. MaxVectors

ASSUME DocAssumption == /\ NoDoc \notin Docs
                        /\ DocChunks \in [Docs -> Seq(Hashes)]
                        /\ CutChunks \in [Docs -> SUBSET Seq(Hashes)]
ASSUME BoundAssumption == MaxAttempts \in Nat /\ MaxVectors \in Nat
ASSUME IdAssumption == VectorIDs = 1 .. MaxVectors

VARIABLES job,
          chunks,    \* the chunks table
          attempts,  \* attempts begun, per document
          minted     \* vector ids handed out by uuid.NewV7

jobVars == <<job, chunks, attempts, minted>>
vars == <<dedupVars, jobVars>>

NoJob == [stage |-> "idle", doc |-> NoDoc, text |-> << >>, todo |-> << >>,
          vecs |-> << >>, next |-> 1, final |-> {}, why |-> "none",
          try |-> 0, clean |-> TRUE]

Init == /\ DedupInit
        /\ job = [w \in Workers |-> NoJob]
        /\ chunks = {}
        /\ attempts = [d \in Docs |-> 0]
        /\ minted = 0

At(w, stage) == job[w].stage = stage

Goto(w, stage) == job' = [job EXCEPT ![w].stage = stage]

FailWith(w, why) == job' = [job EXCEPT ![w].stage = "failed", ![w].why = why]

\* The subscriber calls the handler.  An event without a document is done.
Start(w, d) ==
  /\ At(w, "idle")
  /\ \/ /\ d = NoDoc
        /\ Goto(w, "done")
        /\ UNCHANGED attempts
     \/ /\ d \in Docs
        /\ attempts[d] < MaxAttempts
        /\ attempts' = [attempts EXCEPT ![d] = @ + 1]
        /\ job' = [job EXCEPT ![w] = [NoJob EXCEPT !.stage = "fetch", !.doc = d,
                                                   !.try = attempts[d] + 1]]
  /\ UNCHANGED <<dedupVars, chunks, minted>>

Fetch(w) ==
  /\ At(w, "fetch")
  /\ Goto(w, "extract") \/ FailWith(w, "fetch")
  /\ UNCHANGED <<dedupVars, chunks, attempts, minted>>

\* What the worker has read of the document; without text there is no more to do.
Read(w, text, clean) ==
  job' = [job EXCEPT ![w] = [@ EXCEPT !.stage = IF text = << >> THEN "done" ELSE "dedup",
                                      !.text = text, !.clean = clean]]

\* The extracting goroutine closes the line channel before its error is assigned
\* to extractErr, which the worker reads without synchronisation: a failed
\* extraction is either seen, or passes for the end of what was read so far.
Extract(w) ==
  /\ At(w, "extract")
  /\ \/ Read(w, DocChunks[job[w].doc], TRUE)
     \/ FailWith(w, "extract")
     \/ \E text \in CutChunks[job[w].doc] : Read(w, text, FALSE)
  /\ UNCHANGED <<dedupVars, chunks, attempts, minted>>

Lookup(w) ==
  /\ At(w, "dedup")
  /\ LookupL1(w, {job[w].text[i] : i \in DOMAIN job[w].text})
  /\ Goto(w, "lookup")
  /\ UNCHANGED <<chunks, attempts, minted>>

\* A step inside a call of the deduplicator.
InsideCall(w) ==
  /\ LookupStep(w) \/ CallStep(w)
  /\ UNCHANGED jobVars

Row(w, i, hash, id) ==
  [doc |-> job[w].doc, index |-> i, hash |-> hash, vector |-> id,
   by |-> job[w].try, clean |-> job[w].clean]

\* Chunks found keep the id they were found with, the others are to be embedded.
Split(w) ==
  LET text  == job[w].text
      found == call[w].found
      dup   == {i \in DOMAIN text : found[text[i]] # None}
      chunk == [i \in DOMAIN text |-> [index |-> i, hash |-> text[i]]]
  IN /\ At(w, "lookup")
     /\ call[w].pc = "returned"
     /\ Finish(w)
     /\ job' = [job EXCEPT ![w] =
          [@ EXCEPT !.stage = "embed",
                    !.final = {Row(w, i, text[i], found[text[i]]) : i \in dup},
                    !.todo  = Select(chunk, DOMAIN text \ dup)]]
     /\ UNCHANGED <<chunks, attempts, minted>>

LookupFails(w) ==
  /\ At(w, "lookup")
  /\ call[w].pc = "failed"
  /\ Finish(w)
  /\ FailWith(w, "dedup")
  /\ UNCHANGED <<chunks, attempts, minted>>

\* A blank chunk normalises to nothing, and is dropped with the poor ones.
Dropped == LowQuality \cup {EmptyHash}

\* Mutant: chunks come out of the parallel enrichment in another order.
EnrichedReversed(todo) ==
  LET kept == Select(todo, {i \in DOMAIN todo : todo[i].hash \notin Dropped})
  IN [i \in DOMAIN kept |-> kept[Len(kept) + 1 - i]]

Enriched(todo) == Select(todo, {i \in DOMAIN todo : todo[i].hash \notin Dropped})

\* Enrichment and embedding run side by side on the same chunks and share no
\* state.  Every chunk is embedded; enrichment drops those of low quality.
Embed(w) ==
  LET todo == job[w].todo
  IN /\ At(w, "embed")
     /\ minted + Len(todo) <= MaxVectors
     /\ minted' = minted + Len(todo)
     /\ job' = [job EXCEPT ![w] =
          [@ EXCEPT !.stage = "register",
                    !.vecs  = [i \in DOMAIN todo |-> [id |-> minted + i, hash |-> todo[i].hash]],
                    !.todo  = Enriched(todo)]]
     /\ UNCHANGED <<dedupVars, chunks, attempts>>

EmbedFails(w) ==
  /\ At(w, "embed")
  /\ job[w].todo # << >>
  /\ FailWith(w, "embed")
  /\ UNCHANGED <<dedupVars, chunks, attempts, minted>>

\* One turn of the loop: the i-th enriched chunk takes the id of the i-th new
\* vector and registers it, before anything is saved.
Register(w) ==
  LET i == job[w].next
      c == job[w].todo[i]
  IN /\ At(w, "register")
     /\ i <= Len(job[w].todo)
     /\ RegisterVectorHash(w, c.hash, job[w].vecs[i].id)
     /\ job' = [job EXCEPT ![w].next = i + 1,
                           ![w].final = @ \cup {Row(w, c.index, c.hash, job[w].vecs[i].id)}]
     /\ UNCHANGED <<chunks, attempts, minted>>

Registered(w) ==
  /\ At(w, "register")
  /\ Finish(w)
  /\ UNCHANGED jobVars

\* SaveBulk: the transaction commits, is rejected or fails, or commits although
\* the worker is told that it failed.
Save(w) ==
  LET vecs  == job[w].vecs
      rows  == job[w].final
      error == SaveError(vectors, chunks, vecs, rows)
  IN /\ At(w, "register")
     /\ call[w].pc = "idle"
     /\ job[w].next > Len(job[w].todo)
     /\ \/ /\ error = "none"
           /\ CommitVectors(Upserted(vectors, vecs))
           /\ chunks' = chunks \cup InsertedRows(vectors, vecs, rows)
           /\ Goto(w, "done") \/ FailWith(w, "reply_lost")
        \/ /\ error # "none"
           /\ FailWith(w, error)
           /\ UNCHANGED <<vectors, chunks>>
        \/ /\ FailWith(w, "transient")
           /\ UNCHANGED <<vectors, chunks>>
     /\ UNCHANGED <<cache, redis, call, registered, attempts, minted>>

\* The handler returns to the subscriber.
Return(w) ==
  /\ job[w].stage \in {"done", "failed"}
  /\ job' = [job EXCEPT ![w] = NoJob]
  /\ UNCHANGED <<dedupVars, chunks, attempts, minted>>

\* The process of a pod dies with all attempts in it.
Crash(p) ==
  /\ PodRestarts(p)
  /\ job' = [w \in Workers |-> IF PodOf[w] = p THEN NoJob ELSE job[w]]
  /\ UNCHANGED <<chunks, attempts, minted>>

WorkerStep(w) ==
  \/ Fetch(w) \/ Extract(w) \/ Lookup(w) \/ InsideCall(w) \/ Split(w) \/ LookupFails(w)
  \/ Embed(w) \/ EmbedFails(w) \/ Register(w) \/ Registered(w) \/ Save(w) \/ Return(w)

Next ==
  \/ \E w \in Workers : WorkerStep(w) \/ \E d \in Docs \cup {NoDoc} : Start(w, d)
  \/ \E p \in Pods : \/ Crash(p)
                     \/ (WarmupCache(p) \/ CallStep(p)) /\ UNCHANGED jobVars
  \/ \E h \in Hashes : RedisDrops(h) /\ UNCHANGED jobVars

Spec == Init /\ [][Next]_vars

-----------------------------------------------------------------------------
Rows == [doc : Docs, index : Nat, hash : Hashes, vector : VectorIDs, by : Nat,
         clean : BOOLEAN]

Stages == {"idle", "fetch", "extract", "dedup", "lookup", "embed", "register", "done", "failed"}

Errors == {"none", "fetch", "extract", "dedup", "embed", "second_time", "unique", "foreign_key",
           "transient", "reply_lost"}

PendingChunk == [index : Nat, hash : Hashes]

NewVector == [id : VectorIDs, hash : Hashes]

Job == [stage : Stages, doc : Docs \cup {NoDoc}, text : Seq(Hashes), todo : Seq(PendingChunk),
        vecs : Seq(NewVector), next : Nat, final : SUBSET Rows, why : Errors,
        try : Nat, clean : BOOLEAN]

\* Types of the worker's state and of the rows of the chunks table.
TypeOK ==
  /\ DedupTypeOK
  /\ job \in [Workers -> Job]
  /\ \A w \in Workers : Len(job[w].todo) <= Len(job[w].text)
  /\ chunks \subseteq Rows
  /\ attempts \in [Docs -> 0 .. MaxAttempts]
  /\ minted \in 0 .. MaxVectors

HasRow(d, i) == \E r \in chunks : r.doc = d /\ r.index = i /\ r.hash = DocChunks[d][i]

StoredInFull(d) ==
  \A i \in DOMAIN DocChunks[d] : DocChunks[d][i] \notin Dropped => HasRow(d, i)

WorthStoring(d) == \E i \in DOMAIN DocChunks[d] : DocChunks[d][i] \notin Dropped

\* An attempt that reports success has stored every chunk worth storing, whoever
\* else works on the document and whatever failed or was retried before, as
\* long as no extraction error was overlooked.
SuccessMeansStored ==
  \A w \in Workers : At(w, "done") /\ job[w].doc \in Docs /\ job[w].clean
                       => StoredInFull(job[w].doc)

\* The rows of a document all come from one attempt: retries and redeliveries
\* that overlap never interleave their chunks.  A document of which nothing is
\* worth storing is left out: its rows are those that a lookup happens to find.
RowsOfOneAttempt ==
  \A r, s \in chunks : r.doc = s.doc /\ r.clean /\ s.clean /\ WorthStoring(r.doc)
                         => r.by = s.by

\* The redelivery of a stored document is refused for the rows that are there, as
\* often as it comes, until it is given up.  That never hides a document that is
\* not stored: what an attempt is refused for is all of the document.
RefusedMeansStored ==
  \A w \in Workers : At(w, "failed") /\ job[w].why = "unique" =>
    \/ StoredInFull(job[w].doc)
    \/ \E r \in chunks : r.doc = job[w].doc /\ ~r.clean

\* Every stored chunk refers to the vector of its own content, the one with its
\* hash, through registration, caching, lookup and conflict resolution.
VectorMatchesContent == \A r \in chunks : vectors[r.hash] = r.vector

\* When the database refuses an attempt for a chunk whose vector does not exist,
\* some such id was handed to it by a lookup: the attempt's own vectors never
\* dangle, whoever stored the same hashes first.
Dangling(w) == {r \in job[w].final : r.vector \notin StoredIds(vectors)}

OwnIds(w) == {job[w].vecs[i].id : i \in DOMAIN job[w].vecs}

DanglingComesFromCache ==
  [][\A w \in Workers :
       ~At(w, "failed") /\ job'[w].stage = "failed" /\ job'[w].why = "foreign_key"
         => \E r \in Dangling(w) : r.vector \notin OwnIds(w)]_vars

-----------------------------------------------------------------------------
(* What the documentation promises and the code does not do. *)

\* A retry after a transient failure is not refused for what the failed attempt
\* left behind in the caches.
TransientFailureHeals ==
  \A w \in Workers : ~(At(w, "failed") /\ job[w].why = "foreign_key")
=============================================================================
