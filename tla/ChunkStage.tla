----------------------------- MODULE ChunkStage -------------------------------
(***************************************************************************)
(* The middle of ProcessDocument, from the chunks that are to be embedded  *)
(* to the rows that are to be saved: enrichment and embedding side by      *)
(* side, the wait for both, and the loop that gives vectors to chunks.     *)
(* A call is the attempt of one worker at one document; the workers share  *)
(* the near-duplicate index.  PipelineWorker takes all up to the loop for  *)
(* its one step Embed, or EmbedFails.                                      *)
(***************************************************************************)
EXTENDS VectorizationScheduler, NLPPipeline

VARIABLES stage,  \* where the worker stands
          turn,   \* index of the registering loop
          rows    \* finalChunks, as far as they are new

stageVars == <<stage, turn, rows>>
vars == <<schedVars, nlpVars, stageVars>>

Init ==
  /\ SchedInit
  /\ NLPInit
  /\ stage = [c \in Calls |-> "split"]
  /\ turn = [c \in Calls |-> 1]
  /\ rows = [c \in Calls |-> << >>]

At(c, s) == stage[c] = s

Goto(c, s) == stage' = [stage EXCEPT ![c] = s]

\* Without chunks there is nothing to ask OpenRouter for.
Begin(c) ==
  /\ At(c, "split")
  /\ Goto(c, "both")
  /\ IF Batch[c] = << >> THEN UNCHANGED schedVars ELSE GenerateBatchEmbeddings(c)
  /\ UNCHANGED <<nlpVars, turn, rows>>

Enrich(c) ==
  /\ At(c, "both")
  /\ \E k \in DOMAIN Batch[c] : EnrichChunk(c, k)
  /\ UNCHANGED <<schedVars, stageVars>>

Vectorize(c) ==
  /\ At(c, "both")
  /\ SchedStep(c)
  /\ UNCHANGED <<nlpVars, stageVars>>

\* Mutant: the worker waits for the vectors only.
VectorsThere(c) == Batch[c] = << >> \/ pc[c] = "returned"

\* Both goroutines are done.
BothDone(c) ==
  /\ looked[c] = DOMAIN Batch[c]
  /\ Batch[c] = << >> \/ pc[c] = "returned"

Join(c) ==
  /\ At(c, "both")
  /\ BothDone(c)
  /\ Goto(c, IF outcome[c].kind = "error" THEN "failed" ELSE "register")
  /\ UNCHANGED <<schedVars, nlpVars, turn, rows>>

\* newVectors[i].ID, where there is one.
VectorOf(c, i) ==
  IF i <= Len(outcome[c].vectors) THEN outcome[c].vectors[i].id
                                  ELSE EnrichedChunks(c)[i].vector

Register(c) ==
  LET i     == turn[c]
      chunk == EnrichedChunks(c)[i]
  IN /\ At(c, "register")
     /\ i <= Len(EnrichedChunks(c))
     /\ rows' = [rows EXCEPT ![c] = Append(@, [chunk EXCEPT !.vector = VectorOf(c, i)])]
     /\ IF i <= Len(outcome[c].vectors)
          THEN RegisterChunkVector(chunk.hash, outcome[c].vectors[i].id)
          ELSE UNCHANGED buckets
     /\ turn' = [turn EXCEPT ![c] = i + 1]
     /\ UNCHANGED <<schedVars, stage, looked, near>>

\* SaveBulk comes next.
Registered(c) ==
  /\ At(c, "register")
  /\ turn[c] > Len(EnrichedChunks(c))
  /\ Goto(c, "save")
  /\ UNCHANGED <<schedVars, nlpVars, turn, rows>>

WorkerStep(c) == Begin(c) \/ Enrich(c) \/ Vectorize(c) \/ Join(c) \/ Register(c) \/ Registered(c)

Next == \E c \in Calls : WorkerStep(c)

\* Goroutines run, requests to OpenRouter end by their timeout, and a backoff ends.
Spec == Init /\ [][Next]_vars /\ \A c \in Calls : WF_vars(WorkerStep(c))

-----------------------------------------------------------------------------
\* Enrichment and embedding come to what one step of PipelineWorker does: the
\* chunks that are kept, in their order, the i-th with the i-th vector of this
\* attempt, or an error.  The worker reads neither result before both are there, and
\* what the index says of near duplicates reaches no row.
EmbedIsOneStep ==
  \A c \in Calls :
    /\ At(c, "register") => looked[c] = DOMAIN Batch[c]
    /\ At(c, "save") =>
         /\ [i \in DOMAIN rows[c] |-> rows[c][i].hash] = Select(Batch[c], Kept(c))
         /\ \A i \in DOMAIN rows[c] : rows[c][i].vector = Vector(c, i).id
    /\ At(c, "failed") => Batch[c] # << >> /\ outcome[c] = Error

\* The stage ends, with rows to save or an error: no goroutine is left at the
\* semaphore or at the channel of errors, and the worker not at its WaitGroup.
StageEnds == \A c \in Calls : []<>(stage[c] \in {"save", "failed"})
=============================================================================
