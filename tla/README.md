# rag-pipe: TLA+ models, model checking and proofs

rag-pipe turns uploaded documents into searchable embeddings. Three Go services
share PostgreSQL (with pgvector), MinIO, Redis and NATS. This directory models
the parts of them where order, failure and concurrency decide whether documents
are stored once, stored whole, cut without loss, found again and not forgotten. TLC
checks the models on small instances. TLAPS proves, for all instances, every
invariant and every action property that the passing runs check; what is left to
TLC alone is liveness.

    tlc -config MCPipelineShared.cfg MCPipelineWorker
    tlapm ChunkDeduplicatorProofs.tla

## 1. The system

| component | state it keeps | operations |
|---|---|---|
| **Ingestion service** (`ingestion/`) | none of its own but `bucketOnce`; writes MinIO objects, `documents` rows, NATS events | `UploadDocument` → `ProcessAndIngest`: read and hash, `FindByChecksum`, `UploadFile`, `Save`, `PublishDocumentCreated` |
| **Event subscriber** (`pipe/.../event_subscriber.go`) | the channel `msgChan`, worker goroutines, a JetStream consumer shared by all pods | callback, `workerLoop` (handler, ack, nak, DLQ), `Subscribe`, `Unsubscribe` |
| **Pipeline worker** (`pipe/.../pipeline_worker.go`) | none between documents | `ProcessDocument`: fetch, extract, normalise, segment, deduplicate, enrich and embed, register, save |
| **Chunk deduplicator** (`pipe/.../deduplicator.go`, `redis_repository.go`) | L1 map and order list per pod, `chunk:hash:*` keys in Redis | `DeduplicateChunkBatch`, `RegisterVectorHash`, `WarmupCache` |
| **Vector repository** (`pipe/.../vector_repository.go`) | tables `vectors`, `chunks` | batch lookups, `SaveBulk` |
| **Text extractor** (`extractor.go`) | the pdftotext process, a channel of lines, `extractErr` | `ExtractFromReader` in a goroutine beside the worker's loop |
| **Normaliser, segmenter** (`normalizer.go`, `segmenter.go`) | none between documents | `NormalizeLines`; `SegmentDocument` with four strategies |
| **Vectorization scheduler** (`vectorizer.go`, `openrouter_client.go`) | per call: semaphore, result slots, error channel | `GenerateBatchEmbeddings`: sub-batches side by side, retries |
| **NLP pipeline** (`nlp/`) | the MinHash LSH index of a pod | `EnrichChunksParallel`, `RegisterChunkVector` |
| **Inference service** (`inference/`) | requests; the pool of its process | `QueryRAG`: embed the query, search the vectors; start and orderly stop |
| **Configuration** (`config.go` of each service) | the environment of the process | `loadDotEnv`, `LoadConfig` |
| telemetry, manifests | | |

How they interact. The ingestion service publishes `document.created` on a core
NATS connection; a JetStream stream created by the pipe service stores it. All
pipe pods are one queue group. A pod's callback puts each message into a
bounded channel, a worker takes it and runs `ProcessDocument`, whose error
becomes a nak with delay or, at the last delivery, a message to the dead letter
queue. Workers of one pod share its deduplicator, all pods share Redis and the
database. The inference service only reads what `SaveBulk` committed.

What is hard. No lock or transaction spans two of the stores, so that every
pair of writes can be separated by a crash or by another actor. The cache levels
are copied into each other without a lock. Hashes are registered in the caches
before the transaction that stores their vectors. JetStream delivers again when
AckWait is over, also while the first copy is still being processed. Shutdown
waits for no worker. `PROJECT.json` lists the hazards line by line, with the
properties that cover each, or the reason why none does yet.

What makes each part correct:

* ingestion: nothing refers to what does not exist; a 201 names a stored
  document of that content, and to the upload that stored it also says that its
  event was published; a file is stored once; every request ends.
* subscriber: no event is taken off the stream undecided, multiplied, given up
  early or forgotten; given up events are in the DLQ; shutdown is orderly.
* worker: success means that the document is stored whole, by one attempt, each
  chunk with the vector of its content; failures that pass leave no trace.
* deduplicator: answers are vouched for, complete and stable; the cache stays
  within its capacity.
* text: lines arrive in order and on their page; nothing but recurring headers
  and control characters is removed; every sentence is in a chunk, chunks keep to
  budget, overlap and pages, and every loop ends.
* scheduler: one vector for each chunk, in its place, or an error and none; nobody
  is left waiting.
* inference: an answer is the best of what is committed, sees no half of a
  document, and every query ends, also when the service is stopped.
* configuration: what counts is the first assignment; no service runs without a
  setting that it requires.

## 2. Modules

| module | models | lines of state |
|---|---|---|
| `Selection` | what a loop appends that skips some elements: those at a set of positions, in order | pure |
| `L1Cache` | the map and order list of one cache: `addToCache` as an operator | pure |
| `DedupService` | what a caller of the deduplicator may rely on (abstract specification) | `vectors`, `registered`, `req` |
| `ChunkDeduplicator` | lookups, registrations and warm-ups of many goroutines over L1 caches, Redis and the table; extends `L1Cache` | `cache`, `redis`, `vectors`, `call`, `registered` |
| `VectorRepository` | `SaveBulk`: conflict resolution, id mapping, constraints; extends `L1Cache` | pure |
| `PipelineWorker` | `ProcessDocument` on several pods; composes `ChunkDeduplicator` and `VectorRepository` | the above and `job`, `chunks`, `attempts`, `minted` |
| `EventSubscriber` | consumer, callback, channel, workers, DLQ, process start and stop | `server`, `inbox`, `callback`, `msgChan`, `worker`, `up`, `sub`, ... |
| `IngestionService` | uploads on several pods, three stores, the way of an event to the stream | `req`, `once`, `outbox`, `bucket`, `objects`, `documents`, `stream`, ... |
| `Segmenter` | `SegmentDocument`, a step for each turn of its loops | `strategy`, `lines`, `stage`, `at`, `units`, `first`, `bufferTokens`, `chunks`, ... |
| `TextNormalizer` | `NormalizeLines` as an operator; extends `Segmenter` | pure |
| `TextExtractor` | `ExtractFromReader`, its channel and the worker's loop; extends `TextNormalizer` | `output`, `extractor`, `lineChan`, `extractErr`, `reader`, ... |
| `DocumentText` | the first half of `ProcessDocument`; composes the three above | theirs |
| `EmbeddingCall` | what the caller of `GenerateBatchEmbeddings` may rely on (abstract specification) | `outcome` |
| `VectorizationScheduler` | `GenerateBatchEmbeddings` with its goroutines; extends `EmbeddingCall` | `pc`, `sub`, `attempt`, `results`, `errChan`, `gathered`, `final` |
| `NLPPipeline` | a goroutine per chunk and the LSH index; extends `EmbeddingCall` | `buckets`, `looked`, `near` |
| `ChunkStage` | the middle of `ProcessDocument`: composes scheduler and NLP pipeline, several workers on one index | theirs and `stage`, `turn`, `rows` |
| `Configuration` | `loadDotEnv` and `LoadConfig` | `boot`, `env`, `files`, `fileAt`, `lineAt` |
| `InferenceService` | queries beside commits, start and stop of the process; extends `Configuration` | `server`, `database`, `expired`, `committed`, `req` |
| `SelectionProofs`, `ChunkDeduplicatorProofs`, `PipelineWorkerProofs`, `EventSubscriberProofs`, `IngestionServiceProofs`, `DocumentTextProofs`, `ChunkStageProofs`, `InferenceServiceProofs` | theorems and their proofs | |
| `MC*` | constants for TLC | |

`PipelineWorker` takes for single steps what two other modules spell out.
`Extract`, whose outcomes are the whole document, an error or a beginning of its
lines (`CutChunks`), stands for `DocumentText`: `LinesInOrder` says that the worker
reads a prefix of the lines, and a shorter one than the document only after an error. `Embed` and `EmbedFails`
stand for `ChunkStage`: `EmbedIsOneStep` says that the chunks come out in
order, each with the vector of its position, or that the call failed. Both are
proved, as is that the worker runs the deduplicator as it is
(`PipelineRunsDedup`), and `DocumentText` the segmenter (`TextSegments`).

**ChunkDeduplicator.** A call in progress is a record `call[g]` of the worker
(or, for the warm-up, of the pod). The actions follow the code: `LookupL1` is
the scan under `RLock`; `LookupRedis` the MGET, which finds all keys or, on any
error, none; `CacheFound` one `addToCache` under `Lock`, so that other
goroutines act between two of them; `LookupDB` the SELECT, which may return a
part of the rows, as `rows.Err()` is not looked at; `RowsCached`, `WriteRedis`
and `RedisWritten` the write-back, each SET of which may be lost, as the
repository hides errors. A map is a function to ids or `None`. Two history
fields, `known` and `cut`, say what was stored when the call began and whether
its rows were cut short.

**PipelineWorker.** `job[w].stage` is the place in `ProcessDocument`. A chunk is
its hash, and what segmentation makes of a document is the constant
`DocChunks`. A cut extraction yields one of `CutChunks`, which need be no prefixes
of it: where the lines break off, the last chunk has another content, and a header
that recurs too seldom stays in the text. `Embed` joins the two
goroutines of enrichment and embedding, which share nothing but their input.
`Register` is one turn of the loop at lines 196-205, with the call of
`RegisterVectorHash` interleaved by `InsideCall`. `Save` is one transaction and
has four outcomes: committed, committed but reported as failed, rejected by a
constraint, failed. `Crash` kills all attempts of a pod and empties its cache.

**EventSubscriber.** `server[e]` is the consumer's view of an event: not yet
published, new, pending (delivered, not answered), due again, acked. Whether its
payload unmarshals is chosen in the initial state. `Deliver`,
`Expire`, `Answered` and `DeleteConsumer` are JetStream and its client, modelled
from the options the code passes (queue, manual ack, AckWait 300 s) and the
defaults of those it does not. `Send` waits while the channel is full.
`AfterFailure` is the comparison of `numDelivered` with `maxDeliveries`.
`DLQStream` says whether some stream takes the dead letter subject: the code makes
none and no manifest does, so that `PublishDLQ` fails whenever nobody made one
besides; where there is one it may fail too. The event is acknowledged either way.
`Unsubscribe` and `CloseChannel` are the two statements of `Unsubscribe`; `Exit`
is the end of `main`, which waits for no worker.

**IngestionService.** An upload's document id, object key and event bear its
name. `Upload` reads the form and the file, or answers 400 (no file, a wrong type or
size) or 500. `EnsureBucket`, `BucketExists`, `MakeBucket` are `bucketOnce.Do`, during
which other requests of the pod wait. `Save` and `UploadFile` may take effect
and report an error. `Flush` moves an event from the connection's write buffer
to the stream if the pipe service has created one (`AddStream`), and drops it
otherwise.

**Segmenter.** A text is a constant with a number of tokens and the tokens of its
sentences; what is followed is where each sentence goes. `ParagraphLine` and
`SentenceLine` are the loops that make `textUnits`; `ReadUnit` is a turn of the
loop that fills the buffer, with `calcOverlapBuffer` as the choice of the first
unit that stays in it; `SlideWindow` is the loop of "exact" and
"character-based". `Joined` has the fallback of "exact" without a tokenizer.

**TextExtractor.** A line of the output is the sequence of texts between its form
feeds. `CloseChan` runs before `AssignError`, as the deferred close does, and
`ReadError` may run between them: the race on `extractErr`.

**VectorizationScheduler.** `sub[c][i]` is the place of a goroutine: `Acquire`
takes the semaphore of the call, `CreateEmbeddings` has the outcomes of a
request, `SendError` needs room in `errChan` while the semaphore is held, `Wait`
is `wg.Wait` with the read of the channel, `Gather` a turn of the last loop. The
single batch that the code runs in place is a call with one goroutine.

**NLPPipeline, ChunkStage.** The goroutines of a document look up an index to
which workers of the pod append (`Register`). What they find goes into the field
of the vector id, which the registering loop overwrites.

**Configuration, InferenceService.** `LoadDotEnv` handles a line, `Setenv` sets what
is not set or set to nothing. A query goes through the stages `handler`, `embed`
and `search`; `SearchSimilarVectors` is one statement on what is committed;
`Ordered` is ORDER BY: any order of the matches in which similarity descends, as
the chunks that deduplication gave one vector row tie; `Limited` cuts it.
`Commit` is the pipe service. `Accept` goes on while the server drains, as a
connection accepted before may bring its request then. `ShutdownReturns` is the condition under which
`server.Shutdown` returns. All three services load their configuration alike; of
their HTTP servers the inference service's is modelled with its deadline and stop.

Two kinds of definitions are not translations of code: history variables and
fields (named as such), and mutants, which stand before the definition they
change, are used by no specification, and show that each property can fail.

## 3. Runs

Deadlock checking is off in all runs: the models stop when all documents have
been tried as often as `MaxAttempts` says, all uploads or queries are answered,
the text is cut, all rows are ready, or all events acked, where the system would
wait for the next one. That nobody waits for ever is a liveness property where it
is in question (`StageEnds`, `TextEnds`, `EveryUploadEnds`, `EveryQueryEnds`,
`DecidedIfServed`).

| run | question | instance | states |
|---|---|---|---|
| `pipeline_redelivery` | two overlapping or repeated attempts; no id made up | 1 document of 4 chunks, one poor, one blank, or a beginning of it; 2 pods, 2 attempts, 8 ids, INSERTs of 1 row | 794 000 |
| `pipeline_shared_chunks` | two documents race for one hash; completeness, stability and bookkeeping under eviction; deduplicator implemented | 2 documents sharing a chunk, one with a blank chunk, 2 workers in a pod, warm-up of 2 rows, capacity 1 | 695 000 |
| `subscriber_faults` | nothing forgotten, multiplied, given up early; decided in the end | 1 event, well-formed or not, 2 pods, 2 deliveries, 2 faults, 1 shutdown, a dead letter queue that takes events or fails | 1 183 000 |
| `ingestion_crashes` | write order, right answers, second copies, an end of each request | 3 uploads of 2 files, 2 pods, 1 fault | 1 421 000 |
| `document_text` | no text lost, moved or doubled from pdftotext to the chunks | outputs of up to 3 lines of 6 kinds, 4 strategies, with and without tokenizer, budget 4, overlap 2, channel of 1 | 219 000 |
| `chunk_stage` | goroutines come to one step; nobody waits for ever | documents of 3 and of 1 chunk, sub-batches of 1, semaphore of 2, 2 attempts, 2 bands | 191 000 |
| `inference_queries` | right answers beside commits and shutdown; settings | 2 queries of 6 kinds, documents of 3 and of 1 chunk which share a vector, 3 settings, 2 files | 645 000 |

*Why the bounds suffice.* A capacity of one makes every insertion of a second
hash evict, and two goroutines are enough for a copy to meet a foreign one at
every step of a fill: two workers of a pod and its warm-up share a cache in
`pipeline_shared_chunks`, two pods share Redis in `pipeline_redelivery`. Ids are
enough for each attempt to mint one for every chunk that it can embed.
`DedupSpec` by itself, where goroutines look up and register what they like, has no
run: what is proved of it holds for all instances (section 4), and the pipeline
runs it.
Two attempts and two documents give every pair of overlapping transactions;
three would repeat the pairs. Two faults allow a late copy and a crash for one
event, which are the cases in which two copies are answered crosswise. The
channel of one worker holds two messages and is filled by the two reissued
copies. Two uploads meet in `bucketOnce` of a pod and race for a checksum, and a
third brings a second pod and a second checksum. A text of 5 tokens is larger
than budget and overlap, one of 2 is the overlap, and one of 1 is below it; three
lines make a header recur over a page break, a paragraph span one, and a window
slide twice. Three sub-batches at a semaphore of two leave one waiting, and the
error channel may be filled whole. A query of one result is full before the
second document is committed, and cuts between two chunks that are as like the
query; similarities lie on, above and below the thresholds;
the first file sets a variable twice.

*Bounds.* `MaxAttempts`, `MaxVectors`, `MaxFaults`, `MaxShutdowns` and
`MaxLines` are bounds of the models, not of the code.

*Fairness.* `EventSubscriber!FairSpec` assumes that the server delivers what it
can and lets AckWait run out for copies that are lost, that goroutines run, that
the handler returns, that a pod that is down is started (Kubernetes), and
nothing about faults and shutdowns. `IngestionService!FairSpec` assumes that the
goroutine of a request runs and its calls return. The code justifies the first
by `AckWait` and the restart policy of the manifests, the second by the timeouts
of the clients it uses. `DocumentText!Spec` assumes that both goroutines run and
that pdftotext writes its output and exits; `ChunkStage!Spec` that the worker's
goroutines run, which includes that a request to OpenRouter ends (the client's
timeout of 30 seconds) and a backoff is over; `InferenceService!Spec` that
handlers run, that the timer of `Shutdown` fires after its 10 seconds, and that
`main` goes on. It does not assume that anybody stops the service.

*Disagreements.* Five runs are expected to find a violation. Each checks one
sentence of the documentation against the code; `findings` in `PROJECT.json`
quotes the sentence and explains the run:

| run | in short |
|---|---|
| `pipeline_heals` | ids registered before the commit make a transient failure permanent |
| `pipeline_misaligned` | a dropped chunk shifts the vectors of those after it |
| `subscriber_scale_down` | the creating pod deletes the consumer of all pods |
| `subscriber_dead_letter` | no stream takes what is published to the dead letter queue, and the event is acknowledged all the same |
| `ingestion_unpublished` | 201 for a document whose event was never published |

Others show in the models as outcomes that the checked properties except, each
at the place named:

* an extraction error may go unseen and a fragment be stored
  (`PipelineWorker!Extract`, the field `clean`; `TextExtractor!ReadError`;
  `pipeline_worker.go:95`);
* a redelivery of what is stored is refused by `UNIQUE (document_id,
  chunk_index)`, counts as a failure, and takes the event of a stored document
  to the dead letter queue (`RefusedMeansStored`; `vector_repository.go:251`);
* a new chunk that occurs twice in a document is refused by the INSERT, at every
  attempt (`VectorRepository!HashTwice`; `vector_repository.go:176`);
* the callback may send on the channel that `Unsubscribe` has closed
  (`EventSubscriber!CloseChannel`; `event_subscriber.go:211`);
* a pod whose subscription failed stays up without one (`EventSubscriber!Boot`,
  the premise of `DecidedIfServed`; `pipe/cmd/server/main.go:137`);
* an event published before the stream exists is dropped
  (`IngestionService!Flush`; `event_publisher.go:82`);
* concurrent uploads of a file are both stored (`SecondCopyOnlyIfConcurrent`);
* a failed bucket check refuses uploads until the restart
  (`IngestionService!EnsureBucket`; `storage_repository.go:37`);
* a `min_similarity` of 0 is taken for 0.18, where `docs/openapi.yaml:88` has 0.0
  as the default (`InferenceService!MinSimilarity`; `inference_service.go:67`):
  `NothingBetterLeftOut` promises chunks from `MinSimilarity` on, and in the run the
  chunk at 10 percent is in no answer to the queries that ask for 0;
* a query without a tenant sees the documents of all (`InferenceService!Matches`),
  where `README.md:33` speaks of data strictly separated; the pipe service stores
  every document for the tenant `default`;
* a query may be answered to a connection that the server has closed after 15
  seconds, as OpenRouter is given 30 (`InferenceService!DeadlinePasses`);
* what the near-duplicate index finds reaches no row (`EmbedIsOneStep`), and the
  index grows by every vector for the life of the process;
* the semaphore of `MaxConcurrentCalls` is one per call and bounds no other
  worker's requests (`VectorizationScheduler!Acquire`).

## 4. Proofs

| module | theorems | of |
|---|---|---|
| `ChunkDeduplicatorProofs` | `AddToCacheWellFormed`, `DedupTypeCorrect`, `DedupBookkeeping`, `DedupVouched`, `DedupComplete`, `DedupBindingKept`, `DedupImplementsService` | `L1Cache`, `ChunkDeduplicator` |
| `PipelineWorkerProofs` | `PipelineRunsDedup`, `PipelineVouched`, `PipelineComplete`, `PipelineTypeCorrect`, `SuccessIsStored`, `RefusalIsStored`, `OneAttemptPerDocument`, `VectorsMatch`, `OwnVectorsNeverDangle` | `PipelineWorker` |
| `EventSubscriberProofs` | `SubscriberAcksDecided`, `SubscriberTypes`, `SubscriberCopies`, `SubscriberGivesUp` | `EventSubscriber` |
| `IngestionServiceProofs` | `IngestionTypeCorrect`, `IngestionNothingDangling`, `IngestionAnswersTrue`, `IngestionSecondCopies` | `IngestionService` |
| `DocumentTextProofs` | `SegNothingLost`, `SegChunksAdvance`, `SegChunksFit`, `TextSegments`, `TextTypes`, `TextLines`, `TextHeaders`, `TextChunks` | `Segmenter`, `TextNormalizer`, `TextExtractor`, `DocumentText` |
| `ChunkStageProofs` | `SchedTypeCorrect`, `SchedFailures`, `SchedImplementsCall`, `StageFailures`, `StageImplementsCall`, `StageIsOneStep` | `VectorizationScheduler`, `NLPPipeline`, `ChunkStage` |
| `InferenceServiceProofs` | `InferenceTypes`, `DrainsInTime`, `AnswersWhole`, `AnswersBest`, `AnswerExists`, `FirstWins` | `Configuration`, `InferenceService` |

**Induction.** The prover cannot instantiate the induction theorems of its
library, and knows nothing of `SelectSeq` or of folds. Three devices stand in.
`SelectionProofs` has `UpTheNumbers`: a set that holds 0 and with each number
below `n` the next holds all up to `n`; it follows from `NatMin`, that a set of
numbers has a least element. What a recursive function of the numbers computes
comes from it by way of `Iterates` and `Recursion`: functions that obey the
equation up to each number exist, so that the one CHOOSE takes obeys it. And
loops that skip elements are written with `Select`: the elements at a set of
positions, the k-th of which is found by its rank; `SelectionProofs` shows how long
a selection is, that it is in order, and what one more position does to it.

**Deduplicator.** `AddToCacheWellFormed` shows that `AddToCache` preserves
`OrderMatchesKeys` and `WithinCapacity`. The delicate point is that a full cache
has an oldest key at all: the order list has as many elements as the map has keys,
and no key twice, so that it is not empty and its tail is the list of the
remaining keys. Of `DedupSpec`, for every number of pods, workers, hashes and ids:

* `DedupTypeCorrect`, `DedupBookkeeping`: types, and the invariant of the cache
  carried through every action by the theorem on `AddToCache`;
* `DedupVouched`: every binding anywhere was stored or registered. The invariant
  is inductive together with the types, since a stored id is never replaced and
  a registration is never forgotten;
* `DedupComplete`: a returned lookup has found what was stored when it began.
  This is not inductive as it stands. The strengthening says for every lookup in
  progress that what was known at its beginning is found or still missing, that
  it is stored, and, once the table has been asked, that all missing known
  hashes were found unless the rows were cut;
* `DedupBindingKept`: the action property, from the types and the invariant;
* `DedupImplementsService`: initial states map to initial states and every step
  to a step of `DedupService` or a stutter, with the lookup of a call as its
  request. Steps between the scan and the answer stutter; the answer's soundness
  is `DedupVouched` and its completeness `DedupComplete`.

**Pipeline worker.** `PipelineRunsDedup` shows that every behaviour of `Spec` is
one of `DedupSpec`: starts, failures and crashes of workers, and transactions, are
steps the deduplicator allows or does not see. What is proved of the deduplicator
thereby holds in the pipeline (`PipelineVouched`, `PipelineComplete`). The rest
follows from `PipeInv`, whose parts are

* `JobsInv`: at each stage of `ProcessDocument`, the text is the document
  or, after an error that went unseen, what there is for a beginning of it
  (`TextTrue`), rows and pending chunks are positions of that text
  (`FinalTrue`, `TodoTrue`), every position that is worth storing has one or the
  other (`Covered`), and the registering loop has come as far as the vectors made
  (`VecsTrue`);
* `TableInv`: the table has one row of a position, a clean one with the hash the
  document has there, and a clean attempt has stored all that is worth storing. From it,
  `SuccessIsStored` and `RefusalIsStored`, and `OneAttemptPerDocument`: of two
  clean attempts with rows in the table, the second would have had to insert a
  position that the first has filled;
* `IdInv`: an id is made for one hash only, be it in the table, registered, or in
  the hands of a worker (`MadeFor`); and `FinalVouched`: the rows of an attempt
  have ids that were stored or registered for their hashes, so that a commit
  keeps hash and content together. From the two, `VectorsMatch`.

`OwnVectorsNeverDangle` is an action property and needs `JobsInv` alone: a vector
that the attempt made is saved by its transaction, or its row is given the id of the
row that is there already, so that the foreign key refuses only ids from a lookup.

Two of the theorems need a hypothesis on the documents, and the code is the reason.
`VectorsMatch` holds where dropped chunks come last (`DroppedLast`): a chunk
dropped before others shifts their vectors, which the run `pipeline_misaligned`
shows. `OwnVectorsNeverDangle` holds where no document repeats a chunk
(`NoRepeats`): of a chunk repeated in a later INSERT, the second id goes into no
table, while its row refers to it (`VectorRepository!ActualId`). The run
`pipeline_shared_chunks`, which checks the two properties, has documents that
meet both hypotheses.

**Event subscriber.** `SubInv` says that a worker about to acknowledge a message
has handled its event or given it up, in this delivery or another, and that what is decided
stays decided (`Kept`), through crashes, crosswise answers and the deletion of the
consumer: `SubscriberAcksDecided`. `PodInv` adds the types, that channels hold no
more than they have room for, that workers at work have a message, and that without
a consumer nothing is pending. On the two rest

* `SubscriberCopies`, from `Accounted`: the copies of an event under way are no more
  than those that were issued again, and one that the server waits for or has
  heard of. Copies are a sum over pods of what is in the client, the callback, the
  channel and the workers; each action moves one element of it;
* `SubscriberGivesUp`, from `RetryInv`: the deliveries that the server has
  counted, with those that naks on their way will ask for, are no more than the
  failures, faults and shutdowns so far, but for the one a pod is at
  (`Retried`), and no message bears a later number (`NumsFit`). An event that was
  given up was therefore tried as often as `maxDeliveries` says, or lost a
  try to a fault or a shutdown.

**Ingestion service.** Of `IngestionTypeCorrect`, `IngestionNothingDangling`,
`IngestionAnswersTrue` and `IngestionSecondCopies`, for any uploads, files, pods
and any bound on faults, none of the last three is inductive alone.
`IngestionInv` adds

* `InOrder`: a request about to save has stored its object, one about to publish
  its row, and a row belongs only to a request that has come that far;
* `RowsAreTrue`: a row has the checksum of the upload that wrote it;
* `LookedUp`: a request past its lookup has seen that the checksum had no row
  when it began, or its lookup failed;
* `AnswersTrue`: a 201 names a row of its file, and where the request has stored a
  row itself, its event is published. `CreatedIsStored` says it of the row that
  any 201 names, a duplicate's included: it is published, or the upload that wrote
  it was not answered 201.

Most steps are covered by one lemma, `QuietStep`: they write neither row nor
event and take one request to its next stage. `Save`, `PublishDocumentCreated`
and `Upload`, which sets the history, have their own. What NATS and crashes do
to events is the equation `Published' = Published`, proved from two facts about
`Append`, `Head` and `Tail` of a sequence.

**From pdftotext to chunks.** The segmenter comes first, by itself, for any texts,
budget and overlap and documents of any length. `SegInv` says, loop by loop, how
far the document has come: which lines are in units or in the paragraph at hand
(`ReadingInv`), which units are in chunks (`UnitsInv`), which positions in windows
(`WindowInv`), and that the chunk that comes next may begin nowhere behind the end
of the last (`Advances`). That a window moves on at all is `StepBounds`, from a
budget of at least two. `FitInv`, for the sizes, adds that units stand in the
order of their pages and name those of their pieces (`PagesInv`), that
`bufferTokens` is the sum of what is in the buffer and, between two turns, below
budget or overlap (`TokensInv`), and what a window shares with the one before
(`StepInv`). `PagesInv` needs a document in the order of its pages, which
`SegSpec` has as the type of what `SegmentDocument` is given.

That the worker calls it with such a document is `TextSegments`: `Spec => SegSpec`.
`ScannedInv` is the heart of it: what has been received, what is in the channel
and what the scan has yet to send are together the lines of the output up to
where the scanner stands, and the current page is one more than the form feeds so
far. So lines ascend in their pages (`Ascend`), and those that `NormalizeLines`
keeps of them still do. With `ClosedInv`, on when the channel is closed, it gives
`TextLines`. `TextHeaders` compares the occurrences of a text before and after
normalisation, by a bijection of positions. `TextChunks` is the composition:
what was proved of `SegSpec` holds of `Spec`.

**Embedding.** Of `SchedSpec`, for any calls, batches, size of sub-batches,
semaphore and number of retries: the sub-batches tile the batch
(`SubBatchBounds`, arithmetic of the rounded up division), so that the slots put
together are the vectors up to the end of a sub-batch (`SubVectorsConcat`).
`SchedInv` carries this through the gathering loop, and says that a slot is
filled when its goroutine ends without an error and not before, and that an error
in the channel has a goroutine that gave up. An error needs a sub-batch and that a
chunk, which is why an empty batch never fails. From it types, `SchedFailures` and
the refinement `SchedImplementsCall`. `ChunkStage!Spec` runs the scheduler as it
is, so that they carry over. `StageIsOneStep` adds `StageInv`: once both goroutines
are done, the call is answered, and the loop that registers has made, in each
turn, the row of the next chunk that was kept with the vector of its position
(`LoopInv`), whatever the index has put into the field before.

**Inference service.** `ServiceInv` ties the pool to the process (`ProcessInv`: it is
open while requests may run, unless `Shutdown` gave up on them), what is
committed to whole documents, and each request to its stage (`RequestInv`). An
answered one has found the best of what was committed when it searched, and
with whatever was committed before it began (`AnswerInv`); commits after the
search disturb neither. ORDER BY is any bijection from the numbers to the matches in
which similarity descends, so that one that stands behind the cut is no more like
than any before it (`LimitedSpec`); that there is such a bijection, whatever ties, is
`AnswerExists`: the least like of a set goes behind an order of the others.
`FirstWins`
rests on `DotEnvInv`: at every line, a variable has the value the process
inherited, or the first one assigned to it in the lines read so far.

*Assumptions* are named and stand where their constants do.

* deduplicator: `None` is no id, the capacity is positive
  (`NewChunkDeduplicator` sees to it), every worker has a pod, and pods and workers
  are different names;
* pipeline worker: documents and what is read of them when the extraction breaks
  off are sequences of hashes, ids are the numbers up to
  `MaxVectors`, INSERTs are of one row at least;
* subscriber: pods and workers are finitely many, every worker has a pod, and
  `None` is neither pod nor message;
* ingestion: every upload has a pod and a checksum, and `None` is no upload;
* text: blank text and no other has no tokens and no sentences, the budget is at
  least two, a line of the output has a part (`strings.Split` returns one at
  least), headers and garbage are not blank, and the channel has room;
* embedding: batches are sequences of chunks; size, semaphore and retries are
  positive, as the constants of `vectorizer.go` are; every text has a signature;
* inference: the chunks are finitely many, their similarities are integers and may
  be equal, a body's numbers are integers;
* configuration: files are sequences of lines with a key and a value, and
  `Unset` is no value.

*Only model-checked*: liveness (`DecidedIfServed`, `EveryUploadEnds`, `TextEnds`,
`StageEnds`, `EveryQueryEnds`), which is beyond the prover, as is `ENABLED`; and
the five violations.

## 5. What is not modelled

Text is never looked at: a text is a constant with the facts that decide its way
(blank, header-sized, garbage, tokens, sentences), a chunk one with its hash,
signature and quality. Language, keywords, entities and structure of the NLP
pipeline are computed from text and decide nothing. Left out at the places
modelled, and worth knowing:

* offsets of chunks, which drift where chunks overlap (`segmenter.go:215`) and
  which no other code reads; a token window may cut a rune in two
  (`segmenter.go:158`);
* a scanner error returns without `cmd.Wait` (`extractor.go:124`);
* the order of the items in OpenRouter's answer is assumed to be that of the
  inputs; `item.Index` is not looked at (`vectorizer.go:137`);
* more bands than hashes would give every text one signature (`minhash_lsh.go:37`);
* settings that no service requires and cannot be parsed take their defaults
  (`config.go`);
* an object whose row was not saved stays in MinIO: nothing refers to it, which is
  what `NothingDangling` is about, and nothing removes it;
* the context of the worker is never cancelled, and so neither are its requests.

Metrics, tracing and logs have no state that the system depends on. The
manifests and migrations are used as facts (constraints of the tables, replicas,
restart policy). `AcquireDocLock`, `ReleaseDocLock`, `DeduplicateChunk`,
`FindVectorIDByHash`, `CleanChunkText`, `Extract` and the `QualityFilter` of
`pipeline/` are never called. A segmentation error cannot be told from an
extraction error by the subscriber and is not a separate outcome.

## 6. Plan

Done: 1. deduplicator with its abstract service and proofs; 2. vector repository
and pipeline worker; 3. event subscriber; 4. ingestion service and its proofs;
5. from pdftotext to chunks; 6. scheduler, NLP pipeline and their composition;
7. configuration and inference service; 8. proofs of all invariants, action
properties and refinements of the runs.

Next, in this order:

9. Proofs behind the liveness properties: that the steps of an upload, a query, an
   extraction and a chunk stage each decrease a measure, as action properties,
   which leaves only fairness to TLC.
10. `PipeService`: subscriber and worker composed, with an abstract specification
    of the whole pipe service (every event's document is stored or given up).
    Covers the redelivery after a commit as the subscriber sees it.
11. Documents that repeat a new chunk (`VectorRepository!HashTwice`), and chunks
    found again by a vector whose own chunk was dropped.
