----------------------------- MODULE NLPPipeline ------------------------------
(***************************************************************************)
(* The NLP pipeline of a process of the pipe service: one goroutine per    *)
(* chunk cleans, scores and profiles it and looks for a near duplicate in  *)
(* the MinHash LSH index, which the workers of the process share and which *)
(* grows by every vector they register.                                    *)
(*                                                                         *)
(* A signature is the sequence of the values of its bands; text that is    *)
(* cleaned keeps it.  Language, keywords and entities are left out.        *)
(***************************************************************************)
EXTENDS EmbeddingCall, Selection, SequencesExt

CONSTANTS Rejected,  \* chunks without text once cleaned, or that score below 0.25
          Bands,     \* 1 .. numBands
          Signature, \* of the text of each chunk: a value for each band
          NilID      \* uuid.Nil

ASSUME NLPAssumption ==
  /\ Rejected \subseteq Chunks
  /\ \A h \in Chunks : DOMAIN Signature[h] = Bands
  /\ \A c \in Calls : NilID \notin {c} \X DOMAIN Batch[c]

VARIABLES buckets,  \* of the index: the ids of each band and value
          looked,   \* chunks of a call whose goroutine has ended
          near      \* results: the VectorID that a chunk was kept with

nlpVars == <<buckets, looked, near>>

Keys == UNION {{b} \X {Signature[h][b] : h \in Chunks} : b \in Bands}

NLPInit ==
  /\ buckets = [k \in Keys |-> << >>]
  /\ looked = [c \in Calls |-> {}]
  /\ near = [c \in Calls |-> [k \in DOMAIN Batch[c] |-> NilID]]

Candidates(h, b) == buckets[<<b, Signature[h][b]>>]

\* The bucket of the first band that has one decides, and the oldest id in it.
FindNearDuplicate(h) ==
  LET hits == {b \in Bands : Candidates(h, b) # << >>}
  IN IF hits = {} THEN NilID ELSE Head(Candidates(h, Min(hits)))

EnrichChunk(c, k) ==
  /\ k \notin looked[c]
  /\ looked' = [looked EXCEPT ![c] = @ \cup {k}]
  /\ near' = [near EXCEPT ![c][k] =
                IF Batch[c][k] \in Rejected THEN @ ELSE FindNearDuplicate(Batch[c][k])]
  /\ UNCHANGED buckets

Kept(c) == {k \in DOMAIN Batch[c] : Batch[c][k] \notin Rejected}

\* The chunks that were kept, in the order they came.
EnrichedChunks(c) ==
  LET result == [k \in DOMAIN Batch[c] |->
                   [index |-> k, hash |-> Batch[c][k], vector |-> near[c][k]]]
  IN Select(result, Kept(c))

\* IndexSignature holds the lock over all bands.  Nothing is ever removed.
Indexed(h, id) == [k \in Keys |-> IF k[2] = Signature[h][k[1]] THEN Append(buckets[k], id)
                                                             ELSE buckets[k]]

RegisterChunkVector(h, id) == buckets' = Indexed(h, id)
=============================================================================
