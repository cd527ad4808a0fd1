------------------------ MODULE VectorizationScheduler ------------------------
(***************************************************************************)
(* GenerateBatchEmbeddings of the pipe service: the chunks are cut into    *)
(* sub-batches, a goroutine asks OpenRouter for the embeddings of each,    *)
(* retries, and leaves its vectors in a slot of its own or an error in a   *)
(* channel.  A call of a single sub-batch is made in place, which is no    *)
(* different from one goroutine that has semaphore and channel for itself. *)
(*                                                                         *)
(* The state of a call c and of the goroutine of its i-th sub-batch:       *)
(*   pc[c]         idle, running, gathering, returned                      *)
(*   sub[c][i]     queued, calling, backoff, erring, done                  *)
(* OpenRouter answers the inputs of a request in their order; the context  *)
(* of the worker is never cancelled.                                       *)
(***************************************************************************)
EXTENDS EmbeddingCall, FiniteSets

CONSTANTS SubBatchSize,        \* 16
          MaxConcurrentCalls,  \* 8
          MaxRetries           \* DefaultMaxRetries: 3

ASSUME SchedulerAssumption ==
  {SubBatchSize, MaxConcurrentCalls, MaxRetries} \subseteq Nat \ {0}

VARIABLES pc, sub,
          attempt,   \* of each goroutine
          results,   \* a slot for each goroutine
          errChan,   \* sub-batches that failed
          gathered,  \* slots the last loop has read
          final      \* finalVectors

schedVars == <<outcome, pc, sub, attempt, results, errChan, gathered, final>>

SubBatches(c) == (Len(Batch[c]) + SubBatchSize - 1) \div SubBatchSize

Goroutines(c) == 1 .. SubBatches(c)

SchedInit ==
  /\ OutcomeInit
  /\ pc = [c \in Calls |-> "idle"]
  /\ sub = [c \in Calls |-> [i \in Goroutines(c) |-> "queued"]]
  /\ attempt = [c \in Calls |-> [i \in Goroutines(c) |-> 1]]
  /\ results = [c \in Calls |-> [i \in Goroutines(c) |-> << >>]]
  /\ errChan = [c \in Calls |-> << >>]
  /\ gathered = [c \in Calls |-> 0]
  /\ final = [c \in Calls |-> << >>]

GenerateBatchEmbeddings(c) ==
  /\ pc[c] = "idle"
  /\ pc' = [pc EXCEPT ![c] = "running"]
  /\ UNCHANGED <<outcome, sub, attempt, results, errChan, gathered, final>>

SubAt(c, i, stage) == pc[c] = "running" /\ sub[c][i] = stage

SubGoto(c, i, stage) == sub' = [sub EXCEPT ![c][i] = stage]

InFlight(c) == {i \in Goroutines(c) : sub[c][i] \in {"calling", "backoff", "erring"}}

\* The semaphore is the call's own: it does not bound the requests of the process.
Acquire(c, i) ==
  /\ SubAt(c, i, "queued")
  /\ Cardinality(InFlight(c)) < MaxConcurrentCalls
  /\ SubGoto(c, i, "calling")
  /\ UNCHANGED <<outcome, pc, attempt, results, errChan, gathered, final>>

From(i) == (i - 1) * SubBatchSize + 1

To(c, i) == IF i * SubBatchSize < Len(Batch[c]) THEN i * SubBatchSize ELSE Len(Batch[c])

SubVectors(c, i) == SubSeq(Vectors(c), From(i), To(c, i))

\* Mutant: vectors are kept in the order of the answers.
StoredAsAnswered(c, i) ==
  LET free == CHOOSE k \in Goroutines(c) : /\ results[c][k] = << >>
                                           /\ \A n \in 1 .. k - 1 : results[c][n] # << >>
  IN [results EXCEPT ![c][free] = SubVectors(c, i)]

Stored(c, i) == [results EXCEPT ![c][i] = SubVectors(c, i)]

\* Mutant: the last attempt is never made.
GivesUpEarly(c, i) == attempt[c][i] >= MaxRetries - 1

\* Mutant: one attempt too many.
GivesUpLate(c, i) == attempt[c][i] > MaxRetries

GivesUp(c, i) == attempt[c][i] >= MaxRetries

\* The request succeeds, with an embedding for each chunk; or it fails or answers
\* with another number of them.
CreateEmbeddings(c, i) ==
  /\ SubAt(c, i, "calling")
  /\ \/ results' = Stored(c, i) /\ SubGoto(c, i, "done")
     \/ results' = results /\ ~GivesUp(c, i) /\ SubGoto(c, i, "backoff")
     \/ results' = results /\ GivesUp(c, i) /\ SubGoto(c, i, "erring")
  /\ UNCHANGED <<outcome, pc, attempt, errChan, gathered, final>>

Backoff(c, i) ==
  /\ SubAt(c, i, "backoff")
  /\ SubGoto(c, i, "calling")
  /\ attempt' = [attempt EXCEPT ![c][i] = @ + 1]
  /\ UNCHANGED <<outcome, pc, results, errChan, gathered, final>>

\* Mutant: room for the one error that is read.
ErrCapacityOne(c) == 1

ErrCapacity(c) == SubBatches(c)

SendError(c, i) ==
  /\ SubAt(c, i, "erring")
  /\ Len(errChan[c]) < ErrCapacity(c)
  /\ errChan' = [errChan EXCEPT ![c] = Append(@, i)]
  /\ SubGoto(c, i, "done")
  /\ UNCHANGED <<outcome, pc, attempt, results, gathered, final>>

\* wg.Wait, and the first error of the closed channel.
Wait(c) ==
  /\ pc[c] = "running"
  /\ \A i \in Goroutines(c) : sub[c][i] = "done"
  /\ \/ /\ errChan[c] # << >>
        /\ pc' = [pc EXCEPT ![c] = "returned"]
        /\ outcome' = [outcome EXCEPT ![c] = Error]
     \/ /\ errChan[c] = << >>
        /\ pc' = [pc EXCEPT ![c] = "gathering"]
        /\ UNCHANGED outcome
  /\ UNCHANGED <<sub, attempt, results, errChan, gathered, final>>

Gather(c) ==
  /\ pc[c] = "gathering"
  /\ \/ /\ gathered[c] < SubBatches(c)
        /\ final' = [final EXCEPT ![c] = @ \o results[c][gathered[c] + 1]]
        /\ gathered' = [gathered EXCEPT ![c] = @ + 1]
        /\ UNCHANGED <<pc, outcome>>
     \/ /\ gathered[c] = SubBatches(c)
        /\ outcome' = [outcome EXCEPT ![c] = [kind |-> "vectors", vectors |-> final[c]]]
        /\ pc' = [pc EXCEPT ![c] = "returned"]
        /\ UNCHANGED <<final, gathered>>
  /\ UNCHANGED <<sub, attempt, results, errChan>>

GoroutineStep(c, i) == Acquire(c, i) \/ CreateEmbeddings(c, i) \/ Backoff(c, i) \/ SendError(c, i)

SchedStep(c) == Wait(c) \/ Gather(c) \/ \E i \in Goroutines(c) : GoroutineStep(c, i)

SchedNext == \E c \in Calls : GenerateBatchEmbeddings(c) \/ SchedStep(c)

SchedSpec == SchedInit /\ [][SchedNext]_schedVars

-----------------------------------------------------------------------------
Stages == {"queued", "calling", "backoff", "erring", "done"}

NewVector == [id : Calls \X Nat, hash : Chunks]

\* Types of the calls and of their goroutines.
SchedTypeOK ==
  /\ pc \in [Calls -> {"idle", "running", "gathering", "returned"}]
  /\ \A c \in Calls :
       /\ sub[c] \in [Goroutines(c) -> Stages]
       /\ attempt[c] \in [Goroutines(c) -> 1 .. MaxRetries]
       /\ results[c] \in [Goroutines(c) -> Seq(NewVector)]
       /\ errChan[c] \in Seq(Goroutines(c))
       /\ gathered[c] \in 0 .. SubBatches(c)
       /\ final[c] \in Seq(NewVector)
       /\ outcome[c].kind \in {"pending", "vectors", "error"}

\* A call fails only when some sub-batch was asked for as often as it may be, and
\* whatever the others returned is not kept.
FailureMeansRetried ==
  \A c \in Calls : outcome[c].kind = "error" =>
    /\ \E i \in Goroutines(c) : attempt[c][i] = MaxRetries /\ results[c][i] = << >>
    /\ outcome[c].vectors = << >>

\* Sub-batches that run side by side, fail and are retried come to the one step
\* that the caller sees: every vector in its place, or an error.
ImplementsEmbeddingCall == CallSpec
=============================================================================
