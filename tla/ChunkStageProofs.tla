--------------------------- MODULE ChunkStageProofs ---------------------------
(***************************************************************************)
(* Proofs about the chunk stage and the vectorization scheduler in it, for *)
(* any calls, batches and sizes: types, what an error means, and that the  *)
(* goroutines of a call implement the one step of EmbeddingCall.           *)
(***************************************************************************)
EXTENDS ChunkStage, SelectionProofs, SequenceTheorems

-----------------------------------------------------------------------------
(* Sub-batches: the k-th ends where the next begins, the last with the batch. *)

\* How far the division of the length by the size may be off.
LEMMA DivisionBounds ==
  ASSUME NEW n \in Nat, NEW s \in Nat \ {0}
  PROVE  LET b == (n + s - 1) \div s
         IN b \in Nat /\ b * s >= n /\ b * s <= n + s - 1
<1> DEFINE a == n + s - 1
<1>1. a \in Nat  BY SMT
<1>2. a \div s \in Nat  BY <1>1, SMT
<1>3. a = s * (a \div s) + (a % s) /\ a % s \in 0 .. s - 1  BY <1>1, SMT
<1> QED  BY <1>1, <1>2, <1>3, SMT

\* To is within the batch and From is where the sub-batch before ends.
LEMMA SubBatchBounds ==
  ASSUME NEW c \in Calls
  PROVE  /\ Len(Batch[c]) \in Nat
         /\ SubBatches(c) \in Nat
         /\ To(c, 0) = 0
         /\ To(c, SubBatches(c)) = Len(Batch[c])
         /\ SubBatches(c) = 0 <=> Batch[c] = << >>
         /\ \A g \in Nat : g < SubBatches(c) =>
              /\ To(c, g) \in Nat /\ To(c, g + 1) \in Nat
              /\ From(g + 1) = To(c, g) + 1
              /\ To(c, g) <= To(c, g + 1) /\ To(c, g + 1) <= Len(Batch[c])
              /\ To(c, g) < Len(Batch[c])
<1> DEFINE n == Len(Batch[c])
           s == SubBatchSize
           b == SubBatches(c)
<1>1. n \in Nat /\ (n = 0 <=> Batch[c] = << >>)  BY BatchAssumption
<1>2. s \in Nat \ {0}  BY SchedulerAssumption
<1>3. b \in Nat /\ b * s >= n /\ b * s <= n + s - 1
  BY <1>1, <1>2, DivisionBounds DEF SubBatches
<1>4. b = 0 <=> n = 0  BY <1>1, <1>2, <1>3, SMT
<1>5. To(c, 0) = 0  BY <1>1, <1>2, SMT DEF To
<1>6. To(c, b) = n  BY <1>1, <1>2, <1>3, SMT DEF To
<1>7. ASSUME NEW g \in Nat, g < b
      PROVE  /\ To(c, g) \in Nat /\ To(c, g + 1) \in Nat
             /\ From(g + 1) = To(c, g) + 1
             /\ To(c, g) <= To(c, g + 1) /\ To(c, g + 1) <= n
             /\ To(c, g) < n
  <2>1. g * s \in Nat /\ (g + 1) * s = g * s + s /\ (g + 1) * s <= b * s
    BY <1>2, <1>3, <1>7, SMT
  <2>2. g * s < n  BY <2>1, <1>1, <1>2, <1>3, SMT
  <2>3. From(g + 1) = g * s + 1  BY <1>2, <2>1, SMT DEF From
  <2> QED  BY <2>1, <2>2, <2>3, <1>1, <1>2, SMT DEF To
<1> QED  BY <1>1, <1>3, <1>4, <1>5, <1>6, <1>7

\* The vectors of a batch are a sequence of its length.
LEMMA VectorsType ==
  ASSUME NEW c \in Calls
  PROVE  /\ Vectors(c) \in Seq(NewVector)
         /\ Len(Vectors(c)) = Len(Batch[c])
<1>1. Batch[c] \in Seq(Chunks)  BY BatchAssumption
<1>2. Len(Batch[c]) \in Nat /\ DOMAIN Batch[c] = 1 .. Len(Batch[c])  BY <1>1
<1>3. \A k \in DOMAIN Batch[c] : Vector(c, k) \in NewVector
  BY <1>1, <1>2 DEF Vector, NewVector
<1>4. Vectors(c) \in [1 .. Len(Batch[c]) -> NewVector]
  BY <1>2, <1>3 DEF Vectors
<1> QED  BY <1>2, <1>4, IsASeq

\* The slots, one after the other, are the vectors from the first on.
LEMMA SubVectorsConcat ==
  ASSUME NEW c \in Calls, NEW g \in Nat, g < SubBatches(c)
  PROVE  /\ SubVectors(c, g + 1) \in Seq(NewVector)
         /\ SubVectors(c, g + 1) # << >>
         /\ SubSeq(Vectors(c), 1, To(c, g)) \o SubVectors(c, g + 1)
              = SubSeq(Vectors(c), 1, To(c, g + 1))
<1> DEFINE v == Vectors(c)
           k == To(c, g)
           n == To(c, g + 1)
<1>1. v \in Seq(NewVector) /\ Len(v) = Len(Batch[c])  BY VectorsType
<1>2. /\ k \in Nat /\ n \in Nat /\ k <= n /\ n <= Len(v) /\ k < Len(v)
      /\ From(g + 1) = k + 1
  BY <1>1, SubBatchBounds
<1>3. k < n
  BY <1>2, SchedulerAssumption, SubBatchBounds, SMT DEF To, From
<1>4. SubVectors(c, g + 1) = SubSeq(v, k + 1, n)  BY <1>2 DEF SubVectors
<1> HIDE DEF v, k, n
<1>5. \A i \in k + 1 .. n : v[i] \in NewVector  BY <1>1, <1>2, ElementOfSeq
<1>6. SubSeq(v, k + 1, n) \in Seq(NewVector) /\ Len(SubSeq(v, k + 1, n)) = n - k
  BY <1>2, <1>3, <1>5, SubSeqProperties
<1>7. SubSeq(v, k + 1, n) # << >>  BY <1>2, <1>3, <1>6
<1>8. SubSeq(v, 1, k) \o SubSeq(v, k + 1, n) = SubSeq(v, 1, n)
  BY <1>1, <1>2, ConcatAdjacentSubSeq
<1> QED  BY <1>4, <1>6, <1>7, <1>8 DEF v, k, n

\* An error has a sub-batch, and a sub-batch a chunk.
LEMMA GoroutineOfBatch ==
  ASSUME NEW c \in Calls, NEW i \in Goroutines(c)
  PROVE  /\ Batch[c] # << >>
         /\ i - 1 \in Nat /\ i - 1 < SubBatches(c) /\ i = (i - 1) + 1
<1>1. SubBatches(c) \in Nat /\ (SubBatches(c) = 0 <=> Batch[c] = << >>)  BY SubBatchBounds
<1>2. i \in 1 .. SubBatches(c)  BY DEF Goroutines
<1> QED  BY <1>1, <1>2

LEMMA SubVectorsType ==
  ASSUME NEW c \in Calls, NEW i \in Goroutines(c)
  PROVE  SubVectors(c, i) \in Seq(NewVector) /\ SubVectors(c, i) # << >>
<1>1. i - 1 \in Nat /\ i - 1 < SubBatches(c) /\ i = (i - 1) + 1  BY GoroutineOfBatch
<1> QED  BY <1>1, SubVectorsConcat

-----------------------------------------------------------------------------
(* The inductive invariant, call by call. *)

Tables ==
  /\ DOMAIN outcome = Calls /\ DOMAIN sub = Calls /\ DOMAIN attempt = Calls
  /\ DOMAIN results = Calls /\ DOMAIN errChan = Calls
  /\ DOMAIN gathered = Calls /\ DOMAIN final = Calls
  /\ pc \in [Calls -> {"idle", "running", "gathering", "returned"}]

CallTypes(c) ==
  /\ sub[c] \in [Goroutines(c) -> Stages]
  /\ attempt[c] \in [Goroutines(c) -> 1 .. MaxRetries]
  /\ results[c] \in [Goroutines(c) -> Seq(NewVector)]
  /\ errChan[c] \in Seq(Goroutines(c))
  /\ gathered[c] \in 0 .. SubBatches(c)
  /\ final[c] \in Seq(NewVector)

Answered(c) == [kind |-> "vectors", vectors |-> Vectors(c)]

GaveUp(c, i) == sub[c][i] = "done" /\ attempt[c][i] = MaxRetries /\ results[c][i] = << >>

\* A slot is filled when its goroutine ends without an error, and not before; a
\* goroutine gives up at its last attempt.
SlotInv(c, i) ==
  /\ sub[c][i] # "done" => results[c][i] = << >>
  /\ sub[c][i] = "backoff" => attempt[c][i] < MaxRetries
  /\ sub[c][i] = "erring" => attempt[c][i] = MaxRetries
  /\ sub[c][i] = "done" /\ errChan[c] = << >> => results[c][i] = SubVectors(c, i)

\* What has been gathered is the vectors up to the end of a sub-batch.
OutcomeInv(c) ==
  /\ pc[c] \in {"idle", "running"} =>
       outcome[c] = Pending /\ gathered[c] = 0 /\ final[c] = << >>
  /\ pc[c] = "gathering" =>
       /\ outcome[c] = Pending
       /\ errChan[c] = << >>
       /\ \A i \in Goroutines(c) : sub[c][i] = "done"
       /\ final[c] = SubSeq(Vectors(c), 1, To(c, gathered[c]))
  /\ pc[c] = "returned" =>
       \/ outcome[c] = Error /\ errChan[c] # << >>
       \/ outcome[c] = Answered(c)
  /\ errChan[c] # << >> => \E i \in Goroutines(c) : GaveUp(c, i)

CallInv(c) == CallTypes(c) /\ OutcomeInv(c) /\ \A i \in Goroutines(c) : SlotInv(c, i)

SchedInv == Tables /\ \A c \in Calls : CallInv(c)

\* A call that a step leaves alone.
SameCall(c) ==
  /\ pc'[c] = pc[c] /\ outcome'[c] = outcome[c] /\ sub'[c] = sub[c]
  /\ attempt'[c] = attempt[c] /\ results'[c] = results[c] /\ errChan'[c] = errChan[c]
  /\ gathered'[c] = gathered[c] /\ final'[c] = final[c]

LEMMA SameCallInv ==
  ASSUME NEW c \in Calls, SameCall(c), CallInv(c)
  PROVE  CallInv(c)'
BY DEF SameCall, CallInv, CallTypes, OutcomeInv, SlotInv, GaveUp

\* A step of one call preserves the invariant when it does for that call.
LEMMA OneCall ==
  ASSUME SchedInv, NEW c \in Calls, Tables', CallInv(c)',
         \A d \in Calls \ {c} : SameCall(d)
  PROVE  SchedInv'
BY SameCallInv DEF SchedInv

LEMMA SchedInvInit == SchedInit => SchedInv
<1> SUFFICES ASSUME SchedInit PROVE SchedInv
  OBVIOUS
<1>1. Tables  BY DEF SchedInit, OutcomeInit, Tables
<1>2. ASSUME NEW c \in Calls PROVE CallInv(c)
  <2>1. SubBatches(c) \in Nat /\ MaxRetries \in Nat \ {0}
    BY SubBatchBounds, SchedulerAssumption
  <2>2. CallTypes(c)
    BY <2>1 DEF SchedInit, CallTypes, Stages
  <2>3. OutcomeInv(c)
    BY DEF SchedInit, OutcomeInit, OutcomeInv
  <2>4. \A i \in Goroutines(c) : SlotInv(c, i)
    BY DEF SchedInit, SlotInv
  <2> QED  BY <2>2, <2>3, <2>4 DEF CallInv
<1> QED  BY <1>1, <1>2 DEF SchedInv

\* A goroutine goes on.
LEMMA GotoEffect ==
  ASSUME SchedInv, NEW c \in Calls, NEW i \in Goroutines(c), NEW s \in Stages, SubGoto(c, i, s)
  PROVE  /\ DOMAIN sub' = Calls
         /\ sub'[c] \in [Goroutines(c) -> Stages]
         /\ sub'[c][i] = s
         /\ \A j \in Goroutines(c) \ {i} : sub'[c][j] = sub[c][j]
         /\ \A d \in Calls \ {c} : sub'[d] = sub[d]
<1>1. DOMAIN sub = Calls /\ sub[c] \in [Goroutines(c) -> Stages]
  BY DEF SchedInv, Tables, CallInv, CallTypes
<1>2. sub'[c] = [sub[c] EXCEPT ![i] = s]  BY <1>1 DEF SubGoto
<1> QED  BY <1>1, <1>2 DEF SubGoto

LEMMA CallStepInv ==
  ASSUME SchedInv, NEW c \in Calls, GenerateBatchEmbeddings(c)
  PROVE  SchedInv'
<1> USE DEF GenerateBatchEmbeddings
<1>1. Tables'  BY DEF SchedInv, Tables
<1>2. \A d \in Calls \ {c} : SameCall(d)  BY DEF SchedInv, Tables, SameCall
<1>3. pc[c] = "idle" /\ pc'[c] = "running"  BY DEF SchedInv, Tables
<1>4. CallInv(c)'
  BY <1>3 DEF SchedInv, CallInv, CallTypes, OutcomeInv, SlotInv, GaveUp
<1> QED  BY <1>1, <1>2, <1>4, OneCall

LEMMA AcquireInv ==
  ASSUME SchedInv, NEW c \in Calls, NEW i \in Goroutines(c), Acquire(c, i)
  PROVE  SchedInv'
<1>1. /\ SubGoto(c, i, "calling") /\ pc[c] = "running" /\ sub[c][i] = "queued"
      /\ UNCHANGED <<outcome, pc, attempt, results, errChan, gathered, final>>
  BY DEF Acquire, SubAt
<1>2. /\ DOMAIN sub' = Calls
      /\ sub'[c] \in [Goroutines(c) -> Stages]
      /\ sub'[c][i] = "calling"
      /\ \A j \in Goroutines(c) \ {i} : sub'[c][j] = sub[c][j]
      /\ \A d \in Calls \ {c} : sub'[d] = sub[d]
  BY <1>1, GotoEffect DEF Stages
<1>3. Tables' /\ \A d \in Calls \ {c} : SameCall(d)
  BY <1>1, <1>2 DEF SchedInv, Tables, SameCall
<1>4. CallTypes(c)'  BY <1>1, <1>2 DEF SchedInv, CallInv, CallTypes
<1>5. ASSUME NEW j \in Goroutines(c) PROVE SlotInv(c, j)' /\ (GaveUp(c, j) => GaveUp(c, j)')
  BY <1>1, <1>2 DEF SchedInv, CallInv, SlotInv, GaveUp
<1>6. OutcomeInv(c)'
  BY <1>1, <1>5 DEF SchedInv, CallInv, OutcomeInv
<1> QED  BY <1>3, <1>4, <1>5, <1>6, OneCall DEF CallInv

LEMMA BackoffInv ==
  ASSUME SchedInv, NEW c \in Calls, NEW i \in Goroutines(c), Backoff(c, i)
  PROVE  SchedInv'
<1>1. /\ SubGoto(c, i, "calling") /\ pc[c] = "running" /\ sub[c][i] = "backoff"
      /\ attempt' = [attempt EXCEPT ![c][i] = @ + 1]
      /\ UNCHANGED <<outcome, pc, results, errChan, gathered, final>>
  BY DEF Backoff, SubAt
<1>2. /\ DOMAIN sub' = Calls
      /\ sub'[c] \in [Goroutines(c) -> Stages]
      /\ sub'[c][i] = "calling"
      /\ \A j \in Goroutines(c) \ {i} : sub'[c][j] = sub[c][j]
      /\ \A d \in Calls \ {c} : sub'[d] = sub[d]
  BY <1>1, GotoEffect DEF Stages
<1>3. /\ DOMAIN attempt = Calls /\ attempt[c] \in [Goroutines(c) -> 1 .. MaxRetries]
      /\ attempt[c][i] < MaxRetries /\ MaxRetries \in Nat
  BY <1>1, SchedulerAssumption DEF SchedInv, Tables, CallInv, CallTypes, SlotInv
<1>4. attempt'[c] = [attempt[c] EXCEPT ![i] = attempt[c][i] + 1]  BY <1>1, <1>3
<1>5. /\ DOMAIN attempt' = Calls
      /\ attempt'[c] \in [Goroutines(c) -> 1 .. MaxRetries]
      /\ \A j \in Goroutines(c) \ {i} : attempt'[c][j] = attempt[c][j]
      /\ \A d \in Calls \ {c} : attempt'[d] = attempt[d]
  BY <1>1, <1>3, <1>4
<1>6. Tables' /\ \A d \in Calls \ {c} : SameCall(d)
  BY <1>1, <1>2, <1>5 DEF SchedInv, Tables, SameCall
<1>7. CallTypes(c)'  BY <1>1, <1>2, <1>5 DEF SchedInv, CallInv, CallTypes
<1>8. ASSUME NEW j \in Goroutines(c) PROVE SlotInv(c, j)' /\ (GaveUp(c, j) => GaveUp(c, j)')
  BY <1>1, <1>2, <1>5 DEF SchedInv, CallInv, SlotInv, GaveUp
<1>9. OutcomeInv(c)'
  BY <1>1, <1>8 DEF SchedInv, CallInv, OutcomeInv
<1> QED  BY <1>6, <1>7, <1>8, <1>9, OneCall DEF CallInv

\* The request is answered: the slot is filled, or the goroutine waits or gives up.
LEMMA CreateEmbeddingsInv ==
  ASSUME SchedInv, NEW c \in Calls, NEW i \in Goroutines(c), CreateEmbeddings(c, i)
  PROVE  SchedInv'
<1>1. /\ pc[c] = "running" /\ sub[c][i] = "calling"
      /\ UNCHANGED <<outcome, pc, attempt, errChan, gathered, final>>
  BY DEF CreateEmbeddings, SubAt
<1>2. PICK s \in Stages :
        /\ SubGoto(c, i, s)
        /\ \/ s = "done" /\ results' = Stored(c, i)
           \/ s = "backoff" /\ results' = results /\ ~GivesUp(c, i)
           \/ s = "erring" /\ results' = results /\ GivesUp(c, i)
  BY DEF CreateEmbeddings, Stages
<1>3. /\ DOMAIN sub' = Calls
      /\ sub'[c] \in [Goroutines(c) -> Stages]
      /\ sub'[c][i] = s
      /\ \A j \in Goroutines(c) \ {i} : sub'[c][j] = sub[c][j]
      /\ \A d \in Calls \ {c} : sub'[d] = sub[d]
  BY <1>2, GotoEffect
<1>4. /\ DOMAIN results = Calls /\ results[c] \in [Goroutines(c) -> Seq(NewVector)]
      /\ results[c][i] = << >>
      /\ attempt[c][i] \in 1 .. MaxRetries /\ MaxRetries \in Nat
  BY <1>1, SchedulerAssumption DEF SchedInv, Tables, CallInv, CallTypes, SlotInv
<1>5. SubVectors(c, i) \in Seq(NewVector)  BY SubVectorsType
<1>6. /\ DOMAIN results' = Calls
      /\ results'[c] \in [Goroutines(c) -> Seq(NewVector)]
      /\ \A j \in Goroutines(c) \ {i} : results'[c][j] = results[c][j]
      /\ \A d \in Calls \ {c} : results'[d] = results[d]
      /\ results'[c][i] = IF s = "done" THEN SubVectors(c, i) ELSE << >>
  <2>1. CASE results' = results /\ s # "done"
    BY <2>1, <1>4
  <2>2. CASE s = "done" /\ results' = Stored(c, i)
    <3>1. results'[c] = [results[c] EXCEPT ![i] = SubVectors(c, i)]
      BY <2>2, <1>4 DEF Stored
    <3>2. DOMAIN results' = Calls /\ \A d \in Calls \ {c} : results'[d] = results[d]
      BY <2>2, <1>4 DEF Stored
    <3> QED  BY <2>2, <3>1, <3>2, <1>4, <1>5
  <2> QED  BY <1>2, <2>1, <2>2
<1>7. s = "backoff" => attempt[c][i] < MaxRetries  BY <1>2, <1>4 DEF GivesUp
<1>8. s = "erring" => attempt[c][i] = MaxRetries  BY <1>2, <1>4 DEF GivesUp
<1>9. Tables' /\ \A d \in Calls \ {c} : SameCall(d)
  BY <1>1, <1>3, <1>6 DEF SchedInv, Tables, SameCall
<1>10. CallTypes(c)'  BY <1>1, <1>3, <1>6 DEF SchedInv, CallInv, CallTypes
<1>11. ASSUME NEW j \in Goroutines(c) PROVE SlotInv(c, j)' /\ (GaveUp(c, j) => GaveUp(c, j)')
  <2>1. CASE j = i
    BY <2>1, <1>1, <1>2, <1>3, <1>6, <1>7, <1>8 DEF SlotInv, GaveUp
  <2>2. CASE j # i
    BY <2>2, <1>1, <1>3, <1>6 DEF SchedInv, CallInv, SlotInv, GaveUp
  <2> QED  BY <2>1, <2>2
<1>12. OutcomeInv(c)'
  BY <1>1, <1>11 DEF SchedInv, CallInv, OutcomeInv
<1> QED  BY <1>9, <1>10, <1>11, <1>12, OneCall DEF CallInv

LEMMA SendErrorInv ==
  ASSUME SchedInv, NEW c \in Calls, NEW i \in Goroutines(c), SendError(c, i)
  PROVE  SchedInv'
<1>1. /\ pc[c] = "running" /\ sub[c][i] = "erring" /\ SubGoto(c, i, "done")
      /\ errChan' = [errChan EXCEPT ![c] = Append(@, i)]
      /\ UNCHANGED <<outcome, pc, attempt, results, gathered, final>>
  BY DEF SendError, SubAt
<1>2. /\ DOMAIN sub' = Calls
      /\ sub'[c] \in [Goroutines(c) -> Stages]
      /\ sub'[c][i] = "done"
      /\ \A j \in Goroutines(c) \ {i} : sub'[c][j] = sub[c][j]
      /\ \A d \in Calls \ {c} : sub'[d] = sub[d]
  BY <1>1, GotoEffect DEF Stages
<1>3. DOMAIN errChan = Calls /\ errChan[c] \in Seq(Goroutines(c))
  BY DEF SchedInv, Tables, CallInv, CallTypes
<1>4. errChan'[c] = Append(errChan[c], i)  BY <1>1, <1>3
<1>5. errChan'[c] \in Seq(Goroutines(c)) /\ errChan'[c] # << >>
  BY <1>3, <1>4, AppendProperties
<1>6. DOMAIN errChan' = Calls /\ \A d \in Calls \ {c} : errChan'[d] = errChan[d]
  BY <1>1, <1>3
<1>7. Tables' /\ \A d \in Calls \ {c} : SameCall(d)
  BY <1>1, <1>2, <1>6 DEF SchedInv, Tables, SameCall
<1>8. CallTypes(c)'  BY <1>1, <1>2, <1>5 DEF SchedInv, CallInv, CallTypes
<1>9. \A j \in Goroutines(c) : SlotInv(c, j)'
  BY <1>1, <1>2, <1>5 DEF SchedInv, CallInv, SlotInv
<1>10. GaveUp(c, i)'
  BY <1>1, <1>2 DEF SchedInv, CallInv, SlotInv, GaveUp
<1>11. OutcomeInv(c)'
  BY <1>1, <1>10 DEF SchedInv, CallInv, OutcomeInv
<1> QED  BY <1>7, <1>8, <1>9, <1>11, OneCall DEF CallInv

LEMMA WaitInv ==
  ASSUME SchedInv, NEW c \in Calls, Wait(c)
  PROVE  SchedInv'
<1>1. /\ pc[c] = "running" /\ \A i \in Goroutines(c) : sub[c][i] = "done"
      /\ UNCHANGED <<sub, attempt, results, errChan, gathered, final>>
  BY DEF Wait
<1>2. /\ DOMAIN pc = Calls /\ DOMAIN outcome = Calls
      /\ outcome[c] = Pending /\ gathered[c] = 0 /\ final[c] = << >>
  BY <1>1 DEF SchedInv, Tables, CallInv, OutcomeInv
<1>3. CallTypes(c)'  BY <1>1 DEF SchedInv, CallInv, CallTypes
<1>4. ASSUME NEW j \in Goroutines(c) PROVE SlotInv(c, j)' /\ (GaveUp(c, j) => GaveUp(c, j)')
  BY <1>1 DEF SchedInv, CallInv, SlotInv, GaveUp
<1>5. CASE /\ errChan[c] # << >>
           /\ pc' = [pc EXCEPT ![c] = "returned"]
           /\ outcome' = [outcome EXCEPT ![c] = Error]
  <2>1. pc'[c] = "returned" /\ outcome'[c] = Error  BY <1>2, <1>5
  <2>2. Tables' /\ \A d \in Calls \ {c} : SameCall(d)
    BY <1>1, <1>5 DEF SchedInv, Tables, SameCall
  <2>3. OutcomeInv(c)'
    BY <2>1, <1>1, <1>4, <1>5 DEF SchedInv, CallInv, OutcomeInv
  <2> QED  BY <2>2, <2>3, <1>3, <1>4, OneCall DEF CallInv
<1>6. CASE /\ errChan[c] = << >>
           /\ pc' = [pc EXCEPT ![c] = "gathering"]
           /\ UNCHANGED outcome
  <2>1. pc'[c] = "gathering"  BY <1>2, <1>6
  <2>2. Tables' /\ \A d \in Calls \ {c} : SameCall(d)
    BY <1>1, <1>6 DEF SchedInv, Tables, SameCall
  <2>3. SubSeq(Vectors(c), 1, To(c, 0)) = << >>  BY SubBatchBounds, SubSeqEmpty
  <2>4. OutcomeInv(c)'
    BY <2>1, <2>3, <1>1, <1>2, <1>4, <1>6 DEF SchedInv, CallInv, OutcomeInv
  <2> QED  BY <2>2, <2>4, <1>3, <1>4, OneCall DEF CallInv
<1> QED  BY <1>5, <1>6 DEF Wait

\* The loop over the slots, and the return behind it.
LEMMA GatherInv ==
  ASSUME SchedInv, NEW c \in Calls, Gather(c)
  PROVE  SchedInv'
<1>1. pc[c] = "gathering" /\ UNCHANGED <<sub, attempt, results, errChan>>
  BY DEF Gather
<1>2. /\ Tables /\ CallTypes(c)
      /\ outcome[c] = Pending /\ errChan[c] = << >>
      /\ \A i \in Goroutines(c) : sub[c][i] = "done"
      /\ final[c] = SubSeq(Vectors(c), 1, To(c, gathered[c]))
  BY <1>1 DEF SchedInv, CallInv, OutcomeInv
<1>3. \A i \in Goroutines(c) : results[c][i] = SubVectors(c, i)
  BY <1>2 DEF SchedInv, CallInv, SlotInv
<1>4. ASSUME NEW j \in Goroutines(c) PROVE SlotInv(c, j)'
  BY <1>1 DEF SchedInv, CallInv, SlotInv
<1>5. SubBatches(c) \in Nat /\ gathered[c] \in 0 .. SubBatches(c)
  BY <1>2, SubBatchBounds DEF CallTypes
<1>6. CASE /\ gathered[c] < SubBatches(c)
           /\ final' = [final EXCEPT ![c] = @ \o results[c][gathered[c] + 1]]
           /\ gathered' = [gathered EXCEPT ![c] = @ + 1]
           /\ UNCHANGED <<pc, outcome>>
  <2> DEFINE g == gathered[c]
  <2>1. g \in Nat /\ g + 1 \in Goroutines(c)  BY <1>5, <1>6 DEF Goroutines
  <2>2. final'[c] = final[c] \o SubVectors(c, g + 1) /\ gathered'[c] = g + 1
    BY <1>2, <1>3, <1>6, <2>1 DEF Tables
  <2>3. /\ SubVectors(c, g + 1) \in Seq(NewVector)
        /\ final'[c] = SubSeq(Vectors(c), 1, To(c, g + 1))
    BY <1>2, <1>6, <2>1, <2>2, SubVectorsConcat
  <2>4. final'[c] \in Seq(NewVector) /\ gathered'[c] \in 0 .. SubBatches(c)
    <3>1. final[c] \in Seq(NewVector)  BY <1>2 DEF CallTypes
    <3>2. final'[c] \in Seq(NewVector)  BY <3>1, <2>2, <2>3, ConcatProperties
    <3>3. g + 1 \in 0 .. SubBatches(c)  BY <1>5, <1>6
    <3> QED  BY <3>2, <3>3, <2>2
  <2>5. Tables' /\ \A d \in Calls \ {c} : SameCall(d)
    BY <1>1, <1>2, <1>6 DEF Tables, SameCall
  <2>6. CallTypes(c)'  BY <1>1, <1>2, <2>4 DEF CallTypes
  <2>7. OutcomeInv(c)'
    BY <1>1, <1>2, <1>6, <2>2, <2>3 DEF OutcomeInv
  <2> QED  BY <2>5, <2>6, <2>7, <1>4, OneCall DEF CallInv
<1>7. CASE /\ gathered[c] = SubBatches(c)
           /\ outcome' = [outcome EXCEPT ![c] = [kind |-> "vectors", vectors |-> final[c]]]
           /\ pc' = [pc EXCEPT ![c] = "returned"]
           /\ UNCHANGED <<final, gathered>>
  <2>1. To(c, gathered[c]) = Len(Vectors(c))  BY <1>7, SubBatchBounds, VectorsType
  <2>2. final[c] = Vectors(c)  BY <1>2, <2>1, VectorsType, SubSeqFull
  <2>3. pc'[c] = "returned" /\ outcome'[c] = Answered(c)
    BY <1>2, <1>7, <2>2 DEF Tables, Answered
  <2>4. Tables' /\ \A d \in Calls \ {c} : SameCall(d)
    BY <1>1, <1>2, <1>7 DEF Tables, SameCall
  <2>5. CallTypes(c)'  BY <1>1, <1>2, <1>7 DEF CallTypes
  <2>6. OutcomeInv(c)'
    BY <1>1, <1>2, <1>7, <2>3 DEF OutcomeInv
  <2> QED  BY <2>4, <2>5, <2>6, <1>4, OneCall DEF CallInv
<1> QED  BY <1>6, <1>7 DEF Gather

LEMMA SchedInvStep == SchedInv /\ [SchedNext]_schedVars => SchedInv'
<1> SUFFICES ASSUME SchedInv, [SchedNext]_schedVars PROVE SchedInv'
  OBVIOUS
<1>1. CASE UNCHANGED schedVars
  BY <1>1 DEF schedVars, SchedInv, Tables, CallInv, CallTypes, OutcomeInv, SlotInv, GaveUp
<1>2. CASE SchedNext
  <2>1. PICK c \in Calls : GenerateBatchEmbeddings(c) \/ SchedStep(c)
    BY <1>2 DEF SchedNext
  <2>2. CASE GenerateBatchEmbeddings(c)  BY <2>2, CallStepInv
  <2>3. CASE Wait(c)  BY <2>3, WaitInv
  <2>4. CASE Gather(c)  BY <2>4, GatherInv
  <2>5. ASSUME NEW i \in Goroutines(c), GoroutineStep(c, i) PROVE SchedInv'
    BY <2>5, AcquireInv, CreateEmbeddingsInv, BackoffInv, SendErrorInv DEF GoroutineStep
  <2> QED  BY <2>1, <2>2, <2>3, <2>4, <2>5 DEF SchedStep
<1> QED  BY <1>1, <1>2

THEOREM SchedInvariant == SchedSpec => []SchedInv
BY SchedInvInit, SchedInvStep, PTL DEF SchedSpec

-----------------------------------------------------------------------------
(* What the runs check, for every instance. *)

LEMMA SchedInvTypes == SchedInv => SchedTypeOK
<1> SUFFICES ASSUME SchedInv, NEW c \in Calls
             PROVE  CallTypes(c) /\ outcome[c].kind \in {"pending", "vectors", "error"}
  BY DEF SchedInv, Tables, CallTypes, SchedTypeOK
<1>1. CallTypes(c) /\ OutcomeInv(c) /\ pc[c] \in {"idle", "running", "gathering", "returned"}
  BY DEF SchedInv, CallInv, Tables
<1>2. outcome[c] = Pending \/ outcome[c] = Error \/ outcome[c] = Answered(c)
  BY <1>1 DEF OutcomeInv
<1>3. outcome[c].kind \in {"pending", "vectors", "error"}
  BY <1>2 DEF Pending, Error, Answered
<1> QED  BY <1>1, <1>3

\* The calls and their goroutines keep their types (the variables of
\* GenerateBatchEmbeddings).
THEOREM SchedTypeCorrect == SchedSpec => []SchedTypeOK
BY SchedInvariant, SchedInvTypes, PTL

LEMMA SchedInvFailures == SchedInv => FailureMeansRetried
<1> SUFFICES ASSUME SchedInv, NEW c \in Calls, outcome[c].kind = "error"
             PROVE  /\ \E i \in Goroutines(c) :
                         attempt[c][i] = MaxRetries /\ results[c][i] = << >>
                    /\ outcome[c].vectors = << >>
  BY DEF FailureMeansRetried
<1>1. OutcomeInv(c) /\ pc[c] \in {"idle", "running", "gathering", "returned"}
  BY DEF SchedInv, CallInv, Tables
<1>2. outcome[c] = Error /\ errChan[c] # << >>
  BY <1>1 DEF OutcomeInv, Pending, Answered
<1> QED  BY <1>1, <1>2 DEF OutcomeInv, GaveUp, Error

\* An error of GenerateBatchEmbeddings means that a sub-batch was asked for
\* maxRetries times, and it comes without vectors.
THEOREM SchedFailures == SchedSpec => []FailureMeansRetried
BY SchedInvariant, SchedInvFailures, PTL

LEMMA StepIsReturn ==
  SchedInv /\ [SchedNext]_schedVars => [\E c \in Calls : Return(c)]_outcome
<1> SUFFICES ASSUME SchedInv, SchedNext
             PROVE  UNCHANGED outcome \/ \E c \in Calls : Return(c)
  BY DEF schedVars
<1>1. PICK c \in Calls : GenerateBatchEmbeddings(c) \/ SchedStep(c)
  BY DEF SchedNext
<1>2. CASE \/ GenerateBatchEmbeddings(c)
           \/ \E i \in Goroutines(c) : GoroutineStep(c, i)
  BY <1>2 DEF GenerateBatchEmbeddings, GoroutineStep, Acquire, CreateEmbeddings,
              Backoff, SendError
<1>3. CallInv(c)  BY DEF SchedInv
<1>4. CASE Wait(c)
  <2>1. CASE UNCHANGED outcome  BY <2>1
  <2>2. CASE errChan[c] # << >> /\ outcome' = [outcome EXCEPT ![c] = Error]
    <3>1. outcome[c] = Pending  BY <1>3, <1>4 DEF Wait, CallInv, OutcomeInv
    <3>2. \E i \in Goroutines(c) : GaveUp(c, i)  BY <1>3, <2>2 DEF CallInv, OutcomeInv
    <3>3. Batch[c] # << >>  BY <3>2, GoroutineOfBatch
    <3> QED  BY <2>2, <3>1, <3>3 DEF Return
  <2> QED  BY <1>4, <2>1, <2>2 DEF Wait
<1>5. CASE Gather(c)
  <2>1. CASE UNCHANGED outcome  BY <2>1
  <2>2. CASE /\ gathered[c] = SubBatches(c)
             /\ outcome' = [outcome EXCEPT ![c] = [kind |-> "vectors", vectors |-> final[c]]]
    <3>1. outcome[c] = Pending /\ final[c] = SubSeq(Vectors(c), 1, To(c, gathered[c]))
      BY <1>3, <1>5 DEF Gather, CallInv, OutcomeInv
    <3>2. To(c, gathered[c]) = Len(Vectors(c))  BY <2>2, SubBatchBounds, VectorsType
    <3>3. final[c] = Vectors(c)  BY <3>1, <3>2, VectorsType, SubSeqFull
    <3> QED  BY <2>2, <3>1, <3>3 DEF Return
  <2> QED  BY <1>5, <2>1, <2>2 DEF Gather
<1> QED  BY <1>1, <1>2, <1>4, <1>5 DEF SchedStep

\* The goroutines, retries and slots of GenerateBatchEmbeddings implement one
\* step: every vector at its place, or an error.
THEOREM SchedImplementsCall == SchedSpec => ImplementsEmbeddingCall
<1>1. SchedInit => OutcomeInit  BY DEF SchedInit
<1> QED  BY <1>1, SchedInvariant, StepIsReturn, PTL DEF SchedSpec, ImplementsEmbeddingCall, CallSpec

-----------------------------------------------------------------------------
(* The stage runs the scheduler as it is: what is proved of the scheduler alone *)
(* holds next to the enrichment and the registering loop.                       *)

LEMMA StageStepIsSched == [Next]_vars => [SchedNext]_schedVars
<1> SUFFICES ASSUME [Next]_vars PROVE SchedNext \/ UNCHANGED schedVars
  OBVIOUS
<1>1. CASE UNCHANGED vars  BY <1>1 DEF vars
<1>2. ASSUME NEW c \in Calls, WorkerStep(c)
      PROVE  SchedNext \/ UNCHANGED schedVars
  <2>1. CASE Begin(c)  BY <2>1 DEF Begin, SchedNext
  <2>2. CASE Vectorize(c)  BY <2>2 DEF Vectorize, SchedNext
  <2>3. CASE Enrich(c) \/ Join(c) \/ Register(c) \/ Registered(c)
    BY <2>3 DEF Enrich, Join, Register, Registered
  <2> QED  BY <1>2, <2>1, <2>2, <2>3 DEF WorkerStep
<1> QED  BY <1>1, <1>2 DEF Next

THEOREM StageRunsSched == Spec => SchedSpec
<1>1. Init => SchedInit  BY DEF Init
<1> QED  BY <1>1, StageStepIsSched, PTL DEF Spec, SchedSpec

\* In the worker, too, an error of the scheduler comes after maxRetries attempts at
\* one sub-batch and without vectors.
THEOREM StageFailures == Spec => []FailureMeansRetried
BY StageRunsSched, SchedFailures

\* The worker sees GenerateBatchEmbeddings as the one step of EmbeddingCall.
THEOREM StageImplementsCall == Spec => ImplementsEmbeddingCall
BY StageRunsSched, SchedImplementsCall

-----------------------------------------------------------------------------
(* The rows that the stage leaves. *)

Row == [index : Nat, hash : Chunks, vector : Calls \X Nat]

StageTables ==
  /\ DOMAIN looked = Calls /\ DOMAIN stage = Calls /\ DOMAIN turn = Calls /\ DOMAIN rows = Calls

\* The loop has come to turn, with the kept chunks and the vectors of the call.
LoopInv(c) ==
  /\ looked[c] = DOMAIN Batch[c]
  /\ Batch[c] # << >> => outcome[c] = Answered(c) /\ pc[c] = "returned"
  /\ turn[c] \in 1 .. Cardinality(Kept(c)) + 1
  /\ rows[c] \in Seq(Row) /\ Len(rows[c]) = turn[c] - 1
  /\ \A i \in 1 .. turn[c] - 1 : /\ rows[c][i].hash = Select(Batch[c], Kept(c))[i]
                                /\ rows[c][i].vector = Vector(c, i).id

StageInv(c) ==
  /\ Batch[c] = << >> \/ stage[c] = "split" => pc[c] = "idle"
  /\ stage[c] \in {"split", "both"} => turn[c] = 1 /\ rows[c] = << >>
  /\ stage[c] \in {"register", "save"} => LoopInv(c)
  /\ stage[c] = "save" => turn[c] = Cardinality(Kept(c)) + 1
  /\ stage[c] = "failed" => Batch[c] # << >> /\ outcome[c] = Error /\ pc[c] = "returned"

\* Which chunks are kept depends on the chunks alone, and so does where they go.
LEMMA EnrichedSpec ==
  ASSUME NEW c \in Calls
  PROVE  /\ Kept(c) \subseteq DOMAIN Batch[c] /\ Cardinality(Kept(c)) \in Nat
         /\ Cardinality(Kept(c)) <= Len(Batch[c]) /\ Len(Batch[c]) \in Nat
         /\ Select(Batch[c], Kept(c)) \in Seq(Chunks)
         /\ DOMAIN Select(Batch[c], Kept(c)) = 1 .. Cardinality(Kept(c))
         /\ Len(EnrichedChunks(c)) = Cardinality(Kept(c))
         /\ \A i \in 1 .. Cardinality(Kept(c)) :
              \E n \in Nat : EnrichedChunks(c)[i]
                = [index |-> n, hash |-> Select(Batch[c], Kept(c))[i], vector |-> near[c][n]]
<1> DEFINE K == Kept(c)
           result == [k \in DOMAIN Batch[c] |->
                        [index |-> k, hash |-> Batch[c][k], vector |-> near[c][k]]]
           T == {result[k] : k \in DOMAIN Batch[c]}
           m == Cardinality(K)
<1>1. Batch[c] \in Seq(Chunks) /\ Len(Batch[c]) \in Nat /\ DOMAIN Batch[c] = 1 .. Len(Batch[c])
  BY BatchAssumption
<1>2. K \in SUBSET DOMAIN Batch[c]  BY DEF Kept
<1>3. \A k \in DOMAIN Batch[c] :
        result[k] = [index |-> k, hash |-> Batch[c][k], vector |-> near[c][k]]
  OBVIOUS
<1>4. result \in Seq(T) /\ DOMAIN result = DOMAIN Batch[c]
  <2>1. \A k \in 1 .. Len(Batch[c]) : result[k] \in T  BY <1>1
  <2>2. DOMAIN result = 1 .. Len(Batch[c])  BY <1>1
  <2> QED  BY <1>1, <2>1, <2>2
<1>5. EnrichedChunks(c) = Select(result, K)  BY DEF EnrichedChunks
<1> HIDE DEF K, result, T
<1>6. /\ Select(Batch[c], K) \in Seq(Chunks) /\ DOMAIN Select(Batch[c], K) = 1 .. m
      /\ m <= Len(Batch[c]) /\ m \in Nat
      /\ \A k \in 1 .. m : Nth(K, k) \in K /\ Select(Batch[c], K)[k] = Batch[c][Nth(K, k)]
  BY <1>1, <1>2, SelectSpec, PositionsFinite
<1>7. /\ Len(Select(result, K)) = m
      /\ \A k \in 1 .. m : Select(result, K)[k] = result[Nth(K, k)]
  BY <1>2, <1>4, SelectSpec
<1>8. ASSUME NEW i \in 1 .. m
      PROVE  \E n \in Nat : EnrichedChunks(c)[i]
               = [index |-> n, hash |-> Select(Batch[c], K)[i], vector |-> near[c][n]]
  <2>1. Nth(K, i) \in DOMAIN Batch[c] /\ Nth(K, i) \in Nat  BY <1>1, <1>2, <1>6
  <2>2. EnrichedChunks(c)[i]
          = [index |-> Nth(K, i), hash |-> Select(Batch[c], K)[i], vector |-> near[c][Nth(K, i)]]
    BY <1>3, <1>5, <1>6, <1>7, <2>1
  <2> QED  BY <2>1, <2>2
<1> QED  BY <1>1, <1>2, <1>5, <1>6, <1>7, <1>8 DEF K

\* A step of one call is nothing to the others.
LEMMA OthersSched ==
  ASSUME SchedInv, NEW c \in Calls, GenerateBatchEmbeddings(c) \/ SchedStep(c)
  PROVE  \A d \in Calls \ {c} : outcome'[d] = outcome[d] /\ pc'[d] = pc[d]
<1>1. DOMAIN outcome = Calls /\ DOMAIN pc = Calls  BY DEF SchedInv, Tables
<1>2. CASE GenerateBatchEmbeddings(c)  BY <1>1, <1>2 DEF GenerateBatchEmbeddings
<1>3. CASE Wait(c)  BY <1>1, <1>3 DEF Wait
<1>4. CASE Gather(c)  BY <1>1, <1>4 DEF Gather
<1>5. CASE \E i \in Goroutines(c) : GoroutineStep(c, i)
  BY <1>5 DEF GoroutineStep, Acquire, CreateEmbeddings, Backoff, SendError
<1> QED  BY <1>2, <1>3, <1>4, <1>5 DEF SchedStep

\* What a call's invariant depends on.
LEMMA SameStage ==
  ASSUME NEW c, StageInv(c),
         looked'[c] = looked[c], stage'[c] = stage[c], turn'[c] = turn[c], rows'[c] = rows[c],
         outcome'[c] = outcome[c], pc'[c] = pc[c]
  PROVE  StageInv(c)'
BY DEF StageInv, LoopInv, Answered, Vectors, Vector, Kept

LEMMA StageInvInit == Init => StageTables /\ \A c \in Calls : StageInv(c)
BY DEF Init, NLPInit, SchedInit, StageTables, StageInv

LEMMA BeginInv ==
  ASSUME SchedInv, StageTables, NEW c \in Calls, StageInv(c), Begin(c)
  PROVE  StageTables' /\ StageInv(c)'
<1>1. /\ stage[c] = "split" /\ stage' = [stage EXCEPT ![c] = "both"]
      /\ UNCHANGED <<looked, turn, rows>>
      /\ IF Batch[c] = << >> THEN pc' = pc ELSE GenerateBatchEmbeddings(c)
  BY DEF Begin, At, Goto, nlpVars, schedVars
<1>2. StageTables'  BY <1>1 DEF StageTables
<1>3. stage'[c] = "both"  BY <1>1 DEF StageTables
<1> QED  BY <1>1, <1>2, <1>3 DEF StageInv

LEMMA JoinInv ==
  ASSUME SchedInv, StageTables, NEW c \in Calls, StageInv(c), Join(c)
  PROVE  StageTables' /\ StageInv(c)'
<1> DEFINE next == IF outcome[c].kind = "error" THEN "failed" ELSE "register"
<1>1. /\ stage[c] = "both" /\ stage' = [stage EXCEPT ![c] = next]
      /\ looked[c] = DOMAIN Batch[c] /\ (Batch[c] = << >> \/ pc[c] = "returned")
      /\ UNCHANGED <<looked, turn, rows, outcome, pc>>
  BY DEF Join, At, Goto, nlpVars, schedVars, BothDone
<1>2. StageTables'  BY <1>1 DEF StageTables
<1>3. stage'[c] = next /\ turn[c] = 1 /\ rows[c] = << >>  BY <1>1 DEF StageTables, StageInv
<1>4. OutcomeInv(c)  BY DEF SchedInv, CallInv
<1>5. Batch[c] = << >> => pc[c] = "idle" /\ outcome[c] = Pending
  BY <1>4 DEF StageInv, OutcomeInv
<1>6. pc[c] = "returned" => outcome[c] = Error \/ outcome[c] = Answered(c)
  BY <1>4 DEF OutcomeInv
<1>7. Pending.kind = "pending" /\ Error.kind = "error" /\ Answered(c).kind = "vectors"
  BY DEF Pending, Error, Answered
<1>8. CASE outcome[c].kind = "error"
  <2>1. next = "failed" /\ Batch[c] # << >>  BY <1>5, <1>7, <1>8
  <2>2. outcome[c] = Error /\ pc[c] = "returned"  BY <1>1, <1>6, <1>7, <1>8, <2>1
  <2> QED  BY <1>1, <1>2, <1>3, <2>1, <2>2 DEF StageInv
<1>9. CASE outcome[c].kind # "error"
  <2>1. next = "register"  BY <1>9
  <2>2. Batch[c] # << >> => outcome[c] = Answered(c) /\ pc[c] = "returned"
    BY <1>1, <1>6, <1>7, <1>9
  <2>3. Cardinality(Kept(c)) \in Nat  BY EnrichedSpec
  <2>4. LoopInv(c)'
    BY <1>1, <1>3, <2>2, <2>3 DEF LoopInv, Answered, Vectors, Vector, Kept
  <2> QED  BY <1>1, <1>2, <1>3, <1>5, <2>1, <2>4 DEF StageInv
<1> QED  BY <1>8, <1>9

LEMMA RegisterInv ==
  ASSUME SchedInv, StageTables, NEW c \in Calls, StageInv(c), Register(c)
  PROVE  StageTables' /\ StageInv(c)'
<1> DEFINE i == turn[c]
           row == [EnrichedChunks(c)[i] EXCEPT !.vector = VectorOf(c, i)]
           m == Cardinality(Kept(c))
<1>1. /\ stage[c] = "register" /\ i <= Len(EnrichedChunks(c))
      /\ rows' = [rows EXCEPT ![c] = Append(rows[c], row)]
      /\ turn' = [turn EXCEPT ![c] = i + 1]
      /\ UNCHANGED <<looked, stage, outcome, pc>>
  BY DEF Register, At, schedVars, StageTables
<1>2. LoopInv(c)  BY <1>1 DEF StageInv
<1>3. /\ m \in Nat /\ Len(EnrichedChunks(c)) = m /\ m <= Len(Batch[c]) /\ Len(Batch[c]) \in Nat
      /\ Select(Batch[c], Kept(c)) \in Seq(Chunks)
      /\ DOMAIN Select(Batch[c], Kept(c)) = 1 .. m
  BY EnrichedSpec
<1>4. i \in 1 .. m  BY <1>1, <1>2, <1>3 DEF LoopInv
<1>5. Batch[c] # << >> /\ outcome[c] = Answered(c)  BY <1>2, <1>3, <1>4 DEF LoopInv
<1>6. VectorOf(c, i) = Vector(c, i).id
  <2>1. Batch[c] \in Seq(Chunks)  BY BatchAssumption
  <2>2. /\ outcome[c].vectors = Vectors(c) /\ Len(Vectors(c)) = Len(Batch[c])
        /\ i \in DOMAIN Batch[c]
    BY <1>3, <1>4, <1>5, <2>1 DEF Answered, Vectors
  <2>3. i <= Len(outcome[c].vectors)  BY <1>3, <1>4, <2>2
  <2> QED  BY <2>2, <2>3 DEF VectorOf, Vectors
<1>7. Vector(c, i).id = <<c, i>> /\ <<c, i>> \in Calls \X Nat  BY <1>3, <1>4 DEF Vector
<1>8. /\ row \in Row /\ row.hash = Select(Batch[c], Kept(c))[i] /\ row.vector = Vector(c, i).id
  <2>1. PICK n \in Nat : EnrichedChunks(c)[i]
          = [index |-> n, hash |-> Select(Batch[c], Kept(c))[i], vector |-> near[c][n]]
    BY <1>4, EnrichedSpec
  <2>2. Select(Batch[c], Kept(c))[i] \in Chunks  BY <1>3, <1>4
  <2>3. row = [index |-> n, hash |-> Select(Batch[c], Kept(c))[i], vector |-> Vector(c, i).id]
    BY <1>6, <2>1
  <2> HIDE DEF row
  <2> QED  BY <1>7, <2>2, <2>3 DEF Row
<1> HIDE DEF row, m
<1>9. StageTables' /\ stage'[c] = "register" /\ turn'[c] = i + 1
      /\ rows'[c] = Append(rows[c], row)
  BY <1>1 DEF StageTables
<1>0. i \in Nat \ {0}  BY <1>3, <1>4
<1>10. /\ rows[c] \in Seq(Row) /\ Len(rows[c]) = i - 1
       /\ \A k \in 1 .. i - 1 : /\ rows[c][k].hash = Select(Batch[c], Kept(c))[k]
                               /\ rows[c][k].vector = Vector(c, k).id
  BY <1>2 DEF LoopInv
<1>11. /\ rows'[c] \in Seq(Row) /\ Len(rows'[c]) = i /\ rows'[c][i] = row
       /\ \A k \in 1 .. i - 1 : rows'[c][k] = rows[c][k]
  BY <1>0, <1>8, <1>9, <1>10, AppendProperties
<1>12. \A k \in 1 .. i : /\ rows'[c][k].hash = Select(Batch[c], Kept(c))[k]
                         /\ rows'[c][k].vector = Vector(c, k).id
  <2> SUFFICES ASSUME NEW k \in 1 .. i
               PROVE  /\ rows'[c][k].hash = Select(Batch[c], Kept(c))[k]
                      /\ rows'[c][k].vector = Vector(c, k).id
    OBVIOUS
  <2>1. CASE k = i  BY <1>8, <1>11, <2>1
  <2>2. CASE k # i
    <3>1. k \in 1 .. i - 1  BY <1>0, <2>2
    <3> QED  BY <1>10, <1>11, <3>1
  <2> QED  BY <2>1, <2>2
<1>13. /\ looked'[c] = DOMAIN Batch[c] /\ i + 1 \in 1 .. m + 1 /\ (i + 1) - 1 = i
       /\ outcome'[c] = Answered(c) /\ pc'[c] = "returned"
  BY <1>1, <1>2, <1>3, <1>4, <1>5 DEF LoopInv
<1>14. LoopInv(c)'
  BY <1>9, <1>11, <1>12, <1>13 DEF LoopInv, m, Answered, Vectors, Vector, Kept
<1> QED  BY <1>1, <1>5, <1>9, <1>14 DEF StageInv

LEMMA RegisteredInv ==
  ASSUME SchedInv, StageTables, NEW c \in Calls, StageInv(c), Registered(c)
  PROVE  StageTables' /\ StageInv(c)'
<1>1. /\ stage[c] = "register" /\ turn[c] > Len(EnrichedChunks(c))
      /\ stage' = [stage EXCEPT ![c] = "save"]
      /\ UNCHANGED <<looked, turn, rows, outcome, pc>>
  BY DEF Registered, At, Goto, schedVars, nlpVars
<1>2. StageTables' /\ stage'[c] = "save"  BY <1>1 DEF StageTables
<1>3. LoopInv(c)  BY <1>1 DEF StageInv
<1>4. turn[c] = Cardinality(Kept(c)) + 1  BY <1>1, <1>3, EnrichedSpec DEF LoopInv
<1>5. LoopInv(c)'  BY <1>1, <1>3 DEF LoopInv, Answered, Vectors, Vector, Kept
<1>6. turn'[c] = Cardinality(Kept(c)) + 1  BY <1>1, <1>4
<1> QED  BY <1>1, <1>2, <1>5, <1>6 DEF StageInv, Kept

LEMMA StageInvStep ==
  SchedInv /\ StageTables /\ (\A c \in Calls : StageInv(c)) /\ [Next]_vars
    => StageTables' /\ \A c \in Calls : StageInv(c)'
<1> SUFFICES ASSUME SchedInv, StageTables, \A c \in Calls : StageInv(c), [Next]_vars
             PROVE  StageTables' /\ \A c \in Calls : StageInv(c)'
  OBVIOUS
<1>1. CASE UNCHANGED vars
  <2>1. UNCHANGED <<looked, stage, turn, rows, outcome, pc>>
    BY <1>1 DEF vars, schedVars, nlpVars, stageVars
  <2> QED  BY <2>1, SameStage DEF StageTables
<1>2. ASSUME NEW c \in Calls, WorkerStep(c)
      PROVE  StageTables' /\ \A d \in Calls : StageInv(d)'
  <2>1. StageTables' /\ StageInv(c)'
    <3>1. CASE Enrich(c)
      <4>1. /\ stage[c] = "both" /\ UNCHANGED <<stage, turn, rows, outcome, pc>>
            /\ \E k : looked' = [looked EXCEPT ![c] = @ \cup {k}]
        BY <3>1 DEF Enrich, At, EnrichChunk, schedVars, stageVars
      <4> QED  BY <4>1 DEF StageTables, StageInv
    <3>2. CASE Vectorize(c)
      <4>1. /\ stage[c] = "both" /\ UNCHANGED <<looked, stage, turn, rows>> /\ SchedStep(c)
        BY <3>2 DEF Vectorize, At, nlpVars, stageVars
      <4>2. pc[c] # "idle"
        <5>1. ASSUME NEW i \in Goroutines(c), GoroutineStep(c, i) PROVE pc[c] # "idle"
          BY <5>1 DEF GoroutineStep, Acquire, CreateEmbeddings, Backoff, SendError, SubAt
        <5> QED  BY <4>1, <5>1 DEF SchedStep, Wait, Gather
      <4> QED  BY <4>1, <4>2 DEF StageTables, StageInv
    <3> QED  BY <1>2, <3>1, <3>2, BeginInv, JoinInv, RegisterInv, RegisteredInv DEF WorkerStep
  <2>2. ASSUME NEW d \in Calls \ {c} PROVE StageInv(d)'
    <3>1. /\ looked'[d] = looked[d] /\ stage'[d] = stage[d] /\ turn'[d] = turn[d]
          /\ rows'[d] = rows[d]
      BY <1>2 DEF WorkerStep, Begin, Enrich, EnrichChunk, Vectorize, Join, Register, Registered,
                  Goto, nlpVars, stageVars, StageTables
    <3>2. outcome'[d] = outcome[d] /\ pc'[d] = pc[d]
      <4>1. \/ GenerateBatchEmbeddings(c) \/ SchedStep(c)
            \/ UNCHANGED schedVars
        BY <1>2 DEF WorkerStep, Begin, Enrich, Vectorize, Join, Register, Registered
      <4> QED  BY <4>1, OthersSched DEF schedVars
    <3> QED  BY <3>1, <3>2, SameStage
  <2> QED  BY <2>1, <2>2
<1> QED  BY <1>1, <1>2 DEF Next

\* EnrichChunksParallel and GenerateBatchEmbeddings side by side, the wait for both and
\* the loop behind it are one step to the rest of ProcessDocument: the kept chunks in
\* their order, the i-th with the i-th new vector, or an error.
THEOREM StageIsOneStep == Spec => []EmbedIsOneStep
<1> DEFINE Inv == StageTables /\ \A c \in Calls : StageInv(c)
<1>1. Spec => []SchedInv  BY StageRunsSched, SchedInvariant, PTL
<1>2. Init => Inv  BY StageInvInit
<1>3. SchedInv /\ Inv /\ [Next]_vars => Inv'  BY StageInvStep
<1>4. Inv => EmbedIsOneStep
  <2> SUFFICES ASSUME Inv, NEW c \in Calls
               PROVE  /\ At(c, "register") => looked[c] = DOMAIN Batch[c]
                      /\ At(c, "save") =>
                           /\ [i \in DOMAIN rows[c] |-> rows[c][i].hash]
                                = Select(Batch[c], Kept(c))
                           /\ \A i \in DOMAIN rows[c] : rows[c][i].vector = Vector(c, i).id
                      /\ At(c, "failed") => Batch[c] # << >> /\ outcome[c] = Error
    BY DEF EmbedIsOneStep
  <2>1. StageInv(c)  OBVIOUS
  <2>2. ASSUME At(c, "save")
        PROVE  /\ [i \in DOMAIN rows[c] |-> rows[c][i].hash] = Select(Batch[c], Kept(c))
               /\ \A i \in DOMAIN rows[c] : rows[c][i].vector = Vector(c, i).id
    <3> DEFINE m == Cardinality(Kept(c))
               s == Select(Batch[c], Kept(c))
    <3>1. m \in Nat /\ s \in Seq(Chunks) /\ DOMAIN s = 1 .. m  BY EnrichedSpec
    <3>2. LoopInv(c) /\ turn[c] = m + 1  BY <2>1, <2>2 DEF StageInv, At
    <3> HIDE DEF m, s
    <3>3. /\ DOMAIN rows[c] = 1 .. m
          /\ \A i \in 1 .. m : rows[c][i].hash = s[i] /\ rows[c][i].vector = Vector(c, i).id
      BY <3>1, <3>2 DEF LoopInv, s
    <3>4. s = [i \in 1 .. m |-> s[i]]  BY <3>1
    <3> QED  BY <3>3, <3>4 DEF s
  <2> QED  BY <2>1, <2>2 DEF StageInv, LoopInv, At
<1> QED  BY <1>1, <1>2, <1>3, <1>4, PTL DEF Spec
=============================================================================
