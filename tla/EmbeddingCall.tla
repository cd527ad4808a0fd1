---------------------------- MODULE EmbeddingCall -----------------------------
(***************************************************************************)
(* What GenerateBatchEmbeddings promises its caller, however many requests *)
(* it sends and in whatever order they are answered: one vector for every  *)
(* chunk, in the order of the chunks, or an error and no vector at all.    *)
(* The id that is minted for the k-th chunk of a call is the pair of both. *)
(***************************************************************************)
EXTENDS Naturals, Sequences

CONSTANTS Calls,   \* calls of the function, each made once
          Chunks,  \* hashes
          Batch    \* the chunks of each call

ASSUME BatchAssumption == Batch \in [Calls -> Seq(Chunks)]

VARIABLE outcome

Pending == [kind |-> "pending", vectors |-> << >>]
Error   == [kind |-> "error", vectors |-> << >>]

Vector(c, k) == [id |-> <<c, k>>, hash |-> Batch[c][k]]

Vectors(c) == [k \in DOMAIN Batch[c] |-> Vector(c, k)]

OutcomeInit == outcome = [c \in Calls |-> Pending]

Return(c) ==
  /\ outcome[c] = Pending
  /\ \/ outcome' = [outcome EXCEPT ![c] = [kind |-> "vectors", vectors |-> Vectors(c)]]
     \/ Batch[c] # << >> /\ outcome' = [outcome EXCEPT ![c] = Error]

CallSpec == OutcomeInit /\ [][\E c \in Calls : Return(c)]_outcome
=============================================================================
