---------------------------- MODULE DedupService -----------------------------
(***************************************************************************)
(* What the chunk deduplicator promises its callers, whatever levels of    *)
(* cache it looks in and however the calls of different workers and pods   *)
(* interleave: a batch lookup answers, for each hash of the batch, with    *)
(* the id of the stored vector or an id that some worker has registered    *)
(* for that very hash; and it misses no hash that had a stored vector when *)
(* the call began, unless the result set of its query was cut short.       *)
(***************************************************************************)
EXTENDS Naturals

CONSTANTS Hashes, VectorIDs, None, Workers

VARIABLES vectors,     \* the stored id of each hash, None where there is none
          registered,  \* every <<hash, id>> pair any worker has registered
          req          \* the lookup each worker is in

vars == <<vectors, registered, req>>

NoEntries == [h \in Hashes |-> None]

Stored == {h \in Hashes : vectors[h] # None}

\* A lookup: where it stands, the hashes it is for, those stored when it began,
\* whether its result set was cut short, and its answer.
Request(st, batch, known, cut, found) ==
  [st |-> st, batch |-> batch, known |-> known, cut |-> cut, found |-> found]

NoRequest == Request("idle", {}, {}, FALSE, NoEntries)

Init == /\ vectors = NoEntries
        /\ registered = {}
        /\ req = [w \in Workers |-> NoRequest]

Begin(w, batch) ==
  /\ req[w].st = "idle"
  /\ req' = [req EXCEPT ![w] = Request("busy", batch, Stored \cap batch, FALSE, NoEntries)]
  /\ UNCHANGED <<vectors, registered>>

\* The database connection may break while the rows of the answer arrive.
CutShort(w) ==
  /\ req[w].st = "busy"
  /\ req' = [req EXCEPT ![w] = Request("busy", @.batch, @.known, TRUE, NoEntries)]
  /\ UNCHANGED <<vectors, registered>>

Answers(r, found) ==
  /\ \A h \in Hashes : found[h] # None =>
       /\ h \in r.batch
       /\ found[h] = vectors[h] \/ <<h, found[h]>> \in registered
  /\ r.cut \/ \A h \in r.known : found[h] # None

\* The lookup returns some answer; how it is found is not said.
Return(w) ==
  LET found == req'[w].found
  IN /\ req[w].st = "busy"
     /\ req' = [req EXCEPT ![w] = Request("returned", @.batch, @.known, @.cut, found)]
     /\ Answers(req[w], found)
     /\ UNCHANGED <<vectors, registered>>

Fail(w) ==
  /\ req[w].st = "busy"
  /\ req' = [req EXCEPT ![w] = Request("failed", @.batch, @.known, @.cut, NoEntries)]
  /\ UNCHANGED <<vectors, registered>>

\* The worker goes on with its document.
Finish(w) ==
  /\ req[w].st \in {"returned", "failed"}
  /\ req' = [req EXCEPT ![w] = NoRequest]
  /\ UNCHANGED <<vectors, registered>>

Register(h, id) ==
  /\ registered' = registered \cup {<<h, id>>}
  /\ UNCHANGED <<vectors, req>>

\* A transaction stores new ids; a stored id is never replaced.
Store ==
  /\ vectors' \in [Hashes -> VectorIDs \cup {None}]
  /\ \A h \in Stored : vectors'[h] = vectors[h]
  /\ UNCHANGED <<registered, req>>

\* A pod stops: the calls of its workers are gone.
Crash(gone) ==
  /\ req' = [w \in Workers |-> IF w \in gone THEN NoRequest ELSE req[w]]
  /\ UNCHANGED <<vectors, registered>>

Next ==
  \/ \E gone \in SUBSET Workers : Crash(gone)
  \/ \E w \in Workers : \/ \E batch \in SUBSET Hashes : Begin(w, batch)
                        \/ CutShort(w) \/ Return(w) \/ Fail(w) \/ Finish(w)
  \/ \E h \in Hashes, id \in VectorIDs : Register(h, id)
  \/ Store

Spec == Init /\ [][Next]_vars
=============================================================================
