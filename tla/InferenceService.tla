--------------------------- MODULE InferenceService ---------------------------
(***************************************************************************)
(* The inference service: a process that loads its configuration, answers  *)
(* queries beside the pipe service's transactions, and is shut down.  A    *)
(* query is embedded, and compared with the stored chunks in one statement *)
(* of SQL, which sees what was committed when it began.                    *)
(*                                                                         *)
(* A chunk has a similarity to the query, in percent: that of its vector   *)
(* row, so that all chunks of the same content have the same.              *)
(* The request q is req[q]:                                                *)
(*   stage   the call it has come to                                       *)
(*   body    text, topK, minSimilarity and tenant of the query             *)
(*   code    what the client has got; 0 when the connection is dropped     *)
(*   found   the chunks it is answered with                                *)
(*   late    WriteTimeout has passed since its header was read             *)
(***************************************************************************)
EXTENDS Integers, Sequences, FiniteSets, Functions, Configuration

CONSTANTS Queries, Bodies,
          NoBody, NoTenant,
          Docs, Chunks, DocOf, Similarity,
          Tenant           \* documents.tenant_id of each document

ASSUME InferenceAssumption ==
  /\ \A b \in Bodies : b.topK \in Int /\ b.minSimilarity \in Int
  /\ IsFiniteSet(Chunks)
  /\ DocOf \in [Chunks -> Docs]
  /\ Similarity \in [Chunks -> Int]
  /\ NoTenant \notin {Tenant[d] : d \in Docs}

VARIABLES server,     \* stopped, serving, draining, closed, exited
          database,   \* the pool is open
          expired,    \* the 10 seconds of Shutdown are over
          committed,  \* chunks that SaveBulk has committed
          req,
          before      \* history: what was committed when a request came

serverVars == <<server, database, expired>>
requestVars == <<req, before>>
vars == <<configVars, serverVars, committed, requestVars>>

NoRequest == [stage |-> "idle", body |-> NoBody, code |-> 0, found |-> << >>, late |-> FALSE]

Init ==
  /\ ConfigInit
  /\ server = "stopped"
  /\ database = FALSE
  /\ expired = FALSE
  /\ committed = {}
  /\ req = [q \in Queries |-> NoRequest]
  /\ before = [q \in Queries |-> {}]

At(q, stage) == req[q].stage = stage

Goto(q, stage) == req' = [req EXCEPT ![q].stage = stage]

\* Headers and body are written when the handler returns; a connection whose
\* deadline has passed is closed instead.
Answer(q, code, found) ==
  req' = [req EXCEPT ![q] = [@ EXCEPT !.stage = "ended",
                                      !.code  = IF req[q].late THEN 0 ELSE code,
                                      !.found = IF req[q].late THEN << >> ELSE found]]

Active == {q \in Queries : req[q].stage \in {"handler", "embed", "search"}}

-----------------------------------------------------------------------------
(* A query. *)

\* A connection that was accepted before the listener was closed may bring its request
\* while the server drains, or after Shutdown has given up.
Accept(q, body) ==
  /\ server \in {"serving", "draining"} \/ (server = "closed" /\ expired)
  /\ At(q, "idle")
  /\ req' = [req EXCEPT ![q] = [@ EXCEPT !.stage = "handler", !.body = body]]
  /\ before' = [before EXCEPT ![q] = committed]
  /\ UNCHANGED <<configVars, serverVars, committed>>

\* HandleQuery; QueryRAG refuses a query of spaces, which is a 500 to the client.
HandleQuery(q) ==
  /\ At(q, "handler")
  /\ CASE req[q].body.text \in {"malformed", "empty"} -> Answer(q, 400, << >>)
       [] req[q].body.text = "blank"                  -> Answer(q, 500, << >>)
       [] OTHER                                   -> Goto(q, "embed")
  /\ UNCHANGED <<configVars, serverVars, committed, before>>

\* Mutant: the query is tried again until there is an embedding.
EmbeddingRetried(q) ==
  /\ At(q, "embed")
  /\ Goto(q, "search") \/ Goto(q, "handler")
  /\ UNCHANGED <<configVars, serverVars, committed, before>>

\* One request to OpenRouter, which may fail or answer without data; no retry.
GenerateQueryEmbedding(q) ==
  /\ At(q, "embed")
  /\ Goto(q, "search") \/ Answer(q, 500, << >>)
  /\ UNCHANGED <<configVars, serverVars, committed, before>>

TopK(q) == IF req[q].body.topK <= 0 THEN 10 ELSE req[q].body.topK

\* A body that asks for 0 is treated as one that does not ask.
MinSimilarity(q) == IF req[q].body.minSimilarity <= 0 THEN 18 ELSE req[q].body.minSimilarity

Matches(q) ==
  {c \in committed : /\ Similarity[c] >= MinSimilarity(q)
                     /\ req[q].body.tenant \in {NoTenant, Tenant[DocOf[c]]}}

\* Mutant: ORDER BY similarity, which begins with the least.
OrderedLeastFirst(q) ==
  {s \in Bijection(1 .. Cardinality(Matches(q)), Matches(q)) :
     \A j, k \in DOMAIN s : j < k => Similarity[s[j]] <= Similarity[s[k]]}

\* ORDER BY distance: the matches, the most like first; those that are as like, as
\* the chunks of one vector row are, in any order.
Ordered(q) ==
  {s \in Bijection(1 .. Cardinality(Matches(q)), Matches(q)) :
     \A j, k \in DOMAIN s : j < k => Similarity[s[j]] >= Similarity[s[k]]}

\* LIMIT top_k, which may cut between two that are as like.
Limited(q, s) == Restrict(s, {k \in DOMAIN s : k <= TopK(q)})

\* The statement is executed, or fails, as it does once the pool is closed.
SearchSimilarVectors(q) ==
  /\ At(q, "search")
  /\ \/ database /\ \E s \in Ordered(q) : Answer(q, 200, Limited(q, s))
     \/ Answer(q, 500, << >>)
  /\ UNCHANGED <<configVars, serverVars, committed, before>>

\* WriteTimeout is 15 seconds, a request to OpenRouter may take 30.
DeadlinePasses(q) ==
  /\ At(q, "embed") \/ At(q, "search")
  /\ ~req[q].late
  /\ req' = [req EXCEPT ![q].late = TRUE]
  /\ UNCHANGED <<configVars, serverVars, committed, before>>

ChunksOf(d) == {c \in Chunks : DocOf[c] = d}

\* Mutant: rows are inserted without a transaction around them.
CommitByRow(d) ==
  /\ \E c \in ChunksOf(d) \ committed : committed' = committed \cup {c}
  /\ UNCHANGED <<configVars, serverVars, requestVars>>

\* The pipe service commits all chunks of a document at once.
Commit(d) ==
  /\ ~(ChunksOf(d) \subseteq committed)
  /\ committed' = committed \cup ChunksOf(d)
  /\ UNCHANGED <<configVars, serverVars, requestVars>>

-----------------------------------------------------------------------------
(* The process. *)

Configure ==
  /\ server = "stopped"
  /\ LoadDotEnv \/ LoadConfig
  /\ UNCHANGED <<serverVars, committed, requestVars>>

\* sql.Open does not connect, and a failed ping is a warning.  The process exits
\* when configuration, telemetry or listener fail.
Serve ==
  /\ server = "stopped"
  /\ \/ boot = "configured" /\ server' = "serving" /\ database' = TRUE
     \/ boot # "dotenv" /\ server' = "exited" /\ UNCHANGED database
  /\ UNCHANGED <<configVars, expired, committed, requestVars>>

StopSignal ==
  /\ server = "serving"
  /\ server' = "draining"
  /\ UNCHANGED <<configVars, database, expired, committed, requestVars>>

DrainExpires ==
  /\ server = "draining"
  /\ ~expired
  /\ expired' = TRUE
  /\ UNCHANGED <<configVars, server, database, committed, requestVars>>

\* Mutant: the pool is closed as soon as the listener is.
ShutdownAtOnce == server = "draining"

\* Shutdown returns when no request is active, or with an error after 10 seconds.
ShutdownReturns == server = "draining" /\ (Active = {} \/ expired)

CloseDatabase ==
  /\ ShutdownReturns
  /\ server' = "closed"
  /\ database' = FALSE
  /\ UNCHANGED <<configVars, expired, committed, requestVars>>

\* main returns, and what is still active goes with the process.
Exit ==
  /\ server = "closed"
  /\ server' = "exited"
  /\ req' = [q \in Queries |-> IF q \in Active THEN [NoRequest EXCEPT !.stage = "ended"]
                                               ELSE req[q]]
  /\ UNCHANGED <<configVars, database, expired, committed, before>>

Handle(q) == HandleQuery(q) \/ GenerateQueryEmbedding(q) \/ SearchSimilarVectors(q)

Main == Configure \/ Serve \/ CloseDatabase \/ Exit

Next ==
  \/ Main \/ StopSignal \/ DrainExpires
  \/ \E q \in Queries : \E b \in Bodies : Accept(q, b)
  \/ \E q \in Queries : DeadlinePasses(q) \/ (server # "exited" /\ Handle(q))
  \/ \E d \in Docs : Commit(d)

\* Goroutines run, requests to OpenRouter and to the database return, and the
\* timer of Shutdown fires.  Nobody has to stop the service.
Spec == Init /\ [][Next]_vars
             /\ WF_vars(Main) /\ WF_vars(DrainExpires)
             /\ \A q \in Queries : WF_vars(server # "exited" /\ Handle(q))

-----------------------------------------------------------------------------
\* Types of the process and of the requests; a process serves only with all the
\* settings it requires.
TypeOK ==
  /\ boot \in {"dotenv", "configured", "failed"}
  /\ server \in {"stopped", "serving", "draining", "closed", "exited"}
  /\ server = "serving" => \A v \in Required : env[v] # Unset /\ ~(v \in Parsed /\ env[v] \in Unparsable)
  /\ {database, expired} \subseteq BOOLEAN
  /\ committed \subseteq Chunks
  /\ \A q \in Queries :
       /\ req[q].stage \in {"idle", "handler", "embed", "search", "ended"}
       /\ req[q].code \in {0, 200, 400, 500}
       /\ req[q].code # 200 => req[q].found = << >>

Found(q) == {req[q].found[k] : k \in DOMAIN req[q].found}

\* An answer is the best of what was committed.  Nothing in it is of another tenant
\* than was named, or less like than MinSimilarity, which is 0.18 for a query that
\* asks for 0 or does not ask (docs/openapi.yaml:88 has 0.0 as the default).  A chunk
\* that was there when the query came and meets both is left out only of an answer
\* that is full, and of chunks no less like than it.
NothingBetterLeftOut ==
  \A q \in Queries : req[q].code = 200 =>
    LET fits(c) == /\ Similarity[c] >= MinSimilarity(q)
                   /\ req[q].body.tenant \in {NoTenant, Tenant[DocOf[c]]}
    IN /\ \A c \in Found(q) : fits(c)
       /\ \A c \in before[q] \ Found(q) : fits(c) =>
            /\ Len(req[q].found) = TopK(q)
            /\ \A d \in Found(q) : Similarity[d] >= Similarity[c]

\* A document that is being stored is in an answer with all its chunks that are
\* like enough or with none, unless the answer is full.
DocumentsWhole ==
  \A q \in Queries : req[q].code = 200 /\ Len(req[q].found) < TopK(q) =>
    \A c, d \in Chunks : c \in Found(q) /\ DocOf[c] = DocOf[d]
                           /\ Similarity[d] >= Similarity[c] => d \in Found(q)

\* No request meets a closed pool or a dying process before Shutdown has given it
\* its 10 seconds.
DrainedInTime == ~database /\ Active # {} => expired

\* Every query that is accepted ends, also when the service is stopped meanwhile.
EveryQueryEnds == \A q \in Queries : []<>(req[q].stage \in {"idle", "ended"})
=============================================================================
