-------------------------- MODULE ChunkDeduplicator --------------------------
(***************************************************************************)
(* The chunk deduplicator of the pipe service.  A lookup goes through      *)
(* three levels: the cache in the pod's memory, Redis, and the vectors     *)
(* table.  What a level finds is copied into the levels above it.  Workers *)
(* of one pod share its cache, all pods share Redis and the table, and     *)
(* every read, every copied entry and every Redis write is a step of its   *)
(* own here, as the code holds no lock across two of them.                 *)
(*                                                                         *)
(* A call of DeduplicateChunkBatch, RegisterVectorHash or WarmupCache is a *)
(* record in `call`:                                                       *)
(*   pc       where the goroutine stands                                   *)
(*   src      what its `pending` hashes came from                          *)
(*   missing  missingHashes                                                *)
(*   found    foundMap, extended by redisFound and dbFound as they arrive  *)
(*   pending  hashes whose entry is still to be copied                     *)
(* and two history fields:                                                 *)
(*   known    hashes of the batch with a stored vector when it began       *)
(*   cut      the rows of its SELECT stopped arriving half way             *)
(***************************************************************************)
EXTENDS L1Cache

CONSTANTS Pods,     \* replicas of the pipe service
          Workers,  \* worker goroutines, of all pods
          PodOf,    \* the pod of each worker
          WarmupLimit \* CACHE_WARMUP_LIMIT: rows the warm-up reads

ASSUME PodAssumption == /\ PodOf \in [Workers -> Pods]
                        /\ Pods \cap Workers = {}
ASSUME WarmupAssumption == WarmupLimit \in Nat

VARIABLES cache,      \* the L1 cache of each pod
          redis,      \* shared L2: chunk:hash:<hash> keys
          vectors,    \* the vectors table: hash (unique) -> id
          call,
          registered  \* history: pairs given to RegisterVectorHash

dedupVars == <<cache, redis, vectors, call, registered>>

\* The warm-up goroutine of pod p is named p.
Goroutines == Workers \cup Pods

Pod(g) == IF g \in Pods THEN g ELSE PodOf[g]

Idle == [pc |-> "idle", src |-> "none", missing |-> {}, found |-> NoEntries,
         pending |-> {}, known |-> {}, cut |-> FALSE]

Booting == [Idle EXCEPT !.pc = "boot"]

\* Mutant: what a level finds replaces what the levels above found.
ExtendReplaces(f, m, S) == [h \in S |-> m[h]]

\* f extended with the entries of m for the hashes of S.
Extend(f, m, S) == [h \in Hashes |-> IF h \in S THEN m[h] ELSE f[h]]

DedupInit ==
  /\ cache = [p \in Pods |-> NewCache]
  /\ redis = NoEntries
  /\ vectors = NoEntries
  /\ call = [g \in Goroutines |-> IF g \in Pods THEN Booting ELSE Idle]
  /\ registered = {}

-----------------------------------------------------------------------------
(* DeduplicateChunkBatch *)

\* The scan of the whole batch under the read lock.
LookupL1(w, batch) ==
  LET ids  == cache[PodOf[w]].ids
      hits == batch \cap Keys(ids)
  IN /\ call[w].pc = "idle"
     /\ call' = [call EXCEPT ![w] =
                  [Idle EXCEPT !.pc = "scanned",
                               !.found = Extend(NoEntries, ids, hits),
                               !.missing = batch \ hits,
                               !.known = batch \cap Keys(vectors)]]
     /\ UNCHANGED <<cache, redis, vectors, registered>>

AllInL1(w) ==
  /\ call[w].pc = "scanned"
  /\ call[w].missing = {}
  /\ call' = [call EXCEPT ![w].pc = "returned"]
  /\ UNCHANGED <<cache, redis, vectors, registered>>

\* What one MGET may find: when Redis does not answer, nothing, and no error.
GetChunkVectorIDsBatch(hashes) == {hashes \cap Keys(redis), {}}

\* Mutant: nil answers are skipped before ids and hashes are matched by position.
LookupRedisShifted(w) ==
  LET c == call[w]
  IN /\ c.pc = "scanned"
     /\ c.missing # {}
     /\ \E hits \in GetChunkVectorIDsBatch(c.missing) : \E at \in [hits -> c.missing] :
          LET taken == {at[g] : g \in hits}
              ids   == [h \in taken |-> redis[CHOOSE g \in hits : at[g] = h]]
          IN call' = [call EXCEPT ![w] = [c EXCEPT !.pc = "fill", !.src = "redis",
                                                   !.found = Extend(c.found, ids, taken),
                                                   !.missing = c.missing \ taken,
                                                   !.pending = taken]]
     /\ UNCHANGED <<cache, redis, vectors, registered>>

LookupRedis(w) ==
  LET c == call[w]
  IN /\ c.pc = "scanned"
     /\ c.missing # {}
     /\ \E hits \in GetChunkVectorIDsBatch(c.missing) :
          call' = [call EXCEPT ![w] = [c EXCEPT !.pc = "fill", !.src = "redis",
                                                !.found = Extend(c.found, redis, hits),
                                                !.missing = c.missing \ hits,
                                                !.pending = hits]]
     /\ UNCHANGED <<cache, redis, vectors, registered>>

\* What one SELECT may find.  rows.Err() is never looked at, so rows that stop
\* arriving half way pass for the whole answer.
FindVectorIDsByHashesBatch(hashes) == SUBSET (hashes \cap Keys(vectors))

\* The hashes that are still missing are looked for in the table.
LookupDB(w) ==
  LET c == call[w]
  IN /\ c.pc = "select"
     /\ \E hits \in FindVectorIDsByHashesBatch(c.missing) :
          call' = [call EXCEPT ![w] = [c EXCEPT !.pc = "fill", !.src = "db",
                                                !.found = Extend(c.found, vectors, hits),
                                                !.pending = hits,
                                                !.cut = (hits # c.missing \cap Keys(vectors))]]
     /\ UNCHANGED <<cache, redis, vectors, registered>>

LookupDBFails(w) ==
  /\ call[w].pc = "select"
  /\ call' = [call EXCEPT ![w].pc = "failed"]
  /\ UNCHANGED <<cache, redis, vectors, registered>>

\* One addToCache, under the write lock.
CacheFound(g) ==
  /\ call[g].pc = "fill"
  /\ \E h \in call[g].pending :
       /\ cache' = [cache EXCEPT ![Pod(g)] = AddToCache(@, h, call[g].found[h])]
       /\ call' = [call EXCEPT ![g].pending = @ \ {h}]
  /\ UNCHANGED <<redis, vectors, registered>>

\* Mutant: the answer of Redis is taken for complete.
RedisHitsCachedDone(w) ==
  /\ call[w].pc = "fill"
  /\ call[w].src = "redis"
  /\ call[w].pending = {}
  /\ call' = [call EXCEPT ![w].pc = "returned"]
  /\ UNCHANGED <<cache, redis, vectors, registered>>

\* Hits in Redis are all in the cache: ask the table for the rest, if any.
RedisHitsCached(w) ==
  /\ call[w].pc = "fill"
  /\ call[w].src = "redis"
  /\ call[w].pending = {}
  /\ call' = [call EXCEPT ![w].pc = IF call[w].missing = {} THEN "returned" ELSE "select"]
  /\ UNCHANGED <<cache, redis, vectors, registered>>

\* The entries a call writes to Redis: what it got from the table, from its
\* caller or from the warm-up query, but nothing the upper levels gave it.
ToRedis(c) == IF c.src = "db" THEN c.missing \cap Keys(c.found) ELSE Keys(c.found)

RowsCached(g) ==
  /\ call[g].pc = "fill"
  /\ call[g].src # "redis"
  /\ call[g].pending = {}
  /\ call' = [call EXCEPT ![g] = [@ EXCEPT !.pc = "writeback", !.pending = ToRedis(call[g])]]
  /\ UNCHANGED <<cache, redis, vectors, registered>>

\* A SET of the pipeline, applied or lost: SetChunkVectorIDsBatch hides errors.
WriteRedis(g) ==
  /\ call[g].pc = "writeback"
  /\ \E h \in call[g].pending :
       /\ call' = [call EXCEPT ![g].pending = @ \ {h}]
       /\ \/ redis' = [redis EXCEPT ![h] = call[g].found[h]]
          \/ UNCHANGED redis
  /\ UNCHANGED <<cache, vectors, registered>>

RedisWritten(g) ==
  /\ call[g].pc = "writeback"
  /\ call[g].pending = {}
  /\ call' = [call EXCEPT ![g].pc = "returned"]
  /\ UNCHANGED <<cache, redis, vectors, registered>>

-----------------------------------------------------------------------------
(* RegisterVectorHash and WarmupCache *)

\* The goroutine starts to copy the entries of m for the hashes of S.
StartFill(g, source, m, S) ==
  call' = [call EXCEPT ![g] = [Idle EXCEPT !.pc = "fill", !.src = source,
                                           !.found = Extend(NoEntries, m, S),
                                           !.pending = S]]

\* The loop of the worker registers only what passes the blank-hash guard.
RegisterVectorHash(w, h, id) ==
  /\ call[w].pc = "idle"
  /\ h # EmptyHash
  /\ id # None
  /\ registered' = registered \cup {<<h, id>>}
  /\ StartFill(w, "register", [NoEntries EXCEPT ![h] = id], {h})
  /\ UNCHANGED <<cache, redis, vectors>>

\* The rows of the newest vectors, or some of them (rows.Err() again).
FetchRecentVectorHashes(limit) ==
  {rows \in SUBSET (Keys(vectors) \ {EmptyHash}) : Cardinality(rows) <= limit}

WarmupCache(p) ==
  /\ call[p].pc = "boot"
  /\ WarmupLimit > 0
  /\ \E rows \in FetchRecentVectorHashes(WarmupLimit) :
       StartFill(p, "warmup", vectors, rows)
  /\ UNCHANGED <<cache, redis, vectors, registered>>

-----------------------------------------------------------------------------
(* The rest of the system, as far as the deduplicator sees it. *)

\* The caller takes the answer, or the error, and goes on.
Finish(w) ==
  /\ call[w].pc \in {"returned", "failed"}
  /\ call' = [call EXCEPT ![w] = Idle]
  /\ UNCHANGED <<cache, redis, vectors, registered>>

\* SaveBulk commits: ON CONFLICT (hash) DO UPDATE keeps the id of a row.
CommitVectors(new) ==
  vectors' = [h \in Hashes |-> IF vectors[h] = None THEN new[h] ELSE vectors[h]]

\* The keys have a time to live, and Redis runs with volatile-lru.
RedisDrops(h) ==
  /\ redis[h] # None
  /\ redis' = [redis EXCEPT ![h] = None]
  /\ UNCHANGED <<cache, vectors, call, registered>>

\* The process dies and is started again.
PodRestarts(p) ==
  /\ cache' = [cache EXCEPT ![p] = NewCache]
  /\ call' = [g \in Goroutines |->
                IF Pod(g) # p THEN call[g] ELSE IF g = p THEN Booting ELSE Idle]
  /\ UNCHANGED <<redis, vectors, registered>>

\* Steps of a goroutine that is inside a call.
CallStep(g) ==
  \/ CacheFound(g) \/ RowsCached(g) \/ WriteRedis(g) \/ RedisWritten(g)

LookupStep(w) ==
  \/ AllInL1(w) \/ LookupRedis(w) \/ LookupDB(w) \/ LookupDBFails(w)
  \/ RedisHitsCached(w)

DedupNext ==
  \/ \E w \in Workers : \/ \E batch \in SUBSET Hashes : LookupL1(w, batch)
                        \/ LookupStep(w)
                        \/ \E h \in Hashes, id \in VectorIDs : RegisterVectorHash(w, h, id)
                        \/ Finish(w)
  \/ \E g \in Goroutines : CallStep(g)
  \/ \E p \in Pods : WarmupCache(p) \/ PodRestarts(p)
  \/ \E h \in Hashes : RedisDrops(h)
  \/ \E new \in IdMap : /\ CommitVectors(new)
                        /\ UNCHANGED <<cache, redis, call, registered>>

DedupSpec == DedupInit /\ [][DedupNext]_dedupVars

-----------------------------------------------------------------------------
CallType ==
  [pc : {"boot", "idle", "scanned", "select", "fill", "writeback", "returned", "failed"},
   src : {"none", "redis", "db", "register", "warmup"},
   missing : SUBSET Hashes, found : IdMap, pending : SUBSET Hashes,
   known : SUBSET Hashes, cut : BOOLEAN]

\* Types of the variables; the fields of struct ChunkDeduplicator and its calls.
DedupTypeOK ==
  /\ cache \in [Pods -> CacheType]
  /\ redis \in IdMap
  /\ vectors \in IdMap
  /\ call \in [Goroutines -> CallType]
  /\ registered \subseteq Hashes \X VectorIDs

\* However the copies of many goroutines interleave, the map and the list of a
\* cache hold the same keys and never more than its capacity (addToCache).
CacheBookkeeping ==
  \A p \in Pods : OrderMatchesKeys(cache[p]) /\ WithinCapacity(cache[p])

\* An id that was stored for h, or that a worker registered for h.
Vouched(h, id) == id = vectors[h] \/ <<h, id>> \in registered

MapVouched(m) == \A h \in Keys(m) : Vouched(h, m[h])

\* No level and no lookup ever makes up a binding or moves an id to another
\* hash: copying between the three levels is sound under every interleaving.
BindingsVouched ==
  /\ \A p \in Pods : MapVouched(cache[p].ids)
  /\ MapVouched(redis)
  /\ \A g \in Goroutines : MapVouched(call[g].found)

\* A lookup that returns has found every hash of its batch that had a stored
\* vector when it began, unless the rows of its SELECT were cut short: entries
\* evicted, expired or copied meanwhile by others make it miss none.
NoMissedDuplicate ==
  \A w \in Workers :
    call[w].pc = "returned" /\ ~call[w].cut => call[w].known \subseteq Keys(call[w].found)

\* A cached binding never changes while it stays cached: an answer the cache has
\* given is given again until the entry is evicted or the process restarts.
CachedBindingKept ==
  [][\A p \in Pods : \A h \in Keys(cache[p].ids) :
        cache'[p].ids[h] \in {cache[p].ids[h], None}]_dedupVars

-----------------------------------------------------------------------------
Lookups == {"none", "redis", "db"}

Busy(c) == \/ c.pc \in {"scanned", "select"}
           \/ c.pc \in {"fill", "writeback"} /\ c.src \in {"redis", "db"}

Over(c) == c.pc \in {"returned", "failed"} /\ c.src \in Lookups

\* The lookup in a call, as its caller sees it; any other call is none.
RequestOf(c) ==
  LET lookup == Busy(c) \/ Over(c)
  IN [st    |-> IF Busy(c) THEN "busy" ELSE IF Over(c) THEN c.pc ELSE "idle",
      batch |-> IF lookup THEN c.missing \cup Keys(c.found) ELSE {},
      known |-> IF lookup THEN c.known ELSE {},
      cut   |-> lookup /\ c.cut,
      found |-> IF Over(c) /\ c.pc = "returned" THEN c.found ELSE NoEntries]

Requests == [w \in Workers |-> RequestOf(call[w])]

Service == INSTANCE DedupService WITH req <- Requests

\* The three levels together do what DedupService promises.
ImplementsService == Service!Spec
=============================================================================
