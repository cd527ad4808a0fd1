----------------------- MODULE ChunkDeduplicatorProofs -----------------------
(***************************************************************************)
(* Theorems about the chunk deduplicator, for any set of pods, workers,    *)
(* hashes and ids and any capacity: its safety properties, and that it     *)
(* implements DedupService.                                                *)
(***************************************************************************)
EXTENDS ChunkDeduplicator, FiniteSetTheorems, SequenceTheorems, TLAPS

-----------------------------------------------------------------------------
(* One cache: what an eviction and an added entry do to it. *)

\* A cache that is well formed: what every step of the deduplicator keeps.
WellFormed(c) == c \in CacheType /\ OrderMatchesKeys(c) /\ WithinCapacity(c)

\* The cache a pod starts with (NewChunkDeduplicator) is well formed.
LEMMA NewCacheWellFormed == WellFormed(NewCache)
  <1>1. Keys(NewCache.ids) = {}
    BY DEF Keys, NewCache, NoEntries
  <1>2. NewCache \in CacheType
    BY DEF NewCache, CacheType, NoEntries, IdMap
  <1>3. NewCache.order = << >> /\ Len(NewCache.order) = 0
    BY DEF NewCache
  <1>4. OrderMatchesKeys(NewCache)
    BY <1>1, <1>3, FS_EmptySet DEF OrderMatchesKeys
  <1>5. WithinCapacity(NewCache)
    BY <1>3, CapacityAssumption DEF WithinCapacity
  <1> QED BY <1>2, <1>4, <1>5 DEF WellFormed

\* A full cache has an oldest entry: cacheOrder[0] in addToCache is in range.
LEMMA FullCacheHasOldest ==
  ASSUME NEW c, WellFormed(c), Cardinality(Keys(c.ids)) >= Capacity
  PROVE  c.order # << >> /\ Len(c.order) >= 1
  BY CapacityAssumption DEF WellFormed, CacheType, OrderMatchesKeys

\* Eviction removes exactly the oldest key, from the map and from the list.
LEMMA EvictWellFormed ==
  ASSUME NEW c, WellFormed(c), c.order # << >>
  PROVE  /\ WellFormed(Evict(c))
         /\ Keys(Evict(c).ids) = Keys(c.ids) \ {Head(c.order)}
         /\ Len(Evict(c).order) = Len(c.order) - 1
  <1> DEFINE old == Head(c.order)
             e   == Evict(c)
  <1>1. /\ c.order \in Seq(Hashes) /\ c.ids \in IdMap
        /\ Len(c.order) \in Nat /\ Len(c.order) >= 1
    BY DEF WellFormed, CacheType
  <1>2. /\ old \in Hashes /\ Tail(c.order) \in Seq(Hashes)
        /\ Len(Tail(c.order)) = Len(c.order) - 1
        /\ \A i \in 1 .. Len(Tail(c.order)) : Tail(c.order)[i] = c.order[i + 1]
        /\ old = c.order[1]
    BY <1>1, HeadTailProperties
  <1>3. e.ids = [c.ids EXCEPT ![old] = None] /\ e.order = Tail(c.order)
    BY DEF Evict
  <1>4. e \in CacheType
    BY <1>1, <1>2 DEF Evict, CacheType, IdMap
  <1>5. Keys(e.ids) = Keys(c.ids) \ {old}
    BY <1>1, <1>2, <1>3 DEF Keys, IdMap
  <1>6. ASSUME NEW h \in Hashes
        PROVE  h \in Keys(e.ids) <=> \E i \in 1 .. Len(e.order) : e.order[i] = h
    <2>1. ASSUME h \in Keys(e.ids)
          PROVE  \E i \in 1 .. Len(e.order) : e.order[i] = h
      <3>1. PICK k \in 1 .. Len(c.order) : c.order[k] = h
        BY <2>1, <1>5 DEF WellFormed, OrderMatchesKeys
      <3>2. k # 1
        BY <3>1, <2>1, <1>5, <1>2
      <3>3. k - 1 \in 1 .. Len(e.order) /\ e.order[k - 1] = h
        BY <3>1, <3>2, <1>1, <1>2, <1>3
      <3> QED BY <3>3
    <2>2. ASSUME NEW i \in 1 .. Len(e.order), e.order[i] = h
          PROVE  h \in Keys(e.ids)
      <3>1. i + 1 \in 1 .. Len(c.order) /\ c.order[i + 1] = h
        BY <2>2, <1>1, <1>2, <1>3
      <3>2. h \in Keys(c.ids)
        BY <3>1 DEF WellFormed, OrderMatchesKeys
      <3>3. i + 1 # 1 /\ 1 \in 1 .. Len(c.order)
        BY <1>1
      <3>4. h # old
        BY <3>1, <3>3, <1>2 DEF WellFormed, OrderMatchesKeys
      <3> QED BY <3>2, <3>4, <1>5
    <2> QED BY <2>1, <2>2
  <1>7. ASSUME NEW i \in 1 .. Len(e.order), NEW j \in 1 .. Len(e.order),
               e.order[i] = e.order[j]
        PROVE  i = j
    <2>1. i + 1 \in 1 .. Len(c.order) /\ j + 1 \in 1 .. Len(c.order)
      BY <1>1, <1>2, <1>3
    <2>2. c.order[i + 1] = c.order[j + 1]
      BY <1>7, <1>2, <1>3
    <2>3. i + 1 = j + 1
      BY <2>1, <2>2 DEF WellFormed, OrderMatchesKeys
    <2> QED BY <2>3
  <1>8. old \in Keys(c.ids)
    BY <1>1, <1>2 DEF WellFormed, OrderMatchesKeys
  <1>9. IsFiniteSet(Keys(e.ids)) /\ Cardinality(Keys(e.ids)) = Len(e.order)
    BY <1>1, <1>2, <1>3, <1>5, <1>8, FS_RemoveElement DEF WellFormed, OrderMatchesKeys
  <1>10. WithinCapacity(e)
    BY <1>1, <1>2, <1>3, CapacityAssumption DEF WellFormed, WithinCapacity
  <1> QED BY <1>2, <1>3, <1>4, <1>5, <1>6, <1>7, <1>9, <1>10 DEF WellFormed, OrderMatchesKeys

\* An entry added to a cache that has room and does not hold its key.
LEMMA InsertWellFormed ==
  ASSUME NEW c, WellFormed(c), Len(c.order) < Capacity,
         NEW h \in Hashes \ Keys(c.ids), NEW id \in VectorIDs
  PROVE  WellFormed([ids   |-> [c.ids EXCEPT ![h] = id],
                     order |-> Append(c.order, h)])
  <1> DEFINE e == [ids   |-> [c.ids EXCEPT ![h] = id], order |-> Append(c.order, h)]
             n == Len(c.order)
  <1>1. c.order \in Seq(Hashes) /\ c.ids \in IdMap /\ n \in Nat /\ h \in Hashes
    BY DEF WellFormed, CacheType
  <1>2. /\ e.order \in Seq(Hashes) /\ Len(e.order) = n + 1
        /\ \A i \in 1 .. n : e.order[i] = c.order[i]
        /\ e.order[n + 1] = h
    BY <1>1, AppendProperties
  <1>3. e \in CacheType
    BY <1>1, <1>2 DEF CacheType, IdMap
  <1>4. Keys(e.ids) = Keys(c.ids) \cup {h}
    BY <1>1, NoneAssumption DEF Keys, IdMap
  <1>5. ASSUME NEW k \in Hashes
        PROVE  k \in Keys(e.ids) <=> \E i \in 1 .. Len(e.order) : e.order[i] = k
    <2>1. CASE k = h
      BY <2>1, <1>1, <1>2, <1>4
    <2>2. CASE k # h
      <3>1. k \in Keys(e.ids) <=> k \in Keys(c.ids)
        BY <2>2, <1>4
      <3>2. k \in Keys(c.ids) <=> \E i \in 1 .. n : c.order[i] = k
        BY DEF WellFormed, OrderMatchesKeys
      <3>3. (\E i \in 1 .. n : c.order[i] = k) <=> \E i \in 1 .. Len(e.order) : e.order[i] = k
        BY <2>2, <1>1, <1>2
      <3> QED BY <3>1, <3>2, <3>3
    <2> QED BY <2>1, <2>2
  <1>6. \A i \in 1 .. n : c.order[i] # h
    BY DEF WellFormed, OrderMatchesKeys
  <1>7. ASSUME NEW i \in 1 .. Len(e.order), NEW j \in 1 .. Len(e.order),
               e.order[i] = e.order[j]
        PROVE  i = j
    <2>1. CASE i \in 1 .. n /\ j \in 1 .. n
      BY <2>1, <1>7, <1>2 DEF WellFormed, OrderMatchesKeys
    <2>2. CASE i = n + 1 \/ j = n + 1
      BY <2>2, <1>7, <1>1, <1>2, <1>6
    <2> QED BY <2>1, <2>2, <1>1, <1>2
  <1>8. IsFiniteSet(Keys(e.ids)) /\ Cardinality(Keys(e.ids)) = Len(e.order)
    BY <1>1, <1>2, <1>4, FS_AddElement DEF WellFormed, OrderMatchesKeys
  <1>9. WithinCapacity(e)
    BY <1>1, <1>2, CapacityAssumption DEF WithinCapacity
  <1> QED BY <1>3, <1>5, <1>7, <1>8, <1>9 DEF WellFormed, OrderMatchesKeys

\* addToCache keeps a cache well formed, whatever it is given: this is what
\* makes the bookkeeping of the cache safe under every order of calls.
THEOREM AddToCacheWellFormed ==
  ASSUME NEW c, WellFormed(c), NEW h \in Hashes, NEW id \in VectorIDs \cup {None}
  PROVE  WellFormed(AddToCache(c, h, id))
  <1>1. CASE h = EmptyHash \/ id = None \/ h \in Keys(c.ids)
    BY <1>1 DEF AddToCache
  <1>2. CASE ~(h = EmptyHash \/ id = None \/ h \in Keys(c.ids))
    <2> DEFINE kept == IF Cardinality(Keys(c.ids)) >= Capacity THEN Evict(c) ELSE c
    <2>1. WellFormed(kept) /\ Len(kept.order) < Capacity /\ h \notin Keys(kept.ids)
      <3>1. CASE Cardinality(Keys(c.ids)) >= Capacity
        <4>1. c.order # << >>
          BY <3>1, FullCacheHasOldest
        <4>2. /\ WellFormed(Evict(c))
              /\ Keys(Evict(c).ids) = Keys(c.ids) \ {Head(c.order)}
              /\ Len(Evict(c).order) = Len(c.order) - 1
          BY <4>1, EvictWellFormed
        <4>3. Len(c.order) \in Nat /\ Len(c.order) <= Capacity
          BY DEF WellFormed, WithinCapacity, CacheType
        <4>4. kept = Evict(c)
          BY <3>1
        <4>5. Len(kept.order) < Capacity
          BY <4>2, <4>3, <4>4, CapacityAssumption
        <4> QED BY <4>2, <4>4, <4>5, <1>2
      <3>2. CASE ~(Cardinality(Keys(c.ids)) >= Capacity)
        BY <3>2, <1>2, CapacityAssumption DEF WellFormed, OrderMatchesKeys, CacheType
      <3> QED BY <3>1, <3>2
    <2>2. WellFormed([ids |-> [kept.ids EXCEPT ![h] = id], order |-> Append(kept.order, h)])
      BY <2>1, <1>2, InsertWellFormed
    <2> QED BY <2>2, <1>2 DEF AddToCache
  <1> QED BY <1>1, <1>2

\* What a cache holds after addToCache: what it held, less perhaps the oldest
\* entry, and the new one.  No binding it keeps is changed.
LEMMA AddToCacheEntries ==
  ASSUME NEW c, WellFormed(c), NEW h \in Hashes, NEW id \in VectorIDs \cup {None},
         NEW k \in Hashes
  PROVE  LET a == AddToCache(c, h, id)
         IN \/ a.ids[k] = c.ids[k]
            \/ a.ids[k] = None
            \/ k = h /\ a.ids[k] = id /\ c.ids[k] = None
  <1>1. c.ids \in IdMap
    BY DEF WellFormed, CacheType
  <1> QED BY <1>1 DEF AddToCache, Evict, IdMap, Keys

-----------------------------------------------------------------------------
(* The deduplicator. *)

LookupState == {"scanned", "select"}

\* Still to be asked of a lower level, or found: nothing known is lost on the
\* way down.
KnownAccounted(c) ==
  c.known \subseteq Keys(c.found) \cup c.missing

\* Where a call stands says which levels it has been through, and so what of
\* the hashes stored when it began it may still be without.
CallShape(c, stored) ==
  /\ c.pc = "scanned" => c.src = "none"
  /\ c.pc = "select" => c.src = "redis"
  /\ c.pc \in {"fill", "writeback"} => c.src # "none"
  /\ c.pc \in LookupState \/ (c.pc = "fill" /\ c.src = "redis")
       => ~c.cut /\ KnownAccounted(c)
  /\ (c.pc \in {"fill", "writeback"} /\ c.src # "redis") \/ c.pc = "returned"
       => c.cut \/ c.known \subseteq Keys(c.found)
  /\ c.known \subseteq stored
  /\ c.pc = "writeback" => c.src # "redis"
  /\ c.src = "register" => c.pc \in {"fill", "writeback", "returned"}

LookupShape == \A g \in Goroutines : CallShape(call[g], Keys(vectors))

CacheInv == DedupTypeOK /\ CacheBookkeeping

-----------------------------------------------------------------------------
LEMMA PodType == \A g \in Goroutines : Pod(g) \in Pods
  BY PodAssumption DEF Goroutines, Pod

LEMMA IdleType == Idle \in CallType /\ Booting \in CallType
  BY DEF Idle, Booting, CallType, IdMap, NoEntries

LEMMA ExtendType ==
  ASSUME NEW f \in IdMap, NEW m \in IdMap, NEW S \in SUBSET Hashes
  PROVE  /\ Extend(f, m, S) \in IdMap
         /\ Keys(Extend(f, m, S)) = (Keys(f) \ S) \cup (S \cap Keys(m))
  BY DEF Extend, IdMap, Keys

LEMMA PodCacheWellFormed ==
  ASSUME CacheInv, NEW p \in Pods
  PROVE  WellFormed(cache[p])
  BY DEF CacheInv, DedupTypeOK, CacheBookkeeping, WellFormed

\* Types and bookkeeping go together: an eviction is well typed only because
\* the list of a full cache is not empty.
LEMMA CacheInvInit == DedupInit => CacheInv
  <1> SUFFICES ASSUME DedupInit PROVE CacheInv
    OBVIOUS
  <1>1. \A p \in Pods : WellFormed(cache[p])
    BY NewCacheWellFormed DEF DedupInit
  <1>2. DedupTypeOK
    BY <1>1, IdleType DEF DedupInit, DedupTypeOK, WellFormed, IdMap, NoEntries
  <1> QED BY <1>1, <1>2 DEF CacheInv, CacheBookkeeping, WellFormed

LEMMA CacheInvStep == CacheInv /\ [DedupNext]_dedupVars => CacheInv'
  <1> SUFFICES ASSUME CacheInv, [DedupNext]_dedupVars PROVE CacheInv'
    OBVIOUS
  <1> USE DEF CacheInv
  <1>t. /\ cache \in [Pods -> CacheType] /\ redis \in IdMap /\ vectors \in IdMap
        /\ call \in [Goroutines -> CallType]
        /\ registered \subseteq Hashes \X VectorIDs
    BY DEF DedupTypeOK
  <1>g. /\ \A w \in Workers : w \in Goroutines
        /\ \A p \in Pods : p \in Goroutines
        /\ \A w \in Workers : PodOf[w] \in Pods
    BY PodAssumption DEF Goroutines
  <1>e. NoEntries \in IdMap
    BY DEF NoEntries, IdMap
  <1>1. ASSUME NEW w \in Workers, NEW batch \in SUBSET Hashes, LookupL1(w, batch)
        PROVE  CacheInv'
    <2>1. cache[PodOf[w]].ids \in IdMap
      BY <1>t, <1>g DEF CacheType
    <2>2. batch \cap Keys(cache[PodOf[w]].ids) \in SUBSET Hashes
      OBVIOUS
    <2>3. Extend(NoEntries, cache[PodOf[w]].ids,
    batch \cap Keys(cache[PodOf[w]].ids)) \in IdMap
      BY <2>1, <2>2, <1>e, ExtendType
    <2>4. call' \in [Goroutines -> CallType]
      BY <1>1, <1>t, <1>g, <2>3, IdleType DEF LookupL1, CallType, Idle
    <2> QED BY <1>1, <1>t, <2>4 DEF LookupL1, DedupTypeOK, CacheBookkeeping
  <1>2. ASSUME NEW w \in Workers, LookupStep(w) PROVE CacheInv'
    <2>1. call' \in [Goroutines -> CallType]
      <3>1. CASE LookupRedis(w)
        <4>1. PICK hits \in {call[w].missing \cap Keys(redis), {}} :
                call' = [call EXCEPT ![w] =
                   [call[w] EXCEPT !.pc = "fill", !.src = "redis",
                                   !.found = Extend(call[w].found, redis, hits),
                                   !.missing = call[w].missing \ hits, !.pending = hits]]
          BY <3>1 DEF LookupRedis, GetChunkVectorIDsBatch
        <4>2. /\ call[w] \in CallType /\ hits \in SUBSET Hashes
              /\ call[w].found \in IdMap
          BY <1>t, <1>g DEF CallType, Keys
        <4>3. Extend(call[w].found, redis, hits) \in IdMap
          BY <4>2, <1>t, ExtendType
        <4> QED BY <4>1, <4>2, <4>3, <1>t DEF CallType
      <3>2. CASE LookupDB(w)
        <4>1. PICK hits \in SUBSET (call[w].missing \cap Keys(vectors)) :
                call' = [call EXCEPT ![w] =
                   [call[w] EXCEPT !.pc = "fill", !.src = "db",
                                   !.found = Extend(call[w].found, vectors, hits),
                                   !.pending = hits,
                                   !.cut = (hits # call[w].missing \cap Keys(vectors))]]
          BY <3>2 DEF LookupDB, FindVectorIDsByHashesBatch
        <4>2. /\ call[w] \in CallType /\ hits \in SUBSET Hashes
              /\ call[w].found \in IdMap
          BY <1>t, <1>g DEF CallType, Keys
        <4>3. Extend(call[w].found, vectors, hits) \in IdMap
          BY <4>2, <1>t, ExtendType
        <4> QED BY <4>1, <4>2, <4>3, <1>t DEF CallType
      <3>3. CASE AllInL1(w) \/ LookupDBFails(w) \/ RedisHitsCached(w)
        BY <3>3, <1>t, <1>g DEF AllInL1, LookupDBFails, RedisHitsCached, CallType
      <3> QED BY <1>2, <3>1, <3>2, <3>3 DEF LookupStep
    <2>2. UNCHANGED <<cache, redis, vectors, registered>>
      BY <1>2 DEF LookupStep, AllInL1, LookupRedis, GetChunkVectorIDsBatch, LookupDB,
         FindVectorIDsByHashesBatch, LookupDBFails, RedisHitsCached
    <2> QED BY <1>t, <2>1, <2>2 DEF DedupTypeOK, CacheBookkeeping
  <1>3. ASSUME NEW w \in Workers, NEW h \in Hashes, NEW id \in VectorIDs,
               RegisterVectorHash(w, h, id)
        PROVE  CacheInv'
    <2>1. [NoEntries EXCEPT ![h] = id] \in IdMap /\ {h} \in SUBSET Hashes
      BY DEF NoEntries, IdMap
    <2>2. Extend(NoEntries, [NoEntries EXCEPT ![h] = id], {h}) \in IdMap
      BY <2>1, <1>e, ExtendType
    <2>3. call' \in [Goroutines -> CallType]
      BY <1>3, <1>t, <1>g, <2>2, IdleType DEF RegisterVectorHash, StartFill, CallType, Idle
    <2> QED BY <1>3, <1>t, <2>3 DEF RegisterVectorHash, DedupTypeOK, CacheBookkeeping
  <1>4. ASSUME NEW w \in Workers, Finish(w) PROVE CacheInv'
    BY <1>4, <1>t, <1>g, IdleType DEF Finish, DedupTypeOK, CacheBookkeeping
  <1>5. ASSUME NEW g \in Goroutines, CacheFound(g) PROVE CacheInv'
    <2>1. PICK h \in call[g].pending :
            /\ cache' = [cache EXCEPT ![Pod(g)] = AddToCache(@, h, call[g].found[h])]
            /\ call' = [call EXCEPT ![g].pending = @ \ {h}]
      BY <1>5 DEF CacheFound
    <2>2. call[g] \in CallType /\ h \in Hashes /\ call[g].found[h] \in VectorIDs \cup {None}
      BY <1>t DEF CallType, IdMap
    <2>3. \A p \in Pods : WellFormed(cache'[p])
      BY <2>1, <2>2, <1>t, PodType, PodCacheWellFormed, AddToCacheWellFormed
    <2>4. call' \in [Goroutines -> CallType]
      BY <2>1, <2>2, <1>t DEF CallType
    <2>5. cache' \in [Pods -> CacheType]
      BY <2>1, <2>3, <1>t DEF WellFormed
    <2>6. DedupTypeOK'
      BY <1>5, <1>t, <2>4, <2>5 DEF CacheFound, DedupTypeOK
    <2> QED BY <2>3, <2>6 DEF CacheBookkeeping, WellFormed
  <1>6. ASSUME NEW g \in Goroutines, RowsCached(g) PROVE CacheInv'
    <2>1. ToRedis(call[g]) \in SUBSET Hashes
      BY DEF ToRedis, Keys
    <2>2. call' \in [Goroutines -> CallType]
      BY <1>6, <1>t, <2>1 DEF RowsCached, CallType
    <2> QED BY <1>6, <1>t, <2>2 DEF RowsCached, DedupTypeOK, CacheBookkeeping
  <1>7. ASSUME NEW g \in Goroutines, WriteRedis(g) PROVE CacheInv'
    <2>1. PICK h \in call[g].pending :
            /\ call' = [call EXCEPT ![g].pending = @ \ {h}]
            /\ \/ redis' = [redis EXCEPT ![h] = call[g].found[h]]
               \/ UNCHANGED redis
      BY <1>7 DEF WriteRedis
    <2>2. call[g] \in CallType /\ h \in Hashes /\ call[g].found[h] \in VectorIDs \cup {None}
      BY <1>t DEF CallType, IdMap
    <2>3. call' \in [Goroutines -> CallType] /\ redis' \in IdMap
      BY <2>1, <2>2, <1>t DEF CallType, IdMap
    <2> QED BY <1>7, <1>t, <2>3 DEF WriteRedis, DedupTypeOK, CacheBookkeeping
  <1>8. ASSUME NEW g \in Goroutines, RedisWritten(g) PROVE CacheInv'
    BY <1>8, <1>t DEF RedisWritten, CallType, DedupTypeOK, CacheBookkeeping
  <1>9. ASSUME NEW p \in Pods, WarmupCache(p) PROVE CacheInv'
    <2>1. PICK rows \in SUBSET (Keys(vectors) \ {EmptyHash}) :
            StartFill(p, "warmup", vectors, rows)
      BY <1>9 DEF WarmupCache, FetchRecentVectorHashes
    <2>2. rows \in SUBSET Hashes
      BY DEF Keys
    <2>3. Extend(NoEntries, vectors, rows) \in IdMap
      BY <2>2, <1>t, <1>e, ExtendType
    <2>4. call' \in [Goroutines -> CallType]
      BY <2>1, <2>2, <2>3, <1>t, <1>g, IdleType DEF StartFill, CallType, Idle
    <2> QED BY <1>9, <1>t, <2>4 DEF WarmupCache, FetchRecentVectorHashes, DedupTypeOK,
       CacheBookkeeping
  <1>10. ASSUME NEW p \in Pods, PodRestarts(p) PROVE CacheInv'
    <2>1. \A q \in Pods : WellFormed(cache'[q])
      BY <1>10, <1>t, NewCacheWellFormed, PodCacheWellFormed DEF PodRestarts
    <2>2. cache' \in [Pods -> CacheType] /\ call' \in [Goroutines -> CallType]
      BY <1>10, <1>t, <2>1, IdleType DEF PodRestarts, WellFormed
    <2> QED BY <1>10, <1>t, <2>1, <2>2 DEF PodRestarts, DedupTypeOK, CacheBookkeeping,
       WellFormed
  <1>11. ASSUME NEW h \in Hashes, RedisDrops(h) PROVE CacheInv'
    BY <1>11, <1>t DEF RedisDrops, DedupTypeOK, CacheBookkeeping, IdMap
  <1>12. ASSUME NEW new \in IdMap, CommitVectors(new),
                UNCHANGED <<cache, redis, call, registered>>
         PROVE  CacheInv'
    BY <1>12, <1>t DEF CommitVectors, DedupTypeOK, CacheBookkeeping, IdMap
  <1>13. CASE UNCHANGED dedupVars
    BY <1>13, <1>t DEF dedupVars, DedupTypeOK, CacheBookkeeping
  <1> QED BY <1>1, <1>2, <1>3, <1>4, <1>5, <1>6, <1>7, <1>8, <1>9, <1>10, <1>11, <1>12,
     <1>13
         DEF DedupNext, CallStep

\* The state of the deduplicator keeps its types (struct ChunkDeduplicator).
THEOREM DedupTypeCorrect == DedupSpec => []DedupTypeOK
  BY CacheInvInit, CacheInvStep, PTL DEF DedupSpec, CacheInv

\* The map and the list of every pod's cache agree and stay within capacity,
\* however the goroutines of the pod interleave (addToCache).
THEOREM DedupBookkeeping == DedupSpec => []CacheBookkeeping
  BY CacheInvInit, CacheInvStep, PTL DEF DedupSpec, CacheInv

-----------------------------------------------------------------------------
(* Bindings are vouched for. *)

\* What vouches for a binding in the next state.
VouchedNext(h, id) == id = vectors'[h] \/ <<h, id>> \in registered'

MapVouchedNext(m) == \A h \in Keys(m) : VouchedNext(h, m[h])

\* Rows are never removed, ids never replaced, registrations never forgotten.
LEMMA MapVouchedStable ==
  ASSUME CacheInv, [DedupNext]_dedupVars
  PROVE  \A m \in IdMap : MapVouched(m) => MapVouchedNext(m)
  <1>1. vectors \in IdMap
    BY DEF CacheInv, DedupTypeOK
  <1>2. \A h \in Hashes : vectors[h] # None => vectors'[h] = vectors[h]
    BY <1>1 DEF DedupNext, dedupVars, IdMap, LookupL1, LookupStep, AllInL1, LookupRedis,
       GetChunkVectorIDsBatch,
       LookupDB, FindVectorIDsByHashesBatch, LookupDBFails, RedisHitsCached,
       RegisterVectorHash, Finish, CallStep,
       CacheFound, RowsCached, WriteRedis, RedisWritten, WarmupCache,
       FetchRecentVectorHashes, PodRestarts,
       RedisDrops, CommitVectors
  <1>3. registered \subseteq registered'
    BY DEF DedupNext, dedupVars, LookupL1, LookupStep, AllInL1, LookupRedis,
       GetChunkVectorIDsBatch,
       LookupDB, FindVectorIDsByHashesBatch, LookupDBFails, RedisHitsCached,
       RegisterVectorHash, Finish, CallStep,
       CacheFound, RowsCached, WriteRedis, RedisWritten, WarmupCache,
       FetchRecentVectorHashes, PodRestarts,
       RedisDrops
  <1> QED BY <1>2, <1>3 DEF MapVouched, MapVouchedNext, Vouched, VouchedNext, Keys

LEMMA ExtendVouched ==
  ASSUME NEW f \in IdMap, NEW m \in IdMap, NEW S \in SUBSET Hashes,
         MapVouched(f), MapVouched(m)
  PROVE  MapVouched(Extend(f, m, S))
  BY DEF MapVouched, Extend, Keys, IdMap

LEMMA NoEntriesVouched == NoEntries \in IdMap /\ MapVouched(NoEntries) /\ Keys(NoEntries) = {}
  BY DEF NoEntries, MapVouched, Keys, IdMap

LEMMA VectorsVouched == MapVouched(vectors)
  BY DEF MapVouched, Vouched

LEMMA VouchedInit == DedupInit => BindingsVouched
  BY NoEntriesVouched DEF DedupInit, BindingsVouched, NewCache, Idle, Booting

LEMMA VouchedStep ==
  CacheInv /\ BindingsVouched /\ [DedupNext]_dedupVars => BindingsVouched'
  <1> SUFFICES ASSUME CacheInv, BindingsVouched, [DedupNext]_dedupVars
               PROVE  BindingsVouched'
    OBVIOUS
  <1>t. /\ cache \in [Pods -> CacheType] /\ redis \in IdMap /\ vectors \in IdMap
        /\ call \in [Goroutines -> CallType]
        /\ \A p \in Pods : cache[p].ids \in IdMap
        /\ \A g \in Goroutines : call[g].found \in IdMap /\ call[g].pending \in SUBSET Hashes
                               /\ call[g].missing \in SUBSET Hashes
    BY DEF CacheInv, DedupTypeOK, CacheType, CallType
  <1>g. /\ \A w \in Workers : w \in Goroutines
        /\ \A p \in Pods : p \in Goroutines
        /\ \A w \in Workers : PodOf[w] \in Pods
    BY PodAssumption DEF Goroutines
  <1>v. \A m \in IdMap : MapVouched(m) => MapVouchedNext(m)
    BY MapVouchedStable
  <1>old. /\ \A p \in Pods : MapVouchedNext(cache[p].ids)
          /\ MapVouchedNext(redis)
          /\ \A g \in Goroutines : MapVouchedNext(call[g].found)
          /\ MapVouchedNext(vectors)
          /\ MapVouchedNext(NoEntries)
    BY <1>v, <1>t, NoEntriesVouched, VectorsVouched DEF BindingsVouched
  <1>1. \A p \in Pods : MapVouchedNext(cache'[p].ids)
    <2>1. CASE UNCHANGED cache
      BY <2>1, <1>old
    <2>2. ASSUME NEW p \in Pods,
    PodRestarts(p) PROVE \A q \in Pods : MapVouchedNext(cache'[q].ids)
      BY <2>2, <1>t, <1>old DEF PodRestarts, NewCache
    <2>3. ASSUME NEW g \in Goroutines, CacheFound(g)
          PROVE  \A q \in Pods : MapVouchedNext(cache'[q].ids)
      <3>1. PICK h \in call[g].pending :
              cache' = [cache EXCEPT ![Pod(g)] = AddToCache(@, h, call[g].found[h])]
        BY <2>3 DEF CacheFound
      <3>2. h \in Hashes /\ call[g].found[h] \in VectorIDs \cup {None} /\ Pod(g) \in Pods
        BY <1>t, PodType DEF IdMap
      <3> DEFINE a == AddToCache(cache[Pod(g)], h, call[g].found[h])
      <3>3. \A q \in Pods : cache'[q] = IF q = Pod(g) THEN a ELSE cache[q]
        BY <3>1, <3>2, <1>t
      <3>4. ASSUME NEW k \in Hashes, a.ids[k] # None
            PROVE  VouchedNext(k, a.ids[k])
        <4>1. \/ a.ids[k] = cache[Pod(g)].ids[k]
              \/ k = h /\ a.ids[k] = call[g].found[h]
          BY <3>4, <3>2, PodCacheWellFormed, AddToCacheEntries
        <4> QED BY <4>1, <3>2, <3>4, <1>old DEF MapVouchedNext, Keys
      <3>5. MapVouchedNext(a.ids)
        BY <3>4 DEF MapVouchedNext, Keys
      <3> QED BY <3>3, <3>5, <1>old
    <2> QED BY <2>1, <2>2, <2>3 DEF DedupNext, dedupVars, LookupL1, LookupStep, AllInL1,
            LookupRedis, GetChunkVectorIDsBatch, LookupDB, FindVectorIDsByHashesBatch,
            LookupDBFails, RedisHitsCached, RegisterVectorHash, Finish,
            CallStep, RowsCached, WriteRedis, RedisWritten, WarmupCache,
            FetchRecentVectorHashes, RedisDrops
  <1>2. MapVouchedNext(redis')
    <2>1. CASE UNCHANGED redis
      BY <2>1, <1>old
    <2>2. ASSUME NEW g \in Goroutines, WriteRedis(g) PROVE MapVouchedNext(redis')
      <3>1. PICK h \in call[g].pending : \/ redis' = [redis EXCEPT ![h] = call[g].found[h]]
                                        \/ UNCHANGED redis
        BY <2>2 DEF WriteRedis
      <3> QED BY <3>1, <1>old, <1>t DEF MapVouchedNext, Keys, IdMap
    <2>3. ASSUME NEW h \in Hashes, RedisDrops(h) PROVE MapVouchedNext(redis')
      BY <2>3, <1>old, <1>t DEF RedisDrops, MapVouchedNext, Keys, IdMap
    <2> QED BY <2>1, <2>2, <2>3 DEF DedupNext, dedupVars, LookupL1, LookupStep, AllInL1,
            LookupRedis, GetChunkVectorIDsBatch, LookupDB, FindVectorIDsByHashesBatch,
            LookupDBFails, RedisHitsCached, RegisterVectorHash, Finish,
            CallStep, CacheFound, RowsCached, RedisWritten, WarmupCache,
            FetchRecentVectorHashes, PodRestarts
  <1>3. \A g \in Goroutines : MapVouchedNext(call'[g].found)
    <2>x. ASSUME NEW f \in IdMap, NEW m \in IdMap, NEW S \in SUBSET Hashes,
                 MapVouchedNext(f), MapVouchedNext(m)
          PROVE  MapVouchedNext(Extend(f, m, S))
      BY <2>x DEF MapVouchedNext, Extend, Keys, IdMap
    <2>1. ASSUME NEW w \in Workers, NEW batch \in SUBSET Hashes, LookupL1(w, batch)
          PROVE  \A g \in Goroutines : MapVouchedNext(call'[g].found)
      <3> DEFINE ids == cache[PodOf[w]].ids
      <3>1. MapVouchedNext(Extend(NoEntries, ids, batch \cap Keys(ids)))
        BY <1>t, <1>g, <1>old, <2>x, NoEntriesVouched
      <3>2. call'[w].found = Extend(NoEntries, ids, batch \cap Keys(ids))
        BY <2>1, <1>t, <1>g DEF LookupL1, Idle
      <3>3. \A g \in Goroutines \ {w} : call'[g] = call[g]
        BY <2>1, <1>t DEF LookupL1
      <3> QED BY <3>1, <3>2, <3>3, <1>old
    <2>2. ASSUME NEW w \in Workers, LookupRedis(w)
          PROVE  \A g \in Goroutines : MapVouchedNext(call'[g].found)
      <3>1. PICK hits \in {call[w].missing \cap Keys(redis), {}} :
              call'[w].found = Extend(call[w].found, redis, hits)
        BY <2>2, <1>t, <1>g DEF LookupRedis, GetChunkVectorIDsBatch, CallType
      <3>2. hits \in SUBSET Hashes
        BY <1>t, <1>g
      <3>3. \A g \in Goroutines \ {w} : call'[g] = call[g]
        BY <2>2, <1>t DEF LookupRedis, GetChunkVectorIDsBatch
      <3> QED BY <3>1, <3>2, <3>3, <1>t, <1>g, <1>old, <2>x
    <2>3. ASSUME NEW w \in Workers, LookupDB(w)
          PROVE  \A g \in Goroutines : MapVouchedNext(call'[g].found)
      <3>1. PICK hits \in SUBSET (call[w].missing \cap Keys(vectors)) :
              call'[w].found = Extend(call[w].found, vectors, hits)
        <4>1. PICK hits \in SUBSET (call[w].missing \cap Keys(vectors)), cut \in BOOLEAN :
                call' = [call EXCEPT ![w] =
                   [call[w] EXCEPT !.pc = "fill", !.src = "db",
                                   !.found = Extend(call[w].found, vectors, hits),
                                   !.pending = hits, !.cut = cut]]
          BY <2>3 DEF LookupDB, FindVectorIDsByHashesBatch
        <4>2. call'[w].found = Extend(call[w].found, vectors, hits)
          BY <4>1, <1>t, <1>g DEF CallType
        <4> QED BY <4>2
      <3>2. hits \in SUBSET Hashes
        BY <1>t, <1>g
      <3>3. \A g \in Goroutines \ {w} : call'[g] = call[g]
        BY <2>3, <1>t DEF LookupDB, FindVectorIDsByHashesBatch
      <3> QED BY <3>1, <3>2, <3>3, <1>t, <1>g, <1>old, <2>x
    <2>4. ASSUME NEW w \in Workers, NEW h \in Hashes, NEW id \in VectorIDs,
                 RegisterVectorHash(w, h, id)
          PROVE  \A g \in Goroutines : MapVouchedNext(call'[g].found)
      <3> DEFINE m == [NoEntries EXCEPT ![h] = id]
      <3>1. call'[w].found = Extend(NoEntries, m, {h})
        BY <2>4, <1>t, <1>g DEF RegisterVectorHash, StartFill, Idle
      <3>2. m \in IdMap /\ MapVouchedNext(m)
        BY <2>4, NoneAssumption
           DEF RegisterVectorHash, NoEntries, IdMap, MapVouchedNext, VouchedNext, Keys
      <3>3. \A g \in Goroutines \ {w} : call'[g] = call[g]
        BY <2>4, <1>t DEF RegisterVectorHash, StartFill
      <3>4. MapVouchedNext(Extend(NoEntries, m, {h}))
        BY <3>2, <1>old, <2>x, NoEntriesVouched
      <3> QED BY <3>1, <3>3, <3>4, <1>old
    <2>5. ASSUME NEW p \in Pods, WarmupCache(p)
          PROVE  \A g \in Goroutines : MapVouchedNext(call'[g].found)
      <3>1. PICK rows \in SUBSET (Keys(vectors) \ {EmptyHash}) :
              StartFill(p, "warmup", vectors, rows)
        BY <2>5 DEF WarmupCache, FetchRecentVectorHashes
      <3>2. rows \in SUBSET Hashes
        BY DEF Keys
      <3>3. call'[p].found = Extend(NoEntries, vectors, rows)
        BY <3>1, <1>t, <1>g DEF StartFill, Idle
      <3>4. \A g \in Goroutines \ {p} : call'[g] = call[g]
        BY <3>1, <1>t DEF StartFill
      <3> QED BY <3>2, <3>3, <3>4, <1>t, <1>old, <2>x, NoEntriesVouched
    <2>6. ASSUME NEW w \in Workers, Finish(w)
          PROVE  \A g \in Goroutines : MapVouchedNext(call'[g].found)
      BY <2>6, <1>t, <1>g, <1>old DEF Finish, Idle
    <2>7. ASSUME NEW p \in Pods, PodRestarts(p)
          PROVE  \A g \in Goroutines : MapVouchedNext(call'[g].found)
      BY <2>7, <1>t, <1>old DEF PodRestarts, Idle, Booting
    <2>8. CASE \A g \in Goroutines : call'[g].found = call[g].found
      BY <2>8, <1>old
    <2>9. ASSUME NEW w \in Workers, AllInL1(w) \/ LookupDBFails(w) \/ RedisHitsCached(w)
          PROVE  \A g \in Goroutines : call'[g].found = call[g].found
      BY <2>9, <1>t, <1>g DEF AllInL1, LookupDBFails, RedisHitsCached, CallType
    <2>10. ASSUME NEW g \in Goroutines, CallStep(g)
           PROVE  \A k \in Goroutines : call'[k].found = call[k].found
      <3>1. CASE CacheFound(g)
        BY <3>1, <1>t DEF CacheFound, CallType
      <3>2. CASE RowsCached(g)
        BY <3>2, <1>t DEF RowsCached, CallType
      <3>3. CASE WriteRedis(g)
        BY <3>3, <1>t DEF WriteRedis, CallType
      <3>4. CASE RedisWritten(g)
        BY <3>4, <1>t DEF RedisWritten, CallType
      <3> QED BY <2>10, <3>1, <3>2, <3>3, <3>4 DEF CallStep
    <2> QED BY <2>1, <2>2, <2>3, <2>4, <2>5, <2>6, <2>7, <2>8, <2>9, <2>10
            DEF DedupNext, dedupVars, LookupStep, RedisDrops
  <1> QED BY <1>1, <1>2, <1>3 DEF BindingsVouched, MapVouched, MapVouchedNext, Vouched,
          VouchedNext, Keys

\* Copying between the three levels is sound: every id a cache, Redis or a lookup
\* holds for a hash was stored or registered for that hash.
THEOREM DedupVouched == DedupSpec => []BindingsVouched
  BY CacheInvInit, CacheInvStep, VouchedInit, VouchedStep, PTL DEF DedupSpec

-----------------------------------------------------------------------------
(* Lookups are complete. *)

LEMMA ShapeInit == DedupInit => LookupShape
  BY DEF DedupInit, LookupShape, CallShape, Idle, Booting, KnownAccounted, LookupState

LEMMA StoredGrows ==
  ASSUME CacheInv, [DedupNext]_dedupVars
  PROVE  Keys(vectors) \subseteq Keys(vectors')
  <1>1. vectors \in IdMap
    BY DEF CacheInv, DedupTypeOK
  <1> QED BY <1>1 DEF DedupNext, dedupVars, Keys, IdMap, LookupL1, LookupStep, AllInL1,
      LookupRedis, GetChunkVectorIDsBatch, LookupDB, FindVectorIDsByHashesBatch,
      LookupDBFails, RedisHitsCached, RegisterVectorHash, Finish,
      CallStep, CacheFound, RowsCached, WriteRedis, RedisWritten, WarmupCache,
      FetchRecentVectorHashes, PodRestarts,
      RedisDrops, CommitVectors

LEMMA ShapeStep ==
  CacheInv /\ LookupShape /\ [DedupNext]_dedupVars => LookupShape'
  <1> SUFFICES ASSUME CacheInv, LookupShape, [DedupNext]_dedupVars
               PROVE  \A g \in Goroutines : CallShape(call'[g], Keys(vectors'))
    BY DEF LookupShape
  <1> DEFINE Fine(g) == CallShape(call'[g], Keys(vectors'))
             same(g) == call'[g] = call[g]
  <1>t. /\ call \in [Goroutines -> CallType]
        /\ \A p \in Pods : cache[p].ids \in IdMap
        /\ redis \in IdMap /\ vectors \in IdMap
    BY DEF CacheInv, DedupTypeOK, CacheType
  <1>g. /\ \A w \in Workers : w \in Goroutines
        /\ \A p \in Pods : p \in Goroutines
        /\ \A w \in Workers : PodOf[w] \in Pods
    BY PodAssumption DEF Goroutines
  <1>m. Keys(vectors) \subseteq Keys(vectors')
    BY StoredGrows
  <1>i. /\ \A S : CallShape(Idle, S)
        /\ \A S : CallShape(Booting, S)
    BY DEF CallShape, Idle, Booting, KnownAccounted, LookupState
  <1>s. ASSUME NEW g \in Goroutines, same(g) PROVE Fine(g)
    BY <1>s, <1>m DEF LookupShape, CallShape
  <1>1. ASSUME NEW w \in Workers, NEW batch \in SUBSET Hashes, LookupL1(w, batch)
        PROVE  \A g \in Goroutines : Fine(g)
    <2> DEFINE ids == cache[PodOf[w]].ids
               hits == batch \cap Keys(ids)
               f == Extend(NoEntries, ids, hits)
    <2>1. Keys(f) = hits
      BY <1>t, <1>g, ExtendType, NoEntriesVouched
    <2>2. call'[w] = [Idle EXCEPT !.pc = "scanned", !.found = f, !.missing = batch \ hits,
                                  !.known = batch \cap Keys(vectors)]
      BY <1>1, <1>t, <1>g DEF LookupL1
    <2>3. Fine(w)
      <3> HIDE DEF f
      <3> QED BY <2>1, <2>2, <1>m DEF CallShape, Idle, KnownAccounted, LookupState
    <2>4. \A g \in Goroutines \ {w} : same(g)
      BY <1>1, <1>t DEF LookupL1
    <2> QED BY <2>3, <2>4, <1>s
  <1>2. ASSUME NEW w \in Workers, LookupRedis(w) PROVE \A g \in Goroutines : Fine(g)
    <2> DEFINE c == call[w]
    <2>1. PICK hits \in {c.missing \cap Keys(redis), {}} :
            call' = [call EXCEPT ![w] = [c EXCEPT !.pc = "fill", !.src = "redis",
                       !.found = Extend(c.found, redis, hits),
                       !.missing = c.missing \ hits, !.pending = hits]]
      BY <1>2 DEF LookupRedis, GetChunkVectorIDsBatch
    <2> DEFINE f == Extend(c.found, redis, hits)
    <2>2. c \in CallType /\ c.found \in IdMap /\ hits \in SUBSET Hashes /\ hits \subseteq Keys(redis)
      BY <1>t, <1>g DEF CallType
    <2>3. Keys(f) = (Keys(c.found) \ hits) \cup hits
      BY <2>2, <1>t, ExtendType
    <2>4. Fine(w)
      <3>1. call'[w] = [c EXCEPT !.pc = "fill", !.src = "redis", !.found = f,
                                 !.missing = c.missing \ hits, !.pending = hits]
        BY <2>1, <1>t, <1>g
      <3>2. /\ call'[w].pc = "fill" /\ call'[w].src = "redis" /\ call'[w].found = f
            /\ call'[w].missing = c.missing \ hits /\ call'[w].cut = c.cut
            /\ call'[w].known = c.known
        BY <3>1, <2>2 DEF CallType
      <3>3. CallShape(c, Keys(vectors)) /\ c.pc = "scanned"
        BY <1>2, <1>g DEF LookupShape, LookupRedis, GetChunkVectorIDsBatch
      <3> HIDE DEF f, c
      <3> QED BY <3>2, <3>3, <2>3, <1>m DEF CallShape, KnownAccounted, LookupState
    <2>5. \A g \in Goroutines \ {w} : same(g)
      BY <2>1, <1>t
    <2> QED BY <2>4, <2>5, <1>s
  <1>3. ASSUME NEW w \in Workers, LookupDB(w) PROVE \A g \in Goroutines : Fine(g)
    <2> DEFINE c == call[w]
               rows == c.missing \cap Keys(vectors)
    <2>1. PICK hits \in SUBSET rows, cut \in BOOLEAN :
            /\ call' = [call EXCEPT ![w] = [c EXCEPT !.pc = "fill", !.src = "db",
                          !.found = Extend(c.found, vectors, hits),
                          !.pending = hits, !.cut = cut]]
            /\ ~cut => hits = rows
      BY <1>3 DEF LookupDB, FindVectorIDsByHashesBatch
    <2> DEFINE f == Extend(c.found, vectors, hits)
    <2>2. c \in CallType /\ c.found \in IdMap /\ hits \in SUBSET Hashes /\ hits \subseteq Keys(vectors)
      BY <1>t, <1>g DEF CallType
    <2>3. Keys(f) = (Keys(c.found) \ hits) \cup hits
      BY <2>2, <1>t, ExtendType
    <2>4. Fine(w)
      <3>1. call'[w] = [c EXCEPT !.pc = "fill", !.src = "db", !.found = f,
                                 !.pending = hits, !.cut = cut]
        BY <2>1, <1>t, <1>g
      <3>2. /\ call'[w].pc = "fill" /\ call'[w].src = "db" /\ call'[w].found = f
            /\ call'[w].missing = c.missing /\ call'[w].cut = cut
            /\ call'[w].known = c.known
        BY <3>1, <2>2 DEF CallType
      <3>3. CallShape(c, Keys(vectors)) /\ c.pc = "select"
        BY <1>3, <1>g DEF LookupShape, LookupDB, FindVectorIDsByHashesBatch
      <3>4. c.known \subseteq Keys(c.found) \cup c.missing /\ c.known \subseteq Keys(vectors)
        BY <3>3 DEF CallShape, KnownAccounted, LookupState
      <3>5. cut \/ c.known \subseteq Keys(f)
        BY <3>4, <2>1, <2>3
      <3> HIDE DEF f, c
      <3> QED BY <3>2, <3>4, <3>5, <1>m DEF CallShape, KnownAccounted, LookupState
    <2>5. \A g \in Goroutines \ {w} : same(g)
      BY <2>1, <1>t
    <2> QED BY <2>4, <2>5, <1>s
  <1>4. ASSUME NEW w \in Workers, AllInL1(w) \/ LookupDBFails(w) \/ RedisHitsCached(w)
        PROVE  \A g \in Goroutines : Fine(g)
    <2> DEFINE c == call[w]
    <2>1. /\ c \in CallType /\ CallShape(c, Keys(vectors))
          /\ \A g \in Goroutines \ {w} : same(g)
      BY <1>4, <1>t, <1>g DEF LookupShape, AllInL1, LookupDBFails, RedisHitsCached
    <2>2. /\ call'[w].src = c.src /\ call'[w].found = c.found
          /\ call'[w].missing = c.missing /\ call'[w].cut = c.cut
          /\ call'[w].known = c.known
      BY <1>4, <1>t, <1>g DEF AllInL1, LookupDBFails, RedisHitsCached, CallType
    <2>3. \/ c.pc = "scanned" /\ c.missing = {} /\ call'[w].pc = "returned"
          \/ c.pc = "select" /\ call'[w].pc = "failed"
          \/ c.pc = "fill" /\ c.src = "redis" /\ c.missing = {} /\ call'[w].pc = "returned"
          \/ c.pc = "fill" /\ c.src = "redis" /\ call'[w].pc = "select"
      BY <1>4, <1>t, <1>g DEF AllInL1, LookupDBFails, RedisHitsCached, CallType
    <2>4. Fine(w)
      BY <2>1, <2>2, <2>3, <1>m DEF CallShape, KnownAccounted, LookupState
    <2> QED BY <2>1, <2>4, <1>s
  <1>5. ASSUME NEW w \in Workers, NEW h \in Hashes, NEW id \in VectorIDs,
               RegisterVectorHash(w, h, id)
        PROVE  \A g \in Goroutines : Fine(g)
    <2>1. PICK f \in {Extend(NoEntries, [NoEntries EXCEPT ![h] = id], {h})} :
            call' = [call EXCEPT ![w] = [Idle EXCEPT !.pc = "fill", !.src = "register",
                                            !.found = f, !.pending = {h}]]
      BY <1>5 DEF RegisterVectorHash, StartFill
    <2>2. Fine(w)
      BY <2>1, <1>t, <1>g DEF CallShape, Idle, KnownAccounted, LookupState
    <2>3. \A g \in Goroutines \ {w} : same(g)
      BY <2>1, <1>t
    <2> QED BY <2>2, <2>3, <1>s
  <1>6. ASSUME NEW p \in Pods, WarmupCache(p) PROVE \A g \in Goroutines : Fine(g)
    <2>1. PICK f, S : call' = [call EXCEPT ![p] = [Idle EXCEPT !.pc = "fill",
    !.src = "warmup",
                                            !.found = f, !.pending = S]]
      BY <1>6 DEF WarmupCache, FetchRecentVectorHashes, StartFill
    <2>2. Fine(p)
      BY <2>1, <1>t, <1>g DEF CallShape, Idle, KnownAccounted, LookupState
    <2>3. \A g \in Goroutines \ {p} : same(g)
      BY <2>1, <1>t
    <2> QED BY <2>2, <2>3, <1>s
  <1>7. ASSUME NEW w \in Workers, Finish(w) PROVE \A g \in Goroutines : Fine(g)
    <2>1. \A g \in Goroutines : same(g) \/ call'[g] = Idle
      BY <1>7, <1>t DEF Finish
    <2> QED BY <2>1, <1>s, <1>i
  <1>8. ASSUME NEW p \in Pods, PodRestarts(p) PROVE \A g \in Goroutines : Fine(g)
    <2>1. \A g \in Goroutines : same(g) \/ call'[g] = Idle \/ call'[g] = Booting
      BY <1>8, <1>t DEF PodRestarts
    <2> QED BY <2>1, <1>s, <1>i
  <1>9. ASSUME NEW g \in Goroutines, CallStep(g) PROVE \A k \in Goroutines : Fine(k)
    <2> DEFINE c == call[g]
    <2>1. c \in CallType /\ CallShape(c, Keys(vectors))
      BY <1>t DEF LookupShape
    <2>2. /\ \A k \in Goroutines \ {g} : same(k)
          /\ call'[g].src = c.src /\ call'[g].found = c.found
          /\ call'[g].missing = c.missing /\ call'[g].cut = c.cut
          /\ call'[g].known = c.known
          /\ \/ c.pc \in {"fill", "writeback"} /\ call'[g].pc = c.pc
             \/ c.pc = "fill" /\ c.src # "redis" /\ call'[g].pc = "writeback"
             \/ c.pc = "writeback" /\ call'[g].pc = "returned"
      <3>1. CASE CacheFound(g)
        BY <3>1, <1>t DEF CacheFound, CallType
      <3>2. CASE RowsCached(g)
        BY <3>2, <1>t DEF RowsCached, CallType
      <3>3. CASE WriteRedis(g)
        BY <3>3, <1>t DEF WriteRedis, CallType
      <3>4. CASE RedisWritten(g)
        BY <3>4, <1>t DEF RedisWritten, CallType
      <3> QED BY <1>9, <3>1, <3>2, <3>3, <3>4 DEF CallStep
    <2>3. Fine(g)
      BY <2>1, <2>2, <1>m DEF CallShape, KnownAccounted, LookupState
    <2> QED BY <2>2, <2>3, <1>s
  <1>10. CASE UNCHANGED call
    BY <1>10, <1>s
  <1> QED BY <1>1, <1>2, <1>3, <1>4, <1>5, <1>6, <1>7, <1>8, <1>9, <1>10
          DEF DedupNext, dedupVars, LookupStep, RedisDrops

\* A lookup misses no hash that had a stored vector when it began, unless the rows
\* of its SELECT were cut short (DeduplicateChunkBatch).
THEOREM DedupComplete == DedupSpec => []NoMissedDuplicate
  <1>1. LookupShape => NoMissedDuplicate
    BY DEF LookupShape, CallShape, NoMissedDuplicate, Goroutines
  <1> QED BY <1>1, CacheInvInit, CacheInvStep, ShapeInit, ShapeStep, PTL DEF DedupSpec

-----------------------------------------------------------------------------
(* Cached bindings are kept. *)

\* An answer the cache has given is given again until the entry is evicted or
\* the process restarts (addToCache overwrites nothing).
THEOREM DedupBindingKept == DedupSpec => CachedBindingKept
  <1> DEFINE Kept == \A p \in Pods : \A h \in Keys(cache[p].ids) :
                        cache'[p].ids[h] \in {cache[p].ids[h], None}
  <1>1. CacheInv /\ [DedupNext]_dedupVars => Kept
    <2> SUFFICES ASSUME CacheInv, [DedupNext]_dedupVars, NEW p \in Pods,
                        NEW h \in Keys(cache[p].ids)
                 PROVE  cache'[p].ids[h] \in {cache[p].ids[h], None}
      OBVIOUS
    <2>1. /\ cache \in [Pods -> CacheType]
          /\ call \in [Goroutines -> CallType]
          /\ h \in Hashes /\ cache[p].ids[h] # None
      BY DEF CacheInv, DedupTypeOK, Keys
    <2>2. CASE UNCHANGED cache
      BY <2>2
    <2>3. ASSUME NEW q \in Pods, PodRestarts(q)
          PROVE  cache'[p].ids[h] \in {cache[p].ids[h], None}
      BY <2>3, <2>1 DEF PodRestarts, NewCache, NoEntries
    <2>4. ASSUME NEW g \in Goroutines, CacheFound(g)
          PROVE  cache'[p].ids[h] \in {cache[p].ids[h], None}
      <3>1. PICK k \in call[g].pending :
              cache' = [cache EXCEPT ![Pod(g)] = AddToCache(@, k, call[g].found[k])]
        BY <2>4 DEF CacheFound
      <3>2. k \in Hashes /\ call[g].found[k] \in VectorIDs \cup {None}
        BY <2>1 DEF CallType, IdMap
      <3>3. AddToCache(cache[p], k, call[g].found[k]).ids[h] \in {cache[p].ids[h], None}
        BY <2>1, <3>2, PodCacheWellFormed, AddToCacheEntries
      <3> QED BY <3>1, <3>3, <2>1
    <2> QED BY <2>2, <2>3, <2>4 DEF DedupNext, dedupVars, LookupL1, LookupStep, AllInL1,
            LookupRedis, GetChunkVectorIDsBatch, LookupDB, FindVectorIDsByHashesBatch,
            LookupDBFails, RedisHitsCached, RegisterVectorHash, Finish,
            CallStep, RowsCached, WriteRedis, RedisWritten, WarmupCache,
            FetchRecentVectorHashes, RedisDrops
  <1> QED BY <1>1, CacheInvInit, CacheInvStep, PTL DEF DedupSpec, CachedBindingKept

-----------------------------------------------------------------------------
(* The three levels implement DedupService. *)

LEMMA ServiceNames ==
  /\ Service!NoEntries = NoEntries
  /\ Service!Stored = Keys(vectors)
  /\ RequestOf(Idle) = Service!NoRequest
  /\ RequestOf(Booting) = Service!NoRequest
  BY DEF Service!NoEntries, NoEntries, Service!Stored, Keys, RequestOf, Idle, Booting, Busy,
         Over, Lookups, Service!NoRequest, Service!Request

LEMMA ServiceInit == DedupInit => Service!Init
  <1> SUFFICES ASSUME DedupInit PROVE Service!Init
    OBVIOUS
  <1>1. \A w \in Workers : call[w] = Idle
    BY PodAssumption DEF DedupInit, Goroutines
  <1> QED BY <1>1, ServiceNames DEF DedupInit, Service!Init, Requests

LEMMA ServiceStep ==
  CacheInv /\ BindingsVouched /\ LookupShape /\ [DedupNext]_dedupVars
    => [Service!Next]_(Service!vars)
  <1> SUFFICES ASSUME CacheInv, BindingsVouched, LookupShape, [DedupNext]_dedupVars
               PROVE  Service!Next \/ UNCHANGED Service!vars
    OBVIOUS
  <1> DEFINE R(w) == RequestOf(call[w])
             Rn(w) == RequestOf(call'[w])
             others(w) == \A k \in Workers \ {w} : Rn(k) = R(k)
             quiet == UNCHANGED <<vectors, registered>>
  <1>t. /\ call \in [Goroutines -> CallType]
        /\ \A p \in Pods : cache[p].ids \in IdMap
        /\ redis \in IdMap /\ vectors \in IdMap
    BY DEF CacheInv, DedupTypeOK, CacheType
  <1>g. /\ \A w \in Workers : w \in Goroutines /\ w \notin Pods
        /\ \A p \in Pods : p \in Goroutines /\ p \notin Workers
        /\ \A w \in Workers : PodOf[w] \in Pods
    BY PodAssumption DEF Goroutines
  <1>r. /\ Requests = [w \in Workers |-> R(w)]
        /\ Requests' = [w \in Workers |-> Rn(w)]
    BY DEF Requests
  <1>u. ASSUME quiet, \A w \in Workers : Rn(w) = R(w)
        PROVE  UNCHANGED Service!vars
    BY <1>u, <1>r DEF Service!vars
  \* A lookup that returns meets its promise.
  <1>a. ASSUME NEW w \in Workers, call'[w] = [call[w] EXCEPT !.pc = "returned"],
  others(w), quiet,
               Busy(call[w]), call[w].src \in Lookups,
               call[w].cut \/ call[w].known \subseteq Keys(call[w].found)
        PROVE  Service!Next
    <2> DEFINE c == call[w]
    <2>1. c \in CallType /\ c.found \in IdMap
      BY <1>t, <1>g DEF CallType
    <2>2. R(w) = [st |-> "busy", batch |-> c.missing \cup Keys(c.found), known |-> c.known,
                  cut |-> c.cut, found |-> NoEntries]
      BY <1>a, <2>1 DEF RequestOf, Busy, Over, CallType
    <2>3. Rn(w) = [st |-> "returned", batch |-> c.missing \cup Keys(c.found),
    known |-> c.known,
                  cut |-> c.cut, found |-> c.found]
      <3>1. /\ call'[w].pc = "returned" /\ call'[w].src = c.src /\ call'[w].found = c.found
            /\ call'[w].missing = c.missing /\ call'[w].cut = c.cut /\ call'[w].known = c.known
        BY <1>a, <2>1 DEF CallType
      <3> QED BY <3>1, <1>a, <2>1 DEF RequestOf, Busy, Over, CallType
    <2>4. Service!Answers(R(w), c.found)
      <3>1. MapVouched(c.found)
        BY <1>g DEF BindingsVouched
      <3>2. \A h \in Hashes : h \in c.known /\ ~c.cut => c.found[h] # None
        BY <1>a DEF Keys
      <3>3. c.known \subseteq Hashes
        BY <2>1 DEF CallType
      <3> HIDE DEF c
      <3> QED BY <2>2, <3>1, <3>2, <3>3 DEF Service!Answers, MapVouched, Vouched, Keys
    <2>5. Requests' = [Requests EXCEPT ![w] =
                         Service!Request("returned", @.batch, @.known, @.cut, c.found)]
      <3>1. Rn(w) = Service!Request("returned", R(w).batch, R(w).known, R(w).cut, c.found)
        <4> HIDE DEF R, Rn, c
        <4> QED BY <2>2, <2>3 DEF Service!Request
      <3> QED BY <3>1, <1>a, <1>r
    <2>6. Requests[w].st = "busy" /\ Requests[w] = R(w)
      BY <1>r, <2>2
    <2>7. Service!Return(w)
      <3>1. Requests'[w].found = c.found
        BY <1>r, <2>3
      <3> HIDE DEF c, R
      <3> QED BY <2>4, <2>5, <2>6, <3>1, <1>a DEF Service!Return
    <2> QED BY <2>7 DEF Service!Next
  \* A lookup that goes on.
  <1>b. ASSUME NEW w \in Workers, others(w), quiet, Rn(w) = R(w)
        PROVE  UNCHANGED Service!vars
    BY <1>b, <1>u
  <1>1. ASSUME NEW w \in Workers, NEW batch \in SUBSET Hashes, LookupL1(w, batch)
        PROVE  Service!Next
    <2> DEFINE ids == cache[PodOf[w]].ids
               hits == batch \cap Keys(ids)
               f == Extend(NoEntries, ids, hits)
    <2>1. Keys(f) = hits
      BY <1>t, <1>g, ExtendType, NoEntriesVouched
    <2>2. /\ call'[w].pc = "scanned" /\ call'[w].src = "none" /\ call'[w].found = f
          /\ call'[w].missing = batch \ hits /\ call'[w].cut = FALSE
          /\ call'[w].known = batch \cap Keys(vectors)
      BY <1>1, <1>t, <1>g DEF LookupL1, Idle
    <2>3. Rn(w) = [st |-> "busy", batch |-> batch, known |-> batch \cap Keys(vectors),
                   cut |-> FALSE, found |-> NoEntries]
      <3> HIDE DEF f
      <3> QED BY <2>1, <2>2 DEF RequestOf, Busy, Over
    <2>4. R(w).st = "idle"
      BY <1>1 DEF LookupL1, RequestOf, Busy, Over
    <2>5. others(w) /\ quiet
      BY <1>1, <1>t, <1>g DEF LookupL1
    <2>6. Rn(w) = Service!Request("busy", batch, Service!Stored \cap batch, FALSE,
                                  Service!NoEntries)
      <3> HIDE DEF Rn
      <3> QED BY <2>3, ServiceNames DEF Service!Request
    <2>7. Requests' = [Requests EXCEPT ![w] = Rn(w)]
      BY <2>5, <1>r
    <2>8. Service!Begin(w, batch)
      <3>1. Requests[w].st = "idle"
        BY <2>4, <1>r
      <3> HIDE DEF Rn, R
      <3> QED BY <3>1, <2>5, <2>6, <2>7 DEF Service!Begin
    <2> QED BY <2>8 DEF Service!Next
  <1>2. ASSUME NEW w \in Workers, AllInL1(w) PROVE Service!Next
    <2>1. /\ CallShape(call[w], Keys(vectors)) /\ call[w].pc = "scanned"
          /\ call[w].missing = {} /\ call[w] \in CallType
      BY <1>2, <1>t, <1>g DEF LookupShape, AllInL1
    <2>2. /\ call'[w] = [call[w] EXCEPT !.pc = "returned"] /\ others(w) /\ quiet
      BY <1>2, <1>t, <1>g DEF AllInL1
    <2>3. /\ Busy(call[w]) /\ call[w].src \in Lookups
          /\ call[w].known \subseteq Keys(call[w].found)
      BY <2>1 DEF CallShape, KnownAccounted, LookupState, Busy, Lookups
    <2> QED BY <2>2, <2>3, <1>a
  <1>3. ASSUME NEW w \in Workers, LookupRedis(w) PROVE UNCHANGED Service!vars
    <2> DEFINE c == call[w]
    <2>1. PICK hits \in {c.missing \cap Keys(redis), {}} :
            call' = [call EXCEPT ![w] = [c EXCEPT !.pc = "fill", !.src = "redis",
                       !.found = Extend(c.found, redis, hits),
                       !.missing = c.missing \ hits, !.pending = hits]]
      BY <1>3 DEF LookupRedis, GetChunkVectorIDsBatch
    <2> DEFINE f == Extend(c.found, redis, hits)
    <2>2. /\ c \in CallType /\ c.found \in IdMap /\ hits \in SUBSET Hashes
          /\ hits \subseteq Keys(redis) /\ hits \subseteq c.missing /\ c.pc = "scanned"
      BY <1>3, <1>t, <1>g DEF CallType, LookupRedis, GetChunkVectorIDsBatch
    <2>3. Keys(f) = (Keys(c.found) \ hits) \cup hits
      BY <2>2, <1>t, ExtendType
    <2>4. /\ call'[w].pc = "fill" /\ call'[w].src = "redis" /\ call'[w].found = f
          /\ call'[w].missing = c.missing \ hits /\ call'[w].cut = c.cut
          /\ call'[w].known = c.known
      BY <2>1, <2>2, <1>t, <1>g DEF CallType
    <2>5. Rn(w) = R(w)
      <3>1. (c.missing \ hits) \cup Keys(f) = c.missing \cup Keys(c.found)
        BY <2>2, <2>3
      <3> HIDE DEF f, c
      <3> QED BY <3>1, <2>2, <2>4 DEF RequestOf, Busy, Over, c
    <2>6. others(w) /\ quiet
      BY <1>3, <2>1, <1>t, <1>g DEF LookupRedis, GetChunkVectorIDsBatch
    <2> QED BY <2>5, <2>6, <1>b
  <1>4. ASSUME NEW w \in Workers, LookupDB(w) PROVE Service!Next \/ UNCHANGED Service!vars
    <2> DEFINE c == call[w]
               rows == c.missing \cap Keys(vectors)
    <2>1. PICK hits \in SUBSET rows, cut \in BOOLEAN :
            call' = [call EXCEPT ![w] = [c EXCEPT !.pc = "fill", !.src = "db",
                          !.found = Extend(c.found, vectors, hits),
                          !.pending = hits, !.cut = cut]]
      BY <1>4 DEF LookupDB, FindVectorIDsByHashesBatch
    <2> DEFINE f == Extend(c.found, vectors, hits)
    <2>2. /\ c \in CallType /\ c.found \in IdMap /\ hits \in SUBSET Hashes
          /\ hits \subseteq Keys(vectors) /\ hits \subseteq c.missing /\ c.pc = "select"
          /\ ~c.cut
      BY <1>4, <1>t, <1>g DEF CallType, LookupDB, FindVectorIDsByHashesBatch,
         LookupShape, CallShape, LookupState
    <2>3. Keys(f) = (Keys(c.found) \ hits) \cup hits
      BY <2>2, <1>t, ExtendType
    <2>4. /\ call'[w].pc = "fill" /\ call'[w].src = "db" /\ call'[w].found = f
          /\ call'[w].missing = c.missing /\ call'[w].cut = cut
          /\ call'[w].known = c.known
      BY <2>1, <2>2, <1>t, <1>g DEF CallType
    <2>5. others(w) /\ quiet
      BY <1>4, <2>1, <1>t, <1>g DEF LookupDB, FindVectorIDsByHashesBatch
    <2>6. c.missing \cup Keys(f) = c.missing \cup Keys(c.found)
      BY <2>2, <2>3
    <2>7. R(w) = [st |-> "busy", batch |-> c.missing \cup Keys(c.found), known |-> c.known,
                  cut |-> FALSE, found |-> NoEntries]
      BY <2>2 DEF RequestOf, Busy, Over
    <2>8. Rn(w) = [st |-> "busy", batch |-> c.missing \cup Keys(c.found), known |-> c.known,
                   cut |-> cut, found |-> NoEntries]
      <3> HIDE DEF f, c
      <3> QED BY <2>4, <2>6 DEF RequestOf, Busy, Over
    <2>9. CASE cut = FALSE
      <3>1. Rn(w) = R(w)
        <4> HIDE DEF R, Rn, c
        <4> QED BY <2>7, <2>8, <2>9
      <3> QED BY <3>1, <2>5, <1>b
    <2>10. CASE cut = TRUE
      <3>1. /\ Rn(w) = Service!Request("busy", R(w).batch, R(w).known, TRUE,
                                      Service!NoEntries)
            /\ R(w).st = "busy"
        <4> HIDE DEF R, Rn, c
        <4> QED BY <2>7, <2>8, <2>10, ServiceNames DEF Service!Request
      <3>2. /\ Requests' = [Requests EXCEPT ![w] =
                  Service!Request("busy", @.batch, @.known, TRUE, Service!NoEntries)]
            /\ Requests[w].st = "busy"
        BY <3>1, <2>5, <1>r
      <3>3. Service!CutShort(w)
        BY <3>2, <2>5 DEF Service!CutShort
      <3> QED BY <3>3 DEF Service!Next
    <2> QED BY <2>9, <2>10
  <1>5. ASSUME NEW w \in Workers, LookupDBFails(w) PROVE Service!Next
    <2> DEFINE c == call[w]
    <2>1. /\ c \in CallType /\ c.pc = "select" /\ c.src = "redis"
      BY <1>5, <1>t, <1>g DEF LookupDBFails, LookupShape, CallShape
    <2>2. /\ call'[w].pc = "failed" /\ call'[w].src = "redis" /\ call'[w].found = c.found
          /\ call'[w].missing = c.missing /\ call'[w].cut = c.cut
          /\ call'[w].known = c.known
      BY <1>5, <2>1, <1>t, <1>g DEF LookupDBFails, CallType
    <2>3. others(w) /\ quiet
      BY <1>5, <1>t, <1>g DEF LookupDBFails
    <2>4. R(w) = [st |-> "busy", batch |-> c.missing \cup Keys(c.found), known |-> c.known,
                  cut |-> c.cut, found |-> NoEntries]
      BY <2>1 DEF RequestOf, Busy, Over, CallType
    <2>5. Rn(w) = [st |-> "failed", batch |-> c.missing \cup Keys(c.found),
    known |-> c.known,
                   cut |-> c.cut, found |-> NoEntries]
      BY <2>1, <2>2 DEF RequestOf, Busy, Over, CallType, Lookups
    <2>6. /\ Rn(w) = Service!Request("failed", R(w).batch, R(w).known, R(w).cut,
                                     Service!NoEntries)
          /\ R(w).st = "busy"
      <3> HIDE DEF R, Rn, c
      <3> QED BY <2>4, <2>5, ServiceNames DEF Service!Request
    <2>7. /\ Requests' = [Requests EXCEPT ![w] =
                Service!Request("failed", @.batch, @.known, @.cut, Service!NoEntries)]
          /\ Requests[w].st = "busy"
      BY <2>6, <2>3, <1>r
    <2>8. Service!Fail(w)
      BY <2>7, <2>3 DEF Service!Fail
    <2> QED BY <2>8 DEF Service!Next
  <1>6. ASSUME NEW w \in Workers, RedisHitsCached(w)
        PROVE  Service!Next \/ UNCHANGED Service!vars
    <2> DEFINE c == call[w]
    <2>1. /\ c \in CallType /\ c.pc = "fill" /\ c.src = "redis"
          /\ c.known \subseteq Keys(c.found) \cup c.missing
          /\ others(w) /\ quiet
      BY <1>6, <1>t, <1>g DEF RedisHitsCached, LookupShape, CallShape, KnownAccounted
    <2>2. Busy(c) /\ c.src \in Lookups
      BY <2>1 DEF Busy, Lookups
    <2>3. CASE c.missing = {}
      <3>1. call'[w] = [c EXCEPT !.pc = "returned"]
        BY <1>6, <2>3, <1>t, <1>g DEF RedisHitsCached
      <3>2. c.known \subseteq Keys(c.found)
        BY <2>1, <2>3
      <3> QED BY <3>1, <3>2, <2>1, <2>2, <1>a
    <2>4. CASE c.missing # {}
      <3>1. /\ call'[w].pc = "select" /\ call'[w].src = c.src /\ call'[w].found = c.found
            /\ call'[w].missing = c.missing /\ call'[w].cut = c.cut
            /\ call'[w].known = c.known
        BY <1>6, <2>1, <2>4, <1>t, <1>g DEF RedisHitsCached, CallType
      <3>2. Rn(w) = R(w)
        BY <3>1, <2>1 DEF RequestOf, Busy, Over
      <3> QED BY <3>2, <2>1, <1>b
    <2> QED BY <2>3, <2>4
  <1>7. ASSUME NEW w \in Workers, NEW h \in Hashes, NEW id \in VectorIDs,
               RegisterVectorHash(w, h, id)
        PROVE  Service!Next
    <2>1. /\ \A k \in Workers : Rn(k) = R(k)
          /\ UNCHANGED vectors /\ registered' = registered \cup {<<h, id>>}
      <3>1. /\ call[w].pc = "idle" /\ call'[w].pc = "fill" /\ call'[w].src = "register"
            /\ \A k \in Workers \ {w} : call'[k] = call[k]
            /\ UNCHANGED vectors /\ registered' = registered \cup {<<h, id>>}
        BY <1>7, <1>t, <1>g DEF RegisterVectorHash, StartFill, Idle
      <3> QED BY <3>1 DEF RequestOf, Busy, Over
    <2>2. UNCHANGED Requests
      BY <2>1, <1>r
    <2>3. Service!Register(h, id)
      BY <2>1, <2>2 DEF Service!Register
    <2> QED BY <2>3 DEF Service!Next
  <1>8. ASSUME NEW p \in Pods, WarmupCache(p) PROVE UNCHANGED Service!vars
    <2>1. quiet /\ \A k \in Workers : Rn(k) = R(k)
      BY <1>8, <1>t, <1>g DEF WarmupCache, FetchRecentVectorHashes, StartFill
    <2> QED BY <2>1, <1>u
  <1>9. ASSUME NEW w \in Workers, Finish(w) PROVE Service!Next \/ UNCHANGED Service!vars
    <2>1. /\ call[w].pc \in {"returned", "failed"} /\ call'[w] = Idle /\ others(w) /\ quiet
      BY <1>9, <1>t, <1>g DEF Finish
    <2>2. Rn(w) = Service!NoRequest
      BY <2>1, ServiceNames
    <2>3. CASE Over(call[w])
      <3>1. R(w).st \in {"returned", "failed"}
        BY <2>1, <2>3 DEF RequestOf, Busy
      <3>2. /\ Requests[w].st \in {"returned", "failed"}
            /\ Requests' = [Requests EXCEPT ![w] = Service!NoRequest]
        BY <3>1, <2>1, <2>2, <1>r
      <3>3. Service!Finish(w)
        BY <3>2, <2>1 DEF Service!Finish
      <3> QED BY <3>3 DEF Service!Next
    <2>4. CASE ~Over(call[w])
      <3>1. R(w) = Service!NoRequest
        BY <2>1, <2>4, ServiceNames DEF RequestOf, Busy, Service!NoRequest, Service!Request
      <3> QED BY <3>1, <2>1, <2>2, <1>b
    <2> QED BY <2>3, <2>4
  <1>10. ASSUME NEW p \in Pods, PodRestarts(p) PROVE Service!Next
    <2> DEFINE gone == {w \in Workers : PodOf[w] = p}
    <2>1. /\ \A w \in Workers : Rn(w) = IF w \in gone THEN Service!NoRequest ELSE R(w)
          /\ quiet
      <3>1. \A w \in Workers : call'[w] = IF w \in gone THEN Idle ELSE call[w]
        BY <1>10, <1>g DEF PodRestarts, Pod
      <3> QED BY <3>1, <1>10, ServiceNames DEF PodRestarts
    <2>2. Requests' = [w \in Workers |-> IF w \in gone THEN Service!NoRequest ELSE Requests[w]]
      BY <2>1, <1>r
    <2>3. Service!Crash(gone)
      BY <2>1, <2>2 DEF Service!Crash
    <2> QED BY <2>3 DEF Service!Next
  <1>11. ASSUME NEW new \in IdMap, CommitVectors(new),
                UNCHANGED <<cache, redis, call, registered>>
         PROVE  Service!Next
    <2>1. UNCHANGED Requests
      BY <1>11 DEF Requests
    <2>2. vectors \in IdMap
      BY <1>t
    <2>3. vectors' \in IdMap /\ \A h \in Keys(vectors) : vectors'[h] = vectors[h]
      BY <1>11, <2>2 DEF CommitVectors, IdMap, Keys
    <2>4. Service!Store
      BY <1>11, <2>1, <2>3, ServiceNames DEF Service!Store, IdMap
    <2> QED BY <2>4 DEF Service!Next
  <1>12. ASSUME NEW g \in Goroutines, CallStep(g)
         PROVE  Service!Next \/ UNCHANGED Service!vars
    <2> DEFINE c == call[g]
    <2>1. quiet /\ \A w \in Workers \ {g} : Rn(w) = R(w)
      <3>1. quiet /\ \A k \in Goroutines \ {g} : call'[k] = call[k]
        <4>1. CASE CacheFound(g)
          BY <4>1, <1>t DEF CacheFound
        <4>2. CASE RowsCached(g)
          BY <4>2, <1>t DEF RowsCached
        <4>3. CASE WriteRedis(g)
          BY <4>3, <1>t DEF WriteRedis
        <4>4. CASE RedisWritten(g)
          BY <4>4, <1>t DEF RedisWritten
        <4> QED BY <1>12, <4>1, <4>2, <4>3, <4>4 DEF CallStep
      <3> QED BY <3>1, <1>g
    <2>2. CASE g \notin Workers
      BY <2>1, <2>2, <1>u
    <2>3. CASE g \in Workers /\ ~RedisWritten(g)
      <3>1. c \in CallType /\ CallShape(c, Keys(vectors))
        BY <1>t DEF LookupShape
      <3>2. /\ call'[g].src = c.src /\ call'[g].found = c.found
            /\ call'[g].missing = c.missing /\ call'[g].cut = c.cut
            /\ call'[g].known = c.known
            /\ c.pc \in {"fill", "writeback"} /\ call'[g].pc \in {"fill", "writeback"}
        <4>1. CASE CacheFound(g)
          BY <4>1, <1>t DEF CacheFound, CallType
        <4>2. CASE RowsCached(g)
          BY <4>2, <1>t DEF RowsCached, CallType
        <4>3. CASE WriteRedis(g)
          BY <4>3, <1>t DEF WriteRedis, CallType
        <4> QED BY <1>12, <2>3, <4>1, <4>2, <4>3 DEF CallStep
      <3>3. Rn(g) = R(g)
        BY <3>2 DEF RequestOf, Busy, Over
      <3> QED BY <3>3, <2>1, <2>3, <1>b
    <2>4. CASE g \in Workers /\ RedisWritten(g)
      <3>1. /\ c \in CallType /\ CallShape(c, Keys(vectors)) /\ c.pc = "writeback"
            /\ call'[g] = [c EXCEPT !.pc = "returned"]
        BY <2>4, <1>t DEF RedisWritten, LookupShape
      <3>2. CASE c.src = "db"
        <4>1. Busy(c) /\ c.src \in Lookups /\ (c.cut \/ c.known \subseteq Keys(c.found))
          BY <3>1, <3>2 DEF Busy, Lookups, CallShape
        <4> QED BY <4>1, <3>1, <2>1, <2>4, <1>a
      <3>3. CASE c.src # "db"
        <4>1. c.src \notin {"none", "redis", "db"}
          BY <3>1, <3>3 DEF CallShape
        <4>2. call'[g].pc = "returned" /\ call'[g].src = c.src
          BY <3>1 DEF CallType
        <4>3. Rn(g) = R(g)
          BY <4>1, <4>2, <3>1 DEF RequestOf, Busy, Over, Lookups
        <4> QED BY <4>3, <2>1, <2>4, <1>b
      <3> QED BY <3>2, <3>3
    <2> QED BY <2>2, <2>3, <2>4
  <1>13. CASE UNCHANGED <<vectors, call, registered>>
    BY <1>13, <1>u
  <1> QED BY <1>1, <1>2, <1>3, <1>4, <1>5, <1>6, <1>7, <1>8, <1>9, <1>10, <1>11, <1>12,
     <1>13
          DEF DedupNext, dedupVars, LookupStep, RedisDrops

\* The cache, Redis and the vectors table, with all their copying, eviction and
\* expiry, give callers what DedupService promises.
THEOREM DedupImplementsService == DedupSpec => ImplementsService
  BY CacheInvInit, CacheInvStep, VouchedInit, VouchedStep, ShapeInit, ShapeStep,
     ServiceInit,
     ServiceStep, PTL DEF DedupSpec, ImplementsService, Service!Spec
=============================================================================
