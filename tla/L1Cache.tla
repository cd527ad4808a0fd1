------------------------------- MODULE L1Cache -------------------------------
(***************************************************************************)
(* The in-memory level of the chunk deduplicator of the pipe service: a    *)
(* map from chunk hash to vector id, and the list of its keys in the order *)
(* they were added.  When the map is full the oldest key is dropped.       *)
(*                                                                         *)
(* A map is a function on all of Hashes that takes the value None where    *)
(* the Go map has no key.  These are pure operators: every change of a     *)
(* cache happens under the write lock of its deduplicator, in one step of  *)
(* the modules that use them.                                              *)
(***************************************************************************)
EXTENDS Naturals, Sequences, FiniteSets

CONSTANTS Hashes,     \* canonical chunk hashes
          VectorIDs,  \* ids of embedding vectors (uuids)
          EmptyHash,  \* the hash of a blank chunk, ""
          None,       \* no entry; also uuid.Nil
          Capacity    \* bound on the entries of one cache

ASSUME NoneAssumption == None \notin VectorIDs
ASSUME CapacityAssumption == Capacity \in Nat \ {0}

NoEntries == [h \in Hashes |-> None]

NewCache == [ids |-> NoEntries, order |-> <<>>]

\* The keys of a map.
Keys(m) == {h \in Hashes : m[h] # None}

\* Mutant: the key leaves the order and stays in the map.
EvictKeepsEntry(c) == [ids |-> c.ids, order |-> Tail(c.order)]

\* Drop the entry at the front of the order.
Evict(c) == [ids   |-> [c.ids EXCEPT ![Head(c.order)] = None],
             order |-> Tail(c.order)]

\* Mutant: no check whether the key is present.
AddToCacheOverwrites(c, h, id) ==
  IF h = EmptyHash \/ id = None
    THEN c
    ELSE LET kept == IF Cardinality(Keys(c.ids)) >= Capacity
                       THEN Evict(c) ELSE c
         IN [ids   |-> [kept.ids EXCEPT ![h] = id],
             order |-> Append(kept.order, h)]

\* A blank hash, a nil id and a key that is present already leave the cache
\* as it is: an entry is replaced only by way of its eviction.
AddToCache(c, h, id) ==
  IF h = EmptyHash \/ id = None \/ h \in Keys(c.ids)
    THEN c
    ELSE LET kept == IF Cardinality(Keys(c.ids)) >= Capacity
                       THEN Evict(c) ELSE c
         IN [ids   |-> [kept.ids EXCEPT ![h] = id],
             order |-> Append(kept.order, h)]

-----------------------------------------------------------------------------
IdMap == [Hashes -> VectorIDs \cup {None}]

CacheType == [ids : IdMap, order : Seq(Hashes)]

(* The map and the list describe the same set of keys: each key is listed  *)
(* exactly once, and there are as many as the list is long, so that        *)
(* cacheOrder[0] exists whenever the cache is full.                        *)
OrderMatchesKeys(c) ==
  /\ \A h \in Hashes : h \in Keys(c.ids) <=> \E i \in 1 .. Len(c.order) : c.order[i] = h
  /\ \A i, j \in 1 .. Len(c.order) : c.order[i] = c.order[j] => i = j
  /\ IsFiniteSet(Keys(c.ids))
  /\ Cardinality(Keys(c.ids)) = Len(c.order)

WithinCapacity(c) == Len(c.order) <= Capacity
=============================================================================
