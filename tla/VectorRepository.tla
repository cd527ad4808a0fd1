-------------------------- MODULE VectorRepository ---------------------------
(***************************************************************************)
(* SaveBulk of the pipe service's vector repository: one transaction that  *)
(* inserts the new vectors and the chunks of a document.  Pure operators   *)
(* on the two tables:                                                      *)
(*   vectors  hash -> id, hash being UNIQUE                                *)
(*   chunks   a set of rows, (doc, index) being UNIQUE and vector a        *)
(*            foreign key into the vectors table                           *)
(* A new vector is a record [id, hash].                                    *)
(***************************************************************************)
EXTENDS L1Cache, FiniteSetsExt

CONSTANT BatchSize  \* vectors per INSERT statement (400)

ASSUME BatchAssumption == BatchSize \in Nat \ {0}

StoredIds(vectors) == {vectors[h] : h \in Keys(vectors)}

\* Positions of the new vectors of hash h; the INSERT statement of a position.
PositionsOf(vecs, h) == {i \in DOMAIN vecs : vecs[i].hash = h}

Statement(i) == (i - 1) \div BatchSize

\* ON CONFLICT DO UPDATE cannot affect a row twice in one statement.
HashTwice(vecs) ==
  \E i, j \in DOMAIN vecs :
     i < j /\ Statement(i) = Statement(j) /\ vecs[i].hash = vecs[j].hash

\* ON CONFLICT (hash) DO UPDATE leaves the id of a row that is there already,
\* stored before or by an earlier statement.
Upserted(vectors, vecs) ==
  [h \in Hashes |->
     IF vectors[h] # None \/ PositionsOf(vecs, h) = {}
       THEN vectors[h]
       ELSE vecs[Min(PositionsOf(vecs, h))].id]

\* Mutant: the returned ids are not looked at.
ActualIdUnmapped(vectors, vecs, id) == id

\* vectorIDMap: the stored id for the first new vector of each hash.  The later
\* ones of the hash are not in the map.
ActualId(vectors, vecs, id) ==
  LET firsts == {i \in DOMAIN vecs : i = Min(PositionsOf(vecs, vecs[i].hash))}
      own    == {i \in firsts : vecs[i].id = id}
  IN IF own = {} THEN id ELSE Upserted(vectors, vecs)[vecs[Min(own)].hash]

\* Mutant: the loop over the batches ends after the first.
InsertedRowsFirstBatch(vectors, vecs, rows) ==
  {[r EXCEPT !.vector = ActualId(vectors, vecs, @)] : r \in {r \in rows : r.index <= BatchSize}}

\* The chunk rows as they are inserted.
InsertedRows(vectors, vecs, rows) ==
  {[r EXCEPT !.vector = ActualId(vectors, vecs, @)] : r \in rows}

\* Mutant: no unique constraint on document and index.
SaveErrorNotUnique(vectors, chunks, vecs, rows) ==
  CASE HashTwice(vecs) -> "second_time"
    [] \E r \in InsertedRows(vectors, vecs, rows) :
          r.vector \notin StoredIds(Upserted(vectors, vecs)) -> "foreign_key"
    [] OTHER -> "none"

\* Why the database rejects the transaction, "none" when it does not.
SaveError(vectors, chunks, vecs, rows) ==
  CASE HashTwice(vecs) -> "second_time"
    [] \E r \in rows, s \in chunks : r.doc = s.doc /\ r.index = s.index -> "unique"
    [] \E r \in InsertedRows(vectors, vecs, rows) :
          r.vector \notin StoredIds(Upserted(vectors, vecs)) -> "foreign_key"
    [] OTHER -> "none"
=============================================================================
