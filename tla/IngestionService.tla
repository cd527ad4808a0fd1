--------------------------- MODULE IngestionService ---------------------------
(***************************************************************************)
(* An upload in the ingestion service: look the checksum up, store the     *)
(* file in MinIO, insert the document row, publish document.created.  The  *)
(* three stores are written one after the other with nothing to undo what  *)
(* an earlier step did, by requests of several pods at once.               *)
(*                                                                         *)
(* The document id an upload mints is named like the upload, as are the    *)
(* object key and the event, which are derived from it.  Of a file only    *)
(* its checksum counts, ContentOf.  A request is req[u]:                   *)
(*   stage   the call of ProcessAndIngest it has come to                   *)
(*   code    status of the answer; 0 when the connection is dropped        *)
(*   doc     the document a 201 answers with                               *)
(***************************************************************************)
EXTENDS Naturals, Sequences, SequencesExt

CONSTANTS Uploads, Checksums, ContentOf,
          Pods, PodOf,     \* replicas, and the one that serves an upload
          None,
          MaxFaults        \* bound: crashes and broken NATS connections

ASSUME UploadAssumption == /\ ContentOf \in [Uploads -> Checksums]
                           /\ PodOf \in [Uploads -> Pods]
                           /\ None \notin Uploads
                           /\ MaxFaults \in Nat

VARIABLES req,
          once,       \* bucketOnce and bucketErr of each pod
          publisher,  \* the pod was connected to NATS when it started
          outbox,     \* events in the write buffer of the pod's connection
          bucket,     \* the bucket exists
          objects,    \* keys in it
          documents,  \* rows of the documents table
          hasStream,  \* the pipe service has created the stream
          stream,     \* events in it
          lost,       \* history: events published that will not reach it
          after,      \* history: checksums with a row when the request began
          blind,      \* history: requests whose lookup returned an error
          faults

podVars   == <<once, publisher, outbox>>
storeVars == <<bucket, objects, documents, hasStream, stream, lost>>
history   == <<after, blind>>
vars == <<req, podVars, storeVars, history, faults>>

NoRequest == [stage |-> "idle", code |-> 0, doc |-> None]

Init ==
  /\ req = [u \in Uploads |-> NoRequest]
  /\ once = [p \in Pods |-> "new"]
  /\ publisher \in [Pods -> BOOLEAN]
  /\ outbox = [p \in Pods |-> << >>]
  /\ bucket = FALSE
  /\ objects = {}
  /\ documents = {}
  /\ hasStream = FALSE
  /\ stream = {}
  /\ lost = {}
  /\ after = [u \in Uploads |-> {}]
  /\ blind = {}
  /\ faults = 0

Fault == faults < MaxFaults /\ faults' = faults + 1

At(u, stage) == req[u].stage = stage

Goto(u, stage) == req' = [req EXCEPT ![u].stage = stage]

Answer(u, code, doc) ==
  req' = [req EXCEPT ![u] = [stage |-> "ended", code |-> code, doc |-> doc]]

\* Mutant: an error comes with a document.
RefuseWithDoc(u) == Answer(u, 500, u)

Created(u, doc) == Answer(u, 201, doc)
BadRequest(u)   == Answer(u, 400, None)
Refuse(u)       == Answer(u, 500, None)

\* Mutant: the WHERE clause selects another tenant.
NoRows(checksum) == {}

Rows(checksum) == {r \in documents : r.checksum = checksum}

-----------------------------------------------------------------------------
(* The handler and ProcessAndIngest, up to the row. *)

\* The form is no form, or has no name or no file, or the file cannot be read.
Upload(u) ==
  /\ At(u, "idle")
  /\ Goto(u, "lookup") \/ BadRequest(u) \/ Refuse(u)
  /\ after' = [after EXCEPT ![u] = {r.checksum : r \in documents}]
  /\ UNCHANGED <<podVars, storeVars, blind, faults>>

\* An error of the lookup is logged, and the upload goes on as if it were new.
FindByChecksum(u) ==
  /\ At(u, "lookup")
  /\ \/ /\ \E r \in Rows(ContentOf[u]) : Created(u, r.id)
        /\ UNCHANGED blind
     \/ /\ Rows(ContentOf[u]) = {}
        /\ Goto(u, "bucket")
        /\ UNCHANGED blind
     \/ /\ Goto(u, "bucket")
        /\ blind' = blind \cup {u}
  /\ UNCHANGED <<podVars, storeVars, after, faults>>

\* bucketOnce.Do: the first request runs it, those that come meanwhile wait, and
\* bucketErr is what all later ones get.
EnsureBucket(u) ==
  LET p == PodOf[u]
  IN /\ At(u, "bucket")
     /\ \/ /\ once[p] = "new"
           /\ once' = [once EXCEPT ![p] = "running"]
           /\ Goto(u, "exists")
        \/ /\ once[p] = "ok"
           /\ Goto(u, "put")
           /\ UNCHANGED once
        \/ /\ once[p] = "failed"
           /\ Refuse(u)
           /\ UNCHANGED once
     /\ UNCHANGED <<publisher, outbox, storeVars, history, faults>>

BucketReady(u) ==
  Goto(u, "put") /\ once' = [once EXCEPT ![PodOf[u]] = "ok"]

\* Mutant: the requests that wait are not woken.
BucketFailsHanging(u) == Refuse(u) /\ UNCHANGED once

BucketFails(u) ==
  Refuse(u) /\ once' = [once EXCEPT ![PodOf[u]] = "failed"]

BucketExists(u) ==
  /\ At(u, "exists")
  /\ \/ bucket /\ BucketReady(u)
     \/ ~bucket /\ Goto(u, "make") /\ UNCHANGED once
     \/ BucketFails(u)
  /\ UNCHANGED <<publisher, outbox, storeVars, history, faults>>

\* It is an error when another pod has made the bucket in between.
MakeBucket(u) ==
  /\ At(u, "make")
  /\ \/ /\ ~bucket
        /\ bucket' = TRUE
        /\ BucketReady(u) \/ BucketFails(u)
     \/ /\ BucketFails(u)
        /\ UNCHANGED bucket
  /\ UNCHANGED <<publisher, outbox, objects, documents, hasStream, stream, lost, history, faults>>

\* Mutant: the error of PutObject is dropped.
UploadFileUnchecked(u) ==
  /\ At(u, "put")
  /\ objects' = objects \cup {u} \/ UNCHANGED objects
  /\ Goto(u, "save")
  /\ UNCHANGED <<podVars, bucket, documents, hasStream, stream, lost, history, faults>>

\* PutObject may store the object and yet fail.
UploadFile(u) ==
  /\ At(u, "put")
  /\ \/ /\ objects' = objects \cup {u}
        /\ Goto(u, "save") \/ Refuse(u)
     \/ /\ Refuse(u)
        /\ UNCHANGED objects
  /\ UNCHANGED <<podVars, bucket, documents, hasStream, stream, lost, history, faults>>

\* No constraint speaks of the checksum.
Save(u) ==
  LET row == [id |-> u, checksum |-> ContentOf[u]]
  IN /\ At(u, "save")
     /\ \/ /\ documents' = documents \cup {row}
           /\ Goto(u, "publish") \/ Refuse(u)
        \/ /\ Refuse(u)
           /\ UNCHANGED documents
     /\ UNCHANGED <<podVars, bucket, objects, hasStream, stream, lost, history, faults>>

\* Mutant: the error of PublishMsg is logged, and the upload answered 201.
PublishUnchecked(u) ==
  LET p == PodOf[u]
  IN /\ At(u, "publish")
     /\ \/ /\ publisher[p]
           /\ outbox' = [outbox EXCEPT ![p] = Append(@, u)] \/ UNCHANGED outbox
           /\ Created(u, u)
        \/ /\ ~publisher[p]
           /\ Answer(u, 0, None)
           /\ UNCHANGED outbox
     /\ UNCHANGED <<once, publisher, storeVars, history, faults>>

\* PublishMsg of a core NATS connection leaves the event in a buffer.  Without a
\* publisher the handler panics, and net/http drops the connection.
PublishDocumentCreated(u) ==
  LET p == PodOf[u]
  IN /\ At(u, "publish")
     /\ \/ /\ publisher[p]
           /\ outbox' = [outbox EXCEPT ![p] = Append(@, u)]
           /\ Created(u, u)
        \/ /\ publisher[p]
           /\ Refuse(u)
           /\ UNCHANGED outbox
        \/ /\ ~publisher[p]
           /\ Answer(u, 0, None)
           /\ UNCHANGED outbox
     /\ UNCHANGED <<once, publisher, storeVars, history, faults>>

-----------------------------------------------------------------------------
(* NATS, the pipe service and the processes. *)

\* The server takes the next event, and stores it if there is a stream for it.
Flush(p) ==
  /\ outbox[p] # << >>
  /\ outbox' = [outbox EXCEPT ![p] = Tail(@)]
  /\ IF hasStream
       THEN /\ stream' = stream \cup {Head(outbox[p])}
            /\ UNCHANGED lost
       ELSE /\ lost' = lost \cup {Head(outbox[p])}
            /\ UNCHANGED stream
  /\ UNCHANGED <<req, once, publisher, bucket, objects, documents, hasStream, history, faults>>

\* A pipe pod starts: AddStream.
AddStream ==
  /\ ~hasStream
  /\ hasStream' = TRUE
  /\ UNCHANGED <<req, podVars, bucket, objects, documents, stream, lost, history, faults>>

OutboxLost(p) ==
  /\ outbox' = [outbox EXCEPT ![p] = << >>]
  /\ lost' = lost \cup ToSet(outbox[p])

\* What was on its way when the connection broke is not sent again.
Disconnect(p) ==
  /\ outbox[p] # << >>
  /\ Fault
  /\ OutboxLost(p)
  /\ UNCHANGED <<req, once, publisher, bucket, objects, documents, hasStream, stream, history>>

\* The process dies and is started again.
Crash(p) ==
  /\ Fault
  /\ req' = [u \in Uploads |->
               IF PodOf[u] = p /\ req[u].stage \notin {"idle", "ended"}
                 THEN [req[u] EXCEPT !.stage = "ended"] ELSE req[u]]
  /\ once' = [once EXCEPT ![p] = "new"]
  /\ \E up \in BOOLEAN : publisher' = [publisher EXCEPT ![p] = up]
  /\ OutboxLost(p)
  /\ UNCHANGED <<bucket, objects, documents, hasStream, stream, history>>

-----------------------------------------------------------------------------
Serve(u) ==
  \/ FindByChecksum(u) \/ EnsureBucket(u) \/ BucketExists(u) \/ MakeBucket(u)
  \/ UploadFile(u) \/ Save(u) \/ PublishDocumentCreated(u)

Next == \/ \E u \in Uploads : Upload(u) \/ Serve(u)
        \/ \E p \in Pods : Flush(p) \/ Disconnect(p) \/ Crash(p)
        \/ AddStream

Spec == Init /\ [][Next]_vars

\* The goroutine of a request runs, and calls to the stores return.
FairSpec == Spec /\ \A u \in Uploads : WF_vars(Serve(u))

-----------------------------------------------------------------------------
Stages == {"idle", "lookup", "bucket", "exists", "make", "put", "save", "publish", "ended"}

Request == [stage : Stages, code : {0, 201, 400, 500}, doc : Uploads \cup {None}]

RequestsOK ==
  /\ req \in [Uploads -> Request]
  /\ \A u \in Uploads : req[u].code = 201 <=> req[u].doc # None

\* Types of the requests and of the stores; an answer names a document exactly
\* when it is a 201.
TypeOK ==
  /\ RequestsOK
  /\ once \in [Pods -> {"new", "running", "ok", "failed"}]
  /\ publisher \in [Pods -> BOOLEAN]
  /\ outbox \in [Pods -> Seq(Uploads)]
  /\ bucket \in BOOLEAN
  /\ objects \subseteq Uploads
  /\ documents \subseteq [id : Uploads, checksum : Checksums]
  /\ hasStream \in BOOLEAN
  /\ stream \subseteq Uploads
  /\ lost \subseteq Uploads
  /\ after \in [Uploads -> SUBSET Checksums]
  /\ blind \subseteq Uploads
  /\ faults \in 0 .. MaxFaults

Stored == {r.id : r \in documents}

Pending == UNION {ToSet(outbox[p]) : p \in Pods}

Published == Pending \cup stream \cup lost

\* Whatever fails or crashes in between, an event is only ever of a document with
\* a row, and a row only of a file that is in MinIO: the pipe service never gets
\* an event it can do nothing with.
NothingDangling ==
  /\ Published \subseteq Stored
  /\ Stored \subseteq objects

\* A client that is answered 201 has the id of a stored document with the very
\* checksum it uploaded.  If no event of that document was published, the upload
\* that stored it has had another answer than 201, or none: for its duplicates
\* the answer promises no more (see CreatedIsPublished).
CreatedIsStored ==
  \A u \in Uploads : req[u].code = 201 =>
    LET d == req[u].doc
    IN /\ \E r \in documents : r.id = d /\ r.checksum = ContentOf[u]
       /\ d \in Published \/ req[d].code # 201

\* A file is stored a second time only by a request that overlapped the one that
\* stored it first, or whose lookup returned an error.
SecondCopyOnlyIfConcurrent ==
  \A u \in Uploads : u \in Stored /\ ContentOf[u] \in after[u] => u \in blind

\* No request is left waiting behind bucketOnce or anywhere else.
EveryUploadEnds ==
  \A u \in Uploads : []<>(req[u].stage \in {"idle", "ended"})

-----------------------------------------------------------------------------
(* What the documentation promises and the code does not do. *)

\* 201: the document is uploaded and its event is published, at the latest when
\* the upload that stored it has ended.
CreatedIsPublished ==
  \A u \in Uploads : LET d == req[u].doc
                     IN req[u].code = 201 /\ At(d, "ended") => d \in Published
=============================================================================
