----------------------- MODULE IngestionServiceProofs -----------------------
(***************************************************************************)
(* Theorems about the ingestion service, for any uploads, files, pods and  *)
(* number of faults: the order in which the stores are written leaves      *)
(* nothing dangling, a 201 names the right document, and only overlapping  *)
(* requests store a file twice.                                            *)
(***************************************************************************)
EXTENDS IngestionService, TLAPS

\* What a call does to its own request, and to no other.
LEMMA GotoReq ==
  ASSUME RequestsOK, NEW u \in Uploads, NEW s \in Stages, Goto(u, s)
  PROVE  /\ RequestsOK'
         /\ \A v \in Uploads : v # u => req'[v] = req[v]
         /\ req'[u].stage = s
         /\ req'[u].code = req[u].code
         /\ req'[u].doc = req[u].doc
  <1>1. req' \in [Uploads -> Request]
    BY DEF RequestsOK, Goto, Request
  <1>2. \A v \in Uploads : v # u => req'[v] = req[v]
    BY DEF RequestsOK, Goto
  <1>3. req'[u].stage = s /\ req'[u].code = req[u].code /\ req'[u].doc = req[u].doc
    BY DEF RequestsOK, Goto, Request
  <1>4. \A v \in Uploads : req'[v].code = 201 <=> req'[v].doc # None
    BY <1>2, <1>3 DEF RequestsOK
  <1> QED BY <1>1, <1>2, <1>3, <1>4 DEF RequestsOK

LEMMA AnswerReq ==
  ASSUME RequestsOK, NEW u \in Uploads, NEW c \in {0, 201, 400, 500}, NEW d \in Uploads \cup {None},
         IF c = 201 THEN d # None ELSE d = None, Answer(u, c, d)
  PROVE  /\ RequestsOK'
         /\ \A v \in Uploads : v # u => req'[v] = req[v]
         /\ req'[u].stage = "ended" /\ req'[u].code = c /\ req'[u].doc = d
  <1>1. req'[u] = [stage |-> "ended", code |-> c, doc |-> d]
    BY DEF RequestsOK, Answer
  <1>2. \A v \in Uploads : v # u => req'[v] = req[v]
    BY DEF RequestsOK, Answer
  <1>3. req' \in [Uploads -> Request]
    BY DEF RequestsOK, Answer, Request, Stages
  <1>4. \A v \in Uploads : req'[v].code = 201 <=> req'[v].doc # None
    BY <1>1, <1>2 DEF RequestsOK
  <1> QED BY <1>1, <1>2, <1>3, <1>4 DEF RequestsOK

LEMMA RefuseReq ==
  ASSUME RequestsOK, NEW u \in Uploads, Refuse(u) \/ BadRequest(u) \/ Answer(u, 0, None)
  PROVE  /\ RequestsOK'
         /\ \A v \in Uploads : v # u => req'[v] = req[v]
         /\ req'[u].stage = "ended" /\ req'[u].code # 201
  <1>1. CASE Answer(u, 500, None)
    BY <1>1, AnswerReq
  <1>2. CASE Answer(u, 0, None)
    BY <1>2, AnswerReq
  <1>3. CASE Answer(u, 400, None)
    BY <1>3, AnswerReq
  <1> QED BY <1>1, <1>2, <1>3 DEF Refuse, BadRequest

LEMMA CreatedReq ==
  ASSUME RequestsOK, NEW u \in Uploads, NEW d \in Uploads, Created(u, d)
  PROVE  /\ RequestsOK'
         /\ \A v \in Uploads : v # u => req'[v] = req[v]
         /\ req'[u].stage = "ended" /\ req'[u].code = 201 /\ req'[u].doc = d
  <1>1. Answer(u, 201, d) /\ d # None
    BY UploadAssumption DEF Created
  <1> QED BY <1>1, AnswerReq

LEMMA AnswerDiffers ==
  ASSUME RequestsOK, NEW u \in Uploads
  PROVE  ~(Created(u, u) /\ (Refuse(u) \/ Answer(u, 0, None)))
  BY CreatedReq, RefuseReq

LEMMA PodOfType == \A u \in Uploads : PodOf[u] \in Pods /\ ContentOf[u] \in Checksums
  BY UploadAssumption

\* The steps of bucketOnce change nothing but the request and the pod's once.
BucketSteps(u) == EnsureBucket(u) \/ BucketExists(u) \/ MakeBucket(u)

LEMMA InitType == Init => TypeOK
  <1> SUFFICES ASSUME Init PROVE TypeOK
    OBVIOUS
  <1>1. NoRequest \in Request
    BY DEF NoRequest, Request, Stages
  <1>2. RequestsOK
    BY <1>1 DEF Init, RequestsOK, NoRequest
  <1>3. outbox \in [Pods -> Seq(Uploads)]
    BY DEF Init
  <1>4. /\ once \in [Pods -> {"new", "running", "ok", "failed"}]
        /\ publisher \in [Pods -> BOOLEAN]
        /\ after \in [Uploads -> SUBSET Checksums]
    BY DEF Init
  <1>5. bucket \in BOOLEAN /\ hasStream \in BOOLEAN
    BY Zenon DEF Init
  <1>6. /\ objects \subseteq Uploads
        /\ documents \subseteq [id : Uploads, checksum : Checksums]
        /\ stream \subseteq Uploads /\ lost \subseteq Uploads /\ blind \subseteq Uploads
    BY Zenon DEF Init
  <1>7. faults \in 0 .. MaxFaults
    BY UploadAssumption DEF Init
  <1> QED BY <1>2, <1>3, <1>4, <1>5, <1>6, <1>7, Zenon DEF TypeOK

LEMMA StepType == TypeOK /\ [Next]_vars => TypeOK'
  <1> SUFFICES ASSUME TypeOK, [Next]_vars PROVE TypeOK'
    OBVIOUS
  <1> USE DEF podVars, storeVars, history
  <1>1. ASSUME NEW u \in Uploads, Upload(u) PROVE TypeOK'
    <2>1. RequestsOK'
      BY <1>1, GotoReq, RefuseReq DEF Upload, Stages, TypeOK
    <2>2. after' \in [Uploads -> SUBSET Checksums]
      BY <1>1 DEF Upload, TypeOK
    <2> QED BY <1>1, <2>1, <2>2 DEF Upload, TypeOK, RequestsOK
  <1>2. ASSUME NEW u \in Uploads, FindByChecksum(u) PROVE TypeOK'
    <2>1. RequestsOK'
      BY <1>2, GotoReq, CreatedReq DEF FindByChecksum, Stages, Rows, TypeOK
    <2> QED BY <1>2, <2>1 DEF FindByChecksum, TypeOK, RequestsOK
  <1>3. ASSUME NEW u \in Uploads, BucketSteps(u) PROVE TypeOK'
    <2>1. RequestsOK'
      BY <1>3, GotoReq, RefuseReq
         DEF BucketSteps, EnsureBucket, BucketExists, MakeBucket, BucketReady, BucketFails, Stages, TypeOK
    <2>2. once' \in [Pods -> {"new", "running", "ok", "failed"}] /\ bucket' \in BOOLEAN
      BY <1>3, PodOfType
         DEF BucketSteps, EnsureBucket, BucketExists, MakeBucket, BucketReady, BucketFails, TypeOK
    <2> QED BY <1>3, <2>1, <2>2
            DEF BucketSteps, EnsureBucket, BucketExists, MakeBucket, TypeOK, RequestsOK
  <1>4. ASSUME NEW u \in Uploads, UploadFile(u) PROVE TypeOK'
    <2>1. RequestsOK'
      BY <1>4, GotoReq, RefuseReq DEF UploadFile, Stages, TypeOK
    <2> QED BY <1>4, <2>1 DEF UploadFile, TypeOK, RequestsOK
  <1>5. ASSUME NEW u \in Uploads, Save(u) PROVE TypeOK'
    <2>1. RequestsOK'
      BY <1>5, GotoReq, RefuseReq DEF Save, Stages, TypeOK
    <2>2. documents' \subseteq [id : Uploads, checksum : Checksums]
      BY <1>5, PodOfType DEF Save, TypeOK
    <2> QED BY <1>5, <2>1, <2>2 DEF Save, TypeOK, RequestsOK
  <1>6. ASSUME NEW u \in Uploads, PublishDocumentCreated(u) PROVE TypeOK'
    <2>1. RequestsOK'
      BY <1>6, CreatedReq, RefuseReq DEF PublishDocumentCreated, TypeOK
    <2>2. Append(outbox[PodOf[u]], u) \in Seq(Uploads)
      BY PodOfType DEF TypeOK
    <2>3. outbox' \in [Pods -> Seq(Uploads)]
      BY <1>6, <2>2, PodOfType DEF PublishDocumentCreated, TypeOK
    <2> QED BY <1>6, <2>1, <2>3 DEF PublishDocumentCreated, TypeOK, RequestsOK
  <1>7. ASSUME NEW p \in Pods, Flush(p) PROVE TypeOK'
    <2>1. outbox[p] \in Seq(Uploads) /\ outbox[p] # << >>
      BY <1>7 DEF Flush, TypeOK
    <2>2. Head(outbox[p]) \in Uploads /\ Tail(outbox[p]) \in Seq(Uploads)
      BY <2>1
    <2>3. outbox' \in [Pods -> Seq(Uploads)]
      BY <1>7, <2>2 DEF Flush, TypeOK
    <2> QED BY <1>7, <2>2, <2>3 DEF Flush, TypeOK, RequestsOK
  <1>8. ASSUME NEW p \in Pods, OutboxLost(p)
        PROVE outbox' \in [Pods -> Seq(Uploads)] /\ lost' \subseteq Uploads
    BY <1>8 DEF OutboxLost, ToSet, TypeOK
  <1>9. ASSUME NEW p \in Pods, Disconnect(p) PROVE TypeOK'
    BY <1>8, <1>9, UploadAssumption DEF Disconnect, Fault, TypeOK, RequestsOK
  <1>10. ASSUME NEW p \in Pods, Crash(p) PROVE TypeOK'
    <2>1. \A u \in Uploads : /\ req'[u] \in Request
                             /\ req'[u].code = req[u].code /\ req'[u].doc = req[u].doc
      <3> SUFFICES ASSUME NEW u \in Uploads
                   PROVE  /\ req'[u] \in Request
                          /\ req'[u].code = req[u].code /\ req'[u].doc = req[u].doc
        OBVIOUS
      <3>1. req[u] \in Request
        BY DEF TypeOK, RequestsOK
      <3>2. req'[u] = req[u] \/ req'[u] = [req[u] EXCEPT !.stage = "ended"]
        BY <1>10 DEF Crash
      <3>3. "ended" \in Stages
        BY DEF Stages
      <3> QED BY <3>1, <3>2, <3>3 DEF Request
    <2>2. RequestsOK'
      BY <1>10, <2>1 DEF Crash, TypeOK, RequestsOK
    <2>3. once' \in [Pods -> {"new", "running", "ok", "failed"}] /\ publisher' \in [Pods -> BOOLEAN]
      BY <1>10 DEF Crash, TypeOK
    <2>4. faults' \in 0 .. MaxFaults
      BY <1>10, UploadAssumption DEF Crash, Fault, TypeOK
    <2> QED BY <1>8, <1>10, <2>2, <2>3, <2>4 DEF Crash, TypeOK, RequestsOK
  <1>11. CASE AddStream
    BY <1>11 DEF AddStream, TypeOK, RequestsOK
  <1>12. CASE UNCHANGED vars
    BY <1>12 DEF vars, TypeOK, RequestsOK
  <1> QED BY <1>1, <1>2, <1>3, <1>4, <1>5, <1>6, <1>7, <1>9, <1>10, <1>11, <1>12
          DEF Next, Serve, BucketSteps

\* Types of the requests and of the stores (TypeOK), in every reachable state.
THEOREM IngestionTypeCorrect == Spec => []TypeOK
  BY InitType, StepType, PTL DEF Spec

-----------------------------------------------------------------------------
(* What reaches NATS. *)

LEMMA ToSetAppend ==
  ASSUME NEW S, NEW s \in Seq(S), NEW e \in S
  PROVE  ToSet(Append(s, e)) = ToSet(s) \cup {e}
  <1>1. DOMAIN Append(s, e) = DOMAIN s \cup {Len(s) + 1}
    OBVIOUS
  <1>2. Append(s, e)[Len(s) + 1] = e /\ \A i \in DOMAIN s : Append(s, e)[i] = s[i]
    OBVIOUS
  <1> QED BY <1>1, <1>2 DEF ToSet

LEMMA ToSetHeadTail ==
  ASSUME NEW S, NEW s \in Seq(S), s # << >>
  PROVE  ToSet(s) = {Head(s)} \cup ToSet(Tail(s))
  <1>1. \A i \in DOMAIN Tail(s) : Tail(s)[i] = s[i + 1] /\ i + 1 \in DOMAIN s
    OBVIOUS
  <1>2. \A i \in DOMAIN s : i # 1 => i - 1 \in DOMAIN Tail(s) /\ Tail(s)[i - 1] = s[i]
    OBVIOUS
  <1>3. 1 \in DOMAIN s /\ Head(s) = s[1]
    OBVIOUS
  <1>4. ToSet(s) \subseteq {Head(s)} \cup ToSet(Tail(s))
    BY <1>2, <1>3 DEF ToSet
  <1>5. {Head(s)} \cup ToSet(Tail(s)) \subseteq ToSet(s)
    BY <1>1, <1>3 DEF ToSet
  <1> QED BY <1>4, <1>5

\* An event that is published stays so: it moves from the buffer of its pod to
\* the stream, or is lost, and nothing else is added by NATS.
NatsSteps == \E p \in Pods : Flush(p) \/ Disconnect(p) \/ Crash(p)

LEMMA PublishedIff ==
  \A e : e \in Published <=> \/ \E p \in Pods : e \in ToSet(outbox[p])
                             \/ e \in stream \/ e \in lost
  BY DEF Published, Pending

LEMMA OutboxLostPublished ==
  ASSUME TypeOK, NEW p \in Pods, OutboxLost(p), UNCHANGED stream
  PROVE  Published' = Published
  <1>1. \A q \in Pods : outbox'[q] = IF q = p THEN << >> ELSE outbox[q]
    BY DEF OutboxLost, TypeOK
  <1>2. ToSet(<< >>) = {}
    BY DEF ToSet
  <1>3. lost' = lost \cup ToSet(outbox[p]) /\ stream' = stream
    BY DEF OutboxLost
  <1>4. \A e : e \in Published' <=> \/ \E q \in Pods : e \in ToSet(outbox'[q])
                                    \/ e \in stream' \/ e \in lost'
    BY DEF Published, Pending
  <1>5. \A e : e \in Published' <=> e \in Published
    BY <1>1, <1>2, <1>3, <1>4, PublishedIff
  <1> QED BY <1>5

LEMMA NatsPublished ==
  ASSUME TypeOK, NatsSteps PROVE Published' = Published
  <1>1. ASSUME NEW p \in Pods, Flush(p) PROVE Published' = Published
    <2>1. outbox[p] \in Seq(Uploads) /\ outbox[p] # << >>
      BY <1>1 DEF Flush, TypeOK
    <2>2. ToSet(outbox[p]) = {Head(outbox[p])} \cup ToSet(Tail(outbox[p]))
      BY <2>1, ToSetHeadTail
    <2>3. \A q \in Pods : outbox'[q] = IF q = p THEN Tail(outbox[p]) ELSE outbox[q]
      BY <1>1 DEF Flush, TypeOK
    <2>4. stream' \cup lost' = stream \cup lost \cup {Head(outbox[p])}
      BY <1>1 DEF Flush
    <2>5. \A e : e \in Published' <=> \/ \E q \in Pods : e \in ToSet(outbox'[q])
                                      \/ e \in stream' \cup lost'
      BY DEF Published, Pending
    <2>6. \A e : e \in Published' <=> e \in Published
      BY <2>2, <2>3, <2>4, <2>5, PublishedIff
    <2> QED BY <2>6
  <1>2. ASSUME NEW p \in Pods, Disconnect(p) \/ Crash(p) PROVE Published' = Published
    BY <1>2, OutboxLostPublished DEF Disconnect, Crash
  <1> QED BY <1>1, <1>2 DEF NatsSteps

LEMMA PublishPublished ==
  ASSUME TypeOK, NEW u \in Uploads, PublishDocumentCreated(u)
  PROVE  /\ Published' \subseteq Published \cup {u}
         /\ Published \subseteq Published'
         /\ Created(u, u) => u \in Published'
  <1>1. outbox[PodOf[u]] \in Seq(Uploads) /\ PodOf[u] \in Pods
    BY PodOfType DEF TypeOK
  <1>2. stream' = stream /\ lost' = lost
    BY DEF PublishDocumentCreated, storeVars
  <1>3. \A e : e \in Published' <=> \/ \E q \in Pods : e \in ToSet(outbox'[q])
                                    \/ e \in stream' \/ e \in lost'
    BY DEF Published, Pending
  <1>4. CASE UNCHANGED outbox /\ ~Created(u, u)
    BY <1>2, <1>3, <1>4, PublishedIff
  <1>5. CASE outbox' = [outbox EXCEPT ![PodOf[u]] = Append(@, u)]
    <2>1. \A q \in Pods : outbox'[q] = IF q = PodOf[u] THEN Append(outbox[q], u) ELSE outbox[q]
      BY <1>5 DEF TypeOK
    <2>2. ToSet(Append(outbox[PodOf[u]], u)) = ToSet(outbox[PodOf[u]]) \cup {u}
      BY <1>1, ToSetAppend
    <2> QED BY <1>1, <1>2, <1>3, <2>1, <2>2, PublishedIff
  <1>6. ~(Created(u, u) /\ (Refuse(u) \/ Answer(u, 0, None)))
    BY AnswerDiffers DEF TypeOK
  <1> QED BY <1>4, <1>5, <1>6 DEF PublishDocumentCreated

-----------------------------------------------------------------------------
(* The order of the writes. *)

\* Where a request stands says what it has written; its row appears only on the
\* way to the last two stages.
InOrder ==
  \A u \in Uploads :
    /\ At(u, "save") => u \in objects
    /\ At(u, "publish") => u \in Stored
    /\ u \in Stored => At(u, "publish") \/ At(u, "ended")

RowsAreTrue == \A r \in documents : r.checksum = ContentOf[r.id]

\* A request past its lookup has seen that the checksum had no row, or nothing.
LookedUp ==
  \A u \in Uploads :
    /\ after[u] \subseteq {r.checksum : r \in documents}
    /\ req[u].stage \in {"bucket", "exists", "make", "put", "save", "publish"}
       /\ ContentOf[u] \in after[u] => u \in blind

\* A 201 ends a request and names a row of its file; where the request has stored
\* the row itself, its event is published.
AnswersTrue ==
  \A u \in Uploads : req[u].code = 201 =>
    /\ At(u, "ended")
    /\ \E r \in documents : r.id = req[u].doc /\ r.checksum = ContentOf[u]
    /\ u \in Stored => u \in Published

IngestionInv ==
  /\ TypeOK
  /\ InOrder /\ RowsAreTrue /\ LookedUp
  /\ NothingDangling /\ AnswersTrue /\ SecondCopyOnlyIfConcurrent

\* A step that writes no row and no object, publishes nothing, and leads a
\* request neither to a stage that presumes one of these nor to an answer.
Quiet(u) ==
  /\ UNCHANGED <<documents, after>>
  /\ objects \subseteq objects'
  /\ blind \subseteq blind'
  /\ Published' = Published
  /\ \A v \in Uploads : v # u => req'[v] = req[v]
  /\ ~At(u, "publish") /\ ~At(u, "ended")

LEMMA UnpublishedSame ==
  ASSUME UNCHANGED <<outbox, stream, lost>> PROVE Published' = Published
  BY DEF Published, Pending

LEMMA QuietStep ==
  ASSUME IngestionInv, TypeOK', NEW u \in Uploads, Quiet(u),
         At(u, "save")' => u \in objects',
         ~At(u, "publish")',
         req'[u].code = 201 =>
           /\ At(u, "ended")'
           /\ \E r \in documents : r.id = req'[u].doc /\ r.checksum = ContentOf[u],
         req'[u].stage \in {"bucket", "exists", "make", "put", "save"} =>
           /\ ContentOf[u] \in after[u] => u \in blind'
  PROVE  IngestionInv'
  <1>1. Stored' = Stored /\ u \notin Stored
    BY DEF Quiet, Stored, IngestionInv, InOrder
  <1>2. InOrder'
    BY <1>1 DEF Quiet, IngestionInv, InOrder, At
  <1>3. RowsAreTrue'
    BY DEF Quiet, IngestionInv, RowsAreTrue
  <1>4. LookedUp'
    BY <1>2 DEF Quiet, IngestionInv, LookedUp, InOrder, At
  <1>5. NothingDangling'
    BY <1>1 DEF Quiet, IngestionInv, NothingDangling
  <1>6. AnswersTrue'
    <2>1. ASSUME NEW v \in Uploads, v # u, req'[v].code = 201
          PROVE  /\ At(v, "ended")'
                 /\ \E r \in documents' : r.id = req'[v].doc /\ r.checksum = ContentOf[v]
                 /\ v \in Stored' => v \in Published'
      BY <1>1, <2>1 DEF Quiet, IngestionInv, AnswersTrue, At
    <2>2. documents' = documents /\ u \notin Stored'
      BY <1>1 DEF Quiet
    <2> QED BY <2>1, <2>2 DEF AnswersTrue
  <1>7. SecondCopyOnlyIfConcurrent'
    BY <1>1 DEF Quiet, IngestionInv, SecondCopyOnlyIfConcurrent
  <1> QED BY <1>2, <1>3, <1>4, <1>5, <1>6, <1>7 DEF IngestionInv

LEMMA UnansweredYet ==
  ASSUME IngestionInv, NEW u \in Uploads, ~At(u, "ended")
  PROVE  req[u].code # 201
  BY DEF IngestionInv, AnswersTrue

LEMMA FindStep ==
  ASSUME IngestionInv, TypeOK', NEW u \in Uploads, FindByChecksum(u)
  PROVE  IngestionInv'
  <1>1. RequestsOK /\ "bucket" \in Stages
    BY DEF IngestionInv, TypeOK, Stages
  <1>2. /\ UNCHANGED <<documents, after, objects>>
        /\ blind \subseteq blind'
        /\ Published' = Published
    BY UnpublishedSame DEF FindByChecksum, podVars, storeVars
  <1>3. At(u, "lookup") /\ u \notin Stored
    BY DEF FindByChecksum, IngestionInv, InOrder, At
  <1>4. ASSUME NEW r \in Rows(ContentOf[u]), Created(u, r.id) PROVE IngestionInv'
    <2>1. r \in documents /\ r.checksum = ContentOf[u] /\ r.id \in Uploads /\ r.id # u
      BY <1>3 DEF Rows, IngestionInv, TypeOK, Stored
    <2>2. /\ \A v \in Uploads : v # u => req'[v] = req[v]
          /\ req'[u].stage = "ended" /\ req'[u].code = 201 /\ req'[u].doc = r.id
      BY <1>1, <1>4, <2>1, CreatedReq
    <2>3. Quiet(u)
      BY <1>2, <1>3, <2>2 DEF Quiet, At
    <2> QED BY <2>1, <2>2, <2>3, QuietStep DEF At
  <1>5. CASE Goto(u, "bucket") /\ (Rows(ContentOf[u]) = {} \/ blind' = blind \cup {u})
    <2>1. /\ \A v \in Uploads : v # u => req'[v] = req[v]
          /\ req'[u].stage = "bucket"
          /\ req'[u].code = req[u].code /\ req'[u].doc = req[u].doc
      BY <1>1, <1>5, GotoReq
    <2>2. ContentOf[u] \in after[u] => u \in blind'
      BY <1>5 DEF IngestionInv, LookedUp, Rows
    <2>3. Quiet(u)
      BY <1>2, <1>3, <2>1 DEF Quiet, At
    <2>4. req'[u].code # 201
      BY <2>1, <2>3, UnansweredYet DEF Quiet
    <2> QED BY <2>1, <2>2, <2>3, <2>4, QuietStep DEF At
  <1> QED BY <1>4, <1>5 DEF FindByChecksum

\* The requests of other uploads are as they were, this one goes on to a stage
\* of bucketOnce or to the upload of its file, or ends with an error.
LEMMA StoreStep ==
  ASSUME IngestionInv, TypeOK', NEW u \in Uploads, BucketSteps(u) \/ UploadFile(u)
  PROVE  IngestionInv'
  <1>1. RequestsOK
    BY DEF IngestionInv, TypeOK
  <1>2. /\ UNCHANGED <<documents, after, blind>>
        /\ objects \subseteq objects'
        /\ Published' = Published
    BY UnpublishedSame
       DEF BucketSteps, EnsureBucket, BucketExists, MakeBucket, UploadFile, podVars, storeVars, history
  <1>3. req[u].stage \in {"bucket", "exists", "make", "put"} /\ u \notin Stored
    BY DEF BucketSteps, EnsureBucket, BucketExists, MakeBucket, UploadFile, IngestionInv, InOrder, At
  <1>4. ASSUME NEW s \in {"exists", "make", "put", "save"}, Goto(u, s), s = "save" => u \in objects'
        PROVE  IngestionInv'
    <2>1. s \in Stages
      BY DEF Stages
    <2>2. /\ \A v \in Uploads : v # u => req'[v] = req[v]
          /\ req'[u].stage = s
          /\ req'[u].code = req[u].code /\ req'[u].doc = req[u].doc
      BY <1>1, <1>4, <2>1, GotoReq
    <2>3. Quiet(u)
      BY <1>2, <1>3, <2>2 DEF Quiet, At
    <2>4. ContentOf[u] \in after[u] => u \in blind'
      BY <1>2, <1>3 DEF IngestionInv, LookedUp
    <2>5. req'[u].code # 201
      BY <2>2, <2>3, UnansweredYet DEF Quiet
    <2> QED BY <1>4, <2>2, <2>3, <2>4, <2>5, QuietStep DEF At
  <1>5. CASE Refuse(u)
    <2>1. /\ \A v \in Uploads : v # u => req'[v] = req[v]
          /\ req'[u].stage = "ended" /\ req'[u].code # 201
      BY <1>1, <1>5, RefuseReq
    <2>2. Quiet(u)
      BY <1>2, <1>3, <2>1 DEF Quiet, At
    <2> QED BY <2>1, <2>2, QuietStep DEF At
  <1>6. \/ Refuse(u)
        \/ \E s \in {"exists", "make", "put", "save"} : Goto(u, s) /\ (s = "save" => u \in objects')
    BY DEF BucketSteps, EnsureBucket, BucketExists, MakeBucket, BucketReady, BucketFails, UploadFile
  <1> QED BY <1>4, <1>5, <1>6

\* Save either refuses the upload with nothing written, or writes its row; the
\* lookup of this request has shown that it stores no second copy knowingly.
LEMMA SaveStep ==
  ASSUME IngestionInv, TypeOK', NEW u \in Uploads, Save(u)
  PROVE  IngestionInv'
  <1> DEFINE row == [id |-> u, checksum |-> ContentOf[u]]
  <1>1. RequestsOK /\ "publish" \in Stages
    BY DEF IngestionInv, TypeOK, Stages
  <1>2. UNCHANGED <<objects, after, blind>> /\ Published' = Published
    BY UnpublishedSame DEF Save, podVars, history
  <1>3. /\ At(u, "save") /\ u \in objects /\ u \notin Stored
        /\ ContentOf[u] \in after[u] => u \in blind
    BY DEF Save, IngestionInv, InOrder, LookedUp, At
  <1>4. \A v \in Uploads : v # u => req'[v] = req[v]
    BY <1>1, GotoReq, RefuseReq DEF Save
  <1>5. CASE documents' = documents
    <2>1. row \notin documents
      BY <1>3 DEF Stored
    <2>2. Refuse(u)
      BY <1>3, <1>5, <2>1 DEF Save
    <2>3. req'[u].stage = "ended" /\ req'[u].code # 201
      BY <1>1, <2>2, RefuseReq
    <2>4. Quiet(u)
      BY <1>2, <1>3, <1>4, <1>5 DEF Quiet, At
    <2> QED BY <2>3, <2>4, QuietStep DEF At
  <1>6. CASE documents' = documents \cup {row}
    <2>1. Stored' = Stored \cup {u}
      <3>1. row.id = u
        OBVIOUS
      <3>2. \A x : x \in Stored' <=> \E r \in documents' : r.id = x
        BY DEF Stored
      <3>3. \A x : x \in Stored <=> \E r \in documents : r.id = x
        BY DEF Stored
      <3> HIDE DEF row
      <3>4. \A x : x \in Stored' <=> x \in Stored \/ x = u
        BY <1>6, <3>1, <3>2, <3>3
      <3> QED BY <3>4
    <2>2. req'[u].stage \in {"publish", "ended"} /\ req'[u].code # 201
      <3>1. req[u].code # 201
        BY <1>3, UnansweredYet DEF At
      <3> QED BY <1>1, <3>1, GotoReq, RefuseReq DEF Save
    <2>3. InOrder'
      BY <1>2, <1>4, <2>1, <2>2 DEF IngestionInv, InOrder, At
    <2>4. RowsAreTrue'
      BY <1>6 DEF IngestionInv, RowsAreTrue
    <2>5. LookedUp'
      <3>1. \A v \in Uploads : after'[v] \subseteq {r.checksum : r \in documents'}
        BY <1>2, <1>6 DEF IngestionInv, LookedUp
      <3> QED BY <1>2, <1>3, <1>4, <3>1 DEF IngestionInv, LookedUp
    <2>6. NothingDangling'
      BY <1>2, <1>3, <2>1 DEF IngestionInv, NothingDangling
    <2>7. AnswersTrue'
      <3> SUFFICES ASSUME NEW v \in Uploads, req'[v].code = 201
                   PROVE  /\ At(v, "ended")'
                          /\ \E r \in documents' : r.id = req'[v].doc /\ r.checksum = ContentOf[v]
                          /\ v \in Stored' => v \in Published'
        BY DEF AnswersTrue
      <3>1. v # u /\ req'[v] = req[v]
        BY <1>4, <2>2
      <3>2. /\ At(v, "ended")
            /\ \E r \in documents : r.id = req[v].doc /\ r.checksum = ContentOf[v]
            /\ v \in Stored => v \in Published
        BY <3>1 DEF IngestionInv, AnswersTrue
      <3>3. documents \subseteq documents'
        BY <1>6
      <3> QED BY <1>2, <2>1, <3>1, <3>2, <3>3 DEF At
    <2>8. SecondCopyOnlyIfConcurrent'
      BY <1>2, <1>3, <2>1 DEF IngestionInv, SecondCopyOnlyIfConcurrent
    <2> QED BY <2>3, <2>4, <2>5, <2>6, <2>7, <2>8 DEF IngestionInv
  <1> QED BY <1>5, <1>6 DEF Save

LEMMA PublishStep ==
  ASSUME IngestionInv, TypeOK', NEW u \in Uploads, PublishDocumentCreated(u)
  PROVE  IngestionInv'
  <1>1. TypeOK /\ RequestsOK
    BY DEF IngestionInv, TypeOK
  <1>2. UNCHANGED <<objects, documents, after, blind>> /\ Stored' = Stored
    BY DEF PublishDocumentCreated, storeVars, history, Stored
  <1>3. At(u, "publish") /\ u \in Stored
    BY DEF PublishDocumentCreated, IngestionInv, InOrder
  <1>4. /\ Published' \subseteq Published \cup {u}
        /\ Published \subseteq Published'
        /\ Created(u, u) => u \in Published'
    BY <1>1, PublishPublished
  <1>5. \/ Created(u, u)
        \/ Refuse(u) \/ Answer(u, 0, None)
    BY DEF PublishDocumentCreated
  <1>6. /\ \A v \in Uploads : v # u => req'[v] = req[v]
        /\ req'[u].stage = "ended"
        /\ req'[u].code = 201 => Created(u, u) /\ req'[u].doc = u
    BY <1>1, <1>5, CreatedReq, RefuseReq
  <1>7. InOrder'
    BY <1>2, <1>6 DEF IngestionInv, InOrder, At
  <1>8. RowsAreTrue'
    BY <1>2 DEF IngestionInv, RowsAreTrue
  <1>9. LookedUp'
    BY <1>2, <1>6 DEF IngestionInv, LookedUp
  <1>10. NothingDangling'
    BY <1>2, <1>3, <1>4 DEF IngestionInv, NothingDangling
  <1>11. AnswersTrue'
    <2>1. ASSUME NEW v \in Uploads, v # u, req'[v].code = 201
          PROVE  /\ At(v, "ended")'
                 /\ \E r \in documents' : r.id = req'[v].doc /\ r.checksum = ContentOf[v]
                 /\ v \in Stored' => v \in Published'
      BY <1>2, <1>4, <1>6, <2>1 DEF IngestionInv, AnswersTrue, At
    <2>2. PICK r \in documents : r.id = u /\ r.checksum = ContentOf[u]
      BY <1>3 DEF Stored, IngestionInv, RowsAreTrue
    <2>3. ASSUME req'[u].code = 201
          PROVE  /\ At(u, "ended")'
                 /\ \E q \in documents' : q.id = req'[u].doc /\ q.checksum = ContentOf[u]
                 /\ u \in Published'
      BY <1>2, <1>4, <1>6, <2>2, <2>3 DEF At
    <2> QED BY <2>1, <2>3 DEF AnswersTrue
  <1>12. SecondCopyOnlyIfConcurrent'
    BY <1>2 DEF IngestionInv, SecondCopyOnlyIfConcurrent
  <1> QED BY <1>7, <1>8, <1>9, <1>10, <1>11, <1>12 DEF IngestionInv

\* The history of what was stored when the request began is set here.
LEMMA UploadStep ==
  ASSUME IngestionInv, TypeOK', NEW u \in Uploads, Upload(u)
  PROVE  IngestionInv'
  <1>1. RequestsOK /\ "lookup" \in Stages
    BY DEF IngestionInv, TypeOK, Stages
  <1>2. UNCHANGED <<objects, documents, blind>> /\ Stored' = Stored /\ Published' = Published
    BY UnpublishedSame DEF Upload, podVars, storeVars, Stored
  <1>3. At(u, "idle") /\ u \notin Stored
    BY DEF Upload, IngestionInv, InOrder, At
  <1>4. /\ \A v \in Uploads : v # u => after'[v] = after[v]
        /\ after'[u] = {r.checksum : r \in documents}
    BY DEF Upload, IngestionInv, TypeOK
  <1>5. /\ \A v \in Uploads : v # u => req'[v] = req[v]
        /\ req'[u].stage \in {"lookup", "ended"}
        /\ req'[u].code # 201
    <2>1. req[u].code # 201
      BY <1>3, UnansweredYet DEF At
    <2> QED BY <1>1, <2>1, GotoReq, RefuseReq DEF Upload
  <1>6. InOrder'
    BY <1>2, <1>3, <1>5 DEF IngestionInv, InOrder, At
  <1>7. RowsAreTrue'
    BY <1>2 DEF IngestionInv, RowsAreTrue
  <1>8. LookedUp'
    BY <1>2, <1>4, <1>5 DEF IngestionInv, LookedUp
  <1>9. NothingDangling'
    BY <1>2 DEF IngestionInv, NothingDangling
  <1>10. AnswersTrue'
    <2>1. ASSUME NEW v \in Uploads, req'[v].code = 201
          PROVE  req'[v] = req[v]
      BY <1>5, <2>1
    <2> QED BY <1>2, <2>1 DEF IngestionInv, AnswersTrue, At
  <1>11. SecondCopyOnlyIfConcurrent'
    BY <1>2, <1>3, <1>4 DEF IngestionInv, SecondCopyOnlyIfConcurrent
  <1> QED BY <1>6, <1>7, <1>8, <1>9, <1>10, <1>11 DEF IngestionInv

\* Nothing that happens outside the requests touches rows or objects, and a
\* crash only ends requests.
LEMMA OutsideStep ==
  ASSUME IngestionInv, TypeOK', NatsSteps \/ AddStream \/ UNCHANGED vars
  PROVE  IngestionInv'
  <1>1. TypeOK
    BY DEF IngestionInv
  <1>2. UNCHANGED <<objects, documents, after, blind>> /\ Stored' = Stored
    BY DEF NatsSteps, Flush, Disconnect, Crash, AddStream, vars, podVars, storeVars, history, Stored
  <1>3. Published' = Published
    BY <1>1, NatsPublished, UnpublishedSame DEF AddStream, vars, podVars, storeVars
  <1>4. ASSUME NEW u \in Uploads
        PROVE  /\ req'[u].stage \in {req[u].stage, "ended"}
               /\ req'[u].code = req[u].code /\ req'[u].doc = req[u].doc
    <2>1. CASE UNCHANGED req
      BY <2>1
    <2>2. ASSUME NEW p \in Pods, Crash(p)
          PROVE  /\ req'[u].stage \in {req[u].stage, "ended"}
                 /\ req'[u].code = req[u].code /\ req'[u].doc = req[u].doc
      BY <1>1, <2>2 DEF Crash, TypeOK, RequestsOK, Request
    <2> QED BY <2>1, <2>2 DEF NatsSteps, Flush, Disconnect, AddStream, vars
  <1>5. InOrder'
    BY <1>2, <1>4 DEF IngestionInv, InOrder, At
  <1>6. RowsAreTrue'
    BY <1>2 DEF IngestionInv, RowsAreTrue
  <1>7. LookedUp'
    BY <1>2, <1>4 DEF IngestionInv, LookedUp
  <1>8. NothingDangling'
    BY <1>2, <1>3 DEF IngestionInv, NothingDangling
  <1>9. AnswersTrue'
    BY <1>2, <1>3, <1>4 DEF IngestionInv, AnswersTrue, At
  <1>10. SecondCopyOnlyIfConcurrent'
    BY <1>2 DEF IngestionInv, SecondCopyOnlyIfConcurrent
  <1> QED BY <1>5, <1>6, <1>7, <1>8, <1>9, <1>10 DEF IngestionInv

LEMMA IngestionInvInit == Init => IngestionInv
  <1> SUFFICES ASSUME Init PROVE IngestionInv
    OBVIOUS
  <1>1. TypeOK
    BY InitType
  <1>2. \A u \in Uploads : req[u].stage = "idle" /\ req[u].code = 0
    BY DEF Init, NoRequest
  <1>3. Stored = {}
    BY DEF Init, Stored
  <1>4. Published = {}
    BY DEF Init, Published, Pending, ToSet
  <1>5. RowsAreTrue /\ \A u \in Uploads : after[u] = {}
    BY DEF Init, RowsAreTrue
  <1> QED BY <1>1, <1>2, <1>3, <1>4, <1>5
          DEF IngestionInv, InOrder, LookedUp, NothingDangling, AnswersTrue,
              SecondCopyOnlyIfConcurrent, At

LEMMA IngestionInvStep == IngestionInv /\ [Next]_vars => IngestionInv'
  <1> SUFFICES ASSUME IngestionInv, [Next]_vars PROVE IngestionInv'
    OBVIOUS
  <1>1. TypeOK'
    BY StepType DEF IngestionInv
  <1>2. CASE NatsSteps \/ AddStream \/ UNCHANGED vars
    BY <1>1, <1>2, OutsideStep
  <1>3. ASSUME NEW u \in Uploads, Upload(u) \/ Serve(u) PROVE IngestionInv'
    BY <1>1, <1>3, UploadStep, FindStep, StoreStep, SaveStep, PublishStep DEF Serve, BucketSteps
  <1> QED BY <1>2, <1>3 DEF Next, NatsSteps

\* The order of the writes, seen from any state: what a request has come to says
\* what it has written, and the properties follow (ProcessAndIngest).
THEOREM IngestionInvariant == Spec => []IngestionInv
  BY IngestionInvInit, IngestionInvStep, PTL DEF Spec

\* Whatever fails or crashes between the writes, no event is without a row and no
\* row without an object (ProcessAndIngest).
THEOREM IngestionNothingDangling == Spec => []NothingDangling
  <1>1. IngestionInv => NothingDangling
    BY DEF IngestionInv
  <1> QED BY <1>1, IngestionInvariant, PTL

\* A 201 names a stored document with the checksum of the upload; of a document
\* whose event was not published, the upload that stored it was not answered 201
\* (UploadDocument).
THEOREM IngestionAnswersTrue == Spec => []CreatedIsStored
  <1>1. IngestionInv => CreatedIsStored
    <2> SUFFICES ASSUME IngestionInv, NEW u \in Uploads, req[u].code = 201
                 PROVE  /\ \E r \in documents : r.id = req[u].doc /\ r.checksum = ContentOf[u]
                        /\ req[u].doc \in Published \/ req[req[u].doc].code # 201
      BY DEF CreatedIsStored
    <2>1. PICK r \in documents : r.id = req[u].doc /\ r.checksum = ContentOf[u]
      BY DEF IngestionInv, AnswersTrue
    <2>2. req[u].doc \in Uploads /\ req[u].doc \in Stored
      BY <2>1 DEF IngestionInv, TypeOK, Stored
    <2> QED BY <2>1, <2>2 DEF IngestionInv, AnswersTrue
  <1> QED BY <1>1, IngestionInvariant, PTL

\* A file whose row is there when a request begins is not stored again by it,
\* unless its lookup failed (FindByChecksum).
THEOREM IngestionSecondCopies == Spec => []SecondCopyOnlyIfConcurrent
  <1>1. IngestionInv => SecondCopyOnlyIfConcurrent
    BY DEF IngestionInv
  <1> QED BY <1>1, IngestionInvariant, PTL
=============================================================================
