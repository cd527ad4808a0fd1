------------------------ MODULE EventSubscriberProofs -------------------------
(***************************************************************************)
(* Proofs about the event subscriber, for any events, pods and workers and *)
(* any number of faults and shutdowns.  SubInv is what there is to say of  *)
(* acknowledgements: no event passes for done that nobody decided.  PodInv *)
(* adds the types and the consumer; on the two rest the count of copies    *)
(* (Accounted) and the count of retries (RetryInv).                        *)
(***************************************************************************)
EXTENDS EventSubscriber, SequenceTheorems, FiniteSetTheorems, FunctionTheorems, TLAPS

\* What AckedMeansDecided asks for.
Outcome(e) == hist[e].handled \/ hist[e].givenUp

ServerStates == {"unsent", "new", "pending", "due", "acked"}

\* TypeOK, as far as the acknowledgements need it.
SubShapes ==
  /\ server \in [Events -> [st : ServerStates, num : Nat, wellFormed : BOOLEAN]]
  /\ inbox \in [Instances -> Seq(Messages)]
  /\ callback \in [Instances -> Messages \cup {None}]
  /\ msgChan \in [Instances -> Seq(Messages)]
  /\ worker \in [Workers -> [pc : {"idle", "handling", "dlq", "ack", "nak"},
                             msg : Messages \cup {None}]]

HistShape ==
  /\ DOMAIN hist = Events
  /\ \A e \in Events :
       DOMAIN hist[e] = {"handled", "failures", "givenUp", "reissued"}

\* A worker that is at work has a message; one that is about to publish a dead letter
\* has given its event up, and one that is about to acknowledge it has decided it, in
\* this delivery or in another.
WorkerInv(w) ==
  /\ worker[w].pc # "idle" => worker[w].msg \in Messages
  /\ worker[w].pc = "dlq" => hist[worker[w].msg.event].givenUp
  /\ worker[w].pc = "ack" => Outcome(worker[w].msg.event)

SubInv ==
  /\ SubShapes
  /\ HistShape
  /\ \A w \in Workers : WorkerInv(w)
  /\ AckedMeansDecided

\* What is decided stays decided.
Kept ==
  /\ HistShape'
  /\ \A e \in Events : /\ Outcome(e) => Outcome(e)'
                       /\ hist[e].givenUp => hist'[e].givenUp

-----------------------------------------------------------------------------
(* Effects on the history. *)

\* Flags that are set stay set.
LEMMA FlagsKept ==
  ASSUME HistShape',
         \A e \in Events : /\ hist[e].handled => hist'[e].handled
                           /\ hist[e].givenUp => hist'[e].givenUp
  PROVE  Kept
<1>1. \A e \in Events : Outcome(e) => Outcome(e)'  BY DEF Outcome
<1> QED  BY <1>1 DEF Kept

LEMMA SameHistory == ASSUME HistShape, UNCHANGED hist PROVE Kept
<1>1. HistShape'  BY DEF HistShape
<1> QED  BY <1>1, FlagsKept, Zenon

LEMMA ReissuedKept ==
  ASSUME HistShape, NEW e \in Events, NEW n, hist' = [hist EXCEPT ![e].reissued = n]
  PROVE  Kept
<1>1. DOMAIN hist' = Events  BY DEF HistShape
<1>2. hist'[e] = [hist[e] EXCEPT !.reissued = n] /\ \A d \in Events \ {e} : hist'[d] = hist[d]
  BY DEF HistShape
<1>3. /\ DOMAIN hist'[e] = DOMAIN hist[e]
      /\ hist'[e].handled = hist[e].handled
      /\ hist'[e].givenUp = hist[e].givenUp
  BY <1>2 DEF HistShape
<1>4. HistShape'  BY <1>1, <1>2, <1>3 DEF HistShape
<1>5. ASSUME NEW d \in Events
      PROVE  /\ hist[d].handled => hist'[d].handled
             /\ hist[d].givenUp => hist'[d].givenUp
  BY <1>2, <1>3, Zenon
<1> QED  BY <1>4, <1>5, FlagsKept, Zenon

LEMMA FailedKept ==
  ASSUME HistShape, NEW e \in Events, NEW m, Failed(e, m)
  PROVE  Kept /\ (AfterFailure(m) = "dlq" => hist'[e].givenUp)
<1> DEFINE f == hist[e].failures + 1
           g == hist[e].givenUp \/ AfterFailure(m) = "dlq"
<1>1. hist' = [hist EXCEPT ![e] = [[hist[e] EXCEPT !.failures = f] EXCEPT !.givenUp = g]]
  BY DEF Failed, HistShape
<1> HIDE DEF f, g
<1>2. DOMAIN hist' = Events  BY <1>1 DEF HistShape
<1>3. /\ hist'[e] = [[hist[e] EXCEPT !.failures = f] EXCEPT !.givenUp = g]
      /\ \A d \in Events \ {e} : hist'[d] = hist[d]
  BY <1>1 DEF HistShape
<1>4. /\ DOMAIN hist'[e] = DOMAIN hist[e]
      /\ hist'[e].handled = hist[e].handled
      /\ hist'[e].givenUp = g
  BY <1>3 DEF HistShape
<1>5. HistShape'  BY <1>2, <1>3, <1>4 DEF HistShape
<1>6. (hist[e].givenUp => g) /\ (AfterFailure(m) = "dlq" => g)  BY Zenon DEF g
<1>7. ASSUME NEW d \in Events
      PROVE  /\ hist[d].handled => hist'[d].handled
             /\ hist[d].givenUp => hist'[d].givenUp
  BY <1>3, <1>4, <1>6, Zenon
<1>8. Kept  BY <1>5, <1>7, FlagsKept, Zenon
<1> QED  BY <1>4, <1>6, <1>8, Zenon

LEMMA HandledKept ==
  ASSUME HistShape, NEW e \in Events, hist' = [hist EXCEPT ![e].handled = TRUE]
  PROVE  Kept /\ Outcome(e)'
<1>1. DOMAIN hist' = Events  BY DEF HistShape
<1>2. hist'[e] = [hist[e] EXCEPT !.handled = TRUE] /\ \A d \in Events \ {e} : hist'[d] = hist[d]
  BY DEF HistShape
<1>3. /\ DOMAIN hist'[e] = DOMAIN hist[e]
      /\ hist'[e].handled
      /\ \A x \in DOMAIN hist[e] \ {"handled"} : hist'[e][x] = hist[e][x]
  BY <1>2, Zenon DEF HistShape
<1>4. HistShape'  BY <1>1, <1>2, <1>3 DEF HistShape
<1>5. ASSUME NEW d \in Events
      PROVE  /\ hist[d].handled => hist'[d].handled
             /\ hist[d].givenUp => hist'[d].givenUp
  BY <1>2, <1>3 DEF HistShape
<1>6. Kept  BY <1>4, <1>5, FlagsKept, Zenon
<1> QED  BY <1>3, <1>5, <1>6, Zenon DEF Outcome

\* Every event is reissued with as many copies of it as there are.
LEMMA DeletedKept ==
  ASSUME HistShape, DeleteConsumer
  PROVE  Kept
<1>1. \A e \in Events : hist'[e] = [hist[e] EXCEPT !.reissued = hist[e].reissued + Copies(e)]
  BY DEF DeleteConsumer
<1>2. \A e \in Events :
        /\ DOMAIN hist'[e] = DOMAIN hist[e]
        /\ hist'[e].handled = hist[e].handled
        /\ hist'[e].givenUp = hist[e].givenUp
  BY <1>1 DEF HistShape
<1>3. HistShape'  BY <1>2 DEF HistShape, DeleteConsumer
<1> QED  BY <1>2, <1>3, FlagsKept, Zenon

-----------------------------------------------------------------------------
(* What a step may do to the workers and to the server. *)

\* A worker that does nothing else than it did, or nothing at all.
LEMMA WorkerKept ==
  ASSUME SubInv, Kept, NEW w \in Workers,
         worker'[w] = worker[w] \/ worker'[w] = IdleWorker
  PROVE  WorkerInv(w)'
<1>1. CASE worker'[w] = IdleWorker
  BY <1>1 DEF IdleWorker, WorkerInv
<1>2. CASE worker'[w] = worker[w]
  <2>1. WorkerInv(w)  BY DEF SubInv
  <2>2. worker[w].pc # "idle" => worker'[w].msg \in Messages
    BY <1>2, <2>1 DEF WorkerInv
  <2>3. ASSUME worker[w].pc = "ack" PROVE Outcome(worker[w].msg.event)'
    <3>1. worker[w].msg \in Messages /\ Outcome(worker[w].msg.event)
      BY <2>1, <2>3 DEF WorkerInv
    <3>2. PICK e \in Events : e = worker[w].msg.event  BY <3>1 DEF Messages
    <3>3. Outcome(e)  BY <3>1, <3>2
    <3>4. Outcome(e)'  BY <3>3, Zenon DEF Kept
    <3>5. worker'[w].msg.event = e  BY <1>2, <3>2
    <3> QED  BY <3>4, <3>5, Zenon DEF Outcome
  <2>4. ASSUME worker[w].pc = "dlq" PROVE hist'[worker[w].msg.event].givenUp
    <3>1. worker[w].msg \in Messages /\ hist[worker[w].msg.event].givenUp
      BY <2>1, <2>4 DEF WorkerInv
    <3>2. worker[w].msg.event \in Events  BY <3>1 DEF Messages
    <3> QED  BY <3>1, <3>2, Zenon DEF Kept
  <2> QED  BY <1>2, <2>2, <2>3, <2>4 DEF WorkerInv
<1> QED  BY <1>1, <1>2

\* The server acknowledges nothing that was not acknowledged before.
LEMMA AcksKept ==
  ASSUME SubInv, Kept,
         \A e \in Events : server'[e].st = "acked" => server[e].st = "acked"
  PROVE  AckedMeansDecided'
<1>1. \A e \in Events : server[e].st = "acked" => Outcome(e)
  BY Zenon DEF SubInv, AckedMeansDecided, Outcome
<1>2. \A e \in Events : server'[e].st = "acked" => Outcome(e)'
  BY <1>1, Zenon DEF Kept
<1> QED  BY <1>2, Zenon DEF AckedMeansDecided, Outcome

\* A step that leaves history and acknowledgements alone and starts no worker.
LEMMA QuietStep ==
  ASSUME SubInv, Kept, SubShapes',
         \A w \in Workers : worker'[w] = worker[w] \/ worker'[w] = IdleWorker,
         \A e \in Events : server'[e].st = "acked" => server[e].st = "acked"
  PROVE  SubInv'
<1>1. \A w \in Workers : WorkerInv(w)'  BY WorkerKept
<1>2. AckedMeansDecided'  BY AcksKept
<1> QED  BY <1>1, <1>2 DEF SubInv, Kept

\* A worker w takes message m to the next stage; the server hears nothing of it.
LEMMA WorkerGoesOn ==
  ASSUME SubInv, Kept, NEW w \in Workers, NEW m \in Messages,
         NEW s \in {"handling", "dlq", "ack", "nak"}, Become(w, s, m),
         UNCHANGED <<server, inbox, callback>>, msgChan' \in [Instances -> Seq(Messages)],
         s = "dlq" => hist'[m.event].givenUp, s = "ack" => Outcome(m.event)'
  PROVE  SubInv'
<1>1. /\ worker'[w] = [pc |-> s, msg |-> m]
      /\ \A v \in Workers \ {w} : worker'[v] = worker[v]
      /\ DOMAIN worker' = Workers
  BY DEF SubInv, SubShapes, Become
<1>2. WorkerInv(w)'  BY <1>1 DEF WorkerInv
<1>3. \A v \in Workers : WorkerInv(v)'  BY <1>1, <1>2, WorkerKept
<1>4. [pc |-> s, msg |-> m] \in [pc : {"idle", "handling", "dlq", "ack", "nak"},
                                 msg : Messages \cup {None}]
  OBVIOUS
<1>5. SubShapes'  BY <1>4 DEF SubInv, SubShapes, Become
<1>6. AckedMeansDecided'  BY AcksKept
<1> QED  BY <1>3, <1>5, <1>6 DEF SubInv, Kept

\* The message that comes next from a channel.
LEMMA FirstMessage ==
  ASSUME NEW q \in Seq(Messages), q # << >>
  PROVE  Head(q) \in Messages /\ Tail(q) \in Seq(Messages)
OBVIOUS

\* A failed message is naked or goes to the DLQ, never straight to the ack.
LEMMA FailedGoesOn == ASSUME NEW m PROVE AfterFailure(m) \in {"dlq", "nak"}
BY DEF AfterFailure

-----------------------------------------------------------------------------
(* The actions. *)

LEMMA SubInvInit == Init => SubInv
<1> SUFFICES ASSUME Init PROVE SubInv
  OBVIOUS
<1>1. SubShapes  BY DEF Init, SubShapes, IdleWorker, ServerStates
<1>2. HistShape  BY DEF Init, HistShape
<1>3. \A w \in Workers : WorkerInv(w)  BY DEF Init, WorkerInv, IdleWorker
<1>4. AckedMeansDecided
  <2>1. \A e \in Events : server[e].st # "acked"  BY DEF Init
  <2> QED  BY <2>1, Zenon DEF AckedMeansDecided
<1> QED  BY <1>1, <1>2, <1>3, <1>4 DEF SubInv

LEMMA PublishInv == ASSUME SubInv, NEW e \in Events, Publish(e) PROVE SubInv'
<1> USE DEF Publish, clientVars
<1>1. SubShapes'  BY DEF SubInv, SubShapes, ServerStates
<1>2. Kept  BY SameHistory DEF SubInv
<1>3. \A d \in Events : server'[d].st = "acked" => server[d].st = "acked"
  BY DEF SubInv, SubShapes
<1> QED  BY <1>1, <1>2, <1>3, QuietStep

LEMMA DeliverInv ==
  ASSUME SubInv, NEW e \in Events, NEW i \in Instances, Deliver(e, i)
  PROVE  SubInv'
<1> DEFINE r == server[e]
           n == r.num + 1
           m == Copy(e, n)
<1>1. r \in [st : ServerStates, num : Nat, wellFormed : BOOLEAN]
  BY DEF SubInv, SubShapes
<1>2. n \in Nat \ {0}  BY <1>1
<1>3. m \in Messages  BY <1>2 DEF Copy, Messages
<1>4. /\ server' = [server EXCEPT ![e] = [[r EXCEPT !.st = "pending"] EXCEPT !.num = n]]
      /\ inbox' = [inbox EXCEPT ![i] = Append(inbox[i], m)]
      /\ UNCHANGED <<callback, msgChan, worker, hist, dlq>>
  BY DEF Deliver, SubInv, SubShapes
<1> HIDE DEF r, n, m
<1>5. [[r EXCEPT !.st = "pending"] EXCEPT !.num = n]
        \in [st : ServerStates, num : Nat, wellFormed : BOOLEAN]
  BY <1>1, <1>2, Zenon DEF ServerStates
<1>6. server' \in [Events -> [st : ServerStates, num : Nat, wellFormed : BOOLEAN]]
  BY <1>4, <1>5 DEF SubInv, SubShapes
<1>7. inbox' \in [Instances -> Seq(Messages)]  BY <1>3, <1>4 DEF SubInv, SubShapes
<1>8. SubShapes'  BY <1>4, <1>6, <1>7 DEF SubInv, SubShapes
<1>9. Kept  BY <1>4, SameHistory DEF SubInv
<1>10. \A d \in Events : server'[d].st = "acked" => server[d].st = "acked"
  <2>1. server'[e].st = "pending"  BY <1>1, <1>4 DEF SubInv, SubShapes
  <2>2. \A d \in Events \ {e} : server'[d] = server[d]  BY <1>4 DEF SubInv, SubShapes
  <2> QED  BY <2>1, <2>2
<1> QED  BY <1>4, <1>8, <1>9, <1>10, QuietStep

LEMMA ExpireInv == ASSUME SubInv, NEW e \in Events, Expire(e) PROVE SubInv'
<1>1. SubShapes'  BY DEF Expire, clientVars, SubInv, SubShapes, ServerStates
<1>2. Kept
  <2>1. CASE UNCHANGED <<hist, dlq>>  BY <2>1, SameHistory DEF SubInv
  <2>2. CASE hist' = [hist EXCEPT ![e].reissued = hist[e].reissued + 1]
    BY <2>2, ReissuedKept DEF SubInv
  <2> QED  BY <2>1, <2>2 DEF Expire, SubInv, HistShape
<1>3. \A d \in Events : server'[d].st = "acked" => server[d].st = "acked"
  BY DEF Expire, SubInv, SubShapes
<1>4. UNCHANGED worker  BY DEF Expire, clientVars
<1> QED  BY <1>1, <1>2, <1>3, <1>4, QuietStep

LEMMA CallbackInv ==
  ASSUME SubInv, NEW i \in Instances, Callback(i)
  PROVE  SubInv'
<1>1. inbox[i] \in Seq(Messages) /\ inbox[i] # << >>
  BY DEF Callback, SubInv, SubShapes
<1>2. Head(inbox[i]) \in Messages /\ Tail(inbox[i]) \in Seq(Messages)
  BY <1>1, FirstMessage
<1>3. SubShapes'  BY <1>2 DEF Callback, SubInv, SubShapes
<1>4. Kept  BY SameHistory DEF Callback, SubInv
<1> QED  BY <1>3, <1>4, QuietStep DEF Callback

LEMMA SendInv == ASSUME SubInv, NEW i \in Instances, Send(i) PROVE SubInv'
<1>1. callback[i] \in Messages /\ msgChan[i] \in Seq(Messages)
  BY DEF Send, SubInv, SubShapes
<1>2. Append(msgChan[i], callback[i]) \in Seq(Messages)  BY <1>1, AppendProperties
<1>3. SubShapes'  BY <1>2 DEF Send, SubInv, SubShapes
<1>4. Kept  BY SameHistory DEF Send, SubInv
<1> QED  BY <1>3, <1>4, QuietStep DEF Send

LEMMA ReceiveInv == ASSUME SubInv, NEW w \in Workers, Receive(w) PROVE SubInv'
<1> DEFINE i == PodOf[w]
           m == Head(msgChan[i])
<1>1. i \in Instances  BY SubscriberAssumption
<1>2. msgChan[i] \in Seq(Messages) /\ msgChan[i] # << >>
  BY <1>1 DEF Receive, SubInv, SubShapes
<1>3. m \in Messages /\ Tail(msgChan[i]) \in Seq(Messages)  BY <1>2, FirstMessage
<1>4. msgChan' = [msgChan EXCEPT ![i] = Tail(msgChan[i])]
      /\ UNCHANGED <<server, inbox, callback, dlq>>
  BY <1>1 DEF Receive, SubInv, SubShapes
<1>5. \/ Become(w, "handling", m) /\ UNCHANGED hist
      \/ Become(w, AfterFailure(m), m) /\ Failed(m.event, m)
  BY DEF Receive
<1>6. m.event \in Events  BY <1>3 DEF Messages
<1> HIDE DEF i, m
<1>7. msgChan' \in [Instances -> Seq(Messages)]
  BY <1>1, <1>3, <1>4 DEF SubInv, SubShapes
<1>8. CASE Become(w, "handling", m) /\ UNCHANGED hist
  <2>1. Kept  BY <1>4, <1>8, SameHistory DEF SubInv
  <2> QED  BY <1>3, <1>4, <1>7, <1>8, <2>1, WorkerGoesOn
<1>9. CASE Become(w, AfterFailure(m), m) /\ Failed(m.event, m)
  <2>1. Kept /\ (AfterFailure(m) = "dlq" => hist'[m.event].givenUp)
    BY <1>4, <1>6, <1>9, FailedKept DEF SubInv
  <2>2. AfterFailure(m) \in {"dlq", "nak"}  BY FailedGoesOn
  <2> QED  BY <1>3, <1>4, <1>7, <1>9, <2>1, <2>2, WorkerGoesOn
<1> QED  BY <1>5, <1>8, <1>9

LEMMA HandlerReturnsInv ==
  ASSUME SubInv, NEW w \in Workers, HandlerReturns(w)
  PROVE  SubInv'
<1> DEFINE m == worker[w].msg
<1>1. m \in Messages /\ m.event \in Events
  BY DEF HandlerReturns, SubInv, WorkerInv, Messages
<1>2. msgChan' \in [Instances -> Seq(Messages)] /\ UNCHANGED <<server, inbox, callback, dlq>>
  BY DEF HandlerReturns, SubInv, SubShapes
<1>3. \/ Become(w, "ack", m) /\ hist' = [hist EXCEPT ![m.event].handled = TRUE]
      \/ Become(w, AfterFailure(m), m) /\ Failed(m.event, m)
  BY DEF HandlerReturns
<1> HIDE DEF m
<1>4. CASE Become(w, "ack", m) /\ hist' = [hist EXCEPT ![m.event].handled = TRUE]
  <2>1. PICK e \in Events : e = m.event  BY <1>1
  <2>2. Kept /\ Outcome(e)'  BY <1>2, <1>4, <2>1, HandledKept DEF SubInv
  <2> QED  BY <1>1, <1>2, <1>4, <2>1, <2>2, WorkerGoesOn DEF m
<1>5. CASE Become(w, AfterFailure(m), m) /\ Failed(m.event, m)
  <2>1. Kept /\ (AfterFailure(m) = "dlq" => hist'[m.event].givenUp)
    BY <1>1, <1>2, <1>5, FailedKept DEF SubInv
  <2>2. AfterFailure(m) \in {"dlq", "nak"}  BY FailedGoesOn
  <2> QED  BY <1>1, <1>2, <1>5, <2>1, <2>2, WorkerGoesOn
<1> QED  BY <1>3, <1>4, <1>5

LEMMA PublishDLQInv == ASSUME SubInv, NEW w \in Workers, PublishDLQ(w) PROVE SubInv'
<1> DEFINE m == worker[w].msg
<1>1. m \in Messages /\ m.event \in Events
  BY DEF PublishDLQ, SubInv, WorkerInv, Messages
<1>2. /\ Become(w, "ack", m)
      /\ msgChan' \in [Instances -> Seq(Messages)] /\ UNCHANGED <<server, inbox, callback>>
  BY DEF PublishDLQ, SubInv, SubShapes
<1>3. Kept  BY SameHistory DEF PublishDLQ, SubInv
<1>4. hist[m.event].givenUp /\ UNCHANGED hist  BY DEF PublishDLQ, SubInv, WorkerInv
<1> HIDE DEF m
<1>5. PICK e \in Events : e = m.event  BY <1>1
<1>6. Outcome(e)'  BY <1>4, <1>5 DEF Outcome
<1> QED  BY <1>1, <1>2, <1>3, <1>5, <1>6, WorkerGoesOn

\* The worker is idle again.
LEMMA AnswerKeeps ==
  ASSUME SubInv, NEW w \in Workers, worker' = [worker EXCEPT ![w] = IdleWorker]
  PROVE  /\ worker' \in [Workers -> [pc : {"idle", "handling", "dlq", "ack", "nak"},
                                     msg : Messages \cup {None}]]
         /\ \A v \in Workers : worker'[v] = worker[v] \/ worker'[v] = IdleWorker
<1>1. IdleWorker \in [pc : {"idle", "handling", "dlq", "ack", "nak"},
                      msg : Messages \cup {None}]
  BY DEF IdleWorker
<1> QED  BY <1>1 DEF SubInv, SubShapes

LEMMA AnswerInv == ASSUME SubInv, NEW w \in Workers, Answer(w) PROVE SubInv'
<1> DEFINE m == worker[w].msg
<1>1. m \in Messages /\ m.event \in Events
  BY DEF Answer, SubInv, WorkerInv, Messages
<1>2. PICK e \in Events : e = m.event  BY <1>1
<1>3. \/ worker[w].pc = "ack" /\ Answered(e, "acked")
      \/ worker[w].pc = "nak" /\ Answered(e, "due")
  BY <1>2 DEF Answer
<1>4. /\ worker' = [worker EXCEPT ![w] = IdleWorker]
      /\ UNCHANGED <<inbox, callback, msgChan, dlq, hist>>
  BY DEF Answer
<1>5. worker[w].pc = "ack" => Outcome(e)
  BY <1>2, Zenon DEF SubInv, WorkerInv
<1>6. Kept  BY <1>4, SameHistory DEF SubInv
<1> HIDE DEF m
<1>7. server' \in [Events -> [st : ServerStates, num : Nat, wellFormed : BOOLEAN]]
  <2>1. \A x \in {"acked", "due"} : Answered(e, x) =>
          \E y \in ServerStates : server' = [server EXCEPT ![e].st = y]
    <3> SUFFICES ASSUME NEW x \in {"acked", "due"}, Answered(e, x)
                 PROVE  \E y \in ServerStates : server' = [server EXCEPT ![e].st = y]
      OBVIOUS
    <3>1. CASE exists /\ server[e].st \in {"pending", "due"}
      BY <3>1 DEF Answered, SubInv, SubShapes, ServerStates
    <3>2. CASE ~(exists /\ server[e].st \in {"pending", "due"})
      <4>1. server' = [server EXCEPT ![e].st = server[e].st] /\ server[e].st \in ServerStates
        BY <3>2 DEF Answered, SubInv, SubShapes
      <4> QED  BY <4>1
    <3> QED  BY <3>1, <3>2
  <2>2. PICK y \in ServerStates : server' = [server EXCEPT ![e].st = y]
    BY <1>3, <2>1
  <2> QED  BY <2>2 DEF SubInv, SubShapes
<1>8. SubShapes'  BY <1>4, <1>7, AnswerKeeps DEF SubInv, SubShapes
<1>9. \A v \in Workers : WorkerInv(v)'  BY <1>4, <1>6, AnswerKeeps, WorkerKept
<1>10. CASE worker[w].pc = "nak" /\ Answered(e, "due")
  <2>1. \A d \in Events : server'[d].st = "acked" => server[d].st = "acked"
    BY <1>10 DEF Answered, SubInv, SubShapes
  <2> QED  BY <1>6, <1>8, <1>9, <2>1, AcksKept DEF SubInv, Kept
<1>11. CASE worker[w].pc = "ack" /\ Answered(e, "acked")
  <2>1. \A d \in Events \ {e} : server'[d] = server[d]
    BY <1>11 DEF Answered, SubInv, SubShapes
  <2>2. Outcome(e)'  BY <1>5, <1>6, <1>11, Zenon DEF Kept
  <2>3. ASSUME NEW d \in Events, server'[d].st = "acked" PROVE Outcome(d)'
    <3>1. CASE d = e  BY <2>2, <3>1
    <3>2. CASE d # e
      <4>1. server[d].st = "acked"  BY <2>1, <2>3, <3>2
      <4>2. Outcome(d)  BY <4>1, Zenon DEF SubInv, AckedMeansDecided, Outcome
      <4> QED  BY <4>2, <1>6, Zenon DEF Kept
    <3> QED  BY <3>1, <3>2
  <2>4. AckedMeansDecided'  BY <2>3, Zenon DEF AckedMeansDecided, Outcome
  <2> QED  BY <1>6, <1>8, <1>9, <2>4 DEF SubInv, Kept
<1> QED  BY <1>3, <1>10, <1>11

LEMMA AnswerLostInv == ASSUME SubInv, NEW w \in Workers, AnswerLost(w) PROVE SubInv'
<1>1. /\ worker' = [worker EXCEPT ![w] = IdleWorker]
      /\ UNCHANGED <<server, inbox, callback, msgChan, dlq, hist>>
  BY DEF AnswerLost
<1>2. Kept  BY <1>1, SameHistory DEF SubInv
<1>3. SubShapes'  BY <1>1, AnswerKeeps DEF SubInv, SubShapes
<1> QED  BY <1>1, <1>2, <1>3, AnswerKeeps, QuietStep

\* What a process held is gone.
LEMMA DiesKeeps ==
  ASSUME SubInv, NEW i \in Instances, Dies(i), UNCHANGED <<server, dlq, hist>>
  PROVE  SubInv'
<1>1. IdleWorker \in [pc : {"idle", "handling", "dlq", "ack", "nak"},
                      msg : Messages \cup {None}]
  BY DEF IdleWorker
<1>2. \A w \in Workers : worker'[w] = worker[w] \/ worker'[w] = IdleWorker
  BY DEF Dies
<1>3. SubShapes'  BY <1>1 DEF Dies, SubInv, SubShapes
<1>4. Kept  BY SameHistory DEF SubInv
<1> QED  BY <1>2, <1>3, <1>4, QuietStep

\* A process that starts, or closes its channel, changes nothing that counts.
LEMMA ClientsKept ==
  ASSUME SubInv, UNCHANGED <<server, clientVars, dlq, hist>>
  PROVE  SubInv'
<1>1. SubShapes'  BY DEF clientVars, SubInv, SubShapes
<1>2. Kept  BY SameHistory DEF SubInv
<1> QED  BY <1>1, <1>2, QuietStep DEF clientVars

LEMMA UnsubscribeInv ==
  ASSUME SubInv, NEW i \in Instances, Unsubscribe(i)
  PROVE  SubInv'
<1>1. /\ inbox' = [inbox EXCEPT ![i] = << >>]
      /\ UNCHANGED <<callback, msgChan, worker, dlq>>
      /\ DeleteConsumer \/ UNCHANGED <<server, hist>>
  BY DEF Unsubscribe
<1>2. Kept  BY <1>1, DeletedKept, SameHistory DEF SubInv
<1>3. /\ server' \in [Events -> [st : ServerStates, num : Nat, wellFormed : BOOLEAN]]
      /\ \A e \in Events : server'[e].st = "acked" => server[e].st = "acked"
  <2>1. CASE UNCHANGED <<server, hist>>  BY <2>1 DEF SubInv, SubShapes
  <2>2. CASE DeleteConsumer
    <3> DEFINE r(e) == [[server[e] EXCEPT !.st = "new"] EXCEPT !.num = 0]
    <3>1. server' = [e \in Events |-> IF server[e].st = "unsent" THEN server[e] ELSE r(e)]
      BY <2>2 DEF DeleteConsumer
    <3>2. ASSUME NEW e \in Events
          PROVE  /\ r(e) \in [st : ServerStates, num : Nat, wellFormed : BOOLEAN]
                 /\ r(e).st = "new"
      <4>1. server[e] \in [st : ServerStates, num : Nat, wellFormed : BOOLEAN]
        BY DEF SubInv, SubShapes
      <4>2. 0 \in Nat /\ "new" \in ServerStates  BY DEF ServerStates
      <4>3. r(e) \in [st : ServerStates, num : Nat, wellFormed : BOOLEAN]
        BY <4>1, <4>2, Zenon
      <4> QED  BY <4>1, <4>3
    <3> HIDE DEF r
    <3>3. \A e \in Events : \/ server'[e] = server[e] /\ server[e].st = "unsent"
                            \/ server'[e] = r(e)
      BY <3>1
    <3> QED  BY <3>1, <3>2, <3>3 DEF SubInv, SubShapes
  <2> QED  BY <1>1, <2>1, <2>2
<1>4. SubShapes'  BY <1>1, <1>3 DEF SubInv, SubShapes
<1> QED  BY <1>1, <1>2, <1>3, <1>4, QuietStep

LEMMA SubInvStep == SubInv /\ [Next]_vars => SubInv'
<1> SUFFICES ASSUME SubInv, [Next]_vars PROVE SubInv'
  OBVIOUS
<1>1. CASE UNCHANGED vars  BY <1>1, ClientsKept DEF vars
<1>2. ASSUME NEW e \in Events,
             Publish(e) \/ Expire(e) \/ \E i \in Instances : Deliver(e, i)
      PROVE  SubInv'
  BY <1>2, PublishInv, ExpireInv, DeliverInv
<1>3. ASSUME NEW w \in Workers, WorkerStep(w) \/ AnswerLost(w)
      PROVE  SubInv'
  BY <1>3, ReceiveInv, HandlerReturnsInv, PublishDLQInv, AnswerInv, AnswerLostInv DEF WorkerStep
<1>4. ASSUME NEW i \in Instances, ProcessStep(i) \/ Boot(i) \/ Crash(i) \/ Unsubscribe(i)
      PROVE  SubInv'
  <2>1. CASE Callback(i) \/ Send(i)  BY <2>1, CallbackInv, SendInv
  <2>2. CASE CloseChannel(i)  BY <2>2, DiesKeeps, ClientsKept DEF CloseChannel
  <2>3. CASE Exit(i)  BY <2>3, DiesKeeps DEF Exit
  <2>4. CASE Boot(i)  BY <2>4, ClientsKept DEF Boot
  <2>5. CASE Crash(i)  BY <2>5, DiesKeeps DEF Crash
  <2>6. CASE Unsubscribe(i)  BY <2>6, UnsubscribeInv
  <2> QED  BY <1>4, <2>1, <2>2, <2>3, <2>4, <2>5, <2>6 DEF ProcessStep
<1> QED  BY <1>1, <1>2, <1>3, <1>4 DEF Next

\* The subscriber's own invariant: what a worker that is about to acknowledge knows.
THEOREM SubInvariant == Spec => []SubInv
BY SubInvInit, SubInvStep, PTL DEF Spec

\* Whatever crashes, expires, gets lost or is answered crosswise: the consumer
\* forgets an event only when a handler has returned nil for it, or a worker has given
\* it up at its last delivery and called PublishDLQ (workerLoop of the subscriber).
THEOREM SubscriberAcksDecided == Spec => []AckedMeansDecided
<1>1. SubInv => AckedMeansDecided  BY DEF SubInv
<1> QED  BY <1>1, SubInvariant, PTL

-----------------------------------------------------------------------------
(* Counting messages in queues. *)

One(b) == IF b THEN 1 ELSE 0

\* Two sets that differ at most in x.
LEMMA OneDiffers ==
  ASSUME NEW S, NEW T, NEW x, IsFiniteSet(S), \A y : y # x => (y \in S <=> y \in T)
  PROVE  /\ IsFiniteSet(T) /\ Cardinality(S) \in Nat /\ Cardinality(T) \in Nat
         /\ Cardinality(T) + One(x \in S) = Cardinality(S) + One(x \in T)
<1>1. IsFiniteSet(S \ {x}) /\ IsFiniteSet((S \ {x}) \cup {x})
  BY FS_RemoveElement, FS_AddElement
<1>2. T = S \/ T = S \cup {x} \/ T = S \ {x}
  <2>1. CASE (x \in S) = (x \in T)  BY <2>1
  <2>2. CASE x \in S /\ x \notin T  BY <2>2
  <2>3. CASE x \notin S /\ x \in T  BY <2>3
  <2> QED  BY <2>1, <2>2, <2>3
<1>3. IsFiniteSet(S \cup {x}) /\ Cardinality(S) \in Nat
  BY FS_AddElement, FS_CardinalityType
<1>4. CASE T = S  BY <1>3, <1>4 DEF One
<1>5. CASE T = S \cup {x}
  BY <1>3, <1>5, FS_AddElement DEF One
<1>6. CASE T = S \ {x}
  <2>1. x \in S => Cardinality(S) # 0  BY FS_EmptySet
  <2>2. Cardinality(T) = IF x \in S THEN Cardinality(S) - 1 ELSE Cardinality(S)
    BY <1>6, FS_RemoveElement
  <2>3. x \notin T /\ IsFiniteSet(T)  BY <1>1, <1>6
  <2> QED  BY <1>3, <2>1, <2>2, <2>3 DEF One
<1> QED  BY <1>2, <1>4, <1>5, <1>6

Queues == [Instances -> Seq(Messages)]

LEMMA PlaceOf ==
  ASSUME NEW q, NEW e
  PROVE  /\ \A i, k : <<i, k>> \in Places(q, e) <=>
                        i \in Instances /\ k \in DOMAIN q[i] /\ q[i][k].event = e
         /\ \A p \in Places(q, e) : p = <<p[1], p[2]>>
BY DEF Places

LEMMA PlacesFinite ==
  ASSUME NEW q \in Queues, NEW e
  PROVE  IsFiniteSet(Places(q, e)) /\ Cardinality(Places(q, e)) \in Nat
<1> DEFINE At(i) == {k \in DOMAIN q[i] : q[i][k].event = e}
           f == [i \in Instances |-> {i} \X At(i)]
           S == {{i} \X At(i) : i \in Instances}
<1>1. ASSUME NEW i \in Instances PROVE IsFiniteSet({i} \X At(i))
  <2>1. q[i] \in Seq(Messages)  BY DEF Queues
  <2>2. DOMAIN q[i] = 1 .. Len(q[i]) /\ Len(q[i]) \in Nat  BY <2>1
  <2>3. IsFiniteSet(DOMAIN q[i])  BY <2>2, FS_Interval
  <2>4. At(i) \in SUBSET DOMAIN q[i]  OBVIOUS
  <2>5. IsFiniteSet(At(i))  BY <2>3, <2>4, FS_Subset
  <2>6. IsFiniteSet({i})  BY FS_Singleton
  <2> HIDE DEF At
  <2> QED  BY <2>5, <2>6, FS_Product
<1> HIDE DEF At
<1>2. f \in Surjection(Instances, S)
  BY Fun_IsSurj
<1>3. IsFiniteSet(S)
  BY <1>2, FS_Surjection, SubscriberAssumption
<1>4. \A T \in S : IsFiniteSet(T)
  BY <1>1
<1> HIDE DEF S
<1>5. IsFiniteSet(UNION S)
  BY <1>3, <1>4, FS_UNION
<1>6. IsFiniteSet(Places(q, e))
  BY <1>5 DEF Places, S, At
<1> QED  BY <1>6, FS_CardinalityType

\* One more message in the queue of i.
LEMMA PlacesAppend ==
  ASSUME NEW q \in Queues, NEW i \in Instances, NEW m, NEW e,
         NEW r,
         r[i] = Append(q[i], m), \A j \in Instances \ {i} : r[j] = q[j]
  PROVE  Cardinality(Places(r, e)) = Cardinality(Places(q, e)) + One(m.event = e)
<1> DEFINE n == Len(q[i]) + 1
           p == <<i, n>>
<1>1. q[i] \in Seq(Messages) /\ Len(q[i]) \in Nat  BY DEF Queues
<1>2. /\ DOMAIN r[i] = (DOMAIN q[i]) \cup {n}
      /\ n \notin DOMAIN q[i]
      /\ r[i][n] = m
      /\ \A k \in DOMAIN q[i] : r[i][k] = q[i][k]
  BY <1>1 DEF Queues
<1>3. \A j \in Instances \ {i} : r[j] = q[j]  OBVIOUS
<1> HIDE DEF n
<1>4. p \notin Places(q, e) /\ (p \in Places(r, e) <=> m.event = e)
  BY <1>2, PlaceOf
<1>5. ASSUME NEW y, y # p PROVE y \in Places(q, e) <=> y \in Places(r, e)
  <2>1. ASSUME NEW j \in Instances, NEW k, <<j, k>> # p
        PROVE  <<j, k>> \in Places(q, e) <=> <<j, k>> \in Places(r, e)
    <3>1. CASE j = i
      <4>1. k # n  BY <2>1, <3>1
      <4> QED  BY <1>2, <3>1, <4>1, PlaceOf
    <3>2. CASE j # i  BY <1>3, <3>2, PlaceOf
    <3> QED  BY <3>1, <3>2
  <2>2. y \in Places(q, e) \/ y \in Places(r, e) =>
          y = <<y[1], y[2]>> /\ y[1] \in Instances
    BY PlaceOf
  <2> QED  BY <1>5, <2>1, <2>2
<1>6. Cardinality(Places(r, e)) + One(FALSE) = Cardinality(Places(q, e)) + One(m.event = e)
  <2>1. IsFiniteSet(Places(q, e))  BY PlacesFinite
  <2>2. Cardinality(Places(r, e)) + One(p \in Places(q, e))
          = Cardinality(Places(q, e)) + One(p \in Places(r, e))
    BY <1>5, <2>1, OneDiffers
  <2> QED  BY <1>4, <2>2 DEF One
<1>7. Cardinality(Places(r, e)) \in Nat
  <2>1. IsFiniteSet(Places(q, e))  BY PlacesFinite
  <2> QED  BY <1>5, <2>1, OneDiffers
<1> QED  BY <1>6, <1>7 DEF One

\* The first message leaves the queue of i, and the others move up.
LEMMA PlacesTail ==
  ASSUME NEW q \in Queues, NEW i \in Instances, q[i] # << >>, NEW e,
         NEW r, r[i] = Tail(q[i]), \A j \in Instances \ {i} : r[j] = q[j]
  PROVE  Cardinality(Places(r, e)) + One(Head(q[i]).event = e) = Cardinality(Places(q, e))
<1> DEFINE p == <<i, 1>>
           S == Places(q, e) \ {p}
           T == Places(r, e)
           f == [y \in S |-> IF y[1] = i THEN <<i, y[2] - 1>> ELSE y]
<1>1. /\ q[i] \in Seq(Messages) /\ Len(q[i]) \in Nat \ {0}
      /\ DOMAIN q[i] = 1 .. Len(q[i])
      /\ Head(q[i]) = q[i][1]
  BY DEF Queues
<1>2. /\ DOMAIN r[i] = 1 .. Len(q[i]) - 1
      /\ \A k \in DOMAIN r[i] : r[i][k] = q[i][k + 1]
  BY <1>1, HeadTailProperties DEF Queues
<1>3. \A j \in Instances \ {i} : r[j] = q[j]  OBVIOUS
<1>4. p \in Places(q, e) <=> Head(q[i]).event = e
  BY <1>1, PlaceOf
<1>5. ASSUME NEW y \in S
      PROVE  /\ y = <<y[1], y[2]>> /\ y[1] \in Instances
             /\ y[1] = i => y[2] \in 2 .. Len(q[i]) /\ <<i, y[2] - 1>> \in T
             /\ y[1] # i => y \in T
  <2>1. y = <<y[1], y[2]>> /\ y[1] \in Instances /\ y[2] \in DOMAIN q[y[1]]
        /\ q[y[1]][y[2]].event = e
    BY PlaceOf
  <2>2. ASSUME y[1] = i PROVE y[2] \in 2 .. Len(q[i]) /\ <<i, y[2] - 1>> \in T
    <3>1. y[2] \in 1 .. Len(q[i]) /\ y[2] # 1  BY <1>1, <2>1, <2>2
    <3>2. y[2] \in 2 .. Len(q[i])  BY <1>1, <3>1
    <3>3. y[2] - 1 \in DOMAIN r[i] /\ (y[2] - 1) + 1 = y[2]  BY <1>1, <1>2, <3>2
    <3>4. r[i][y[2] - 1].event = e  BY <1>2, <2>1, <2>2, <3>3
    <3>5. <<i, y[2] - 1>> \in Places(r, e)  BY <3>3, <3>4, PlaceOf
    <3> QED  BY <3>2, <3>5
  <2>3. ASSUME y[1] # i PROVE y \in T  BY <1>3, <2>1, <2>3, PlaceOf
  <2> QED  BY <2>1, <2>2, <2>3
<1>6. f \in [S -> T]  BY <1>5
<1>7. ASSUME NEW y \in S, NEW z \in S, f[y] = f[z] PROVE y = z
  <2>1. CASE y[1] = i /\ z[1] = i
    <3>1. y[2] - 1 = z[2] - 1 /\ y[2] \in Int /\ z[2] \in Int  BY <1>5, <1>7, <2>1
    <3>2. y[2] = z[2]  BY <3>1
    <3>3. y = <<y[1], y[2]>> /\ z = <<z[1], z[2]>>  BY <1>5
    <3> QED  BY <2>1, <3>2, <3>3
  <2>2. CASE y[1] # i /\ z[1] # i  BY <1>7, <2>2
  <2>3. CASE y[1] = i /\ z[1] # i
    <3>1. z = <<i, y[2] - 1>>  BY <1>7, <2>3
    <3> QED  BY <2>3, <3>1
  <2>4. CASE y[1] # i /\ z[1] = i
    <3>1. y = <<i, z[2] - 1>>  BY <1>7, <2>4
    <3> QED  BY <2>4, <3>1
  <2> QED  BY <2>1, <2>2, <2>3, <2>4
<1>8. ASSUME NEW t \in T PROVE \E y \in S : f[y] = t
  <2>1. t = <<t[1], t[2]>> /\ t[1] \in Instances /\ t[2] \in DOMAIN r[t[1]]
        /\ r[t[1]][t[2]].event = e
    BY PlaceOf
  <2>2. CASE t[1] = i
    <3> DEFINE y == <<i, t[2] + 1>>
    <3>1. t[2] \in 1 .. Len(q[i]) - 1 /\ r[i][t[2]] = q[i][t[2] + 1]  BY <1>2, <2>1, <2>2
    <3>2. t[2] + 1 \in DOMAIN q[i] /\ t[2] + 1 # 1 /\ (t[2] + 1) - 1 = t[2]  BY <1>1, <3>1
    <3>3. y \in Places(q, e)  BY <2>1, <2>2, <3>1, <3>2, PlaceOf
    <3>4. y \in S  BY <3>2, <3>3
    <3>5. f[y] = <<i, t[2]>>  BY <3>2, <3>4
    <3> QED  BY <2>1, <2>2, <3>4, <3>5
  <2>3. CASE t[1] # i
    <3>1. t \in Places(q, e)  BY <1>3, <2>1, <2>3, PlaceOf
    <3>2. t \in S  BY <2>3, <3>1
    <3> QED  BY <2>3, <3>2
  <2> QED  BY <2>2, <2>3
<1>9. f \in Bijection(S, T)  BY <1>6, <1>7, <1>8, Fun_IsBij
<1>10. IsFiniteSet(Places(q, e)) /\ Cardinality(Places(q, e)) \in Nat  BY PlacesFinite
<1>11. IsFiniteSet(S)  BY <1>10, FS_RemoveElement
<1> HIDE DEF f, S, T
<1>12. Cardinality(T) = Cardinality(S)
  BY <1>9, <1>11, FS_Bijection DEF ExistsBijection
<1>13. Cardinality(S) = IF p \in Places(q, e) THEN Cardinality(Places(q, e)) - 1
                                               ELSE Cardinality(Places(q, e))
  BY <1>10, FS_RemoveElement DEF S
<1> QED  BY <1>4, <1>10, <1>12, <1>13 DEF One, T

\* The queue of i is gone.
LEMMA PlacesGone ==
  ASSUME NEW q \in Queues, NEW i \in Instances, NEW e, NEW r,
         r[i] = << >>, \A j \in Instances \ {i} : r[j] = q[j]
  PROVE  Cardinality(Places(r, e)) <= Cardinality(Places(q, e))
<1>1. \A j \in Instances : r[j] = q[j] \/ r[j] = << >>  BY DEF Queues
<1>2. ASSUME NEW y \in Places(r, e) PROVE y \in Places(q, e)
  <2>1. y = <<y[1], y[2]>> /\ y[1] \in Instances /\ y[2] \in DOMAIN r[y[1]]
        /\ r[y[1]][y[2]].event = e
    BY PlaceOf
  <2>2. r[y[1]] = q[y[1]]  BY <1>1, <2>1
  <2> QED  BY <2>1, <2>2, PlaceOf
<1>3. Places(r, e) \in SUBSET Places(q, e)  BY <1>2
<1> QED  BY <1>3, PlacesFinite, FS_Subset

-----------------------------------------------------------------------------
(* Types, and what a worker and the consumer have to do with each other. *)

HistTypes == [handled : BOOLEAN, failures : Nat, givenUp : BOOLEAN,
              reissued : Nat]

UpStates == {"down", "up", "closing", "closed", "gone"}

\* The types SubShapes leaves out.
RestTypes ==
  /\ exists \in BOOLEAN
  /\ creator \in Instances \cup {None}
  /\ up \in [Instances -> UpStates]
  /\ sub \in [Instances -> {"none", "live", "stale"}]
  /\ dlq \subseteq Events
  /\ hist \in [Events -> HistTypes]
  /\ faults \in 0 .. MaxFaults
  /\ shutdowns \in 0 .. MaxShutdowns

ChannelsFit == \A i \in Instances : Len(msgChan[i]) <= ChanSize(i)

\* A worker holds a message exactly when it is at work.
IdleHoldNothing == \A w \in Workers : worker[w].pc = "idle" <=> worker[w].msg = None

\* Without a consumer nothing is pending, and only a pod that is up is served.
ConsumerInv ==
  /\ ~exists => \A e \in Events : server[e].st \in {"unsent", "new"}
  /\ \A e \in Events : server[e].st = "unsent" => server[e].num = 0
  /\ \A i \in Instances : sub[i] = "live" => up[i] = "up"

PodInv == RestTypes /\ ChannelsFit /\ IdleHoldNothing /\ ConsumerInv

LEMMA NoMessageIsNone == None \notin Messages
BY SubscriberAssumption DEF Messages

LEMMA CopiesType ==
  ASSUME SubInv, NEW e
  PROVE  /\ IsFiniteSet(Holders(e)) /\ IsFiniteSet(Senders(e))
         /\ Cardinality(Holders(e)) \in Nat /\ Cardinality(Senders(e)) \in Nat
         /\ Cardinality(Places(inbox, e)) \in Nat /\ Cardinality(Places(msgChan, e)) \in Nat
         /\ Copies(e) \in Nat
<1>1. Holders(e) \in SUBSET Workers /\ Senders(e) \in SUBSET Instances
  BY DEF Holders, Senders
<1>2. IsFiniteSet(Holders(e)) /\ IsFiniteSet(Senders(e))
  BY <1>1, FS_Subset, SubscriberAssumption
<1>3. Cardinality(Holders(e)) \in Nat /\ Cardinality(Senders(e)) \in Nat
  BY <1>2, FS_CardinalityType
<1>4. inbox \in Queues /\ msgChan \in Queues  BY DEF SubInv, SubShapes, Queues
<1>5. Cardinality(Places(inbox, e)) \in Nat /\ Cardinality(Places(msgChan, e)) \in Nat
  BY <1>4, PlacesFinite
<1> QED  BY <1>2, <1>3, <1>5 DEF Copies

-----------------------------------------------------------------------------
(* The history and the counters keep their types. *)

LEMMA HistTypesKept ==
  ASSUME SubInv, RestTypes, NEW e \in Events, NEW r \in HistTypes,
         hist' = [hist EXCEPT ![e] = r]
  PROVE  hist' \in [Events -> HistTypes]
BY DEF RestTypes

LEMMA FailedTypes ==
  ASSUME RestTypes, NEW e \in Events, NEW m, Failed(e, m)
  PROVE  /\ hist' \in [Events -> HistTypes]
         /\ \A d \in Events \ {e} : hist'[d] = hist[d]
         /\ hist'[e].failures = hist[e].failures + 1
         /\ hist'[e].reissued = hist[e].reissued
         /\ hist'[e].givenUp <=> hist[e].givenUp \/ AfterFailure(m) = "dlq"
<1> DEFINE h == hist[e]
           f == h.failures + 1
           g == h.givenUp \/ AfterFailure(m) = "dlq"
           r == [[h EXCEPT !.failures = f] EXCEPT !.givenUp = g]
<1>1. h \in HistTypes  BY DEF RestTypes
<1>2. f \in Nat /\ g \in BOOLEAN  BY <1>1 DEF HistTypes
<1>3. hist' = [hist EXCEPT ![e] = r]  BY DEF Failed, RestTypes
<1> HIDE DEF f, g, h
<1>4. r \in HistTypes /\ r.failures = f /\ r.reissued = h.reissued /\ r.givenUp = g
  BY <1>1, <1>2, Zenon DEF HistTypes
<1> HIDE DEF r
<1>5. /\ hist' \in [Events -> HistTypes] /\ hist'[e] = r
      /\ \A d \in Events \ {e} : hist'[d] = hist[d]
  BY <1>3, <1>4 DEF RestTypes
<1> QED  BY <1>4, <1>5, Zenon DEF f, g, h

\* The handler has returned nil.
LEMMA FlagTypes ==
  ASSUME RestTypes, NEW e \in Events, hist' = [hist EXCEPT ![e].handled = TRUE]
  PROVE  /\ hist' \in [Events -> HistTypes]
         /\ \A d \in Events : /\ hist'[d].failures = hist[d].failures
                              /\ hist'[d].reissued = hist[d].reissued
                              /\ hist'[d].givenUp = hist[d].givenUp
<1> DEFINE h == hist[e]
<1>1. h \in HistTypes /\ TRUE \in BOOLEAN  BY DEF RestTypes
<1>2. PICK r : hist' = [hist EXCEPT ![e] = r] /\ r = [h EXCEPT !.handled = TRUE]
  BY DEF RestTypes
<1> HIDE DEF h
<1>3. r \in HistTypes /\ r.failures = h.failures /\ r.reissued = h.reissued /\ r.givenUp = h.givenUp
  BY <1>1, <1>2, Zenon DEF HistTypes
<1>4. /\ hist' \in [Events -> HistTypes] /\ hist'[e] = r
      /\ \A d \in Events \ {e} : hist'[d] = hist[d]
  BY <1>2, <1>3 DEF RestTypes
<1> QED  BY <1>3, <1>4 DEF h

\* n more copies are accounted for.
LEMMA ReissuedTypes ==
  ASSUME NEW h \in HistTypes, NEW n \in Nat
  PROVE  /\ [h EXCEPT !.reissued = h.reissued + n] \in HistTypes
         /\ [h EXCEPT !.reissued = h.reissued + n].reissued = h.reissued + n
         /\ [h EXCEPT !.reissued = h.reissued + n].failures = h.failures
         /\ [h EXCEPT !.reissued = h.reissued + n].givenUp = h.givenUp
<1> DEFINE k == h.reissued + n
<1>1. k \in Nat  BY DEF HistTypes
<1> HIDE DEF k
<1>2. /\ [h EXCEPT !.reissued = k] \in HistTypes /\ [h EXCEPT !.reissued = k].reissued = k
      /\ [h EXCEPT !.reissued = k].failures = h.failures
      /\ [h EXCEPT !.reissued = k].givenUp = h.givenUp
  BY <1>1, Zenon DEF HistTypes
<1> QED  BY <1>2 DEF k

LEMMA ExpiredHist ==
  ASSUME RestTypes, NEW e \in Events, hist' = [hist EXCEPT ![e].reissued = @ + 1]
  PROVE  /\ hist' \in [Events -> HistTypes]
         /\ hist'[e].reissued = hist[e].reissued + 1
         /\ \A d \in Events \ {e} : hist'[d] = hist[d]
         /\ \A d \in Events : /\ hist'[d].failures = hist[d].failures
                              /\ hist'[d].givenUp = hist[d].givenUp
<1> DEFINE r == [hist[e] EXCEPT !.reissued = hist[e].reissued + 1]
<1>1. hist[e] \in HistTypes  BY DEF RestTypes
<1>2. /\ r \in HistTypes /\ r.reissued = hist[e].reissued + 1
      /\ r.failures = hist[e].failures /\ r.givenUp = hist[e].givenUp
  BY <1>1, ReissuedTypes
<1>3. hist' = [hist EXCEPT ![e] = r]  BY DEF RestTypes
<1> HIDE DEF r
<1>4. /\ hist' \in [Events -> HistTypes] /\ hist'[e] = r
      /\ \A d \in Events \ {e} : hist'[d] = hist[d]
  BY <1>2, <1>3 DEF RestTypes
<1> QED  BY <1>2, <1>4

LEMMA DeletedHist ==
  ASSUME SubInv, RestTypes, DeleteConsumer
  PROVE  /\ hist' \in [Events -> HistTypes]
         /\ \A d \in Events : /\ hist'[d].reissued = hist[d].reissued + Copies(d)
                              /\ hist'[d].failures = hist[d].failures
                              /\ hist'[d].givenUp = hist[d].givenUp
<1> DEFINE r(e) == [hist[e] EXCEPT !.reissued = hist[e].reissued + Copies(e)]
<1>1. ASSUME NEW e \in Events
      PROVE  /\ r(e) \in HistTypes /\ r(e).reissued = hist[e].reissued + Copies(e)
             /\ r(e).failures = hist[e].failures /\ r(e).givenUp = hist[e].givenUp
  <2>1. hist[e] \in HistTypes /\ Copies(e) \in Nat  BY CopiesType DEF RestTypes
  <2> QED  BY <2>1, ReissuedTypes
<1>2. hist' = [e \in Events |-> r(e)]  BY DEF DeleteConsumer
<1> HIDE DEF r
<1> QED  BY <1>1, <1>2

LEMMA FaultTypes ==
  ASSUME RestTypes
  PROVE  /\ Fault => faults' \in 0 .. MaxFaults /\ faults' = faults + 1
         /\ shutdowns < MaxShutdowns => shutdowns + 1 \in 0 .. MaxShutdowns
BY SubscriberAssumption DEF Fault, RestTypes

\* What DeleteConsumer makes of the server.
LEMMA DeletedServer ==
  ASSUME SubInv, DeleteConsumer, NEW e \in Events
  PROVE  \/ server[e].st = "unsent" /\ server'[e] = server[e]
         \/ server[e].st # "unsent" /\ server'[e].st = "new" /\ server'[e].num = 0
<1>1. server[e] \in [st : ServerStates, num : Nat, wellFormed : BOOLEAN]
  BY DEF SubInv, SubShapes
<1>2. server'[e] = IF server[e].st = "unsent" THEN server[e]
                   ELSE [[server[e] EXCEPT !.st = "new"] EXCEPT !.num = 0]
  BY DEF DeleteConsumer
<1> QED  BY <1>1, <1>2

-----------------------------------------------------------------------------
(* The steps, for the types. *)

\* What is left of the steps when the events, pods and workers are named.
LEMMA StepCases ==
  ASSUME Next, NEW P,
         \A e \in Events : Publish(e) => P,
         \A e \in Events : Expire(e) => P,
         \A e \in Events : \A i \in Instances : Deliver(e, i) => P,
         \A w \in Workers : Receive(w) \/ HandlerReturns(w) => P,
         \A w \in Workers : PublishDLQ(w) => P,
         \A w \in Workers : Answer(w) \/ AnswerLost(w) => P,
         \A i \in Instances : Callback(i) => P,
         \A i \in Instances : Send(i) => P,
         \A i \in Instances : Boot(i) => P,
         \A i \in Instances : CloseChannel(i) \/ Exit(i) \/ Crash(i) => P,
         \A i \in Instances : Unsubscribe(i) => P
  PROVE  P
BY DEF Next, WorkerStep, ProcessStep

LEMMA WorkerTypes ==
  ASSUME SubInv, NEW w \in Workers, worker[w].pc # "idle"
  PROVE  worker[w].msg \in Messages /\ worker[w].msg.event \in Events
BY DEF SubInv, WorkerInv, Messages

LEMMA ReceivedTypes ==
  ASSUME SubInv, NEW w \in Workers, Receive(w)
  PROVE  /\ PodOf[w] \in Instances
         /\ msgChan[PodOf[w]] \in Seq(Messages) /\ msgChan[PodOf[w]] # << >>
         /\ Head(msgChan[PodOf[w]]) \in Messages
         /\ Head(msgChan[PodOf[w]]).event \in Events
<1>1. PodOf[w] \in Instances  BY SubscriberAssumption
<1>2. msgChan[PodOf[w]] \in Seq(Messages) /\ msgChan[PodOf[w]] # << >>
  BY <1>1 DEF Receive, SubInv, SubShapes
<1> QED  BY <1>1, <1>2, FirstMessage DEF Messages

LEMMA RestTypesStep == ASSUME SubInv, RestTypes, Next PROVE RestTypes'
<1>1. ASSUME NEW e \in Events, Publish(e) PROVE RestTypes'
  BY <1>1 DEF Publish, podVars, RestTypes
<1>2. ASSUME NEW e \in Events, Expire(e) PROVE RestTypes'
  <2>1. CASE UNCHANGED <<hist, faults>>  BY <1>2, <2>1 DEF Expire, podVars, RestTypes
  <2>2. CASE Fault /\ hist' = [hist EXCEPT ![e].reissued = @ + 1]
    BY <1>2, <2>2, ExpiredHist, FaultTypes DEF Expire, podVars, RestTypes
  <2> QED  BY <1>2, <2>1, <2>2 DEF Expire
<1>3. ASSUME NEW e \in Events, NEW i \in Instances, Deliver(e, i) PROVE RestTypes'
  BY <1>3 DEF Deliver, podVars, RestTypes
<1>4. ASSUME NEW w \in Workers, Receive(w) \/ HandlerReturns(w) PROVE RestTypes'
  <2>1. UNCHANGED <<podVars, dlq, faults>>
    BY <1>4 DEF Receive, HandlerReturns
  <2>2. hist' \in [Events -> HistTypes]
    <3>1. CASE Receive(w)
      <4> DEFINE m == Head(msgChan[PodOf[w]])
      <4>1. UNCHANGED hist \/ Failed(m.event, m)  BY <3>1 DEF Receive
      <4>2. m.event \in Events  BY <3>1, ReceivedTypes
      <4> HIDE DEF m
      <4> QED  BY <4>1, <4>2, FailedTypes DEF RestTypes
    <3>2. CASE HandlerReturns(w)
      <4> DEFINE m == worker[w].msg
      <4>1. Failed(m.event, m) \/ hist' = [hist EXCEPT ![m.event].handled = TRUE]
        BY <3>2 DEF HandlerReturns
      <4>2. m.event \in Events  BY <3>2, WorkerTypes DEF HandlerReturns
      <4> HIDE DEF m
      <4> QED  BY <4>1, <4>2, FailedTypes, FlagTypes
    <3> QED  BY <1>4, <3>1, <3>2
  <2> QED  BY <2>1, <2>2 DEF podVars, RestTypes
<1>5. ASSUME NEW w \in Workers, PublishDLQ(w) PROVE RestTypes'
  <2>1. worker[w].msg.event \in Events  BY <1>5, WorkerTypes DEF PublishDLQ
  <2> QED  BY <1>5, <2>1 DEF PublishDLQ, podVars, RestTypes
<1>6. ASSUME NEW w \in Workers, Answer(w) \/ AnswerLost(w) PROVE RestTypes'
  BY <1>6, FaultTypes DEF Answer, AnswerLost, podVars, RestTypes
<1>7. ASSUME NEW i \in Instances, Callback(i) PROVE RestTypes'
  BY <1>7 DEF Callback, podVars, RestTypes
<1>8. ASSUME NEW i \in Instances, Send(i) PROVE RestTypes'
  BY <1>8 DEF Send, podVars, RestTypes
<1>9. ASSUME NEW i \in Instances, Boot(i) PROVE RestTypes'
  <2>1. up' \in [Instances -> UpStates]  BY <1>9 DEF Boot, RestTypes, UpStates
  <2>2. sub' \in [Instances -> {"none", "live", "stale"}] /\ exists' \in BOOLEAN
        /\ creator' \in Instances \cup {None} /\ faults' \in 0 .. MaxFaults
    BY <1>9, FaultTypes DEF Boot, RestTypes
  <2> QED  BY <1>9, <2>1, <2>2 DEF Boot, RestTypes
<1>10. ASSUME NEW i \in Instances, CloseChannel(i) \/ Exit(i) \/ Crash(i) PROVE RestTypes'
  <2>1. Dies(i) => up' \in [Instances -> UpStates]  BY DEF Dies, RestTypes, UpStates
  <2>2. up' \in [Instances -> UpStates]
    BY <1>10, <2>1 DEF CloseChannel, Exit, Crash, RestTypes, UpStates
  <2>3. sub' \in [Instances -> {"none", "live", "stale"}] /\ creator' \in Instances \cup {None}
        /\ faults' \in 0 .. MaxFaults /\ UNCHANGED <<exists, shutdowns, dlq, hist>>
    BY <1>10, FaultTypes DEF CloseChannel, Exit, Crash, RestTypes
  <2> QED  BY <2>2, <2>3 DEF RestTypes
<1>11. ASSUME NEW i \in Instances, Unsubscribe(i) PROVE RestTypes'
  <2>1. up' \in [Instances -> UpStates]  BY <1>11 DEF Unsubscribe, RestTypes, UpStates
  <2>2. shutdowns' \in 0 .. MaxShutdowns /\ UNCHANGED <<dlq, faults>>
    BY <1>11, FaultTypes DEF Unsubscribe
  <2>3. sub' \in [Instances -> {"none", "live", "stale"}]
    BY <1>11 DEF Unsubscribe, RestTypes
  <2>4. hist' \in [Events -> HistTypes] /\ exists' \in BOOLEAN /\ creator' \in Instances \cup {None}
    <3>1. CASE DeleteConsumer
      BY <3>1, DeletedHist DEF DeleteConsumer
    <3>2. CASE UNCHANGED <<server, exists, creator, hist>>
      BY <3>2 DEF RestTypes
    <3> QED  BY <1>11, <3>1, <3>2 DEF Unsubscribe
  <2> QED  BY <2>1, <2>2, <2>3, <2>4 DEF RestTypes
<1> HIDE DEF RestTypes
<1> QED  BY <1>1, <1>2, <1>3, <1>4, <1>5, <1>6, <1>7, <1>8, <1>9, <1>10, <1>11, StepCases

LEMMA ChannelsFitStep == ASSUME SubInv, ChannelsFit, Next PROVE ChannelsFit'
<1>0. /\ \A i \in Instances : ChanSize(i) \in Nat
      /\ \A i \in Instances : msgChan[i] \in Seq(Messages)
  <2>1. ASSUME NEW i \in Instances PROVE ChanSize(i) \in Nat
    <3> DEFINE W == {w \in Workers : PodOf[w] = i}
    <3>1. W \in SUBSET Workers  OBVIOUS
    <3>2. Cardinality(W) \in Nat  BY <3>1, FS_Subset, FS_CardinalityType, SubscriberAssumption
    <3> QED  BY <3>2 DEF ChanSize
  <2> QED  BY <2>1 DEF SubInv, SubShapes
<1>1. ASSUME UNCHANGED msgChan PROVE ChannelsFit'
  BY <1>1 DEF ChannelsFit, ChanSize
<1>2. ASSUME NEW i \in Instances, NEW q, msgChan' = [msgChan EXCEPT ![i] = q], Len(q) <= ChanSize(i)
      PROVE  ChannelsFit'
  BY <1>2 DEF ChannelsFit, ChanSize, SubInv, SubShapes
<1>3. ASSUME NEW i \in Instances, Dies(i) PROVE ChannelsFit'
  <2>1. Len(<< >>) <= ChanSize(i)  BY <1>0
  <2> QED  BY <1>2, <1>3, <2>1 DEF Dies
<1>4. ASSUME NEW e \in Events, Publish(e) \/ Expire(e) PROVE ChannelsFit'
  BY <1>1, <1>4 DEF Publish, Expire, clientVars
<1>5. ASSUME NEW e \in Events, NEW i \in Instances, Deliver(e, i) PROVE ChannelsFit'
  BY <1>1, <1>5 DEF Deliver
<1>6. ASSUME NEW w \in Workers, Receive(w) \/ HandlerReturns(w) PROVE ChannelsFit'
  <2>1. CASE Receive(w)
    <3> DEFINE i == PodOf[w]
    <3>1. i \in Instances /\ msgChan[i] \in Seq(Messages) /\ msgChan[i] # << >>
      BY <2>1, ReceivedTypes
    <3>2. msgChan' = [msgChan EXCEPT ![i] = Tail(msgChan[i])]
      BY <2>1, <3>1 DEF Receive, SubInv, SubShapes
    <3> HIDE DEF i
    <3>3. Len(Tail(msgChan[i])) = Len(msgChan[i]) - 1 /\ Len(msgChan[i]) \in Nat
      BY <3>1, HeadTailProperties
    <3>4. Len(msgChan[i]) <= ChanSize(i) /\ ChanSize(i) \in Nat  BY <1>0, <3>1 DEF ChannelsFit
    <3>5. Len(Tail(msgChan[i])) <= ChanSize(i)  BY <3>3, <3>4
    <3> QED  BY <1>2, <3>1, <3>2, <3>5
  <2>2. CASE HandlerReturns(w)  BY <1>1, <2>2 DEF HandlerReturns
  <2> QED  BY <1>6, <2>1, <2>2
<1>7. ASSUME NEW w \in Workers, PublishDLQ(w) \/ Answer(w) \/ AnswerLost(w) PROVE ChannelsFit'
  BY <1>1, <1>7 DEF PublishDLQ, Answer, AnswerLost
<1>8. ASSUME NEW i \in Instances, Callback(i) PROVE ChannelsFit'
  BY <1>1, <1>8 DEF Callback
<1>9. ASSUME NEW i \in Instances, Send(i) PROVE ChannelsFit'
  <2>1. msgChan' = [msgChan EXCEPT ![i] = Append(msgChan[i], callback[i])]
        /\ Len(msgChan[i]) < ChanSize(i)
    BY <1>9 DEF Send, SubInv, SubShapes
  <2>2. Len(Append(msgChan[i], callback[i])) <= ChanSize(i)
    <3>1. Len(Append(msgChan[i], callback[i])) = Len(msgChan[i]) + 1 /\ Len(msgChan[i]) \in Nat
      BY <1>0
    <3> QED  BY <1>0, <2>1, <3>1
  <2> QED  BY <1>2, <2>1, <2>2
<1>10. ASSUME NEW i \in Instances, Boot(i) PROVE ChannelsFit'
  BY <1>1, <1>10 DEF Boot, clientVars
<1>11. ASSUME NEW i \in Instances, CloseChannel(i) \/ Exit(i) \/ Crash(i) PROVE ChannelsFit'
  BY <1>1, <1>3, <1>11 DEF CloseChannel, Exit, Crash, clientVars
<1>12. ASSUME NEW i \in Instances, Unsubscribe(i) PROVE ChannelsFit'
  BY <1>1, <1>12 DEF Unsubscribe
<1> HIDE DEF ChannelsFit
<1> QED  BY <1>4, <1>5, <1>6, <1>7, <1>8, <1>9, <1>10, <1>11, <1>12, StepCases

\* What a step makes of one worker: it goes on with a message, or has none.
LEMMA WorkerSteps ==
  ASSUME SubInv, NEW w \in Workers
  PROVE  /\ Receive(w) => \E s \in {"handling", "dlq", "nak"} :
                            Become(w, s, Head(msgChan[PodOf[w]]))
         /\ HandlerReturns(w) => \E s \in {"ack", "dlq", "nak"} : Become(w, s, worker[w].msg)
         /\ PublishDLQ(w) => Become(w, "ack", worker[w].msg)
         /\ Answer(w) \/ AnswerLost(w) => worker' = [worker EXCEPT ![w] = IdleWorker]
BY FailedGoesOn DEF Receive, HandlerReturns, PublishDLQ, Answer, AnswerLost

LEMMA IdleHoldNothingStep ==
  ASSUME SubInv, IdleHoldNothing, Next PROVE IdleHoldNothing'
<1>1. ASSUME \A w \in Workers : worker'[w] = worker[w] \/ worker'[w] = IdleWorker
      PROVE IdleHoldNothing'
  <2>1. IdleWorker.pc = "idle" /\ IdleWorker.msg = None  BY DEF IdleWorker
  <2> QED  BY <1>1, <2>1 DEF IdleHoldNothing
<1>2. ASSUME NEW w \in Workers, NEW s \in {"handling", "dlq", "ack", "nak"},
             NEW m \in Messages, Become(w, s, m)
      PROVE  IdleHoldNothing'
  <2>1. /\ worker'[w] = [pc |-> s, msg |-> m]
        /\ \A v \in Workers \ {w} : worker'[v] = worker[v]
    BY <1>2 DEF SubInv, SubShapes, Become
  <2>2. m # None /\ s # "idle"  BY NoMessageIsNone
  <2> QED  BY <2>1, <2>2 DEF IdleHoldNothing
<1>3. ASSUME NEW e \in Events, Publish(e) \/ Expire(e) PROVE IdleHoldNothing'
  BY <1>1, <1>3 DEF Publish, Expire, clientVars
<1>4. ASSUME NEW e \in Events, NEW i \in Instances, Deliver(e, i) PROVE IdleHoldNothing'
  BY <1>1, <1>4 DEF Deliver
<1>5. ASSUME NEW w \in Workers, Receive(w) \/ HandlerReturns(w) PROVE IdleHoldNothing'
  <2>1. Receive(w) => Head(msgChan[PodOf[w]]) \in Messages  BY ReceivedTypes
  <2>2. HandlerReturns(w) => worker[w].msg \in Messages
    BY WorkerTypes DEF HandlerReturns
  <2> QED  BY <1>2, <1>5, <2>1, <2>2, WorkerSteps
<1>6. ASSUME NEW w \in Workers, PublishDLQ(w) PROVE IdleHoldNothing'
  <2>1. worker[w].msg \in Messages  BY <1>6, WorkerTypes DEF PublishDLQ
  <2> QED  BY <1>2, <1>6, <2>1, WorkerSteps
<1>7. ASSUME NEW w \in Workers, Answer(w) \/ AnswerLost(w) PROVE IdleHoldNothing'
  BY <1>1, <1>7, WorkerSteps, AnswerKeeps
<1>8. ASSUME NEW i \in Instances, Callback(i) PROVE IdleHoldNothing'
  BY <1>1, <1>8 DEF Callback
<1>9. ASSUME NEW i \in Instances, Send(i) PROVE IdleHoldNothing'
  BY <1>1, <1>9 DEF Send
<1>10. ASSUME NEW i \in Instances, Boot(i) PROVE IdleHoldNothing'
  BY <1>1, <1>10 DEF Boot, clientVars
<1>11. ASSUME NEW i \in Instances, CloseChannel(i) \/ Exit(i) \/ Crash(i)
       PROVE  IdleHoldNothing'
  BY <1>1, <1>11 DEF CloseChannel, Exit, Crash, Dies, clientVars
<1>12. ASSUME NEW i \in Instances, Unsubscribe(i) PROVE IdleHoldNothing'
  BY <1>1, <1>12 DEF Unsubscribe
<1> HIDE DEF IdleHoldNothing
<1> QED  BY <1>3, <1>4, <1>5, <1>6, <1>7, <1>8, <1>9, <1>10, <1>11, <1>12, StepCases

\* What an answer makes of the server.
LEMMA AnsweredServer ==
  ASSUME SubInv, ConsumerInv, NEW e \in Events, NEW st \in {"acked", "due"}, Answered(e, st)
  PROVE  /\ \A d \in Events \ {e} : server'[d] = server[d]
         /\ server'[e].num = server[e].num
         /\ \/ server[e].st \in {"pending", "due"} /\ exists /\ server'[e].st = st
            \/ server[e].st \notin {"pending", "due"} /\ server'[e] = server[e]
<1>1. server[e] \in [st : ServerStates, num : Nat, wellFormed : BOOLEAN]
  BY DEF SubInv, SubShapes
<1>2. server[e].st \in {"pending", "due"} => exists
  BY DEF ConsumerInv
<1>3. CASE server[e].st \in {"pending", "due"}
  BY <1>1, <1>2, <1>3 DEF Answered, SubInv, SubShapes
<1>4. CASE server[e].st \notin {"pending", "due"}
  BY <1>1, <1>4 DEF Answered, SubInv, SubShapes
<1> QED  BY <1>3, <1>4

LEMMA ConsumerInvStep ==
  ASSUME SubInv, RestTypes, ConsumerInv, Next PROVE ConsumerInv'
<1>1. ASSUME UNCHANGED <<server, exists, up, sub>> PROVE ConsumerInv'
  BY <1>1 DEF ConsumerInv
<1>2. ASSUME NEW e \in Events, Publish(e) PROVE ConsumerInv'
  BY <1>2 DEF Publish, podVars, ConsumerInv, SubInv, SubShapes
<1>3. ASSUME NEW e \in Events, Expire(e) PROVE ConsumerInv'
  BY <1>3 DEF Expire, podVars, ConsumerInv, SubInv, SubShapes
<1>4. ASSUME NEW e \in Events, NEW i \in Instances, Deliver(e, i) PROVE ConsumerInv'
  BY <1>4 DEF Deliver, podVars, ConsumerInv, SubInv, SubShapes
<1>5. ASSUME NEW w \in Workers, Receive(w) \/ HandlerReturns(w) \/ PublishDLQ(w) \/ AnswerLost(w)
      PROVE ConsumerInv'
  BY <1>1, <1>5 DEF Receive, HandlerReturns, PublishDLQ, AnswerLost, podVars
<1>6. ASSUME NEW w \in Workers, Answer(w) PROVE ConsumerInv'
  <2> DEFINE e == worker[w].msg.event
  <2>1. e \in Events  BY <1>6, WorkerTypes DEF Answer
  <2>2. Answered(e, "acked") \/ Answered(e, "due")  BY <1>6 DEF Answer
  <2>3. UNCHANGED <<exists, up, sub>>
    BY <1>6 DEF Answer, podVars, Answered
  <2> HIDE DEF e
  <2>4. \A d \in Events : \/ server'[d] = server[d]
                          \/ exists /\ server'[d].st \in {"acked", "due"}
    BY <2>1, <2>2, AnsweredServer
  <2> QED  BY <2>3, <2>4 DEF ConsumerInv
<1>7. ASSUME NEW i \in Instances, Callback(i) PROVE ConsumerInv'
  BY <1>1, <1>7 DEF Callback, podVars
<1>8. ASSUME NEW i \in Instances, Send(i) PROVE ConsumerInv'
  BY <1>1, <1>8 DEF Send, podVars
<1>9. ASSUME NEW i \in Instances, Boot(i) PROVE ConsumerInv'
  BY <1>9 DEF Boot, RestTypes, ConsumerInv
<1>10. ASSUME NEW i \in Instances, CloseChannel(i) \/ Exit(i) \/ Crash(i)
       PROVE  ConsumerInv'
  <2>1. UNCHANGED <<server, exists>>  BY <1>10 DEF CloseChannel, Exit, Crash
  <2>2. \A j \in Instances \ {i} : up'[j] = up[j] /\ sub'[j] = sub[j]
    BY <1>10 DEF CloseChannel, Exit, Crash, Dies, RestTypes
  <2>3. sub'[i] # "live"
    BY <1>10 DEF CloseChannel, Exit, Crash, RestTypes, ConsumerInv
  <2> QED  BY <2>1, <2>2, <2>3 DEF ConsumerInv
<1>11. ASSUME NEW i \in Instances, Unsubscribe(i) PROVE ConsumerInv'
  <2>1. \A j \in Instances : sub'[j] = "live" => j # i /\ sub[j] = "live" /\ up'[j] = up[j]
    BY <1>11 DEF Unsubscribe, RestTypes
  <2>2. CASE DeleteConsumer
    <3>1. \A e \in Events :
            /\ server'[e].st \in {"unsent", "new"}
            /\ server'[e].st = "unsent" => server'[e] = server[e]
      BY <2>2, DeletedServer
    <3> QED  BY <2>1, <3>1 DEF ConsumerInv
  <2>3. CASE UNCHANGED <<server, exists>>
    BY <2>1, <2>3 DEF ConsumerInv
  <2> QED  BY <1>11, <2>2, <2>3 DEF Unsubscribe
<1> HIDE DEF ConsumerInv
<1> QED  BY <1>2, <1>3, <1>4, <1>5, <1>6, <1>7, <1>8, <1>9, <1>10, <1>11, StepCases

-----------------------------------------------------------------------------
(* What each step makes of the number of copies. *)

LEMMA CopiesNext ==
  ASSUME NEW e
  PROVE  Copies(e)' = Cardinality(Holders(e)') + Cardinality(Senders(e)')
                      + Cardinality(Places(inbox', e)) + Cardinality(Places(msgChan', e))
BY DEF Copies, Places

LEMMA HoldersSame == ASSUME UNCHANGED worker, NEW e PROVE Holders(e)' = Holders(e)
BY DEF Holders, HeldBy

LEMMA SendersSame == ASSUME UNCHANGED callback, NEW e PROVE Senders(e)' = Senders(e)
BY DEF Senders

LEMMA CopiesSame ==
  ASSUME UNCHANGED clientVars, NEW e PROVE Copies(e)' = Copies(e)
BY HoldersSame, SendersSame, CopiesNext DEF Copies, clientVars

LEMMA CopiesDelivered ==
  ASSUME SubInv, NEW i \in Instances, NEW m, NEW e,
         inbox'[i] = Append(inbox[i], m), \A j \in Instances \ {i} : inbox'[j] = inbox[j],
         UNCHANGED <<callback, msgChan, worker>>
  PROVE  Copies(e)' = Copies(e) + One(m.event = e)
<1>1. inbox \in Queues  BY DEF SubInv, SubShapes, Queues
<1>2. Cardinality(Places(inbox', e)) = Cardinality(Places(inbox, e)) + One(m.event = e)
  BY <1>1, PlacesAppend
<1>3. Copies(e)' = Cardinality(Holders(e)) + Cardinality(Senders(e))
                   + Cardinality(Places(inbox', e)) + Cardinality(Places(msgChan, e))
  BY HoldersSame, SendersSame, CopiesNext
<1>4. One(m.event = e) \in Nat  BY DEF One
<1> QED  BY <1>2, <1>3, <1>4, CopiesType DEF Copies

\* The set of callbacks that send e, when that of pod i changes.
LEMMA SendersChange ==
  ASSUME SubInv, NEW i \in Instances, NEW m, NEW e,
         callback'[i] = m, \A j \in Instances \ {i} : callback'[j] = callback[j]
  PROVE  /\ Cardinality(Senders(e)') \in Nat
         /\ Cardinality(Senders(e)') + One(callback[i] # None /\ callback[i].event = e)
              = Cardinality(Senders(e)) + One(m # None /\ m.event = e)
<1>1. callback'[i] = m /\ \A j \in Instances \ {i} : callback'[j] = callback[j]
  OBVIOUS
<1>2. \A j : j # i => (j \in Senders(e) <=> j \in Senders(e)')
  BY <1>1 DEF Senders
<1>3. i \in Senders(e) <=> callback[i] # None /\ callback[i].event = e
  BY DEF Senders
<1>4. i \in Senders(e)' <=> m # None /\ m.event = e
  BY <1>1 DEF Senders
<1>5. /\ Cardinality(Senders(e)') \in Nat
      /\ Cardinality(Senders(e)') + One(i \in Senders(e))
              = Cardinality(Senders(e)) + One(i \in Senders(e)')
  BY <1>2, OneDiffers, CopiesType
<1> QED  BY <1>3, <1>4, <1>5 DEF One

LEMMA HoldersChange ==
  ASSUME SubInv, NEW w \in Workers, NEW s, NEW m, NEW e, Become(w, s, m)
  PROVE  /\ Cardinality(Holders(e)') \in Nat
         /\ Cardinality(Holders(e)') + One(HeldBy(w, e))
              = Cardinality(Holders(e)) + One(m # None /\ m.event = e)
<1>1. worker'[w].msg = m /\ \A v \in Workers \ {w} : worker'[v] = worker[v]
  BY DEF Become, SubInv, SubShapes
<1>2. \A v : v # w => (v \in Holders(e) <=> v \in Holders(e)')
  BY <1>1 DEF Holders, HeldBy
<1>3. w \in Holders(e) <=> HeldBy(w, e)
  BY DEF Holders
<1>4. w \in Holders(e)' <=> m # None /\ m.event = e
  BY <1>1 DEF Holders, HeldBy
<1>5. /\ Cardinality(Holders(e)') \in Nat
      /\ Cardinality(Holders(e)') + One(w \in Holders(e))
              = Cardinality(Holders(e)) + One(w \in Holders(e)')
  BY <1>2, OneDiffers, CopiesType
<1> QED  BY <1>3, <1>4, <1>5 DEF One

LEMMA CopiesCalledBack ==
  ASSUME SubInv, NEW i \in Instances, Callback(i), NEW e
  PROVE  Copies(e)' = Copies(e)
<1> DEFINE m == Head(inbox[i])
<1>1. inbox \in Queues /\ inbox[i] \in Seq(Messages) /\ inbox[i] # << >>
  BY DEF Callback, SubInv, SubShapes, Queues
<1>2. m \in Messages /\ m # None  BY <1>1, FirstMessage, NoMessageIsNone
<1>3. /\ inbox' = [inbox EXCEPT ![i] = Tail(inbox[i])]
      /\ callback' = [callback EXCEPT ![i] = m] /\ callback[i] = None
      /\ UNCHANGED <<msgChan, worker>>
  BY DEF Callback, SubInv, SubShapes
<1> HIDE DEF m
<1>4. Cardinality(Places(inbox', e)) + One(m.event = e) = Cardinality(Places(inbox, e))
  <2>1. inbox'[i] = Tail(inbox[i]) /\ \A j \in Instances \ {i} : inbox'[j] = inbox[j]
    BY <1>1, <1>3 DEF Queues
  <2> QED  BY <1>1, <2>1, PlacesTail DEF m
<1>5. /\ Cardinality(Senders(e)') \in Nat
      /\ Cardinality(Senders(e)') = Cardinality(Senders(e)) + One(m.event = e)
  <2>1. /\ Cardinality(Senders(e)') \in Nat
        /\ Cardinality(Senders(e)') + One(callback[i] # None /\ callback[i].event = e)
             = Cardinality(Senders(e)) + One(m # None /\ m.event = e)
    <3>1. callback'[i] = m /\ \A j \in Instances \ {i} : callback'[j] = callback[j]
      BY <1>3 DEF SubInv, SubShapes
    <3> QED  BY <3>1, SendersChange
  <2>2. One(callback[i] # None /\ callback[i].event = e) = 0
        /\ One(m # None /\ m.event = e) = One(m.event = e)
    BY <1>2, <1>3 DEF One
  <2> QED  BY <2>1, <2>2
<1>6. Cardinality(Places(inbox', e)) \in Nat
  <2>1. inbox' \in Queues  BY <1>1, <1>3 DEF Queues
  <2> QED  BY <2>1, PlacesFinite
<1>7. Copies(e)' = Cardinality(Holders(e)) + Cardinality(Senders(e)')
                   + Cardinality(Places(inbox', e)) + Cardinality(Places(msgChan, e))
  BY <1>3, HoldersSame, CopiesNext
<1>8. One(m.event = e) \in Nat  BY DEF One
<1> QED  BY <1>4, <1>5, <1>6, <1>7, <1>8, CopiesType DEF Copies

LEMMA CopiesSent ==
  ASSUME SubInv, NEW i \in Instances, Send(i), NEW e
  PROVE  Copies(e)' = Copies(e)
<1>0. PICK m : m = callback[i]  OBVIOUS
<1>1. msgChan \in Queues  BY DEF SubInv, SubShapes, Queues
<1>2. /\ msgChan' = [msgChan EXCEPT ![i] = Append(msgChan[i], m)]
      /\ callback' = [callback EXCEPT ![i] = None] /\ m # None
      /\ UNCHANGED <<inbox, worker>>
  BY <1>0 DEF Send, SubInv, SubShapes
<1>3. Cardinality(Places(msgChan', e)) = Cardinality(Places(msgChan, e)) + One(m.event = e)
  <2>1. msgChan'[i] = Append(msgChan[i], m)
        /\ \A j \in Instances \ {i} : msgChan'[j] = msgChan[j]
    BY <1>1, <1>2 DEF Queues
  <2> QED  BY <1>1, <2>1, PlacesAppend
<1>4. Cardinality(Senders(e)') \in Nat
      /\ Cardinality(Senders(e)') + One(m.event = e) = Cardinality(Senders(e))
  <2>1. /\ Cardinality(Senders(e)') \in Nat
        /\ Cardinality(Senders(e)') + One(callback[i] # None /\ callback[i].event = e)
             = Cardinality(Senders(e)) + One(None # None /\ None.event = e)
    <3>1. callback'[i] = None /\ \A j \in Instances \ {i} : callback'[j] = callback[j]
      BY <1>2 DEF SubInv, SubShapes
    <3> QED  BY <3>1, SendersChange
  <2>2. One(callback[i] # None /\ callback[i].event = e) = One(m.event = e)
        /\ One(None # None /\ None.event = e) = 0
    BY <1>0, <1>2 DEF One
  <2> QED  BY <2>1, <2>2, CopiesType
<1>5. Copies(e)' = Cardinality(Holders(e)) + Cardinality(Senders(e)')
                   + Cardinality(Places(inbox, e)) + Cardinality(Places(msgChan', e))
  BY <1>2, HoldersSame, CopiesNext
<1>6. One(m.event = e) \in Nat  BY DEF One
<1> QED  BY <1>3, <1>4, <1>5, <1>6, CopiesType DEF Copies

LEMMA CopiesReceived ==
  ASSUME SubInv, IdleHoldNothing, NEW w \in Workers, Receive(w), NEW e
  PROVE  Copies(e)' = Copies(e)
<1> DEFINE i == PodOf[w]
           m == Head(msgChan[i])
<1>1. i \in Instances /\ msgChan \in Queues /\ msgChan[i] # << >> /\ m \in Messages /\ m # None
  BY ReceivedTypes, NoMessageIsNone DEF SubInv, SubShapes, Queues
<1>2. msgChan' = [msgChan EXCEPT ![i] = Tail(msgChan[i])] /\ UNCHANGED <<inbox, callback>>
  BY <1>1 DEF Receive, Queues
<1>3. Cardinality(Places(msgChan', e)) + One(m.event = e) = Cardinality(Places(msgChan, e))
  <2>1. msgChan'[i] = Tail(msgChan[i])
        /\ \A j \in Instances \ {i} : msgChan'[j] = msgChan[j]
    BY <1>1, <1>2 DEF Queues
  <2> QED  BY <1>1, <2>1, PlacesTail
<1>4. PICK s : Become(w, s, m)  BY WorkerSteps
<1> HIDE DEF m, i
<1>5. ~HeldBy(w, e)  BY DEF Receive, IdleHoldNothing, HeldBy
<1>6. Cardinality(Holders(e)') \in Nat
      /\ Cardinality(Holders(e)') = Cardinality(Holders(e)) + One(m.event = e)
  BY <1>1, <1>4, <1>5, HoldersChange, CopiesType DEF One
<1>7. Cardinality(Places(msgChan', e)) \in Nat
  <2>1. Tail(msgChan[i]) \in Seq(Messages)  BY <1>1, FirstMessage DEF Queues
  <2>2. msgChan' \in Queues  BY <1>1, <1>2, <2>1 DEF Queues
  <2> QED  BY <2>2, PlacesFinite
<1>8. Copies(e)' = Cardinality(Holders(e)') + Cardinality(Senders(e))
                   + Cardinality(Places(inbox, e)) + Cardinality(Places(msgChan', e))
  BY <1>2, SendersSame, CopiesNext
<1>9. One(m.event = e) \in Nat  BY DEF One
<1> QED  BY <1>3, <1>6, <1>7, <1>8, <1>9, CopiesType DEF Copies

LEMMA CopiesHandled ==
  ASSUME SubInv, NEW w \in Workers, HandlerReturns(w) \/ PublishDLQ(w), NEW e
  PROVE  Copies(e)' = Copies(e)
<1>1. worker[w].msg \in Messages /\ worker[w].msg # None
  BY WorkerTypes, NoMessageIsNone DEF HandlerReturns, PublishDLQ
<1>2. PICK s : Become(w, s, worker[w].msg)  BY WorkerSteps
<1>3. Cardinality(Holders(e)') \in Nat /\ Cardinality(Holders(e)') = Cardinality(Holders(e))
  BY <1>1, <1>2, HoldersChange, CopiesType DEF One, HeldBy
<1>4. UNCHANGED <<inbox, callback, msgChan>>  BY DEF HandlerReturns, PublishDLQ
<1> QED  BY <1>3, <1>4, SendersSame, CopiesNext DEF Copies

LEMMA CopiesAnswered ==
  ASSUME SubInv, NEW w \in Workers, Answer(w) \/ AnswerLost(w), NEW e
  PROVE  Copies(e)' + One(worker[w].msg.event = e) = Copies(e) /\ Copies(e)' \in Nat
<1>1. worker[w].msg \in Messages /\ worker[w].msg # None
  BY WorkerTypes, NoMessageIsNone DEF Answer, AnswerLost
<1>2. Become(w, "idle", None)  BY WorkerSteps DEF Become, IdleWorker
<1>3. Cardinality(Holders(e)') \in Nat
      /\ Cardinality(Holders(e)') + One(worker[w].msg.event = e) = Cardinality(Holders(e))
  BY <1>1, <1>2, HoldersChange, CopiesType DEF One, HeldBy
<1>4. UNCHANGED <<inbox, callback, msgChan>>  BY DEF Answer, AnswerLost
<1>5. One(worker[w].msg.event = e) \in Nat  BY DEF One
<1>6. Copies(e)' = Cardinality(Holders(e)') + Cardinality(Senders(e))
                   + Cardinality(Places(inbox, e)) + Cardinality(Places(msgChan, e))
  BY <1>4, SendersSame, CopiesNext
<1> QED  BY <1>3, <1>5, <1>6, CopiesType DEF Copies

\* What a process held is gone, wholly or as far as the library held it.
LEMMA CopiesGone ==
  ASSUME SubInv, NEW i \in Instances, Dies(i) \/ Unsubscribe(i), NEW e
  PROVE  Copies(e)' <= Copies(e) /\ Copies(e)' \in Nat
<1>1. inbox \in Queues /\ msgChan \in Queues  BY DEF SubInv, SubShapes, Queues
<1>2. inbox' = [inbox EXCEPT ![i] = << >>]
      /\ (msgChan' = [msgChan EXCEPT ![i] = << >>] \/ UNCHANGED msgChan)
  BY DEF Dies, Unsubscribe
<1>3. /\ Cardinality(Places(inbox', e)) <= Cardinality(Places(inbox, e))
      /\ Cardinality(Places(msgChan', e)) <= Cardinality(Places(msgChan, e))
  <2>1. inbox'[i] = << >> /\ \A j \in Instances \ {i} : inbox'[j] = inbox[j]
    BY <1>1, <1>2 DEF Queues
  <2>2. Cardinality(Places(inbox', e)) <= Cardinality(Places(inbox, e))
    BY <1>1, <2>1, PlacesGone
  <2>3. CASE UNCHANGED msgChan  BY <2>2, <2>3, CopiesType
  <2>4. CASE msgChan' = [msgChan EXCEPT ![i] = << >>]
    <3>1. msgChan'[i] = << >> /\ \A j \in Instances \ {i} : msgChan'[j] = msgChan[j]
      BY <1>1, <2>4 DEF Queues
    <3> QED  BY <1>1, <2>2, <3>1, PlacesGone
  <2> QED  BY <1>2, <2>3, <2>4
<1>4. Holders(e)' \subseteq Holders(e)
  <2>1. \A w \in Workers : worker'[w] = worker[w] \/ worker'[w].msg = None
    BY DEF Dies, Unsubscribe, IdleWorker
  <2> QED  BY <2>1 DEF Holders, HeldBy
<1>5. Senders(e)' \subseteq Senders(e)
  <2>1. \A j \in Instances : callback'[j] = callback[j] \/ callback'[j] = None
    BY DEF Dies, Unsubscribe, SubInv, SubShapes
  <2> QED  BY <2>1 DEF Senders
<1>6. /\ Cardinality(Holders(e)') <= Cardinality(Holders(e)) /\ Cardinality(Holders(e)') \in Nat
      /\ Cardinality(Senders(e)') <= Cardinality(Senders(e)) /\ Cardinality(Senders(e)') \in Nat
  BY <1>4, <1>5, CopiesType, FS_Subset, FS_CardinalityType
<1>7. Cardinality(Places(inbox', e)) \in Nat /\ Cardinality(Places(msgChan', e)) \in Nat
  <2>1. << >> \in Seq(Messages)  OBVIOUS
  <2>2. inbox' \in Queues /\ msgChan' \in Queues  BY <1>1, <1>2, <2>1 DEF Queues
  <2> QED  BY <2>2, PlacesFinite
<1> QED  BY <1>3, <1>6, <1>7, CopiesNext, CopiesType DEF Copies

-----------------------------------------------------------------------------
(* Copies are accounted for. *)

\* Each event has the copy the server waits for, or one more it has heard of, and
\* those that were given out again while another was there.
Accounted(e) ==
  Copies(e) <= hist[e].reissued + One(server[e].st \in {"pending", "acked"})

\* Where the copies, the server and the history stand as well or better.
LEMMA AccountedKept ==
  ASSUME SubInv, RestTypes, NEW e \in Events, Accounted(e),
         Copies(e)' <= Copies(e), Copies(e)' \in Nat,
         hist'[e].reissued \in Nat, hist[e].reissued <= hist'[e].reissued,
         server[e].st \in {"pending", "acked"} => server'[e].st \in {"pending", "acked"}
  PROVE  Accounted(e)'
<1>1. Copies(e) \in Nat /\ hist[e].reissued \in Nat
  BY CopiesType DEF RestTypes, HistTypes
<1>2. /\ One(server[e].st \in {"pending", "acked"}) \in Nat
      /\ One(server'[e].st \in {"pending", "acked"}) \in Nat
      /\ One(server[e].st \in {"pending", "acked"}) <= One(server'[e].st \in {"pending", "acked"})
  BY DEF One
<1>3. Copies(e)' <= hist'[e].reissued + One(server'[e].st \in {"pending", "acked"})
  BY <1>1, <1>2 DEF Accounted
<1> QED  BY <1>3 DEF Accounted, One

LEMMA AccountedStep ==
  ASSUME SubInv, PodInv, Next, NEW e \in Events, Accounted(e)
  PROVE  Accounted(e)'
<1>0. /\ Copies(e) \in Nat /\ hist[e] \in HistTypes /\ hist[e].reissued \in Nat
      /\ RestTypes /\ ConsumerInv /\ IdleHoldNothing
  BY CopiesType DEF PodInv, RestTypes, HistTypes
<1>1. ASSUME Copies(e)' = Copies(e), UNCHANGED server, hist'[e].reissued = hist[e].reissued
      PROVE  Accounted(e)'
  BY <1>0, <1>1, AccountedKept
<1>2. ASSUME NEW d \in Events, Publish(d) PROVE Accounted(e)'
  <2>1. /\ server[e].st \in {"pending", "acked"} => server'[e].st \in {"pending", "acked"}
        /\ UNCHANGED hist
    BY <1>2 DEF Publish, SubInv, SubShapes
  <2>2. Copies(e)' = Copies(e)  BY <1>2, CopiesSame DEF Publish
  <2> QED  BY <1>0, <2>1, <2>2, AccountedKept
<1>3. ASSUME NEW d \in Events, Expire(d) PROVE Accounted(e)'
  <2>1. Copies(e)' = Copies(e)  BY <1>3, CopiesSame DEF Expire
  <2>2. server[d].st = "pending" /\ server'[d].st = "due"
        /\ \A c \in Events \ {d} : server'[c] = server[c]
    BY <1>3 DEF Expire, SubInv, SubShapes
  <2>3. \/ Copies(d) = 0 /\ UNCHANGED hist
        \/ hist' = [hist EXCEPT ![d].reissued = @ + 1]
    BY <1>3 DEF Expire
  <2>4. CASE UNCHANGED hist /\ Copies(d) = 0
    <3>1. CASE d = e  BY <1>0, <2>1, <2>2, <2>4, <3>1 DEF Accounted, One
    <3>2. CASE d # e  BY <1>0, <2>1, <2>2, <2>4, <3>2, AccountedKept
    <3> QED  BY <3>1, <3>2
  <2>5. CASE hist' = [hist EXCEPT ![d].reissued = @ + 1]
    <3>1. hist'[d].reissued = hist[d].reissued + 1 /\ \A c \in Events \ {d} : hist'[c] = hist[c]
      BY <1>0, <2>5, ExpiredHist
    <3>2. CASE d = e
      <4>1. One(server[e].st \in {"pending", "acked"}) = 1
            /\ One(server'[e].st \in {"pending", "acked"}) = 0
        BY <2>2, <3>2 DEF One
      <4>2. Copies(e)' <= hist'[e].reissued + One(server'[e].st \in {"pending", "acked"})
        BY <1>0, <2>1, <3>1, <3>2, <4>1 DEF Accounted
      <4> QED  BY <4>2 DEF Accounted, One
    <3>3. CASE d # e
      <4>1. hist'[e] = hist[e] /\ server'[e] = server[e]  BY <2>2, <3>1, <3>3
      <4> QED  BY <1>0, <2>1, <4>1, AccountedKept
    <3> QED  BY <3>2, <3>3
  <2> QED  BY <2>3, <2>4, <2>5
<1>4. ASSUME NEW d \in Events, NEW i \in Instances, Deliver(d, i) PROVE Accounted(e)'
  <2>1. PICK m : /\ inbox'[i] = Append(inbox[i], m) /\ m.event = d
                 /\ \A j \in Instances \ {i} : inbox'[j] = inbox[j]
    BY <1>4 DEF Deliver, Copy, SubInv, SubShapes
  <2>2. Copies(e)' = Copies(e) + One(d = e)
    <3>1. UNCHANGED <<callback, msgChan, worker>>  BY <1>4 DEF Deliver
    <3> QED  BY <2>1, <3>1, CopiesDelivered
  <2>3. server[d].st \in {"new", "due"} /\ server'[d].st = "pending" /\ UNCHANGED hist
        /\ \A c \in Events \ {d} : server'[c] = server[c]
    BY <1>4 DEF Deliver, SubInv, SubShapes
  <2>4. CASE d = e
    BY <1>0, <2>2, <2>3, <2>4 DEF Accounted, One
  <2>5. CASE d # e
    <3>1. Copies(e)' = Copies(e) /\ server'[e] = server[e]  BY <1>0, <2>2, <2>3, <2>5 DEF One
    <3> QED  BY <1>0, <2>3, <3>1, AccountedKept
  <2> QED  BY <2>4, <2>5
<1>5. ASSUME NEW w \in Workers, Receive(w) \/ HandlerReturns(w) PROVE Accounted(e)'
  <2>1. Copies(e)' = Copies(e)  BY <1>0, <1>5, CopiesReceived, CopiesHandled
  <2>2. UNCHANGED server  BY <1>5 DEF Receive, HandlerReturns
  <2>3. hist'[e].reissued = hist[e].reissued
    <3>1. CASE Receive(w)
      <4> DEFINE m == Head(msgChan[PodOf[w]])
      <4>1. UNCHANGED hist \/ Failed(m.event, m)  BY <3>1 DEF Receive
      <4>2. m.event \in Events  BY <3>1, ReceivedTypes
      <4> HIDE DEF m
      <4> QED  BY <1>0, <4>1, <4>2, FailedTypes
    <3>2. CASE HandlerReturns(w)
      <4> DEFINE m == worker[w].msg
      <4>1. Failed(m.event, m) \/ hist' = [hist EXCEPT ![m.event].handled = TRUE]
        BY <3>2 DEF HandlerReturns
      <4>2. m.event \in Events  BY <3>2, WorkerTypes DEF HandlerReturns
      <4> HIDE DEF m
      <4> QED  BY <1>0, <4>1, <4>2, FailedTypes, FlagTypes
    <3> QED  BY <1>5, <3>1, <3>2
  <2> QED  BY <1>1, <2>1, <2>2, <2>3
<1>6. ASSUME NEW w \in Workers, PublishDLQ(w) PROVE Accounted(e)'
  <2>1. Copies(e)' = Copies(e)  BY <1>6, CopiesHandled
  <2>2. UNCHANGED <<server, hist>>  BY <1>6 DEF PublishDLQ
  <2> QED  BY <1>1, <2>1, <2>2
<1>7. ASSUME NEW w \in Workers, Answer(w) \/ AnswerLost(w) PROVE Accounted(e)'
  <2> DEFINE d == worker[w].msg.event
  <2>1. Copies(e)' + One(d = e) = Copies(e) /\ Copies(e)' \in Nat  BY <1>7, CopiesAnswered
  <2>2. \/ UNCHANGED server
        \/ Answered(d, "acked")
        \/ Answered(d, "due")
    BY <1>7 DEF Answer, AnswerLost
  <2>3. d \in Events /\ UNCHANGED hist  BY <1>7, WorkerTypes DEF Answer, AnswerLost
  <2> HIDE DEF d
  <2>4. Copies(e)' <= Copies(e)  BY <1>0, <2>1 DEF One
  <2>5. \/ server'[e] = server[e]
        \/ d = e /\ server'[e].st = "due"
        \/ d = e /\ server'[e].st = "acked"
    BY <1>0, <2>2, <2>3, AnsweredServer
  <2>6. CASE d = e /\ server'[e].st = "due"
    <3>1. Copies(e)' + 1 = Copies(e)  BY <2>1, <2>6 DEF One
    <3> QED  BY <1>0, <2>1, <2>3, <2>6, <3>1 DEF Accounted, One
  <2>7. CASE server'[e] = server[e] \/ server'[e].st = "acked"
    BY <1>0, <2>1, <2>3, <2>4, <2>7, AccountedKept
  <2> QED  BY <2>5, <2>6, <2>7
<1>8. ASSUME NEW i \in Instances, Callback(i) PROVE Accounted(e)'
  BY <1>0, <1>1, <1>8, CopiesCalledBack DEF Callback
<1>9. ASSUME NEW i \in Instances, Send(i) PROVE Accounted(e)'
  BY <1>0, <1>1, <1>9, CopiesSent DEF Send
<1>10. ASSUME NEW i \in Instances, Boot(i) PROVE Accounted(e)'
  BY <1>0, <1>1, <1>10, CopiesSame DEF Boot
<1>11. ASSUME NEW i \in Instances, CloseChannel(i) \/ Exit(i) \/ Crash(i)
       PROVE  Accounted(e)'
  <2>1. UNCHANGED <<server, hist>> /\ (Dies(i) \/ UNCHANGED clientVars)
    BY <1>11 DEF CloseChannel, Exit, Crash
  <2>2. Copies(e)' <= Copies(e) /\ Copies(e)' \in Nat
    BY <1>0, <2>1, CopiesGone, CopiesSame
  <2> QED  BY <1>0, <2>1, <2>2, AccountedKept
<1>12. ASSUME NEW i \in Instances, Unsubscribe(i) PROVE Accounted(e)'
  <2>1. Copies(e)' <= Copies(e) /\ Copies(e)' \in Nat  BY <1>12, CopiesGone
  <2>2. DeleteConsumer \/ UNCHANGED <<server, hist>>  BY <1>12 DEF Unsubscribe
  <2>3. CASE UNCHANGED <<server, hist>>  BY <1>0, <2>1, <2>3, AccountedKept
  <2>4. CASE DeleteConsumer
    <3>1. hist'[e].reissued = hist[e].reissued + Copies(e)  BY <1>0, <2>4, DeletedHist
    <3>2. Copies(e)' <= hist'[e].reissued  BY <1>0, <2>1, <3>1
    <3> QED  BY <1>0, <2>1, <3>1, <3>2 DEF Accounted, One
  <2> QED  BY <2>2, <2>3, <2>4
<1> QED  BY <1>2, <1>3, <1>4, <1>5, <1>6, <1>7, <1>8, <1>9, <1>10, <1>11, <1>12, StepCases

LEMMA PodInvStep == ASSUME SubInv, PodInv, [Next]_vars PROVE PodInv'
<1>1. CASE Next
  BY <1>1, RestTypesStep, ChannelsFitStep, IdleHoldNothingStep, ConsumerInvStep DEF PodInv
<1>2. CASE UNCHANGED vars
  BY <1>2 DEF vars, clientVars, podVars, PodInv, RestTypes, ChannelsFit, ChanSize,
              IdleHoldNothing, ConsumerInv
<1> QED  BY <1>1, <1>2

LEMMA PodInvInit == ASSUME Init PROVE PodInv
<1>1. RestTypes
  <2>1. hist \in [Events -> HistTypes]  BY DEF Init, HistTypes
  <2>2. up \in [Instances -> UpStates] /\ sub \in [Instances -> {"none", "live", "stale"}]
    BY DEF Init, UpStates
  <2>3. faults \in 0 .. MaxFaults /\ shutdowns \in 0 .. MaxShutdowns
    BY SubscriberAssumption DEF Init
  <2> QED  BY <2>1, <2>2, <2>3 DEF Init, RestTypes
<1>2. ChannelsFit
  <2>1. ASSUME NEW i \in Instances PROVE Len(msgChan[i]) <= ChanSize(i)
    <3> DEFINE W == {w \in Workers : PodOf[w] = i}
    <3>1. W \in SUBSET Workers  OBVIOUS
    <3>2. Cardinality(W) \in Nat  BY <3>1, FS_Subset, FS_CardinalityType, SubscriberAssumption
    <3> QED  BY <3>2 DEF ChanSize, Init
  <2> QED  BY <2>1 DEF ChannelsFit
<1>3. IdleHoldNothing  BY DEF Init, IdleHoldNothing, IdleWorker
<1>4. ConsumerInv  BY DEF Init, ConsumerInv
<1> QED  BY <1>1, <1>2, <1>3, <1>4 DEF PodInv

LEMMA AccountedInit == ASSUME Init, NEW e \in Events PROVE Accounted(e)
<1>1. Holders(e) = {} /\ Senders(e) = {}
  BY DEF Init, Holders, HeldBy, IdleWorker, Senders
<1>2. Places(inbox, e) = {} /\ Places(msgChan, e) = {}
  <2>1. \A i \in Instances : DOMAIN inbox[i] = {} /\ DOMAIN msgChan[i] = {}
    BY DEF Init
  <2> QED  BY <2>1 DEF Places
<1>3. Copies(e) = 0  BY <1>1, <1>2, FS_EmptySet DEF Copies
<1>4. hist[e].reissued = 0 /\ server[e].st = "unsent"  BY DEF Init
<1> QED  BY <1>3, <1>4 DEF Accounted, One

\* Types, full channels, idle workers and the consumer stand right in every state.
THEOREM PodInvariant == Spec => [](SubInv /\ PodInv)
<1>1. Init => SubInv /\ PodInv  BY SubInvInit, PodInvInit
<1>2. SubInv /\ PodInv /\ [Next]_vars => (SubInv /\ PodInv)'  BY SubInvStep, PodInvStep
<1> QED  BY <1>1, <1>2, PTL DEF Spec

\* The types of the subscriber's and the server's state; the channel never holds more
\* than make(chan, 2 * WorkerConcurrency) has room for.
THEOREM SubscriberTypes == Spec => []TypeOK
<1>1. SubInv /\ PodInv => TypeOK
  BY DEF SubInv, SubShapes, ServerStates, PodInv, RestTypes, HistTypes, UpStates, ChannelsFit, TypeOK
<1> QED  BY <1>1, PodInvariant, PTL

\* A nak, however late, never multiplies a message: there is one copy of it, and one more
\* for each time that AckWait ran out under a live copy or Unsubscribe deleted the
\* consumer.
THEOREM SubscriberCopies == Spec => []CopiesAccountedFor
<1> DEFINE I == SubInv /\ PodInv /\ \A e \in Events : Accounted(e)
<1>1. Init => I  BY SubInvInit, PodInvInit, AccountedInit
<1>2. I /\ [Next]_vars => I'
  <2> SUFFICES ASSUME I, [Next]_vars PROVE I'
    OBVIOUS
  <2>1. SubInv' /\ PodInv'  BY SubInvStep, PodInvStep
  <2>2. CASE Next  BY <2>1, <2>2, AccountedStep
  <2>3. CASE UNCHANGED vars
    <3>1. UNCHANGED <<clientVars, server, hist>>  BY <2>3 DEF vars
    <3>2. \A e \in Events : Accounted(e)'  BY <3>1, CopiesSame DEF Accounted
    <3> QED  BY <2>1, <3>2
  <2> QED  BY <2>2, <2>3
<1>3. I => CopiesAccountedFor
  <2> SUFFICES ASSUME I PROVE CopiesAccountedFor
    OBVIOUS
  <2>1. ASSUME NEW e \in Events PROVE Copies(e) <= 1 + hist[e].reissued
    <3>1. Copies(e) \in Nat /\ hist[e].reissued \in Nat /\ Accounted(e)
      BY CopiesType DEF PodInv, RestTypes, HistTypes
    <3> QED  BY <3>1 DEF Accounted, One
  <2> QED  BY <2>1 DEF CopiesAccountedFor
<1> QED  BY <1>1, <1>2, <1>3, PTL DEF Spec

-----------------------------------------------------------------------------
(* Retries: what has used up the deliveries of an event. *)

\* What can have used up deliveries of e.
Tries(e) == hist[e].failures + faults + shutdowns

\* The workers that are about to ask for e again.
Naks(e) == {w \in Workers : worker[w].pc = "nak" /\ worker[w].msg.event = e}

Has(q, m) == \E k \in DOMAIN q : q[k] = m

\* Message m is somewhere in pod i.
InPod(i, m) ==
  \/ Has(inbox[i], m)
  \/ Has(msgChan[i], m)
  \/ callback[i] = m
  \/ \E w \in Workers : PodOf[w] = i /\ worker[w].msg = m

\* A copy of e is in a pod that only a fault or a shutdown can keep from answering.
Alive(e) ==
  \E i \in Instances, m \in Messages : up[i] = "up" /\ m.event = e /\ InPod(i, m)

\* The deliveries of e that the server has counted, with those it is still to be
\* asked for, are no more than the tries, but for the one that a pod is at.
Retried(e) ==
  LET used == server[e].num + Cardinality(Naks(e))
  IN /\ Cardinality(Naks(e)) <= hist[e].failures
     /\ server[e].st \in {"new", "due"} => used <= Tries(e)
     /\ server[e].st = "pending" => used <= Tries(e) + 1
     /\ server[e].st = "pending" /\ ~Alive(e) => used <= Tries(e)
     /\ hist[e].givenUp => Tries(e) >= MaxDeliveries

\* No message is of a later delivery than that.
NumsFit ==
  \A i \in Instances, m \in Messages : InPod(i, m) => m.num <= Tries(m.event) + 1

LEMMA RetryTypes ==
  ASSUME SubInv, PodInv, NEW e \in Events
  PROVE  /\ Tries(e) \in Nat /\ hist[e].failures \in Nat
         /\ IsFiniteSet(Naks(e)) /\ Cardinality(Naks(e)) \in Nat
         /\ server[e].num \in Nat
<1>1. Naks(e) \in SUBSET Workers  BY DEF Naks
<1>2. IsFiniteSet(Naks(e)) /\ Cardinality(Naks(e)) \in Nat
  BY <1>1, FS_Subset, FS_CardinalityType, SubscriberAssumption
<1>3. hist[e].failures \in Nat /\ faults \in Nat /\ shutdowns \in Nat
  BY SubscriberAssumption DEF PodInv, RestTypes, HistTypes
<1>4. server[e].num \in Nat  BY DEF SubInv, SubShapes
<1> QED  BY <1>2, <1>3, <1>4 DEF Tries

-----------------------------------------------------------------------------
(* Where the messages are. *)

LEMMA HasAppend ==
  ASSUME NEW q \in Seq(Messages), NEW m, NEW x
  PROVE  Has(Append(q, m), x) <=> Has(q, x) \/ x = m
<1>1. /\ DOMAIN Append(q, m) = (DOMAIN q) \cup {Len(q) + 1}
      /\ Append(q, m)[Len(q) + 1] = m
      /\ \A k \in DOMAIN q : Append(q, m)[k] = q[k]
  OBVIOUS
<1> QED  BY <1>1 DEF Has

LEMMA HasTail ==
  ASSUME NEW q \in Seq(Messages), q # << >>, NEW x
  PROVE  Has(q, x) <=> Has(Tail(q), x) \/ x = Head(q)
<1>1. /\ DOMAIN q = 1 .. Len(q) /\ Len(q) \in Nat \ {0} /\ Head(q) = q[1]
      /\ DOMAIN Tail(q) = 1 .. Len(q) - 1
      /\ \A k \in 1 .. Len(q) - 1 : Tail(q)[k] = q[k + 1]
  BY HeadTailProperties
<1>2. ASSUME NEW k \in DOMAIN q, q[k] = x PROVE Has(Tail(q), x) \/ x = Head(q)
  <2>1. CASE k = 1  BY <1>1, <1>2, <2>1
  <2>2. CASE k # 1
    <3>1. k - 1 \in 1 .. Len(q) - 1 /\ (k - 1) + 1 = k  BY <1>1, <2>2
    <3>2. Tail(q)[k - 1] = x  BY <1>1, <1>2, <3>1
    <3> QED  BY <1>1, <3>1, <3>2 DEF Has
  <2> QED  BY <2>1, <2>2
<1>3. ASSUME NEW k \in DOMAIN Tail(q), Tail(q)[k] = x PROVE Has(q, x)
  <2>1. k + 1 \in DOMAIN q /\ q[k + 1] = x  BY <1>1, <1>3
  <2> QED  BY <2>1 DEF Has
<1>4. x = Head(q) => Has(q, x)
  <2>1. 1 \in DOMAIN q /\ Head(q) = q[1]  BY <1>1
  <2> QED  BY <2>1 DEF Has
<1>5. Has(q, x) => \E k \in DOMAIN q : q[k] = x  BY DEF Has
<1>6. Has(Tail(q), x) => \E k \in DOMAIN Tail(q) : Tail(q)[k] = x  BY DEF Has
<1> QED  BY <1>2, <1>3, <1>4, <1>5, <1>6

LEMMA HasNone == ASSUME NEW x PROVE ~Has(<< >>, x)
BY DEF Has

LEMMA InPodNext ==
  ASSUME NEW i, NEW m
  PROVE  InPod(i, m)' <=> \/ Has(inbox'[i], m)
                          \/ Has(msgChan'[i], m)
                          \/ callback'[i] = m
                          \/ \E w \in Workers : PodOf[w] = i /\ worker'[w].msg = m
BY DEF InPod, Has

LEMMA InPodSame ==
  ASSUME UNCHANGED clientVars, NEW i, NEW m
  PROVE  InPod(i, m)' <=> InPod(i, m)
BY InPodNext DEF InPod, clientVars

LEMMA AliveSame ==
  ASSUME NEW e, UNCHANGED up,
         \A i \in Instances, m \in Messages : InPod(i, m) /\ m.event = e => InPod(i, m)'
  PROVE  Alive(e) => Alive(e)'
BY DEF Alive

\* The library, the callback and the channel hand a message on inside the pod.
LEMMA InPodMoved ==
  ASSUME SubInv, IdleHoldNothing, NEW i \in Instances, NEW m \in Messages,
         \/ \E j \in Instances : Callback(j) \/ Send(j)
         \/ \E w \in Workers : Receive(w) \/ HandlerReturns(w) \/ PublishDLQ(w)
  PROVE  InPod(i, m)' <=> InPod(i, m)
<1>1. ASSUME NEW j \in Instances, Callback(j) PROVE InPod(i, m)' <=> InPod(i, m)
  <2>1. inbox[j] \in Seq(Messages) /\ inbox[j] # << >> /\ callback[j] = None
    BY <1>1 DEF Callback, SubInv, SubShapes
  <2>2. /\ inbox'[j] = Tail(inbox[j]) /\ callback'[j] = Head(inbox[j])
        /\ \A h \in Instances \ {j} : inbox'[h] = inbox[h] /\ callback'[h] = callback[h]
        /\ UNCHANGED <<msgChan, worker>>
    BY <1>1 DEF Callback, SubInv, SubShapes
  <2>3. Has(inbox[j], m) <=> Has(inbox'[j], m) \/ m = callback'[j]
    BY <2>1, <2>2, HasTail
  <2>4. m # callback[j]  BY <2>1, NoMessageIsNone
  <2> QED  BY <2>2, <2>3, <2>4, InPodNext DEF InPod
<1>2. ASSUME NEW j \in Instances, Send(j) PROVE InPod(i, m)' <=> InPod(i, m)
  <2>1. msgChan[j] \in Seq(Messages)  BY DEF SubInv, SubShapes
  <2>2. /\ msgChan'[j] = Append(msgChan[j], callback[j]) /\ callback'[j] = None
        /\ \A h \in Instances \ {j} : msgChan'[h] = msgChan[h] /\ callback'[h] = callback[h]
        /\ UNCHANGED <<inbox, worker>>
    BY <1>2 DEF Send, SubInv, SubShapes
  <2>3. Has(msgChan'[j], m) <=> Has(msgChan[j], m) \/ m = callback[j]
    BY <2>1, <2>2, HasAppend
  <2>4. m # callback'[j]  BY <2>2, NoMessageIsNone
  <2> QED  BY <2>2, <2>3, <2>4, InPodNext DEF InPod
<1>3. ASSUME NEW w \in Workers, Receive(w) PROVE InPod(i, m)' <=> InPod(i, m)
  <2> DEFINE j == PodOf[w]
  <2>1. j \in Instances /\ msgChan[j] \in Seq(Messages) /\ msgChan[j] # << >>
        /\ worker[w].msg = None
    BY <1>3, ReceivedTypes DEF Receive, IdleHoldNothing
  <2>2. /\ msgChan'[j] = Tail(msgChan[j])
        /\ \A h \in Instances \ {j} : msgChan'[h] = msgChan[h]
        /\ UNCHANGED <<inbox, callback>>
    BY <1>3, <2>1 DEF Receive, SubInv, SubShapes
  <2>3. /\ worker'[w].msg = Head(msgChan[j])
        /\ \A v \in Workers \ {w} : worker'[v] = worker[v]
    BY <1>3, WorkerSteps DEF Become, SubInv, SubShapes
  <2>4. Has(msgChan[j], m) <=> Has(msgChan'[j], m) \/ m = worker'[w].msg
    BY <2>1, <2>2, <2>3, HasTail
  <2>5. m # worker[w].msg  BY <2>1, NoMessageIsNone
  <2>6. PodOf[w] = j  OBVIOUS
  <2> HIDE DEF j
  <2>7. (\E v \in Workers : PodOf[v] = i /\ worker'[v].msg = m)
          <=> (\E v \in Workers : PodOf[v] = i /\ worker[v].msg = m)
              \/ (i = j /\ worker'[w].msg = m)
    BY <2>3, <2>5, <2>6
  <2> QED  BY <2>2, <2>4, <2>7, InPodNext DEF InPod
<1>4. ASSUME NEW w \in Workers, HandlerReturns(w) \/ PublishDLQ(w)
      PROVE  InPod(i, m)' <=> InPod(i, m)
  <2>1. /\ worker'[w].msg = worker[w].msg
        /\ \A v \in Workers \ {w} : worker'[v] = worker[v]
    BY <1>4, WorkerSteps DEF Become, SubInv, SubShapes
  <2>2. UNCHANGED <<inbox, callback, msgChan>>
    BY <1>4 DEF HandlerReturns, PublishDLQ
  <2>3. \A v \in Workers : worker'[v].msg = worker[v].msg  BY <2>1
  <2> QED  BY <2>2, <2>3, InPodNext DEF InPod
<1> QED  BY <1>1, <1>2, <1>3, <1>4

\* The worker answers, and has the message no more.
LEMMA InPodAnswered ==
  ASSUME SubInv, NEW i \in Instances, NEW m \in Messages,
         NEW w \in Workers, Answer(w) \/ AnswerLost(w)
  PROVE  /\ InPod(i, m)' => InPod(i, m)
         /\ InPod(i, m) /\ m # worker[w].msg => InPod(i, m)'
<1>1. /\ worker'[w].msg = None
      /\ \A v \in Workers \ {w} : worker'[v] = worker[v]
  BY WorkerSteps DEF IdleWorker, SubInv, SubShapes
<1>2. UNCHANGED <<inbox, callback, msgChan>>  BY DEF Answer, AnswerLost
<1>3. m # None  BY NoMessageIsNone
<1> QED  BY <1>1, <1>2, <1>3, InPodNext DEF InPod

LEMMA InPodGone ==
  ASSUME SubInv, NEW i \in Instances, NEW m \in Messages,
         NEW j \in Instances, Dies(j) \/ Unsubscribe(j)
  PROVE  /\ InPod(i, m)' => InPod(i, m)
         /\ i # j => (InPod(i, m)' <=> InPod(i, m))
<1>1. /\ inbox'[j] = << >> /\ \A h \in Instances \ {j} : inbox'[h] = inbox[h]
      /\ msgChan'[j] = << >> \/ msgChan'[j] = msgChan[j]
      /\ \A h \in Instances \ {j} : msgChan'[h] = msgChan[h]
      /\ callback'[j] = None \/ callback'[j] = callback[j]
      /\ \A h \in Instances \ {j} : callback'[h] = callback[h]
  BY DEF Dies, Unsubscribe, SubInv, SubShapes
<1>2. \A w \in Workers : \/ worker'[w] = worker[w]
                         \/ PodOf[w] = j /\ worker'[w].msg = None
  BY DEF Dies, Unsubscribe, IdleWorker
<1>3. m # None  BY NoMessageIsNone
<1>4. InPod(i, m)' => InPod(i, m)  BY <1>1, <1>2, <1>3, HasNone, InPodNext DEF InPod
<1>5. ASSUME i # j PROVE InPod(i, m)' <=> InPod(i, m)
  BY <1>1, <1>2, <1>3, <1>5, InPodNext DEF InPod
<1> QED  BY <1>4, <1>5

\* A message in a pod is a copy that Expire counts.
LEMMA AliveIsCopy ==
  ASSUME SubInv, NEW e \in Events, Alive(e)
  PROVE  Copies(e) # 0
<1>1. PICK i \in Instances, m \in Messages : m.event = e /\ InPod(i, m)
  BY DEF Alive
<1>2. m # None  BY NoMessageIsNone
<1>3. CASE Has(inbox[i], m)
  <2>1. PICK k \in DOMAIN inbox[i] : inbox[i][k] = m  BY <1>3 DEF Has
  <2>2. <<i, k>> \in Places(inbox, e)  BY <1>1, <2>1, PlaceOf
  <2>3. IsFiniteSet(Places(inbox, e))
    <3>1. inbox \in Queues  BY DEF SubInv, SubShapes, Queues
    <3> QED  BY <3>1, PlacesFinite
  <2>4. Cardinality(Places(inbox, e)) # 0  BY <2>2, <2>3, FS_EmptySet
  <2> QED  BY <2>4, CopiesType DEF Copies
<1>4. CASE Has(msgChan[i], m)
  <2>1. PICK k \in DOMAIN msgChan[i] : msgChan[i][k] = m  BY <1>4 DEF Has
  <2>2. <<i, k>> \in Places(msgChan, e)  BY <1>1, <2>1, PlaceOf
  <2>3. IsFiniteSet(Places(msgChan, e))
    <3>1. msgChan \in Queues  BY DEF SubInv, SubShapes, Queues
    <3> QED  BY <3>1, PlacesFinite
  <2>4. Cardinality(Places(msgChan, e)) # 0  BY <2>2, <2>3, FS_EmptySet
  <2> QED  BY <2>4, CopiesType DEF Copies
<1>5. CASE callback[i] = m
  <2>1. i \in Senders(e)  BY <1>1, <1>2, <1>5 DEF Senders
  <2>2. Cardinality(Senders(e)) # 0  BY <2>1, CopiesType, FS_EmptySet
  <2> QED  BY <2>2, CopiesType DEF Copies
<1>6. CASE \E w \in Workers : PodOf[w] = i /\ worker[w].msg = m
  <2>1. PICK w \in Workers : worker[w].msg = m  BY <1>6
  <2>2. w \in Holders(e)  BY <1>1, <1>2, <2>1 DEF Holders, HeldBy
  <2>3. Cardinality(Holders(e)) # 0  BY <2>2, CopiesType, FS_EmptySet
  <2> QED  BY <2>3, CopiesType DEF Copies
<1> QED  BY <1>1, <1>3, <1>4, <1>5, <1>6 DEF InPod

-----------------------------------------------------------------------------
(* The workers that ask again. *)

LEMMA NaksChange ==
  ASSUME SubInv, PodInv, NEW e \in Events, NEW w \in Workers, NEW s, NEW m, Become(w, s, m)
  PROVE  /\ Cardinality(Naks(e)') \in Nat
         /\ Cardinality(Naks(e)') + One(worker[w].pc = "nak" /\ worker[w].msg.event = e)
              = Cardinality(Naks(e)) + One(s = "nak" /\ m.event = e)
<1>1. worker'[w].pc = s /\ worker'[w].msg = m
      /\ \A v \in Workers \ {w} : worker'[v] = worker[v]
  BY DEF Become, SubInv, SubShapes
<1>2. \A v : v # w => (v \in Naks(e) <=> v \in Naks(e)')
  BY <1>1 DEF Naks
<1>3. w \in Naks(e) <=> worker[w].pc = "nak" /\ worker[w].msg.event = e
  BY DEF Naks
<1>4. w \in Naks(e)' <=> s = "nak" /\ m.event = e
  BY <1>1 DEF Naks
<1>5. /\ Cardinality(Naks(e)') \in Nat
      /\ Cardinality(Naks(e)') + One(w \in Naks(e))
              = Cardinality(Naks(e)) + One(w \in Naks(e)')
  BY <1>2, OneDiffers, RetryTypes
<1> QED  BY <1>3, <1>4, <1>5 DEF One

LEMMA NaksSame == ASSUME UNCHANGED worker, NEW e PROVE Naks(e)' = Naks(e)
BY DEF Naks

LEMMA NaksFewer ==
  ASSUME SubInv, PodInv, NEW e \in Events, NEW i \in Instances, Dies(i) \/ Unsubscribe(i)
  PROVE  Cardinality(Naks(e)') <= Cardinality(Naks(e)) /\ Cardinality(Naks(e)') \in Nat
<1>1. \A w \in Workers : worker'[w] = worker[w] \/ worker'[w].pc = "idle"
  BY DEF Dies, Unsubscribe, IdleWorker
<1>2. Naks(e)' \in SUBSET Naks(e)  BY <1>1 DEF Naks
<1> QED  BY <1>2, RetryTypes, FS_Subset, FS_CardinalityType

-----------------------------------------------------------------------------
(* What a step does to the retries. *)

LEMMA RetriedNext ==
  ASSUME NEW e
  PROVE  Retried(e)' <=>
           LET used == server'[e].num + Cardinality(Naks(e)')
           IN /\ Cardinality(Naks(e)') <= hist'[e].failures
              /\ server'[e].st \in {"new", "due"} => used <= Tries(e)'
              /\ server'[e].st = "pending" => used <= Tries(e)' + 1
              /\ server'[e].st = "pending" /\ ~Alive(e)' => used <= Tries(e)'
              /\ hist'[e].givenUp => Tries(e)' >= MaxDeliveries
BY DEF Retried

\* The server stands as it did; the tries grow with the naks to come, and by one
\* more when the last copy of a pending event is lost.
LEMMA RetriedKept ==
  ASSUME SubInv, PodInv, PodInv', NEW e \in Events, Retried(e), server'[e] = server[e],
         Tries(e)' \in Nat,
         Cardinality(Naks(e)') \in Nat, Cardinality(Naks(e)') <= hist'[e].failures,
         Tries(e) + Cardinality(Naks(e)') <= Tries(e)' + Cardinality(Naks(e)),
         \/ server[e].st # "pending"
         \/ Alive(e) => Alive(e)'
         \/ Tries(e) + Cardinality(Naks(e)') + 1 <= Tries(e)' + Cardinality(Naks(e)),
         hist'[e].givenUp => Tries(e)' >= MaxDeliveries
  PROVE  Retried(e)'
<1> DEFINE n == Cardinality(Naks(e))
           k == Cardinality(Naks(e)')
           a == Tries(e)
           b == Tries(e)'
           d == server[e].num
<1>1. n \in Nat /\ k \in Nat /\ a \in Nat /\ b \in Nat /\ d \in Nat
  BY RetryTypes
<1>2. /\ server[e].st \in {"new", "due"} => d + n <= a
      /\ server[e].st = "pending" => d + n <= a + 1
      /\ server[e].st = "pending" /\ ~Alive(e) => d + n <= a
  BY DEF Retried
<1>3. /\ k <= hist'[e].failures /\ a + k <= b + n
      /\ hist'[e].givenUp => b >= MaxDeliveries
      /\ server'[e].num = d /\ server'[e].st = server[e].st
  OBVIOUS
<1>4. server[e].st # "pending" \/ (Alive(e) => Alive(e)') \/ a + k + 1 <= b + n
  OBVIOUS
<1> HIDE DEF n, k, a, b, d
<1>5. server[e].st \in {"new", "due"} => d + k <= b
  BY <1>1, <1>2, <1>3
<1>6. server[e].st = "pending" => d + k <= b + 1
  BY <1>1, <1>2, <1>3
<1>7. server[e].st = "pending" /\ ~Alive(e)' => d + k <= b
  <2> SUFFICES ASSUME server[e].st = "pending", ~Alive(e)' PROVE d + k <= b
    OBVIOUS
  <2>1. CASE ~Alive(e)  BY <1>1, <1>2, <1>3, <2>1
  <2>2. CASE a + k + 1 <= b + n  BY <1>1, <1>2, <2>2
  <2> QED  BY <1>4, <2>1, <2>2
<1> QED  BY <1>3, <1>5, <1>6, <1>7, RetriedNext DEF k, b

LEMMA TriesNext ==
  ASSUME NEW e PROVE Tries(e)' = hist'[e].failures + faults' + shutdowns'
BY DEF Tries

RetryInv == NumsFit /\ \A e \in Events : Retried(e)

\* The tries only grow.
LEMMA TriesGrow ==
  ASSUME SubInv, PodInv, PodInv', NEW e \in Events,
         hist'[e].failures >= hist[e].failures, faults' >= faults, shutdowns' >= shutdowns
  PROVE  Tries(e)' \in Nat /\ Tries(e)' >= Tries(e)
<1>1. /\ hist[e].failures \in Nat /\ hist'[e].failures \in Nat
      /\ faults \in Nat /\ faults' \in Nat /\ shutdowns \in Nat /\ shutdowns' \in Nat
  BY SubscriberAssumption DEF PodInv, RestTypes, HistTypes
<1> QED  BY <1>1, TriesNext DEF Tries

\* Messages that were there before are of deliveries that were counted.
LEMMA NumsKept ==
  ASSUME SubInv, PodInv, PodInv', NumsFit,
         \A e \in Events : Tries(e)' \in Nat /\ Tries(e)' >= Tries(e),
         \A i \in Instances, m \in Messages :
            InPod(i, m)' => InPod(i, m) \/ m.num <= Tries(m.event)' + 1
  PROVE  NumsFit'
<1> SUFFICES ASSUME NEW i \in Instances, NEW m \in Messages, InPod(i, m)'
             PROVE  m.num <= Tries(m.event)' + 1
  BY DEF NumsFit
<1>1. CASE InPod(i, m)
  <2>1. PICK e \in Events : e = m.event  BY DEF Messages
  <2>2. m.num <= Tries(e) + 1  BY <1>1, <2>1 DEF NumsFit
  <2>3. Tries(e) \in Nat /\ Tries(e)' \in Nat /\ Tries(e)' >= Tries(e) /\ m.num \in Nat
    BY RetryTypes DEF Messages
  <2>4. m.num <= Tries(e)' + 1  BY <2>2, <2>3
  <2> QED  BY <2>1, <2>4
<1> QED  BY <1>1

\* A handler that fails: one try more, and a worker that asks again or gives up.
LEMMA FailedRetried ==
  ASSUME SubInv, PodInv, PodInv', RetryInv, NEW w \in Workers, NEW m \in Messages,
         worker[w].pc # "nak", Become(w, AfterFailure(m), m), Failed(m.event, m),
         UNCHANGED <<server, up, faults, shutdowns>>, m.num <= Tries(m.event) + 1,
         \A i \in Instances, x \in Messages : InPod(i, x)' <=> InPod(i, x)
  PROVE  RetryInv'
<1>1. PICK e \in Events : e = m.event  BY DEF Messages
<1>2. /\ \A d \in Events \ {e} : hist'[d] = hist[d]
      /\ hist'[e].failures = hist[e].failures + 1
      /\ hist'[e].givenUp <=> hist[e].givenUp \/ AfterFailure(m) = "dlq"
  BY <1>1, FailedTypes DEF PodInv
<1>3. \A d \in Events : hist[d].failures \in Nat
  BY RetryTypes
<1>4. \A d \in Events : hist'[d].failures >= hist[d].failures
  BY <1>2, <1>3
<1>5. faults' >= faults /\ shutdowns' >= shutdowns
  BY SubscriberAssumption DEF PodInv, RestTypes
<1>6. \A d \in Events : Tries(d)' \in Nat /\ Tries(d)' >= Tries(d)
  BY <1>4, <1>5, TriesGrow
<1>7. NumsFit'  BY <1>6, NumsKept DEF RetryInv
<1>8. ASSUME NEW d \in Events PROVE Retried(d)'
  <2>0. /\ Retried(d) /\ server'[d] = server[d] /\ (Alive(d) => Alive(d)')
        /\ Tries(d) \in Nat /\ Tries(d)' \in Nat
        /\ Cardinality(Naks(d)) <= hist[d].failures
        /\ hist[d].givenUp => Tries(d) >= MaxDeliveries
    BY <1>6, AliveSame, RetryTypes DEF RetryInv, Retried
  <2>1. /\ Cardinality(Naks(d)') \in Nat /\ Cardinality(Naks(d)) \in Nat
        /\ Cardinality(Naks(d)') + One(worker[w].pc = "nak" /\ worker[w].msg.event = d)
             = Cardinality(Naks(d)) + One(AfterFailure(m) = "nak" /\ m.event = d)
    BY NaksChange, RetryTypes
  <2>2. One(worker[w].pc = "nak" /\ worker[w].msg.event = d) = 0  BY DEF One
  <2>3. CASE d = e
    <3>1. Tries(d)' = Tries(d) + 1
      BY <1>2, <1>3, <2>3, TriesNext, SubscriberAssumption DEF Tries, PodInv, RestTypes
    <3>2. Cardinality(Naks(d)') <= Cardinality(Naks(d)) + 1  BY <2>1, <2>2 DEF One
    <3>3. hist'[d].givenUp => Tries(d)' >= MaxDeliveries
      <4>1. CASE AfterFailure(m) = "dlq"
        <5>1. m.num >= MaxDeliveries /\ m.num \in Nat /\ MaxDeliveries \in Nat
          BY <4>1, SubscriberAssumption DEF AfterFailure, Messages
        <5> QED  BY <1>1, <2>0, <2>3, <3>1, <5>1
      <4>2. CASE AfterFailure(m) # "dlq"
        <5>1. hist'[d].givenUp => Tries(d) >= MaxDeliveries  BY <1>2, <2>0, <2>3, <4>2
        <5> QED  BY <2>0, <3>1, <5>1, SubscriberAssumption
      <4> QED  BY <4>1, <4>2
    <3>4. Cardinality(Naks(d)') <= hist'[d].failures
      BY <1>2, <1>3, <2>0, <2>1, <2>3, <3>2
    <3>5. Tries(d) + Cardinality(Naks(d)') <= Tries(d)' + Cardinality(Naks(d))
      BY <2>0, <2>1, <3>1, <3>2
    <3> QED  BY <2>0, <2>1, <3>3, <3>4, <3>5, RetriedKept
  <2>4. CASE d # e
    <3>1. One(AfterFailure(m) = "nak" /\ m.event = d) = 0  BY <1>1, <2>4 DEF One
    <3>2. Cardinality(Naks(d)') = Cardinality(Naks(d))  BY <2>1, <2>2, <3>1
    <3>3. hist'[d] = hist[d] /\ Tries(d)' = Tries(d)
      BY <1>2, <2>4, TriesNext DEF Tries
    <3> QED  BY <2>0, <2>1, <3>2, <3>3, RetriedKept
  <2> QED  BY <2>3, <2>4
<1> QED  BY <1>7, <1>8 DEF RetryInv

\* A step that adds no nak, no failure and no message, and changes nothing of the
\* server's; it may lose copies when it is a fault or a shutdown.
LEMMA CalmRetried ==
  ASSUME SubInv, PodInv, PodInv', RetryInv, NEW e \in Events,
         server'[e] = server[e],
         hist'[e].failures = hist[e].failures, hist'[e].givenUp = hist[e].givenUp,
         Cardinality(Naks(e)') \in Nat, Cardinality(Naks(e)') <= Cardinality(Naks(e)),
         \/ UNCHANGED <<faults, shutdowns>>
              /\ (server[e].st # "pending" \/ (Alive(e) => Alive(e)'))
         \/ faults' = faults + 1 /\ UNCHANGED shutdowns
         \/ shutdowns' = shutdowns + 1 /\ UNCHANGED faults
  PROVE  Retried(e)'
<1>1. /\ hist[e].failures \in Nat /\ faults \in Nat /\ shutdowns \in Nat /\ Tries(e) \in Nat
      /\ Cardinality(Naks(e)) \in Nat /\ MaxDeliveries \in Nat
  BY RetryTypes, SubscriberAssumption DEF PodInv, RestTypes
<1>2. \/ Tries(e)' = Tries(e) /\ (server[e].st # "pending" \/ (Alive(e) => Alive(e)'))
      \/ Tries(e)' = Tries(e) + 1
  BY <1>1, TriesNext DEF Tries
<1>3. /\ Retried(e) /\ Cardinality(Naks(e)) <= hist[e].failures
      /\ hist[e].givenUp => Tries(e) >= MaxDeliveries
  BY DEF RetryInv, Retried
<1>4. /\ Tries(e)' \in Nat
      /\ Cardinality(Naks(e)') <= hist'[e].failures
      /\ hist'[e].givenUp => Tries(e)' >= MaxDeliveries
      /\ Tries(e) + Cardinality(Naks(e)') <= Tries(e)' + Cardinality(Naks(e))
  BY <1>1, <1>2, <1>3
<1>5. \/ server[e].st # "pending"
      \/ Alive(e) => Alive(e)'
      \/ Tries(e) + Cardinality(Naks(e)') + 1 <= Tries(e)' + Cardinality(Naks(e))
  <2>1. CASE Tries(e)' = Tries(e) + 1  BY <1>1, <2>1
  <2> QED  BY <1>2, <2>1
<1> QED  BY <1>3, <1>4, <1>5, RetriedKept

\* Messages that stay, move or go.
LEMMA NumsCalm ==
  ASSUME SubInv, PodInv, PodInv', RetryInv,
         \A e \in Events : hist'[e].failures = hist[e].failures,
         faults' >= faults, shutdowns' >= shutdowns,
         \A i \in Instances, m \in Messages : InPod(i, m)' => InPod(i, m)
  PROVE  NumsFit'
<1>1. \A e \in Events : hist'[e].failures >= hist[e].failures
  BY RetryTypes
<1>2. \A e \in Events : Tries(e)' \in Nat /\ Tries(e)' >= Tries(e)
  BY <1>1, TriesGrow
<1> QED  BY <1>2, NumsKept DEF RetryInv

LEMMA RetryStep ==
  ASSUME SubInv, PodInv, PodInv', RetryInv, Next
  PROVE  RetryInv'
<1>0. /\ faults \in Nat /\ shutdowns \in Nat
      /\ RestTypes /\ ConsumerInv /\ IdleHoldNothing
      /\ \A e \in Events : Retried(e)
      /\ \A e \in Events : Tries(e) \in Nat /\ server[e].num \in Nat
                           /\ Cardinality(Naks(e)) \in Nat /\ hist[e].failures \in Nat
  BY RetryTypes DEF PodInv, RestTypes, RetryInv
<1>1. ASSUME NEW d \in Events, Publish(d) PROVE RetryInv'
  <2>1. UNCHANGED <<clientVars, hist, faults, shutdowns, up>> /\ faults' >= faults
        /\ shutdowns' >= shutdowns
    BY <1>0, <1>1 DEF Publish, podVars
  <2>2. NumsFit'  BY <2>1, InPodSame, NumsCalm
  <2>3. server[d].st = "unsent" /\ server'[d].st = "new" /\ server'[d].num = server[d].num
        /\ \A e \in Events \ {d} : server'[e] = server[e]
    BY <1>1 DEF Publish, SubInv, SubShapes
  <2>4. ASSUME NEW e \in Events PROVE Retried(e)'
    <3>1. Naks(e)' = Naks(e) /\ (Alive(e) => Alive(e)') /\ Tries(e)' = Tries(e)
      BY <2>1, NaksSame, InPodSame, AliveSame, TriesNext DEF Tries, clientVars
    <3>2. CASE e = d
      <4>1. server[e].num = 0  BY <1>0, <2>3, <3>2 DEF ConsumerInv
      <4>2. Cardinality(Naks(e)) <= hist[e].failures
            /\ (hist[e].givenUp => Tries(e) >= MaxDeliveries)
        BY <1>0 DEF Retried
      <4>3. server[e].num + Cardinality(Naks(e)) <= Tries(e)
        BY <1>0, <4>1, <4>2 DEF Tries
      <4> QED  BY <2>1, <2>3, <3>1, <3>2, <4>2, <4>3, RetriedNext
    <3>3. CASE e # d
      <4>1. server'[e] = server[e]  BY <2>3, <3>3
      <4> QED  BY <1>0, <2>1, <3>1, <4>1, CalmRetried
    <3> QED  BY <3>2, <3>3
  <2> QED  BY <2>2, <2>4 DEF RetryInv
<1>2. ASSUME NEW d \in Events, Expire(d) PROVE RetryInv'
  <2>1. UNCHANGED <<clientVars, shutdowns, up>>  BY <1>2 DEF Expire, podVars
  <2>2. server[d].st = "pending" /\ server'[d].st = "due" /\ server'[d].num = server[d].num
        /\ \A e \in Events \ {d} : server'[e] = server[e]
    BY <1>2 DEF Expire, SubInv, SubShapes
  <2>3. \/ Copies(d) = 0 /\ UNCHANGED <<hist, faults>>
        \/ faults' = faults + 1 /\ hist' = [hist EXCEPT ![d].reissued = @ + 1]
    BY <1>2 DEF Expire, Fault
  <2>4. \A e \in Events : /\ hist'[e].failures = hist[e].failures
                          /\ hist'[e].givenUp = hist[e].givenUp
    BY <1>0, <2>3, ExpiredHist
  <2>5. faults' >= faults /\ shutdowns' >= shutdowns  BY <1>0, <2>1, <2>3
  <2>6. NumsFit'  BY <2>1, <2>4, <2>5, InPodSame, NumsCalm
  <2>7. ASSUME NEW e \in Events PROVE Retried(e)'
    <3>1. Naks(e)' = Naks(e) /\ (Alive(e) => Alive(e)')
      BY <2>1, NaksSame, InPodSame, AliveSame DEF clientVars
    <3>2. CASE e = d
      <4>1. /\ Cardinality(Naks(e)) <= hist[e].failures
            /\ (hist[e].givenUp => Tries(e) >= MaxDeliveries)
            /\ server[e].num + Cardinality(Naks(e)) <= Tries(e) + 1
            /\ ~Alive(e) => server[e].num + Cardinality(Naks(e)) <= Tries(e)
        BY <1>0, <2>2, <3>2 DEF Retried
      <4>2. CASE Copies(d) = 0 /\ UNCHANGED <<hist, faults>>
        <5>1. ~Alive(e)  BY <3>2, <4>2, AliveIsCopy
        <5>2. Tries(e)' = Tries(e)  BY <2>1, <4>2, TriesNext DEF Tries
        <5> QED  BY <2>2, <2>4, <3>1, <3>2, <4>1, <5>1, <5>2, RetriedNext
      <4>3. CASE faults' = faults + 1
        <5>1. Tries(e)' = Tries(e) + 1  BY <1>0, <2>1, <2>4, <4>3, TriesNext DEF Tries
        <5>2. server'[e].num + Cardinality(Naks(e)') <= Tries(e)'
              /\ (hist'[e].givenUp => Tries(e)' >= MaxDeliveries)
          BY <1>0, <2>2, <2>4, <3>1, <3>2, <4>1, <5>1, SubscriberAssumption
        <5> QED  BY <2>2, <2>4, <3>1, <3>2, <4>1, <5>2, RetriedNext
      <4> QED  BY <2>3, <4>2, <4>3
    <3>3. CASE e # d
      <4>1. server'[e] = server[e]  BY <2>2, <3>3
      <4>2. \/ UNCHANGED <<faults, shutdowns>>
            \/ faults' = faults + 1 /\ UNCHANGED shutdowns
        BY <2>1, <2>3
      <4> QED  BY <1>0, <2>4, <3>1, <4>1, <4>2, CalmRetried
    <3> QED  BY <3>2, <3>3
  <2> QED  BY <2>6, <2>7 DEF RetryInv
<1>3. ASSUME NEW d \in Events, NEW i \in Instances, Deliver(d, i) PROVE RetryInv'
  <2>1. PICK m : /\ m = Copy(d, server[d].num + 1)
                 /\ inbox'[i] = Append(inbox[i], m)
                 /\ \A j \in Instances \ {i} : inbox'[j] = inbox[j]
    BY <1>3 DEF Deliver, SubInv, SubShapes
  <2>2. m \in Messages /\ m.event = d /\ m.num = server[d].num + 1
    BY <1>0, <2>1 DEF Copy, Messages
  <2>3. UNCHANGED <<callback, msgChan, worker, hist, faults, shutdowns, up>>
        /\ sub[i] = "live"
    BY <1>3 DEF Deliver, podVars
  <2>4. server[d].st \in {"new", "due"} /\ server'[d].st = "pending"
        /\ server'[d].num = server[d].num + 1
        /\ \A e \in Events \ {d} : server'[e] = server[e]
    BY <1>3 DEF Deliver, SubInv, SubShapes
  <2>5. ASSUME NEW j \in Instances, NEW x \in Messages
        PROVE  InPod(j, x)' <=> InPod(j, x) \/ (j = i /\ x = m)
    <3>1. inbox[i] \in Seq(Messages)  BY DEF SubInv, SubShapes
    <3>2. Has(inbox'[i], x) <=> Has(inbox[i], x) \/ x = m  BY <2>1, <3>1, HasAppend
    <3>3. CASE j = i  BY <2>3, <3>2, <3>3, InPodNext DEF InPod
    <3>4. CASE j # i  BY <2>1, <2>3, <3>4, InPodNext DEF InPod
    <3> QED  BY <3>3, <3>4
  <2>6. \A e \in Events : Tries(e)' = Tries(e)  BY <2>3, TriesNext DEF Tries
  <2>7. /\ server[d].num + Cardinality(Naks(d)) <= Tries(d)
        /\ Cardinality(Naks(d)) <= hist[d].failures
        /\ hist[d].givenUp => Tries(d) >= MaxDeliveries
    BY <1>0, <2>4 DEF Retried
  <2>8. NumsFit'
    <3>1. m.num <= Tries(d)' + 1  BY <1>0, <2>2, <2>6, <2>7
    <3>2. \A e \in Events : Tries(e)' \in Nat /\ Tries(e)' >= Tries(e)  BY <1>0, <2>6
    <3>3. \A j \in Instances, x \in Messages :
            InPod(j, x)' => InPod(j, x) \/ x.num <= Tries(x.event)' + 1
      BY <2>2, <2>5, <3>1
    <3> QED  BY <3>2, <3>3, NumsKept DEF RetryInv
  <2>9. ASSUME NEW e \in Events PROVE Retried(e)'
    <3>1. Naks(e)' = Naks(e) /\ (Alive(e) => Alive(e)')
      BY <2>3, <2>5, NaksSame, AliveSame
    <3>2. CASE e = d
      <4>1. Alive(e)'
        <5>1. up'[i] = "up"  BY <1>0, <2>3 DEF ConsumerInv
        <5>2. InPod(i, m)'  BY <2>2, <2>5
        <5>3. m.event = e  BY <2>2, <3>2
        <5> QED  BY <2>2, <5>1, <5>2, <5>3 DEF Alive
      <4>2. server'[e].num + Cardinality(Naks(e)') <= Tries(e)' + 1
        BY <1>0, <2>4, <2>6, <2>7, <3>1, <3>2
      <4> QED  BY <2>3, <2>4, <2>6, <2>7, <3>1, <3>2, <4>1, <4>2, RetriedNext
    <3>3. CASE e # d
      <4>1. server'[e] = server[e]  BY <2>4, <3>3
      <4> QED  BY <1>0, <2>3, <3>1, <4>1, CalmRetried
    <3> QED  BY <3>2, <3>3
  <2> QED  BY <2>8, <2>9 DEF RetryInv
<1>4. ASSUME NEW w \in Workers, Receive(w) \/ HandlerReturns(w) PROVE RetryInv'
  <2>1. \A i \in Instances, x \in Messages : InPod(i, x)' <=> InPod(i, x)
    BY <1>0, <1>4, InPodMoved
  <2>2. UNCHANGED <<server, up, faults, shutdowns>>
    BY <1>4 DEF Receive, HandlerReturns, podVars
  <2>3. PICK m \in Messages :
          /\ m = IF worker[w].pc = "idle" THEN Head(msgChan[PodOf[w]]) ELSE worker[w].msg
          /\ InPod(PodOf[w], m)
    <3>1. CASE Receive(w)
      <4>1. /\ msgChan[PodOf[w]] \in Seq(Messages) /\ msgChan[PodOf[w]] # << >>
            /\ Head(msgChan[PodOf[w]]) \in Messages
        BY <3>1, ReceivedTypes
      <4>2. Has(msgChan[PodOf[w]], Head(msgChan[PodOf[w]]))  BY <4>1, HasTail
      <4> QED  BY <3>1, <4>1, <4>2 DEF Receive, InPod
    <3>2. CASE HandlerReturns(w)
      BY <3>2, WorkerTypes DEF HandlerReturns, InPod
    <3> QED  BY <1>4, <3>1, <3>2
  <2>4. m.num <= Tries(m.event) + 1
    BY <2>3, SubscriberAssumption DEF RetryInv, NumsFit
  <2>5. worker[w].pc # "nak"  BY <1>4 DEF Receive, HandlerReturns
  <2>6. \/ Become(w, AfterFailure(m), m) /\ Failed(m.event, m)
        \/ /\ \E s \in {"handling", "ack"} : Become(w, s, m)
           /\ UNCHANGED hist \/ hist' = [hist EXCEPT ![m.event].handled = TRUE]
    BY <1>4, <2>3 DEF Receive, HandlerReturns
  <2>7. CASE Become(w, AfterFailure(m), m) /\ Failed(m.event, m)
    BY <2>1, <2>2, <2>4, <2>5, <2>7, FailedRetried
  <2>8. CASE /\ \E s \in {"handling", "ack"} : Become(w, s, m)
             /\ UNCHANGED hist \/ hist' = [hist EXCEPT ![m.event].handled = TRUE]
    <3>1. m.event \in Events  BY DEF Messages
    <3>2. \A e \in Events : /\ hist'[e].failures = hist[e].failures
                            /\ hist'[e].givenUp = hist[e].givenUp
      BY <1>0, <2>8, <3>1, FlagTypes
    <3>3. faults' >= faults /\ shutdowns' >= shutdowns  BY <1>0, <2>2
    <3>4. NumsFit'  BY <2>1, <3>2, <3>3, NumsCalm
    <3>5. PICK s \in {"handling", "ack"} : Become(w, s, m)  BY <2>8
    <3>6. ASSUME NEW e \in Events PROVE Retried(e)'
      <4>1. Cardinality(Naks(e)') \in Nat
            /\ Cardinality(Naks(e)') + One(worker[w].pc = "nak" /\ worker[w].msg.event = e)
                 = Cardinality(Naks(e)) + One(s = "nak" /\ m.event = e)
        BY <3>5, NaksChange
      <4>2. One(worker[w].pc = "nak" /\ worker[w].msg.event = e) = 0
            /\ One(s = "nak" /\ m.event = e) = 0
        BY <2>5, <3>5 DEF One
      <4>3. Cardinality(Naks(e)') = Cardinality(Naks(e))  BY <1>0, <4>1, <4>2
      <4>4. Alive(e) => Alive(e)'  BY <2>1, <2>2, AliveSame
      <4> QED  BY <1>0, <2>2, <3>2, <4>3, <4>4, CalmRetried
    <3> QED  BY <3>4, <3>6 DEF RetryInv
  <2> QED  BY <2>6, <2>7, <2>8
<1>5. ASSUME NEW w \in Workers, PublishDLQ(w) PROVE RetryInv'
  <2>1. \A i \in Instances, x \in Messages : InPod(i, x)' <=> InPod(i, x)
    BY <1>0, <1>5, InPodMoved
  <2>2. UNCHANGED <<server, up, shutdowns, hist, faults>> /\ worker[w].pc = "dlq"
    BY <1>5 DEF PublishDLQ, podVars
  <2>3. \A d \in Events : /\ hist'[d].failures = hist[d].failures
                          /\ hist'[d].givenUp = hist[d].givenUp
    BY <2>2
  <2>4. faults' >= faults /\ shutdowns' >= shutdowns  BY <1>0, <2>2
  <2>5. NumsFit'  BY <2>1, <2>3, <2>4, NumsCalm
  <2>6. PICK m : Become(w, "ack", m)  BY <1>5 DEF PublishDLQ
  <2>7. ASSUME NEW d \in Events PROVE Retried(d)'
    <3>1. Cardinality(Naks(d)') \in Nat
          /\ Cardinality(Naks(d)') + One(worker[w].pc = "nak" /\ worker[w].msg.event = d)
               = Cardinality(Naks(d)) + One("ack" = "nak" /\ m.event = d)
      BY <2>6, NaksChange
    <3>2. One(worker[w].pc = "nak" /\ worker[w].msg.event = d) = 0
          /\ One("ack" = "nak" /\ m.event = d) = 0
      BY <2>2 DEF One
    <3>3. Cardinality(Naks(d)') = Cardinality(Naks(d))  BY <1>0, <3>1, <3>2
    <3>4. Alive(d) => Alive(d)'  BY <2>1, <2>2, AliveSame
    <3> QED  BY <1>0, <2>2, <2>3, <3>3, <3>4, CalmRetried
  <2> QED  BY <2>5, <2>7 DEF RetryInv
<1>6. ASSUME NEW w \in Workers, Answer(w) \/ AnswerLost(w) PROVE RetryInv'
  <2>1. PICK d \in Events : d = worker[w].msg.event /\ worker[w].msg \in Messages
    BY <1>6, WorkerTypes DEF Answer, AnswerLost
  <2>2. UNCHANGED <<hist, shutdowns, up>>
    BY <1>6 DEF Answer, AnswerLost, podVars, Answered
  <2>3. \/ UNCHANGED server /\ faults' = faults + 1
        \/ worker[w].pc = "ack" /\ Answered(d, "acked") /\ UNCHANGED faults
        \/ worker[w].pc = "nak" /\ Answered(d, "due") /\ UNCHANGED faults
    BY <1>6, <2>1 DEF Answer, AnswerLost, Fault
  <2>4. faults' >= faults /\ shutdowns' >= shutdowns  BY <1>0, <2>2, <2>3
  <2>5. NumsFit'  BY <1>6, <2>2, <2>4, InPodAnswered, NumsCalm
  <2>6. ASSUME NEW e \in Events
        PROVE  /\ Cardinality(Naks(e)') \in Nat
               /\ Cardinality(Naks(e)') <= Cardinality(Naks(e))
               /\ worker[w].pc = "nak" /\ e = d => Cardinality(Naks(e)') + 1 = Cardinality(Naks(e))
               /\ e # d => (Alive(e) => Alive(e)')
    <3>1. Become(w, "idle", None)  BY <1>6, WorkerSteps DEF Become, IdleWorker
    <3>2. Cardinality(Naks(e)') \in Nat
          /\ Cardinality(Naks(e)') + One(worker[w].pc = "nak" /\ worker[w].msg.event = e)
               = Cardinality(Naks(e)) + One("idle" = "nak" /\ None.event = e)
      BY <3>1, NaksChange
    <3>3. One("idle" = "nak" /\ None.event = e) = 0
          /\ One(worker[w].pc = "nak" /\ worker[w].msg.event = e) \in Nat
          /\ (worker[w].pc = "nak" /\ e = d
                => One(worker[w].pc = "nak" /\ worker[w].msg.event = e) = 1)
      BY <2>1 DEF One
    <3>4. e # d => (Alive(e) => Alive(e)')  BY <1>6, <2>1, <2>2, InPodAnswered, AliveSame
    <3> QED  BY <1>0, <3>2, <3>3, <3>4
  <2>7. CASE UNCHANGED server /\ faults' = faults + 1
    BY <2>2, <2>5, <2>6, <2>7, CalmRetried DEF RetryInv
  <2>8. ASSUME NEW st \in {"acked", "due"}, Answered(d, st), UNCHANGED faults,
               st = "due" => worker[w].pc = "nak", NEW e \in Events
        PROVE  Retried(e)'
    <3>1. /\ \A c \in Events \ {d} : server'[c] = server[c]
          /\ server'[d].num = server[d].num
          /\ \/ server[d].st \in {"pending", "due"} /\ server'[d].st = st
             \/ server[d].st \notin {"pending", "due"} /\ server'[d] = server[d]
      BY <1>0, <2>8, AnsweredServer
    <3>2. CASE e # d \/ server[d].st \notin {"pending", "due"}
      <4>1. server'[e] = server[e] /\ (server[e].st # "pending" \/ (Alive(e) => Alive(e)'))
        BY <2>6, <3>1, <3>2
      <4> QED  BY <2>2, <2>6, <2>8, <4>1, CalmRetried
    <3>3. CASE e = d /\ server[d].st \in {"pending", "due"}
      <4>1. /\ Cardinality(Naks(e)) <= hist[e].failures
            /\ hist[e].givenUp => Tries(e) >= MaxDeliveries
            /\ server[e].num + Cardinality(Naks(e)) <= Tries(e) + 1
        BY <1>0, <3>3 DEF Retried
      <4>2. Tries(e)' = Tries(e) /\ UNCHANGED hist  BY <2>2, <2>8, TriesNext DEF Tries
      <4>3. /\ Cardinality(Naks(e)') <= hist'[e].failures
            /\ hist'[e].givenUp => Tries(e)' >= MaxDeliveries
        BY <1>0, <2>6, <4>1, <4>2
      <4>4. st = "due" => server'[e].num + Cardinality(Naks(e)') <= Tries(e)'
        BY <1>0, <2>6, <2>8, <3>1, <3>3, <4>1, <4>2
      <4>5. server'[e].st = st  BY <3>1, <3>3
      <4> QED  BY <4>3, <4>4, <4>5, RetriedNext
    <3> QED  BY <3>2, <3>3
  <2> QED  BY <2>3, <2>5, <2>7, <2>8 DEF RetryInv
<1>7. ASSUME NEW i \in Instances, Callback(i) \/ Send(i) PROVE RetryInv'
  <2>1. UNCHANGED <<server, worker, hist, faults, shutdowns, up>>
    BY <1>7 DEF Callback, Send, podVars
  <2>2. \A j \in Instances, m \in Messages : InPod(j, m)' <=> InPod(j, m)
    BY <1>0, <1>7, InPodMoved
  <2>3. faults' >= faults /\ shutdowns' >= shutdowns  BY <1>0, <2>1
  <2>4. NumsFit'  BY <2>1, <2>2, <2>3, NumsCalm
  <2>5. ASSUME NEW e \in Events PROVE Retried(e)'
    BY <1>0, <2>1, <2>2, NaksSame, AliveSame, CalmRetried
  <2> QED  BY <2>4, <2>5 DEF RetryInv
<1>8. ASSUME NEW i \in Instances, Boot(i) PROVE RetryInv'
  <2>1. UNCHANGED <<server, clientVars, hist, shutdowns>>
        /\ (UNCHANGED faults \/ faults' = faults + 1)
        /\ \A j \in Instances : up[j] = "up" => up'[j] = "up"
    BY <1>8 DEF Boot, Fault, PodInv, RestTypes
  <2>2. faults' >= faults /\ shutdowns' >= shutdowns  BY <1>0, <2>1
  <2>3. NumsFit'  BY <2>1, <2>2, InPodSame, NumsCalm
  <2>4. ASSUME NEW e \in Events PROVE Retried(e)'
    <3>1. Naks(e)' = Naks(e)  BY <2>1, NaksSame DEF clientVars
    <3>2. Alive(e) => Alive(e)'  BY <2>1, InPodSame DEF Alive
    <3> QED  BY <1>0, <2>1, <3>1, <3>2, CalmRetried
  <2> QED  BY <2>3, <2>4 DEF RetryInv
<1>9. ASSUME NEW i \in Instances, CloseChannel(i) \/ Exit(i) \/ Crash(i) PROVE RetryInv'
  <2>1. UNCHANGED <<server, hist, shutdowns>> /\ (Dies(i) \/ UNCHANGED clientVars)
        /\ \A j \in Instances \ {i} : up'[j] = up[j]
    BY <1>9 DEF CloseChannel, Exit, Crash, Dies, PodInv, RestTypes
  <2>2. faults' = faults + 1 \/ (UNCHANGED faults /\ up[i] # "up")
    BY <1>9 DEF CloseChannel, Exit, Crash, Fault
  <2>3. faults' >= faults /\ shutdowns' >= shutdowns  BY <1>0, <2>1, <2>2
  <2>4. NumsFit'  BY <2>1, <2>3, InPodSame, InPodGone, NumsCalm
  <2>5. ASSUME NEW e \in Events PROVE Retried(e)'
    <3>1. Cardinality(Naks(e)') <= Cardinality(Naks(e)) /\ Cardinality(Naks(e)') \in Nat
      <4>1. CASE Dies(i)  BY <4>1, NaksFewer
      <4>2. CASE UNCHANGED clientVars  BY <1>0, <4>2, NaksSame DEF clientVars
      <4> QED  BY <2>1, <4>1, <4>2
    <3>2. up[i] # "up" => (Alive(e) => Alive(e)')
      <4>1. \A j \in Instances, m \in Messages : j # i /\ InPod(j, m) => InPod(j, m)'
        BY <2>1, InPodSame, InPodGone
      <4> QED  BY <2>1, <4>1 DEF Alive
    <3> QED  BY <2>1, <2>2, <3>1, <3>2, CalmRetried
  <2> QED  BY <2>4, <2>5 DEF RetryInv
<1>10. ASSUME NEW i \in Instances, Unsubscribe(i) PROVE RetryInv'
  <2>1. UNCHANGED faults /\ shutdowns' = shutdowns + 1  BY <1>10 DEF Unsubscribe
  <2>2. DeleteConsumer \/ UNCHANGED <<server, hist>>  BY <1>10 DEF Unsubscribe
  <2>3. \A e \in Events : /\ hist'[e].failures = hist[e].failures
                          /\ hist'[e].givenUp = hist[e].givenUp
    BY <1>0, <2>2, DeletedHist
  <2>4. faults' >= faults /\ shutdowns' >= shutdowns  BY <1>0, <2>1
  <2>5. NumsFit'  BY <1>10, <2>3, <2>4, InPodGone, NumsCalm
  <2>6. ASSUME NEW e \in Events PROVE Retried(e)'
    <3>1. Cardinality(Naks(e)') <= Cardinality(Naks(e)) /\ Cardinality(Naks(e)') \in Nat
      BY <1>10, NaksFewer
    <3>2. \/ server'[e] = server[e]
          \/ server'[e].st = "new" /\ server'[e].num = 0
      BY <2>2, DeletedServer
    <3>3. CASE server'[e] = server[e]  BY <2>1, <2>3, <3>1, <3>3, CalmRetried
    <3>4. CASE server'[e].st = "new" /\ server'[e].num = 0
      <4>1. Tries(e)' = Tries(e) + 1  BY <1>0, <2>1, <2>3, TriesNext DEF Tries
      <4>2. Cardinality(Naks(e)) <= hist[e].failures
            /\ (hist[e].givenUp => Tries(e) >= MaxDeliveries)
        BY <1>0 DEF Retried
      <4>3. /\ Cardinality(Naks(e)') <= hist'[e].failures
            /\ Cardinality(Naks(e)') <= Tries(e)'
            /\ hist'[e].givenUp => Tries(e)' >= MaxDeliveries
        BY <1>0, <2>3, <3>1, <4>1, <4>2, SubscriberAssumption DEF Tries
      <4>4. server'[e].num + Cardinality(Naks(e)') <= Tries(e)'  BY <3>1, <3>4, <4>3
      <4> QED  BY <3>4, <4>3, <4>4, RetriedNext
    <3> QED  BY <3>2, <3>3, <3>4
  <2> QED  BY <2>5, <2>6 DEF RetryInv
<1> QED  BY <1>1, <1>2, <1>3, <1>4, <1>5, <1>6, <1>7, <1>8, <1>9, <1>10, StepCases

LEMMA RetryInit == ASSUME Init PROVE RetryInv
<1>1. SubInv /\ PodInv  BY SubInvInit, PodInvInit
<1>2. ASSUME NEW e \in Events PROVE Retried(e)
  <2>1. Naks(e) = {}  BY DEF Init, Naks, IdleWorker
  <2>2. Cardinality(Naks(e)) = 0  BY <2>1, FS_EmptySet
  <2>3. server[e].st = "unsent" /\ hist[e].failures = 0 /\ ~hist[e].givenUp
    BY DEF Init
  <2> QED  BY <2>2, <2>3 DEF Retried
<1>3. NumsFit
  <2> SUFFICES ASSUME NEW i \in Instances, NEW m \in Messages PROVE ~InPod(i, m)
    BY DEF NumsFit
  <2>1. inbox[i] = << >> /\ msgChan[i] = << >> /\ callback[i] = None
        /\ \A w \in Workers : worker[w].msg = None
    BY DEF Init, IdleWorker
  <2> QED  BY <2>1, HasNone, NoMessageIsNone DEF InPod
<1> QED  BY <1>2, <1>3 DEF RetryInv

\* processMessage gives an event up only when as many deliveries as NATS_MAX_DELIVERIES
\* have failed, less one for each crash, lost or late answer or shutdown, whatever the
\* order in which several workers, pods and old copies answer.
THEOREM SubscriberGivesUp == Spec => []GivenUpOnlyAfterRetries
<1> DEFINE I == SubInv /\ PodInv /\ RetryInv
<1>1. Init => I  BY SubInvInit, PodInvInit, RetryInit
<1>2. I /\ [Next]_vars => I'
  <2> SUFFICES ASSUME I, [Next]_vars PROVE I'
    OBVIOUS
  <2>1. SubInv' /\ PodInv'  BY SubInvStep, PodInvStep
  <2>2. CASE Next  BY <2>1, <2>2, RetryStep
  <2>3. CASE UNCHANGED vars
    <3>1. UNCHANGED <<clientVars, server, hist, faults, shutdowns, up>>
      BY <2>3 DEF vars, podVars
    <3>2. \A i \in Instances, m \in Messages : InPod(i, m)' <=> InPod(i, m)
      BY <3>1, InPodSame
    <3>3. faults' >= faults /\ shutdowns' >= shutdowns
      BY <3>1, SubscriberAssumption DEF PodInv, RestTypes
    <3>4. NumsFit'  BY <2>1, <3>1, <3>2, <3>3, NumsCalm
    <3>5. ASSUME NEW e \in Events PROVE Retried(e)'
      BY <2>1, <3>1, <3>2, NaksSame, AliveSame, RetryTypes, CalmRetried DEF clientVars
    <3> QED  BY <2>1, <3>4, <3>5 DEF RetryInv
  <2> QED  BY <2>2, <2>3
<1>3. I => GivenUpOnlyAfterRetries
  BY DEF RetryInv, Retried, Tries, GivenUpOnlyAfterRetries
<1> QED  BY <1>1, <1>2, <1>3, PTL DEF Spec
=============================================================================
