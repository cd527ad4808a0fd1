--------------------------- MODULE EventSubscriber ---------------------------
(***************************************************************************)
(* How the pods of the pipe service take ingestion events from JetStream:  *)
(* a queue subscription shared by all pods, whose callback hands each      *)
(* message to the pod's worker goroutines through a bounded channel.  A    *)
(* worker runs the handler and acknowledges the message, asks for it again *)
(* later, or moves it to the dead letter queue when it has been delivered  *)
(* often enough.                                                           *)
(*                                                                         *)
(* The server side (Deliver, Expire, what an ack or a nak does) is not in  *)
(* the repository: it is JetStream with the options Subscribe passes, and  *)
(* the defaults of the client for those it does not.  The client deletes   *)
(* the consumer when the subscription that created it is unsubscribed, and *)
(* creates it with the policy to deliver the whole stream.                 *)
(***************************************************************************)
EXTENDS Naturals, Sequences, FiniteSets

CONSTANTS Events,
          Instances,      \* pods
          Workers, PodOf, \* worker goroutines and their pod
          None,           \* no message, no instance
          MaxDeliveries,  \* NATS_MAX_DELIVERIES
          DLQStream,      \* some stream takes the dead letter subject
          ScaleDown,      \* a pod that stops is not started again
          MaxFaults,      \* bound: crashes, lost acks, late acks, failed subscriptions
          MaxShutdowns    \* bound: orderly shutdowns

ASSUME SubscriberAssumption ==
  /\ IsFiniteSet(Instances) /\ IsFiniteSet(Workers)
  /\ PodOf \in [Workers -> Instances]
  /\ None \notin Instances /\ None \notin [event : Events, num : Nat]
  /\ MaxDeliveries \in Nat
  /\ DLQStream \in BOOLEAN /\ ScaleDown \in BOOLEAN
  /\ MaxFaults \in Nat /\ MaxShutdowns \in Nat

VARIABLES server,    \* each event of the stream: its payload, what the consumer knows of it
          exists,    \* the consumer exists
          creator,   \* the pod whose subscription created it, while it runs
          up,        \* where each process stands
          sub,       \* its subscription
          inbox,     \* messages the client library holds for the callback
          callback,  \* the message the callback is sending to the channel
          msgChan,   \* the channel
          worker,    \* what each worker goroutine does
          dlq,       \* events published to the dead letter subject
          hist,      \* history of each event
          faults, shutdowns

clientVars == <<inbox, callback, msgChan, worker>>
podVars    == <<exists, creator, up, sub, shutdowns>>
vars       == <<server, clientVars, podVars, dlq, hist, faults>>

\* WorkerConcurrency of a pod; the channel has room for twice as many.
ChanSize(i) == 2 * Cardinality({w \in Workers : PodOf[w] = i})

Copy(e, n) == [event |-> e, num |-> n]

IdleWorker == [pc |-> "idle", msg |-> None]

Init ==
  /\ server \in [Events -> [st : {"unsent"}, num : {0}, wellFormed : BOOLEAN]]
  /\ exists = FALSE
  /\ creator = None
  /\ up = [i \in Instances |-> "down"]
  /\ sub = [i \in Instances |-> "none"]
  /\ inbox = [i \in Instances |-> << >>]
  /\ callback = [i \in Instances |-> None]
  /\ msgChan = [i \in Instances |-> << >>]
  /\ worker = [w \in Workers |-> IdleWorker]
  /\ dlq = {}
  /\ hist = [e \in Events |-> [handled |-> FALSE, failures |-> 0, givenUp |-> FALSE,
                               reissued |-> 0]]
  /\ faults = 0
  /\ shutdowns = 0

Fault == faults < MaxFaults /\ faults' = faults + 1

-----------------------------------------------------------------------------
(* The copies of a message that are anywhere in the pods. *)

HeldBy(w, e) == worker[w].msg # None /\ worker[w].msg.event = e

Holders(e) == {w \in Workers : HeldBy(w, e)}

Senders(e) == {i \in Instances : callback[i] # None /\ callback[i].event = e}

\* The places of e in one queue of each pod: inbox or msgChan.
Places(queue, e) ==
  UNION {{i} \X {k \in DOMAIN queue[i] : queue[i][k].event = e} : i \in Instances}

Copies(e) ==
  Cardinality(Holders(e)) + Cardinality(Senders(e))
  + Cardinality(Places(inbox, e)) + Cardinality(Places(msgChan, e))

-----------------------------------------------------------------------------
(* JetStream. *)

\* The ingestion service's message is stored in the stream.
Publish(e) ==
  /\ server[e].st = "unsent"
  /\ server' = [server EXCEPT ![e].st = "new"]
  /\ UNCHANGED <<clientVars, podVars, dlq, hist, faults>>

\* A message never delivered, or due again, goes to one pod of the queue group.
Deliver(e, i) ==
  /\ exists
  /\ sub[i] = "live"
  /\ server[e].st \in {"new", "due"}
  /\ server' = [server EXCEPT ![e].st = "pending", ![e].num = @ + 1]
  /\ inbox' = [inbox EXCEPT ![i] = Append(@, Copy(e, server[e].num + 1))]
  /\ UNCHANGED <<callback, msgChan, worker, podVars, dlq, hist, faults>>

\* AckWait is over: because every copy is lost, or because it waits in the
\* channel or in the handler for longer than that.
Expire(e) ==
  /\ server[e].st = "pending"
  /\ server' = [server EXCEPT ![e].st = "due"]
  /\ \/ /\ Copies(e) = 0
        /\ UNCHANGED <<hist, faults>>
     \/ /\ Copies(e) > 0
        /\ Fault
        /\ hist' = [hist EXCEPT ![e].reissued = @ + 1]
  /\ UNCHANGED <<clientVars, podVars, dlq>>

\* An ack, or a nak, counts for any message that is pending, whichever delivery
\* of it the worker is answering.
Answered(e, st) ==
  server' = [server EXCEPT ![e].st = IF exists /\ @ \in {"pending", "due"} THEN st ELSE @]

-----------------------------------------------------------------------------
(* The pod: callback and workers. *)

\* The library calls the callback with the next message.
Callback(i) ==
  /\ up[i] = "up"
  /\ callback[i] = None
  /\ inbox[i] # << >>
  /\ callback' = [callback EXCEPT ![i] = Head(inbox[i])]
  /\ inbox' = [inbox EXCEPT ![i] = Tail(@)]
  /\ UNCHANGED <<server, msgChan, worker, podVars, dlq, hist, faults>>

\* Mutant: the channel takes any number of messages.
SendUnbounded(i) ==
  /\ up[i] \in {"up", "closing"}
  /\ callback[i] # None
  /\ msgChan' = [msgChan EXCEPT ![i] = Append(@, callback[i])]
  /\ callback' = [callback EXCEPT ![i] = None]
  /\ UNCHANGED <<server, inbox, worker, podVars, dlq, hist, faults>>

\* s.msgChan <- msg
Send(i) ==
  /\ up[i] \in {"up", "closing"}
  /\ callback[i] # None
  /\ Len(msgChan[i]) < ChanSize(i)
  /\ msgChan' = [msgChan EXCEPT ![i] = Append(@, callback[i])]
  /\ callback' = [callback EXCEPT ![i] = None]
  /\ UNCHANGED <<server, inbox, worker, podVars, dlq, hist, faults>>

Become(w, pc, m) == worker' = [worker EXCEPT ![w] = [pc |-> pc, msg |-> m]]

\* Mutants: failed messages are acknowledged; one retry is missing.
AfterFailureAcks(m) == "ack"
AfterFailureEarly(m) == IF m.num + 1 >= MaxDeliveries THEN "dlq" ELSE "nak"

\* Handling has failed: the last delivery goes to the dead letter queue, whose
\* publisher main always provides.
AfterFailure(m) == IF m.num >= MaxDeliveries THEN "dlq" ELSE "nak"

Failed(e, m) ==
  hist' = [hist EXCEPT ![e].failures = @ + 1,
                       ![e].givenUp = @ \/ AfterFailure(m) = "dlq"]

Receive(w) ==
  LET i == PodOf[w]
      m == Head(msgChan[i])
  IN /\ worker[w].pc = "idle"
     /\ msgChan[i] # << >>
     /\ msgChan' = [msgChan EXCEPT ![i] = Tail(@)]
     /\ IF server[m.event].wellFormed
          THEN Become(w, "handling", m) /\ UNCHANGED hist
          ELSE Become(w, AfterFailure(m), m) /\ Failed(m.event, m)
     /\ UNCHANGED <<server, inbox, callback, podVars, dlq, faults>>

\* handlerFunc returns nil, or an error.
HandlerReturns(w) ==
  LET m == worker[w].msg
  IN /\ worker[w].pc = "handling"
     /\ \/ /\ Become(w, "ack", m)
           /\ hist' = [hist EXCEPT ![m.event].handled = TRUE]
        \/ /\ Become(w, AfterFailure(m), m)
           /\ Failed(m.event, m)
     /\ UNCHANGED <<server, inbox, callback, msgChan, podVars, dlq, faults>>

\* A publication counts only when a stream confirms it.  NewEventSubscriber makes a
\* stream for the events alone, so without one made by hand this always fails; with
\* one it may fail all the same.  The message is acknowledged next in either case.
PublishDLQ(w) ==
  /\ worker[w].pc = "dlq"
  /\ \/ DLQStream /\ dlq' = dlq \cup {worker[w].msg.event}
     \/ UNCHANGED dlq
  /\ Become(w, "ack", worker[w].msg)
  /\ UNCHANGED <<server, inbox, callback, msgChan, podVars, hist, faults>>

\* Mutants: after a nak the worker goes on with the message; it ends.
AnswerGoesOn(w) ==
  LET m == worker[w].msg
  IN /\ \/ worker[w].pc = "ack" /\ Answered(m.event, "acked")
           /\ worker' = [worker EXCEPT ![w] = IdleWorker]
        \/ worker[w].pc = "nak" /\ Answered(m.event, "due")
           /\ Become(w, "handling", m)
     /\ UNCHANGED <<inbox, callback, msgChan, podVars, dlq, hist, faults>>

AnswerStops(w) ==
  LET m == worker[w].msg
  IN /\ \/ worker[w].pc = "ack" /\ Answered(m.event, "acked")
           /\ worker' = [worker EXCEPT ![w] = IdleWorker]
        \/ worker[w].pc = "nak" /\ Answered(m.event, "due")
           /\ Become(w, "stopped", None)
     /\ UNCHANGED <<inbox, callback, msgChan, podVars, dlq, hist, faults>>

\* msg.Ack() or msg.NakWithDelay(), which the network may lose.
Answer(w) ==
  LET e == worker[w].msg.event
  IN /\ \/ worker[w].pc = "ack" /\ Answered(e, "acked")
        \/ worker[w].pc = "nak" /\ Answered(e, "due")
     /\ worker' = [worker EXCEPT ![w] = IdleWorker]
     /\ UNCHANGED <<inbox, callback, msgChan, podVars, dlq, hist, faults>>

AnswerLost(w) ==
  /\ worker[w].pc \in {"ack", "nak"}
  /\ Fault
  /\ worker' = [worker EXCEPT ![w] = IdleWorker]
  /\ UNCHANGED <<server, inbox, callback, msgChan, podVars, dlq, hist>>

-----------------------------------------------------------------------------
(* The process: start, crash, orderly shutdown. *)

\* main subscribes; the consumer is created by the first pod to find none.  When
\* it cannot connect or subscribe it logs that, and stays up without.
Boot(i) ==
  /\ up[i] = "down"
  /\ up' = [up EXCEPT ![i] = "up"]
  /\ \/ /\ sub' = [sub EXCEPT ![i] = "live"]
        /\ exists' = TRUE
        /\ creator' = IF exists THEN creator ELSE i
        /\ UNCHANGED faults
     \/ /\ Fault
        /\ UNCHANGED <<sub, exists, creator>>
  /\ UNCHANGED <<server, clientVars, shutdowns, dlq, hist>>

\* Everything the process held is gone.  A pod that was told to stop in a scale-down
\* is not started again.
Dies(i) ==
  /\ up' = [up EXCEPT ![i] = IF ScaleDown /\ @ \in {"closing", "closed"} THEN "gone"
                                                                          ELSE "down"]
  /\ inbox' = [inbox EXCEPT ![i] = << >>]
  /\ callback' = [callback EXCEPT ![i] = None]
  /\ msgChan' = [msgChan EXCEPT ![i] = << >>]
  /\ worker' = [w \in Workers |-> IF PodOf[w] = i THEN IdleWorker ELSE worker[w]]

Crash(i) ==
  /\ up[i] \in {"up", "closing", "closed"}
  /\ Fault
  /\ Dies(i)
  /\ sub' = [sub EXCEPT ![i] = "none"]
  /\ creator' = IF creator = i THEN None ELSE creator
  /\ UNCHANGED <<server, exists, shutdowns, dlq, hist>>

\* What the library does when the creating subscription is unsubscribed.
DeleteConsumer ==
  /\ exists' = FALSE
  /\ creator' = None
  /\ server' = [e \in Events |-> IF server[e].st = "unsent" THEN server[e]
                                 ELSE [server[e] EXCEPT !.st = "new", !.num = 0]]
  /\ hist' = [e \in Events |-> [hist[e] EXCEPT !.reissued = @ + Copies(e)]]

\* Unsubscribe: the subscription first; messages still in the library are dropped.
Unsubscribe(i) ==
  /\ up[i] = "up"
  /\ shutdowns < MaxShutdowns
  /\ shutdowns' = shutdowns + 1
  /\ up' = [up EXCEPT ![i] = "closing"]
  /\ inbox' = [inbox EXCEPT ![i] = << >>]
  /\ IF creator = i
       THEN /\ DeleteConsumer
            /\ sub' = [j \in Instances |-> IF j = i \/ sub[j] = "none" THEN "none" ELSE "stale"]
       ELSE /\ sub' = [sub EXCEPT ![i] = "none"]
            /\ UNCHANGED <<server, exists, creator, hist>>
  /\ UNCHANGED <<callback, msgChan, worker, dlq, faults>>

\* close(s.msgChan): a callback that has a message to send, blocked or about to,
\* panics and takes the process with it.
CloseChannel(i) ==
  /\ up[i] = "closing"
  /\ IF callback[i] = None
       THEN /\ up' = [up EXCEPT ![i] = "closed"]
            /\ UNCHANGED clientVars
       ELSE Dies(i)
  /\ UNCHANGED <<server, exists, creator, sub, shutdowns, dlq, hist, faults>>

\* main returns without waiting for the workers.
Exit(i) ==
  /\ up[i] = "closed"
  /\ Dies(i)
  /\ UNCHANGED <<server, exists, creator, sub, shutdowns, dlq, hist, faults>>

-----------------------------------------------------------------------------
WorkerStep(w) == Receive(w) \/ HandlerReturns(w) \/ PublishDLQ(w) \/ Answer(w)

ProcessStep(i) == Callback(i) \/ Send(i) \/ CloseChannel(i) \/ Exit(i)

Next ==
  \/ \E e \in Events : Publish(e) \/ Expire(e) \/ \E i \in Instances : Deliver(e, i)
  \/ \E w \in Workers : WorkerStep(w) \/ AnswerLost(w)
  \/ \E i \in Instances : ProcessStep(i) \/ Boot(i) \/ Crash(i) \/ Unsubscribe(i)

Spec == Init /\ [][Next]_vars

\* The server delivers and times out, goroutines run, the handler returns, and
\* Kubernetes starts a pod that is down.  Nothing makes a fault happen.
Fairness ==
  /\ \A e \in Events : /\ WF_vars(\E i \in Instances : Deliver(e, i))
                       /\ WF_vars(Copies(e) = 0 /\ Expire(e))
  /\ \A w \in Workers : WF_vars(WorkerStep(w))
  /\ \A i \in Instances : /\ WF_vars(Callback(i)) /\ WF_vars(Send(i))
                          /\ WF_vars(CloseChannel(i)) /\ WF_vars(Exit(i))
                          /\ WF_vars(Boot(i))

FairSpec == Spec /\ Fairness

-----------------------------------------------------------------------------
Messages == [event : Events, num : Nat \ {0}]

\* Types of the subscriber's and the server's state.
TypeOK ==
  /\ server \in [Events -> [st : {"unsent", "new", "pending", "due", "acked"}, num : Nat,
                           wellFormed : BOOLEAN]]
  /\ exists \in BOOLEAN
  /\ creator \in Instances \cup {None}
  /\ up \in [Instances -> {"down", "up", "closing", "closed", "gone"}]
  /\ sub \in [Instances -> {"none", "live", "stale"}]
  /\ inbox \in [Instances -> Seq(Messages)]
  /\ callback \in [Instances -> Messages \cup {None}]
  /\ msgChan \in [Instances -> Seq(Messages)]
  /\ \A i \in Instances : Len(msgChan[i]) <= ChanSize(i)
  /\ worker \in [Workers -> [pc : {"idle", "handling", "dlq", "ack", "nak"},
                             msg : Messages \cup {None}]]
  /\ dlq \subseteq Events
  /\ hist \in [Events -> [handled : BOOLEAN, failures : Nat, givenUp : BOOLEAN,
                          reissued : Nat]]
  /\ faults \in 0 .. MaxFaults
  /\ shutdowns \in 0 .. MaxShutdowns

\* The server forgets an event only when a worker has handled it, or has given it up
\* after its last delivery failed: no crash, late ack, lost ack or shutdown makes an
\* event pass for done that no worker has decided about.  Whether anything is left of
\* one given up is not said here: see GivenUpIsKept.
AckedMeansDecided ==
  \A e \in Events : server[e].st = "acked" => hist[e].handled \/ hist[e].givenUp

\* Copies of one event are in the pods at the same time only because AckWait ran
\* out under a live copy or the consumer was deleted: retries by nak, however
\* late they are, never multiply a message.
CopiesAccountedFor ==
  \A e \in Events : Copies(e) <= 1 + hist[e].reissued

\* An event is given up only after as many failures as deliveries are allowed,
\* less one for each fault or shutdown that used up a delivery.
GivenUpOnlyAfterRetries ==
  \A e \in Events : hist[e].givenUp => hist[e].failures + faults + shutdowns >= MaxDeliveries

\* Every event of the stream is handled or given up in the end, whatever crashes, late acks
\* and shutdowns came before, if again and again some pod is subscribed.
Decided(e) == server[e].st # "unsent" ~> server[e].st = "acked"

DecidedIfServed ==
  []<>(\E i \in Instances : sub[i] = "live") => \A e \in Events : Decided(e)

-----------------------------------------------------------------------------
(* What the documentation promises and the code does not do. *)

\* No event gets stuck in the stream.
EventuallyDecided == \A e \in Events : Decided(e)

\* The dead letter queue keeps the events that cannot be handled: one that the stream
\* forgets without its having been handled is there.
GivenUpIsKept ==
  \A e \in Events : server[e].st = "acked" => hist[e].handled \/ e \in dlq
=============================================================================
