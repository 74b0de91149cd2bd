--------------------------------- MODULE NATS ---------------------------------
(***************************************************************************)
(* The JetStream side of messaging/nats/nats.go.  The replicas of a        *)
(* service call EnsureStream when they start, perhaps with the             *)
(* configurations of two releases, and then ConsumeDurable on one durable  *)
(* consumer; PublishJS stores messages.  The server and nats.go are        *)
(* modelled from how the code uses them: a stream is created by the first  *)
(* who asks, and asking again succeeds with the same configuration only;   *)
(* a message that is delivered and not acknowledged within the AckWait is  *)
(* delivered again.  A connection that is lost comes back by itself        *)
(* (MaxReconnects(-1)): it makes requests fail and delays or loses what    *)
(* was being sent, and the client keeps what it has received.              *)
(***************************************************************************)
EXTENDS Naturals, Sequences, FiniteSets

CONSTANTS
  Replica,   \* the replicas of the service
  Old,       \* those of the release before, with another stream configuration
  Message,   \* what is published
  Buffer,    \* messages a client takes before they are handled
  MaxLog     \* bound: messages the stream stores

ASSUME NATSConstants ==
  /\ Old \subseteq Replica
  /\ Buffer \in Nat \ {0} /\ MaxLog \in Nat

VARIABLES
  pc,       \* per replica: where it stands; a service that ends is started again
  stream,   \* the configuration of the stream on the server, or "none"
  pub,      \* per message: its PublishJS
  net,      \* messages on their way to the stream
  log,      \* the stream
  avail,    \* entries of the stream that may be delivered now
  acked,    \* entries that are acknowledged
  buf,      \* per replica: entries its client has received
  hand,     \* per replica: the entry its handler works on; a set of one or none
  acking,   \* per replica: entries whose handler has returned nil and whose Ack
            \* has not arrived
  handled,  \* history: entries with which a handler has succeeded
  expired,  \* history: entries whose AckWait was over at least once
  failed    \* history: messages with a PublishJS that returned an error

publishing == <<pub, net, log, failed>>
delivery == <<avail, acked, buf, hand, acking, handled, expired>>
setup == <<pc, stream>>
vars == <<setup, publishing, delivery>>

-----------------------------------------------------------------------------
Entry == 1..MaxLog

\* The configuration that r passes to EnsureStream.
cfg(r) == IF r \in Old THEN "old" ELSE "new"

Init ==
  /\ pc = [r \in Replica |-> "lookup"]
  /\ stream = "none"
  /\ pub = [m \in Message |-> "no"]
  /\ net = {} /\ failed = {}
  /\ log = <<>>
  /\ avail = {} /\ acked = {} /\ expired = {}
  /\ buf = [r \in Replica |-> {}]
  /\ hand = [r \in Replica |-> {}] /\ acking = [r \in Replica |-> {}]
  /\ handled = {}

Goes(r, from, to) == pc[r] = from /\ pc' = [pc EXCEPT ![r] = to]

\* Mutant: the stream is created without a look.
NeverFound == FALSE
Found == stream # "none"

\* The replica starts with EnsureStream, and c.JS.Stream answers.
Lookup(r) ==
  /\ Goes(r, "lookup", IF Found THEN "ensured" ELSE "create")
  /\ UNCHANGED stream /\ UNCHANGED publishing /\ UNCHANGED delivery

\* It fails; every error is taken for a stream that is not there.
LookupFails(r) ==
  /\ Goes(r, "lookup", "create")
  /\ UNCHANGED stream /\ UNCHANGED publishing /\ UNCHANGED delivery

\* c.JS.CreateStream: creates it, or finds it as it is wanted, or is refused.
CreateStream(r) ==
  /\ \/ /\ stream \in {"none", cfg(r)}
        /\ stream' = cfg(r)
        /\ Goes(r, "create", "ensured")
     \/ /\ stream \notin {"none", cfg(r)}
        /\ Goes(r, "create", "lookup")
        /\ UNCHANGED stream
  /\ UNCHANGED publishing /\ UNCHANGED delivery

\* The answer to CreateStream does not come, executed or not: the service ends.
CreateFails(r) ==
  /\ Goes(r, "create", "lookup")
  /\ \/ UNCHANGED stream
     \/ stream = "none" /\ stream' = cfg(r)
  /\ UNCHANGED publishing /\ UNCHANGED delivery

\* ConsumeDurable: Stream, CreateOrUpdateConsumer and Consume; then it waits for
\* its context.  The durable consumer is on the server, for whoever comes.
Consume(r) ==
  /\ Goes(r, "ensured", "consuming")
  /\ UNCHANGED stream /\ UNCHANGED publishing /\ UNCHANGED delivery

\* One of the three fails: ConsumeDurable returns the error, the service ends.
ConsumeFails(r) ==
  /\ Goes(r, "ensured", "lookup")
  /\ UNCHANGED stream /\ UNCHANGED publishing /\ UNCHANGED delivery

-----------------------------------------------------------------------------
\* PublishJS is called, also again after an error: the message is sent.
PublishJS(m) ==
  /\ pub[m] \in {"no", "error"}
  /\ pub' = [pub EXCEPT ![m] = "waits"]
  /\ net' = net \cup {m}
  /\ UNCHANGED <<log, failed>>
  /\ UNCHANGED setup /\ UNCHANGED delivery

\* The stream stores it, in time or not.
Persist(m) ==
  /\ m \in net /\ stream # "none" /\ Len(log) < MaxLog
  /\ net' = net \ {m}
  /\ log' = Append(log, m)
  /\ avail' = avail \cup {Len(log) + 1}
  /\ pub' = [pub EXCEPT ![m] = IF @ = "waits" THEN "stored" ELSE @]
  /\ UNCHANGED <<failed, acked, buf, hand, acking, handled, expired>>
  /\ UNCHANGED setup

\* Mutant: a core Publish, which waits for nothing.
SentIsEnough == {"waits", "stored"}
Confirmed == {"stored"}

\* The confirmation arrives, and PublishJS returns nil.
PublishOK(m) ==
  /\ pub[m] \in Confirmed
  /\ pub' = [pub EXCEPT ![m] = "nil"]
  /\ UNCHANGED <<net, log, failed>>
  /\ UNCHANGED setup /\ UNCHANGED delivery

\* There is no stream, or the message or the confirmation is lost or late.
PublishFails(m) ==
  /\ pub[m] \in {"waits", "stored"}
  /\ pub' = [pub EXCEPT ![m] = "error"]
  /\ net' \in {net, net \ {m}}
  /\ failed' = failed \cup {m}
  /\ UNCHANGED log
  /\ UNCHANGED setup /\ UNCHANGED delivery

-----------------------------------------------------------------------------
Held(e) == \E r \in Replica : e \in buf[r] \cup hand[r] \cup acking[r]

Pending == {e \in 1..Len(log) : e \notin avail \cup acked}

\* The server delivers an entry to one of the pulling clients.
Deliver(r, e) ==
  /\ pc[r] = "consuming"
  /\ e \in avail /\ Cardinality(buf[r]) < Buffer
  /\ avail' = avail \ {e}
  /\ buf' = [buf EXCEPT ![r] = @ \cup {e}]
  /\ UNCHANGED <<acked, hand, acking, handled, expired>>
  /\ UNCHANGED setup /\ UNCHANGED publishing

\* The delivery is lost with a connection.
DeliveryLost(e) ==
  /\ e \in avail /\ \E r \in Replica : pc[r] = "consuming"
  /\ avail' = avail \ {e}
  /\ UNCHANGED <<acked, buf, hand, acking, handled, expired>>
  /\ UNCHANGED setup /\ UNCHANGED publishing

\* The callback of Consume: the handler is called, one entry at a time, and Acks of
\* the ones before may still be on their way.
Handler(r, e) ==
  /\ pc[r] = "consuming" /\ e \in buf[r] /\ hand[r] = {}
  /\ buf' = [buf EXCEPT ![r] = @ \ {e}]
  /\ hand' = [hand EXCEPT ![r] = {e}]
  /\ UNCHANGED <<avail, acked, acking, handled, expired>>
  /\ UNCHANGED setup /\ UNCHANGED publishing

\* What the server makes of an Ack, whoever has the entry by now, and of a Nak.
Ack(S) == acked' = acked \cup S /\ avail' = avail \ S
Nak(S) == avail' = avail \cup (S \ acked) /\ UNCHANGED acked

\* Mutant: Nak also after success.
NakAfterOK(S) == Nak(S)
AfterOK(S) == Ack(S)
\* Mutant: the error is logged and the message acknowledged.
AckAfterError(S) == Ack(S)
AfterError(S) == Nak(S)

\* The handler of r returns nil, and msg.Ack waits for nobody.
HandlerOK(r) ==
  /\ hand[r] # {}
  /\ handled' = handled \cup hand[r]
  /\ hand' = [hand EXCEPT ![r] = {}] /\ acking' = [acking EXCEPT ![r] = @ \cup hand[r]]
  /\ UNCHANGED <<avail, acked, buf, expired>>
  /\ UNCHANGED setup /\ UNCHANGED publishing

\* An Ack arrives.
Settle(r) ==
  /\ \E e \in acking[r] : AfterOK({e}) /\ acking' = [acking EXCEPT ![r] = @ \ {e}]
  /\ UNCHANGED <<buf, hand, handled, expired>>
  /\ UNCHANGED setup /\ UNCHANGED publishing

\* An Ack is lost with the connection, or refused by one that is closed
\* already; its error is ignored.
AckLost(r) ==
  /\ \E e \in acking[r] : acking' = [acking EXCEPT ![r] = @ \ {e}]
  /\ UNCHANGED <<avail, acked, buf, hand, handled, expired>>
  /\ UNCHANGED setup /\ UNCHANGED publishing

\* The handler of r returns an error, and the Nak arrives or is lost.
HandlerFails(r) ==
  /\ hand[r] # {} /\ (AfterError(hand[r]) \/ UNCHANGED <<avail, acked>>)
  /\ hand' = [hand EXCEPT ![r] = {}]
  /\ UNCHANGED <<buf, acking, handled, expired>>
  /\ UNCHANGED setup /\ UNCHANGED publishing

\* Its AckWait is over: the entry is delivered again.
AckWait(e) ==
  /\ e \in Pending
  /\ avail' = avail \cup {e}
  /\ expired' = expired \cup {e}
  /\ UNCHANGED <<acked, buf, hand, acking, handled>>
  /\ UNCHANGED setup /\ UNCHANGED publishing

-----------------------------------------------------------------------------
\* The context is done: Stop discards what is not handled yet, ConsumeDurable
\* returns, and a handler that runs goes on.
Cancel(r) ==
  /\ Goes(r, "consuming", "returned")
  /\ buf' = [buf EXCEPT ![r] = {}]
  /\ UNCHANGED <<avail, acked, hand, acking, handled, expired>>
  /\ UNCHANGED stream /\ UNCHANGED publishing

\* Close: Drain returns at once, and main with it; what was to be drained in the
\* background ends with the process, which is started again.
Close(r) ==
  /\ Goes(r, "returned", "lookup")
  /\ hand' = [hand EXCEPT ![r] = {}] /\ acking' = [acking EXCEPT ![r] = {}]
  /\ UNCHANGED <<avail, acked, buf, handled, expired>>
  /\ UNCHANGED stream /\ UNCHANGED publishing

\* The process ends at any time, and is started again.
Crash(r) ==
  /\ pc' = [pc EXCEPT ![r] = "lookup"]
  /\ buf' = [buf EXCEPT ![r] = {}]
  /\ hand' = [hand EXCEPT ![r] = {}] /\ acking' = [acking EXCEPT ![r] = {}]
  /\ UNCHANGED <<avail, acked, handled, expired>>
  /\ UNCHANGED stream /\ UNCHANGED publishing

-----------------------------------------------------------------------------
Step(r) ==
  \/ Lookup(r) \/ CreateStream(r) \/ Consume(r) \/ Close(r)
  \/ \E e \in Entry : Deliver(r, e) \/ Handler(r, e)
  \/ HandlerOK(r) \/ Settle(r)

Redeliver == \E e \in Entry : ~Held(e) /\ AckWait(e)

Progress ==
  \/ \E r \in Replica : Step(r)
  \/ \E m \in Message : PublishJS(m) \/ Persist(m) \/ PublishOK(m)
  \/ Redeliver

Fault ==
  \/ \E r \in Replica :
       \/ LookupFails(r) \/ CreateFails(r) \/ ConsumeFails(r)
       \/ HandlerFails(r) \/ Cancel(r) \/ AckLost(r) \/ Crash(r)
  \/ \E m \in Message : PublishFails(m)
  \/ \E e \in Entry : DeliveryLost(e) \/ (Held(e) /\ AckWait(e))

Next == Progress \/ Fault

Spec == Init /\ [][Next]_vars

\* Faults come to an end: handlers are quicker than AckWait, connections stay;
\* and whatever can run does.
FairSpec ==
  /\ Spec
  /\ <>[][Progress]_vars
  /\ WF_vars((\E r \in Replica : Step(r)) \/ Redeliver)

-----------------------------------------------------------------------------
TypeOK ==
  /\ pc \in [Replica -> {"lookup", "create", "ensured", "consuming", "returned"}]
  /\ stream \in {"none", "old", "new"}
  /\ pub \in [Message -> {"no", "waits", "stored", "error", "nil"}]
  /\ net \in SUBSET Message /\ failed \in SUBSET Message
  /\ log \in Seq(Message) /\ Len(log) <= MaxLog
  /\ avail \in SUBSET (1..Len(log)) /\ acked \in SUBSET (1..Len(log))
  /\ avail \cap acked = {}
  /\ buf \in [Replica -> SUBSET (1..Len(log))]
  /\ hand \in [Replica -> SUBSET (1..Len(log))]
  /\ acking \in [Replica -> SUBSET (1..Len(log))]
  /\ handled \in SUBSET (1..Len(log)) /\ expired \in SUBSET Entry

\* An entry is acknowledged only when a handler has succeeded with it, whatever
\* is delivered late, twice or to somebody else (nats.go:139-145).
Promise == INSTANCE AtLeastOnce WITH
  Message <- Entry,
  done <- handled,
  settled <- acked
ImplementsAtLeastOnce == Promise!Spec

\* What a handler has succeeded with is on its way to a handler again only if its
\* AckWait ran out, and is in the stream twice only if a PublishJS of it returned
\* an error: failing handlers, refused streams and consumers that stop repeat
\* nothing that was done (nats.go:115-145).
DuplicateNeedsDelay ==
  /\ \A e \in handled :
       (e \in avail \/ \E r \in Replica : e \in buf[r] \cup hand[r]) => e \in expired
  /\ \A e, f \in 1..Len(log) : log[e] = log[f] /\ e # f => log[e] \in failed

\* What PublishJS has returned nil for is handled at last (nats.go:112-114).  Both are
\* for good, so this is nil ~> handled for every message.
PublishedIsHandled ==
  <>[](\A m \in Message : pub[m] = "nil" => \E e \in handled : log[e] = m)

\* Every replica consumes at last, also one whose stream another release has
\* created while it was about to: it fails once, and finds the stream when it
\* is started again (nats.go:98-110).
AllConsume == <>[](\A r \in Replica : pc[r] = "consuming")
=============================================================================
