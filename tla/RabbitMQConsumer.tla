--------------------------- MODULE RabbitMQConsumer ---------------------------
(***************************************************************************)
(* Client.Consume of messaging/rabbitmq/rabbitmq.go: the replicas of a     *)
(* service declare, bind and consume one named queue.  The broker and      *)
(* amqp091-go are modelled from how the code uses them: no prefetch limit, *)
(* so that a subscription is sent all it can get; what a connection had    *)
(* not acknowledged is queued again when it is lost; an exclusive queue    *)
(* belongs to the connection that declared it and ends with it, and the    *)
(* channel of anybody else who declares it is closed.  The reconnecting    *)
(* client is RabbitMQClient.tla; here it only brings channels back.        *)
(***************************************************************************)
EXTENDS Naturals

CONSTANTS
  Consumer,  \* the replicas, each with a client of its own
  Message,   \* the messages published to the queue
  Nil        \* no replica, no message

ASSUME ConsumerConstants == Nil \notin Consumer \cup Message

VARIABLES
  durable,  \* ConsumeConfig.Durable, the same for all replicas and never changed
  step,     \* per replica: where Consume stands; "idle": not called, or returned
  channel,  \* per replica: its channel is "up", "closed" or, with its connection, "lost"
  current,  \* replicas whose Consume has read the channel that is open now
  sub,      \* replicas whose Consume has a subscription
  zombie,   \* replicas with a subscription that an earlier Consume left behind
  msg,      \* per replica: the message its loop works on
  bound,    \* the queue is there and bound
  holder,   \* the replica that the queue is exclusive to
  ready,    \* messages in the queue
  inbox,    \* per replica: messages sent to its Consume and not acknowledged
  stuck,    \* per replica: messages sent to its left subscription
  acked,    \* messages the broker has forgotten because they were acknowledged
  lost,     \* messages that went down with the queue
  handled,  \* history, per message: successful handler calls, not above 2
  requeued  \* history: messages queued again because their connection was lost

consumervars == <<durable, step, channel, current, sub, zombie, msg, bound, holder, ready, inbox,
                  stuck, acked, lost, handled, requeued>>
queue == <<durable, bound, holder, ready, inbox, stuck, acked, lost, requeued>>
link == <<channel, current, sub, zombie>>

-----------------------------------------------------------------------------
Setup == {"declare", "bind", "subscribe"}

ConsumerInit ==
  /\ durable \in BOOLEAN
  /\ step = [c \in Consumer |-> "idle"]
  /\ channel = [c \in Consumer |-> "up"]
  /\ current = {} /\ sub = {} /\ zombie = {}
  /\ msg = [c \in Consumer |-> Nil]
  /\ bound = FALSE /\ holder = Nil
  /\ ready = {} /\ acked = {} /\ lost = {} /\ requeued = {}
  /\ inbox = [c \in Consumer |-> {}] /\ stuck = [c \in Consumer |-> {}]
  /\ handled = [m \in Message |-> 0]

Places(m) ==
  m \in ready \cup acked \cup lost \/ \E c \in Consumer : m \in inbox[c] \cup stuck[c]

\* A message is published and routed to the queue.
Arrive(m) ==
  /\ bound /\ ~Places(m)
  /\ ready' = ready \cup {m}
  /\ UNCHANGED link
  /\ UNCHANGED <<durable, step, msg, bound, holder, inbox, stuck, acked, lost, handled, requeued>>

\* Consume is called and reads c.ch.
Consume(c) ==
  /\ step[c] = "idle"
  /\ step' = [step EXCEPT ![c] = "declare"]
  /\ current' = IF channel[c] = "up" THEN current \cup {c} ELSE current \ {c}
  /\ UNCHANGED queue /\ UNCHANGED <<channel, sub, zombie, msg, handled>>

Exclusive == ~durable

\* QueueDeclare succeeds.
QueueDeclare(c) ==
  /\ step[c] = "declare" /\ c \in current
  /\ holder \in {Nil, c}
  /\ holder' = IF Exclusive THEN c ELSE Nil
  /\ step' = [step EXCEPT ![c] = "bind"]
  /\ UNCHANGED link
  /\ UNCHANGED <<durable, msg, bound, ready, inbox, stuck, acked, lost, handled, requeued>>

\* QueueBind succeeds.
QueueBind(c) ==
  /\ step[c] = "bind" /\ c \in current
  /\ bound' = TRUE
  /\ step' = [step EXCEPT ![c] = "subscribe"]
  /\ UNCHANGED link
  /\ UNCHANGED <<durable, msg, holder, ready, inbox, stuck, acked, lost, handled, requeued>>

\* ch.Consume succeeds.
Subscribe(c) ==
  /\ step[c] = "subscribe" /\ c \in current
  /\ sub' = sub \cup {c}
  /\ step' = [step EXCEPT ![c] = "select"]
  /\ UNCHANGED queue /\ UNCHANGED <<channel, current, zombie, msg, handled>>

\* One of the three fails because the channel is gone: Consume returns.
SetupFails(c) ==
  /\ step[c] \in Setup /\ c \notin current
  /\ step' = [step EXCEPT ![c] = "idle"]
  /\ UNCHANGED queue /\ UNCHANGED link /\ UNCHANGED <<msg, handled>>

\* The queue is exclusive to another replica: the broker closes the channel.
DeclareLocked(c) ==
  /\ step[c] = "declare" /\ c \in current
  /\ holder \notin {Nil, c}
  /\ step' = [step EXCEPT ![c] = "idle"]
  /\ channel' = [channel EXCEPT ![c] = "closed"]
  /\ current' = current \ {c} /\ sub' = sub \ {c} /\ zombie' = zombie \ {c}
  /\ UNCHANGED queue /\ UNCHANGED <<msg, handled>>

\* The broker sends a message to a subscription, also to one nobody reads.
Deliver(c, m) ==
  /\ m \in ready
  /\ ready' = ready \ {m}
  /\ \/ c \in sub /\ inbox' = [inbox EXCEPT ![c] = @ \cup {m}] /\ UNCHANGED stuck
     \/ c \in zombie /\ stuck' = [stuck EXCEPT ![c] = @ \cup {m}] /\ UNCHANGED inbox
  /\ UNCHANGED link
  /\ UNCHANGED <<durable, step, msg, bound, holder, acked, lost, handled, requeued>>

\* <-deliveries is chosen: the handler is called.
Take(c, m) ==
  /\ step[c] = "select" /\ m \in inbox[c]
  /\ msg' = [msg EXCEPT ![c] = m]
  /\ step' = [step EXCEPT ![c] = "handler"]
  /\ UNCHANGED queue /\ UNCHANGED link /\ UNCHANGED handled

\* <-ctx.Done() is chosen: Consume returns, and its subscription stays.
ContextDone(c) ==
  /\ step[c] = "select"
  /\ step' = [step EXCEPT ![c] = "idle"]
  /\ sub' = sub \ {c}
  /\ zombie' = IF c \in sub THEN zombie \cup {c} ELSE zombie
  /\ stuck' = [stuck EXCEPT ![c] = @ \cup inbox[c]]
  /\ inbox' = [inbox EXCEPT ![c] = {}]
  /\ UNCHANGED <<channel, current>>
  /\ UNCHANGED <<durable, msg, bound, holder, ready, acked, lost, handled, requeued>>

\* deliveries is closed: Consume returns.
DeliveriesClosed(c) ==
  /\ step[c] = "select" /\ c \notin sub
  /\ step' = [step EXCEPT ![c] = "idle"]
  /\ UNCHANGED queue /\ UNCHANGED link /\ UNCHANGED <<msg, handled>>

\* Mutant: the verdicts are swapped.
NackAfterOK == "nack"
AfterOK == "ack"

\* The handler returns nil.
HandlerOK(c) ==
  /\ step[c] = "handler"
  /\ handled' = [handled EXCEPT ![msg[c]] = IF @ < 2 THEN @ + 1 ELSE @]
  /\ step' = [step EXCEPT ![c] = AfterOK]
  /\ UNCHANGED queue /\ UNCHANGED link /\ UNCHANGED msg

AfterError == "nack"

\* The handler returns an error.
HandlerFails(c) ==
  /\ step[c] = "handler"
  /\ step' = [step EXCEPT ![c] = AfterError]
  /\ UNCHANGED queue /\ UNCHANGED link /\ UNCHANGED <<msg, handled>>

\* Mutant: Ack(true), which acknowledges everything that was sent.
AckMultiple(c) == inbox[c]
AckOne(c) == {msg[c]} \cap inbox[c]

\* The loop goes on to its next select.
Continue(c) ==
  /\ step' = [step EXCEPT ![c] = "select"]
  /\ msg' = [msg EXCEPT ![c] = Nil]

\* d.Ack(false), whose error is ignored: on a lost connection it does nothing.
Ack(c) ==
  /\ step[c] = "ack"
  /\ acked' = acked \cup AckOne(c)
  /\ inbox' = [inbox EXCEPT ![c] = @ \ AckOne(c)]
  /\ Continue(c)
  /\ UNCHANGED link
  /\ UNCHANGED <<durable, bound, holder, ready, stuck, lost, handled, requeued>>

\* Mutants: Nack(false, false), which drops the message, and a broker that takes
\* a Nack from a connection that no longer has the message.
Discard(c) == {}
RequeueBlindly(c) == {msg[c]}
Requeue(c) == {msg[c]} \cap inbox[c]

\* d.Nack(false, true), whose error is ignored.
Nack(c) ==
  /\ step[c] = "nack"
  /\ ready' = ready \cup Requeue(c)
  /\ inbox' = [inbox EXCEPT ![c] = @ \ {msg[c]}]
  /\ Continue(c)
  /\ UNCHANGED link
  /\ UNCHANGED <<durable, bound, holder, stuck, acked, lost, handled, requeued>>

-----------------------------------------------------------------------------
\* The connection of c ends: a queue of its own goes with it, otherwise what c
\* was sent is queued again.
Disconnect(c) ==
  LET sent == inbox[c] \cup stuck[c] IN
    /\ channel[c] # "lost"
    /\ channel' = [channel EXCEPT ![c] = "lost"]
    /\ current' = current \ {c} /\ sub' = sub \ {c} /\ zombie' = zombie \ {c}
    /\ inbox' = [inbox EXCEPT ![c] = {}] /\ stuck' = [stuck EXCEPT ![c] = {}]
    /\ requeued' = requeued \cup sent
    /\ IF holder = c
       THEN /\ bound' = FALSE /\ holder' = Nil
            /\ ready' = {} /\ lost' = lost \cup ready \cup sent
       ELSE /\ ready' = ready \cup sent
            /\ UNCHANGED <<bound, holder, lost>>
    /\ UNCHANGED <<durable, acked, handled>>

\* The connection is lost, or the client is closed and made again; a Consume
\* that runs notices when it looks.
ConnectionLost(c) == Disconnect(c) /\ UNCHANGED <<step, msg>>

\* The process dies and is started again.
Crash(c) ==
  /\ step[c] # "idle"
  /\ step' = [step EXCEPT ![c] = "idle"]
  /\ msg' = [msg EXCEPT ![c] = Nil]
  /\ \/ Disconnect(c)
     \/ channel[c] = "lost" /\ UNCHANGED queue /\ UNCHANGED link /\ UNCHANGED handled

\* The client has connected again.
Reconnect(c) ==
  /\ channel[c] = "lost"
  /\ channel' = [channel EXCEPT ![c] = "up"]
  /\ UNCHANGED queue /\ UNCHANGED <<step, current, sub, zombie, msg, handled>>

ConsumerLoop(c) ==
  \/ Consume(c) \/ QueueDeclare(c) \/ QueueBind(c) \/ Subscribe(c)
  \/ SetupFails(c) \/ DeclareLocked(c)
  \/ \E m \in Message : Deliver(c, m) \/ Take(c, m)
  \/ DeliveriesClosed(c) \/ HandlerOK(c) \/ Ack(c) \/ Nack(c)
Fault(c) == ContextDone(c) \/ HandlerFails(c) \/ ConnectionLost(c) \/ Crash(c)
Progress == \/ \E m \in Message : Arrive(m)
            \/ \E c \in Consumer : ConsumerLoop(c) \/ Reconnect(c)

ConsumerNext == Progress \/ \E c \in Consumer : Fault(c)

ConsumerSpec == ConsumerInit /\ [][ConsumerNext]_consumervars

\* Faults come to an end, clients reconnect, and the replicas call Consume again
\* and again.
ConsumerFairSpec ==
  /\ ConsumerSpec
  /\ <>[][Progress]_consumervars
  /\ \A c \in Consumer : WF_consumervars(ConsumerLoop(c)) /\ WF_consumervars(Reconnect(c))

-----------------------------------------------------------------------------
ConsumerTypeOK ==
  /\ durable \in BOOLEAN
  /\ step \in [Consumer -> Setup \cup {"idle", "select", "handler", "ack", "nack"}]
  /\ channel \in [Consumer -> {"up", "closed", "lost"}]
  /\ current \in SUBSET Consumer /\ sub \in SUBSET Consumer /\ zombie \in SUBSET Consumer
  /\ msg \in [Consumer -> Message \cup {Nil}]
  /\ bound \in BOOLEAN /\ holder \in Consumer \cup {Nil}
  /\ ready \in SUBSET Message /\ acked \in SUBSET Message
  /\ lost \in SUBSET Message /\ requeued \in SUBSET Message
  /\ inbox \in [Consumer -> SUBSET Message] /\ stuck \in [Consumer -> SUBSET Message]
  /\ handled \in [Message -> 0..2]
  /\ \A c \in Consumer : (ready \cup acked \cup lost) \cap (inbox[c] \cup stuck[c]) = {}

\* A message is handled twice only if a connection was lost that had it.
DuplicateNeedsLoss == \A m \in Message : handled[m] > 1 => m \in requeued

\* A message is acknowledged only when a handler has succeeded with it, whatever
\* was lost, cancelled or handed to another replica (rabbitmq.go:181-194).
Promise == INSTANCE AtLeastOnce WITH
  done <- {m \in Message : handled[m] > 0},
  settled <- acked
ImplementsAtLeastOnce == Promise!Spec

\* A message in the queue is acknowledged at last, unless the message goes to the
\* subscription that a cancelled Consume has left behind, where nobody reads it, or
\* goes down with a queue that is not durable and exclusive to a connection
\* (rabbitmq.go:162-166, 181-182).
Delivered ==
  \A m \in Message :
    (m \in ready) ~> (\/ m \in acked \/ (~durable /\ m \in lost)
                      \/ \E c \in Consumer : m \in stuck[c])
=============================================================================
