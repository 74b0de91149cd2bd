---------------------------- MODULE RabbitMQProofs ----------------------------
(***************************************************************************)
(* Theorems about messaging/rabbitmq/rabbitmq.go: first the reconnecting   *)
(* client (RabbitMQClient) for any number of connections and publishers    *)
(* and for every fault of the broker, then Consume (RabbitMQConsumer) for  *)
(* any number of replicas and messages.                                    *)
(***************************************************************************)
EXTENDS RabbitMQClient, RabbitMQConsumer, Naturals, TLAPS

\* connect owns a connection exactly while it sets one up.
OwnsMine == mine # None <=> pc \in {"channel", "declare", "store"}

\* Nothing is open but what the client has stored or is setting up.
OnlyKnown == \A k \in open : k = cur \/ k = mine

\* The loop connects only when the stored connection is gone.
ConnectsWhenLost == pc \in Connecting \cup {"delay", "idle"} => cur \notin open

\* The loop waits for the stored connection.
WaitsForCurrent ==
  /\ pc \in {"register", "wait"} => watch = cur
  /\ pc = "wait" /\ notify = "error" => cur \notin open

\* The client exists from the first stored connection on, and is then not new.
UpAfterStore == /\ up <=> cur # None
                /\ up => pc # "idle"
                /\ Closed => up

\* After Close nothing new is opened unless connect was under way.
ClosedUnlessRaced ==
  Closed /\ found \notin Connecting =>
    /\ pc \notin Connecting
    /\ closing = "done" => open = {}

\* Close closes the channel before the connection.
ChannelFirst == closing = "channel" => cur \notin chans

\* A channel on an open connection is open, or the broker or Close has closed it.
ChannelsExplained ==
  /\ cur \in open => cur \in chans \cup excepted \/ Closed
  /\ pc \in {"declare", "store"} /\ mine \in open => mine \in chans \cup excepted

\* A publisher to whom Check never failed holds the channel that the client has.
PublisherCurrent ==
  \A p \in Publisher : pub[p] = "read" /\ p \notin down => use[p] = cur /\ cur \in open

LoopInv == /\ TypeOK /\ OwnsMine /\ OnlyKnown /\ ConnectsWhenLost
           /\ WaitsForCurrent /\ UpAfterStore /\ ClosedUnlessRaced
           /\ ChannelFirst

IInv == LoopInv /\ ChannelsExplained /\ PublisherCurrent

LEMMA InitIInv == Init => IInv
  BY ClientConstants
     DEF Init, IInv, LoopInv, TypeOK, OwnsMine, OnlyKnown, ConnectsWhenLost, WaitsForCurrent,
         UpAfterStore, ClosedUnlessRaced, ChannelFirst, ChannelsExplained, PublisherCurrent,
         Connecting, Loop, Closed

\* Every step of the client, the loop and the broker preserves the invariant.
LEMMA NextLoopInv == ASSUME LoopInv, Next PROVE LoopInv'
<1> USE ClientConstants
        DEF LoopInv, TypeOK, OwnsMine, OnlyKnown, ConnectsWhenLost, WaitsForCurrent,
            UpAfterStore, ClosedUnlessRaced, ChannelFirst, Connecting, Loop, Closed, amqp, publish
<1>0. down' \in SUBSET Publisher /\ excepted' \in SUBSET open'
  BY DEF Next, Track
<1>1. CASE New
  BY <1>0, <1>1 DEF New
<1>2. CASE DialOK
  BY <1>0, <1>2 DEF DialOK, Unused
<1>3. CASE ChannelOK
  BY <1>0, <1>3 DEF ChannelOK
<1>4. CASE DeclareOK
  BY <1>0, <1>4 DEF DeclareOK
<1>5. CASE ConnectFails
  BY <1>0, <1>5 DEF ConnectFails, CloseBoth, AfterFailure
<1>6. CASE Store
  <2>1. /\ pc = "store" /\ pc' = "load" /\ cur' = mine /\ mine' = None /\ up' = TRUE
        /\ UNCHANGED <<open, chans, watch, notify, closing, pub, use, found>>
        /\ closing # "channel"
    BY <1>6 DEF Store, MuFree
  <2>2. mine \in Conn /\ (Closed => found \in Connecting)
    BY <2>1
  <2> QED
    BY <1>0, <2>1, <2>2
<1>7. CASE Load
  BY <1>0, <1>7 DEF Load
<1>8. CASE Register
  BY <1>0, <1>8 DEF Register
<1>9. CASE Stop
  BY <1>0, <1>9 DEF Stop, StopsIn
<1>10. CASE Wake
  BY <1>0, <1>10 DEF Wake, LossOnly
<1>11. CASE Timer
  BY <1>0, <1>11 DEF Timer
<1>12. ASSUME NEW k \in Conn, Lose(k) PROVE LoopInv'
  BY <1>0, <1>12 DEF Lose
<1>13. ASSUME NEW k \in Conn, ChannelException(k) PROVE LoopInv'
  BY <1>0, <1>13 DEF ChannelException
<1>14. CASE CloseCall
  BY <1>0, <1>14 DEF CloseCall
<1>15. CASE CloseLock
  BY <1>0, <1>15 DEF CloseLock
<1>16. CASE CloseChannel
  BY <1>0, <1>16 DEF CloseChannel
<1>17. CASE CloseConn
  <2>1. Closed /\ Closed' /\ closing' = "done" /\ open' = open \ {cur}
        /\ UNCHANGED <<pc, chans, mine, cur, watch, up, found, pub, use>>
    BY <1>17 DEF CloseConn, CloseLink
  <2>2. notify' \in {"none", "armed", "error", "nil"} /\ (notify' = "error" => notify = "error")
    BY <1>17 DEF CloseConn
  <2>3. ASSUME found \notin Connecting PROVE open' = {}
    <3>1. pc \notin Connecting
      BY <2>1, <2>3
    <3>2. mine = None
      BY <3>1
    <3> QED
      BY <2>1, <3>2
  <2>4. chans' \in SUBSET open'
    BY <1>17, <2>1 DEF CloseConn
  <2> QED
    BY <1>0, <2>1, <2>2, <2>3, <2>4
<1>18. ASSUME NEW p \in Publisher, PublishRead(p) PROVE LoopInv'
  BY <1>0, <1>18 DEF PublishRead, ChannelFor
<1>19. ASSUME NEW p \in Publisher, PublishSend(p) PROVE LoopInv'
  BY <1>0, <1>19 DEF PublishSend
<1> QED
  BY <1>1, <1>2, <1>3, <1>4, <1>5, <1>6, <1>7, <1>8, <1>9, <1>10, <1>11, <1>12,
     <1>13, <1>14, <1>15, <1>16, <1>17, <1>18, <1>19
     DEF Next, Connect, ReconnectLoop, Broker, Close, Publish

\* No step closes a channel and leaves its connection open but that of the broker, which
\* is tracked, and that of Close.
LEMMA NextChannelsExplained == ASSUME IInv, Next PROVE ChannelsExplained'
<1> USE ClientConstants DEF IInv, LoopInv, TypeOK, ChannelsExplained, Closed, amqp
<1>1. excepted' = open' \cap (excepted \cup {k \in Conn : ChannelException(k)})
  BY DEF Next, Track
<1>2. CASE New \/ DialOK \/ ChannelOK \/ DeclareOK
  BY <1>1, <1>2 DEF New, DialOK, Unused, ChannelOK, DeclareOK, OwnsMine
<1>3. CASE ConnectFails
  BY <1>1, <1>3 DEF ConnectFails, CloseBoth, AfterFailure, ConnectsWhenLost, Connecting
<1>4. CASE Store
  BY <1>1, <1>4 DEF Store
<1>5. CASE ReconnectLoop
  BY <1>1, <1>5 DEF ReconnectLoop, Load, Register, Stop, Wake, Timer
<1>6. ASSUME NEW k \in Conn, Lose(k) PROVE ChannelsExplained'
  BY <1>1, <1>6 DEF Lose
<1>7. ASSUME NEW k \in Conn, ChannelException(k) PROVE ChannelsExplained'
  <2>1. k \in excepted'
    BY <1>1, <1>7 DEF ChannelException
  <2> QED
    BY <1>1, <1>7, <2>1 DEF ChannelException
<1>8. CASE Close
  <2>1. Closed'
    BY <1>8 DEF Close, CloseCall, CloseLock, CloseChannel, CloseConn
  <2>2. pc' = pc /\ mine' = mine /\ (mine \in open' => mine \in open)
    BY <1>8 DEF Close, CloseCall, CloseLock, CloseChannel, CloseConn, CloseLink
  <2>3. pc \in {"declare", "store"} /\ mine \in chans => mine \in chans'
    BY <1>8 DEF Close, CloseCall, CloseLock, CloseChannel, CloseConn, ConnectsWhenLost, Connecting
  <2> QED
    BY <1>1, <2>1, <2>2, <2>3
<1>9. CASE Publish
  BY <1>1, <1>9 DEF Publish, PublishRead, PublishSend
<1> QED
  BY <1>2, <1>3, <1>4, <1>5, <1>6, <1>7, <1>8, <1>9 DEF Next, Connect, Broker

\* Every step preserves what a publisher may rely on.
LEMMA NextPublisherCurrent == ASSUME IInv, Next PROVE PublisherCurrent'
<1> SUFFICES ASSUME NEW p \in Publisher, pub'[p] = "read", p \notin down'
             PROVE  use'[p] = cur' /\ cur' \in open'
  BY DEF PublisherCurrent
<1>1. cur' \in open' /\ p \notin down
  BY DEF Next, Track, Down
<1>2. pub \in [Publisher -> {"idle", "read", "sent", "failed"}]
      /\ use \in [Publisher -> Conn \cup {None}]
  BY DEF IInv, LoopInv, TypeOK
<1>3. pub[p] = "read" => use[p] = cur /\ cur \in open
  BY <1>1 DEF IInv, PublisherCurrent
<1>4. CASE UNCHANGED publish
  <2>1. use'[p] = cur /\ cur \in open
    BY <1>3, <1>4 DEF publish
  <2>2. ~Store
    BY <2>1 DEF Store, IInv, LoopInv, ConnectsWhenLost, Connecting
  <2>3. cur' = cur
    BY <1>4, <2>2 DEF Next, Connect, ReconnectLoop, Broker, Close, Publish, New, DialOK, ChannelOK,
       DeclareOK, ConnectFails, Load, Register, Stop, Wake, Timer, Lose, ChannelException,
       CloseCall, CloseLock, CloseChannel, CloseConn, PublishRead, PublishSend
  <2> QED
    BY <1>1, <2>1, <2>3
<1>5. ASSUME NEW q \in Publisher, PublishRead(q) \/ PublishSend(q)
      PROVE  use'[p] = cur' /\ cur' \in open'
  <2>1. cur' = cur
    BY <1>5 DEF PublishRead, PublishSend
  <2>2. CASE q = p
    BY <1>1, <1>2, <1>5, <2>1, <2>2 DEF PublishRead, PublishSend, ChannelFor
  <2>3. CASE q # p
    BY <1>1, <1>2, <1>3, <1>5, <2>1, <2>3 DEF PublishRead, PublishSend
  <2> QED
    BY <2>2, <2>3
<1> QED
  BY <1>4, <1>5 DEF Next, Connect, ReconnectLoop, Broker, Close, Publish, New, DialOK, ChannelOK,
     DeclareOK, ConnectFails, Store, Load, Register, Stop, Wake, Timer, Lose, ChannelException,
     CloseCall, CloseLock, CloseChannel, CloseConn

LEMMA Invariance == Spec => []IInv
<1>1. IInv /\ Next => IInv'
  BY NextLoopInv, NextChannelsExplained, NextPublisherCurrent DEF IInv
<1>2. IInv /\ UNCHANGED vars => IInv'
  BY DEF vars, IInv, LoopInv, TypeOK, OwnsMine, OnlyKnown, ConnectsWhenLost, WaitsForCurrent,
         UpAfterStore, ClosedUnlessRaced, ChannelFirst, ChannelsExplained, PublisherCurrent,
         Connecting, Loop, Closed
<1> QED
  BY InitIInv, <1>1, <1>2, PTL DEF Spec

-----------------------------------------------------------------------------
\* Type correctness of the client (rabbitmq.go:36-145).
THEOREM TypeCorrect == Spec => []TypeOK
  BY Invariance, PTL DEF IInv, LoopInv

\* The client never has two open connections, however often it reconnects and
\* wherever connect fails.
THEOREM SingleConnection == Spec => []AtMostOneOpen
<1>1. IInv => AtMostOneOpen
  BY ClientConstants DEF IInv, LoopInv, TypeOK, OwnsMine, OnlyKnown, ConnectsWhenLost, Connecting, AtMostOneOpen
<1> QED
  BY <1>1, Invariance, PTL

\* A Publish fails only if Check would have failed during it, or the broker has closed the
\* channel, or the client is being closed; no reconnect takes a working channel away.
THEOREM PublishFailsOnLoss == Spec => FailedPublishSawLoss
<1>1. IInv /\ [Next]_vars =>
        [\A p \in Publisher :
           pub[p] = "read" /\ pub'[p] = "failed" =>
             p \in down \/ use[p] \in excepted \/ Closed]_vars
  <2> SUFFICES ASSUME IInv, Next, NEW p \in Publisher, pub[p] = "read", pub'[p] = "failed",
                      p \notin down
               PROVE  use[p] \in excepted \/ Closed
    BY DEF vars
  <2>1. pub \in [Publisher -> {"idle", "read", "sent", "failed"}]
    BY DEF IInv, LoopInv, TypeOK
  <2>2. ASSUME NEW q \in Publisher, PublishRead(q) \/ PublishSend(q)
        PROVE  use[p] \notin chans
    BY <2>1, <2>2 DEF PublishRead, PublishSend
  <2>3. use[p] \notin chans
    BY <2>2 DEF Next, Connect, ReconnectLoop, Broker, Close, Publish, New, DialOK, ChannelOK,
       DeclareOK, ConnectFails, Store, Load, Register, Stop, Wake, Timer, Lose,
       ChannelException, CloseCall, CloseLock, CloseChannel, CloseConn, publish
  <2>4. use[p] = cur /\ cur \in open
    BY DEF IInv, PublisherCurrent
  <2> QED
    BY <2>3, <2>4 DEF IInv, ChannelsExplained
<1> QED
  BY <1>1, Invariance, PTL DEF Spec, FailedPublishSawLoss

\* Only a connect that was under way when Close was called leaves a connection.
THEOREM LeakOnlyByRace == Spec => []LeakNeedsRace
<1>1. IInv => LeakNeedsRace
  BY DEF IInv, LoopInv, ClosedUnlessRaced, Closed, LeakNeedsRace
<1> QED
  BY <1>1, Invariance, PTL

-----------------------------------------------------------------------------
(***************************************************************************)
(* Consume.  The replicas share nothing with the client above.             *)
(***************************************************************************)
\* What the connection of c was sent and has not acknowledged.
Sent(c) == inbox[c] \cup stuck[c]

\* No message is in two places.
OnePlace ==
  /\ ready \cap (acked \cup lost) = {}
  /\ \A c \in Consumer : inbox[c] \cap stuck[c] = {}
  /\ \A c, d \in Consumer : c # d => Sent(c) \cap Sent(d) = {}

\* On a lost connection nobody is sent anything.
LostHasNothing ==
  \A c \in Consumer : channel[c] = "lost" => c \notin current \cup sub /\ inbox[c] = {}

\* A replica works on a message that it still holds, unless its connection was
\* lost; then the message is in the queue again, or another replica has it.
WorksOn ==
  \A c \in Consumer : step[c] \in {"handler", "ack", "nack"} =>
    /\ msg[c] \in Message /\ Places(msg[c])
    /\ step[c] = "ack" => handled[msg[c]] > 0
    /\ msg[c] \notin requeued => msg[c] \in inbox[c]

\* A message is acknowledged only when a handler has succeeded with it.
AckedDone == \A m \in acked : handled[m] > 0

\* What was handled and never queued again was handled once, and only the replica
\* that is about to acknowledge it has it.
OnceDone ==
  \A m \in Message : handled[m] > 0 =>
    /\ Places(m)
    /\ m \notin requeued =>
         /\ handled[m] = 1 /\ m \notin ready
         /\ \A c \in Consumer :
              m \notin stuck[c] /\ (m \in inbox[c] => step[c] = "ack" /\ msg[c] = m)

QueueInv == ConsumerTypeOK /\ OnePlace /\ LostHasNothing
WorkInv == WorksOn /\ AckedDone /\ OnceDone
ConsumerInv == QueueInv /\ WorkInv

\* The replicas start so.
LEMMA InitConsumer == ConsumerInit => ConsumerInv
<1> SUFFICES ASSUME ConsumerInit PROVE ConsumerInv
  OBVIOUS
<1>1. ConsumerTypeOK
  <2>1. \A c \in Consumer : (ready \cup acked \cup lost) \cap (inbox[c] \cup stuck[c]) = {}
    BY DEF ConsumerInit
  <2>2. handled \in [Message -> 0..2] /\ inbox \in [Consumer -> SUBSET Message]
        /\ stuck \in [Consumer -> SUBSET Message]
    BY DEF ConsumerInit
  <2> QED
    BY <2>1, <2>2 DEF ConsumerInit, ConsumerTypeOK, Setup
<1>2. OnePlace /\ LostHasNothing
  BY DEF ConsumerInit, OnePlace, Sent, LostHasNothing
<1>3. WorkInv
  BY DEF ConsumerInit, WorkInv, WorksOn, AckedDone, OnceDone
<1> QED
  BY <1>1, <1>2, <1>3 DEF ConsumerInv, QueueInv

\* Every step of a replica or of the broker keeps each message in one place.
LEMMA NextQueue == ASSUME QueueInv, ConsumerNext PROVE QueueInv'
<1> USE DEF QueueInv, ConsumerTypeOK, Setup, OnePlace, Sent, LostHasNothing, queue, link
<1>1. ASSUME NEW m \in Message, Arrive(m) PROVE QueueInv'
  BY <1>1 DEF Arrive, Places
<1>2. ASSUME NEW c \in Consumer, Consume(c) PROVE QueueInv'
  BY <1>2 DEF Consume
<1>3. ASSUME NEW c \in Consumer, QueueDeclare(c) PROVE QueueInv'
  BY <1>3 DEF QueueDeclare
<1>4. ASSUME NEW c \in Consumer, QueueBind(c) PROVE QueueInv'
  BY <1>4 DEF QueueBind
<1>5. ASSUME NEW c \in Consumer, Subscribe(c) PROVE QueueInv'
  BY <1>5 DEF Subscribe
<1>6. ASSUME NEW c \in Consumer, SetupFails(c) PROVE QueueInv'
  BY <1>6 DEF SetupFails
<1>7. ASSUME NEW c \in Consumer, DeclareLocked(c) PROVE QueueInv'
  BY <1>7 DEF DeclareLocked
<1>8. ASSUME NEW c \in Consumer, NEW m \in Message, Deliver(c, m) PROVE QueueInv'
  BY <1>8 DEF Deliver
<1>9. ASSUME NEW c \in Consumer, NEW m \in Message, Take(c, m) PROVE QueueInv'
  BY <1>9 DEF Take
<1>10. ASSUME NEW c \in Consumer, ContextDone(c) PROVE QueueInv'
  BY <1>10 DEF ContextDone
<1>11. ASSUME NEW c \in Consumer, DeliveriesClosed(c) PROVE QueueInv'
  BY <1>11 DEF DeliveriesClosed
<1>12. ASSUME NEW c \in Consumer, HandlerFails(c) PROVE QueueInv'
  BY <1>12 DEF HandlerFails, AfterError
<1>13. ASSUME NEW c \in Consumer, HandlerOK(c) PROVE QueueInv'
  <2>1. handled' \in [Message -> 0..2]
    <3>1. handled \in [Message -> 0..2]
      OBVIOUS
    <3>2. handled' = [m \in Message |-> IF m # msg[c] THEN handled[m]
                                        ELSE IF handled[m] < 2 THEN handled[m] + 1 ELSE handled[m]]
      BY <1>13, <3>1 DEF HandlerOK
    <3>3. \A m \in Message : handled[m] \in 0..2 /\ (handled[m] < 2 => handled[m] + 1 \in 0..2)
      BY <3>1
    <3> QED
      BY <3>2, <3>3
  <2>2. /\ step' = [step EXCEPT ![c] = "ack"]
        /\ UNCHANGED <<queue, link, msg>>
    BY <1>13 DEF HandlerOK, AfterOK
  <2>3. ConsumerTypeOK'
    BY <2>1, <2>2
  <2>4. OnePlace'
    BY <2>2
  <2>5. LostHasNothing'
    BY <2>2
  <2> QED
    BY <2>3, <2>4, <2>5
<1>14. ASSUME NEW c \in Consumer, Ack(c) PROVE QueueInv'
  BY <1>14 DEF Ack, AckOne, Continue
<1>15. ASSUME NEW c \in Consumer, Nack(c) PROVE QueueInv'
  BY <1>15 DEF Nack, Requeue, Continue
<1>16. ASSUME NEW c \in Consumer, Disconnect(c),
              msg' \in [Consumer -> Message \cup {Nil}],
              step' \in [Consumer -> Setup \cup
                                    {"idle", "select", "handler", "ack", "nack"}]
       PROVE  QueueInv'
  <2>1. ConsumerTypeOK'
    BY <1>16 DEF Disconnect
  <2>2. OnePlace'
    BY <1>16 DEF Disconnect
  <2>3. LostHasNothing'
    BY <1>16 DEF Disconnect
  <2> QED
    BY <2>1, <2>2, <2>3
<1>17. ASSUME NEW c \in Consumer, Reconnect(c) PROVE QueueInv'
  BY <1>17 DEF Reconnect
<1>18. ASSUME NEW c \in Consumer, ConnectionLost(c) PROVE QueueInv'
  BY <1>16, <1>18 DEF ConnectionLost
<1>19. ASSUME NEW c \in Consumer, Crash(c) PROVE QueueInv'
  BY <1>16, <1>19 DEF Crash
<1> QED
  BY <1>1, <1>2, <1>3, <1>4, <1>5, <1>6, <1>7, <1>8, <1>9, <1>10, <1>11, <1>12,
     <1>13, <1>14, <1>15, <1>17, <1>18, <1>19 DEF ConsumerNext, Progress, ConsumerLoop, Fault

\* The broker never loses sight of a message.
LEMMA PlacesStay == ASSUME ConsumerTypeOK, ConsumerNext, NEW m \in Message, Places(m)
                    PROVE  Places(m)'
<1> USE DEF Places, ConsumerTypeOK, queue
<1>1. CASE UNCHANGED <<ready, inbox, stuck, acked, lost>>
  BY <1>1
<1>2. ASSUME NEW k \in Message, Arrive(k) PROVE Places(m)'
  BY <1>2 DEF Arrive
<1>3. ASSUME NEW c \in Consumer, NEW k \in Message, Deliver(c, k) PROVE Places(m)'
  BY <1>3 DEF Deliver
<1>4. ASSUME NEW c \in Consumer, ContextDone(c) PROVE Places(m)'
  BY <1>4 DEF ContextDone
<1>5. ASSUME NEW c \in Consumer, Ack(c) PROVE Places(m)'
  BY <1>5 DEF Ack, AckOne, Continue
<1>6. ASSUME NEW c \in Consumer, Nack(c) PROVE Places(m)'
  BY <1>6 DEF Nack, Requeue, Continue
<1>7. ASSUME NEW c \in Consumer, Disconnect(c) PROVE Places(m)'
  BY <1>7 DEF Disconnect
<1>8. ConsumerNext =>
        \/ UNCHANGED <<ready, inbox, stuck, acked, lost>>
        \/ \E k \in Message : Arrive(k)
        \/ \E c \in Consumer : \/ \E k \in Message : Deliver(c, k)
                              \/ ContextDone(c) \/ Ack(c) \/ Nack(c) \/ Disconnect(c)
  BY DEF ConsumerNext, Progress, ConsumerLoop, Fault, Consume, QueueDeclare, QueueBind,
         Subscribe, SetupFails, DeclareLocked, Take, DeliveriesClosed, HandlerOK,
         HandlerFails, ConnectionLost, Crash, Reconnect
<1> QED
  BY <1>1, <1>2, <1>3, <1>4, <1>5, <1>6, <1>7, <1>8

\* Every step keeps what is known of the messages that are handled.
LEMMA NextWork == ASSUME ConsumerInv, ConsumerNext PROVE WorkInv'
<1>p. \A m \in Message : Places(m) => Places(m)'
  BY PlacesStay DEF ConsumerInv, QueueInv
<1> USE <1>p DEF ConsumerInv, QueueInv, ConsumerTypeOK, Setup, OnePlace, Sent,
                 LostHasNothing, queue, link, WorkInv, WorksOn, AckedDone, OnceDone
<1>1. ASSUME NEW m \in Message, Arrive(m) PROVE WorkInv'
  BY <1>1 DEF Arrive
<1>2. ASSUME NEW c \in Consumer, Consume(c) PROVE WorkInv'
  BY <1>2 DEF Consume
<1>3. ASSUME NEW c \in Consumer, QueueDeclare(c) PROVE WorkInv'
  BY <1>3 DEF QueueDeclare
<1>4. ASSUME NEW c \in Consumer, QueueBind(c) PROVE WorkInv'
  BY <1>4 DEF QueueBind
<1>5. ASSUME NEW c \in Consumer, Subscribe(c) PROVE WorkInv'
  BY <1>5 DEF Subscribe
<1>6. ASSUME NEW c \in Consumer, SetupFails(c) PROVE WorkInv'
  BY <1>6 DEF SetupFails
<1>7. ASSUME NEW c \in Consumer, DeclareLocked(c) PROVE WorkInv'
  BY <1>7 DEF DeclareLocked
<1>8. ASSUME NEW c \in Consumer, NEW m \in Message, Deliver(c, m) PROVE WorkInv'
  BY <1>8 DEF Deliver
<1>9. ASSUME NEW c \in Consumer, NEW m \in Message, Take(c, m) PROVE WorkInv'
  <2>1. Places(m)
    BY <1>9 DEF Take, Places
  <2> QED
    BY <1>9, <2>1 DEF Take
<1>10. ASSUME NEW c \in Consumer, ContextDone(c) PROVE WorkInv'
  BY <1>10 DEF ContextDone
<1>11. ASSUME NEW c \in Consumer, DeliveriesClosed(c) PROVE WorkInv'
  BY <1>11 DEF DeliveriesClosed
<1>12. ASSUME NEW c \in Consumer, HandlerFails(c) PROVE WorkInv'
  BY <1>12 DEF HandlerFails, AfterError
<1>13. ASSUME NEW c \in Consumer, HandlerOK(c) PROVE WorkInv'
  BY <1>13 DEF HandlerOK, AfterOK
<1>14. ASSUME NEW c \in Consumer, Ack(c) PROVE WorkInv'
  BY <1>14 DEF Ack, AckOne, Continue
<1>15. ASSUME NEW c \in Consumer, Nack(c) PROVE WorkInv'
  BY <1>15 DEF Nack, Requeue, Continue
<1>16. ASSUME NEW c \in Consumer, Disconnect(c),
              \/ UNCHANGED <<step, msg>>
              \/ step' = [step EXCEPT ![c] = "idle"] /\ msg' = [msg EXCEPT ![c] = Nil]
       PROVE  WorkInv'
  BY <1>16 DEF Disconnect
<1>17. ASSUME NEW c \in Consumer, Reconnect(c) PROVE WorkInv'
  BY <1>17 DEF Reconnect
<1>18. ASSUME NEW c \in Consumer, ConnectionLost(c)       PROVE  WorkInv'
  BY <1>16, <1>18 DEF ConnectionLost
<1>19. ASSUME NEW c \in Consumer, Crash(c) PROVE WorkInv'
  <2>1. CASE Disconnect(c)
    BY <1>16, <1>19, <2>1 DEF Crash
  <2>2. CASE ~Disconnect(c)
    BY <1>19, <2>2 DEF Crash
  <2> QED
    BY <2>1, <2>2
<1> QED
  BY <1>1, <1>2, <1>3, <1>4, <1>5, <1>6, <1>7, <1>8, <1>9, <1>10, <1>11, <1>12, <1>13,
     <1>14, <1>15, <1>17, <1>18, <1>19
     DEF ConsumerNext, Progress, ConsumerLoop, Fault

\* The invariant of the replicas holds for every number of them.
LEMMA ConsumerInvariance == ConsumerSpec => []ConsumerInv
<1>1. ConsumerInv /\ ConsumerNext => ConsumerInv'
  BY NextQueue, NextWork DEF ConsumerInv
<1>2. ConsumerInv /\ UNCHANGED consumervars => ConsumerInv'
  BY DEF consumervars, ConsumerInv, QueueInv, ConsumerTypeOK, OnePlace, Sent, LostHasNothing,
         WorkInv, WorksOn, AckedDone, OnceDone, Places
<1> QED
  BY InitConsumer, <1>1, <1>2, PTL DEF ConsumerSpec

-----------------------------------------------------------------------------
\* Type correctness of Consume, and no message both waits in the queue, or is done
\* with, and is with a replica (rabbitmq.go:154-194).
THEOREM ConsumerTypeCorrect == ConsumerSpec => []ConsumerTypeOK
  BY ConsumerInvariance, PTL DEF ConsumerInv, QueueInv

\* However many replicas share the queue, and whatever is cancelled, crashes or
\* fails, a message is handled twice only if a connection was lost that had it
\* (rabbitmq.go:181-194).
THEOREM DuplicatesNeedLoss == ConsumerSpec => []DuplicateNeedsLoss
<1>1. ConsumerInv => DuplicateNeedsLoss
  BY DEF ConsumerInv, QueueInv, ConsumerTypeOK, WorkInv, OnceDone, DuplicateNeedsLoss
<1> QED
  BY <1>1, ConsumerInvariance, PTL

\* HandlerOK is a step Handle of the promise, Ack a step Settle; every other step
\* leaves both sides alone.
LEMMA StepKeepsPromise ==
  ASSUME ConsumerInv, ConsumerInv', [ConsumerNext]_consumervars
  PROVE  [Promise!Next]_<<{m \in Message : handled[m] > 0}, acked>>
<1> DEFINE done == {m \in Message : handled[m] > 0}
<1> USE DEF queue, link
<1>1. ASSUME NEW c \in Consumer, HandlerOK(c) PROVE Promise!Next
  <2>1. msg[c] \in Message /\ handled \in [Message -> 0..2]
    BY <1>1 DEF ConsumerInv, QueueInv, ConsumerTypeOK, WorkInv, WorksOn, HandlerOK
  <2>2. done' = done \cup {msg[c]} /\ UNCHANGED acked
    BY <1>1, <2>1 DEF HandlerOK
  <2> QED
    BY <2>1, <2>2 DEF Promise!Next, Promise!Handle
<1>2. ASSUME NEW c \in Consumer, Ack(c) PROVE Promise!Next
  <2>1. UNCHANGED done /\ acked' \in SUBSET done
    BY <1>2 DEF Ack, ConsumerInv, WorkInv, AckedDone, QueueInv, ConsumerTypeOK
  <2> QED
    BY <2>1 DEF Promise!Next, Promise!Settle
<1>3. CASE UNCHANGED <<handled, acked>>
  BY <1>3
<1>4. ConsumerNext => \/ UNCHANGED <<handled, acked>>
                \/ \E c \in Consumer : HandlerOK(c) \/ Ack(c)
  BY DEF ConsumerNext, Progress, ConsumerLoop, Fault, Arrive, Consume, QueueDeclare,
         QueueBind, Subscribe, SetupFails, DeclareLocked,
         Deliver, Take, ContextDone, DeliveriesClosed, HandlerFails, Nack,
         ConnectionLost, Crash, Disconnect, Reconnect
<1> QED
  BY <1>1, <1>2, <1>3, <1>4 DEF consumervars

\* Consume implements the promise of the consumers: what the broker forgets, a
\* handler has succeeded with (rabbitmq.go:181-194, AtLeastOnce.tla).
THEOREM ConsumerRefinement == ConsumerSpec => ImplementsAtLeastOnce
<1>1. ConsumerInit => Promise!Init
  BY DEF ConsumerInit, Promise!Init
<1> QED
  BY <1>1, ConsumerInvariance, StepKeepsPromise, PTL DEF ConsumerSpec, ImplementsAtLeastOnce,
     Promise!Spec
=============================================================================
