--------------------------- MODULE RabbitMQClient ---------------------------
(***************************************************************************)
(* The reconnecting client of messaging/rabbitmq/rabbitmq.go: New and its  *)
(* connect, the goroutine reconnectLoop, Close and Publish.  The library   *)
(* amqp091-go and the broker are modelled from how the code uses them:     *)
(* NotifyClose delivers an error when a connection is lost, nil when this  *)
(* side closes it, and nil at once when it is already closed.              *)
(*                                                                         *)
(* c.conn and c.ch are always assigned together, so "cur" stands for both. *)
(* A connection nobody refers to any more is used again for a later Dial.  *)
(***************************************************************************)
EXTENDS FiniteSets

CONSTANTS
  Conn,          \* connections
  None,          \* no connection
  Publisher      \* goroutines that call Publish

ASSUME ClientConstants == None \notin Conn

VARIABLES
  pc,      \* reconnectLoop, and the connect that New calls before it starts
  open,    \* the connections that are open on both sides
  chans,   \* those of them whose channel is open
  mine,    \* the connection that connect is setting up
  cur,     \* c.conn and c.ch
  watch,   \* the connection reconnectLoop waits for
  notify,  \* what its NotifyClose channel holds
  up,      \* New has returned the client
  closing, \* Close: "no", "called", "locked", "channel", "done"
  pub,     \* per publisher: where its Publish stands or how it ended
  use,     \* per publisher: the channel Publish read from the client
  down,    \* history: publishers in a Publish during which Check would have failed
  excepted,\* history: open connections whose channel the broker has closed
  found    \* history: where Close found the loop when it was called

vars == <<pc, open, chans, mine, cur, watch, notify, up, closing, pub, use, down,
          excepted, found>>
amqp == <<open, chans, notify>>
publish == <<pub, use>>

-----------------------------------------------------------------------------
Connecting == {"dial", "channel", "declare", "store"}
Loop == {"idle", "load", "register", "wait", "delay", "stopped"} \cup Connecting

\* close(c.closeCh) is the first thing Close does.
Closed == closing # "no"

\* Close holds c.mu from its Lock until it returns; every other critical
\* section is short and is one step.
MuFree == closing \notin {"locked", "channel"}

\* What Check reports: it looks at the connection only, not at the channel.
Down == cur \notin open

Init ==
  /\ pc = "idle"
  /\ open = {} /\ chans = {}
  /\ mine = None /\ cur = None /\ watch = None /\ notify = "none"
  /\ up = FALSE /\ closing = "no" /\ found = "idle"
  /\ pub = [p \in Publisher |-> "idle"] /\ use = [p \in Publisher |-> None]
  /\ down = {} /\ excepted = {}

\* New calls connect.
New ==
  /\ pc = "idle"
  /\ pc' = "dial"
  /\ UNCHANGED amqp /\ UNCHANGED publish
  /\ UNCHANGED <<mine, cur, watch, up, closing, found>>

Unused == {k \in Conn \ (open \cup {mine, cur, watch}) :
              \A p \in Publisher : use[p] # k}

DialOK ==
  /\ pc = "dial"
  /\ \E k \in Unused :
       /\ open' = open \cup {k}
       /\ mine' = k
  /\ pc' = "channel"
  /\ UNCHANGED publish
  /\ UNCHANGED <<chans, notify, cur, watch, up, closing, found>>

ChannelOK ==
  /\ pc = "channel" /\ mine \in open
  /\ chans' = chans \cup {mine}
  /\ pc' = "declare"
  /\ UNCHANGED publish
  /\ UNCHANGED <<open, notify, mine, cur, watch, up, closing, found>>

DeclareOK ==
  /\ pc = "declare" /\ mine \in chans
  /\ pc' = "store"
  /\ UNCHANGED amqp /\ UNCHANGED publish
  /\ UNCHANGED <<mine, cur, watch, up, closing, found>>

\* Mutant: connect returns without closing what it had opened.
KeepOpen(k) == UNCHANGED <<open, chans>>
CloseBoth(k) == open' = open \ {k} /\ chans' = chans \ {k}

\* Mutant: the loop ends when it could not reconnect.
GiveUpAfterFailure == IF up THEN "stopped" ELSE "idle"
AfterFailure == IF up THEN "delay" ELSE "idle"

\* Dial, Channel or ExchangeDeclare fails; connect closes what it has opened
\* and returns the error, to New or to the loop.
ConnectFails ==
  /\ pc \in {"dial", "channel", "declare"}
  /\ CloseBoth(mine)
  /\ mine' = None
  /\ pc' = AfterFailure
  /\ UNCHANGED publish
  /\ UNCHANGED <<notify, cur, watch, up, closing, found>>

\* connect publishes the connection under c.mu and returns nil.
Store ==
  /\ pc = "store" /\ MuFree
  /\ cur' = mine /\ mine' = None
  /\ up' = TRUE
  /\ pc' = "load"
  /\ UNCHANGED amqp /\ UNCHANGED publish
  /\ UNCHANGED <<watch, closing, found>>

\* The loop reads c.conn under c.mu.
Load ==
  /\ pc = "load" /\ MuFree
  /\ watch' = cur
  /\ pc' = "register"
  /\ UNCHANGED amqp /\ UNCHANGED publish
  /\ UNCHANGED <<mine, cur, up, closing, found>>

\* conn.NotifyClose(make(chan *amqp.Error, 1))
Register ==
  /\ pc = "register"
  /\ notify' = IF watch \in open THEN "armed" ELSE "nil"
  /\ pc' = "wait"
  /\ UNCHANGED publish
  /\ UNCHANGED <<open, chans, mine, cur, watch, up, closing, found>>

\* Mutant: only the inner select looks at closeCh.
StopsInDelay == {"delay"}
StopsIn == {"wait", "delay"}

\* <-c.closeCh is chosen, in either select.
Stop ==
  /\ pc \in StopsIn /\ Closed
  /\ pc' = "stopped"
  /\ UNCHANGED amqp /\ UNCHANGED publish
  /\ UNCHANGED <<mine, cur, watch, up, closing, found>>

LossOnly(err) == err = "error"

\* <-notifyClose is chosen: an error is a loss, nil ends the loop.
Wake ==
  /\ pc = "wait" /\ notify \in {"error", "nil"}
  /\ pc' = IF LossOnly(notify) THEN "delay" ELSE "stopped"
  /\ UNCHANGED amqp /\ UNCHANGED publish
  /\ UNCHANGED <<mine, cur, watch, up, closing, found>>

\* time.After fires first: the delay is far longer than a select, so closeCh
\* wins when it was closed before.
Timer ==
  /\ pc = "delay" /\ ~Closed
  /\ pc' = "dial"
  /\ UNCHANGED amqp /\ UNCHANGED publish
  /\ UNCHANGED <<mine, cur, watch, up, closing, found>>

-----------------------------------------------------------------------------
\* The broker, or the network, drops connection k; the library notices.
Lose(k) ==
  /\ k \in open
  /\ open' = open \ {k} /\ chans' = chans \ {k}
  /\ notify' = IF k = watch /\ notify = "armed" THEN "error" ELSE notify
  /\ UNCHANGED publish
  /\ UNCHANGED <<pc, mine, cur, watch, up, closing, found>>

\* A channel exception: the broker closes the channel of k and nothing else.
ChannelException(k) ==
  /\ k \in chans
  /\ chans' = chans \ {k}
  /\ UNCHANGED publish
  /\ UNCHANGED <<pc, open, notify, mine, cur, watch, up, closing, found>>

\* Close: close(c.closeCh); a second call would panic.
CloseCall ==
  /\ up /\ closing = "no"
  /\ closing' = "called"
  /\ found' = pc
  /\ UNCHANGED amqp /\ UNCHANGED publish
  /\ UNCHANGED <<pc, mine, cur, watch, up>>

\* c.mu.Lock()
CloseLock ==
  /\ closing = "called"
  /\ closing' = "locked"
  /\ UNCHANGED amqp /\ UNCHANGED publish
  /\ UNCHANGED <<pc, mine, cur, watch, up, found>>

\* c.ch.Close()
CloseChannel ==
  /\ closing = "locked"
  /\ closing' = "channel"
  /\ chans' = chans \ {cur}
  /\ UNCHANGED publish
  /\ UNCHANGED <<pc, open, notify, mine, cur, watch, up, found>>

\* Mutant: Close leaves the connection to the garbage collector.
CloseNothing(k) == UNCHANGED open
CloseLink(k) == open' = open \ {k}

\* c.conn.Close(), and Close returns.
CloseConn ==
  /\ closing = "channel"
  /\ closing' = "done"
  /\ CloseLink(cur)
  /\ notify' = IF cur = watch /\ notify = "armed" THEN "nil" ELSE notify
  /\ UNCHANGED publish
  /\ UNCHANGED <<pc, chans, mine, cur, watch, up, found>>

-----------------------------------------------------------------------------
\* Mutant: a publisher keeps the channel it used before.
CachedChannel(p) == IF use[p] # None THEN use[p] ELSE cur
ChannelFor(p) == cur

\* Publish reads c.ch under c.mu.
PublishRead(p) ==
  /\ up /\ MuFree /\ pub[p] # "read"
  /\ pub' = [pub EXCEPT ![p] = "read"]
  /\ use' = [use EXCEPT ![p] = ChannelFor(p)]
  /\ UNCHANGED amqp
  /\ UNCHANGED <<pc, mine, cur, watch, up, closing, found>>

\* PublishWithContext on that channel, which the client may have replaced.
PublishSend(p) ==
  /\ pub[p] = "read"
  /\ pub' = [pub EXCEPT ![p] = IF use[p] \in chans THEN "sent" ELSE "failed"]
  /\ UNCHANGED amqp
  /\ UNCHANGED <<pc, mine, cur, watch, up, closing, use, found>>

\* The histories: whether Check would have failed at some time of a Publish, and which
\* open connections have lost their channel to the broker.
Track ==
  /\ down' = {p \in Publisher : pub'[p] = "read" /\ (Down' \/ p \in down)}
  /\ excepted' = open' \cap (excepted \cup {k \in Conn : ChannelException(k)})

Connect == New \/ DialOK \/ ChannelOK \/ DeclareOK \/ ConnectFails \/ Store
ReconnectLoop == Load \/ Register \/ Stop \/ Wake \/ Timer
Broker == \E k \in Conn : Lose(k) \/ ChannelException(k)
Close == CloseCall \/ CloseLock \/ CloseChannel \/ CloseConn
Publish == \E p \in Publisher : PublishRead(p) \/ PublishSend(p)

Next == (Connect \/ ReconnectLoop \/ Broker \/ Close \/ Publish) /\ Track

Spec == Init /\ [][Next]_vars

\* The goroutines run, and a broker that is asked again and again answers.
FairSpec ==
  /\ Spec
  /\ WF_vars((Store \/ ConnectFails \/ ReconnectLoop) /\ Track)
  /\ WF_vars((CloseLock \/ CloseChannel \/ CloseConn) /\ Track)
  /\ SF_vars(DialOK /\ Track) /\ SF_vars(ChannelOK /\ Track) /\ SF_vars(DeclareOK /\ Track)

-----------------------------------------------------------------------------
TypeOK ==
  /\ pc \in Loop /\ found \in Loop
  /\ open \in SUBSET Conn /\ chans \in SUBSET open
  /\ mine \in Conn \cup {None} /\ cur \in Conn \cup {None} /\ watch \in Conn \cup {None}
  /\ notify \in {"none", "armed", "error", "nil"}
  /\ up \in BOOLEAN
  /\ closing \in {"no", "called", "locked", "channel", "done"}
  /\ pub \in [Publisher -> {"idle", "read", "sent", "failed"}]
  /\ use \in [Publisher -> Conn \cup {None}]
  /\ down \in SUBSET Publisher /\ excepted \in SUBSET open

\* However often it reconnects, the client never has two connections: every
\* error path of connect closes its own, and the loop dials only after a loss.
AtMostOneOpen == \A j, k \in open : j = k

\* Publish fails only if Check would have failed at some time of the call, or the broker
\* has closed the channel, or the client is being closed: a reconnect never takes a
\* working channel from under a publisher (rabbitmq.go:71-73,106-114,132-138).
FailedPublishSawLoss ==
  [][\A p \in Publisher :
       pub[p] = "read" /\ pub'[p] = "failed" =>
         p \in down \/ use[p] \in excepted \/ Closed]_vars

\* A connection outlives Close only if connect was under way when Close was
\* called (rabbitmq.go:71-73 stores it without a look at closeCh).
LeakNeedsRace == closing = "done" /\ pc = "stopped" /\ open # {} => found \in Connecting

\* Close returns and the loop ends, whatever the loop was doing and whatever was
\* lost: neither holds c.mu for good, and every wait of the loop hears closeCh.
CloseEnds == Closed ~> (closing = "done" /\ pc = "stopped")

\* The client "reconnects on connection loss until Close is called"
\* (rabbitmq.go:36-38), however often that fails, unless the loop asked for the end
\* of a connection only when that was over: NotifyClose then yields nil, which the
\* loop takes for Close (rabbitmq.go:83-91).
ReconnectsUnlessMissed ==
  (up /\ cur \notin open) ~> (cur \in open \/ Closed \/ notify = "nil")
=============================================================================
