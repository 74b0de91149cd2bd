----------------------------- MODULE NATSProofs -----------------------------
(***************************************************************************)
(* Theorems about NATS for any number of replicas, messages and entries.   *)
(***************************************************************************)
EXTENDS NATS, TLAPS

\* What r has of the stream.
Holds(r) == buf[r] \cup hand[r] \cup acking[r]

\* Until its AckWait runs out an entry is in one place at most.
OneCopy ==
  \A e \in Entry \ expired : \A r \in Replica :
    /\ e \in Holds(r) => e \notin avail
    /\ \A s \in Replica : e \in Holds(r) /\ e \in Holds(s) => r = s
    /\ ~(e \in buf[r] /\ e \in hand[r])

\* A handler works on one entry, an Ack is for what was handled, and what was
\* handled comes back only after its AckWait.
Delivery ==
  /\ \A r \in Replica : (\E e \in Entry : hand[r] = {e}) \/ hand[r] = {}
  /\ \A r \in Replica : acking[r] \subseteq handled
  /\ acked \subseteq handled
  /\ \A e \in handled :
       (e \in avail \/ \E r \in Replica : e \in buf[r] \cup hand[r]) => e \in expired

\* A message is on its way or stored at most once until a PublishJS of it fails.
OnceInLog ==
  /\ \A e, f \in 1..Len(log) : log[e] = log[f] /\ e # f => log[e] \in failed
  /\ \A m \in Message \ failed :
       /\ pub[m] # "error"
       /\ m \in net => pub[m] = "waits"
       /\ m \in net => \A e \in 1..Len(log) : log[e] # m
       /\ pub[m] = "no" => \A e \in 1..Len(log) : log[e] # m

IInv == TypeOK /\ OneCopy /\ Delivery /\ OnceInLog

-----------------------------------------------------------------------------
\* Every step preserves types.
LEMMA NextTypeOK == TypeOK /\ [Next]_vars => TypeOK'
<1> SUFFICES ASSUME TypeOK, [Next]_vars PROVE TypeOK'
  OBVIOUS
<1> USE DEF TypeOK, Entry, setup, publishing, delivery
<1>1. ASSUME NEW r \in Replica,
             Lookup(r) \/ LookupFails(r) \/ CreateStream(r) \/ CreateFails(r)
               \/ Consume(r) \/ ConsumeFails(r)
      PROVE  TypeOK'
  BY <1>1 DEF Lookup, LookupFails, CreateStream, CreateFails, Consume, ConsumeFails, Goes, cfg
<1>2. ASSUME NEW m \in Message, PublishJS(m) \/ PublishOK(m) \/ PublishFails(m)
      PROVE  TypeOK'
  BY <1>2 DEF PublishJS, PublishOK, PublishFails
<1>3. ASSUME NEW m \in Message, Persist(m) PROVE TypeOK'
  <2>1. /\ log' \in Seq(Message) /\ Len(log') = Len(log) + 1 /\ Len(log') <= MaxLog
        /\ Len(log) \in Nat
    BY <1>3, NATSConstants DEF Persist
  <2>2. 1..Len(log) \subseteq 1..Len(log') /\ Len(log') \in 1..Len(log')
        /\ Len(log') \notin 1..Len(log)
    BY <2>1
  <2>3. avail' \subseteq 1..Len(log') /\ avail' \cap acked' = {}
    BY <1>3, <2>1, <2>2 DEF Persist
  <2>4. pub' \in [Message -> {"no", "waits", "stored", "error", "nil"}]
    BY <1>3 DEF Persist
  <2>5. UNCHANGED <<pc, stream, failed, acked, buf, hand, acking, handled, expired>>
        /\ net' \in SUBSET Message
    BY <1>3 DEF Persist
  <2> QED
    BY <2>1, <2>2, <2>3, <2>4, <2>5
<1>4. ASSUME NEW r \in Replica, NEW e \in Entry, Deliver(r, e) \/ Handler(r, e)
      PROVE  TypeOK'
  <2>1. e \in 1..Len(log)
    BY <1>4 DEF Deliver, Handler
  <2>2. buf' \in [Replica -> SUBSET (1..Len(log))]
    BY <1>4, <2>1 DEF Deliver, Handler
  <2>3. hand' \in [Replica -> SUBSET (1..Len(log))]
    BY <1>4, <2>1 DEF Deliver, Handler
  <2>4. avail' \in SUBSET (1..Len(log)) /\ avail' \cap acked = {}
        /\ UNCHANGED <<pc, stream, pub, net, log, failed, acked, acking, handled, expired>>
    BY <1>4 DEF Deliver, Handler
  <2> QED
    BY <2>2, <2>3, <2>4
<1>5. ASSUME NEW r \in Replica, HandlerOK(r) \/ Settle(r) \/ AckLost(r) \/ HandlerFails(r)
      PROVE  TypeOK'
  BY <1>5 DEF HandlerOK, Settle, AckLost, HandlerFails, AfterOK, AfterError, Ack, Nak
<1>6. ASSUME NEW e \in Entry, DeliveryLost(e) \/ AckWait(e) PROVE TypeOK'
  BY <1>6 DEF DeliveryLost, AckWait, Pending
<1>7. ASSUME NEW r \in Replica, Cancel(r) \/ Close(r) \/ Crash(r) PROVE TypeOK'
  BY <1>7 DEF Cancel, Close, Crash, Goes
<1>8. CASE UNCHANGED vars
  BY <1>8 DEF vars
<1> HIDE DEF TypeOK
<1> QED
  BY <1>1, <1>2, <1>3, <1>4, <1>5, <1>6, <1>7, <1>8 DEF Next, Progress, Fault, Step, Redeliver

-----------------------------------------------------------------------------
\* The steps that touch neither the log nor a publication.
LEMMA NextOnceInLog == TypeOK /\ OnceInLog /\ [Next]_vars => OnceInLog'
<1> SUFFICES ASSUME TypeOK, OnceInLog, [Next]_vars PROVE OnceInLog'
  OBVIOUS
<1>1. CASE UNCHANGED publishing
  BY <1>1 DEF OnceInLog, publishing
<1>2. ASSUME NEW m \in Message, PublishJS(m) PROVE OnceInLog'
  BY <1>2 DEF PublishJS, OnceInLog, TypeOK
<1>3. ASSUME NEW m \in Message, Persist(m) PROVE OnceInLog'
  <2>1. /\ log' = Append(log, m) /\ Len(log) \in Nat /\ Len(log') = Len(log) + 1
        /\ log'[Len(log) + 1] = m /\ \A e \in 1..Len(log) : log'[e] = log[e]
        /\ net' = net \ {m} /\ failed' = failed /\ m \in net
        /\ pub' = [pub EXCEPT ![m] = IF @ = "waits" THEN "stored" ELSE @]
    BY <1>3 DEF Persist, TypeOK
  <2>2. \A e \in 1..Len(log') : e \in 1..Len(log) \/ e = Len(log) + 1
    BY <2>1
  <2>3. m \notin failed => pub[m] = "waits" /\ \A e \in 1..Len(log) : log[e] # m
    BY <2>1 DEF OnceInLog
  <2>4. \A e, f \in 1..Len(log') : log'[e] = log'[f] /\ e # f => log'[e] \in failed'
    BY <2>1, <2>2, <2>3 DEF OnceInLog
  <2>5. \A n \in Message \ failed' :
          /\ pub'[n] # "error"
          /\ n \in net' => pub'[n] = "waits"
          /\ n \in net' => \A e \in 1..Len(log') : log'[e] # n
          /\ pub'[n] = "no" => \A e \in 1..Len(log') : log'[e] # n
    BY <2>1, <2>2, <2>3 DEF OnceInLog, TypeOK
  <2> QED
    BY <2>4, <2>5 DEF OnceInLog
<1>4. ASSUME NEW m \in Message, PublishOK(m) PROVE OnceInLog'
  BY <1>4 DEF PublishOK, Confirmed, OnceInLog, TypeOK
<1>5. ASSUME NEW m \in Message, PublishFails(m) PROVE OnceInLog'
  BY <1>5 DEF PublishFails, OnceInLog, TypeOK
<1> QED
  BY <1>1, <1>2, <1>3, <1>4, <1>5
     DEF Next, Progress, Fault, Step, Redeliver, Lookup, LookupFails, CreateStream, CreateFails,
         Consume, ConsumeFails, Deliver, Handler, HandlerOK, Settle, AckLost, HandlerFails,
         DeliveryLost, AckWait, Cancel, Close, Crash, vars

-----------------------------------------------------------------------------
\* What only drops copies of entries keeps the rest in order.
LEMMA FewerCopies ==
  ASSUME OneCopy, Delivery,
         avail' \subseteq avail, acked' \subseteq handled, UNCHANGED <<handled, expired>>,
         \A q \in Replica :
           /\ buf'[q] \subseteq buf[q] /\ acking'[q] \subseteq acking[q]
           /\ hand'[q] \in {hand[q], {}}
  PROVE  OneCopy' /\ Delivery'
<1>1. \A q \in Replica : hand'[q] \subseteq hand[q]
  OBVIOUS
<1>2. OneCopy'
  BY <1>1 DEF OneCopy, Holds
<1>3. Delivery'
  BY <1>1 DEF Delivery
<1> QED
  BY <1>2, <1>3

\* Every step keeps one copy of an entry and handles it before it is acknowledged.
LEMMA NextDelivery == TypeOK /\ OneCopy /\ Delivery /\ [Next]_vars => OneCopy' /\ Delivery'
<1> SUFFICES ASSUME TypeOK, OneCopy, Delivery, [Next]_vars PROVE OneCopy' /\ Delivery'
  OBVIOUS
<1> USE DEF OneCopy, Delivery, Holds
<1>1. CASE UNCHANGED delivery
  BY <1>1 DEF delivery
<1>2. ASSUME NEW m \in Message, Persist(m) PROVE OneCopy' /\ Delivery'
  <2>1. /\ avail' = avail \cup {Len(log) + 1} /\ Len(log) + 1 \notin 1..Len(log)
        /\ UNCHANGED <<acked, buf, hand, acking, handled, expired>>
    BY <1>2 DEF Persist, TypeOK
  <2>2. Len(log) + 1 \notin handled /\ \A r \in Replica : Len(log) + 1 \notin Holds(r)
    BY <2>1 DEF TypeOK
  <2> QED
    BY <2>1, <2>2
<1>3. ASSUME NEW r \in Replica, NEW e \in Entry, Deliver(r, e)
      PROVE  OneCopy' /\ Delivery'
  BY <1>3 DEF Deliver, TypeOK
<1>4. ASSUME NEW r \in Replica, NEW e \in Entry, Handler(r, e)
      PROVE  OneCopy' /\ Delivery'
  BY <1>4 DEF Handler, TypeOK
<1>5. ASSUME NEW r \in Replica, HandlerOK(r)
      PROVE  OneCopy' /\ Delivery'
  BY <1>5 DEF HandlerOK, TypeOK
<1>6. ASSUME NEW r \in Replica, Settle(r) \/ AckLost(r) \/ Cancel(r) \/ Close(r) \/ Crash(r)
      PROVE  OneCopy' /\ Delivery'
  <2>1. avail' \subseteq avail /\ acked' \subseteq handled /\ UNCHANGED <<handled, expired>>
    BY <1>6 DEF Settle, AfterOK, Ack, AckLost, Cancel, Close, Crash
  <2>2. ASSUME NEW q \in Replica
        PROVE  /\ buf'[q] \subseteq buf[q] /\ acking'[q] \subseteq acking[q]
               /\ hand'[q] \in {hand[q], {}}
    <3>1. CASE Settle(r) \/ AckLost(r)
      <4>1. UNCHANGED <<buf, hand>> /\ \E e \in acking[r] : acking' = [acking EXCEPT ![r] = @ \ {e}]
        BY <3>1 DEF Settle, AckLost
      <4> QED
        BY <4>1 DEF TypeOK
    <3>2. CASE Cancel(r) \/ Close(r) \/ Crash(r)
      BY <3>2 DEF Cancel, Close, Crash, TypeOK
    <3> QED
      BY <1>6, <3>1, <3>2
  <2> HIDE DEF OneCopy, Delivery
  <2> QED
    BY <2>1, <2>2, FewerCopies
<1>7. ASSUME NEW r \in Replica, HandlerFails(r) PROVE OneCopy' /\ Delivery'
  <2>1. /\ hand' = [hand EXCEPT ![r] = {}] /\ UNCHANGED <<buf, acking, handled, expired, acked>>
        /\ avail \subseteq avail' /\ avail' \subseteq avail \cup hand[r]
    BY <1>7 DEF HandlerFails, AfterError, Nak
  <2>2. \A q \in Replica : hand'[q] = IF q = r THEN {} ELSE hand[q]
    BY <2>1 DEF TypeOK
  <2>3. \A e \in Entry \ expired : e \in hand[r] =>
          \A q \in Replica : e \notin Holds(q)'
    BY <2>1, <2>2
  <2>4. OneCopy'
    BY <2>1, <2>2, <2>3
  <2>5. Delivery'
    BY <2>1, <2>2
  <2> QED
    BY <2>4, <2>5
<1>8. ASSUME NEW e \in Entry, DeliveryLost(e) \/ AckWait(e) PROVE OneCopy' /\ Delivery'
  BY <1>8 DEF DeliveryLost, AckWait, TypeOK
<1> HIDE DEF OneCopy, Delivery, Holds
<1> QED
  BY <1>1, <1>2, <1>3, <1>4, <1>5, <1>6, <1>7, <1>8
     DEF Next, Progress, Fault, Step, Redeliver, Lookup, LookupFails, CreateStream, CreateFails,
         Consume, ConsumeFails, PublishJS, PublishOK, PublishFails, vars

LEMMA InitIInv == Init => IInv
<1> SUFFICES ASSUME Init PROVE IInv
  OBVIOUS
<1>1. log = <<>> /\ Len(log) = 0
  BY DEF Init
<1>2. TypeOK
  BY <1>1, NATSConstants DEF Init, TypeOK, Entry
<1>3. OneCopy /\ Delivery /\ OnceInLog
  BY <1>1 DEF Init, OneCopy, Holds, Delivery, OnceInLog
<1> QED
  BY <1>2, <1>3 DEF IInv

LEMMA NextIInv == IInv /\ [Next]_vars => IInv'
BY NextTypeOK, NextOnceInLog, NextDelivery DEF IInv

-----------------------------------------------------------------------------
\* Type correctness of the stream, its clients and its publishers (nats.go:96-153).
THEOREM TypeCorrect == Spec => []TypeOK
BY InitIInv, NextIInv, PTL DEF Spec, IInv

\* Nothing is handled twice but for an AckWait that ran out or a PublishJS that
\* failed, for any number of replicas, messages and deliveries.
THEOREM DuplicatesNeedDelay == Spec => []DuplicateNeedsDelay
<1>1. IInv => DuplicateNeedsDelay
  BY DEF IInv, Delivery, OnceInLog, DuplicateNeedsDelay
<1> QED
  BY <1>1, InitIInv, NextIInv, PTL DEF Spec

\* A step of the stream and its clients handles an entry, acknowledges what was
\* handled, or does neither.
LEMMA StepKeepsPromise ==
  ASSUME IInv, IInv', [Next]_vars PROVE [Promise!Next]_<<handled, acked>>
<1>1. ASSUME NEW r \in Replica, HandlerOK(r) PROVE Promise!Next
  <2>1. PICK e \in Entry : hand[r] = {e}
    BY <1>1 DEF HandlerOK, IInv, Delivery
  <2>2. handled' = handled \cup {e} /\ acked' = acked
    BY <1>1, <2>1 DEF HandlerOK
  <2> QED
    BY <2>2 DEF Promise!Next, Promise!Handle
<1>2. CASE UNCHANGED handled
  <2>1. acked' \in SUBSET handled
    BY <1>2 DEF IInv, Delivery
  <2> QED
    BY <1>2, <2>1 DEF Promise!Next, Promise!Settle
<1> QED
  BY <1>1, <1>2
     DEF Next, Progress, Fault, Step, Redeliver, Lookup, LookupFails, CreateStream, CreateFails,
         Consume, ConsumeFails, PublishJS, Persist, PublishOK, PublishFails, Deliver, Handler,
         Settle, AckLost, HandlerFails, DeliveryLost, AckWait, Cancel, Close, Crash, vars,
         publishing, delivery

\* The durable consumer implements at-least-once delivery.
THEOREM Refinement == Spec => ImplementsAtLeastOnce
<1>1. Init => Promise!Init
  BY DEF Init, Promise!Init
<1> QED
  BY <1>1, InitIInv, NextIInv, StepKeepsPromise, PTL DEF Spec, ImplementsAtLeastOnce, Promise!Spec
=============================================================================
