------------------------ MODULE KafkaConsumerProofs ------------------------
(***************************************************************************)
(* Theorems about KafkaConsumer for any number of replicas and messages.   *)
(***************************************************************************)
EXTENDS KafkaConsumer, TLAPS

\* All messages below offset n, but perhaps m, have been handled.
HandledBelow(n) == \A k \in Msg : k < n => handled[k] > 0
HandledBelowBut(n, m) == \A k \in Msg : k < n /\ k # m => handled[k] > 0

\* A replica that works on a message has passed no unhandled one, and commits
\* only what it handled.
WorkInOrder ==
  \A c \in Consumer :
    /\ pc[c] \in {"handler", "commit"} => HandledBelow(msg[c])
    /\ pc[c] = "commit" => handled[msg[c]] > 0

\* The reader that owns the partition fetches the first message that may be
\* unhandled; only a failed one has gone past such a message.
ReaderInOrder ==
  \A c \in Consumer : owner = c =>
    /\ pc[c] \in {"idle", "fetch", "commit"} => HandledBelow(pos[c])
    /\ pc[c] = "handler" => HandledBelowBut(pos[c], msg[c])

IInv == TypeOK /\ NothingSkipped /\ WorkInOrder /\ ReaderInOrder

\* Every step preserves types.
LEMMA NextTypeOK == TypeOK /\ [Next]_vars => TypeOK'
<1> SUFFICES ASSUME TypeOK, [Next]_vars PROVE TypeOK'
  OBVIOUS
<1> USE ConsumerConstants DEF TypeOK, Msg
<1>1. ASSUME NEW c \in Consumer, Consume(c) PROVE TypeOK'
  BY <1>1 DEF Consume
<1>2. ASSUME NEW c \in Consumer, Assign(c) PROVE TypeOK'
  BY <1>2 DEF Assign
<1>3. ASSUME NEW c \in Consumer, FetchMessage(c) PROVE TypeOK'
  BY <1>3 DEF FetchMessage
<1>4. ASSUME NEW c \in Consumer, FetchFails(c) PROVE TypeOK'
  BY <1>4 DEF FetchFails
<1>5. ASSUME NEW c \in Consumer, HandlerOK(c) PROVE TypeOK'
  <2>1. msg[c] \in Msg
    BY <1>5 DEF HandlerOK
  <2>2. OnceMore(handled[msg[c]]) \in 0..2
    BY <2>1 DEF OnceMore
  <2> QED
    BY <1>5, <2>2 DEF HandlerOK
<1>6. ASSUME NEW c \in Consumer, HandlerFails(c) PROVE TypeOK'
  BY <1>6 DEF HandlerFails, AfterHandlerError
<1>7. ASSUME NEW c \in Consumer, CommitOK(c) PROVE TypeOK'
  BY <1>7 DEF CommitOK, OffsetAfter
<1>8. ASSUME NEW c \in Consumer, CommitFails(c) PROVE TypeOK'
  BY <1>8 DEF CommitFails, OffsetAfter
<1>9. ASSUME NEW c \in Consumer, Close(c) \/ Crash(c) PROVE TypeOK'
  BY <1>9 DEF Close, Crash, Leave
<1>10. CASE UNCHANGED vars
  BY <1>10 DEF vars
<1> QED
  BY <1>1, <1>2, <1>3, <1>4, <1>5, <1>6, <1>7, <1>8, <1>9, <1>10
     DEF Next, Progress, Fault

\* Without Reuse every step preserves the order in which messages are handled.
LEMMA NextIInv == ASSUME ~Reuse, IInv, [Next]_vars PROVE IInv'
<1>t. TypeOK /\ TypeOK'
  BY NextTypeOK DEF IInv
<1> SUFFICES NothingSkipped' /\ WorkInOrder' /\ ReaderInOrder'
  BY <1>t DEF IInv
<1> USE <1>t, ConsumerConstants
        DEF IInv, TypeOK, Msg, NothingSkipped, WorkInOrder, ReaderInOrder, HandledBelow, HandledBelowBut
<1>1. ASSUME NEW c \in Consumer, Consume(c)
      PROVE  NothingSkipped' /\ WorkInOrder' /\ ReaderInOrder'
  BY <1>1 DEF Consume
<1>2. ASSUME NEW c \in Consumer, Assign(c)
      PROVE  NothingSkipped' /\ WorkInOrder' /\ ReaderInOrder'
  BY <1>2 DEF Assign
<1>3. ASSUME NEW c \in Consumer, FetchMessage(c)
      PROVE  NothingSkipped' /\ WorkInOrder' /\ ReaderInOrder'
  BY <1>3 DEF FetchMessage
<1>4. ASSUME NEW c \in Consumer, FetchFails(c)
      PROVE  NothingSkipped' /\ WorkInOrder' /\ ReaderInOrder'
  BY <1>4 DEF FetchFails
<1>5. ASSUME NEW c \in Consumer, HandlerOK(c)
      PROVE  NothingSkipped' /\ WorkInOrder' /\ ReaderInOrder'
  <2>1. /\ \A k \in Msg : handled[k] > 0 => handled'[k] > 0
        /\ handled'[msg[c]] > 0
    <3>1. msg[c] \in Msg
      BY <1>5 DEF HandlerOK
    <3>2. handled[msg[c]] \in {0, 1, 2}
      BY <3>1
    <3>3. OnceMore(handled[msg[c]]) > 0
      BY <3>2 DEF OnceMore
    <3> QED
      BY <1>5, <3>1, <3>2, <3>3 DEF HandlerOK
  <2> QED
    BY <1>5, <2>1 DEF HandlerOK
<1>6. ASSUME NEW c \in Consumer, HandlerFails(c)
      PROVE  NothingSkipped' /\ WorkInOrder' /\ ReaderInOrder'
  BY <1>6 DEF HandlerFails, AfterHandlerError
<1>7. ASSUME NEW c \in Consumer, CommitOK(c)
      PROVE  NothingSkipped' /\ WorkInOrder' /\ ReaderInOrder'
  BY <1>7 DEF CommitOK, OffsetAfter
<1>8. ASSUME NEW c \in Consumer, CommitFails(c)
      PROVE  NothingSkipped' /\ WorkInOrder' /\ ReaderInOrder'
  BY <1>8 DEF CommitFails, OffsetAfter
<1>9. ASSUME NEW c \in Consumer, Close(c) \/ Crash(c)
      PROVE  NothingSkipped' /\ WorkInOrder' /\ ReaderInOrder'
  BY <1>9 DEF Close, Crash, Leave
<1>10. CASE UNCHANGED vars
  BY <1>10 DEF vars
<1> QED
  BY <1>1, <1>2, <1>3, <1>4, <1>5, <1>6, <1>7, <1>8, <1>9, <1>10
     DEF Next, Progress, Fault

LEMMA InitIInv == Init => IInv
<1> SUFFICES ASSUME Init PROVE IInv
  OBVIOUS
<1>1. disturbed \in BOOLEAN
  BY DEF Init
<1>2. TypeOK
  BY <1>1, ConsumerConstants DEF Init, TypeOK, Msg
<1>3. NothingSkipped /\ WorkInOrder /\ ReaderInOrder
  BY ConsumerConstants
     DEF Init, Msg, NothingSkipped, WorkInOrder, ReaderInOrder, HandledBelow, HandledBelowBut
<1> QED
  BY <1>2, <1>3 DEF IInv

-----------------------------------------------------------------------------
\* Type correctness of the consumer (kafka.go:98-119).
THEOREM TypeCorrect == Spec => []TypeOK
<1>1. Init => TypeOK
  BY InitIInv DEF IInv
<1> QED
  BY <1>1, NextTypeOK, PTL DEF Spec

\* If a failed reader is closed and not used again, no committed offset ever
\* passes a message that was not handled, whatever crashes or fails.
THEOREM AtLeastOnce == ASSUME ~Reuse PROVE Spec => []NothingSkipped
<1>1. IInv => NothingSkipped
  BY DEF IInv
<1> QED
  BY <1>1, InitIInv, NextIInv, PTL DEF Spec

\* Every step of the consumer handles a message, moves the committed offset among
\* what is handled, or does neither.
LEMMA StepKeepsPromise ==
  ASSUME IInv, IInv', [Next]_vars
  PROVE  [Promise!Next]_<<{m \in Msg : handled[m] > 0}, {m \in Msg : m < committed}>>
<1> DEFINE done == {m \in Msg : handled[m] > 0}
           settled == {m \in Msg : m < committed}
<1> USE DEF IInv, TypeOK, Msg
<1>1. CASE \E c \in Consumer : HandlerOK(c)
  <2>1. PICK c \in Consumer : HandlerOK(c)
    BY <1>1
  <2>2. msg[c] \in Msg /\ handled[msg[c]] \in 0..2
    BY <2>1 DEF HandlerOK
  <2>3. OnceMore(handled[msg[c]]) > 0
    BY <2>2 DEF OnceMore
  <2>4. done' = done \cup {msg[c]} /\ settled' = settled
    BY <2>1, <2>2, <2>3 DEF HandlerOK
  <2> QED
    BY <2>2, <2>4 DEF Promise!Next, Promise!Handle
<1>2. CASE done' = done /\ settled' \subseteq done'
  BY <1>2 DEF Promise!Next, Promise!Settle
<1>3. settled' \subseteq done'
  BY DEF NothingSkipped
<1>4. CASE UNCHANGED handled
  <2> HIDE DEF TypeOK, IInv
  <2>1. done' = done
    BY <1>4
  <2> QED
    BY <1>2, <1>3, <2>1
<1> QED
  BY <1>1, <1>4 DEF Next, Progress, Fault, Consume, Assign, FetchMessage, FetchFails,
     HandlerFails, CommitOK, CommitFails, Close, Crash, vars

\* Without a reader that is used again the consumer implements at-least-once
\* delivery: what is below the committed offset has been handled, at every step.
THEOREM Refinement == ASSUME ~Reuse PROVE Spec => ImplementsAtLeastOnce
<1>1. Init => Promise!Init
  BY ConsumerConstants DEF Init, Promise!Init, Msg
<1> QED
  BY <1>1, InitIInv, NextIInv, StepKeepsPromise, PTL DEF Spec, ImplementsAtLeastOnce, Promise!Spec

-----------------------------------------------------------------------------
\* Without a disturbance only the owner of the partition works on a message, the
\* one before its position, and nothing from the position on has been handled.
OnlyOwnerWorks ==
  \A c \in Consumer : pc[c] \in {"handler", "commit"} => owner = c /\ pos[c] = msg[c] + 1

FreshAhead ==
  /\ \A c \in Consumer : owner = c =>
       /\ committed <= pos[c]
       /\ \A k \in Msg : k >= pos[c] => handled[k] = 0
       /\ pc[c] = "handler" => handled[msg[c]] = 0
  /\ \A k \in Msg :
       k >= committed /\ handled[k] > 0 =>
         owner # None /\ pc[owner] = "commit" /\ k = msg[owner]

OnceInv == ~disturbed => OnlyOwnerWorks /\ FreshAhead /\ \A k \in Msg : handled[k] <= 1

\* Every step preserves it.
LEMMA NextOnceInv == TypeOK /\ OnceInv /\ [Next]_vars => OnceInv'
<1> SUFFICES ASSUME TypeOK, OnceInv, [Next]_vars, ~disturbed'
             PROVE  OnlyOwnerWorks' /\ FreshAhead' /\ \A k \in Msg : handled'[k] <= 1
  BY DEF OnceInv
<1>d. ~disturbed
  BY DEF Next, Progress, Fault, Consume, Assign, FetchMessage, FetchFails, HandlerOK,
         HandlerFails, CommitOK, CommitFails, Close, Crash, vars
<1> USE <1>d, ConsumerConstants DEF TypeOK, Msg, OnceInv, OnlyOwnerWorks, FreshAhead
<1>1. ASSUME NEW c \in Consumer, Consume(c)
      PROVE  OnlyOwnerWorks' /\ FreshAhead' /\ \A k \in Msg : handled'[k] <= 1
  BY <1>1 DEF Consume
<1>2. ASSUME NEW c \in Consumer, Assign(c)
      PROVE  OnlyOwnerWorks' /\ FreshAhead' /\ \A k \in Msg : handled'[k] <= 1
  <2>1. /\ owner = None /\ owner' = c /\ pos' = [pos EXCEPT ![c] = committed]
        /\ UNCHANGED <<pc, msg, committed, handled>>
    BY <1>2 DEF Assign
  <2>2. \A d \in Consumer : pc[d] \notin {"handler", "commit"}
    BY <2>1
  <2>3. \A k \in Msg : k >= committed => handled[k] = 0
    BY <2>1
  <2>4. FreshAhead'
    BY <2>1, <2>2, <2>3
  <2> QED
    BY <2>1, <2>2, <2>4
<1>3. ASSUME NEW c \in Consumer, FetchMessage(c)
      PROVE  OnlyOwnerWorks' /\ FreshAhead' /\ \A k \in Msg : handled'[k] <= 1
  BY <1>3 DEF FetchMessage
<1>4. ASSUME NEW c \in Consumer, FetchFails(c) \/ HandlerFails(c)
      PROVE  OnlyOwnerWorks' /\ FreshAhead' /\ \A k \in Msg : handled'[k] <= 1
  BY <1>4 DEF FetchFails, HandlerFails, AfterHandlerError
<1>5. ASSUME NEW c \in Consumer, HandlerOK(c)
      PROVE  OnlyOwnerWorks' /\ FreshAhead' /\ \A k \in Msg : handled'[k] <= 1
  <2>1. /\ owner = c /\ pos[c] = msg[c] + 1 /\ msg[c] \in Msg /\ handled[msg[c]] = 0
        /\ pc[c] = "handler"
    BY <1>5 DEF HandlerOK
  <2>2. /\ handled' = [handled EXCEPT ![msg[c]] = 1]
        /\ pc' = [pc EXCEPT ![c] = "commit"]
        /\ UNCHANGED <<pos, msg, owner, committed>>
    BY <1>5, <2>1 DEF HandlerOK, OnceMore
  <2>3. \A k \in Msg : handled'[k] = IF k = msg[c] THEN 1 ELSE handled[k]
    BY <2>1, <2>2
  <2>4. OnlyOwnerWorks'
    BY <2>1, <2>2
  <2>5. \A k \in Msg : k >= committed /\ handled'[k] > 0 => k = msg[c]
    BY <2>1, <2>3
  <2>6. \A k \in Msg : k >= pos[c] => handled'[k] = 0
    BY <2>1, <2>3
  <2>7. FreshAhead'
    BY <2>1, <2>2, <2>5, <2>6
  <2> QED
    BY <2>3, <2>4, <2>7
<1>6. ASSUME NEW c \in Consumer, CommitOK(c)
      PROVE  OnlyOwnerWorks' /\ FreshAhead' /\ \A k \in Msg : handled'[k] <= 1
  <2>1. owner = c /\ pos[c] = msg[c] + 1 /\ msg[c] \in Msg
    BY <1>6 DEF CommitOK
  <2> QED
    BY <1>6, <2>1 DEF CommitOK, OffsetAfter
<1>7. ASSUME NEW c \in Consumer, Close(c)
      PROVE  OnlyOwnerWorks' /\ FreshAhead' /\ \A k \in Msg : handled'[k] <= 1
  BY <1>7 DEF Close, Leave
<1>8. ASSUME NEW c \in Consumer, CommitFails(c) \/ Crash(c) PROVE FALSE
  BY <1>8 DEF CommitFails, Crash
<1>9. CASE UNCHANGED vars
  BY <1>9 DEF vars
<1> QED
  BY <1>1, <1>2, <1>3, <1>4, <1>5, <1>6, <1>7, <1>8, <1>9 DEF Next, Progress, Fault

\* Until a crash, a failed commit or a rebalance no message is handled twice,
\* for any number of replicas and messages, however often handlers fail and
\* Consume is called.
THEOREM NoRepeats == Spec => []HandledOnce
<1>1. Init => TypeOK /\ OnceInv
  BY InitIInv, ConsumerConstants
     DEF IInv, Init, Msg, OnceInv, OnlyOwnerWorks, FreshAhead
<1>2. TypeOK /\ OnceInv => HandledOnce
  BY DEF OnceInv, HandledOnce
<1> QED
  BY <1>1, <1>2, NextTypeOK, NextOnceInv, PTL DEF Spec
=============================================================================
