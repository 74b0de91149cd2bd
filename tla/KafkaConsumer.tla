--------------------------- MODULE KafkaConsumer ---------------------------
(***************************************************************************)
(* The consumer of messaging/kafka/kafka.go: Consume fetches a message,    *)
(* calls the handler and commits the offset.  The replicas of a service    *)
(* form one consumer group.  The group and the reader of kafka-go are      *)
(* modelled from how the code uses them: a reader that is given the        *)
(* partition starts at the committed offset, goes on from there whatever   *)
(* becomes of the messages it has handed out, and commits what it is told  *)
(* to, so a commit may also move the offset back.                          *)
(*                                                                         *)
(* One partition is modelled: partitions do not interact.                  *)
(***************************************************************************)
EXTENDS Naturals

CONSTANTS
  Consumer,   \* the replicas, each with one reader
  None,       \* no replica owns the partition
  Last,       \* bound: the messages of the partition are 0..Last-1
  Reuse       \* TRUE: Consume is called again on the reader of a failed Consume

ASSUME ConsumerConstants ==
  /\ None \notin Consumer
  /\ Last \in Nat
  /\ Reuse \in BOOLEAN

VARIABLES
  pc,         \* per replica: where Consume stands; "failed": it returned an error
  pos,        \* per replica: the offset its reader fetches next
  msg,        \* per replica: the message it works on
  owner,      \* the replica that the partition is assigned to
  committed,  \* the committed offset of the group
  handled,    \* history, per message: successful handler calls, not above 2
  disturbed   \* history: a crash, a failed commit, or a rebalance under an owner

vars == <<pc, pos, msg, owner, committed, handled, disturbed>>

Msg == 0..(Last - 1)

-----------------------------------------------------------------------------
Init ==
  /\ pc = [c \in Consumer |-> "idle"]
  /\ pos = [c \in Consumer |-> 0]
  /\ msg = [c \in Consumer |-> 0]
  /\ owner = None
  /\ committed = 0
  /\ handled = [m \in Msg |-> 0]
  /\ disturbed = FALSE

\* The caller runs Consume: on a new reader, or again on the one that failed.
Consume(c) ==
  /\ pc[c] = "idle" \/ (Reuse /\ pc[c] = "failed")
  /\ pc' = [pc EXCEPT ![c] = "fetch"]
  /\ UNCHANGED <<pos, msg, owner, committed, handled, disturbed>>

\* The group assigns the partition to c, whose reader starts at the committed
\* offset.  The last owner may still be working on a message.
Assign(c) ==
  /\ owner # c
  /\ owner' = c
  /\ disturbed' = (disturbed \/ owner # None)
  /\ pos' = [pos EXCEPT ![c] = committed]
  /\ UNCHANGED <<pc, msg, committed, handled>>

\* FetchMessage returns the next message of the partition.
FetchMessage(c) ==
  /\ pc[c] = "fetch" /\ owner = c /\ pos[c] < Last
  /\ msg' = [msg EXCEPT ![c] = pos[c]]
  /\ pos' = [pos EXCEPT ![c] = @ + 1]
  /\ pc' = [pc EXCEPT ![c] = "handler"]
  /\ UNCHANGED <<owner, committed, handled, disturbed>>

\* ctx is cancelled, or the fetch fails: Consume returns.
FetchFails(c) ==
  /\ pc[c] = "fetch"
  /\ pc' = [pc EXCEPT ![c] = "failed"]
  /\ UNCHANGED <<pos, msg, owner, committed, handled, disturbed>>

OnceMore(n) == IF n < 2 THEN n + 1 ELSE n

\* The handler returns nil.
HandlerOK(c) ==
  /\ pc[c] = "handler"
  /\ handled' = [handled EXCEPT ![msg[c]] = OnceMore(@)]
  /\ pc' = [pc EXCEPT ![c] = "commit"]
  /\ UNCHANGED <<pos, msg, owner, committed, disturbed>>

\* Mutant: a message whose handler failed is committed like any other.
CommitAnyway == "commit"
AfterHandlerError == "failed"

\* The handler returns an error: Consume returns it.
HandlerFails(c) ==
  /\ pc[c] = "handler"
  /\ pc' = [pc EXCEPT ![c] = AfterHandlerError]
  /\ UNCHANGED <<pos, msg, owner, committed, handled, disturbed>>

\* Mutants: the offset one too far, and the offset of the message itself, which
\* is then fetched again by the next owner.
OffsetTooFar(m) == m + 2
OffsetOf(m) == m
OffsetAfter(m) == m + 1

\* CommitMessages succeeds and the loop goes on.
CommitOK(c) ==
  /\ pc[c] = "commit"
  /\ committed' = OffsetAfter(msg[c])
  /\ pc' = [pc EXCEPT ![c] = "fetch"]
  /\ UNCHANGED <<pos, msg, owner, handled, disturbed>>

\* CommitMessages fails, before or after the broker stored the offset.
CommitFails(c) ==
  /\ pc[c] = "commit"
  /\ disturbed' = TRUE
  /\ committed' \in {committed, OffsetAfter(msg[c])}
  /\ pc' = [pc EXCEPT ![c] = "failed"]
  /\ UNCHANGED <<pos, msg, owner, handled>>

\* The partition has no owner once c has left the group.
Leave(c) == owner' = IF owner = c THEN None ELSE owner

\* Close after Consume has returned; the replica makes a new Consumer.
Close(c) ==
  /\ pc[c] = "failed"
  /\ pc' = [pc EXCEPT ![c] = "idle"]
  /\ Leave(c)
  /\ UNCHANGED <<pos, msg, committed, handled, disturbed>>

\* The process dies and is started again.
Crash(c) ==
  /\ pc[c] # "idle"
  /\ disturbed' = TRUE
  /\ pc' = [pc EXCEPT ![c] = "idle"]
  /\ Leave(c)
  /\ UNCHANGED <<pos, msg, committed, handled>>

\* What a replica does when nothing fails, and what may go wrong.
Progress(c) ==
  \/ Consume(c) \/ (owner = None /\ Assign(c)) \/ FetchMessage(c)
  \/ HandlerOK(c) \/ CommitOK(c) \/ Close(c)
Fault(c) ==
  \/ (owner # None /\ Assign(c)) \/ FetchFails(c) \/ HandlerFails(c)
  \/ CommitFails(c) \/ Crash(c)

Next == \E c \in Consumer : Progress(c) \/ Fault(c)

Spec == Init /\ [][Next]_vars

\* Faults come to an end, and the replicas go on working: failed consumers are
\* closed and made again.
FairSpec ==
  /\ Spec
  /\ <>[][\E c \in Consumer : Progress(c)]_vars
  /\ \A c \in Consumer : WF_vars(Progress(c))

-----------------------------------------------------------------------------
TypeOK ==
  /\ pc \in [Consumer -> {"idle", "fetch", "handler", "commit", "failed"}]
  /\ pos \in [Consumer -> 0..Last]
  /\ msg \in [Consumer -> 0..Last]
  /\ \A c \in Consumer : pc[c] \in {"handler", "commit"} => msg[c] \in Msg
  /\ owner \in Consumer \cup {None}
  /\ committed \in 0..Last
  /\ handled \in [Msg -> 0..2]
  /\ disturbed \in BOOLEAN

\* "the offset is commited only after handler returns nil" (kafka.go:93-95):
\* every message below the committed offset has been handled, whoever crashed,
\* lost the partition or failed to commit.
NothingSkipped == \A m \in Msg : m < committed => handled[m] > 0

\* The committed offset is the group's promise of at-least-once delivery.
Promise == INSTANCE AtLeastOnce WITH
  Message <- Msg,
  done <- {m \in Msg : handled[m] > 0},
  settled <- {m \in Msg : m < committed}
ImplementsAtLeastOnce == Promise!Spec

\* A message is handled twice only after a crash, a failed commit or a
\* rebalance: failing handlers, cancelled and repeated calls of Consume and the
\* changes of owner they bring do not repeat what was done (kafka.go:98-115).
HandledOnce == disturbed \/ \A m \in Msg : handled[m] <= 1

\* Every message is handled at last: at-least-once delivery.
AllHandled == \A m \in Msg : <>(handled[m] > 0)
=============================================================================
