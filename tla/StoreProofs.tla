----------------------------- MODULE StoreProofs -----------------------------
(***************************************************************************)
(* Theorems about what the code promises of its stores: first the lock in  *)
(* Redis (RedisLock) for any set of callers, any TTL and any number of     *)
(* retries, then the transactions of Postgres (PgTx) for any number of     *)
(* callers and any size of the pool.                                       *)
(***************************************************************************)
EXTENDS RedisLock, PgTx, FiniteSetTheorems, TLAPS

\* c was granted the lock and has not sent its DEL twice.
Granted(c) == pc[c] \in {"ok", "held"} \/ (pc[c] = "del" /\ tries[c] = 0)

\* The key stands for a caller that is inside, and lives exactly as long as the
\* lease of that caller.
KeyMatchesLease ==
  \A c \in Client : key = c => ttl = lease[c] /\ pc[c] \in {"ok", "held", "del"}

KeyHasLife == key = None <=> ttl = 0

\* A running lease that nobody robbed is still backed by the key.
LeaseBacked ==
  \A c \in Client : Granted(c) /\ lease[c] > 0 /\ c \notin robbed => key = c

IInv == TypeOK /\ KeyMatchesLease /\ KeyHasLife /\ LeaseBacked

LEMMA LifePositive == Life \in Nat /\ Life > 0
  BY LockConstants DEF Life

\* The initial state satisfies the inductive invariant.
LEMMA InitIInv == Init => IInv
  BY LockConstants, LifePositive
     DEF Init, IInv, TypeOK, KeyMatchesLease, KeyHasLife, LeaseBacked, Granted

\* Every step preserves types.
LEMMA NextTypeOK == TypeOK /\ [Next]_vars => TypeOK'
<1> SUFFICES ASSUME TypeOK, [Next]_vars PROVE TypeOK'
  OBVIOUS
<1> USE LockConstants, LifePositive DEF TypeOK
<1>1. ASSUME NEW c \in Client, Lock(c) PROVE TypeOK'
  BY <1>1 DEF Lock
<1>2. ASSUME NEW c \in Client, SetNX(c) PROVE TypeOK'
  BY <1>2 DEF SetNX, KeyTTL
<1>3. ASSUME NEW c \in Client, Reply(c) PROVE TypeOK'
  BY <1>3 DEF Reply, AfterSetNX
<1>4. ASSUME NEW c \in Client, Release(c) PROVE TypeOK'
  BY <1>4 DEF Release
<1>5. ASSUME NEW c \in Client, Del(c) PROVE TypeOK'
  BY <1>5 DEF Del, Erase
<1>6. ASSUME NEW c \in Client, Resend(c) PROVE TypeOK'
  BY <1>6 DEF Resend, Command, Disown, LeaveLate
<1>7. ASSUME NEW c \in Client, GiveUp(c) PROVE TypeOK'
  BY <1>7 DEF GiveUp, Command, Disown, LeaveLate
<1>8. ASSUME NEW c \in Client, Late(c) PROVE TypeOK'
  BY <1>8 DEF Late, Erase
<1>9. CASE Tick
  BY <1>9 DEF Tick, Less
<1>10. CASE UNCHANGED vars
  BY <1>10 DEF vars
<1> QED
  BY <1>1, <1>2, <1>3, <1>4, <1>5, <1>6, <1>7, <1>8, <1>9, <1>10 DEF Next, Step

\* Every step preserves the inductive invariant.
LEMMA NextIInv == IInv /\ [Next]_vars => IInv'
<1> SUFFICES ASSUME IInv, [Next]_vars
             PROVE  KeyMatchesLease' /\ KeyHasLife' /\ LeaseBacked'
  BY NextTypeOK DEF IInv
<1> USE LockConstants, LifePositive
        DEF IInv, TypeOK, KeyMatchesLease, KeyHasLife, LeaseBacked, Granted
<1>1. ASSUME NEW c \in Client, Lock(c)
      PROVE  KeyMatchesLease' /\ KeyHasLife' /\ LeaseBacked'
  BY <1>1 DEF Lock
<1>2. ASSUME NEW c \in Client, SetNX(c)
      PROVE  KeyMatchesLease' /\ KeyHasLife' /\ LeaseBacked'
  BY <1>2 DEF SetNX, CanSet, KeyTTL
<1>3. ASSUME NEW c \in Client, Reply(c)
      PROVE  KeyMatchesLease' /\ KeyHasLife' /\ LeaseBacked'
  BY <1>3 DEF Reply, AfterSetNX
<1>4. ASSUME NEW c \in Client, Release(c)
      PROVE  KeyMatchesLease' /\ KeyHasLife' /\ LeaseBacked'
  BY <1>4 DEF Release
<1>5. ASSUME NEW c \in Client, Del(c)
      PROVE  KeyMatchesLease' /\ KeyHasLife' /\ LeaseBacked'
  BY <1>5 DEF Del, Erase
<1>6. ASSUME NEW c \in Client, Resend(c)
      PROVE  KeyMatchesLease' /\ KeyHasLife' /\ LeaseBacked'
  BY <1>6 DEF Resend, Command, Disown
<1>7. ASSUME NEW c \in Client, GiveUp(c)
      PROVE  KeyMatchesLease' /\ KeyHasLife' /\ LeaseBacked'
  BY <1>7 DEF GiveUp, Disown
<1>8. ASSUME NEW c \in Client, Late(c)
      PROVE  KeyMatchesLease' /\ KeyHasLife' /\ LeaseBacked'
  BY <1>8 DEF Late, Erase
<1>9. CASE Tick
  BY <1>9 DEF Tick, Less
<1>10. CASE UNCHANGED vars
  BY <1>10 DEF vars
<1> QED
  BY <1>1, <1>2, <1>3, <1>4, <1>5, <1>6, <1>7, <1>8, <1>9, <1>10 DEF Next, Step

LEMMA Invariance == Spec => []IInv
<1>1. IInv /\ [Next]_vars => IInv'
  BY NextIInv
<1> QED
  BY InitIInv, <1>1, PTL DEF Spec

-----------------------------------------------------------------------------
\* Type correctness of the lock (redis.go:69-81).
THEOREM TypeCorrect == Spec => []TypeOK
  BY Invariance, PTL DEF IInv

\* Whatever Redis, the network and the callers do, two running leases mean that
\* a DEL removed a key that was not its own.
THEOREM Exclusion == Spec => []ExclusionUnlessRobbed
<1>1. IInv => ExclusionUnlessRobbed
  BY DEF IInv, TypeOK, LeaseBacked, Granted, ExclusionUnlessRobbed, Live, Holders
<1> QED
  BY <1>1, Invariance, PTL

\* A robbery always comes from a DEL that was out of time, repeated or given up.
THEOREM Robbery == Spec => RobberyNeedsStaleDelete
<1> DEFINE Stale(c) == \E d \in Client :
              \/ /\ pc[d] = "del" /\ d # c
                 /\ lease[d] = 0 \/ tries[d] > 0 \/ d \in robbed
              \/ <<"del", d>> \in late
<1>1. ASSUME IInv, [Next]_vars, NEW c \in robbed' \ robbed PROVE Stale(c)
  <2> USE <1>1, LockConstants DEF IInv, TypeOK
  <2>1. ASSUME NEW d \in Client, Del(d) PROVE Stale(c)
    <3>1. key = c /\ d # c /\ c \in Client
      BY <2>1 DEF Del, Erase
    <3> QED
      BY <2>1, <3>1 DEF Del, LeaseBacked, Granted
  <2>2. ASSUME NEW d \in Client, Late(d) PROVE Stale(c)
    BY <2>2 DEF Late, Erase
  <2>3. ASSUME NEW d \in Client,
               Lock(d) \/ SetNX(d) \/ Reply(d) \/ Release(d) \/ Resend(d) \/ GiveUp(d)
        PROVE  FALSE
    BY <2>3 DEF Lock, SetNX, Reply, Release, Resend, GiveUp
  <2>4. ~Tick /\ ~UNCHANGED vars
    BY DEF Tick, vars
  <2> QED
    BY <2>1, <2>2, <2>3, <2>4 DEF Next, Step
<1>2. IInv /\ [Next]_vars =>
        [\A c \in robbed' \ robbed : Stale(c)]_vars
  BY <1>1
<1> QED
  BY <1>2, Invariance, PTL DEF Spec, RobberyNeedsStaleDelete

\* Whoever has a running lease that nobody robbed is the only one: the lock
\* implements the abstract mutex, for any number of callers, whatever fails.
THEOREM Refinement == Spec => ImplementsMutex
<1> DEFINE Inside == Live \ robbed
<1>1. Init => Abstract!Init
  BY DEF Init, Abstract!Init, Live, Holders
<1>2. ASSUME IInv, [Next]_vars PROVE [Abstract!Next]_Inside
  <2> USE <1>2, LockConstants DEF IInv, TypeOK
  <2>1. \A c, d \in Client :
          /\ pc[c] \in {"ok", "held"} /\ lease[c] > 0 /\ c \notin robbed
          /\ pc[d] \in {"ok", "held"} /\ lease[d] > 0 /\ d \notin robbed
          => c = d
    BY DEF LeaseBacked, Granted
  <2>2. \A c, d \in Inside : c = d
    BY <2>1 DEF Live, Holders
  \* A step after which nobody new is inside is a Leave or a stutter.
  <2>3. ASSUME Inside' \subseteq Inside PROVE [Abstract!Next]_Inside
    <3>1. Inside \subseteq Client
      BY DEF Live, Holders
    <3>2. CASE Inside' = Inside
      BY <3>2
    <3>3. CASE Inside' # Inside
      <4>1. PICK c \in Inside : c \notin Inside'
        BY <2>3, <3>3
      <4>2. Inside = {c} /\ Inside' = {}
        BY <2>2, <2>3, <4>1
      <4> QED
        BY <3>1, <4>1, <4>2 DEF Abstract!Next, Abstract!Leave
    <3> QED
      BY <3>2, <3>3
  <2>4. ASSUME NEW c \in Client, Reply(c) PROVE [Abstract!Next]_Inside
    <3>1. CASE pc[c] = "ok" /\ lease[c] > 0 /\ c \notin robbed
      <4>1. Inside = {} /\ Inside' = {c}
        BY <2>1, <2>4, <3>1 DEF Reply, AfterSetNX, Live, Holders
      <4> QED
        BY <4>1 DEF Abstract!Next, Abstract!Enter
    <3>2. CASE ~(pc[c] = "ok" /\ lease[c] > 0 /\ c \notin robbed)
      <4>1. Inside' \subseteq Inside
        BY <2>4, <3>2 DEF Reply, AfterSetNX, Live, Holders
      <4> QED
        BY <2>3, <4>1
    <3> QED
      BY <3>1, <3>2
  <2>5. ASSUME NEW c \in Client,
               Lock(c) \/ SetNX(c) \/ Release(c) \/ Del(c) \/ Resend(c) \/ GiveUp(c) \/ Late(c)
        PROVE  Inside' \subseteq Inside
    BY <2>5 DEF Lock, SetNX, Release, Del, Erase, Resend, Command, Disown, GiveUp, Late,
                Live, Holders
  <2>6. CASE Tick
    <3>1. Inside' \subseteq Inside
      BY <2>6 DEF Tick, Less, Live, Holders
    <3> QED
      BY <2>3, <3>1
  <2>7. CASE UNCHANGED vars
    BY <2>7 DEF vars, Live, Holders
  <2> QED
    BY <2>3, <2>4, <2>5, <2>6, <2>7 DEF Next, Step
<1> QED
  BY <1>1, <1>2, Invariance, PTL DEF Spec, ImplementsMutex, Abstract!Spec

-----------------------------------------------------------------------------
(***************************************************************************)
(* WithTx.  It shares nothing with the lock above.                         *)
(***************************************************************************)
States ==
  /\ at \in [Caller -> Returned \cup {"begin", "fn", "rollback", "commit"}]
  /\ out \in [Caller -> {"none", "nil", "error", "panic", "exit"}]
  /\ tx \in [Caller -> {"none", "active", "aborted", "committed", "rolled back"}]
  /\ done \in SUBSET Caller /\ inUse \in SUBSET Caller

PoolBound == Cardinality(inUse) <= MaxConns

\* A connection is held exactly from Begin to Commit or Rollback.
HoldsInside == \A c \in Caller : c \in inUse <=> at[c] \in {"fn", "rollback", "commit"}

\* How fn ended decides what the deferred function does.
OutDecides ==
  \A c \in Caller : /\ at[c] = "commit" => out[c] \in {"nil", "exit"}
                    /\ at[c] \in {"begin", "fn"} => out[c] = "none"

\* Transactions are committed, or left open, only where the code says so.
TxInOrder ==
  \A c \in Caller :
    /\ tx[c] = "committed" => at[c] \in Returned
    /\ tx[c] = "committed" => out[c] \in {"nil", "exit"}
    /\ at[c] \in Returned \cup {"begin"} => tx[c] \notin {"active", "aborted"}
    /\ at[c] = "returned nil" => tx[c] = "committed"

TxInv == States /\ HoldsInside /\ OutDecides /\ TxInOrder

LEMMA InitTx == TxInit => TxInv
  BY DEF TxInit, TxInv, States, HoldsInside, OutDecides, TxInOrder, Returned

\* Every step keeps connections, outcomes and transactions together.
LEMMA NextTxInv == TxInv /\ [TxNext]_txvars => TxInv'
<1> SUFFICES ASSUME TxInv, [TxNext]_txvars PROVE TxInv'
  OBVIOUS
<1> USE DEF TxInv, States, HoldsInside, OutDecides, TxInOrder, Returned
<1>1. ASSUME NEW c \in Caller, WithTx(c) PROVE TxInv'
  BY <1>1 DEF WithTx
<1>2. ASSUME NEW c \in Caller, BeginOK(c) PROVE TxInv'
  BY <1>2 DEF BeginOK, Room
<1>3. ASSUME NEW c \in Caller, BeginFails(c) PROVE TxInv'
  BY <1>3 DEF BeginFails
<1>4. ASSUME NEW c \in Caller, Cancel(c) PROVE TxInv'
  BY <1>4 DEF Cancel
<1>5. ASSUME NEW c \in Caller, StatementFails(c) PROVE TxInv'
  <2>1. PICK state \in {"aborted", "rolled back"} : tx' = [tx EXCEPT ![c] = state]
    BY <1>5 DEF StatementFails
  <2> QED
    BY <1>5, <2>1 DEF StatementFails
<1>6. ASSUME NEW c \in Caller, FnEnds(c) PROVE TxInv'
  <2>1. PICK o \in {"nil", "error", "panic", "exit"} :
              /\ out' = [out EXCEPT ![c] = o]
              /\ at' = [at EXCEPT ![c] = Deferred(o)]
    BY <1>6 DEF FnEnds
  <2>2. Deferred(o) = IF o \in {"panic", "error"} THEN "rollback" ELSE "commit"
    BY DEF Deferred
  <2>3. at[c] = "fn" /\ UNCHANGED <<tx, done, inUse>>
    BY <1>6 DEF FnEnds
  <2> QED
    BY <2>1, <2>2, <2>3
<1>7. ASSUME NEW c \in Caller, Rollback(c) PROVE TxInv'
  BY <1>7 DEF Rollback
<1>8. ASSUME NEW c \in Caller, CommitOK(c) PROVE TxInv'
  BY <1>8 DEF CommitOK, AfterCommit
<1>9. ASSUME NEW c \in Caller, CommitFails(c) PROVE TxInv'
  <2>1. PICK state \in {"rolled back", "committed"} : tx' = [tx EXCEPT ![c] = state]
    BY <1>9 DEF CommitFails
  <2>2. /\ at[c] = "commit" /\ inUse' = inUse \ {c} /\ UNCHANGED <<out, done>>
        /\ at' = [at EXCEPT ![c] = IF out[c] = "exit" THEN "exited" ELSE "returned error"]
    BY <1>9 DEF CommitFails, AfterCommit
  <2> QED
    BY <2>1, <2>2
<1>10. CASE UNCHANGED txvars
  BY <1>10 DEF txvars
<1> QED
  BY <1>1, <1>2, <1>3, <1>4, <1>5, <1>6, <1>7, <1>8, <1>9, <1>10 DEF TxNext, TxStep, Finish

LEMMA TxInvariance == TxSpec => []TxInv
  BY InitTx, NextTxInv, PTL DEF TxSpec

\* The pool never hands out more connections than it has.
LEMMA NextPoolBound ==
  ASSUME States, PoolBound, [TxNext]_txvars PROVE PoolBound'
<1>1. IsFiniteSet(inUse) /\ Cardinality(inUse) \in Nat
  BY PgTxConstants, FS_Subset, FS_CardinalityType DEF States
<1>2. ASSUME NEW c \in Caller, BeginOK(c) PROVE PoolBound'
  <2>1. Cardinality(inUse \cup {c}) <= Cardinality(inUse) + 1
    <3>1. Cardinality(inUse \cup {c}) \in {Cardinality(inUse), Cardinality(inUse) + 1}
      BY <1>1, FS_AddElement, Zenon
    <3> QED
      BY <1>1, <3>1
  <2>2. IsFiniteSet(inUse \cup {c}) /\ Cardinality(inUse \cup {c}) \in Nat
    BY <1>1, FS_AddElement, FS_CardinalityType
  <2> QED
    BY PgTxConstants, <1>1, <1>2, <2>1, <2>2 DEF BeginOK, Room, PoolBound
<1>3. ASSUME inUse' \subseteq inUse PROVE PoolBound'
  <2>1. Cardinality(inUse') <= Cardinality(inUse) /\ Cardinality(inUse') \in Nat
    BY <1>1, <1>3, FS_Subset, FS_CardinalityType
  <2> QED
    BY PgTxConstants, <1>1, <2>1 DEF PoolBound
<1>4. ASSUME NEW c \in Caller,
             WithTx(c) \/ BeginFails(c) \/ Cancel(c) \/ StatementFails(c) \/ Finish(c)
      PROVE  inUse' \subseteq inUse
  BY <1>4 DEF WithTx, BeginFails, Cancel, StatementFails, Finish, FnEnds,
              Rollback, CommitOK, CommitFails
<1> QED
  BY <1>2, <1>3, <1>4 DEF TxNext, TxStep, txvars

-----------------------------------------------------------------------------
\* Types, and no more connections than the pool has (postgres.go:78-97).
THEOREM TxTypeCorrect == TxSpec => []TxTypeOK
<1>1. TxInit => PoolBound
  BY PgTxConstants, FS_EmptySet DEF TxInit, PoolBound
<1>2. TxInv /\ PoolBound /\ [TxNext]_txvars => PoolBound'
  BY NextPoolBound DEF TxInv
<1>3. TxInv /\ PoolBound => TxTypeOK
  BY DEF TxInv, States, PoolBound, TxTypeOK
<1> QED
  BY <1>1, <1>2, <1>3, TxInvariance, PTL DEF TxSpec

\* A nil from WithTx is a committed transaction, and nothing is committed that fn
\* gave up with an error or a panic (postgres.go:83-96).
THEOREM Atomic == TxSpec => []AllOrNothing
<1>1. TxInv => NilMeansCommitted
  BY DEF TxInv, TxInOrder, NilMeansCommitted
<1>2. TxInv => CommittedWasFinished
  BY DEF TxInv, TxInOrder, CommittedWasFinished
<1>3. TxInv => AllOrNothing
  BY <1>1, <1>2 DEF AllOrNothing
<1> QED
  BY <1>3, TxInvariance, PTL

\* Every way out of WithTx gives the connection back and ends the transaction.
THEOREM NothingIsKept == TxSpec => []NothingKept
<1>1. TxInv => NothingKept
  BY DEF TxInv, HoldsInside, TxInOrder, NothingKept, Returned
<1> QED
  BY <1>1, TxInvariance, PTL
=============================================================================
