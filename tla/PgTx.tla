-------------------------------- MODULE PgTx --------------------------------
(***************************************************************************)
(* DB.WithTx of database/postgres/postgres.go on a pool of connections.    *)
(* pgx and Postgres are modelled from how the code uses them: a statement  *)
(* that fails aborts the transaction, COMMIT of an aborted transaction is  *)
(* a rollback and an error, and Commit and Rollback always give the        *)
(* connection back, destroyed if they failed.                              *)
(***************************************************************************)
EXTENDS Naturals, FiniteSets

CONSTANTS
  Caller,    \* goroutines that call WithTx
  MaxConns   \* connections of the pool

ASSUME PgTxConstants == IsFiniteSet(Caller) /\ MaxConns \in Nat \ {0}

VARIABLES
  at,        \* per caller: where WithTx stands or how it ended
  out,       \* per caller: how fn ended: "none", "nil", "error", "panic", "exit"
  tx,        \* per caller: its transaction on the server
  done,      \* callers whose ctx is done
  inUse      \* callers that hold a connection of the pool

txvars == <<at, out, tx, done, inUse>>

-----------------------------------------------------------------------------
Returned == {"idle", "returned nil", "returned error", "panicked", "exited"}

TxInit ==
  /\ at = [c \in Caller |-> "idle"]
  /\ out = [c \in Caller |-> "none"]
  /\ tx = [c \in Caller |-> "none"]
  /\ done = {} /\ inUse = {}

\* WithTx is called and asks the pool for a connection.
WithTx(c) ==
  /\ at[c] \in Returned
  /\ at' = [at EXCEPT ![c] = "begin"]
  /\ out' = [out EXCEPT ![c] = "none"]
  /\ tx' = [tx EXCEPT ![c] = "none"]
  /\ done' = done \ {c}
  /\ UNCHANGED inUse

\* The pool has a connection to give.
Room == Cardinality(inUse) < MaxConns

\* Begin gets a connection and starts the transaction; fn is called.
BeginOK(c) ==
  /\ at[c] = "begin" /\ c \notin done
  /\ Room
  /\ inUse' = inUse \cup {c}
  /\ tx' = [tx EXCEPT ![c] = "active"]
  /\ at' = [at EXCEPT ![c] = "fn"]
  /\ UNCHANGED <<out, done>>

\* Begin fails, because ctx is done or the server does not answer.
BeginFails(c) ==
  /\ at[c] = "begin"
  /\ at' = [at EXCEPT ![c] = "returned error"]
  /\ UNCHANGED <<out, tx, done, inUse>>

\* The deadline of ctx passes or its caller cancels it.
Cancel(c) ==
  /\ at[c] \notin Returned /\ c \notin done
  /\ done' = done \cup {c}
  /\ UNCHANGED <<at, out, tx, inUse>>

\* A statement of fn fails, which fn may ignore; or the connection is lost.
StatementFails(c) ==
  /\ at[c] = "fn" /\ tx[c] = "active"
  /\ \E state \in {"aborted", "rolled back"} : tx' = [tx EXCEPT ![c] = state]
  /\ UNCHANGED <<at, out, done, inUse>>

\* Mutant: the deferred function does not recover.
Unrecovered(o) == IF o = "panic" THEN "panicked" ELSE IF o = "error" THEN "rollback" ELSE "commit"

\* What the deferred function does next: recover() and err are nil after Goexit.
Deferred(o) == IF o \in {"panic", "error"} THEN "rollback" ELSE "commit"

\* fn returns, panics, or ends its goroutine with runtime.Goexit; with a ctx that
\* is done it may still return nil.
FnEnds(c) ==
  /\ at[c] = "fn"
  /\ \E o \in {"nil", "error", "panic", "exit"} :
       /\ out' = [out EXCEPT ![c] = o]
       /\ at' = [at EXCEPT ![c] = Deferred(o)]
  /\ UNCHANGED <<tx, done, inUse>>

\* tx.Rollback; if it fails the connection is destroyed and the server rolls
\* back.  Then fn's error is returned or its panic goes on.
Rollback(c) ==
  /\ at[c] = "rollback"
  /\ tx' = [tx EXCEPT ![c] = "rolled back"]
  /\ inUse' = inUse \ {c}
  /\ at' = [at EXCEPT ![c] = IF out[c] = "panic" THEN "panicked" ELSE "returned error"]
  /\ UNCHANGED <<out, done>>

\* Mutant: the error of Commit is dropped.
NilAfter(c, ok) == "returned nil"
AfterCommit(c, ok) ==
  IF out[c] = "exit" THEN "exited" ELSE IF ok THEN "returned nil" ELSE "returned error"

\* tx.Commit succeeds.
CommitOK(c) ==
  /\ at[c] = "commit" /\ tx[c] = "active" /\ c \notin done
  /\ tx' = [tx EXCEPT ![c] = "committed"]
  /\ inUse' = inUse \ {c}
  /\ at' = [at EXCEPT ![c] = AfterCommit(c, TRUE)]
  /\ UNCHANGED <<out, done>>

\* tx.Commit returns an error: the transaction was aborted or lost, COMMIT was
\* not sent or not executed, or it was executed and the answer did not arrive.
CommitFails(c) ==
  /\ at[c] = "commit"
  /\ \E state \in {"rolled back"} \cup (IF tx[c] = "active" THEN {"committed"} ELSE {}) :
       tx' = [tx EXCEPT ![c] = state]
  /\ inUse' = inUse \ {c}
  /\ at' = [at EXCEPT ![c] = AfterCommit(c, FALSE)]
  /\ UNCHANGED <<out, done>>

Finish(c) == FnEnds(c) \/ Rollback(c) \/ CommitOK(c) \/ CommitFails(c)
TxStep(c) ==
  \/ WithTx(c) \/ BeginOK(c) \/ BeginFails(c) \/ Cancel(c) \/ StatementFails(c)
  \/ Finish(c)

TxNext == \E c \in Caller : TxStep(c)

TxSpec == TxInit /\ [][TxNext]_txvars

\* fn returns, Commit and Rollback answer, and the pool serves its waiters in
\* turn, so no waiter is passed over for ever.
TxFairSpec ==
  /\ TxSpec
  /\ \A c \in Caller : WF_txvars(Finish(c)) /\ SF_txvars(BeginOK(c))

-----------------------------------------------------------------------------
TxTypeOK ==
  /\ at \in [Caller -> Returned \cup {"begin", "fn", "rollback", "commit"}]
  /\ out \in [Caller -> {"none", "nil", "error", "panic", "exit"}]
  /\ tx \in [Caller -> {"none", "active", "aborted", "committed", "rolled back"}]
  /\ done \in SUBSET Caller /\ inUse \in SUBSET Caller
  /\ Cardinality(inUse) <= MaxConns

\* If WithTx returns nil the transaction is committed, also when fn ignored a
\* failed statement, the connection was lost or ctx ran out (postgres.go:88-93).
NilMeansCommitted == \A c \in Caller : at[c] = "returned nil" => tx[c] = "committed"

\* "commits if fn returns nil, rolls back and returns fn's error otherwise"
\* (postgres.go:74-77): nothing is committed that fn gave up with an error or a
\* panic.  What fn leaves behind when it ends its goroutine is committed.
CommittedWasFinished == \A c \in Caller : tx[c] = "committed" => out[c] \in {"nil", "exit"}

\* "WithTx runs fn inside a transaction": what the caller is told, what fn did and
\* what the server has agree.
AllOrNothing == NilMeansCommitted /\ CommittedWasFinished

\* No way out of WithTx keeps a connection or leaves a transaction open.
NothingKept ==
  \A c \in Caller :
    at[c] \in Returned => c \notin inUse /\ tx[c] \notin {"active", "aborted"}

\* A caller that asks for a connection gets one, unless its ctx is done: the
\* others give theirs back.
PoolServes == \A c \in Caller : (at[c] = "begin") ~> (at[c] # "begin" \/ c \in done)
=============================================================================
