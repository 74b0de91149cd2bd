-------------------------------- MODULE Server --------------------------------
(***************************************************************************)
(* The life of a service, from server.Run in server/server.go: a goroutine *)
(* listens, Run waits for its error or for a signal, and shuts down within *)
(* a timeout.  net/http is modelled from how the code uses it: Shutdown    *)
(* closes the listener, waits for the accept loop, then for every          *)
(* connection that is new or serves a request, and closes the idle ones.   *)
(***************************************************************************)
EXTENDS FiniteSets

CONSTANTS
  Client,   \* clients, each with one connection at a time
  Hanging   \* those whose handler ends only when the context of its request does

ASSUME ServerConstants == Hanging \subseteq Client

VARIABLES
  main,      \* Run, or how it ended
  listener,  \* the goroutine that Run starts
  errCh,     \* its errors; the channel has room for one
  signalled, \* sigCtx is done
  conn,      \* per client: its connection; "active" while a request is served
  exited     \* the process is gone

vars == <<main, listener, errCh, signalled, conn, exited>>

-----------------------------------------------------------------------------
Returned == {"returned nil", "timed out", "listen failed"}

\* Shutdown has been called: net/http serves no new connection and closes a
\* connection after its response.
Shutting == main \in {"draining", "returned nil", "timed out"}

\* What Shutdown waits for.
Busy == {r \in Client : conn[r] \in {"new", "active"}}

Init ==
  /\ main = "new" /\ listener = "none"
  /\ errCh = {} /\ signalled = FALSE
  /\ conn = [r \in Client |-> "none"]
  /\ exited = FALSE

\* Run starts the goroutine.
Run ==
  /\ main = "new"
  /\ main' = "started" /\ listener' = "start"
  /\ UNCHANGED <<errCh, signalled, conn, exited>>

\* ListenAndServe has the port and accepts; or finds the server shut down.
Listen ==
  /\ listener = "start"
  /\ listener' = IF Shutting THEN "ended" ELSE "serving"
  /\ UNCHANGED <<main, errCh, signalled, conn, exited>>

\* The port is taken, or Accept fails for good.
ListenFails ==
  /\ listener \in {"start", "serving"} /\ ~Shutting
  /\ listener' = "failed"
  /\ UNCHANGED <<main, errCh, signalled, conn, exited>>

\* Serve returns ErrServerClosed, which is not reported.
ServerClosed ==
  /\ listener = "serving" /\ Shutting
  /\ listener' = "ended"
  /\ UNCHANGED <<main, errCh, signalled, conn, exited>>

\* The buffer of errCh.
HasRoom == errCh = {}

\* errCh <- err, and the goroutine ends.
SendError ==
  /\ listener = "failed" /\ HasRoom
  /\ errCh' = {"error"}
  /\ listener' = "ended"
  /\ UNCHANGED <<main, signalled, conn, exited>>

\* signal.NotifyContext
NotifyContext ==
  /\ main = "started"
  /\ main' = "select"
  /\ UNCHANGED <<listener, errCh, signalled, conn, exited>>

\* The process ends, and with it every connection.
Dropped == [r \in Client |-> CASE conn[r] = "active" -> "dropped"
                               [] conn[r] \in {"new", "idle"} -> "closed"
                               [] OTHER -> conn[r]]

\* NotifyContext has the signals until Run returns, which is when stop gives them
\* back to the process.
Notified == main \in {"select", "draining"}

\* SIGTERM or SIGINT, the first or another one; it ends a process that does not ask
\* for it, before Run and after it.
Signal ==
  /\ ~exited
  /\ IF Notified
     THEN signalled' = TRUE /\ UNCHANGED <<main, exited, conn>>
     ELSE main' = "killed" /\ exited' = TRUE /\ conn' = Dropped /\ UNCHANGED signalled
  /\ UNCHANGED <<listener, errCh>>

\* The ctx of Run is cancelled.
Cancel ==
  /\ ~signalled /\ ~exited
  /\ signalled' = TRUE
  /\ UNCHANGED <<main, listener, errCh, conn, exited>>

\* <-errCh is chosen: Run returns at once.
SelectError ==
  /\ main = "select" /\ errCh # {}
  /\ errCh' = {}
  /\ main' = "listen failed"
  /\ UNCHANGED <<listener, signalled, conn, exited>>

\* <-sigCtx.Done() is chosen: Shutdown is called.
SelectSignal ==
  /\ main = "select" /\ signalled
  /\ main' = "draining"
  /\ UNCHANGED <<listener, errCh, signalled, conn, exited>>

\* Mutant: Close instead of Shutdown.
NobodyWaits == TRUE
Drained == listener # "serving" /\ Busy = {}

\* Shutdown finds nothing left to wait for, and Run returns nil.
ShutdownReturns ==
  /\ main = "draining" /\ Drained
  /\ main' = "returned nil"
  /\ conn' = [r \in Client |-> IF conn[r] = "idle" THEN "closed" ELSE conn[r]]
  /\ UNCHANGED <<listener, errCh, signalled, exited>>

\* Mutant: a context without the timeout.
NoDeadline == FALSE
Deadline == TRUE

\* The shutdown timeout is over, and Run returns the error; the accept loop
\* has ended by then.
ShutdownExpires ==
  /\ main = "draining" /\ listener # "serving" /\ Deadline
  /\ main' = "timed out"
  /\ UNCHANGED <<listener, errCh, signalled, conn, exited>>

\* main() returns after Run.
Exit ==
  /\ main \in Returned /\ ~exited
  /\ exited' = TRUE
  /\ conn' = Dropped
  /\ UNCHANGED <<main, listener, errCh, signalled>>

-----------------------------------------------------------------------------
To(r, state) ==
  /\ ~exited
  /\ conn' = [conn EXCEPT ![r] = state]
  /\ UNCHANGED <<main, listener, errCh, signalled, exited>>

Accept(r) == conn[r] \in {"none", "closed"} /\ listener = "serving" /\ ~Shutting /\ To(r, "new")

\* A request is read from a new connection or from one that was kept alive.
Request(r) == conn[r] \in {"new", "idle"} /\ To(r, "active")

\* The handler returns and the response is written.
Respond(r) ==
  conn[r] = "active" /\ r \notin Hanging /\ To(r, IF Shutting THEN "closed" ELSE "idle")

\* The client does not wait for the response: the context of its request is
\* cancelled, and the handler returns.
Abandon(r) == conn[r] = "active" /\ To(r, "closed")

\* The client goes away before or after a request, or, when Shutdown runs,
\* net/http closes a connection that is idle or has been silent for long.
Disconnect(r) == conn[r] \in {"new", "idle"} /\ To(r, "closed")

Lifecycle == Run \/ NotifyContext \/ SelectError \/ SelectSignal \/ ShutdownReturns
Goroutine == Listen \/ ServerClosed \/ SendError
-----------------------------------------------------------------------------
TypeOK ==
  /\ main \in {"new", "started", "select", "draining", "killed"} \cup Returned
  /\ listener \in {"none", "start", "serving", "failed", "ended"}
  /\ errCh \in {{}, {"error"}}
  /\ signalled \in BOOLEAN /\ exited \in BOOLEAN
  /\ conn \in [Client -> {"none", "new", "active", "idle", "closed", "dropped"}]
  /\ main = "returned nil" => listener # "serving"

\* When Run returns nil no connection is left that waits for a response, and
\* none turns up until the process is gone (server.go:121-128).
NilMeansDrained ==
  main = "returned nil" => Busy = {} /\ \A r \in Client : conn[r] # "dropped"
=============================================================================
