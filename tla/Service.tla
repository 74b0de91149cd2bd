------------------------------- MODULE Service -------------------------------
(***************************************************************************)
(* A service from its start to its end: main() loads the configuration     *)
(* (config), sets up tracing (observability), builds the server and calls  *)
(* Run (server), and when that has returned calls Providers.Shutdown,      *)
(* whatever Run returned, and ends.  main() itself is the user's; its      *)
(* order is that of the packages' documentation.  The exporter and the     *)
(* collector are modelled from how observability.go uses them: a span that *)
(* has ended waits in the batcher until it is exported.                    *)
(***************************************************************************)
EXTENDS Server, Config, Integers, Sequences

CONSTANT QueueSize   \* the spans that the batcher holds

ASSUME ServiceConstants == QueueSize \in Nat \ {0}

VARIABLES
  boot,     \* how far main() has come before Run
  next,     \* the field that is loaded next
  env,      \* the environment, until it is loaded
  cfg,      \* what Load has returned
  down,     \* steps of Providers.Shutdown that are done
  errs,     \* one of them failed
  queued,   \* the number of spans in the batcher
  buffered, \* the clients whose requests they are of
  lost,     \* clients with spans that ended and were never exported
  outage,   \* history: the collector did not take an export
  overflow  \* history: the batcher had no room for a span

startup == <<boot, next, env, cfg>>
batcher == <<queued, buffered>>
telemetry == <<down, errs, batcher, lost, outage, overflow>>

-----------------------------------------------------------------------------
\* Environments that tell the outcomes of every field apart.
Inputs(kind) ==
  {Unset} \cup CASE kind = "duration" -> {"0", "1", "1s"}
                 [] kind = "string" -> {"", "x"}
                 [] kind = "strings" -> {"", "x"}
                 [] kind = "int32" -> {"", "1", "9"}
                 [] kind = "float" -> {"x", "0", "9"}
                 [] kind = "bool" -> {"0", "1", "x"}

Tagged == {f \in Fields : f.tagged}

Environments ==
  {e \in [{f.name : f \in Tagged} -> Raw \cup {Unset}] :
     \A f \in Tagged : e[f.name] \in Inputs(f.kind)}

ServiceInit ==
  /\ Init
  /\ boot = "load" /\ next = 1 /\ env \in Environments /\ cfg = Empty
  /\ down = 0 /\ errs = FALSE
  /\ queued = 0 /\ buffered = {} /\ lost = {} /\ outage = FALSE /\ overflow = FALSE

\* os.Exit, or the end of main() before Run.
Abort == exited' = TRUE /\ UNCHANGED <<main, listener, errCh, signalled, conn>>

Boots(from, to) == ~exited /\ boot = from /\ boot' = to

\* MustLoad, a turn of the loop of loadStruct at a time.
MustLoad ==
  LET f == Schema[next]
      last == next = Len(Schema)
  IN  /\ Boots("load", IF last /\ ~Fails(f, env) THEN "setup" ELSE "load")
      /\ next' = next + 1
      /\ env' = IF last THEN <<>> ELSE env
      /\ \/ Skips(f, env) /\ UNCHANGED cfg /\ UNCHANGED vars
         \/ Fails(f, env) /\ Abort /\ UNCHANGED cfg
         \/ /\ ~Skips(f, env) /\ ~Fails(f, env)
            /\ cfg' = [cfg EXCEPT ![f.name] = setField(f.kind, raw(f, env))]
            /\ UNCHANGED vars
      /\ UNCHANGED telemetry

\* Setup, and the collector need not be there.  Only an insecure connection gets
\* transport credentials, without which there is none.
Setup ==
  /\ Boots("setup", "new") /\ cfg["OTEL_EXPORTER_OTLP_INSECURE"]
  /\ UNCHANGED <<next, env, cfg>> /\ UNCHANGED telemetry /\ UNCHANGED vars

\* The resource, the client connection or an exporter is not to be had.
SetupFails ==
  /\ Boots("setup", "new")
  /\ Abort
  /\ UNCHANGED <<next, env, cfg>> /\ UNCHANGED telemetry

\* server.New; nobody looks at the configuration any more.
New ==
  /\ Boots("new", "run")
  /\ cfg' = <<>>
  /\ UNCHANGED <<next, env>> /\ UNCHANGED telemetry /\ UNCHANGED vars

-----------------------------------------------------------------------------
\* The request of r ends its span.  A batcher that is full drops it and tells nobody,
\* and a provider that is shut down does not take it.
EndSpan(r) ==
  /\ \/ /\ down = 0 /\ queued < QueueSize
        /\ queued' = queued + 1 /\ buffered' = buffered \cup {r}
        /\ UNCHANGED <<lost, overflow>>
     \/ /\ down = 0 /\ queued = QueueSize
        /\ lost' = lost \cup {r} /\ overflow' = TRUE
        /\ UNCHANGED batcher
     \/ /\ down > 0
        /\ lost' = lost \cup {r}
        /\ UNCHANGED <<batcher, overflow>>
  /\ UNCHANGED <<down, errs, outage>>

\* The middleware of tracing ends the span before the response is complete.  Whether
\* there is one is for the caller's span to say, or for the ratio if it has none.
Answer(r) ==
  /\ Respond(r) \/ Abandon(r)
  /\ EndSpan(r) \/ UNCHANGED telemetry

EmptyBatcher == queued' = 0 /\ buffered' = {}

\* The batcher exports what has ended.
Export ==
  /\ ~exited /\ down = 0 /\ buffered # {}
  /\ EmptyBatcher
  /\ \/ UNCHANGED <<lost, outage>>
     \/ outage' = TRUE /\ lost' = lost \cup buffered
  /\ UNCHANGED <<down, errs, overflow>> /\ UNCHANGED vars

\* Mutant: the connection is closed first.
ConnFirst == <<"conn", "tracer", "meter">>
Order == <<"tracer", "meter", "conn">>

Closed == \E i \in 1..down : Order[i] = "conn"

\* tp.Shutdown exports what is left.  It tells of a context that is done, and an
\* export that fails is for the global error handler alone.
ShutdownTracer ==
  /\ EmptyBatcher
  /\ \/ ~Closed /\ UNCHANGED <<lost, errs, outage>>
     \/ lost' = lost \cup buffered
        /\ \/ Closed /\ UNCHANGED <<errs, outage>>
           \/ outage' = TRUE /\ UNCHANGED errs
           \/ errs' = TRUE /\ UNCHANGED outage

\* Providers.Shutdown goes on to the next step whatever the one before returned.
Shutdown ==
  /\ main \in Returned /\ ~exited /\ down < Len(Order)
  /\ down' = down + 1
  /\ \/ Order[down'] = "tracer" /\ ShutdownTracer
     \/ Order[down'] # "tracer" /\ errs' \in {errs, TRUE} /\ UNCHANGED <<batcher, lost, outage>>
  /\ UNCHANGED overflow /\ UNCHANGED vars

\* main() ends, and requests that are served end without a span.
Leave ==
  /\ Exit /\ down = Len(Order)
  /\ \E S \in SUBSET {r \in Client : conn[r] = "active"} : lost' = lost \cup S
  /\ UNCHANGED <<down, errs, batcher, outage, overflow>>

-----------------------------------------------------------------------------
Boot == MustLoad \/ Setup \/ New
Quietly == UNCHANGED startup /\ UNCHANGED telemetry
Running == boot = "run" /\ ~exited /\ Quietly
Requests == \E r \in Client : Accept(r) \/ Request(r) \/ Disconnect(r)

Next ==
  \/ Boot \/ SetupFails
  \/ Running /\ (Lifecycle \/ ShutdownExpires \/ Goroutine \/ ListenFails)
  \/ Quietly /\ (Signal \/ Cancel \/ Requests)
  \/ UNCHANGED startup /\ (Export \/ Shutdown \/ Leave \/ \E r \in Client : Answer(r))

allvars == <<vars, startup, telemetry>>

Spec == ServiceInit /\ [][Next]_allvars

\* main() and the goroutines run, the timer fires, and handlers that do not hang
\* return.
FairSpec ==
  /\ Spec
  /\ WF_allvars(Boot \/ SetupFails)
  /\ WF_allvars(Running /\ Lifecycle)
  /\ WF_allvars(Running /\ ShutdownExpires)
  /\ WF_allvars(Running /\ Goroutine)
  /\ WF_allvars((Shutdown \/ Leave) /\ UNCHANGED startup)
  /\ \A r \in Client \ Hanging : WF_allvars(Answer(r) /\ UNCHANGED startup)

-----------------------------------------------------------------------------
ServiceTypeOK ==
  /\ TypeOK
  /\ next \in 1..(Len(Schema) + 1) /\ boot \in {"load", "setup", "new", "run"}
  /\ down \in 0..3 /\ errs \in BOOLEAN /\ outage \in BOOLEAN /\ overflow \in BOOLEAN
  /\ queued \in 0..QueueSize /\ (queued = 0 <=> buffered = {})
  /\ buffered \subseteq Client /\ lost \subseteq Client

\* Load returns only if every field could be loaded, and each has what the text of its
\* variable means, or of its default if that is not set; and it fails only if some field
\* could not (config.go:4-12,26-28,52-94).  Two exceptions are the code's: a number that
\* the field has no room for becomes another one (:128), and a field with neither
\* variable nor default, which :6 calls required, keeps its zero unless it is marked.
LoadedAsTagged ==
  [][boot = "load" =>
       /\ boot' # "load" =>
            \A f \in Fields :
              /\ Loadable(f, env)
              /\ Text(f, env) = Unset \/ Fits(f.kind, Text(f, env)) =>
                   Holds(f, env, cfg'[f.name])
       /\ exited' /\ main' # "killed" => \E f \in Fields : ~Loadable(f, env)]_allvars

\* When Run has returned nil and main() has come to its end, with no error from
\* Providers.Shutdown, a collector that took what it was sent and a batcher that had
\* room, every span of a request that was answered is exported
\* (observability.go:39-44,85,106-122, server.go:112,121-128).
SpansSurvive ==
  exited /\ main = "returned nil" /\ ~errs /\ ~outage /\ ~overflow =>
    lost = {} /\ buffered = {}

\* A signal ends the service, whatever handlers hang (server.go:111-128).
EndsWhenTold == signalled ~> exited
=============================================================================
