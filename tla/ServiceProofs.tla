---------------------------- MODULE ServiceProofs ----------------------------
(***************************************************************************)
(* Theorems about a service from its start to its end (Service, with       *)
(* Server and Config), for any clients and handlers, any environment and   *)
(* whatever the collector and the signals do; and about its readiness      *)
(* (HealthRegistry).                                                       *)
(***************************************************************************)
EXTENDS Service, HealthRegistry, TLAPS

\* The fields of the schema, one by one.
LEMMA SchemaFields ==
  /\ Len(Schema) = 7
  /\ Schema[1] = Field("HTTP_SHUTDOWN_INTERVAL", "duration", "1s", FALSE)
  /\ Schema[2] = Field("POSTGRES_DSN", "string", Unset, TRUE)
  /\ Schema[3] = Field("POSTGRES_MAX_CONNS", "int32", "1", FALSE)
  /\ Schema[4] = Field("OTEL_TRACES_SAMPLE_RATIO", "float", "9", FALSE)
  /\ Schema[5] = Field("OTEL_EXPORTER_OTLP_INSECURE", "bool", "1", FALSE)
  /\ Schema[6] = Field("FEATURES", "strings", Unset, FALSE)
  /\ Schema[7] = [name |-> "cache", kind |-> "string", default |-> Unset,
                  required |-> FALSE, tagged |-> FALSE]
<1>1. ASSUME NEW a, NEW b, NEW c, NEW d, NEW e, NEW f, NEW g,
             NEW s, s = <<a>> \o <<b, c>> \o <<d, e>> \o <<f, g>>
      PROVE  /\ Len(s) = 7
             /\ s[1] = a /\ s[2] = b /\ s[3] = c /\ s[4] = d /\ s[5] = e /\ s[6] = f /\ s[7] = g
  BY <1>1
<1> DEFINE a == Field("HTTP_SHUTDOWN_INTERVAL", "duration", "1s", FALSE)
           b == Field("POSTGRES_DSN", "string", Unset, TRUE)
           c == Field("POSTGRES_MAX_CONNS", "int32", "1", FALSE)
           d == Field("OTEL_TRACES_SAMPLE_RATIO", "float", "9", FALSE)
           e == Field("OTEL_EXPORTER_OTLP_INSECURE", "bool", "1", FALSE)
           f == Field("FEATURES", "strings", Unset, FALSE)
           g == [name |-> "cache", kind |-> "string", default |-> Unset,
                 required |-> FALSE, tagged |-> FALSE]
<1>2. Schema = <<a>> \o <<b, c>> \o <<d, e>> \o <<f, g>>
  BY DEF Schema, ServerConfig, PostgresConfig, OTelConfig, Own
<1> HIDE DEF a, b, c, d, e, f, g
<1>3. /\ Len(Schema) = 7
      /\ Schema[1] = a /\ Schema[2] = b /\ Schema[3] = c /\ Schema[4] = d /\ Schema[5] = e
      /\ Schema[6] = f /\ Schema[7] = g
  BY <1>1, <1>2
<1> QED
  BY <1>3 DEF a, b, c, d, e, f, g

\* There is something to load.
LEMMA SchemaLength == Len(Schema) = 7
  BY SchemaFields

-----------------------------------------------------------------------------
\* After a Shutdown that was not cut short every connection is closed for good.
AllClosed == main = "returned nil" => \A r \in Client : conn[r] \in {"none", "closed"}

\* Only the end of the process drops a response.
DroppedAtExit == ~exited => \A r \in Client : conn[r] # "dropped"

ServerInv == TypeOK /\ AllClosed /\ DroppedAtExit

\* Run is called when everything is set up; before, only a signal does anything to
\* it.  The loader does not go past the last field.
BootInv ==
  /\ next \in 1..(Len(Schema) + 1) /\ boot \in {"load", "setup", "new", "run"}
  /\ boot # "run" => main \in {"new", "killed"}
  /\ boot = "load" /\ ~exited => next <= Len(Schema)

\* Providers.Shutdown comes after Run and empties the batcher, and until the service
\* has drained nothing is lost without an error, an outage of the collector, or a batcher
\* that is full.
SpansKept ==
  /\ main \notin Returned \cup {"killed"} => down = 0
  /\ down = 0 /\ lost # {} => outage = TRUE \/ overflow = TRUE
  /\ down # 0 => buffered = {}
  /\ main = "returned nil" /\ lost # {} => outage = TRUE \/ errs = TRUE \/ overflow = TRUE
  /\ exited /\ main \in Returned => down = 3

SpanTypes ==
  /\ down \in 0..3 /\ errs \in BOOLEAN /\ outage \in BOOLEAN /\ overflow \in BOOLEAN
  /\ buffered \subseteq Client /\ lost \subseteq Client

\* The batcher counts the spans it has.
QueueTypes == queued \in 0..QueueSize /\ (queued = 0 <=> buffered = {})

SpanInv == SpanTypes /\ QueueTypes /\ SpansKept

IInv == ServerInv /\ BootInv /\ SpanInv

LEMMA InitIInv == ServiceInit => IInv
<1> SUFFICES ASSUME ServiceInit PROVE IInv
  OBVIOUS
<1>1. ServerInv
  BY DEF ServiceInit, Init, ServerInv, TypeOK, AllClosed, DroppedAtExit, Returned
<1>2. BootInv
  BY SchemaLength DEF ServiceInit, Init, BootInv
<1>3. SpanInv
  <2>1. main = "new" /\ down = 0 /\ errs = FALSE /\ outage = FALSE /\ overflow = FALSE
        /\ buffered = {} /\ lost = {} /\ queued = 0
    BY DEF ServiceInit, Init
  <2>2. SpansKept
    BY <2>1 DEF SpansKept, Returned
  <2>3. errs \in BOOLEAN /\ outage \in BOOLEAN /\ overflow \in BOOLEAN
        /\ buffered \subseteq Client /\ lost \subseteq Client
    BY <2>1, Zenon
  <2>4. QueueTypes
    BY <2>1, ServiceConstants DEF QueueTypes
  <2> QED
    BY <2>1, <2>2, <2>3, <2>4 DEF SpanInv, SpanTypes
<1> QED
  BY <1>1, <1>2, <1>3 DEF IInv

\* When the process is gone nothing happens any more.
LEMMA NothingAfterExit == Next => ~exited
  BY DEF Next, Boot, MustLoad, Setup, New, SetupFails, Boots, Running, Signal, Cancel, Requests,
         Accept, Request, Disconnect, To, Export, Shutdown, Leave, Exit, Answer, Respond, Abandon

\* What the server does to the phases of Run, as far as the others need to know.
RunsOn ==
  /\ boot # "run" /\ main \in {"new", "killed"} => main' \in {"new", "killed"}
  /\ ~exited' => ~exited
  /\ main \in Returned \cup {"killed"} => main' = main \/ main' = "killed"
  /\ exited' => main' \notin Returned

\* Every step of main() before Run preserves the invariant.
LEMMA BootKeeps == ASSUME IInv, Boot \/ SetupFails PROVE IInv'
<1>1. UNCHANGED vars \/ Abort
  BY DEF Boot, SetupFails, MustLoad, Setup, New
<1>2. ServerInv'
  BY <1>1 DEF IInv, ServerInv, TypeOK, AllClosed, DroppedAtExit, vars, Abort
<1>3. boot # "run" /\ main' = main /\ main \in {"new", "killed"} /\ (~exited' => ~exited)
  BY <1>1 DEF IInv, BootInv, Boot, SetupFails, MustLoad, Setup, New, Boots, vars, Abort
<1>4. BootInv'
  <2>1. CASE MustLoad
    <3>1. next \in 1..7 /\ next' = next + 1
      BY <2>1, SchemaLength DEF MustLoad, Boots, IInv, BootInv
    <3>2. CASE next = 7
      <4>1. boot' = "setup" \/ exited'
        BY <2>1, <3>2, SchemaLength DEF MustLoad, Boots, Abort, Skips, Fails
      <4>2. boot' \in {"setup", "load"}
        BY <2>1 DEF MustLoad, Boots
      <4> QED
        BY <1>3, <3>1, <3>2, <4>1, <4>2, SchemaLength DEF BootInv, IInv
    <3>3. CASE next # 7
      <4>1. boot' = "load"
        BY <2>1, <3>3, SchemaLength DEF MustLoad, Boots
      <4> QED
        BY <1>3, <3>1, <3>3, <4>1, SchemaLength DEF BootInv, IInv
    <3> QED
      BY <3>2, <3>3
  <2>2. CASE Setup \/ New \/ SetupFails
    <3>1. boot' \in {"new", "run"} /\ next' = next
      BY <2>2 DEF Setup, New, SetupFails, Boots
    <3> QED
      BY <1>3, <3>1 DEF IInv, BootInv
  <2> QED
    BY <2>1, <2>2 DEF Boot
<1>5. SpanInv'
  <2>1. UNCHANGED telemetry
    BY DEF Boot, SetupFails, MustLoad, Setup, New
  <2> QED
    BY <1>3, <2>1 DEF IInv, SpanInv, SpanTypes, QueueTypes, SpansKept, telemetry, batcher, Returned
<1> QED
  BY <1>2, <1>4, <1>5 DEF IInv

\* Every step of Run, its goroutine, the clients and the signals.
LEMMA ServerKeeps ==
  ASSUME ServerInv, ~exited,
         \/ boot = "run" /\ (Lifecycle \/ ShutdownExpires \/ Goroutine \/ ListenFails)
         \/ Signal \/ Cancel \/ Requests
  PROVE  ServerInv' /\ RunsOn
<1> USE DEF ServerInv, TypeOK, AllClosed, DroppedAtExit, Returned, RunsOn
<1>1. CASE boot = "run" /\ Run
  BY <1>1 DEF Run
<1>2. CASE boot = "run" /\ NotifyContext
  BY <1>2 DEF NotifyContext
<1>3. CASE boot = "run" /\ SelectError
  BY <1>3 DEF SelectError
<1>4. CASE boot = "run" /\ SelectSignal
  BY <1>4 DEF SelectSignal
<1>5. CASE boot = "run" /\ ShutdownReturns
  BY <1>5 DEF ShutdownReturns, Drained, Busy
<1>6. CASE boot = "run" /\ ShutdownExpires
  BY <1>6 DEF ShutdownExpires
<1>7. CASE boot = "run" /\ Listen
  BY <1>7 DEF Listen, Shutting
<1>8. CASE boot = "run" /\ ServerClosed
  BY <1>8 DEF ServerClosed
<1>9. CASE boot = "run" /\ ListenFails
  BY <1>9 DEF ListenFails, Shutting
<1>15. CASE boot = "run" /\ SendError
  BY <1>15 DEF SendError
<1>10. CASE Signal
  BY <1>10 DEF Signal, Notified, Dropped
<1>11. CASE Cancel
  BY <1>11 DEF Cancel
<1>12. ASSUME NEW r \in Client, Accept(r) PROVE ServerInv' /\ RunsOn
  BY <1>12 DEF Accept, To, Shutting
<1>13. ASSUME NEW r \in Client, Request(r) PROVE ServerInv' /\ RunsOn
  BY <1>13 DEF Request, To
<1>14. ASSUME NEW r \in Client, Disconnect(r) PROVE ServerInv' /\ RunsOn
  BY <1>14 DEF Disconnect, To
<1> QED
  BY <1>1, <1>2, <1>3, <1>4, <1>5, <1>6, <1>7, <1>8, <1>9, <1>10, <1>11, <1>12, <1>13, <1>14, <1>15
     DEF Lifecycle, Goroutine, Requests

\* A step of the server leaves main() and the spans as they are.
LEMMA QuietlyKeeps == ASSUME IInv, Quietly, RunsOn, main' \in {"new", "killed"} \/ boot = "run"
                      PROVE  BootInv' /\ SpanInv'
<1>1. BootInv'
  BY DEF IInv, BootInv, Quietly, RunsOn, startup
<1>2. UNCHANGED <<down, errs, queued, buffered, lost, outage, overflow>>
  BY DEF Quietly, telemetry, batcher
<1>3. SpanTypes' /\ QueueTypes'
  BY <1>2 DEF IInv, SpanInv, SpanTypes, QueueTypes
<1>4. SpansKept'
  <2>1. main' \notin Returned \cup {"killed"} => main \notin Returned \cup {"killed"}
    BY DEF RunsOn
  <2>2. main' = "returned nil" => main = "returned nil" \/ main \notin Returned \cup {"killed"}
    BY DEF RunsOn, Returned
  <2>3. ~(exited' /\ main' \in Returned)
    BY DEF RunsOn
  <2>4. SpansKept
    BY DEF IInv, SpanInv
  <2>5. main' = "returned nil" /\ lost' # {} => outage' = TRUE \/ errs' = TRUE \/ overflow' = TRUE
    BY <1>2, <2>2, <2>4, Zenon DEF SpansKept
  <2>6. /\ main' \notin Returned \cup {"killed"} => down' = 0
        /\ down' = 0 /\ lost' # {} => outage' = TRUE \/ overflow' = TRUE
        /\ down' # 0 => buffered' = {}
    BY <1>2, <2>1, <2>4, Zenon DEF SpansKept
  <2> QED
    BY <2>3, <2>5, <2>6, Zenon DEF SpansKept
<1> QED
  BY <1>1, <1>3, <1>4 DEF SpanInv

\* The spans are what they were when neither main() nor the batcher has done anything.
LEMMA SpansStay == ASSUME SpanInv, UNCHANGED telemetry, UNCHANGED <<main, exited>> PROVE SpanInv'
<1>1. UNCHANGED <<main, exited, down, errs, queued, buffered, lost, outage, overflow>>
  BY DEF telemetry, batcher
<1>2. SpanTypes' /\ QueueTypes'
  BY <1>1 DEF SpanInv, SpanTypes, QueueTypes
<1>3. SpansKept
  BY DEF SpanInv
<1>4. /\ main' \notin Returned \cup {"killed"} => down' = 0
      /\ down' # 0 => buffered' = {}
  BY <1>1, <1>3, Zenon DEF SpansKept
<1>5. /\ down' = 0 /\ lost' # {} => outage' = TRUE \/ overflow' = TRUE
      /\ main' = "returned nil" /\ lost' # {} => outage' = TRUE \/ errs' = TRUE \/ overflow' = TRUE
  BY <1>1, <1>3, Zenon DEF SpansKept
<1>6. exited' /\ main' \in Returned => down' = 3
  <2>1. exited /\ main \in Returned => down = 3
    BY <1>3 DEF SpansKept
  <2>2. main' = main /\ down' = down /\ (exited' => exited)
    BY <1>1
  <2> QED
    BY <2>1, <2>2
<1> QED
  BY <1>2, <1>4, <1>5, <1>6, Zenon DEF SpanInv, SpansKept

\* Every step of the exporter, of Providers.Shutdown and of the end preserves the invariant.
LEMMA TelemetryKeeps ==
  ASSUME IInv, UNCHANGED startup, ~exited,
         Export \/ Shutdown \/ Leave \/ \E r \in Client : Answer(r)
  PROVE  IInv'
<1>1. CASE Export
  <2>1. UNCHANGED vars /\ down = 0 /\ UNCHANGED <<down, errs, overflow>>
        /\ buffered' = {} /\ queued' = 0
    BY <1>1 DEF Export, EmptyBatcher
  <2>2. ServerInv' /\ BootInv'
    BY <2>1 DEF IInv, ServerInv, TypeOK, AllClosed, DroppedAtExit, BootInv, vars, startup
  <2>3. \/ UNCHANGED <<lost, outage>>
        \/ outage' = TRUE /\ lost' = lost \cup buffered
    BY <1>1 DEF Export
  <2>4. SpanTypes'
    <3>1. buffered' \subseteq Client /\ lost' \subseteq Client
      BY <2>1, <2>3, Zenon DEF IInv, SpanInv, SpanTypes
    <3>2. outage' \in BOOLEAN /\ errs' \in BOOLEAN /\ overflow' \in BOOLEAN
      BY <2>1, <2>3, Zenon DEF IInv, SpanInv, SpanTypes
    <3>3. down' \in 0..3
      BY <2>1
    <3> QED
      BY <3>1, <3>2, <3>3, Zenon DEF SpanTypes
  <2>6. QueueTypes'
    BY <2>1, ServiceConstants DEF QueueTypes
  <2>5. SpansKept'
    BY <2>1, <2>3 DEF IInv, SpanInv, SpansKept, vars
  <2> QED
    BY <2>2, <2>4, <2>5, <2>6 DEF IInv, SpanInv
<1>2. CASE Shutdown
  <2>1. ServerInv'
    BY <1>2 DEF Shutdown, IInv, ServerInv, TypeOK, AllClosed, DroppedAtExit, vars
  <2>2. BootInv'
    BY <1>2 DEF Shutdown, IInv, BootInv, vars, startup
  <2>3. UNCHANGED <<main, exited>> /\ main \in Returned /\ down \in 0..2 /\ down' = down + 1
    BY <1>2 DEF Shutdown, vars, Order, IInv, SpanInv, SpanTypes
  <2>o. overflow' = overflow /\ overflow \in BOOLEAN
    BY <1>2, Zenon DEF Shutdown, IInv, SpanInv, SpanTypes
  <2>4. /\ errs' \in BOOLEAN /\ outage' \in BOOLEAN /\ buffered' = {} /\ lost' \subseteq Client
        /\ lost' # {} => (down # 0 /\ lost' = lost /\ outage' = outage /\ errs' \in {errs, TRUE})
                          \/ outage' = TRUE \/ errs' = TRUE \/ overflow' = TRUE
    <3>1. CASE down = 0
      <4>1. ~Closed /\ Order[down'] = "tracer"
        BY <2>3, <3>1 DEF Closed, Order
      <4>2. ShutdownTracer
        BY <1>2, <4>1 DEF Shutdown
      <4>3. down = 0 /\ lost # {} => outage = TRUE \/ overflow = TRUE
        BY DEF IInv, SpanInv, SpansKept
      <4>4. errs \in BOOLEAN /\ outage \in BOOLEAN /\ buffered \subseteq Client /\ lost \subseteq Client
        BY DEF IInv, SpanInv, SpanTypes
      <4> QED
        BY <2>o, <3>1, <4>1, <4>2, <4>3, <4>4, Zenon DEF ShutdownTracer, EmptyBatcher
    <3>2. CASE down # 0
      <4>1. Order[down'] # "tracer"
        BY <2>3, <3>2 DEF Order
      <4>2. errs' \in {errs, TRUE} /\ UNCHANGED <<buffered, lost, outage>>
        BY <1>2, <4>1 DEF Shutdown, batcher
      <4>3. buffered = {}
        BY <3>2 DEF IInv, SpanInv, SpansKept
      <4>4. errs \in BOOLEAN /\ outage \in BOOLEAN /\ lost \subseteq Client
        BY DEF IInv, SpanInv, SpanTypes
      <4>5. errs' \in BOOLEAN
        BY <4>2, <4>4, Zenon
      <4> QED
        BY <3>2, <4>2, <4>3, <4>4, <4>5, Zenon
    <3> QED
      BY <3>1, <3>2
  <2>5. main = "returned nil" /\ lost # {} => outage = TRUE \/ errs = TRUE \/ overflow = TRUE
    BY DEF IInv, SpanInv, SpansKept
  <2>6. main' = "returned nil" /\ lost' # {} => outage' = TRUE \/ errs' = TRUE \/ overflow' = TRUE
    BY <2>3, <2>4, <2>5, <2>o, Zenon
  <2>7. down' \in 1..3
    BY <2>3
  <2>8. SpanTypes' /\ QueueTypes'
    <3>1. SpanTypes'
      BY <2>4, <2>7, <2>o DEF SpanTypes
    <3>2. CASE down = 0
      <4>1. ShutdownTracer
        BY <1>2, <2>3, <3>2 DEF Shutdown, Order
      <4> QED
        BY <3>1, <4>1, ServiceConstants DEF ShutdownTracer, EmptyBatcher, QueueTypes
    <3>3. CASE down # 0
      <4>1. Order[down'] # "tracer"
        BY <2>3, <3>3 DEF Order
      <4>2. UNCHANGED batcher
        BY <1>2, <4>1, Zenon DEF Shutdown
      <4> QED
        BY <3>1, <4>2 DEF batcher, QueueTypes, IInv, SpanInv
    <3> QED
      BY <3>2, <3>3
  <2>9. ~exited'
    BY <2>3, Zenon
  <2>10. SpansKept'
    <3>1. down' # 0
      BY <2>7
    <3>2. main' \in Returned /\ buffered' = {}
      BY <2>3, <2>4, Zenon
    <3> QED
      BY <2>6, <2>9, <3>1, <3>2, Zenon DEF SpansKept
  <2> QED
    BY <2>1, <2>2, <2>8, <2>10 DEF IInv, SpanInv
<1>3. CASE Leave
  <2>1. main \in Returned /\ down = 3 /\ exited' /\ conn' = Dropped
        /\ UNCHANGED <<main, listener, errCh, signalled, down, errs, queued, buffered, outage, overflow>>
    BY <1>3 DEF Leave, Exit, Order, batcher
  <2>2. ServerInv'
    BY <2>1 DEF IInv, ServerInv, TypeOK, AllClosed, DroppedAtExit, Dropped
  <2>3. BootInv'
    BY <2>1 DEF IInv, BootInv, startup
  <2>4. PICK S \in SUBSET {r \in Client : conn[r] = "active"} : lost' = lost \cup S
    BY <1>3 DEF Leave
  <2>5. S \subseteq {r \in Client : conn[r] = "active"}
    BY <2>4
  <2>6. main = "returned nil" => S = {}
    BY <2>5 DEF IInv, ServerInv, AllClosed
  <2>7. SpanTypes' /\ QueueTypes'
    BY <2>1, <2>4, <2>5 DEF IInv, SpanInv, SpanTypes, QueueTypes
  <2>8. main = "returned nil" /\ lost' # {} => outage = TRUE \/ errs = TRUE \/ overflow = TRUE
    <3>1. main = "returned nil" /\ lost # {} => outage = TRUE \/ errs = TRUE \/ overflow = TRUE
      BY DEF IInv, SpanInv, SpansKept
    <3>2. main = "returned nil" => lost' = lost
      BY <2>4, <2>6
    <3> QED
      BY <3>1, <3>2, Zenon
  <2>9. buffered' = {} /\ down' = 3 /\ main' \in Returned
    <3>1. down # 0 => buffered = {}
      BY Zenon DEF IInv, SpanInv, SpansKept
    <3>2. down = 3 /\ down' = down /\ buffered' = buffered /\ main \in Returned /\ main' = main
      BY <2>1, Zenon
    <3> QED
      BY <3>1, <3>2
  <2>10. main' = "returned nil" /\ lost' # {} => outage' = TRUE \/ errs' = TRUE \/ overflow' = TRUE
    BY <2>1, <2>8, Zenon
  <2>11. SpansKept'
    <3>1. down' # 0
      BY <2>9
    <3> QED
      BY <2>9, <2>10, <3>1, Zenon DEF SpansKept
  <2> QED
    BY <2>2, <2>3, <2>7, <2>11 DEF IInv, SpanInv
<1>4. ASSUME NEW r \in Client, Answer(r) PROVE IInv'
  <2>1. conn[r] = "active" /\ UNCHANGED <<main, listener, errCh, signalled, exited>>
        /\ \E c \in {"closed", "idle"} : conn' = [conn EXCEPT ![r] = c]
    BY <1>4 DEF Answer, Respond, Abandon, To
  <2>2. main # "returned nil"
    BY <2>1 DEF IInv, ServerInv, AllClosed
  <2>3. ServerInv'
    BY <2>1, <2>2 DEF IInv, ServerInv, TypeOK, AllClosed, DroppedAtExit
  <2>4. BootInv'
    BY <2>1 DEF IInv, BootInv, startup
  <2>5. ASSUME UNCHANGED telemetry PROVE SpanInv'
    BY <2>1, <2>5, SpansStay DEF IInv, SpanInv
  <2>6. ASSUME EndSpan(r) PROVE SpanInv'
    <3>1. UNCHANGED <<down, errs, outage>> /\ lost' \in {lost, lost \cup {r}}
      BY <2>6, Zenon DEF EndSpan
    <3>2. /\ overflow' = overflow \/ overflow' = TRUE
          /\ buffered' = buffered \/ (down = 0 /\ buffered' = buffered \cup {r})
      BY <2>6, Zenon DEF EndSpan, batcher
    <3>3. SpanTypes'
      BY <3>1, <3>2, Zenon DEF IInv, SpanInv, SpanTypes
    <3>4. QueueTypes'
      <4>1. QueueTypes
        BY DEF IInv, SpanInv
      <4>2. \/ queued < QueueSize /\ queued' = queued + 1 /\ buffered' = buffered \cup {r}
            \/ queued' = queued /\ buffered' = buffered
        BY <2>6, Zenon DEF EndSpan, batcher
      <4> QED
        BY <4>1, <4>2, ServiceConstants DEF QueueTypes
    <3>5. down' = 0 /\ lost' # {} => outage' = TRUE \/ overflow' = TRUE
      <4>1. down = 0 /\ lost # {} => outage = TRUE \/ overflow = TRUE
        BY DEF IInv, SpanInv, SpansKept
      <4>2. down = 0 => lost' = lost \/ overflow' = TRUE
        <5>1. down = 0 => ~(down > 0)
          BY DEF IInv, SpanInv, SpanTypes
        <5> QED
          BY <2>6, <5>1, Zenon DEF EndSpan
      <4> QED
        BY <3>1, <3>2, <4>1, <4>2, Zenon
    <3>6. SpansKept'
      BY <2>1, <2>2, <3>1, <3>2, <3>5, Zenon DEF IInv, SpanInv, SpansKept
    <3> QED
      BY <3>3, <3>4, <3>6 DEF SpanInv
  <2>7. SpanInv'
    BY <1>4, <2>5, <2>6, Zenon DEF Answer
  <2> QED
    BY <2>3, <2>4, <2>7 DEF IInv
<1> QED
  BY <1>1, <1>2, <1>3, <1>4

\* The invariant holds from the start to the end of a service.
LEMMA Invariance == Spec => []IInv
<1>1. ASSUME IInv, Next PROVE IInv'
  <2>1. ~exited
    BY <1>1, NothingAfterExit
  <2>2. CASE Boot \/ SetupFails
    BY <1>1, <2>2, BootKeeps
  <2>3. CASE Running /\ (Lifecycle \/ ShutdownExpires \/ Goroutine \/ ListenFails)
    <3>1. ServerInv' /\ RunsOn
      BY <1>1, <2>1, <2>3, ServerKeeps DEF IInv, Running
    <3> QED
      BY <1>1, <2>3, <3>1, QuietlyKeeps DEF IInv, Running
  <2>4. CASE Quietly /\ (Signal \/ Cancel \/ Requests)
    <3>1. ServerInv' /\ RunsOn
      BY <1>1, <2>1, <2>4, ServerKeeps DEF IInv
    <3>2. main' \in {"new", "killed"} \/ boot = "run"
      BY <1>1, <3>1 DEF IInv, BootInv, RunsOn
    <3> QED
      BY <1>1, <2>4, <3>1, <3>2, QuietlyKeeps DEF IInv
  <2>5. CASE UNCHANGED startup /\ (Export \/ Shutdown \/ Leave \/ \E r \in Client : Answer(r))
    BY <1>1, <2>1, <2>5, TelemetryKeeps
  <2> QED
    BY <1>1, <2>2, <2>3, <2>4, <2>5 DEF Next
<1>2. IInv /\ UNCHANGED allvars => IInv'
  <2> SUFFICES ASSUME IInv, UNCHANGED allvars PROVE ServerInv' /\ BootInv' /\ SpanInv'
    BY DEF IInv
  <2>1. UNCHANGED vars /\ UNCHANGED startup /\ UNCHANGED telemetry
    BY DEF allvars
  <2>2. ServerInv'
    BY <2>1 DEF IInv, ServerInv, TypeOK, AllClosed, DroppedAtExit, vars
  <2>3. BootInv'
    BY <2>1 DEF IInv, BootInv, vars, startup
  <2>4. SpanInv'
    <3>1. UNCHANGED <<main, exited>>
      BY <2>1 DEF vars
    <3> QED
      BY <2>1, <3>1, SpansStay DEF IInv
  <2> QED
    BY <2>2, <2>3, <2>4
<1> QED
  BY InitIInv, <1>1, <1>2, PTL DEF Spec

-----------------------------------------------------------------------------
\* Type correctness of the whole service, from the first field that is loaded on.
THEOREM TypeCorrect == Spec => []ServiceTypeOK
<1>1. IInv => ServiceTypeOK
  BY DEF IInv, ServerInv, BootInv, SpanInv, SpanTypes, QueueTypes, ServiceTypeOK
<1> QED
  BY <1>1, Invariance, PTL

\* When Run returns nil nobody waits for a response, and nobody ever loses one, for any
\* number of clients and whichever of their handlers hang (server.go:121-128).
THEOREM Drains == Spec => []NilMeansDrained
<1>1. IInv => NilMeansDrained
  BY DEF IInv, ServerInv, AllClosed, NilMeansDrained, Busy
<1> QED
  BY <1>1, Invariance, PTL

\* Neither the draining of Run nor the order of Providers.Shutdown loses a span: in a
\* service that comes to its end after a drained Run, only an error, an outage of the
\* collector or a batcher without room does, for any size of the batcher
\* (observability.go:85,106-122, server.go:112,121-128).
THEOREM NoSpanLost == Spec => []SpansSurvive
<1>1. IInv => SpansSurvive
  <2>1. SUFFICES ASSUME SpansKept, exited, main = "returned nil", ~errs, ~outage, ~overflow
                 PROVE  lost = {} /\ buffered = {}
    BY DEF IInv, SpanInv, SpansSurvive
  <2>2. exited /\ main \in Returned => down = 3
    BY <2>1 DEF SpansKept
  <2>3. down = 3
    BY <2>1, <2>2, Zenon DEF Returned
  <2>4. buffered = {}
    <3>1. down # 0 => buffered = {}
      BY <2>1, Zenon DEF SpansKept
    <3> QED
      BY <2>3, <3>1
  <2>5. main = "returned nil" /\ lost # {} => outage = TRUE \/ errs = TRUE \/ overflow = TRUE
    BY <2>1 DEF SpansKept
  <2>6. lost = {}
    BY <2>1, <2>5, Zenon
  <2> QED
    BY <2>4, <2>6
<1> QED
  BY <1>1, Invariance, PTL

-----------------------------------------------------------------------------
(***************************************************************************)
(* What is loaded.                                                         *)
(***************************************************************************)
\* What is used of exponentiation, of which the provers know nothing.
PowersOfTwo == \A n \in Nat : 2 ^ n \in Nat /\ 2 ^ (n + 1) = 2 * 2 ^ n

\* Every field has a name of its own.
LEMMA NamesDiffer == \A i, j \in 1..7 : Schema[i].name = Schema[j].name => i = j
<1>1. /\ Schema[1].name = "HTTP_SHUTDOWN_INTERVAL" /\ Schema[2].name = "POSTGRES_DSN"
      /\ Schema[3].name = "POSTGRES_MAX_CONNS" /\ Schema[4].name = "OTEL_TRACES_SAMPLE_RATIO"
      /\ Schema[5].name = "OTEL_EXPORTER_OTLP_INSECURE" /\ Schema[6].name = "FEATURES"
      /\ Schema[7].name = "cache"
  BY SchemaFields DEF Field
<1> QED
  BY <1>1

\* A field without a tag has no default.
LEMMA TagsOfSchema ==
  ASSUME NEW i \in 1..7
  PROVE  /\ Schema[i].tagged \in BOOLEAN /\ Schema[i].required \in BOOLEAN
         /\ ~Schema[i].tagged => Schema[i].default = Unset
<1>1. /\ Schema[1].tagged = TRUE /\ Schema[2].tagged = TRUE /\ Schema[3].tagged = TRUE
      /\ Schema[4].tagged = TRUE /\ Schema[5].tagged = TRUE /\ Schema[6].tagged = TRUE
  BY SchemaFields DEF Field
<1>2. /\ Schema[1].required = FALSE /\ Schema[2].required = TRUE /\ Schema[3].required = FALSE
      /\ Schema[4].required = FALSE /\ Schema[5].required = FALSE /\ Schema[6].required = FALSE
  BY SchemaFields DEF Field
<1>3. Schema[7].tagged = FALSE /\ Schema[7].required = FALSE /\ Schema[7].default = Unset
  BY SchemaFields
<1>4. i = 1 \/ i = 2 \/ i = 3 \/ i = 4 \/ i = 5 \/ i = 6 \/ i = 7
  OBVIOUS
<1> QED
  BY <1>1, <1>2, <1>3, <1>4, Zenon

LEMMA FieldsOfSchema == Fields = {Schema[i] : i \in 1..7}
  BY SchemaLength DEF Fields

\* The zero value of a field is what the loader starts from.
LEMMA StartsEmpty ==
  /\ DOMAIN Empty = {Schema[i].name : i \in 1..7}
  /\ \A i \in 1..7 : Empty[Schema[i].name] = Zero(Schema[i].kind)
<1>1. DOMAIN fieldOf = {Schema[i].name : i \in 1..7}
  BY FieldsOfSchema DEF fieldOf
<1>2. ASSUME NEW i \in 1..7 PROVE fieldOf[Schema[i].name] = Schema[i]
  <2>1. \A f \in Fields : f.name = Schema[i].name <=> f = Schema[i]
    BY FieldsOfSchema, NamesDiffer
  <2>2. Schema[i] \in Fields
    BY FieldsOfSchema
  <2>3. (CHOOSE f \in Fields : f.name = Schema[i].name) = Schema[i]
    BY <2>1, <2>2
  <2> QED
    BY <1>1, <2>3 DEF fieldOf
<1> QED
  BY <1>1, <1>2 DEF Empty

\* The low bits of an int32 are all of a number that fits.
LEMMA LowBits ==
  ASSUME PowersOfTwo, NEW n \in Int,
         n \in -(2 ^ (Int32Width - 1)) .. (2 ^ (Int32Width - 1) - 1)
  PROVE  SetInt32(n) = n
<1>1. Int32Width - 1 \in Nat /\ (Int32Width - 1) + 1 = Int32Width
  BY ConfigConstants
<1>2. PICK p \in Nat : p = 2 ^ (Int32Width - 1) /\ 2 ^ Int32Width = 2 * p
  BY <1>1 DEF PowersOfTwo
<1>3. n + p \in 0..(2 * p - 1)
  BY <1>2
<1>4. \A a, b \in Nat : a < b => a % b = a
  OBVIOUS
<1>5. (n + p) % (2 * p) = n + p
  BY <1>3, <1>4
<1> QED
  BY <1>2, <1>5 DEF SetInt32

\* The parsers accept the texts that mean something, and a field gets what its text
\* means if it has room for it.
LEMMA ParsersAgree ==
  ASSUME PowersOfTwo, NEW kind \in {"string", "strings", "bool", "duration", "int32", "float"}
  PROVE  /\ Readable(kind) = DOMAIN Meaning(kind)
         /\ \A text \in Readable(kind) : Fits(kind, text) => setField(kind, text) = Meaning(kind)[text]
<1>1. CASE kind \in {"string", "strings"}
  BY <1>1 DEF Readable, Meaning, setField
<1>2. CASE kind = "bool"
  BY <1>2 DEF Readable, Meaning, setField
<1>3. CASE kind = "duration"
  BY <1>3 DEF Readable, Meaning, setField, Number
<1>4. CASE kind = "float"
  BY <1>4 DEF Readable, Meaning, setField, Number
<1>5. CASE kind = "int32"
  <2>1. Readable(kind) = {"0", "1", "9"} /\ DOMAIN Meaning(kind) = {"0", "1", "9"}
    BY <1>5 DEF Readable, Meaning
  <2>2. ASSUME NEW text \in {"0", "1", "9"}, Fits(kind, text)
        PROVE  setField(kind, text) = Meaning(kind)[text]
    <3>1. Meaning(kind)[text] \in Int /\ Number(text) = Meaning(kind)[text]
      BY <1>5 DEF Meaning, Number
    <3>2. SetInt32(Number(text)) = Number(text)
      BY <1>5, <2>2, <3>1, LowBits DEF Fits
    <3> QED
      BY <1>5, <3>1, <3>2 DEF setField
  <2> QED
    BY <2>1, <2>2
<1> QED
  BY <1>1, <1>2, <1>3, <1>4, <1>5

\* A value is what the tags of its field and the environment give, if it has room.
AsTagged(f, e, value) == Text(f, e) = Unset \/ Fits(f.kind, Text(f, e)) => Holds(f, e, value)

\* A field that has been loaded: it could be, and it has what its text means.
FieldLoaded(f, e, c) == Loadable(f, e) /\ AsTagged(f, e, c[f.name])

\* The loader looks for the text in the same way, and can go on if the field can be loaded.
LEMMA LoaderReads ==
  ASSUME PowersOfTwo, NEW k \in 1..7, NEW f, f = Schema[k]
  PROVE  /\ f.kind \in {"string", "strings", "bool", "duration", "int32", "float"}
         /\ raw(f, env) = Text(f, env)
         /\ Fails(f, env) <=> ~Loadable(f, env)
<1>1. f.kind \in {"string", "strings", "bool", "duration", "int32", "float"}
  <2>1. /\ Schema[1].kind = "duration" /\ Schema[2].kind = "string" /\ Schema[3].kind = "int32"
        /\ Schema[4].kind = "float" /\ Schema[5].kind = "bool" /\ Schema[6].kind = "strings"
        /\ Schema[7].kind = "string"
    BY SchemaFields DEF Field
  <2> QED
    BY <2>1
<1>2. f.tagged \in BOOLEAN /\ f.required \in BOOLEAN /\ (~f.tagged => f.default = Unset)
  BY TagsOfSchema
<1>3. raw(f, env) = Text(f, env)
  BY <1>2 DEF raw, Text, LookupEnv
<1>4. Fails(f, env) <=> ~Loadable(f, env)
  BY <1>1, <1>2, <1>3, ParsersAgree DEF Fails, Loadable
<1> QED
  BY <1>1, <1>3, <1>4

\* What a turn of the loop does to its own field.
LEMMA LoadsField ==
  ASSUME PowersOfTwo, NEW k \in 1..7, NEW f, f = Schema[k], NEW old, NEW new,
         \/ Skips(f, env) /\ new = old /\ old = Zero(f.kind)
         \/ ~Skips(f, env) /\ ~Fails(f, env) /\ new = setField(f.kind, raw(f, env))
  PROVE  Loadable(f, env) /\ AsTagged(f, env, new)
<1>1. raw(f, env) = Text(f, env) /\ (Fails(f, env) <=> ~Loadable(f, env))
  BY LoaderReads
<1>2. CASE Skips(f, env)
  <2>1. Text(f, env) = Unset /\ new = Zero(f.kind) /\ ~Fails(f, env)
    BY <1>1, <1>2 DEF Skips, Fails
  <2> QED
    BY <1>1, <2>1 DEF AsTagged, Holds
<1>3. CASE ~Skips(f, env)
  <2>1. Text(f, env) # Unset /\ Text(f, env) \in Readable(f.kind)
    BY <1>1, <1>3 DEF Skips, Fails
  <2>2. Fits(f.kind, Text(f, env)) => new = Meaning(f.kind)[Text(f, env)]
    BY <1>1, <1>3, <2>1, LoaderReads, ParsersAgree
  <2> QED
    BY <1>1, <1>3, <2>1, <2>2 DEF AsTagged, Holds
<1> QED
  BY <1>2, <1>3

\* What has been loaded up to field n, and that the rest is still zero.
LoadedTo(n, e, c) ==
  /\ DOMAIN c = {Schema[i].name : i \in 1..7}
  /\ \A i \in 1..7 : IF i < n THEN FieldLoaded(Schema[i], e, c)
                              ELSE c[Schema[i].name] = Zero(Schema[i].kind)

LoadedSoFar == boot = "load" /\ ~exited => LoadedTo(next, env, cfg)

\* A turn that does not fail loads one field more.
LEMMA LoadsOneMore ==
  ASSUME PowersOfTwo, next \in 1..7, LoadedTo(next, env, cfg), MustLoad, ~Fails(Schema[next], env)
  PROVE  LoadedTo(next + 1, env, cfg')
<1> DEFINE f == Schema[next]
<1>1. \/ Skips(f, env) /\ cfg' = cfg
      \/ ~Skips(f, env) /\ cfg' = [cfg EXCEPT ![f.name] = setField(f.kind, raw(f, env))]
  BY DEF MustLoad
<1>2. DOMAIN cfg = {Schema[i].name : i \in 1..7}
  BY DEF LoadedTo
<1>3. DOMAIN cfg' = {Schema[i].name : i \in 1..7}
  BY <1>1, <1>2
<1>4. ASSUME NEW i \in 1..7, i # next PROVE cfg'[Schema[i].name] = cfg[Schema[i].name]
  BY <1>1, <1>2, <1>4, NamesDiffer
<1>5. Loadable(f, env) /\ AsTagged(f, env, cfg'[f.name])
  <2>1. cfg[f.name] = Zero(f.kind)
    BY DEF LoadedTo
  <2>2. \/ Skips(f, env) /\ cfg'[f.name] = cfg[f.name]
        \/ ~Skips(f, env) /\ cfg'[f.name] = setField(f.kind, raw(f, env))
    BY <1>1, <1>2
  <2> QED
    BY <2>1, <2>2, LoadsField
<1>6. ASSUME NEW i \in 1..7
      PROVE  IF i < next + 1 THEN FieldLoaded(Schema[i], env, cfg')
                             ELSE cfg'[Schema[i].name] = Zero(Schema[i].kind)
  <2>1. CASE i = next
    BY <1>5, <2>1 DEF FieldLoaded
  <2>2. CASE i # next
    <3>1. i < next + 1 <=> i < next
      BY <2>2
    <3>2. IF i < next THEN FieldLoaded(Schema[i], env, cfg) ELSE cfg[Schema[i].name] = Zero(Schema[i].kind)
      BY DEF LoadedTo
    <3> QED
      BY <1>4, <2>2, <3>1, <3>2 DEF FieldLoaded
  <2> QED
    BY <2>1, <2>2
<1> QED
  BY <1>3, <1>6 DEF LoadedTo

\* While the configuration is loaded, all else that can happen is a signal.
LEMMA LoadAlone ==
  ASSUME IInv, Next, boot = "load"
  PROVE  MustLoad \/ (UNCHANGED startup /\ (exited' => main' = "killed"))
<1>1. ~exited /\ main \notin Returned
  BY NothingAfterExit DEF IInv, BootInv, Returned
<1>2. CASE Boot \/ SetupFails
  <2>1. ~Setup /\ ~New /\ ~SetupFails
    BY <1>1 DEF SetupFails, Setup, New, Boots
  <2> QED
    BY <1>2, <2>1, Zenon DEF Boot
<1>3. CASE Running /\ (Lifecycle \/ ShutdownExpires \/ Goroutine \/ ListenFails)
  BY <1>3 DEF Running
<1>4. CASE Quietly /\ (Signal \/ Cancel \/ Requests)
  <2>1. exited' => main' = "killed"
    BY <1>1, <1>4 DEF Signal, Cancel, Requests, Accept, Request, Disconnect, To
  <2> QED
    BY <1>4, <2>1 DEF Quietly
<1>5. CASE UNCHANGED startup /\ (Export \/ Shutdown \/ Leave \/ \E r \in Client : Answer(r))
  <2>1. ~Shutdown /\ ~Leave
    BY <1>1 DEF Shutdown, Leave, Exit
  <2>2. exited' = exited
    BY <1>5, <2>1 DEF Export, Answer, Respond, Abandon, To, vars
  <2> QED
    BY <1>1, <1>5, <2>2, Zenon
<1> QED
  BY <1>2, <1>3, <1>4, <1>5 DEF Next

LEMMA LoadInvariance == ASSUME PowersOfTwo PROVE Spec => []LoadedSoFar
<1>1. ServiceInit => LoadedSoFar
  <2>1. LoadedTo(1, env, Empty)
    BY StartsEmpty DEF LoadedTo
  <2> QED
    BY <2>1 DEF ServiceInit, LoadedSoFar
<1>2. ASSUME IInv, LoadedSoFar, [Next]_allvars PROVE LoadedSoFar'
  <2>1. SUFFICES ASSUME boot' = "load", ~exited' PROVE LoadedTo(next', env', cfg')
    BY DEF LoadedSoFar, LoadedTo, FieldLoaded
  <2>2. CASE UNCHANGED allvars
    BY <1>2, <2>1, <2>2 DEF LoadedSoFar, allvars, startup, vars
  <2>3. CASE Next
    <3>1. boot = "load" /\ ~exited
      BY <2>1, <2>3, NothingAfterExit
         DEF Next, Boot, SetupFails, MustLoad, Setup, New, Boots, Running, Quietly, startup
    <3>2. LoadedTo(next, env, cfg)
      BY <1>2, <3>1 DEF LoadedSoFar
    <3>3. CASE MustLoad
      <4>1. ~Fails(Schema[next], env)
        <5>1. Skips(Schema[next], env) => ~Fails(Schema[next], env)
          BY DEF Skips, Fails
        <5>2. Fails(Schema[next], env) => Abort
          BY <3>3, <5>1 DEF MustLoad
        <5> QED
          BY <2>1, <5>2 DEF Abort
      <4>2. next \in 1..7 /\ next' = next + 1
        BY <1>2, <3>1, <3>3, SchemaLength DEF IInv, BootInv, MustLoad
      <4>3. env' = env
        BY <2>1, <3>3, <4>1 DEF MustLoad, Boots
      <4>4. LoadedTo(next + 1, env, cfg')
        BY <1>2, <3>2, <3>3, <4>1, <4>2, LoadsOneMore
      <4> QED
        BY <4>2, <4>3, <4>4
    <3>4. CASE UNCHANGED startup
      BY <3>2, <3>4 DEF startup
    <3> QED
      BY <1>2, <2>3, <3>1, <3>3, <3>4, LoadAlone
  <2> QED
    BY <1>2, <2>2, <2>3
<1> QED
  BY <1>1, <1>2, Invariance, PTL DEF Spec

\* For any environment and wherever a signal comes in between: Load returns only when
\* every field has what its text means, but for numbers that an int32 of the given width
\* has no room for, of which it says nothing; and it fails only for a field that cannot be
\* loaded (config.go:4-12,26-28,52-94).
THEOREM ConfigurationLoaded == ASSUME PowersOfTwo PROVE Spec => LoadedAsTagged
<1>1. ASSUME IInv, LoadedSoFar, Next, boot = "load"
      PROVE  /\ boot' # "load" =>
                  \A f \in Fields :
                    /\ Loadable(f, env)
                    /\ Text(f, env) = Unset \/ Fits(f.kind, Text(f, env)) =>
                         Holds(f, env, cfg'[f.name])
             /\ exited' /\ main' # "killed" => \E f \in Fields : ~Loadable(f, env)
  <2>1. CASE MustLoad
    <3>1. next \in 1..7 /\ LoadedTo(next, env, cfg)
      BY <1>1, SchemaLength, NothingAfterExit DEF IInv, BootInv, LoadedSoFar
    <3>2. CASE Fails(Schema[next], env)
      <4>1. boot' = "load"
        BY <2>1, <3>2 DEF MustLoad, Boots
      <4>2. Schema[next] \in Fields
        BY <3>1, FieldsOfSchema
      <4>3. ~Loadable(Schema[next], env)
        BY <3>1, <3>2, LoaderReads
      <4> QED
        BY <4>1, <4>2, <4>3
    <3>3. CASE ~Fails(Schema[next], env)
      <4>1. LoadedTo(next + 1, env, cfg')
        BY <1>1, <2>1, <3>1, <3>3, LoadsOneMore
      <4>2. boot' # "load" => next = 7
        BY <2>1, SchemaLength DEF MustLoad, Boots
      <4>3. next = 7 => \A i \in 1..7 : FieldLoaded(Schema[i], env, cfg')
        BY <4>1 DEF LoadedTo
      <4>4. ~exited'
        BY <1>1, <2>1, <3>3, NothingAfterExit DEF MustLoad, vars
      <4> QED
        BY <4>2, <4>3, <4>4, FieldsOfSchema DEF FieldLoaded, AsTagged
    <3> QED
      BY <3>2, <3>3
  <2>2. CASE UNCHANGED startup /\ (exited' => main' = "killed")
    BY <1>1, <2>2 DEF startup
  <2> QED
    BY <1>1, <2>1, <2>2, LoadAlone
<1>2. IInv /\ LoadedSoFar /\ [Next]_allvars =>
        [boot = "load" =>
           /\ boot' # "load" =>
                \A f \in Fields :
                  /\ Loadable(f, env)
                  /\ Text(f, env) = Unset \/ Fits(f.kind, Text(f, env)) =>
                       Holds(f, env, cfg'[f.name])
           /\ exited' /\ main' # "killed" => \E f \in Fields : ~Loadable(f, env)]_allvars
  BY <1>1
<1> QED
  BY <1>2, Invariance, LoadInvariance, PTL DEF Spec, LoadedAsTagged

-----------------------------------------------------------------------------
(***************************************************************************)
(* What tells whether the service is ready, the registry of HealthRegistry, *)
(* which shares nothing with the server.                                   *)
(***************************************************************************)
\* A checker that was copied and is up now has been seen up, and no result is better
\* than what was seen.
SeenUp ==
  \A p \in Probe, n \in Name :
     /\ taken[p][n] # None /\ taken[p][n] \in up => n \in seen[p]
     /\ task[p][n] = "ok" => n \in seen[p]

HealthInv == HealthTypeOK /\ SeenUp

LEMMA InitHealth == HealthInit => HealthInv
<1> SUFFICES ASSUME HealthInit PROVE HealthTypeOK /\ SeenUp
  BY DEF HealthInv
<1>1. Nothing \in [Name -> Checker \cup {None}] /\ \A n \in Name : Nothing[n] = None
  BY DEF Nothing
<1>2. NoTask \in [Name -> {"none", "running", "ok", "error"}] /\ \A n \in Name : NoTask[n] = "none"
  BY DEF NoTask
<1>3. \A p \in Probe, n \in Name : taken[p][n] = None /\ task[p][n] = "none"
  BY <1>1, <1>2 DEF HealthInit
<1>4. HealthTypeOK
  BY <1>1, <1>2, <1>3 DEF HealthInit, HealthTypeOK
<1> QED
  BY <1>3, <1>4 DEF SeenUp

\* The probes keep the invariant, from the copy of the checkers to the report.
LEMMA ProbeKeeps ==
  ASSUME HealthInv, NEW p \in Probe, RLock(p) \/ Launch(p) \/ Report(p)
  PROVE  HealthInv'
<1> USE DEF HealthInv, HealthTypeOK, SeenUp
<1>1. CASE RLock(p)
  BY <1>1 DEF RLock
<1>2. CASE Launch(p)
  <2>1. \A n \in Name : Starts(n) \in {"none", "running"} /\ (Starts(n) = "none" <=> checkers[n] = None)
    BY DEF Starts
  <2>2. UNCHANGED <<checkers, pending, up>> /\ pc' \in [Probe -> {"idle", "locked", "waiting"}]
    BY <1>2 DEF Launch
  <2>3. /\ taken' \in [Probe -> [Name -> Checker \cup {None}]]
        /\ seen' \in [Probe -> SUBSET Name]
    BY <1>2 DEF Launch
  <2>4. task' \in [Probe -> [Name -> {"none", "running", "ok", "error"}]]
    BY <1>2, <2>1 DEF Launch
  <2>5. ASSUME NEW q \in Probe, NEW n \in Name
        PROVE  /\ task'[q][n] = "none" <=> taken'[q][n] = None
               /\ taken'[q][n] # None /\ taken'[q][n] \in up => n \in seen'[q]
               /\ task'[q][n] = "ok" => n \in seen'[q]
    <3>1. CASE q = p
      <4>1. taken'[p] = checkers /\ seen'[p] = {m \in Name : checkers[m] \in up}
            /\ task'[p][n] = Starts(n)
        BY <1>2 DEF Launch
      <4> QED
        BY <2>1, <3>1, <4>1
    <3>2. CASE q # p
      BY <1>2, <3>2 DEF Launch
    <3> QED
      BY <3>1, <3>2
  <2> QED
    BY <2>2, <2>3, <2>4, <2>5
<1>3. CASE Report(p)
  BY <1>3 DEF Report, Nothing, NoTask
<1> QED
  BY <1>1, <1>2, <1>3

\* A result is recorded.
LEMMA ReturnKeeps ==
  ASSUME HealthInv, NEW p \in Probe, NEW n \in Name, Return(p, n)
  PROVE  HealthInv'
<1> USE DEF HealthInv, HealthTypeOK, SeenUp
<1>1. PICK r \in {"ok", "error"} : /\ r = "ok" => taken[p][n] \in up
                                  /\ task' = [task EXCEPT ![p][n] = r]
  BY DEF Return, Recorded
<1>2. task[p][n] = "running" /\ UNCHANGED <<checkers, pending, up, pc, taken, seen>>
  BY DEF Return
<1>3. task' \in [Probe -> [Name -> {"none", "running", "ok", "error"}]]
  BY <1>1
<1>4. taken[p][n] # None
  BY <1>2
<1>5. ASSUME NEW q \in Probe, NEW m \in Name
      PROVE  /\ task'[q][m] = "none" <=> taken'[q][m] = None
             /\ task'[q][m] = "ok" => m \in seen'[q]
  <2>1. CASE q = p /\ m = n
    BY <1>1, <1>2, <1>4, <2>1
  <2>2. CASE ~(q = p /\ m = n)
    BY <1>1, <1>2, <2>2
  <2> QED
    BY <2>1, <2>2
<1> QED
  BY <1>2, <1>3, <1>5

\* The invariant of the registry: Register, the probes, their checkers, the outages.
LEMMA HealthStep == HealthInv /\ [HealthNext]_healthvars => HealthInv'
<1> SUFFICES ASSUME HealthInv, [HealthNext]_healthvars PROVE HealthInv'
  OBVIOUS
<1>1. CASE Register
  BY <1>1 DEF Register, probes, HealthInv, HealthTypeOK, SeenUp
<1>2. ASSUME NEW n \in Name, NEW k \in Checker, Write(n, k) PROVE HealthInv'
  BY <1>2 DEF Write, probes, HealthInv, HealthTypeOK, SeenUp
<1>3. ASSUME NEW k \in Checker, Flip(k) PROVE HealthInv'
  BY <1>3 DEF Flip, HealthInv, HealthTypeOK, SeenUp
<1>4. CASE UNCHANGED healthvars
  BY <1>4 DEF healthvars, HealthInv, HealthTypeOK, SeenUp
<1> QED
  BY <1>1, <1>2, <1>3, <1>4, ProbeKeeps, ReturnKeeps DEF HealthNext

LEMMA HealthInvariance == HealthSpec => []HealthInv
  BY InitHealth, HealthStep, PTL DEF HealthSpec

\* Type correctness of the registry and its probes, and that a probe has a result for
\* the checkers it has copied and for no other.
THEOREM RegistryTypeCorrect == HealthSpec => []HealthTypeOK
<1>1. HealthInv => HealthTypeOK
  BY DEF HealthInv
<1> QED
  BY <1>1, HealthInvariance, PTL

\* Readiness is never a remnant, for any number of probes, names and checkers and
\* however registrations and outages come in between (health.go:74-112).
THEOREM ReadinessIsFresh == HealthSpec => ReadyWasUp
<1>1. ASSUME HealthInv, [HealthNext]_healthvars,
             NEW p \in Probe, pc[p] = "waiting", pc'[p] = "idle", Status(p) = 200,
             NEW n \in Name, taken[p][n] # None
      PROVE  n \in seen[p]
  <2>1. Report(p)
    <3>1. ASSUME NEW q \in Probe, RLock(q) \/ Launch(q) PROVE pc'[p] # "idle"
      BY <1>1, <3>1 DEF HealthInv, HealthTypeOK, RLock, Launch
    <3>2. ASSUME NEW q \in Probe, q # p, Report(q) PROVE pc'[p] = pc[p]
      BY <1>1, <3>2 DEF HealthInv, HealthTypeOK, Report
    <3>3. \/ pc' = pc \/ \E q \in Probe : RLock(q) \/ Launch(q) \/ Report(q)
      BY <1>1 DEF HealthNext, Register, Write, Return, Flip, healthvars, probes
    <3> QED
      BY <1>1, <3>1, <3>2, <3>3
  <2>2. task[p][n] # "running"
    BY <2>1 DEF Report, AllReturned
  <2>3. task[p][n] # "error"
    BY <1>1 DEF Status
  <2>4. task[p][n] = "ok"
    BY <1>1, <2>2, <2>3 DEF HealthInv, HealthTypeOK
  <2> QED
    BY <1>1, <2>4 DEF HealthInv, SeenUp
<1>2. HealthInv /\ [HealthNext]_healthvars
      => [\A p \in Probe : pc[p] = "waiting" /\ pc'[p] = "idle" /\ Status(p) = 200 =>
            \A n \in Name : taken[p][n] # None => n \in seen[p]]_healthvars
  BY <1>1
<1> QED
  BY <1>2, HealthInvariance, PTL DEF HealthSpec, ReadyWasUp
=============================================================================
