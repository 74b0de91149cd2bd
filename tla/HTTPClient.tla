------------------------------ MODULE HTTPClient ------------------------------
(***************************************************************************)
(* One call of Client.Do in database/httpclient/httpclient.go: attempts    *)
(* under a timeout each, a backoff between them that doubles, and a        *)
(* context that the caller may cancel.  net/http, the network and the      *)
(* service that is called are modelled from how the code uses them: an     *)
(* attempt that is reported as failed may have been executed, or may be    *)
(* executed later.  Time passes in ticks, and not while the client has     *)
(* something to do.                                                        *)
(***************************************************************************)
EXTENDS Integers

CONSTANTS
  Timeouts, Retries, Delays,  \* values of Config.Timeout, MaxRetires and BaseDelay
  DefaultTimeout, DefaultRetries, DefaultDelay

ASSUME HTTPClientConstants ==
  /\ Timeouts \subseteq Int /\ Retries \subseteq Int /\ Delays \subseteq Int
  /\ {DefaultTimeout, DefaultRetries, DefaultDelay} \subseteq Nat \ {0}

VARIABLES
  client,    \* what New has made of the Config
  body,      \* the request has a body, and hence GetBody
  spent,     \* req.Body is read
  pc,
  attempt,
  timer,     \* ticks until the backoff or the attempt is over
  elapsed,   \* ticks since Do was called
  cancelled, \* when the context was cancelled, or Never
  flight,    \* attempts that may reach the service still
  executed,  \* attempts that the service has executed
  cut,       \* attempts that were sent without their body
  failed,    \* attempts that failed, as the client sees them
  open,      \* attempts whose response is not closed
  result

request == <<client, body>>
clock == <<timer, elapsed, cancelled>>
service == <<flight, executed, cut>>
vars == <<request, spent, pc, attempt, clock, service, failed, open, result>>

Never == -1

-----------------------------------------------------------------------------
\* Mutant: the values are taken as they are; a Timeout of zero is none.
AsGiven(value, default) == value
OrDefault(value, default) == IF value <= 0 THEN default ELSE value

Clients == [timeout : {OrDefault(t, DefaultTimeout) : t \in Timeouts},
            retries : {OrDefault(n, DefaultRetries) : n \in Retries},
            delay   : {OrDefault(d, DefaultDelay) : d \in Delays}]

backoff(n) == client.delay * 2 ^ (n - 1)

\* New and Do.
Init ==
  /\ client \in Clients
  /\ body \in BOOLEAN /\ spent = FALSE
  /\ pc = "send" /\ attempt = 0
  /\ timer = 0 /\ elapsed = 0 /\ cancelled = Never
  /\ flight = {} /\ executed = {} /\ cut = {} /\ failed = {} /\ open = {}
  /\ result = "none"

Cancelled == cancelled # Never

Return(outcome) == pc' = "done" /\ result' = outcome

Last == attempt >= client.retries
\* Mutant: the body is not rewound.
NotRewound == UNCHANGED spent
Rewind == spent' = FALSE

\* The attempt has failed: the next turn of the loop, or its end.
Continue ==
  /\ failed' = failed \cup {attempt}
  /\ \/ /\ Last
        /\ Return("gave up")
        /\ UNCHANGED <<attempt, spent, timer>>
     \/ /\ ~Last
        /\ attempt' = attempt + 1 /\ timer' = backoff(attempt + 1)
        /\ Rewind
        /\ pc' = "backoff" /\ UNCHANGED result
     \/ /\ ~Last /\ body        \* GetBody returns an error
        /\ attempt' = attempt + 1
        /\ Return("no body") /\ UNCHANGED <<spent, timer>>

\* c.http.Do sends the request.
Send ==
  /\ pc = "send" /\ ~Cancelled
  /\ pc' = "sent" /\ timer' = client.timeout
  /\ flight' = flight \cup {attempt}
  /\ cut' = IF spent THEN cut \cup {attempt} ELSE cut
  /\ spent' = body
  /\ UNCHANGED <<request, attempt, elapsed, cancelled, executed, failed, open, result>>

\* It sends nothing when the context is done.
Refuse ==
  /\ pc = "send" /\ Cancelled
  /\ Continue
  /\ UNCHANGED <<request, elapsed, cancelled, service, open>>

\* The time of the attempt is over; net/http takes a timeout of zero for none.
Expired == Cancelled \/ (timer = 0 /\ client.timeout > 0)

\* The timeout or the context ends the attempt, which goes on elsewhere.
TimesOut ==
  /\ pc = "sent" /\ Expired
  /\ Continue
  /\ UNCHANGED <<request, elapsed, cancelled, service, open>>

\* A network error, before or after the request has arrived.
NetworkError ==
  /\ pc = "sent"
  /\ Continue
  /\ flight' \in {flight, flight \ {attempt}}
  /\ UNCHANGED <<request, elapsed, cancelled, executed, cut, open>>

\* The response is neither 429 nor 5xx: Do returns it, and the caller closes it.
Responds ==
  /\ pc = "sent" /\ attempt \in executed
  /\ open' = open \cup {attempt}
  /\ Return("response")
  /\ UNCHANGED <<request, spent, attempt, clock, service, failed>>

\* 429 or 5xx, from the service or from a proxy in front of it.
Overloaded ==
  /\ pc = "sent"
  /\ pc' = "draining"
  /\ open' = open \cup {attempt}
  /\ flight' \in {flight, flight \ {attempt}}
  /\ UNCHANGED <<request, spent, attempt, clock, executed, cut, failed, result>>

\* Mutant: the body is not closed.
NotClosed == open
Closed == open \ {attempt}

\* io.Copy ends with the body or, as the attempt's timeout is still running, by
\* an error, and the body is closed.
Discard ==
  /\ pc = "draining"
  /\ open' = Closed
  /\ Continue
  /\ UNCHANGED <<request, elapsed, cancelled, service>>

\* Mutant: time.Sleep instead of the select.
Asleep == FALSE
Notices == Cancelled

\* <-req.Context().Done() is chosen.
ContextDone ==
  /\ pc = "backoff" /\ Notices
  /\ Return("context")
  /\ UNCHANGED <<request, spent, attempt, clock, service, failed, open>>

\* <-time.After is chosen.
BackoffOver ==
  /\ pc = "backoff" /\ timer = 0
  /\ pc' = "send"
  /\ UNCHANGED <<request, spent, attempt, clock, service, failed, open, result>>

-----------------------------------------------------------------------------
\* The service executes an attempt, in time or not.
Execute(a) ==
  /\ a \in flight
  /\ flight' = flight \ {a} /\ executed' = executed \cup {a}
  /\ UNCHANGED <<request, spent, pc, attempt, clock, cut, failed, open, result>>

Cancel ==
  /\ pc # "done" /\ ~Cancelled
  /\ cancelled' = elapsed
  /\ UNCHANGED <<request, spent, pc, attempt, timer, elapsed, service, failed, open, result>>

\* Time passes while the client waits for a timer that somebody may forestall.
Waits == \/ pc = "backoff" /\ ~Notices
         \/ pc \in {"sent", "draining"} /\ ~Cancelled

Tick ==
  /\ Waits /\ timer > 0
  /\ timer' = timer - 1 /\ elapsed' = elapsed + 1
  /\ UNCHANGED <<request, spent, pc, attempt, cancelled, service, failed, open, result>>

Step ==
  \/ Send \/ Refuse \/ TimesOut \/ ContextDone \/ BackoffOver
  \/ (Expired /\ Discard)

Next ==
  \/ Step \/ NetworkError \/ Responds \/ Overloaded \/ Discard
  \/ \E a \in flight : Execute(a)
  \/ Cancel \/ Tick

Spec == Init /\ [][Next]_vars

\* The client runs and its timers fire; nobody is bound to answer.
FairSpec == Spec /\ WF_vars(Step) /\ WF_vars(Tick)

-----------------------------------------------------------------------------
TypeOK ==
  /\ client \in Clients /\ body \in BOOLEAN /\ spent \in BOOLEAN
  /\ pc \in {"send", "sent", "draining", "backoff", "done"}
  /\ attempt \in 0..client.retries
  /\ elapsed \in Nat /\ cancelled \in {Never} \cup 0..elapsed
  /\ flight \subseteq 0..attempt /\ executed \subseteq 0..attempt
  /\ failed \subseteq 0..attempt
  /\ result \in {"none", "response", "gave up", "no body", "context"}

\* A request is executed a second time only after the client has seen all earlier
\* attempts fail, nothing is sent without its body, and the client gives up after
\* MaxRetires retries and no sooner (httpclient.go:67-98).
RepeatsOnlyFailures ==
  /\ \A a \in flight \cup executed : 0..(a - 1) \subseteq failed
  /\ cut = {}
  /\ result = "gave up" => failed = 0..client.retries

\* Whatever has failed is closed when Do waits or returns, and a response that Do
\* returns is open (httpclient.go:90-96).
NothingLeftOpen ==
  pc \in {"backoff", "done"} => open = IF result = "response" THEN {attempt} ELSE {}

\* All attempts and the waits between them.
Budget == (client.retries + 1) * client.timeout + client.delay * (2 ^ client.retries - 1)

\* Do returns within the timeouts and the backoffs of all attempts, and at once
\* when its context is cancelled (httpclient.go:78-89, 111-113).
AnswersInTime == elapsed <= Budget /\ (Cancelled => elapsed = cancelled)

\* Do returns, also when nobody answers (httpclient.go:56, 67-98).
DoReturns == <>(pc = "done")
=============================================================================
