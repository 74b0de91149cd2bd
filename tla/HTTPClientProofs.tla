--------------------------- MODULE HTTPClientProofs ---------------------------
(***************************************************************************)
(* Theorems about HTTPClient for every Config.                             *)
(***************************************************************************)
EXTENDS HTTPClient, TLAPS

\* Everything before the current attempt has failed, and what has failed is not
\* after it.
Progress ==
  /\ 0..(attempt - 1) \subseteq failed
  /\ result = "gave up" => failed = 0..client.retries
  /\ result # "none" => pc = "done"

\* What is sent next has its body, and nothing else is open.
Ready ==
  /\ pc \in {"send", "backoff"} => ~spent
  /\ cut = {}
  /\ open = IF pc = "draining" \/ result = "response" THEN {attempt} ELSE {}

IInv == TypeOK /\ Progress /\ Ready

-----------------------------------------------------------------------------
\* OrDefault leaves no value that is not positive.
LEMMA Positive ==
  ASSUME NEW value \in Int, NEW default \in Nat \ {0}
  PROVE  OrDefault(value, default) \in Nat \ {0}
BY DEF OrDefault

\* New fills in a positive number of retries.
LEMMA ClientType ==
  ASSUME client \in Clients
  PROVE  client.retries \in Nat \ {0}
<1>1. client.retries \in {OrDefault(n, DefaultRetries) : n \in Retries}
  BY DEF Clients
<1>2. PICK n \in Retries : client.retries = OrDefault(n, DefaultRetries)
  BY <1>1
<1>3. n \in Int /\ DefaultRetries \in Nat \ {0}
  BY <1>2, HTTPClientConstants
<1> QED
  BY <1>2, <1>3, Positive

LEMMA InitIInv == Init => IInv
<1> SUFFICES ASSUME Init PROVE IInv
  OBVIOUS
<1>1. client.retries \in Nat \ {0}
  BY ClientType DEF Init
<1>2. attempt \in 0..client.retries /\ elapsed \in Nat /\ cancelled \in {Never} \cup 0..elapsed
  BY <1>1 DEF Init
<1>3. TypeOK
  BY <1>2 DEF Init, TypeOK
<1>4. Progress /\ Ready
  BY <1>1 DEF Init, Progress, Ready
<1> QED
  BY <1>3, <1>4 DEF IInv

\* The invariant gives the ranges of the numbers.
LEMMA Ranges ==
  ASSUME TypeOK
  PROVE  /\ client.retries \in Nat \ {0} /\ attempt \in 0..client.retries
         /\ attempt \in Nat /\ failed \subseteq 0..attempt
<1>1. client.retries \in Nat \ {0} /\ attempt \in 0..client.retries /\ failed \subseteq 0..attempt
  BY ClientType DEF TypeOK
<1> QED
  BY <1>1

\* With the current attempt, all attempts up to it have failed.
LEMMA Filled ==
  ASSUME NEW n \in Nat, NEW f, f \subseteq 0..n, 0..(n - 1) \subseteq f
  PROVE  f \cup {n} = 0..n
<1>1. n \in 0..n
  OBVIOUS
<1>2. ASSUME NEW i \in 0..n PROVE i \in f \cup {n}
  <2>1. i = n \/ i \in 0..(n - 1)
    OBVIOUS
  <2> QED
    BY <2>1
<1> QED
  BY <1>1, <1>2

\* A failed attempt is followed by the next one or by the end of the call.
LEMMA ContinueKeeps ==
  ASSUME IInv, Continue, pc \in {"send", "sent", "draining"},
         UNCHANGED <<request, elapsed, cancelled, cut>>, open' = {},
         flight' \subseteq flight, executed' = executed
  PROVE  IInv'
<1>1. /\ client.retries \in Nat /\ attempt \in 0..client.retries
      /\ attempt \in Nat /\ failed \subseteq 0..attempt
  BY Ranges DEF IInv
<1>2. client' = client /\ failed' = failed \cup {attempt} /\ result = "none" /\ cut' = {}
  BY DEF Continue, request, IInv, Progress, Ready
<1>3. 0..(attempt - 1) \subseteq failed
  BY DEF IInv, Progress
<1>4. ASSUME attempt' \in 0..client.retries, 0..attempt \subseteq 0..attempt',
             spent' \in BOOLEAN, failed' \subseteq 0..attempt',
             pc' \in {"backoff", "done"}, result' \in {"none", "gave up", "no body"}
      PROVE  TypeOK'
  <2>1. /\ client' \in Clients /\ body' \in BOOLEAN
        /\ elapsed' \in Nat /\ cancelled' \in {Never'} \cup 0..elapsed'
    BY DEF IInv, TypeOK, request, Never
  <2>2. flight' \subseteq 0..attempt' /\ executed' \subseteq 0..attempt'
    BY <1>4 DEF IInv, TypeOK
  <2> QED
    BY <1>2, <1>4, <2>1, <2>2 DEF TypeOK
<1>5. CASE Last /\ Return("gave up") /\ UNCHANGED <<attempt, spent, timer>>
  <2>1. attempt = client.retries
    <3>1. Last /\ client.retries \in Nat /\ attempt \in 0..client.retries
      BY <1>1, <1>5
    <3> QED
      BY <3>1 DEF Last
  <2>2. failed' = 0..client.retries
    <3>1. failed' = 0..attempt
      BY <1>1, <1>2, <1>3, Filled
    <3> QED
      BY <2>1, <3>1
  <2>3. Progress'
    <3>1. attempt' = attempt /\ client' = client /\ result' = "gave up" /\ pc' = "done"
      BY <1>2, <1>5 DEF Return
    <3>2. 0..(attempt' - 1) \subseteq failed'
      BY <1>2, <1>3, <3>1
    <3> QED
      BY <2>2, <3>1, <3>2 DEF Progress
  <2>4. Ready'
    BY <1>2, <1>5 DEF Ready, Return
  <2>5. spent' \in BOOLEAN
    BY <1>5 DEF IInv, TypeOK
  <2>6. TypeOK'
    BY <1>1, <1>4, <1>5, <2>1, <2>2, <2>5 DEF Return
  <2> QED
    BY <2>3, <2>4, <2>6 DEF IInv
<1>6. CASE ~Last /\ attempt' = attempt + 1
  <2>1. attempt < client.retries
    BY <1>1, <1>6 DEF Last
  <2>2. attempt' \in 0..client.retries /\ 0..attempt \subseteq 0..attempt' /\ attempt \in 0..attempt'
    BY <1>1, <1>6, <2>1
  <2>3. 0..(attempt' - 1) \subseteq failed' /\ failed' \subseteq 0..attempt'
    BY <1>1, <1>2, <1>3, <1>6, <2>2
  <2>4. CASE Rewind /\ pc' = "backoff" /\ UNCHANGED result
    <3>1. Progress'
      BY <1>2, <2>3, <2>4 DEF Progress
    <3>2. Ready'
      BY <1>2, <2>4 DEF Ready, Rewind
    <3>3. TypeOK'
      BY <1>2, <1>4, <2>2, <2>3, <2>4 DEF Rewind
    <3> QED
      BY <3>1, <3>2, <3>3 DEF IInv
  <2>5. CASE Return("no body") /\ UNCHANGED <<spent, timer>>
    <3>1. Progress'
      BY <2>3, <2>5 DEF Progress, Return
    <3>2. Ready'
      BY <1>2, <2>5 DEF Ready, Return
    <3>3. spent' \in BOOLEAN
      BY <2>5 DEF IInv, TypeOK
    <3>4. TypeOK'
      BY <1>4, <2>2, <2>3, <2>5, <3>3 DEF Return
    <3> QED
      BY <3>1, <3>2, <3>4 DEF IInv
  <2> QED
    BY <1>6, <2>4, <2>5 DEF Continue
<1> QED
  BY <1>5, <1>6 DEF Continue

\* A step that neither counts nor fails an attempt and does not return keeps the
\* progress of the loop.
LEMMA SameProgress ==
  ASSUME Progress, UNCHANGED <<client, attempt, failed>>,
         result' = result \/ (result' # "gave up" /\ pc' = "done"),
         result # "none" => pc' = pc
  PROVE  Progress'
BY DEF Progress

LEMMA NextIInv == IInv /\ [Next]_vars => IInv'
<1> SUFFICES ASSUME IInv, [Next]_vars PROVE IInv'
  OBVIOUS
<1> USE DEF request, clock, service
<1>1. TypeOK /\ Progress /\ Ready /\ attempt \in 0..attempt
  BY Ranges DEF IInv
<1>2. ASSUME Send PROVE IInv'
  <2>1. Progress'
    BY <1>1, <1>2, SameProgress DEF Send, Progress
  <2>2. Ready'
    BY <1>1, <1>2 DEF Send, Ready, Progress
  <2>3. TypeOK'
    BY <1>1, <1>2 DEF Send, TypeOK, Never
  <2> QED
    BY <2>1, <2>2, <2>3 DEF IInv
<1>3. ASSUME Refuse PROVE IInv'
  <2>1. Ready => open = {}
    BY <1>1, <1>3 DEF Refuse, Ready, Progress
  <2> QED
    BY <1>1, <1>3, <2>1, ContinueKeeps DEF Refuse
<1>4. ASSUME TimesOut PROVE IInv'
  <2>1. open = {}
    BY <1>1, <1>4 DEF TimesOut, Ready, Progress
  <2> QED
    BY <1>1, <1>4, <2>1, ContinueKeeps DEF TimesOut
<1>5. ASSUME NetworkError PROVE IInv'
  <2>1. open = {} /\ flight' \subseteq flight
    BY <1>1, <1>5 DEF NetworkError, Ready, Progress
  <2> QED
    BY <1>1, <1>5, <2>1, ContinueKeeps DEF NetworkError
<1>6. ASSUME Discard PROVE IInv'
  <2>1. open' = {}
    BY <1>1, <1>6 DEF Discard, Closed, Ready
  <2> QED
    BY <1>1, <1>6, <2>1, ContinueKeeps DEF Discard
<1>7. ASSUME Responds PROVE IInv'
  <2>1. Progress'
    BY <1>1, <1>7, SameProgress DEF Responds, Return, Progress
  <2>2. Ready'
    BY <1>1, <1>7 DEF Responds, Return, Ready, Progress
  <2>3. TypeOK'
    BY <1>1, <1>7 DEF Responds, Return, TypeOK, Never
  <2> QED
    BY <2>1, <2>2, <2>3 DEF IInv
<1>8. ASSUME Overloaded PROVE IInv'
  <2>1. Progress'
    BY <1>1, <1>8, SameProgress DEF Overloaded, Progress
  <2>2. Ready'
    BY <1>1, <1>8 DEF Overloaded, Ready, Progress
  <2>3. TypeOK'
    BY <1>1, <1>8 DEF Overloaded, TypeOK, Never
  <2> QED
    BY <2>1, <2>2, <2>3 DEF IInv
<1>9. ASSUME ContextDone PROVE IInv'
  <2>1. Progress'
    BY <1>1, <1>9, SameProgress DEF ContextDone, Return, Progress
  <2>2. Ready'
    BY <1>1, <1>9 DEF ContextDone, Return, Ready, Progress
  <2>3. TypeOK'
    BY <1>1, <1>9 DEF ContextDone, Return, TypeOK, Never
  <2> QED
    BY <2>1, <2>2, <2>3 DEF IInv
<1>10. ASSUME BackoffOver PROVE IInv'
  <2>1. Progress'
    BY <1>1, <1>10, SameProgress DEF BackoffOver, Progress
  <2>2. Ready'
    BY <1>1, <1>10 DEF BackoffOver, Ready, Progress
  <2>3. TypeOK'
    BY <1>1, <1>10 DEF BackoffOver, TypeOK, Never
  <2> QED
    BY <2>1, <2>2, <2>3 DEF IInv
<1>11. ASSUME NEW a \in flight, Execute(a) PROVE IInv'
  <2>1. Progress' /\ Ready'
    BY <1>1, <1>11 DEF Execute, Progress, Ready
  <2>2. TypeOK'
    BY <1>1, <1>11 DEF Execute, TypeOK, Never
  <2> QED
    BY <2>1, <2>2 DEF IInv
<1>12. ASSUME Cancel PROVE IInv'
  <2>1. Progress' /\ Ready'
    BY <1>1, <1>12 DEF Cancel, Progress, Ready
  <2>2. cancelled' \in {Never'} \cup 0..elapsed' /\ elapsed' \in Nat
    <3>1. elapsed \in Nat /\ elapsed' = elapsed /\ cancelled' = elapsed
      BY <1>1, <1>12 DEF Cancel, TypeOK
    <3> QED
      BY <3>1
  <2>3. UNCHANGED <<request, spent, pc, attempt, service, failed, open, result>>
    BY <1>12 DEF Cancel
  <2>4. TypeOK'
    BY <1>1, <2>2, <2>3 DEF TypeOK
  <2> QED
    BY <2>1, <2>4 DEF IInv
<1>13. ASSUME Tick PROVE IInv'
  <2>1. Progress' /\ Ready'
    BY <1>1, <1>13 DEF Tick, Progress, Ready
  <2>2. cancelled' \in {Never'} \cup 0..elapsed' /\ elapsed' \in Nat
    <3>1. /\ elapsed \in Nat /\ cancelled \in {Never} \cup 0..elapsed
          /\ elapsed' = elapsed + 1 /\ cancelled' = cancelled
      BY <1>1, <1>13 DEF Tick, TypeOK
    <3>2. Never' = Never /\ 0..elapsed \subseteq 0..elapsed'
      BY <3>1 DEF Never
    <3> QED
      BY <3>1, <3>2
  <2>3. UNCHANGED <<request, spent, pc, attempt, service, failed, open, result>>
    BY <1>13 DEF Tick
  <2>4. TypeOK'
    BY <1>1, <2>2, <2>3 DEF TypeOK
  <2> QED
    BY <2>1, <2>4 DEF IInv
<1>14. ASSUME UNCHANGED vars PROVE IInv'
  BY <1>1, <1>14 DEF vars, IInv, TypeOK, Progress, Ready, Never
<1> HIDE DEF request, clock, service
<1> QED
  BY <1>2, <1>3, <1>4, <1>5, <1>6, <1>7, <1>8, <1>9, <1>10, <1>11, <1>12, <1>13, <1>14
  DEF Next, Step

-----------------------------------------------------------------------------
LEMMA Invariance == Spec => []IInv
BY InitIInv, NextIInv, PTL DEF Spec

\* Every variable of a call of Do keeps its type, and no attempt has a higher
\* number than the current one (httpclient.go:67-98).
THEOREM TypeCorrect == Spec => []TypeOK
<1>1. IInv => TypeOK
  BY DEF IInv
<1> QED
  BY <1>1, Invariance, PTL

\* A request is executed again only after all its earlier attempts have failed in
\* the client's eyes, with its body, and MaxRetries times at most
\* (httpclient.go:67-98).
THEOREM RepeatsFollowFailures == Spec => []RepeatsOnlyFailures
<1>1. IInv => RepeatsOnlyFailures
  <2> SUFFICES ASSUME IInv PROVE RepeatsOnlyFailures
    OBVIOUS
  <2>1. attempt \in Nat /\ flight \cup executed \subseteq 0..attempt /\ 0..(attempt - 1) \subseteq failed
    BY Ranges DEF IInv, TypeOK, Progress
  <2>2. ASSUME NEW a \in flight \cup executed PROVE 0..(a - 1) \subseteq failed
    <3>1. a \in 0..attempt
      BY <2>1, <2>2
    <3>2. 0..(a - 1) \subseteq 0..(attempt - 1)
      BY <2>1, <3>1
    <3> QED
      BY <2>1, <3>2
  <2> QED
    BY <2>2 DEF IInv, Progress, Ready, RepeatsOnlyFailures
<1> QED
  BY <1>1, Invariance, PTL

\* Whatever way Do waits or returns, the only response left open is the one that it
\* returns (httpclient.go:90-96).
THEOREM BodiesAreClosed == Spec => []NothingLeftOpen
<1>1. IInv => NothingLeftOpen
  BY DEF IInv, Ready, NothingLeftOpen
<1> QED
  BY <1>1, Invariance, PTL

-----------------------------------------------------------------------------
(* How long a call takes. *)

\* What is used of exponentiation, of which the provers know nothing.
PowersOfTwo ==
  \A n \in Nat : 2 ^ n \in Nat /\ 2 ^ (n + 1) = 2 * 2 ^ n /\ \A m \in 0..n : 2 ^ m <= 2 ^ n

\* The time of n attempts and of the waits after them.
Spent(n) == n * client.timeout + client.delay * (2 ^ n - 1)

\* Every wait ends within what is due until then.
InTime ==
  /\ timer \in Nat
  /\ elapsed <= Spent(attempt) + client.timeout
  /\ (pc = "send") => elapsed <= Spent(attempt)
  /\ (pc = "backoff") => elapsed + timer <= Spent(attempt)
  /\ pc \in {"sent", "draining"} => elapsed + timer <= Spent(attempt) + client.timeout
  /\ Cancelled => elapsed = cancelled

\* New fills in positive times.
LEMMA ClientTimes ==
  ASSUME client \in Clients
  PROVE  client.timeout \in Nat \ {0} /\ client.delay \in Nat \ {0}
<1>1. PICK t \in Timeouts : client.timeout = OrDefault(t, DefaultTimeout)
  BY DEF Clients
<1>2. PICK d \in Delays : client.delay = OrDefault(d, DefaultDelay)
  BY DEF Clients
<1>3. /\ t \in Int /\ DefaultTimeout \in Nat \ {0}
      /\ d \in Int /\ DefaultDelay \in Nat \ {0}
  BY HTTPClientConstants
<1> QED
  BY <1>1, <1>2, <1>3, Positive

\* An attempt more takes its timeout and the backoff after it.
LEMMA SpentNext ==
  ASSUME PowersOfTwo, client.timeout \in Nat, client.delay \in Nat, NEW n \in Nat
  PROVE  /\ Spent(n) \in Int /\ Spent(n + 1) \in Int /\ backoff(n + 1) \in Nat
         /\ Spent(n + 1) = Spent(n) + client.timeout + backoff(n + 1)
<1>1. 2 ^ n \in Nat /\ 2 ^ (n + 1) = 2 * 2 ^ n /\ n + 1 - 1 = n
  BY DEF PowersOfTwo
<1>2. PICK p \in Nat : p = 2 ^ n /\ 2 ^ (n + 1) = 2 * p
  BY <1>1
<1>3. PICK T \in Nat, D \in Nat : T = client.timeout /\ D = client.delay
  OBVIOUS
<1>4. Spent(n) = n * T + D * (p - 1) /\ Spent(n + 1) = (n + 1) * T + D * (2 * p - 1)
  BY <1>2, <1>3 DEF Spent
<1>5. backoff(n + 1) = D * p
  BY <1>1, <1>2, <1>3 DEF backoff
<1>6. D * p \in Nat /\ D * (p - 1) = D * p - D /\ D * (2 * p - 1) = D * p + D * p - D
  BY <1>2, <1>3
<1>7. n * T \in Nat /\ (n + 1) * T = n * T + T
  BY <1>3
<1> QED
  BY <1>3, <1>4, <1>5, <1>6, <1>7

\* No attempt but the last comes with the whole budget.
LEMMA SpentWithinBudget ==
  ASSUME PowersOfTwo, client.timeout \in Nat, client.delay \in Nat,
         client.retries \in Nat, NEW n \in 0..client.retries
  PROVE  Spent(n) + client.timeout <= Budget
<1>1. PICK T \in Nat, D \in Nat, r \in Nat :
        T = client.timeout /\ D = client.delay /\ r = client.retries
  OBVIOUS
<1>2. n \in Nat /\ n <= r
  BY <1>1
<1>3. 2 ^ n \in Nat /\ 2 ^ r \in Nat /\ 2 ^ n <= 2 ^ r
  BY <1>1, <1>2 DEF PowersOfTwo
<1>4. PICK p \in Nat, q \in Nat : p = 2 ^ n /\ q = 2 ^ r /\ p <= q
  BY <1>3
<1>5. D * (p - 1) <= D * (q - 1)
  <2>1. PICK e \in Nat : q = p + e
    <3>1. q - p \in Nat /\ q = p + (q - p)
      BY <1>4
    <3> QED
      BY <3>1
  <2>2. D * (q - 1) = D * (p - 1) + D * e /\ D * e \in Nat /\ D * (p - 1) \in Int
    BY <1>1, <1>4, <2>1
  <2> QED
    BY <2>2
<1>6. n * T + T <= (r + 1) * T
  <2>1. PICK e \in Nat : r = n + e
    <3>1. r - n \in Nat /\ r = n + (r - n)
      BY <1>1, <1>2
    <3> QED
      BY <3>1
  <2>2. (r + 1) * T = n * T + T + e * T /\ e * T \in Nat /\ n * T \in Nat
    BY <1>1, <1>2, <2>1
  <2> QED
    BY <1>1, <2>2
<1>7. Spent(n) = n * T + D * (p - 1) /\ Budget = (r + 1) * T + D * (q - 1)
  BY <1>1, <1>4 DEF Spent, Budget
<1>8. D * (p - 1) \in Int /\ D * (q - 1) \in Int /\ n * T \in Int /\ (r + 1) * T \in Int
  BY <1>1, <1>2, <1>4
<1> QED
  BY <1>1, <1>5, <1>6, <1>7, <1>8

LEMMA NextInTime == PowersOfTwo /\ TypeOK /\ InTime /\ [Next]_vars => InTime'
<1> SUFFICES ASSUME PowersOfTwo, TypeOK, InTime, [Next]_vars PROVE InTime'
  OBVIOUS
<1>t. client.timeout \in Nat /\ client.timeout > 0 /\ client.delay \in Nat /\ elapsed \in Nat
  <2>1. client \in Clients /\ elapsed \in Nat
    BY DEF TypeOK
  <2> QED
    BY <2>1, ClientTimes
<1>a. attempt \in Nat
  BY Ranges
<1>s. /\ Spent(attempt) \in Int /\ Spent(attempt + 1) \in Int /\ backoff(attempt + 1) \in Nat
      /\ Spent(attempt + 1) = Spent(attempt) + client.timeout + backoff(attempt + 1)
  BY <1>t, <1>a, SpentNext
<1>c. client' = client => \A n : Spent(n)' = Spent(n)
  BY DEF Spent
<1>x. elapsed' = elapsed /\ cancelled' = cancelled => (Cancelled' => elapsed' = cancelled')
  BY DEF InTime, Cancelled, Never
\* A failed attempt leads to a wait or to the end.
<1>1. ASSUME pc \in {"send", "sent", "draining"}, Continue, UNCHANGED <<request, elapsed, cancelled>>
      PROVE  InTime'
  <2>1. client' = client
    BY <1>1 DEF request
  <2>2. CASE attempt' = attempt /\ timer' = timer /\ pc' = "done"
    <3>1. Spent(attempt)' = Spent(attempt')
      BY <1>c, <2>1, <2>2 DEF Spent
    <3> QED
      BY <1>1, <1>x, <2>1, <2>2, <3>1 DEF InTime
  <2>3. CASE attempt' = attempt + 1 /\ timer' = backoff(attempt + 1) /\ pc' = "backoff"
    <3>1. Spent(attempt)' = Spent(attempt + 1)
      BY <2>1, <2>3 DEF Spent
    <3>2. elapsed + backoff(attempt + 1) <= Spent(attempt + 1)
      BY <1>1, <1>t, <1>s DEF InTime
    <3> QED
      BY <1>1, <1>x, <1>t, <1>s, <2>1, <2>3, <3>1, <3>2 DEF InTime
  <2>4. CASE attempt' = attempt + 1 /\ timer' = timer /\ pc' = "done"
    <3>1. Spent(attempt)' = Spent(attempt + 1)
      BY <2>1, <2>4 DEF Spent
    <3> QED
      BY <1>1, <1>x, <1>t, <1>s, <2>1, <2>4, <3>1 DEF InTime
  <2> QED
    BY <1>1, <2>2, <2>3, <2>4 DEF Continue, Return
\* The steps that take no time and start no wait.
<1> DEFINE Timeless == /\ client' = client /\ attempt' = attempt /\ timer' = timer
                       /\ elapsed' = elapsed /\ cancelled' = cancelled
           NoWait == \/ pc' = pc
                     \/ pc' = "done"
                     \/ pc = "sent" /\ pc' = "draining"
                     \/ pc = "backoff" /\ timer = 0 /\ pc' = "send"
<1>2. ASSUME Timeless, NoWait
      PROVE  InTime'
  <2>1. Spent(attempt)' = Spent(attempt)
    BY <1>2 DEF Spent
  <2> QED
    BY <1>2, <1>t, <1>x, <2>1 DEF InTime
<1>3. ASSUME Send PROVE InTime'
  <2>1. /\ UNCHANGED <<client, attempt, elapsed, cancelled>> /\ pc = "send"
        /\ pc' = "sent" /\ timer' = client.timeout
    BY <1>3 DEF Send, request
  <2>2. Spent(attempt)' = Spent(attempt)
    BY <2>1 DEF Spent
  <2> QED
    BY <1>t, <1>s, <1>x, <2>1, <2>2 DEF InTime
<1>4. ASSUME Refuse \/ TimesOut \/ NetworkError \/ Discard PROVE InTime'
  BY <1>1, <1>4 DEF Refuse, TimesOut, NetworkError, Discard
<1>5. ASSUME \/ Responds \/ Overloaded \/ ContextDone \/ BackoffOver
             \/ \E a \in flight : Execute(a)
      PROVE  InTime'
  <2>1. Timeless
    BY <1>5 DEF Responds, Overloaded, ContextDone, BackoffOver, Execute, request, clock
  <2>2. NoWait
    BY <1>5 DEF Responds, Overloaded, ContextDone, BackoffOver, Execute, Return
  <2> QED
    BY <1>2, <2>1, <2>2
<1>6. ASSUME Cancel PROVE InTime'
  <2>1. UNCHANGED <<client, pc, attempt, timer, elapsed>> /\ cancelled' = elapsed
    BY <1>6 DEF Cancel, request
  <2>2. Spent(attempt)' = Spent(attempt)
    BY <2>1 DEF Spent
  <2> QED
    BY <2>1, <2>2 DEF InTime
<1>7. ASSUME Tick PROVE InTime'
  <2>1. /\ UNCHANGED <<client, pc, attempt, cancelled>> /\ timer > 0
        /\ timer' = timer - 1 /\ elapsed' = elapsed + 1
    BY <1>7 DEF Tick, request
  <2>2. pc \in {"backoff", "sent", "draining"} /\ ~Cancelled
    BY <1>7 DEF Tick, Waits, Notices
  <2>3. Spent(attempt)' = Spent(attempt) /\ ~Cancelled'
    BY <2>1, <2>2 DEF Spent, Cancelled, Never
  <2> QED
    BY <1>t, <1>s, <2>1, <2>2, <2>3 DEF InTime
<1>8. ASSUME UNCHANGED vars PROVE InTime'
  <2>1. Timeless /\ NoWait
    BY <1>8 DEF vars, request, clock
  <2> QED
    BY <1>2, <2>1
<1> QED
  BY <1>3, <1>4, <1>5, <1>6, <1>7, <1>8 DEF Next, Step

\* Do returns within its timeouts and backoffs, whatever fails and however slowly the
\* service answers, and at once when its context is cancelled (httpclient.go:67-89,
\* 111-113).
THEOREM AnsweredInTime ==
  ASSUME PowersOfTwo
  PROVE  Spec => []AnswersInTime
<1>1. Init => InTime
  <2> SUFFICES ASSUME Init PROVE InTime
    OBVIOUS
  <2>1. client.timeout \in Nat /\ client.delay \in Nat
    BY ClientTimes DEF Init
  <2>2. Spent(0) = 0
    <3>1. 2 ^ 0 = 1
      OBVIOUS
    <3> QED
      BY <2>1, <3>1 DEF Spent
  <2> QED
    BY <2>1, <2>2 DEF Init, InTime, Cancelled
<1>2. TypeOK /\ InTime => AnswersInTime
  <2> SUFFICES ASSUME TypeOK, InTime PROVE elapsed <= Budget
    BY DEF AnswersInTime, InTime
  <2>1. /\ client.timeout \in Nat /\ client.delay \in Nat
        /\ client.retries \in Nat /\ attempt \in 0..client.retries /\ attempt \in Nat
    BY ClientTimes, Ranges DEF TypeOK
  <2>2. Spent(attempt) + client.timeout <= Budget /\ elapsed <= Spent(attempt) + client.timeout
    BY <2>1, SpentWithinBudget DEF InTime
  <2>3. Spent(attempt) \in Int /\ elapsed \in Int
    <3>1. elapsed \in Nat
      BY DEF TypeOK
    <3> QED
      BY <2>1, <3>1, SpentNext
  <2>4. Budget \in Int
    BY <2>1 DEF Budget, PowersOfTwo
  <2> QED
    BY <2>1, <2>2, <2>3, <2>4
<1> QED
  BY <1>1, <1>2, TypeCorrect, NextInTime, PTL DEF Spec
=============================================================================
