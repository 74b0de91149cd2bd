----------------------------- MODULE RateLimit -----------------------------
(***************************************************************************)
(* The fixed-window rate limiter of ratelimit/ratelimit.go: Allow counts a *)
(* call with INCR in the counter of the window its clock shows, gives the  *)
(* counter an expiry if the call was the first, and reads the expiry back. *)
(*                                                                         *)
(* One rate-limit key is modelled: keys do not interact.  Redis keeps      *)
(* expiries in fractions of a second, so a tick is one of them; win and    *)
(* phase are the window that the slowest clock shows and the ticks of it   *)
(* that are over.  Delivery of a command and of its reply are one step;    *)
(* the delays lie between the steps.                                       *)
(***************************************************************************)
EXTENDS Integers, FiniteSets

CONSTANTS
  Caller,    \* the requests in progress, on any replica of the service
  Limit,     \* calls allowed per window
  Second,    \* the ticks of a second
  W,         \* the window in seconds, which is also the expiry
  MaxSkew,   \* by how many ticks the clocks of two replicas differ
  MaxWin,    \* bound: the last window that is modelled
  MaxCount   \* bound: counts from here on are not told apart

ASSUME RateLimitConstants ==
  /\ IsFiniteSet(Caller)
  /\ Limit \in Nat /\ MaxCount \in Nat /\ MaxCount > Limit /\ MaxCount > 1
  /\ Second \in Nat \ {0} /\ W \in Nat /\ MaxWin \in Nat
  /\ MaxSkew \in 0..(W * Second - 1)

Windows == 0..(MaxWin + 1)

\* The window in ticks.
Length == W * Second

VARIABLES
  win, phase,  \* the time
  skew,        \* per caller: how far the clock of its replica is ahead
  count,       \* per window: its counter in Redis; 0 when the key is absent
  ttl,         \* per window: ticks until the key expires; 0 when it never does
  pc,          \* per caller: the next command of its Allow; "idle" or "rejected"
               \* when the request is not, or no longer, in the middleware
  target,      \* per caller: the window in the name of its key
  ticket,      \* per caller: the count its INCR returned
  retry,       \* the Retry-After of the last rejection, in seconds
  granted,     \* history, per window: calls allowed
  stray,       \* history: windows with an INCR executed after they were over
  disturbed    \* history: windows in which a command or a process failed

vars == <<win, phase, skew, count, ttl, pc, target, ticket, retry, granted, stray,
          disturbed>>
redis == <<count, ttl, stray>>
clock == <<win, phase, skew>>

-----------------------------------------------------------------------------
\* The window that the clock of c shows: time.Now().Unix() / seconds.
Shows(c) == IF phase + skew[c] < Length THEN win ELSE win + 1

Ended == {"idle", "rejected"}

Init ==
  /\ win = 0 /\ phase = 0
  /\ skew \in [Caller -> 0..MaxSkew]
  /\ count = [w \in Windows |-> 0]
  /\ ttl = [w \in Windows |-> 0]
  /\ pc = [c \in Caller |-> "idle"]
  /\ target = [c \in Caller |-> 0]
  /\ ticket = [c \in Caller |-> 0]
  /\ retry = 0
  /\ granted = [w \in Windows |-> 0]
  /\ stray = {} /\ disturbed = {}

\* A request reaches the middleware, which calls Allow; the key is named.
Request(c) ==
  /\ pc[c] \in Ended
  /\ pc' = [pc EXCEPT ![c] = "incr"]
  /\ target' = [target EXCEPT ![c] = Shows(c)]
  /\ UNCHANGED clock /\ UNCHANGED redis /\ UNCHANGED <<ticket, retry, granted, disturbed>>

\* The middleware of c is done with it, and so are the variables of its Allow.
Leave(c, how) ==
  /\ pc' = [pc EXCEPT ![c] = how]
  /\ target' = [target EXCEPT ![c] = 0]
  /\ ticket' = [ticket EXCEPT ![c] = 0]

Incremented(n) == IF n < MaxCount THEN n + 1 ELSE n

\* Redis executes INCR on the counter that c named.
Count(c) ==
  LET w == target[c] IN
    /\ count' = [count EXCEPT ![w] = Incremented(@)]
    /\ stray' = IF Shows(c) = w THEN stray ELSE stray \cup {w}
    /\ UNCHANGED ttl

\* Mutant: the expiry is set by a call that finds the counter at zero.
FirstIsZero(n) == n = 0
First(n) == n = 1

\* INCR succeeds; only the first call of a window goes on to EXPIRE.
Incr(c) ==
  /\ pc[c] = "incr"
  /\ Count(c)
  /\ LET n == count'[target[c]] IN
       /\ ticket' = [ticket EXCEPT ![c] = n]
       /\ pc' = [pc EXCEPT ![c] = IF First(n) THEN "expire" ELSE "ttl"]
  /\ UNCHANGED clock /\ UNCHANGED <<target, retry, granted, disturbed>>

\* A command of c, or its process, has failed.
Disturb(c) == disturbed' = disturbed \cup {target[c]}

\* Redis executes INCR but the reply is lost: go-redis sends it again, or Allow
\* returns the error and the middleware lets the request through.
IncrLost(c) ==
  /\ pc[c] = "incr"
  /\ Count(c)
  /\ Disturb(c)
  /\ Leave(c, "idle") \/ UNCHANGED <<pc, target, ticket>>
  /\ UNCHANGED clock /\ UNCHANGED <<retry, granted>>

\* Mutant: an expiry that is shorter than the window.
ShortExpiry == Length - 1
Expiry == Length

\* Redis executes EXPIRE, which does nothing to an absent key.
SetExpiry(c) ==
  ttl' = IF count[target[c]] > 0 THEN [ttl EXCEPT ![target[c]] = Expiry] ELSE ttl

\* EXPIRE succeeds.
Expire(c) ==
  /\ pc[c] = "expire"
  /\ SetExpiry(c)
  /\ pc' = [pc EXCEPT ![c] = "ttl"]
  /\ UNCHANGED clock
  /\ UNCHANGED <<count, stray, target, ticket, retry, granted, disturbed>>

\* Redis executes EXPIRE but the reply is lost: fail open.
ExpireLost(c) ==
  /\ pc[c] = "expire"
  /\ SetExpiry(c)
  /\ Disturb(c)
  /\ Leave(c, "idle")
  /\ UNCHANGED clock /\ UNCHANGED <<count, stray, retry, granted>>

\* INCR or EXPIRE fails before Redis executes it and the middleware fails open,
\* or the process of the caller dies.
Fail(c) ==
  /\ pc[c] \notin Ended
  /\ Disturb(c)
  /\ Leave(c, "idle")
  /\ UNCHANGED clock /\ UNCHANGED redis /\ UNCHANGED <<retry, granted>>

\* Mutant: the comparison is off by one.
OverEarly(n) == n >= Limit
Over(n) == n > Limit

\* Redis answers TTL with the remaining life to the nearest second; go-redis makes
\* it a Duration, of which the header keeps the seconds.  A key without expiry and
\* an absent key answer a negative number of nanoseconds, which is 0 seconds.
Seconds(t) == (t + Second \div 2) \div Second

\* TTL answers, or fails, which counts as a whole window.  The call is allowed or
\* rejected.
Answer(c) ==
  /\ pc[c] = "ttl"
  /\ \/ /\ Over(ticket[c])
        /\ Leave(c, "rejected")
        /\ retry' \in {Seconds(ttl[target[c]]), W}
        /\ UNCHANGED granted
     \/ /\ ~Over(ticket[c])
        /\ Leave(c, "idle")
        /\ granted' = [granted EXCEPT ![target[c]] = @ + 1]
        /\ UNCHANGED retry
  /\ UNCHANGED clock /\ UNCHANGED redis /\ UNCHANGED disturbed

\* Time passes; Redis drops the counters whose time is up.
Tick ==
  /\ \/ /\ phase + 1 < Length
        /\ phase' = phase + 1 /\ UNCHANGED win
     \/ /\ phase + 1 = Length /\ win < MaxWin
        /\ phase' = 0 /\ win' = win + 1
  /\ ttl' = [w \in Windows |-> IF ttl[w] = 0 THEN 0 ELSE ttl[w] - 1]
  /\ count' = [w \in Windows |-> IF ttl[w] = 1 THEN 0 ELSE count[w]]
  /\ UNCHANGED <<skew, pc, target, ticket, retry, granted, stray, disturbed>>

Step(c) ==
  \/ Request(c) \/ Incr(c) \/ IncrLost(c) \/ Expire(c) \/ ExpireLost(c)
  \/ Fail(c) \/ Answer(c)

Next == Tick \/ \E c \in Caller : Step(c)

Spec == Init /\ [][Next]_vars

-----------------------------------------------------------------------------
TypeOK ==
  /\ win \in 0..MaxWin /\ phase \in 0..(Length - 1)
  /\ skew \in [Caller -> 0..MaxSkew]
  /\ count \in [Windows -> 0..MaxCount]
  /\ ttl \in [Windows -> 0..Length]
  /\ pc \in [Caller -> Ended \cup {"incr", "expire", "ttl"}]
  /\ target \in [Caller -> Windows]
  /\ ticket \in [Caller -> 0..MaxCount]
  /\ retry \in 0..W
  /\ granted \in [Windows -> Nat]
  /\ stray \in SUBSET Windows /\ disturbed \in SUBSET Windows

\* The calls that hold one of the tickets of w and have not been told yet.
Pending(w) ==
  {c \in Caller : /\ pc[c] \in {"expire", "ttl"}
                  /\ target[c] = w /\ ticket[c] <= Limit}

\* All replicas read the same time.
Synchronised == \A c \in Caller : skew[c] = 0

\* With synchronised clocks, a window grants at most Limit calls unless an INCR
\* reached Redis after its window was over, whatever fails (ratelimit.go:41-62).
WithinLimit == Synchronised => \A w \in Windows \ stray : granted[w] <= Limit

\* A call of window w is rejected in this step.
Rejected(c, w) == pc[c] = "ttl" /\ pc'[c] = "rejected" /\ target[c] = w

\* In a window without failures nobody is rejected before its tickets are used
\* up: no count is spent on a call that was not allowed (ratelimit.go:43-60).
RejectsOnlyWhenFull ==
  [][\A c \in Caller, w \in Windows \ disturbed :
       Rejected(c, w) => granted[w] + Cardinality(Pending(w)) >= Limit]_vars

\* The ticks that are left of the window.
Left == Length - phase

\* With synchronised clocks and no failure Retry-After falls short of the end of the
\* window by less than half a second, which TTL rounds away, unless the call that has
\* to set the expiry is still under way: until then it is 0 (ratelimit.go:53-60,85).
RetryAfterReaches ==
  [][\A c \in Caller :
       Rejected(c, win) /\ win \notin disturbed /\ Synchronised =>
         \/ 2 * (Left - retry' * Second) < Second
         \/ \E d \in Caller : pc[d] = "expire" /\ target[d] = win]_vars

\* Only a failure leaves a counter without expiry: one that has none is waiting
\* for the EXPIRE of a call in progress, although the calls after the first
\* never set it (ratelimit.go:47).
CountersExpire ==
  \A w \in Windows \ disturbed :
    count[w] > 0 /\ ttl[w] = 0 =>
      \E c \in Caller : pc[c] = "expire" /\ target[c] = w
=============================================================================
