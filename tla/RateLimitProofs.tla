-------------------------- MODULE RateLimitProofs --------------------------
(***************************************************************************)
(* Theorems about RateLimit for any set of requests, any limit, any window *)
(* and any number of modelled windows.                                     *)
(***************************************************************************)
EXTENDS RateLimit, FiniteSetTheorems, TLAPS

\* No call names a window that the time has not reached.
NoFuture ==
  /\ \A c \in Caller : target[c] <= win
  /\ \A w \in Windows : w > win => count[w] = 0 /\ granted[w] = 0

\* Only a key that exists expires, and never inside its own window.
ExpiryCovers ==
  /\ \A w \in Windows : ttl[w] > 0 => count[w] > 0
  /\ ttl[win] > 0 => ttl[win] >= Length - phase

\* Tickets of w that were given out and could have been granted.
Sold(w) == granted[w] + Cardinality(Pending(w))

\* No more tickets are given out than there are, and in the current window no
\* more than were counted.
NotOversold ==
  \A w \in Windows \ stray :
    /\ Sold(w) <= Limit
    /\ w = win => Sold(w) <= count[w]

IInv == TypeOK /\ NoFuture /\ ExpiryCovers /\ NotOversold

\* The length of a window, in ticks.
LEMMA LengthType ==
  /\ Second \in Nat /\ Second > 0 /\ W \in Nat
  /\ Length \in Nat /\ Length > 0 /\ MaxSkew \in Nat /\ MaxSkew < Length
<1>1. W * Second \in Nat /\ MaxSkew \in 0..(W * Second - 1)
  BY RateLimitConstants
<1> QED
  BY <1>1, RateLimitConstants DEF Length

\* A whole window is a whole number of seconds, no life is longer, and rounding to the
\* nearest second loses less than half of one.
LEMMA SecondsRound ==
  ASSUME NEW t \in 0..Length
  PROVE  Seconds(t) \in 0..W /\ 2 * (t - Seconds(t) * Second) < Second
<1>1. Second \in Nat /\ Second > 0 /\ W \in Nat /\ t \in Nat /\ t <= W * Second
  BY LengthType DEF Length
<1> DEFINE h == Second \div 2
           q == (t + h) \div Second
<1>2. h \in Nat /\ 2 * h <= Second /\ Second <= 2 * h + 1
  BY <1>1
<1>3. q \in Int /\ q * Second <= t + h /\ t + h < (q + 1) * Second
  BY <1>1, <1>2
<1> HIDE DEF h, q
<1>4. (q + 1) * Second = q * Second + Second /\ q * Second \in Int
  BY <1>1, <1>3
<1>5. q >= 0
  BY <1>1, <1>2, <1>3, <1>4
<1>6. q <= W
  BY <1>1, <1>2, <1>3, <1>4
<1>7. 2 * (t - q * Second) < Second
  BY <1>1, <1>2, <1>3, <1>4
<1> QED
  BY <1>3, <1>5, <1>6, <1>7 DEF q, h, Seconds

LEMMA PendingFinite ==
  \A w : IsFiniteSet(Pending(w)) /\ Cardinality(Pending(w)) \in Nat
<1> TAKE w
<1>1. Pending(w) \subseteq Caller
  BY DEF Pending
<1> QED
  BY <1>1, RateLimitConstants, FS_Subset, FS_CardinalityType

LEMMA PendingFinitePrimed ==
  \A w : IsFiniteSet(Pending(w)') /\ Cardinality(Pending(w)') \in Nat
<1> TAKE w
<1>1. Pending(w)' \subseteq Caller
  BY DEF Pending
<1> QED
  BY <1>1, RateLimitConstants, FS_Subset, FS_CardinalityType

\* Every step preserves types.
LEMMA NextTypeOK == TypeOK /\ [Next]_vars => TypeOK'
<1> SUFFICES ASSUME TypeOK, [Next]_vars PROVE TypeOK'
  OBVIOUS
<1> USE RateLimitConstants, LengthType DEF TypeOK, clock, redis
<1>1. ASSUME NEW c \in Caller, Request(c) PROVE TypeOK'
  <2>1. Shows(c) \in Windows
    BY DEF Shows, Windows
  <2> QED
    BY <1>1, <2>1 DEF Request, Ended
<1>z. 0 \in Windows
  BY DEF Windows
<1>2. ASSUME NEW c \in Caller, Incr(c) PROVE TypeOK'
  BY <1>2 DEF Incr, Count, Incremented
<1>3. ASSUME NEW c \in Caller, IncrLost(c) PROVE TypeOK'
  BY <1>3, <1>z DEF IncrLost, Count, Incremented, Disturb, Leave, Ended
<1>4. ASSUME NEW c \in Caller, Expire(c) PROVE TypeOK'
  BY <1>4 DEF Expire, SetExpiry, Expiry
<1>5. ASSUME NEW c \in Caller, ExpireLost(c) PROVE TypeOK'
  BY <1>5, <1>z DEF ExpireLost, SetExpiry, Expiry, Disturb, Leave, Ended
<1>6. ASSUME NEW c \in Caller, Fail(c) PROVE TypeOK'
  BY <1>6, <1>z DEF Fail, Disturb, Leave, Ended
<1>7. ASSUME NEW c \in Caller, Answer(c) PROVE TypeOK'
  <2>1. \A w \in Windows : Seconds(ttl[w]) \in 0..W
    BY SecondsRound
  <2> QED
    BY <1>7, <1>z, <2>1 DEF Answer, Leave, Ended
<1>8. CASE Tick
  BY <1>8 DEF Tick
<1>9. CASE UNCHANGED vars
  BY <1>9 DEF vars
<1> QED
  BY <1>1, <1>2, <1>3, <1>4, <1>5, <1>6, <1>7, <1>8, <1>9 DEF Next, Step

\* Type correctness of the limiter (ratelimit.go:40-91).
THEOREM TypeCorrect == Spec => []TypeOK
<1>1. Init => TypeOK
  BY RateLimitConstants, LengthType DEF Init, TypeOK, Windows, Ended
<1> QED
  BY <1>1, NextTypeOK, PTL DEF Spec

-----------------------------------------------------------------------------
\* Without skew every clock shows the same window.
LEMMA OneClock == ASSUME Synchronised, TypeOK, NEW c \in Caller PROVE Shows(c) = win
  BY LengthType DEF TypeOK, Synchronised, Shows

\* The time, the keys and their expiry keep step.
LEMMA NextTime ==
  ASSUME Synchronised, TypeOK, NoFuture, ExpiryCovers, [Next]_vars
  PROVE  NoFuture' /\ ExpiryCovers'
<1>t. TypeOK'
  BY NextTypeOK
<1>0. /\ win \in Windows /\ win' \in Windows /\ Windows \subseteq Nat
      /\ Length \in Nat /\ Length > 0
  BY <1>t, LengthType, RateLimitConstants DEF TypeOK, Windows
<1> USE <1>0, RateLimitConstants DEF TypeOK, NoFuture, ExpiryCovers, clock, redis
<1>1. ASSUME NEW c \in Caller, Request(c) PROVE NoFuture' /\ ExpiryCovers'
  <2>1. Shows(c) = win
    BY OneClock
  <2> QED
    BY <1>1, <2>1 DEF Request
<1>2. ASSUME NEW c \in Caller, Count(c), UNCHANGED <<win, phase, granted>>,
             \A d \in Caller : target'[d] \in {target[d], 0}
      PROVE  NoFuture' /\ ExpiryCovers'
  <2>1. NoFuture'
    BY <1>2 DEF Count, Incremented
  <2>2. \A w \in Windows : count[w] > 0 => count'[w] > 0
    BY <1>2 DEF Count, Incremented
  <2> QED
    BY <1>2, <2>1, <2>2 DEF Count
<1>3. ASSUME NEW c \in Caller, Incr(c) \/ IncrLost(c) PROVE NoFuture' /\ ExpiryCovers'
  BY <1>2, <1>3 DEF Incr, IncrLost, Leave
<1>4. ASSUME NEW c \in Caller, Expire(c) PROVE NoFuture' /\ ExpiryCovers'
  BY <1>4 DEF Expire, SetExpiry, Expiry
<1>5. ASSUME NEW c \in Caller, ExpireLost(c) PROVE NoFuture' /\ ExpiryCovers'
  BY <1>5 DEF ExpireLost, SetExpiry, Expiry, Leave
<1>6. ASSUME NEW c \in Caller, Fail(c) PROVE NoFuture' /\ ExpiryCovers'
  BY <1>6 DEF Fail, Leave
<1>7. ASSUME NEW c \in Caller, Answer(c) PROVE NoFuture' /\ ExpiryCovers'
  <2>1. \A w \in Windows : granted'[w] = granted[w] \/ w = target[c]
    BY <1>7 DEF Answer
  <2> QED
    BY <1>7, <2>1 DEF Answer, Leave
<1>8. CASE Tick
  <2>1. win' >= win
    BY <1>8 DEF Tick
  <2>2. NoFuture'
    <3>1. ASSUME NEW c \in Caller PROVE target'[c] <= win'
      <4>1. target'[c] = target[c] /\ target[c] \in Nat /\ target[c] <= win
        BY <1>8 DEF Tick
      <4> QED
        BY <2>1, <4>1
    <3>2. ASSUME NEW w \in Windows, w > win' PROVE count'[w] = 0 /\ granted'[w] = 0
      <4>1. w > win
        BY <2>1, <3>2
      <4> QED
        BY <1>8, <4>1 DEF Tick
    <3> QED
      BY <3>1, <3>2
  <2>3. \A w \in Windows : ttl'[w] > 0 => count'[w] > 0
    BY <1>8 DEF Tick
  <2>4. CASE win' = win
    BY <1>8, <2>2, <2>3, <2>4 DEF Tick
  <2>5. CASE win' = win + 1
    <3>1. win' \in Windows /\ win' > win
      BY <2>5
    <3>2. count[win'] = 0 /\ ttl[win'] = 0
      BY <3>1
    <3>3. ttl'[win'] = 0
      BY <1>8, <3>1, <3>2 DEF Tick
    <3> QED
      BY <2>2, <2>3, <3>3
  <2> QED
    BY <1>8, <2>2, <2>3, <2>4, <2>5 DEF Tick
<1>9. CASE UNCHANGED vars
  BY <1>9 DEF vars
<1> QED
  BY <1>1, <1>3, <1>4, <1>5, <1>6, <1>7, <1>8, <1>9 DEF Next, Step

\* A step that moves no call into Pending and grants nothing keeps what is sold.
LEMMA SoldShrinks ==
  ASSUME TypeOK, NEW w \in Windows, Pending(w)' \subseteq Pending(w),
         granted'[w] = granted[w]
  PROVE  Sold(w)' <= Sold(w)
<1>1. Cardinality(Pending(w)') <= Cardinality(Pending(w))
  BY PendingFinite, FS_Subset
<1> QED
  BY <1>1, PendingFinite, PendingFinitePrimed DEF Sold, TypeOK

\* A grant turns a pending ticket into a granted one.
LEMMA SoldByGrant ==
  ASSUME TypeOK, NEW w \in Windows, NEW c \in Pending(w),
         Pending(w)' = Pending(w) \ {c}, granted'[w] = granted[w] + 1
  PROVE  Sold(w)' = Sold(w)
<1>1. Cardinality(Pending(w)') = Cardinality(Pending(w)) - 1
  BY PendingFinite, FS_RemoveElement
<1> QED
  BY <1>1, PendingFinite, PendingFinitePrimed DEF Sold, TypeOK

\* A new ticket is one more.
LEMMA SoldByIncr ==
  ASSUME TypeOK, NEW w \in Windows, NEW c, c \notin Pending(w),
         Pending(w)' = Pending(w) \cup {c}, granted'[w] = granted[w]
  PROVE  Sold(w)' = Sold(w) + 1
<1>1. Cardinality(Pending(w)') = Cardinality(Pending(w)) + 1
  BY PendingFinite, FS_AddElement
<1> QED
  BY <1>1, PendingFinite, PendingFinitePrimed DEF Sold, TypeOK

\* Every step keeps the tickets of a window within its limit.
LEMMA NextNotOversold ==
  ASSUME Synchronised, IInv, [Next]_vars PROVE NotOversold'
<1>t. TypeOK /\ TypeOK' /\ win \in Windows /\ Limit \in Nat
  <2>1. TypeOK /\ TypeOK'
    BY NextTypeOK DEF IInv
  <2>2. win \in 0..MaxWin
    BY <2>1 DEF TypeOK
  <2> QED
    BY <2>1, <2>2, RateLimitConstants DEF Windows
<1>n. \A w \in Windows : Sold(w) \in Nat /\ Sold(w)' \in Nat
                         /\ count[w] \in Nat /\ count'[w] \in Nat
  BY <1>t, PendingFinite, PendingFinitePrimed, RateLimitConstants DEF Sold, TypeOK
<1> SUFFICES ASSUME NEW w \in Windows \ stray'
             PROVE  Sold(w)' <= Limit /\ (w = win' => Sold(w)' <= count'[w])
  BY DEF NotOversold
<1>o. w \notin stray => Sold(w) <= Limit /\ (w = win => Sold(w) <= count[w])
  BY DEF IInv, NotOversold
\* The steps that neither count nor grant.
<1>s. ASSUME win' = win, w \notin stray, count'[w] >= count[w] \/ w # win,
             granted'[w] = granted[w], Pending(w)' \subseteq Pending(w)
      PROVE  Sold(w)' <= Limit /\ (w = win' => Sold(w)' <= count'[w])
  <2>1. Sold(w)' <= Sold(w)
    BY <1>t, <1>s, SoldShrinks
  <2> QED
    BY <1>n, <1>o, <1>s, <1>t, <2>1
<1>1. ASSUME NEW c \in Caller, Request(c) \/ Expire(c) \/ ExpireLost(c) \/ Fail(c)
      PROVE  Sold(w)' <= Limit /\ (w = win' => Sold(w)' <= count'[w])
  <2>1. Pending(w)' \subseteq Pending(w)
    BY <1>1, <1>t DEF Request, Expire, ExpireLost, Fail, Leave, Pending, Ended, TypeOK
  <2>2. UNCHANGED <<win, count, granted, stray>>
    BY <1>1 DEF Request, Expire, ExpireLost, Fail, clock, redis
  <2> QED
    BY <1>s, <1>n, <2>1, <2>2
<1>2. ASSUME NEW c \in Caller, Count(c), UNCHANGED <<win, granted>>, w # target[c],
             Pending(w)' \subseteq Pending(w)
      PROVE  Sold(w)' <= Limit /\ (w = win' => Sold(w)' <= count'[w])
  <2>1. w \notin stray /\ count'[w] = count[w]
    BY <1>2, <1>t DEF Count, TypeOK
  <2> QED
    BY <1>2, <1>s, <1>n, <2>1
<1>3. ASSUME NEW c \in Caller, Count(c), w = target[c]
      PROVE  /\ w = win /\ w \notin stray
             /\ count'[w] = Incremented(count[w])
  BY <1>3, <1>t, OneClock DEF Count, TypeOK
<1>4. ASSUME NEW c \in Caller, IncrLost(c)
      PROVE  Sold(w)' <= Limit /\ (w = win' => Sold(w)' <= count'[w])
  <2>1. Count(c) /\ UNCHANGED <<win, granted>> /\ Pending(w)' \subseteq Pending(w)
    BY <1>4, <1>t DEF IncrLost, Leave, Pending, TypeOK, clock
  <2>2. w = target[c] => count'[w] >= count[w]
    BY <1>3, <1>n, <2>1 DEF Incremented
  <2> QED
    BY <1>2, <1>3, <1>s, <2>1, <2>2
<1>5. ASSUME NEW c \in Caller, Incr(c)
      PROVE  Sold(w)' <= Limit /\ (w = win' => Sold(w)' <= count'[w])
  <2>1. Count(c) /\ UNCHANGED <<win, granted>> /\ c \notin Pending(w)
    BY <1>5 DEF Incr, Pending, clock
  <2>2. CASE w # target[c]
    <3>1. Pending(w)' \subseteq Pending(w)
      BY <1>5, <1>t, <2>2 DEF Incr, Pending, TypeOK
    <3> QED
      BY <1>2, <2>1, <2>2, <3>1
  <2>3. CASE w = target[c] /\ count'[w] > Limit
    <3>1. Pending(w)' \subseteq Pending(w)
      BY <1>5, <1>t, <1>n, <2>3 DEF Incr, Pending, TypeOK
    <3>2. count'[w] >= count[w]
      BY <1>3, <1>n, <2>1, <2>3 DEF Incremented
    <3> QED
      BY <1>3, <1>s, <2>1, <2>3, <3>1, <3>2
  <2>4. CASE w = target[c] /\ count'[w] <= Limit
    <3>1. Pending(w)' = Pending(w) \cup {c}
      BY <1>5, <1>t, <2>4 DEF Incr, Pending, TypeOK
    <3>2. Sold(w)' = Sold(w) + 1
      BY <1>t, <2>1, <3>1, SoldByIncr
    <3>3. w = win /\ w \notin stray /\ count'[w] = Incremented(count[w])
      BY <1>3, <2>1, <2>4
    <3>4. count'[w] = count[w] + 1
      BY <1>n, <1>t, <2>4, <3>3, RateLimitConstants DEF Incremented
    <3> QED
      BY <1>n, <1>o, <1>t, <2>1, <2>4, <3>2, <3>3, <3>4
  <2> QED
    BY <1>n, <1>t, <2>2, <2>3, <2>4
<1>6. ASSUME NEW c \in Caller, Answer(c)
      PROVE  Sold(w)' <= Limit /\ (w = win' => Sold(w)' <= count'[w])
  <2>1. UNCHANGED <<win, count, stray>>
    BY <1>6 DEF Answer, clock, redis
  <2>2. CASE granted'[w] = granted[w]
    <3>1. Pending(w)' \subseteq Pending(w)
      BY <1>6, <1>t DEF Answer, Leave, Pending, TypeOK
    <3> QED
      BY <1>n, <1>s, <2>1, <2>2, <3>1
  <2>3. CASE granted'[w] # granted[w]
    <3>1. /\ w = target[c] /\ pc[c] = "ttl" /\ ~Over(ticket[c])
          /\ granted'[w] = granted[w] + 1
          /\ Leave(c, "idle")
      BY <1>6, <1>t, <2>3 DEF Answer, TypeOK
    <3>2. c \in Pending(w) /\ Pending(w)' = Pending(w) \ {c}
      BY <1>t, <3>1, RateLimitConstants DEF Over, Leave, Pending, TypeOK
    <3>3. Sold(w)' = Sold(w)
      BY <1>t, <3>1, <3>2, SoldByGrant
    <3> QED
      BY <1>o, <2>1, <3>3
  <2> QED
    BY <2>2, <2>3
<1>7. CASE Tick
  <2>1. UNCHANGED <<granted, stray>> /\ Pending(w)' \subseteq Pending(w)
    BY <1>7 DEF Tick, Pending
  <2>2. Sold(w)' <= Sold(w)
    BY <1>t, <2>1, SoldShrinks
  <2>3. CASE win' = win
    <3>1. ttl[win] # 1
      BY <1>7, <1>t, <2>3, LengthType DEF Tick, IInv, ExpiryCovers, TypeOK
    <3>2. count'[win] = count[win]
      BY <1>7, <1>t, <3>1 DEF Tick
    <3> QED
      BY <1>n, <1>o, <1>t, <2>1, <2>2, <2>3, <3>2
  <2>4. CASE win' # win
    <3>1. w = win' => Pending(w) = {} /\ granted[w] = 0
      <4>1. w = win' => w > win
        BY <1>7, <1>t, <2>4 DEF Tick, TypeOK
      <4>2. \A c \in Caller : target[c] \in Nat /\ win \in Nat
        BY <1>t DEF TypeOK, Windows
      <4> QED
        BY <4>1, <4>2 DEF IInv, NoFuture, Pending, Windows
    <3>2. w = win' => Sold(w) = 0
      BY <3>1, FS_EmptySet DEF Sold
    <3> QED
      BY <1>n, <1>o, <1>t, <2>1, <2>2, <3>2
  <2> QED
    BY <2>3, <2>4
<1>8. CASE UNCHANGED vars
  BY <1>8, <1>o DEF vars, Sold, Pending
<1> QED
  BY <1>1, <1>4, <1>5, <1>6, <1>7, <1>8 DEF Next, Step

LEMMA InitIInv == Init => IInv
<1> SUFFICES ASSUME Init PROVE IInv
  OBVIOUS
<1>1. TypeOK
  BY RateLimitConstants, LengthType DEF Init, TypeOK, Windows, Ended
<1>2. NoFuture /\ ExpiryCovers
  BY RateLimitConstants DEF Init, NoFuture, ExpiryCovers, Windows
<1>3. \A w \in Windows : Sold(w) = 0
  <2> TAKE w \in Windows
  <2>1. Pending(w) = {}
    BY DEF Init, Pending
  <2> QED
    BY <2>1, FS_EmptySet DEF Init, Sold
<1> QED
  BY <1>1, <1>2, <1>3, RateLimitConstants DEF IInv, NotOversold, Init, Windows

\* No clock is set while the service runs.
LEMMA SkewStays == [Next]_vars => skew' = skew
  BY DEF Next, Step, Tick, Request, Incr, IncrLost, Expire, ExpireLost, Fail, Answer,
         clock, vars

\* Without clock skew no window grants more than Limit calls, whatever fails and
\* however the calls interleave, unless an INCR arrives after its window.
THEOREM Bounded == Spec => []WithinLimit
<1> DEFINE Inv == Synchronised => IInv
<1>1. Init => Inv
  BY InitIInv
<1>2. Inv /\ [Next]_vars => Inv'
  <2>1. [Next]_vars => (Synchronised' <=> Synchronised)
    BY SkewStays DEF Synchronised
  <2> QED
    BY <2>1, NextTypeOK, NextTime, NextNotOversold DEF IInv
<1>3. Inv => WithinLimit
  <2> SUFFICES ASSUME IInv, NEW w \in Windows \ stray PROVE granted[w] <= Limit
    BY DEF WithinLimit
  <2>1. granted[w] \in Nat /\ granted[w] <= Sold(w) /\ Sold(w) <= Limit
    BY PendingFinite DEF IInv, TypeOK, NotOversold, Sold
  <2> QED
    BY <2>1, PendingFinite, RateLimitConstants DEF Sold
<1> QED
  BY <1>1, <1>2, <1>3, PTL DEF Spec

-----------------------------------------------------------------------------
\* Only a step that disturbs the window of c takes the EXPIRE from it.
LEMMA NextCountersExpire == TypeOK /\ CountersExpire /\ [Next]_vars => CountersExpire'
<1> SUFFICES ASSUME TypeOK, CountersExpire, [Next]_vars,
                    NEW w \in Windows \ disturbed', count'[w] > 0, ttl'[w] = 0
             PROVE  \E d \in Caller : pc'[d] = "expire" /\ target'[d] = w
  BY DEF CountersExpire
<1>w. W \in Nat /\ W > 0 /\ MaxCount \in Nat /\ MaxCount > 1 /\ w \in Windows
  BY RateLimitConstants
<1>i. count[w] > 0 /\ ttl[w] = 0 /\ w \notin disturbed =>
        \E d \in Caller : pc[d] = "expire" /\ target[d] = w
  BY DEF CountersExpire
<1>n. count[w] \in 0..MaxCount /\ ttl[w] \in 0..Length
  BY DEF TypeOK
\* The steps that leave the keys and the calls that are at EXPIRE alone.
<1>s. ASSUME NEW c \in Caller, UNCHANGED <<count, ttl, disturbed>>, pc[c] # "expire",
             \A d \in Caller \ {c} : pc'[d] = pc[d] /\ target'[d] = target[d]
      PROVE  \E d \in Caller : pc'[d] = "expire" /\ target'[d] = w
  BY <1>i, <1>s
<1>1. ASSUME NEW c \in Caller, Request(c) \/ Answer(c)
      PROVE  \E d \in Caller : pc'[d] = "expire" /\ target'[d] = w
  <2>1. UNCHANGED <<count, ttl, disturbed>> /\ pc[c] # "expire"
    BY <1>1 DEF Request, Answer, Ended, redis
  <2>2. \A d \in Caller \ {c} : pc'[d] = pc[d] /\ target'[d] = target[d]
    BY <1>1 DEF Request, Answer, Leave, TypeOK
  <2> QED
    BY <1>s, <2>1, <2>2
<1>2. ASSUME NEW c \in Caller, Incr(c)
      PROVE  \E d \in Caller : pc'[d] = "expire" /\ target'[d] = w
  <2>0. /\ ttl' = ttl /\ target' = target /\ disturbed' = disturbed
        /\ pc[c] = "incr" /\ \A d \in Caller \ {c} : pc'[d] = pc[d]
        /\ count' = [count EXCEPT ![target[c]] = Incremented(@)]
    BY <1>2 DEF Incr, Count, TypeOK
  <2>1. CASE count[w] > 0
    BY <1>i, <2>0, <2>1
  <2>2. CASE count[w] = 0
    <3>1. w = target[c]
      BY <1>n, <2>0, <2>2 DEF TypeOK
    <3>2. count'[w] = 1
      BY <1>w, <2>0, <2>2, <3>1 DEF TypeOK, Incremented
    <3>3. pc'[c] = "expire"
      BY <1>2, <3>1, <3>2 DEF Incr, First, TypeOK
    <3> QED
      BY <2>0, <3>1, <3>3
  <2> QED
    BY <1>n, <2>1, <2>2
<1>3. ASSUME NEW c \in Caller, Expire(c)
      PROVE  \E d \in Caller : pc'[d] = "expire" /\ target'[d] = w
  <2>0. /\ count' = count /\ target' = target /\ disturbed' = disturbed
        /\ \A d \in Caller \ {c} : pc'[d] = pc[d]
        /\ SetExpiry(c)
    BY <1>3 DEF Expire, TypeOK
  <2>1. w # target[c]
    BY <1>w, <2>0 DEF SetExpiry, Expiry, TypeOK
  <2>2. ttl[w] = 0
    BY <2>0, <2>1 DEF SetExpiry, TypeOK
  <2> QED
    BY <1>i, <2>0, <2>1, <2>2
<1>4. ASSUME NEW c \in Caller, IncrLost(c) \/ ExpireLost(c) \/ Fail(c)
      PROVE  \E d \in Caller : pc'[d] = "expire" /\ target'[d] = w
  <2>0. /\ w # target[c] /\ w \notin disturbed
        /\ \A d \in Caller \ {c} : pc'[d] = pc[d] /\ target'[d] = target[d]
    BY <1>4 DEF IncrLost, ExpireLost, Fail, Disturb, Leave, TypeOK
  <2>1. count'[w] = count[w] /\ ttl'[w] = ttl[w]
    BY <1>4, <2>0 DEF IncrLost, ExpireLost, Fail, Count, SetExpiry, redis, TypeOK
  <2> QED
    BY <1>i, <2>0, <2>1
<1>5. CASE Tick
  <2>1. ttl[w] = 0 /\ count[w] > 0 /\ UNCHANGED <<pc, target, disturbed>>
    BY <1>5, <1>n DEF Tick
  <2> QED
    BY <1>i, <2>1
<1>6. CASE UNCHANGED vars
  BY <1>6, <1>i DEF vars
<1> QED
  BY <1>1, <1>2, <1>3, <1>4, <1>5, <1>6 DEF Next, Step

\* A window without failures has no counter that stays for ever, although only the
\* first call of a window asks for the expiry (ratelimit.go:47).
THEOREM NoCounterStays == Spec => []CountersExpire
<1>1. Init => CountersExpire
  BY DEF Init, CountersExpire, Windows
<1> QED
  BY <1>1, TypeCorrect, NextCountersExpire, PTL DEF Spec

-----------------------------------------------------------------------------
\* How many of n counted calls have a ticket that may be granted.
Due(n) == IF n < Limit THEN n ELSE Limit

\* A call that has counted and not been told yet.
Holds(c, w) == pc[c] \in {"expire", "ttl"} /\ target[c] = w

\* Every count of a window without failures has been granted or still can be.
NothingWasted ==
  \A w \in Windows \ disturbed :
    /\ Sold(w) >= Due(count[w])
    /\ \A c \in Caller : Holds(c, w) => Sold(w) >= Due(ticket[c])

\* A step that takes no call out of Pending and no grant back.
LEMMA SoldKept ==
  ASSUME TypeOK, TypeOK', NEW w \in Windows, Pending(w) \subseteq Pending(w)',
         granted'[w] >= granted[w]
  PROVE  Sold(w)' >= Sold(w)
<1>1. Cardinality(Pending(w)) <= Cardinality(Pending(w)')
  BY PendingFinitePrimed, FS_Subset
<1> QED
  BY <1>1, PendingFinite, PendingFinitePrimed DEF Sold, TypeOK

LEMMA NextNothingWasted == TypeOK /\ NothingWasted /\ [Next]_vars => NothingWasted'
<1> SUFFICES ASSUME TypeOK, NothingWasted, [Next]_vars, NEW w \in Windows \ disturbed'
             PROVE  /\ Sold(w)' >= Due(count'[w])
                    /\ \A c \in Caller : Holds(c, w)' => Sold(w)' >= Due(ticket'[c])
  BY DEF NothingWasted, Due
<1> DEFINE Goal == /\ Sold(w)' >= Due(count'[w])
                   /\ \A c \in Caller : Holds(c, w)' => Sold(w)' >= Due(ticket'[c])
<1>t. TypeOK /\ TypeOK' /\ Limit \in Nat /\ MaxCount \in Nat /\ MaxCount > Limit
  BY NextTypeOK, RateLimitConstants
<1>n. /\ Sold(w) \in Nat /\ Sold(w)' \in Nat
      /\ count[w] \in 0..MaxCount /\ count'[w] \in 0..MaxCount
      /\ \A c \in Caller : ticket[c] \in 0..MaxCount /\ ticket'[c] \in 0..MaxCount
  BY <1>t, PendingFinite, PendingFinitePrimed DEF Sold, TypeOK
<1>i. w \notin disturbed =>
        /\ Sold(w) >= Due(count[w])
        /\ \A c \in Caller : Holds(c, w) => Sold(w) >= Due(ticket[c])
  BY DEF NothingWasted
\* The steps that give no ticket of w to a call.
<1>s. ASSUME w \notin disturbed, Sold(w)' >= Sold(w), count'[w] <= count[w],
             \A d \in Caller : Holds(d, w)' => Holds(d, w) /\ ticket'[d] = ticket[d]
      PROVE  Goal
  <2>1. Due(count'[w]) \in Int /\ Due(count[w]) \in Int /\ Due(count'[w]) <= Due(count[w])
    BY <1>n, <1>s, <1>t DEF Due
  <2>2. \A d \in Caller : Due(ticket[d]) \in Int
    BY <1>n, <1>t DEF Due
  <2>3. \A d \in Caller : Holds(d, w)' => Sold(w)' >= Due(ticket'[d])
    BY <1>i, <1>n, <1>s, <2>2
  <2> QED
    BY <1>i, <1>n, <1>s, <2>1, <2>3
<1>1. ASSUME NEW c \in Caller, Request(c) \/ Expire(c) PROVE Goal
  <2>1. UNCHANGED <<count, granted, ticket, disturbed>>
    BY <1>1 DEF Request, Expire, redis
  <2>2. /\ Pending(w) \subseteq Pending(w)'
        /\ \A d \in Caller : Holds(d, w)' => Holds(d, w)
    BY <1>1, <1>t DEF Request, Expire, Ended, Pending, Holds, TypeOK
  <2>3. Sold(w)' >= Sold(w)
    BY <1>t, <2>1, <2>2, SoldKept DEF TypeOK
  <2> QED
    BY <1>n, <1>s, <2>1, <2>2, <2>3
<1>2. ASSUME NEW c \in Caller, IncrLost(c) \/ ExpireLost(c) \/ Fail(c) PROVE Goal
  <2>1. w # target[c] /\ w \notin disturbed /\ granted' = granted
    BY <1>2 DEF IncrLost, ExpireLost, Fail, Disturb
  <2>2. count'[w] = count[w]
    BY <1>2, <1>t, <2>1 DEF IncrLost, ExpireLost, Fail, Count, redis, TypeOK
  <2>3. /\ \A d \in Caller \ {c} : /\ pc'[d] = pc[d] /\ target'[d] = target[d]
                                   /\ ticket'[d] = ticket[d]
        /\ pc'[c] \notin {"expire", "ttl"}
    BY <1>2, <1>t DEF IncrLost, ExpireLost, Fail, Leave, TypeOK
  <2>4. Pending(w) \subseteq Pending(w)'
    BY <2>1, <2>3 DEF Pending
  <2>5. \A d \in Caller : Holds(d, w)' => Holds(d, w) /\ ticket'[d] = ticket[d]
    BY <2>1, <2>3 DEF Holds
  <2>6. Sold(w)' >= Sold(w)
    BY <1>t, <2>1, <2>4, SoldKept DEF TypeOK
  <2> QED
    BY <1>n, <1>s, <2>1, <2>2, <2>5, <2>6
<1>3. ASSUME NEW c \in Caller, Incr(c) PROVE Goal
  <2>0. /\ UNCHANGED <<granted, target, disturbed>> /\ c \notin Pending(w)
        /\ count' = [count EXCEPT ![target[c]] = Incremented(@)]
        /\ ticket' = [ticket EXCEPT ![c] = count'[target[c]]]
        /\ pc'[c] \in {"expire", "ttl"} /\ \A d \in Caller \ {c} : pc'[d] = pc[d]
    BY <1>3, <1>t DEF Incr, Count, Pending, TypeOK
  <2>1. CASE w # target[c]
    <3>1. Pending(w) \subseteq Pending(w)' /\ \A d \in Caller : Holds(d, w)' => d # c /\ Holds(d, w)
      BY <1>3, <1>t, <2>0, <2>1 DEF Pending, Holds, TypeOK
    <3>2. Sold(w)' >= Sold(w)
      BY <1>t, <2>0, <3>1, SoldKept DEF TypeOK
    <3> QED
      BY <1>n, <1>s, <1>t, <2>0, <2>1, <3>1, <3>2 DEF TypeOK
  <2>2. CASE w = target[c]
    <3>0. count'[w] = Incremented(count[w]) /\ ticket'[c] = count'[w]
      BY <1>t, <2>0, <2>2 DEF TypeOK
    <3>1. Sold(w)' >= Sold(w) /\ Sold(w)' >= Due(count'[w])
      <4>1. CASE count'[w] <= Limit
        <5>1. Pending(w)' = Pending(w) \cup {c}
          BY <1>t, <2>0, <2>2, <3>0, <4>1 DEF Pending, TypeOK
        <5>2. Sold(w)' = Sold(w) + 1
          BY <1>t, <2>0, <5>1, SoldByIncr
        <5> QED
          BY <1>i, <1>n, <1>t, <2>0, <3>0, <4>1, <5>2 DEF Due, Incremented
      <4>2. CASE count'[w] > Limit
        <5>1. Pending(w) \subseteq Pending(w)'
          BY <1>t, <2>0 DEF Pending, TypeOK
        <5>2. Sold(w)' >= Sold(w)
          BY <1>t, <2>0, <5>1, SoldKept DEF TypeOK
        <5> QED
          BY <1>i, <1>n, <1>t, <2>0, <3>0, <4>2, <5>2 DEF Due, Incremented
      <4> QED
        BY <1>n, <1>t, <4>1, <4>2
    <3>2. ASSUME NEW d \in Caller, d # c, Holds(d, w)' PROVE Sold(w)' >= Due(ticket'[d])
      <4>1. Holds(d, w) /\ ticket'[d] = ticket[d] /\ Due(ticket[d]) \in Int
        BY <1>n, <1>t, <2>0, <3>2 DEF Holds, Due, TypeOK
      <4> QED
        BY <1>i, <1>n, <2>0, <3>1, <4>1
    <3> QED
      BY <3>0, <3>1, <3>2
  <2> QED
    BY <2>1, <2>2
<1>4. ASSUME NEW c \in Caller, Answer(c) PROVE Goal
  <2>0. /\ UNCHANGED <<count, disturbed>> /\ pc[c] = "ttl"
        /\ \A d \in Caller \ {c} : /\ pc'[d] = pc[d] /\ target'[d] = target[d]
                                   /\ ticket'[d] = ticket[d]
        /\ pc'[c] \notin {"expire", "ttl"}
    BY <1>4, <1>t DEF Answer, Leave, redis, TypeOK
  <2>1. \A d \in Caller : Holds(d, w)' => Holds(d, w) /\ ticket'[d] = ticket[d]
    BY <2>0 DEF Holds
  <2>2. CASE c \in Pending(w)
    <3>1. w = target[c] /\ ~Over(ticket[c])
      BY <1>n, <1>t, <2>2 DEF Pending, Over
    <3>2. granted'[w] = granted[w] + 1
      BY <1>4, <1>t, <3>1 DEF Answer, TypeOK
    <3>3. Pending(w)' = Pending(w) \ {c}
      BY <2>0 DEF Pending
    <3>4. Sold(w)' = Sold(w)
      BY <1>t, <2>2, <3>2, <3>3, SoldByGrant
    <3> QED
      BY <1>n, <1>s, <2>0, <2>1, <3>4
  <2>3. CASE c \notin Pending(w)
    <3>1. Pending(w) \subseteq Pending(w)'
      BY <2>0, <2>3 DEF Pending
    <3>2. granted'[w] >= granted[w]
      BY <1>4, <1>t DEF Answer, TypeOK
    <3>3. Sold(w)' >= Sold(w)
      BY <1>t, <3>1, <3>2, SoldKept
    <3> QED
      BY <1>n, <1>s, <2>0, <2>1, <3>3
  <2> QED
    BY <2>2, <2>3
<1>5. CASE Tick
  <2>1. UNCHANGED <<pc, target, ticket, granted, disturbed>> /\ count'[w] \in {0, count[w]}
    BY <1>5 DEF Tick
  <2>2. Sold(w)' = Sold(w) /\ \A d \in Caller : Holds(d, w)' => Holds(d, w)
    BY <2>1 DEF Sold, Pending, Holds
  <2> QED
    BY <1>n, <1>s, <2>1, <2>2
<1>6. CASE UNCHANGED vars
  BY <1>6, <1>i DEF vars, Sold, Pending, Holds
<1> QED
  BY <1>1, <1>2, <1>3, <1>4, <1>5, <1>6 DEF Next, Step

\* In a window without failures no call is rejected while a ticket of the window is
\* unsold, with any clock skew and any interleaving (ratelimit.go:43-60).
THEOREM RejectedWhenFull == Spec => RejectsOnlyWhenFull
<1>1. Init => NothingWasted
  <2> SUFFICES ASSUME Init, NEW w \in Windows
               PROVE  /\ Sold(w) >= Due(count[w])
                      /\ \A c \in Caller : Holds(c, w) => Sold(w) >= Due(ticket[c])
    BY DEF NothingWasted
  <2>1. Sold(w) \in Nat
    BY PendingFinite DEF Init, Sold
  <2> QED
    BY <2>1, RateLimitConstants DEF Init, Due, Holds
<1>2. TypeOK /\ NothingWasted /\ [Next]_vars =>
        [\A c \in Caller, w \in Windows \ disturbed :
           Rejected(c, w) => granted[w] + Cardinality(Pending(w)) >= Limit]_vars
  <2> SUFFICES ASSUME TypeOK, NothingWasted, [Next]_vars, NEW c \in Caller,
                      NEW w \in Windows \ disturbed, Rejected(c, w)
               PROVE  Sold(w) >= Limit
    BY DEF Sold
  <2>1. ticket[c] > Limit
    <3>1. pc[c] = "ttl" /\ pc'[c] = "rejected"
      BY DEF Rejected
    <3>2. ASSUME NEW d \in Caller, Step(d) PROVE d = c /\ Answer(c)
      BY <3>1, <3>2 DEF Step, Request, Incr, IncrLost, Expire, ExpireLost, Fail, Answer,
                        Leave, Ended, TypeOK
    <3>3. Answer(c)
      BY <3>1, <3>2 DEF Next, Tick, vars
    <3> QED
      BY <3>1, <3>3 DEF Answer, Leave, Over, TypeOK
  <2>2. Sold(w) >= Due(ticket[c])
    BY DEF NothingWasted, Holds, Rejected
  <2> QED
    BY <2>1, <2>2, RateLimitConstants DEF Due, TypeOK
<1> QED
  BY <1>1, <1>2, TypeCorrect, NextNothingWasted, PTL DEF Spec, RejectsOnlyWhenFull

-----------------------------------------------------------------------------
\* The counter that a call has counted in does not end with the window running.
Counted == \A c \in Caller : Holds(c, win) => count[win] > 0

LEMMA NextCounted ==
  ASSUME Synchronised, IInv, Counted, [Next]_vars PROVE Counted'
<1>t. TypeOK /\ TypeOK' /\ win \in Windows /\ MaxCount \in Nat /\ MaxCount > 1
  <2>1. TypeOK /\ TypeOK'
    BY NextTypeOK DEF IInv
  <2>2. win \in 0..MaxWin
    BY <2>1 DEF TypeOK
  <2> QED
    BY <2>1, <2>2, RateLimitConstants DEF Windows
<1> SUFFICES ASSUME NEW d \in Caller, Holds(d, win)' PROVE count'[win'] > 0
  BY DEF Counted, Holds
<1>1. ASSUME NEW c \in Caller, Request(c) \/ Expire(c) \/ ExpireLost(c) \/ Fail(c) \/ Answer(c)
      PROVE  count'[win'] > 0
  <2>1. UNCHANGED <<win, count>>
    BY <1>1 DEF Request, Expire, ExpireLost, Fail, Answer, clock, redis
  <2>2. Holds(d, win)
    BY <1>1, <1>t, <2>1 DEF Request, Expire, ExpireLost, Fail, Answer, Leave, Ended, Holds, TypeOK
  <2> QED
    BY <2>1, <2>2 DEF Counted
<1>2. ASSUME NEW c \in Caller, Incr(c) \/ IncrLost(c) PROVE count'[win'] > 0
  <2>1. win' = win /\ count' = [count EXCEPT ![target[c]] = Incremented(@)]
    BY <1>2 DEF Incr, IncrLost, Count, clock
  <2>2. Holds(d, win) \/ (d = c /\ target[c] = win)
    BY <1>2, <1>t, <2>1 DEF Incr, IncrLost, Leave, Holds, TypeOK
  <2> QED
    BY <1>t, <2>1, <2>2 DEF Counted, Incremented, TypeOK
<1>3. CASE Tick
  <2>1. Holds(d, win') /\ target[d] <= win /\ target[d] \in Nat /\ win \in Nat
    BY <1>3, <1>t DEF Tick, Holds, IInv, NoFuture, TypeOK, Windows
  <2>2. win' = win
    BY <1>3, <2>1 DEF Tick, Holds
  <2>3. ttl[win] # 1
    BY <1>3, <1>t, <2>2, LengthType DEF Tick, IInv, ExpiryCovers, TypeOK
  <2> QED
    BY <1>3, <1>t, <2>1, <2>2, <2>3 DEF Tick, Counted
<1>4. CASE UNCHANGED vars
  BY <1>4 DEF vars, Counted, Holds
<1> QED
  BY <1>1, <1>2, <1>3, <1>4 DEF Next, Step

\* Without clock skew and failures a caller that waits for as long as it is told has
\* less than half a second of the window left then, but for the gap before the EXPIRE:
\* for any window and any precision of the expiry (ratelimit.go:53-60,85).
THEOREM WaitingNearlySuffices == Spec => RetryAfterReaches
<1> DEFINE Inv == Synchronised => IInv /\ Counted
<1>1. Init => Inv
  BY InitIInv DEF Init, Counted, Holds
<1>2. Inv /\ [Next]_vars => Inv'
  <2>1. [Next]_vars => (Synchronised' <=> Synchronised)
    BY SkewStays DEF Synchronised
  <2> QED
    BY <2>1, NextTypeOK, NextTime, NextNotOversold, NextCounted DEF IInv
<1>3. Inv /\ CountersExpire /\ [Next]_vars =>
        [\A c \in Caller :
           Rejected(c, win) /\ win \notin disturbed /\ Synchronised =>
             \/ 2 * (Left - retry' * Second) < Second
             \/ \E d \in Caller : pc[d] = "expire" /\ target[d] = win]_vars
  <2> SUFFICES ASSUME IInv, Counted, CountersExpire, [Next]_vars, NEW c \in Caller,
                      Rejected(c, win), win \notin disturbed,
                      ~ \E d \in Caller : pc[d] = "expire" /\ target[d] = win
               PROVE  2 * (Left - retry' * Second) < Second
    OBVIOUS
  <2>1. TypeOK /\ win \in Windows /\ phase \in 0..(Length - 1)
    <3>1. TypeOK
      BY DEF IInv
    <3>2. win \in 0..MaxWin /\ phase \in 0..(Length - 1)
      BY <3>1 DEF TypeOK
    <3> QED
      BY <3>1, <3>2, RateLimitConstants DEF Windows
  <2>2. retry' \in {Seconds(ttl[win]), W}
    <3>1. pc[c] = "ttl" /\ pc'[c] = "rejected" /\ target[c] = win
      BY DEF Rejected
    <3>2. ASSUME NEW d \in Caller, Step(d) PROVE d = c /\ Answer(c)
      BY <2>1, <3>1, <3>2 DEF Step, Request, Incr, IncrLost, Expire, ExpireLost, Fail, Answer,
                              Leave, Ended, TypeOK
    <3>3. Answer(c)
      BY <3>1, <3>2 DEF Next, Tick, vars
    <3> QED
      BY <2>1, <3>1, <3>3 DEF Answer, Leave, TypeOK
  <2>3. count[win] > 0
    BY DEF Counted, Holds, Rejected
  <2>4. ttl[win] \in 0..Length /\ ttl[win] # 0
    BY <2>1, <2>3 DEF CountersExpire, TypeOK
  <2>5. ttl[win] >= Length - phase
    BY <2>1, <2>4 DEF IInv, ExpiryCovers
  <2>6. Left \in Int /\ Left <= ttl[win] /\ Left <= Length
    BY <2>1, <2>4, <2>5, LengthType DEF Left
  <2>7. CASE retry' = Seconds(ttl[win])
    <3>1. Seconds(ttl[win]) \in 0..W /\ 2 * (ttl[win] - Seconds(ttl[win]) * Second) < Second
      BY <2>4, SecondsRound
    <3>2. Seconds(ttl[win]) * Second \in Nat
      BY <3>1, LengthType
    <3> QED
      BY <2>4, <2>6, <2>7, <3>1, <3>2, LengthType
  <2>8. CASE retry' = W
    BY <2>6, <2>8, LengthType DEF Length
  <2> QED
    BY <2>2, <2>7, <2>8
<1> QED
  BY <1>1, <1>2, <1>3, NoCounterStays, PTL DEF Spec, RetryAfterReaches

=============================================================================
