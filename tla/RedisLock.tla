----------------------------- MODULE RedisLock -----------------------------
(***************************************************************************)
(* The distributed lock of cache/redis/redis.go: Lock sends SET NX with a  *)
(* time to live, and the release function it returns sends an              *)
(* unconditional DEL.  go-redis sends a command again when its reply does  *)
(* not arrive, so one call may be executed more than once.                 *)
(*                                                                         *)
(* One lock key is modelled: keys do not interact.  Redis stores "1"       *)
(* whoever locks, so the server cannot tell callers apart; "key" also      *)
(* says which caller the key stands for, which only the properties read.   *)
(* Time is the number of ticks that a key or a lease has left.             *)
(***************************************************************************)
EXTENDS Integers

CONSTANTS
  Client,      \* the callers of Lock
  None,        \* the key is absent
  Orphan,      \* the key is there and no caller holds it
  TTL,         \* the ttl argument in ticks; 0 asks Redis for no expiry
  MaxRetries   \* how often go-redis sends a command again

ASSUME LockConstants ==
  /\ None # Orphan /\ None \notin Client /\ Orphan \notin Client
  /\ TTL \in Nat /\ MaxRetries \in Nat

VARIABLES
  pc,      \* per caller: where its Lock, critical section or release stands
  tries,   \* per caller: how often its current command was sent again
  key,     \* the lock key in Redis: None, Orphan or the caller it stands for
  ttl,     \* ticks until the key expires
  lease,   \* per caller: ticks left of the lock it was granted
  robbed,  \* history: callers whose live key somebody else's DEL removed
  late     \* commands their caller gave up on that Redis may still execute

vars == <<pc, tries, key, ttl, lease, robbed, late>>

-----------------------------------------------------------------------------
\* A key set without expiry keeps its one tick, because Tick is then disabled.
Life == IF TTL = 0 THEN 1 ELSE TTL

\* The command a caller waits for; "ok" and "taken" are the replies to SET NX
\* on their way back, "done" the reply to DEL.
Command(c) == IF pc[c] \in {"setnx", "ok", "taken"} THEN "setnx" ELSE "del"

Init ==
  /\ pc = [c \in Client |-> "idle"]
  /\ tries = [c \in Client |-> 0]
  /\ key = None /\ ttl = 0
  /\ lease = [c \in Client |-> 0]
  /\ robbed = {} /\ late = {}

\* Lock(ctx, key, ttl) is called and sends SET NX.
Lock(c) ==
  /\ pc[c] = "idle"
  /\ pc' = [pc EXCEPT ![c] = "setnx"]
  /\ tries' = [tries EXCEPT ![c] = 0]
  /\ robbed' = robbed \ {c}
  /\ UNCHANGED <<key, ttl, lease, late>>

\* Mutant: SET without NX, which overwrites the key of another caller.
CanSetAlways == TRUE
CanSet == key = None

\* Mutants: a SET NX without its expiry, and with a shorter one than asked for.
ForeverTTL == 0
ShortTTL == IF Life = 1 THEN 1 ELSE Life - 1
KeyTTL == Life

\* Redis executes the SET NX of c.
SetNX(c) ==
  /\ pc[c] = "setnx"
  /\ \/ /\ CanSet
        /\ key' = c /\ ttl' = KeyTTL
        /\ lease' = [lease EXCEPT ![c] = Life]
        /\ pc' = [pc EXCEPT ![c] = "ok"]
     \/ /\ ~CanSet
        /\ pc' = [pc EXCEPT ![c] = "taken"]
        /\ UNCHANGED <<key, ttl, lease>>
  /\ UNCHANGED <<tries, robbed, late>>

AfterSetNX(reply) == IF reply = "ok" THEN "held" ELSE "idle"

\* The reply arrives: Lock returns the release function, or ok = false, or
\* release returns.
Reply(c) ==
  /\ \/ /\ pc[c] \in {"ok", "taken"}
        /\ pc' = [pc EXCEPT ![c] = AfterSetNX(pc[c])]
        /\ UNCHANGED lease
     \/ /\ pc[c] = "done"
        /\ pc' = [pc EXCEPT ![c] = "idle"]
        /\ lease' = [lease EXCEPT ![c] = 0]
  /\ UNCHANGED <<tries, key, ttl, robbed, late>>

\* The caller calls release, which sends DEL.
Release(c) ==
  /\ pc[c] = "held"
  /\ pc' = [pc EXCEPT ![c] = "del"]
  /\ tries' = [tries EXCEPT ![c] = 0]
  /\ UNCHANGED <<key, ttl, lease, robbed, late>>

\* DEL removes whatever key is there; "own" are the callers it may remove.
Erase(own) ==
  /\ key' = None /\ ttl' = 0
  /\ robbed' = robbed \cup (({key} \cap Client) \ own)

\* Redis executes the DEL of c.
Del(c) ==
  /\ pc[c] = "del"
  /\ Erase({c})
  /\ pc' = [pc EXCEPT ![c] = "done"]
  /\ UNCHANGED <<tries, lease, late>>

\* The caller stops standing behind the key it may have set.
Disown(c) ==
  /\ key' = IF key = c THEN Orphan ELSE key
  /\ lease' = [lease EXCEPT ![c] = 0]

\* What the caller gives up on may still be on its way to Redis.
LeaveLate(c) ==
  \/ UNCHANGED late
  \/ pc[c] = Command(c) /\ late' = late \cup {<<pc[c], c>>}

\* The command or its reply is lost and go-redis sends the command again.
Resend(c) ==
  /\ pc[c] \in {"setnx", "ok", "taken", "del", "done"}
  /\ tries[c] < MaxRetries
  /\ tries' = [tries EXCEPT ![c] = @ + 1]
  /\ pc' = [pc EXCEPT ![c] = Command(c)]
  /\ LeaveLate(c)
  /\ IF Command(c) = "setnx" THEN Disown(c) ELSE UNCHANGED <<key, lease>>
  /\ UNCHANGED <<ttl, robbed>>

\* Lock or release returns an error, or the process of the caller dies.
GiveUp(c) ==
  /\ pc[c] # "idle"
  /\ pc' = [pc EXCEPT ![c] = "idle"]
  /\ Disown(c)
  /\ LeaveLate(c)
  /\ UNCHANGED <<tries, ttl, robbed>>

\* Redis executes a command whose caller has moved on.
Late(c) ==
  \/ /\ <<"setnx", c>> \in late
     /\ late' = late \ {<<"setnx", c>>}
     /\ IF key = None THEN key' = Orphan /\ ttl' = Life ELSE UNCHANGED <<key, ttl>>
     /\ UNCHANGED <<pc, tries, lease, robbed>>
  \/ /\ <<"del", c>> \in late
     /\ late' = late \ {<<"del", c>>}
     /\ Erase({})
     /\ UNCHANGED <<pc, tries, lease>>

Less(n) == IF n = 0 THEN 0 ELSE n - 1

\* One tick passes; Redis drops the key when its time is up.
Tick ==
  /\ TTL > 0
  /\ ttl > 0 \/ \E c \in Client : lease[c] > 0
  /\ ttl' = Less(ttl)
  /\ key' = IF ttl = 1 THEN None ELSE key
  /\ lease' = [c \in Client |-> Less(lease[c])]
  /\ UNCHANGED <<pc, tries, robbed, late>>

Step(c) ==
  \/ Lock(c) \/ SetNX(c) \/ Reply(c) \/ Release(c) \/ Del(c)
  \/ Resend(c) \/ GiveUp(c) \/ Late(c)

Next == Tick \/ \E c \in Client : Step(c)

Spec == Init /\ [][Next]_vars

\* Time does not stop.
FairSpec == Spec /\ WF_vars(Tick)

-----------------------------------------------------------------------------
TypeOK ==
  /\ pc \in [Client -> {"idle", "setnx", "ok", "taken", "held", "del", "done"}]
  /\ tries \in [Client -> 0..MaxRetries]
  /\ key \in Client \cup {None, Orphan}
  /\ ttl \in 0..Life
  /\ lease \in [Client -> 0..Life]
  /\ robbed \in SUBSET Client
  /\ late \in SUBSET ({"setnx", "del"} \X Client)

\* The callers that believe they hold the lock.
Holders == {c \in Client : pc[c] = "held"}

\* The holders whose lease still runs.
Live == {c \in Holders : lease[c] > 0}

\* The only way to two running leases is a DEL that removed somebody else's
\* key: among the leases nobody robbed there is at most one, whatever is lost,
\* repeated, late or crashed.
ExclusionUnlessRobbed == \A c, d \in Live \ robbed : c = d

\* A caller loses a running lock to a foreign DEL only if the deleter was too
\* late (its lease over), repeated its DEL, had been robbed itself, or had given
\* up on a DEL that was still on its way.
RobberyNeedsStaleDelete ==
  [][\A c \in robbed' \ robbed :
       \E d \in Client :
         \/ /\ pc[d] = "del" /\ d # c
            /\ lease[d] = 0 \/ tries[d] > 0 \/ d \in robbed
         \/ <<"del", d>> \in late]_vars

\* With a TTL, a crashed holder never blocks the lock for good.
EventuallyFree == (key # None) ~> (key = None)

\* A caller has the lock, as Mutex.tla understands it, while its lease runs and
\* nobody has robbed it.  With that reading the lock is a mutex whatever fails:
\* a caller enters only when nobody is inside, and a lease that runs out, a
\* robbery, a crash and a release all are ways to leave (redis.go:69-81).
Abstract == INSTANCE Mutex WITH inside <- Live \ robbed
ImplementsMutex == Abstract!Spec
=============================================================================
