------------------------------- MODULE Mutex -------------------------------
(***************************************************************************)
(* What a lock is for: the callers inside the critical section, of which   *)
(* there is never more than one.  RedisLock.tla implements it when a lease *)
(* that has run out, or was robbed, counts as left.                        *)
(***************************************************************************)
CONSTANT Client    \* the callers of Lock
VARIABLE inside    \* those that hold the lock

Init == inside = {}

Enter(c) == inside = {} /\ inside' = {c}

Leave(c) == inside = {c} /\ inside' = {}

Next == \E c \in Client : Enter(c) \/ Leave(c)

Spec == Init /\ [][Next]_inside
=============================================================================
