--------------------------- MODULE HealthRegistry ---------------------------
(***************************************************************************)
(* Readiness probes of health/health.go and health/middleware_gin.go:      *)
(* Registry.Check copies the checkers under a read lock, runs each in a    *)
(* goroutine of its own with a timeout, waits for all and aggregates.      *)
(* Register takes the write lock, for which sync.RWMutex makes later       *)
(* readers wait.                                                           *)
(***************************************************************************)
EXTENDS FiniteSets

CONSTANTS
  Name,      \* names of checkers
  Checker,   \* what Register is given: something that can be up or down
  None,      \* no checker
  Probe,     \* GET /readyz requests
  Stubborn   \* the checkers that ignore their context

ASSUME RegistryConstants == None \notin Checker /\ Stubborn \subseteq Checker

VARIABLES
  checkers,  \* r.checkers: name -> checker or None
  pending,   \* a call of Register waits for the write lock
  up,        \* the checkers whose dependency is healthy
  pc,        \* per probe: "idle", "locked" or "waiting"
  taken,     \* per probe: its copy of checkers
  task,      \* per probe and name: "none", "running", "ok" or "error"
  seen       \* history, per probe: names whose checker was up at some time of it

healthvars == <<checkers, pending, up, pc, taken, task, seen>>
probes == <<pc, taken, task, seen>>

-----------------------------------------------------------------------------
\* What Check knows before it has copied the checkers, and after it returned.
Nothing == [n \in Name |-> None]
NoTask == [n \in Name |-> "none"]

HealthInit ==
  /\ checkers = Nothing
  /\ pending = FALSE
  /\ up = Checker
  /\ pc = [p \in Probe |-> "idle"]
  /\ taken = [p \in Probe |-> Nothing]
  /\ task = [p \in Probe |-> NoTask]
  /\ seen = [p \in Probe |-> {}]

\* Register is called and asks for the write lock.
Register ==
  /\ ~pending
  /\ pending' = TRUE
  /\ UNCHANGED <<checkers, up>> /\ UNCHANGED probes

\* Mutant: a probe keeps the read lock until it has its results.
LockedAllAlong(p) == pc[p] \in {"locked", "waiting"}
RLocked(p) == pc[p] = "locked"

\* It has the lock and writes the name and the checker it was called with.
Write(n, k) ==
  /\ pending
  /\ \A p \in Probe : ~RLocked(p)
  /\ checkers' = [checkers EXCEPT ![n] = k]
  /\ pending' = FALSE
  /\ UNCHANGED up /\ UNCHANGED probes

\* A probe starts and takes the read lock.
RLock(p) ==
  /\ pc[p] = "idle"
  /\ ~pending
  /\ pc' = [pc EXCEPT ![p] = "locked"]
  /\ UNCHANGED <<checkers, pending, up, taken, task, seen>>

\* Mutant: a goroutine for every name that was ever used.
StartsAlways(n) == "running"
Starts(n) == IF checkers[n] = None THEN "none" ELSE "running"

\* It copies the checkers, unlocks and starts a goroutine for each.
Launch(p) ==
  /\ pc[p] = "locked"
  /\ taken' = [taken EXCEPT ![p] = checkers]
  /\ task' = [task EXCEPT ![p] = [n \in Name |-> Starts(n)]]
  /\ seen' = [seen EXCEPT ![p] = {n \in Name : checkers[n] \in up}]
  /\ pc' = [pc EXCEPT ![p] = "waiting"]
  /\ UNCHANGED <<checkers, pending, up>>

\* Mutant: the error of a checker is not recorded.
AlwaysOK(r) == "ok"
Recorded(r) == r

\* A checker returns: nil if its dependency is up, an error if not or if the
\* timeout of its context came first.
Return(p, n) ==
  /\ task[p][n] = "running"
  /\ \E r \in {"ok", "error"} :
       /\ r = "ok" => taken[p][n] \in up
       /\ task' = [task EXCEPT ![p][n] = Recorded(r)]
  /\ UNCHANGED <<checkers, pending, up, pc, taken, seen>>

\* Mutant: the WaitGroup counts what is registered, not what was copied.
AllRegisteredReturned(p) ==
  \A n \in Name : checkers[n] # None => task[p][n] \in {"ok", "error"}
AllReturned(p) == \A n \in Name : task[p][n] # "running"

\* What /readyz answers: 200 if every result is ok.
Status(p) == IF \A n \in Name : task[p][n] # "error" THEN 200 ELSE 503

\* wg.Wait returns, and the probe is answered.
Report(p) ==
  /\ pc[p] = "waiting"
  /\ AllReturned(p)
  /\ pc' = [pc EXCEPT ![p] = "idle"]
  /\ taken' = [taken EXCEPT ![p] = Nothing]
  /\ task' = [task EXCEPT ![p] = NoTask]
  /\ seen' = [seen EXCEPT ![p] = {}]
  /\ UNCHANGED <<checkers, pending, up>>

\* A dependency goes down or comes back.
Flip(k) ==
  /\ up' = (up \ {k}) \cup ({k} \ up)
  /\ seen' = [p \in Probe |-> seen[p] \cup {n \in Name : taken[p][n] \in up'}]
  /\ UNCHANGED <<checkers, pending, pc, taken, task>>

HealthNext ==
  \/ Register
  \/ \E n \in Name, k \in Checker : Write(n, k)
  \/ \E p \in Probe : RLock(p) \/ Launch(p) \/ Report(p)
  \/ \E p \in Probe, n \in Name : Return(p, n)
  \/ \E k \in Checker : Flip(k)

HealthSpec == HealthInit /\ [][HealthNext]_healthvars

\* Goroutines run, the lock is granted, and a checker that looks at its context
\* returns at the latest when its timeout is over.
HealthFairSpec ==
  /\ HealthSpec
  /\ WF_healthvars(\E n \in Name, k \in Checker : Write(n, k))
  /\ \A p \in Probe : WF_healthvars(Launch(p)) /\ WF_healthvars(Report(p))
  /\ \A p \in Probe, n \in Name :
       WF_healthvars(taken[p][n] \notin Stubborn /\ Return(p, n))

-----------------------------------------------------------------------------
HealthTypeOK ==
  /\ checkers \in [Name -> Checker \cup {None}]
  /\ pending \in BOOLEAN
  /\ up \in SUBSET Checker
  /\ pc \in [Probe -> {"idle", "locked", "waiting"}]
  /\ taken \in [Probe -> [Name -> Checker \cup {None}]]
  /\ task \in [Probe -> [Name -> {"none", "running", "ok", "error"}]]
  /\ seen \in [Probe -> SUBSET Name]
  /\ \A p \in Probe, n \in Name : task[p][n] = "none" <=> taken[p][n] = None

\* Readiness is never a remnant: a probe that is told 200 found each of its
\* checkers up at some time of this very probe, however registrations, outages
\* and other probes interleave (health.go:74-112).
ReadyWasUp ==
  [][\A p \in Probe : pc[p] = "waiting" /\ pc'[p] = "idle" /\ Status(p) = 200 =>
       \A n \in Name : taken[p][n] # None => n \in seen[p]]_healthvars

\* Registering does not wait for probes, not even for one that hangs, and a probe
\* ends unless one of its checkers ignores its context, whatever is registered
\* meanwhile and whatever other probes wait for (health.go:54-58, 74-101).
CallsReturn ==
  /\ pending ~> ~pending
  /\ \A p \in Probe :
       (pc[p] = "locked") ~> (pc[p] = "idle" \/ \E n \in Name : taken[p][n] \in Stubborn)
=============================================================================
