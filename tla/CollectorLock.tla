---------------------------- MODULE CollectorLock ----------------------------
(***************************************************************************)
(* internal/agent/lock.go: the lock file that keeps collector runs apart.  *)
(* A process tries to create the file exclusively; while it exists it      *)
(* looks at its age, takes it over when it is stale, and otherwise sleeps  *)
(* and tries again until its deadline.  Creating, looking and removing are *)
(* three system calls: other processes act in between.                     *)
(***************************************************************************)
EXTENDS Naturals, FiniteSets

CONSTANTS
  Procs,        \* the collector processes of this computer
  StaleAfter,   \* LockStaleAfter (2 min), in ticks
  Wait,         \* how long AcquireLock may wait (20 s)
  MaxRun,       \* environment: the longest a run holds the lock
  MaxFaults,    \* bound: how many processes die or cannot open the file
  MaxSeized     \* bound: how many live locks are removed as stale

ASSUME ProcsFinite == IsFiniteSet(Procs)
ASSUME TimesAreNaturals == /\ StaleAfter \in Nat /\ Wait \in Nat
                           /\ MaxRun \in Nat
ASSUME BoundsAreNaturals == MaxFaults \in Nat /\ MaxSeized \in Nat

VARIABLES
  pc,        \* where each process is in AcquireLock, or "run" inside the lock
  elapsed,   \* the time since a process called AcquireLock or got the lock
  lockFile,  \* device-checker.lock: no file, or one with its creator and age
  faults,    \* how many of those faults happened
  seized,    \* history: how often a running holder's file was removed as stale
  overran    \* history: a run lasted longer than LockStaleAfter

vars == <<pc, elapsed, lockFile, faults, seized, overran>>

Waiting == {"open", "stat", "unlink", "check", "sleep"}

Running == {p \in Procs : pc[p] = "run"}

\* The file is that of a process inside the lock.
Guarded == \E f \in lockFile : f.owner \in Running

Goto(p, where) == pc' = [pc EXCEPT ![p] = where]

\* p's clock starts again; it does not run while p is idle.
Restart(p) == elapsed' = [elapsed EXCEPT ![p] = 0]

Init ==
  /\ pc = [p \in Procs |-> "idle"]
  /\ elapsed = [p \in Procs |-> 0]
  /\ lockFile = {}
  /\ faults = 0 /\ seized = 0 /\ overran = FALSE

------------------------------------------------------------------------------
Acquire(p) ==
  /\ pc[p] = "idle"
  /\ Goto(p, "open")
  /\ UNCHANGED <<elapsed, lockFile, faults, seized, overran>>

\* Slip: each process creates a file of its own name.
Open_OwnName(p) ==
  /\ pc[p] = "open"
  /\ lockFile' = lockFile \cup {[owner |-> p, age |-> 0]}
  /\ Goto(p, "run")
  /\ Restart(p)
  /\ UNCHANGED <<faults, seized, overran>>

\* O_CREATE|O_EXCL: the file is created, or it was there.
Open(p) ==
  /\ pc[p] = "open"
  /\ IF lockFile = {}
       THEN /\ lockFile' = {[owner |-> p, age |-> 0]}
            /\ Goto(p, "run")
            /\ Restart(p)
       ELSE Goto(p, "stat") /\ UNCHANGED <<lockFile, elapsed>>
  /\ UNCHANGED <<faults, seized, overran>>

\* Any other error of the open is returned.
OpenFails(p) ==
  /\ pc[p] = "open"
  /\ faults < MaxFaults
  /\ faults' = faults + 1
  /\ Goto(p, "idle") /\ Restart(p)
  /\ UNCHANGED <<lockFile, seized, overran>>

\* Slips: a lock is stale one tick early, or never.
IsStale_Early(f) == f.age >= StaleAfter
IsStale_Never(f) == FALSE

IsStale(f) == f.age > StaleAfter

\* A file that vanished meanwhile is not stale.
Stat(p) ==
  /\ pc[p] = "stat"
  /\ Goto(p, IF \E f \in lockFile : IsStale(f) THEN "unlink" ELSE "check")
  /\ UNCHANGED <<elapsed, lockFile, faults, seized, overran>>

\* Whatever file has the name by now is removed.
Unlink(p) ==
  /\ pc[p] = "unlink"
  /\ Guarded => seized < MaxSeized
  /\ seized' = IF Guarded THEN seized + 1 ELSE seized
  /\ lockFile' = {}
  /\ Goto(p, "open")
  /\ UNCHANGED <<elapsed, faults, overran>>

\* Slip: the deadline is never looked at.
GivesUp_Never(p) == FALSE

GivesUp(p) == elapsed[p] >= Wait

\* ErrBusy at the deadline.
Check(p) ==
  /\ pc[p] = "check"
  /\ IF GivesUp(p) THEN Goto(p, "idle") /\ Restart(p)
                   ELSE Goto(p, "sleep") /\ UNCHANGED elapsed
  /\ UNCHANGED <<lockFile, faults, seized, overran>>

Wake(p) ==
  /\ pc[p] = "sleep"
  /\ Goto(p, "open")
  /\ UNCHANGED <<elapsed, lockFile, faults, seized, overran>>

\* The run is over: release removes the file by its name.
Release(p) ==
  /\ pc[p] = "run"
  /\ lockFile' = {}
  /\ Goto(p, "idle") /\ Restart(p)
  /\ UNCHANGED <<faults, seized, overran>>

\* The process dies; a new one may call AcquireLock later.
Crash(p) ==
  /\ pc[p] # "idle"
  /\ faults < MaxFaults
  /\ faults' = faults + 1
  /\ Goto(p, "idle") /\ Restart(p)
  /\ UNCHANGED <<lockFile, seized, overran>>

\* Time passes; both clocks stop counting where they no longer matter.
Horizon == StaleAfter + Wait + MaxRun + 1

Later(t) == IF t < Horizon THEN t + 1 ELSE t

Tick ==
  /\ \A p \in Running : elapsed[p] < MaxRun
  /\ elapsed' = [p \in Procs |-> IF pc[p] = "idle" THEN elapsed[p] ELSE Later(elapsed[p])]
  /\ lockFile' = {[f EXCEPT !.age = Later(f.age)] : f \in lockFile}
  /\ overran' = (overran \/ \E p \in Running : elapsed[p] + 1 > StaleAfter)
  /\ UNCHANGED <<pc, faults, seized>>

------------------------------------------------------------------------------
\* What the code of AcquireLock and release does next, without being asked to.
Step(p) ==
  Open(p) \/ Stat(p) \/ Unlink(p) \/ Check(p) \/ Wake(p) \/ Release(p)

Next == Tick \/ \E p \in Procs : Acquire(p) \/ OpenFails(p) \/ Step(p) \/ Crash(p)

Spec == Init /\ [][Next]_vars

\* Processes run, runs end, time passes, and the background schedule of every
\* process calls AcquireLock again.
Fairness ==
  /\ \A p \in Procs : WF_vars(Step(p)) /\ WF_vars(Acquire(p))
  /\ WF_vars(Tick)

LiveSpec == Spec /\ Fairness

------------------------------------------------------------------------------
\* Every variable holds a value of its kind.
TypeOK ==
  /\ pc \in [Procs -> Waiting \cup {"idle", "run"}]
  /\ elapsed \in [Procs -> Nat]
  /\ lockFile \subseteq [owner : Procs, age : Nat]
  /\ \A f, g \in lockFile : f = g
  /\ faults \in Nat /\ seized \in Nat /\ overran \in BOOLEAN

\* AcquireLock "makes only one collector run at a time" (lock.go:18).
MutualExclusion == Cardinality(Running) <= 1

\* It does as long as nobody died or failed on the file and no run lasted longer
\* than LockStaleAfter.
Orderly == faults = 0 /\ ~overran
ExclusiveWhenOrderly == Orderly => MutualExclusion

\* Every run beyond the one whose file is there costs one removal of a running
\* holder's file: release removing a file that is not its own, faults and
\* take-overs of dead holders never let a second run in.
HoldersBounded == Cardinality(Running) <= seized + (IF Guarded THEN 1 ELSE 0)

\* A caller gets an answer: the lock, or ErrBusy (lock.go:18-43).  A take-over skips
\* the deadline, so runs that outlast LockStaleAfter could keep a slow waiter busy.
AcquireReturns ==
  []~overran => \A p \in Procs : pc[p] \in Waiting ~> pc[p] \in {"run", "idle"}

\* The file of a process that died does not stay for ever.
Abandoned == lockFile # {} /\ ~Guarded
AbandonedLockGoes == Abandoned ~> ~Abandoned

=============================================================================
