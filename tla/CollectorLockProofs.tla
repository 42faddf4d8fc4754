------------------------- MODULE CollectorLockProofs -------------------------
(***************************************************************************)
(* CollectorLock for any number of processes and any times: what the lock  *)
(* file guarantees, and under which conditions it is exclusive.            *)
(***************************************************************************)
EXTENDS CollectorLock, FiniteSetTheorems, TLAPS

\* Every variable keeps a value of its kind, and there is at most one lock file.
THEOREM TypeCorrect == Spec => []TypeOK
<1>1. Init => TypeOK
  <2> SUFFICES ASSUME Init PROVE TypeOK
    OBVIOUS
  <2>1. overran \in BOOLEAN
    BY Zenon DEF Init
  <2> QED
    BY <2>1 DEF Init, TypeOK
<1>2. TypeOK /\ [Next]_vars => TypeOK'
  <2> SUFFICES ASSUME TypeOK, [Next]_vars
               PROVE  TypeOK'
    OBVIOUS
  <2> USE TimesAreNaturals DEF TypeOK, Waiting, Goto, Restart
  <2>1. CASE Tick
    BY <2>1 DEF Tick, Later, Horizon
  <2>2. ASSUME NEW p \in Procs, Acquire(p)  PROVE TypeOK'
    BY <2>2 DEF Acquire
  <2>3. ASSUME NEW p \in Procs, OpenFails(p)  PROVE TypeOK'
    BY <2>3 DEF OpenFails
  <2>4. ASSUME NEW p \in Procs, Open(p)  PROVE TypeOK'
    BY <2>4 DEF Open
  <2>5. ASSUME NEW p \in Procs, Stat(p)  PROVE TypeOK'
    BY <2>5 DEF Stat
  <2>6. ASSUME NEW p \in Procs, Unlink(p)  PROVE TypeOK'
    BY <2>6 DEF Unlink
  <2>7. ASSUME NEW p \in Procs, Check(p)  PROVE TypeOK'
    BY <2>7 DEF Check
  <2>8. ASSUME NEW p \in Procs, Wake(p)  PROVE TypeOK'
    BY <2>8 DEF Wake
  <2>9. ASSUME NEW p \in Procs, Release(p)  PROVE TypeOK'
    BY <2>9 DEF Release
  <2>10. ASSUME NEW p \in Procs, Crash(p)  PROVE TypeOK'
    BY <2>10 DEF Crash
  <2>11. CASE UNCHANGED vars
    BY <2>11 DEF vars
  <2> QED
    BY <2>1, <2>2, <2>3, <2>4, <2>5, <2>6, <2>7, <2>8, <2>9, <2>10, <2>11
    DEF Next, Step
<1> QED
  BY <1>1, <1>2, PTL DEF Spec

------------------------------------------------------------------------------
\* A process that moves between two places outside the lock changes neither who
\* is inside nor whether the file is theirs.
LEMMA OutsideMove ==
  ASSUME TypeOK, NEW p \in Procs, NEW where, pc[p] # "run", where # "run",
         Goto(p, where)
  PROVE  Running' = Running
  BY DEF TypeOK, Goto, Running

\* Leaving the lock takes one process out of Running.
LEMMA LeaveRunning ==
  ASSUME TypeOK, NEW p \in Procs, pc[p] = "run", Goto(p, "idle")
  PROVE  /\ Running' = Running \ {p}
         /\ Cardinality(Running) \in Nat
         /\ Cardinality(Running') = Cardinality(Running) - 1
<1>1. p \in Running /\ Running \subseteq Procs
  BY DEF Running
<1>2. IsFiniteSet(Running)
  BY <1>1, FS_Subset, ProcsFinite
<1>3. Running' = Running \ {p}
  BY DEF TypeOK, Goto, Running
<1> QED
  BY <1>1, <1>2, <1>3, FS_RemoveElement, FS_CardinalityType

\* Entering it adds one.
LEMMA EnterRunning ==
  ASSUME TypeOK, NEW p \in Procs, pc[p] # "run", Goto(p, "run")
  PROVE  /\ Running' = Running \cup {p}
         /\ Cardinality(Running) \in Nat
         /\ Cardinality(Running') = Cardinality(Running) + 1
<1>1. p \notin Running /\ Running \subseteq Procs
  BY DEF Running
<1>2. IsFiniteSet(Running)
  BY <1>1, FS_Subset, ProcsFinite
<1>3. Running' = Running \cup {p}
  BY DEF TypeOK, Goto, Running
<1> QED
  BY <1>1, <1>2, <1>3, FS_AddElement, FS_CardinalityType

\* The processes inside can be counted.
LEMMA RunningIsCounted == Cardinality(Running) \in Nat
<1>1. Running \subseteq Procs
  BY DEF Running
<1> QED
  BY <1>1, FS_Subset, ProcsFinite, FS_CardinalityType

\* However many processes race for the lock, die inside it or release a file that
\* is not theirs: every run beyond the one the file belongs to was let in by one
\* removal of a running holder's file.
THEOREM HoldersAreBounded == Spec => []HoldersBounded
<1>1. Init => HoldersBounded
  <2> SUFFICES ASSUME Init PROVE HoldersBounded
    OBVIOUS
  <2>1. Running = {} /\ ~Guarded /\ seized = 0
    BY DEF Init, Running, Guarded
  <2> QED
    BY <2>1, FS_EmptySet DEF HoldersBounded
<1>2. TypeOK /\ HoldersBounded /\ [Next]_vars => HoldersBounded'
  <2> SUFFICES ASSUME TypeOK, HoldersBounded, [Next]_vars
               PROVE  HoldersBounded'
    OBVIOUS
  <2>0. Cardinality(Running) \in Nat /\ seized \in Nat
    BY RunningIsCounted DEF TypeOK
  <2>1. CASE Tick
    <3>1. Running' = Running
      BY <2>1 DEF Tick, Running
    <3>2. Guarded' <=> Guarded
      <4> DEFINE Aged(f) == [f EXCEPT !.age = Later(f.age)]
      <4>1. \A f \in lockFile : Aged(f).owner = f.owner
        BY DEF TypeOK
      <4>2. lockFile' = {Aged(f) : f \in lockFile}
        BY <2>1 DEF Tick
      <4> HIDE DEF Aged
      <4> QED
        BY <3>1, <4>1, <4>2 DEF Guarded
    <3> QED
      BY <2>1, <3>1, <3>2 DEF Tick, HoldersBounded
  <2>2. ASSUME NEW p \in Procs,
               Acquire(p) \/ OpenFails(p) \/ Stat(p) \/ Check(p) \/ Wake(p)
        PROVE  HoldersBounded'
    <3>1. Running' = Running /\ lockFile' = lockFile /\ seized' = seized
      <4>1. pc[p] # "run" /\ (\E where : where # "run" /\ Goto(p, where))
        BY <2>2 DEF Acquire, OpenFails, Stat, Check, Wake
      <4> QED
        BY <2>2, <4>1, OutsideMove DEF Acquire, OpenFails, Stat, Check, Wake
    <3>2. Guarded' <=> Guarded
      BY <3>1 DEF Guarded
    <3> QED
      BY <3>1, <3>2 DEF HoldersBounded
  <2>3. ASSUME NEW p \in Procs, Open(p)  PROVE HoldersBounded'
    <3>1. CASE lockFile = {}
      <4>1. Running' = Running \cup {p} /\ Cardinality(Running') = Cardinality(Running) + 1
        BY <2>3, <3>1, EnterRunning DEF Open
      <4>2. ~Guarded /\ Guarded' /\ seized' = seized
        <5>1. [owner |-> p, age |-> 0] \in lockFile'
          BY <2>3, <3>1 DEF Open
        <5>2. [owner |-> p, age |-> 0].owner \in Running'
          BY <4>1
        <5> QED
          BY <2>3, <3>1, <5>1, <5>2 DEF Open, Guarded
      <4> QED
        BY <2>0, <4>1, <4>2 DEF HoldersBounded
    <3>2. CASE lockFile # {}
      <4>1. Running' = Running /\ lockFile' = lockFile /\ seized' = seized
        BY <2>3, <3>2, OutsideMove DEF Open
      <4>2. Guarded' <=> Guarded
        BY <4>1 DEF Guarded
      <4> QED
        BY <4>1, <4>2 DEF HoldersBounded
    <3> QED
      BY <3>1, <3>2
  <2>4. ASSUME NEW p \in Procs, Unlink(p)  PROVE HoldersBounded'
    <3>1. Running' = Running
      BY <2>4, OutsideMove DEF Unlink
    <3>2. ~Guarded'
      BY <2>4 DEF Unlink, Guarded
    <3>3. seized' = IF Guarded THEN seized + 1 ELSE seized
      BY <2>4 DEF Unlink
    <3> QED
      BY <2>0, <3>1, <3>2, <3>3 DEF HoldersBounded
  <2>5. ASSUME NEW p \in Procs, Release(p)  PROVE HoldersBounded'
    <3>1. Cardinality(Running') = Cardinality(Running) - 1
      BY <2>5, LeaveRunning DEF Release
    <3>2. seized' = seized
      BY <2>5 DEF Release
    <3> QED
      BY <2>0, <3>1, <3>2 DEF HoldersBounded
  <2>6. ASSUME NEW p \in Procs, Crash(p)  PROVE HoldersBounded'
    <3>1. lockFile' = lockFile /\ seized' = seized
      BY <2>6 DEF Crash
    <3>2. CASE pc[p] = "run"
      <4>1. Cardinality(Running') = Cardinality(Running) - 1
        BY <2>6, <3>2, LeaveRunning DEF Crash
      <4> QED
        BY <2>0, <3>1, <4>1 DEF HoldersBounded
    <3>3. CASE pc[p] # "run"
      <4>1. Running' = Running
        BY <2>6, <3>3, OutsideMove DEF Crash
      <4>2. Guarded' <=> Guarded
        BY <3>1, <4>1 DEF Guarded
      <4> QED
        BY <3>1, <4>1, <4>2 DEF HoldersBounded
    <3> QED
      BY <3>2, <3>3
  <2>7. CASE UNCHANGED vars
    <3>1. Running' = Running /\ (Guarded' <=> Guarded) /\ seized' = seized
      BY <2>7 DEF vars, Running, Guarded
    <3> QED
      BY <3>1 DEF HoldersBounded
  <2> QED
    BY <2>1, <2>2, <2>3, <2>4, <2>5, <2>6, <2>7 DEF Next, Step
<1> QED
  BY <1>1, <1>2, TypeCorrect, PTL DEF Spec

------------------------------------------------------------------------------
\* Why runs exclude each other as long as nobody dies and no run outlives the
\* age at which its lock is stale: the one file is that of the one process
\* inside, it is no older than the run, and so it is never taken for stale.
Prompt ==
  /\ \A p \in Procs : pc[p] # "unlink"
  /\ \A f \in lockFile : f.owner \in Running /\ f.age <= elapsed[f.owner]
  /\ \A p \in Running : elapsed[p] <= StaleAfter /\ \E f \in lockFile : f.owner = p

\* Under these conditions at most one process is inside.
LEMMA PromptIsExclusive == TypeOK /\ Prompt => MutualExclusion
<1> SUFFICES ASSUME TypeOK, Prompt PROVE MutualExclusion
  OBVIOUS
<1>1. CASE Running = {}
  BY <1>1, FS_EmptySet DEF MutualExclusion
<1>2. ASSUME NEW p \in Running PROVE MutualExclusion
  <2>1. Running = {p}
    <3>1. ASSUME NEW q \in Running PROVE q = p
      <4>1. PICK f \in lockFile : f.owner = p
        BY <1>2 DEF Prompt
      <4>2. PICK g \in lockFile : g.owner = q
        BY <3>1 DEF Prompt
      <4>3. f = g
        BY <4>1, <4>2 DEF TypeOK
      <4> QED
        BY <4>1, <4>2, <4>3
    <3> QED
      BY <1>2, <3>1
  <2> QED
    BY <2>1, FS_Singleton DEF MutualExclusion
<1> QED
  BY <1>1, <1>2

\* A step of p outside the lock that leaves the file alone keeps Prompt.
LEMMA OutsideKeepsPrompt ==
  ASSUME TypeOK, Prompt, NEW p \in Procs, NEW where \in {"open", "stat", "check", "sleep", "idle"},
         pc[p] # "run", Goto(p, where), lockFile' = lockFile,
         \A q \in Procs : q # p => elapsed'[q] = elapsed[q]
  PROVE  Prompt'
<1>1. Running' = Running /\ p \notin Running /\ Running \subseteq Procs
  BY OutsideMove DEF Running
<1>2. \A q \in Procs : pc'[q] # "unlink"
  BY DEF Prompt, Goto, TypeOK
<1> QED
  BY <1>1, <1>2 DEF Prompt

\* Until somebody dies or a run lasts longer than LockStaleAfter, at most one
\* collector runs at a time.
THEOREM OrderlyRunsExclude == Spec => []ExclusiveWhenOrderly
<1>1. Init => (Orderly => Prompt)
  BY DEF Init, Prompt, Running
<1>2. TypeOK /\ (Orderly => Prompt) /\ [Next]_vars => (Orderly' => Prompt')
  <2> SUFFICES ASSUME TypeOK, Orderly => Prompt, [Next]_vars, Orderly'
               PROVE  Prompt'
    OBVIOUS
  <2>0. Prompt
    <3>1. faults' = 0 => faults = 0
      BY DEF TypeOK, Next, Tick, Acquire, OpenFails, Step, Open, Stat, Unlink, Check,
             Wake, Release, Crash, vars
    <3>2. overran => overran'
      BY DEF TypeOK, Next, Tick, Acquire, OpenFails, Step, Open, Stat, Unlink, Check,
             Wake, Release, Crash, vars
    <3> QED
      BY <3>1, <3>2 DEF Orderly
  <2> USE <2>0
  <2>1. CASE Tick
    <3>1. Running' = Running /\ Running \subseteq Procs /\ pc' = pc
      BY <2>1 DEF Tick, Running
    <3>2. \A p \in Running : /\ elapsed[p] + 1 <= StaleAfter
                             /\ elapsed'[p] = Later(elapsed[p])
      <4>1. ~ \E p \in Running : elapsed[p] + 1 > StaleAfter
        <5>1. overran' = (overran \/ \E p \in Running : elapsed[p] + 1 > StaleAfter)
          BY <2>1 DEF Tick
        <5>2. ~overran'
          BY DEF Orderly
        <5> QED
          BY <5>1, <5>2
      <4>2. \A p \in Running : elapsed[p] \in Nat
        BY <3>1 DEF TypeOK
      <4>3. \A p \in Running : pc[p] = "run" /\ elapsed'[p] = Later(elapsed[p])
        BY <2>1, <3>1 DEF Tick, Running
      <4> QED
        BY <4>1, <4>2, <4>3, TimesAreNaturals
    <3>3. \A s, t \in Nat : s <= t => Later(s) <= Later(t)
      BY TimesAreNaturals DEF Later, Horizon
    <3>4. \A p \in Running : elapsed'[p] <= StaleAfter
      BY <3>1, <3>2, TimesAreNaturals DEF Later, Horizon, TypeOK
    <3> DEFINE Aged(f) == [f EXCEPT !.age = Later(f.age)]
    <3>5. lockFile' = {Aged(f) : f \in lockFile}
      BY <2>1 DEF Tick
    <3>6. \A f \in lockFile : Aged(f).owner = f.owner /\ Aged(f).age = Later(f.age)
      BY DEF TypeOK
    <3>7. \A f \in lockFile : f.owner \in Running /\ Later(f.age) <= elapsed'[f.owner]
      BY <3>2, <3>3 DEF Prompt, TypeOK
    <3> HIDE DEF Aged
    <3>8. \A g \in lockFile' : g.owner \in Running /\ g.age <= elapsed'[g.owner]
      BY <3>5, <3>6, <3>7
    <3>9. \A p \in Running : \E g \in lockFile' : g.owner = p
      BY <3>5, <3>6 DEF Prompt
    <3> QED
      BY <3>1, <3>4, <3>8, <3>9 DEF Prompt
  <2>2. ASSUME NEW p \in Procs, Acquire(p) \/ Stat(p) \/ Check(p) \/ Wake(p)
        PROVE  Prompt'
    <3>1. Stat(p) => Goto(p, "check")
      <4>1. \A f \in lockFile : f.age <= StaleAfter
        BY TimesAreNaturals DEF Prompt, TypeOK, Running
      <4>2. \A f \in lockFile : ~IsStale(f)
        BY <4>1, TimesAreNaturals DEF IsStale, TypeOK
      <4> QED
        BY <4>2 DEF Stat
    <3>2. /\ pc[p] # "run" /\ lockFile' = lockFile
          /\ \E where \in {"open", "stat", "check", "sleep", "idle"} : Goto(p, where)
      BY <2>2, <3>1 DEF Acquire, Stat, Check, Wake
    <3>3. \A q \in Procs : q # p => elapsed'[q] = elapsed[q]
      BY <2>2 DEF Acquire, Stat, Check, Wake, Restart, TypeOK
    <3> QED
      BY <3>2, <3>3, OutsideKeepsPrompt
  <2>3. ASSUME NEW p \in Procs, Open(p)  PROVE Prompt'
    <3>1. CASE lockFile = {}
      <4>1. Running = {} /\ Running' = {p}
        BY <2>3, <3>1, EnterRunning DEF Open, Prompt
      <4>2. lockFile' = {[owner |-> p, age |-> 0]} /\ elapsed'[p] = 0
        BY <2>3, <3>1 DEF Open, Restart, TypeOK
      <4>3. \A q \in Procs : pc'[q] # "unlink"
        BY <2>3, <3>1 DEF Open, Goto, Prompt, TypeOK
      <4> QED
        BY <4>1, <4>2, <4>3, TimesAreNaturals DEF Prompt
    <3>2. CASE lockFile # {}
      BY <2>3, <3>2, OutsideKeepsPrompt DEF Open
    <3> QED
      BY <3>1, <3>2
  <2>4. ASSUME NEW p \in Procs, Release(p)  PROVE Prompt'
    <3>1. Running = {p}
      <4>1. p \in Running
        BY <2>4 DEF Release, Running
      <4>2. \A q \in Running : q = p
        BY <4>1 DEF Prompt, TypeOK
      <4> QED
        BY <4>1, <4>2
    <3>2. Running' = {} /\ lockFile' = {}
      BY <2>4, <3>1, LeaveRunning DEF Release
    <3>3. \A q \in Procs : pc'[q] # "unlink"
      BY <2>4 DEF Release, Goto, Prompt, TypeOK
    <3> QED
      BY <3>2, <3>3 DEF Prompt
  <2>5. ASSUME NEW p \in Procs, OpenFails(p) \/ Crash(p) \/ Unlink(p)  PROVE FALSE
    BY <2>0, <2>5 DEF OpenFails, Crash, Unlink, Prompt, Orderly, TypeOK
  <2>6. CASE UNCHANGED vars
    BY <2>6 DEF vars, Prompt, Running
  <2> QED
    BY <2>1, <2>2, <2>3, <2>4, <2>5, <2>6 DEF Next, Step
<1>3. TypeOK /\ (Orderly => Prompt) => ExclusiveWhenOrderly
  BY PromptIsExclusive DEF ExclusiveWhenOrderly
<1> QED
  BY <1>1, <1>2, <1>3, TypeCorrect, PTL DEF Spec

=============================================================================
