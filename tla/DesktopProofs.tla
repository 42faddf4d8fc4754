---------------------------- MODULE DesktopProofs ----------------------------
(***************************************************************************)
(* Proofs about Desktop: what the page shows never goes back, and the next *)
(* tick is never far away, for any number of clicks, overlapping reloads,  *)
(* sleeps and changes of the clock.                                        *)
(***************************************************************************)
EXTENDS DesktopProperties, TLAPS

\* A check's result that waits for the page is newer than what the page shows, and than
\* the failure it shows; no result was read before it was collected.
Stamps ==
  /\ answer["check"] # 0 => /\ task["check"] = "answered"
                            /\ answer["check"] \in 1..clock
                            /\ shown <= answer["check"] /\ failedAt < answer["check"]
  /\ \A r \in Reloads : reload[r] = "lastRead" => read[r] <= clock

IInv == TypeOK /\ Stamps

USE IntervalsOrdered, ClicksAreOthers, JumpsAreTimes, BoundsAreNaturals

\* A poll leaves the next tick at most one interval away, whatever the clock did.
LEMMA PollIsNear ==
  ASSUME NEW gap \in Int, wait \in 1..Every, Poll(gap)
  PROVE  wait' \in 1..Every
  BY DEF Poll, Capped, Armed

\* The end of a task frees the gate for whoever waits.
LEMMA AnswerKeepsTypes ==
  ASSUME TypeOK, NEW t \in Tasks, NEW a \in Nat, Answered(t, a)
  PROVE  /\ gate' = "free" /\ task' \in [Tasks -> Stages] /\ answer' \in [Tasks -> Nat]
         /\ \A u \in Tasks : task'[u] # "running"
         /\ answer'[t] = a /\ \A u \in Tasks \ {t} : answer'[u] = answer[u] /\ task'[u] = task[u]
         /\ task'[t] = "answered" /\ loop # "running"
  BY DEF TypeOK, Answered, To, Stages, Tasks

\* A new stamp is one more time.
LEMMA StampKeepsTimes ==
  ASSUME clock \in Nat, wall \in [1..clock -> Int], lag \in Nat, Stamp
  PROVE  clock' = clock + 1 /\ wall' \in [1..clock' -> Int] /\ lag' \in Nat
<1>1. wall \in Seq(Int) /\ Len(wall) = clock
  OBVIOUS
<1>2. /\ clock + 1 - lag \in Int
      /\ wall' = Append(wall, clock + 1 - lag) /\ clock' = clock + 1 /\ lag' = lag
  BY DEF Stamp
<1>3. wall' \in Seq(Int) /\ Len(wall') = clock'
  BY <1>1, <1>2
<1>4. wall' \in [1..Len(wall') -> Int]
  BY <1>3
<1> QED BY <1>2, <1>3, <1>4

\* The app starts in the invariant.
LEMMA InitHolds == Init => IInv
<1> SUFFICES ASSUME Init PROVE IInv
  OBVIOUS
<1>1. known \in BOOLEAN
  BY DEF Init
<1>2. canConnect \in BOOLEAN
  <2>1. canConnect = ~known
    BY DEF Init
  <2> QED BY <2>1, <1>1, Zenon
<1>3. /\ task \in [Tasks -> Stages] /\ answer \in [Tasks -> Nat]
      /\ \A t \in Tasks : task[t] # "running"
      /\ reload \in [Reloads -> ReloadStages] /\ read \in [Reloads -> Nat]
      /\ answer["check"] = 0 /\ \A r \in Reloads : reload[r] # "lastRead"
  BY DEF Init, Tasks, Stages, ReloadStages
<1>4. /\ gate = "free" /\ loop = "poll" /\ wait = Every /\ jumps = 0 /\ clock = 1
      /\ paired \in BOOLEAN /\ saved \in {0, 1} /\ shown = 0 /\ failedAt = 0
  BY DEF Init
<1>5. wall \in [1..clock -> Int] /\ lag \in Nat
  BY <1>4 DEF Init
<1> QED BY <1>1, <1>2, <1>3, <1>4, <1>5 DEF IInv, TypeOK, Stamps

------------------------------------------------------------------------------
\* What runs behind the gate.
LEMMA GateStep ==
  ASSUME IInv,
         \/ \E t \in Tasks : Acquire(t)
         \/ CheckNow \/ DisconnectHackzero \/ \E c \in Connects : ConnectHackzero(c)
         \/ BeginTick \/ BackgroundTick
  PROVE  IInv'
<1> USE DEF IInv
<1>1. CASE \E t \in Tasks : Acquire(t)
  BY <1>1 DEF Acquire, GateFree, To, TypeOK, Stamps, native, time, disk, page, Tasks, Stages
<1>2. CASE CheckNow
  <2>1. \E a \in Nat : Answered("check", a) /\ a \in {0, clock'} /\ (a = 0 \/ clock' = clock + 1)
    BY <1>2 DEF CheckNow, TypeOK, Answered, Stamp
  <2>2. PICK a \in Nat : Answered("check", a) /\ a \in {0, clock'} /\ (a = 0 \/ clock' = clock + 1)
    BY <2>1
  <2>3. /\ clock' \in {clock, clock + 1} /\ saved' \in {saved, clock'}
        /\ wall' \in [1..clock' -> Int] /\ lag' \in Nat
        /\ UNCHANGED <<native, paired, page, reload, read>>
    BY <1>2, StampKeepsTimes DEF CheckNow, TypeOK, time
  <2>4. "check" \in Tasks
    BY DEF Tasks
  <2>5. TypeOK'
    BY <2>2, <2>3, <2>4, AnswerKeepsTypes DEF TypeOK, native, page
  <2>6. Stamps'
    BY <2>2, <2>3, <2>4, AnswerKeepsTypes DEF TypeOK, Stamps, native, page
  <2> QED BY <2>5, <2>6
<1>3. CASE DisconnectHackzero \/ \E c \in Connects : ConnectHackzero(c)
  <2>1. PICK t \in Tasks \ {"check"}, a \in Nat :
          /\ Answered(t, a) /\ paired' \in BOOLEAN
          /\ UNCHANGED <<native, time, saved, page, reload, read>>
    BY <1>3 DEF DisconnectHackzero, ConnectHackzero, Tasks, TypeOK
  <2>2. TypeOK'
    BY <2>1, AnswerKeepsTypes DEF TypeOK, native, page, time
  <2>3. Stamps'
    BY <2>1, AnswerKeepsTypes DEF TypeOK, Stamps, native, page, time, Tasks
  <2> QED BY <2>2, <2>3
<1>4. CASE BeginTick
  BY <1>4 DEF BeginTick, GateFree, TypeOK, Stamps, time, disk, page, Tasks
<1>5. CASE BackgroundTick
  BY <1>5, StampKeepsTimes DEF BackgroundTick, TypeOK, Stamps, time, page, Tasks
<1> QED BY <1>1, <1>2, <1>3, <1>4, <1>5

------------------------------------------------------------------------------
\* What the page does with clicks and answers.
LEMMA PageStep ==
  ASSUME IInv,
         \/ Refresh \/ CheckDone \/ ClickDisconnect \/ DisconnectDone
         \/ \E c \in Connects : ClickConnect(c) \/ ConnectDone(c)
  PROVE  IInv'
<1> USE DEF IInv, TypeOK, Stamps, native, time, disk, page, To, Tasks, Stages
<1>1. CASE Refresh
  BY <1>1 DEF Refresh, CheckInFlight
<1>2. CASE CheckDone
  BY <1>2, StampKeepsTimes DEF CheckDone, Take
<1>3. CASE ClickDisconnect
  BY <1>3 DEF ClickDisconnect
<1>4. CASE DisconnectDone
  BY <1>4 DEF DisconnectDone, Take, RenderConnection
<1>5. ASSUME NEW c \in Connects, ClickConnect(c)
      PROVE  IInv'
  BY <1>5 DEF ClickConnect
<1>6. ASSUME NEW c \in Connects, ConnectDone(c)
      PROVE  IInv'
  <2>1. /\ answer' = [answer EXCEPT ![c] = 0] /\ c # "check" /\ task[c] = "answered"
        /\ UNCHANGED <<gate, native, time, disk, shown, failedAt, reload, read>>
    BY <1>6 DEF ConnectDone
  <2>2. known' \in BOOLEAN /\ canConnect' \in BOOLEAN
    BY <1>6 DEF ConnectDone, RenderConnection
  <2>3. CASE answer[c] = 1
    <3> DEFINE stage == IF CheckInFlight \/ clock >= MaxClock THEN task["check"] ELSE "waiting"
    <3>1. stage \in Stages /\ (stage = task["check"] \/ (task["check"] = "none" /\ stage = "waiting"))
      BY DEF CheckInFlight
    <3>2. task' = [task EXCEPT ![c] = "none", !["check"] = stage]
      BY <1>6, <2>1, <2>3 DEF ConnectDone
    <3> HIDE DEF stage
    <3>3. task' \in [Tasks -> Stages]
      BY <3>1, <3>2
    <3>4. /\ \A t \in Tasks : task'[t] = "running" => task[t] = "running"
          /\ task["check"] # "none" => task'["check"] = task["check"]
      BY <2>1, <3>1, <3>2
    <3> QED BY <2>1, <2>2, <3>3, <3>4
  <2>4. CASE answer[c] # 1
    <3>1. task' = [task EXCEPT ![c] = "none"]
      BY <1>6, <2>4 DEF ConnectDone
    <3> QED BY <2>1, <2>2, <3>1
  <2> QED BY <2>3, <2>4
<1> QED BY <1>1, <1>2, <1>3, <1>4, <1>5, <1>6

------------------------------------------------------------------------------
\* Reloads, however they overlap.
LEMMA ReloadStep ==
  ASSUME IInv, NEW r \in Reloads, Begin(r) \/ Reloading(r)
  PROVE  IInv'
<1> USE DEF IInv, TypeOK, Stamps, native, time, disk, page, Step, ReloadStages
<1>1. CASE Begin(r)
  BY <1>1 DEF Begin, MayReload
<1>2. CASE ReadConnection(r)
  BY <1>2 DEF ReadConnection
<1>3. CASE ConnectionShown(r)
  BY <1>3 DEF ConnectionShown, RenderConnection
<1>4. CASE ConnectionUnread(r)
  BY <1>4 DEF ConnectionUnread
<1>5. CASE ReadLast(r)
  BY <1>5 DEF ReadLast
<1>6. CASE LastShown(r)
  BY <1>6 DEF LastShown, CheckInFlight
<1> QED BY <1>1, <1>2, <1>3, <1>4, <1>5, <1>6 DEF Reloading

\* A poll of the background loop, in time or after the clock jumped, keeps the invariant.
LEMMA LoopStep == ASSUME IInv, UsualPoll \/ Jump PROVE IInv'
<1>1. PICK gap \in Int : Poll(gap) /\ jumps' \in Nat /\ lag' \in Nat
  BY DEF UsualPoll, Jump, IInv, TypeOK
<1>2. wait' \in 1..Every
  BY <1>1, PollIsNear DEF IInv, TypeOK
<1>3. TypeOK' /\ Stamps'
  BY <1>1, <1>2 DEF IInv, TypeOK, Stamps, Poll, disk, page
<1> QED BY <1>2, <1>3 DEF IInv

\* Every step of the app keeps the invariant.
LEMMA StepKeeps == IInv /\ [Next]_vars => IInv'
<1> SUFFICES ASSUME IInv, [Next]_vars PROVE IInv'
  OBVIOUS
<1>1. CASE UNCHANGED vars
  BY <1>1 DEF IInv, TypeOK, Stamps, vars, native, time, disk, page
<1>2. CASE Next
  BY <1>2, GateStep, PageStep, ReloadStep, LoopStep DEF Next, Person
<1> QED BY <1>1, <1>2

\* The invariant holds in every state.
LEMMA Invariance == Spec => []IInv
  BY InitHolds, StepKeeps, PTL DEF Spec

------------------------------------------------------------------------------
\* No two collectors of the app that collect or change state overlap, every stamp is one of
\* the past, and the next tick is at most one interval away.
THEOREM TypeCorrect == Spec => []TypeOK
  BY Invariance, PTL DEF IInv

\* Only the end of a check and the end of a reload change what the page shows.
LEMMA OthersLeaveThePage ==
  ASSUME Next, ~CheckDone, \A r \in Reloads : ~LastShown(r)
  PROVE  UNCHANGED <<shown, failedAt>>
BY DEF Next, Person, Refresh, ClickDisconnect, ClickConnect, Begin, UsualPoll, Jump, Poll, BeginTick,
       BackgroundTick, Acquire, CheckNow, DisconnectHackzero, DisconnectDone, ConnectHackzero,
       ConnectDone, Reloading, ReadConnection, ConnectionShown, ConnectionUnread, ReadLast, page

\* A reload brings back an older result only when that result's stamp is not the earlier
\* one, so that the clock was set back in between.
LEMMA StampsOfOlder ==
  ASSUME TypeOK, NEW old \in 1..clock, NEW new \in 1..clock, ~(wall[new] > wall[old])
  PROVE  old >= new \/ LagAt(old) < LagAt(new)
BY DEF TypeOK, LagAt

\* A result on the page is never replaced by an older one, unless the clock was set back.
THEOREM ResultsNeverGoBack == Spec => NeverOlder
<1>1. IInv /\ [Next]_vars
        => [shown # 0 /\ shown' # 0 => shown' >= shown \/ LagAt(shown') < LagAt(shown)]_vars
  <2> SUFFICES ASSUME IInv, Next, shown # 0, shown' # 0
               PROVE  shown' >= shown \/ LagAt(shown') < LagAt(shown)
    OBVIOUS
  <2>1. CASE CheckDone
    BY <2>1 DEF CheckDone, Take, IInv, Stamps, TypeOK
  <2>2. ASSUME NEW r \in Reloads, LastShown(r)
        PROVE  shown' >= shown \/ LagAt(shown') < LagAt(shown)
    <3>1. CASE shown' = shown
      BY <3>1 DEF IInv, TypeOK
    <3>2. CASE shown' # shown
      <4>1. /\ shown' = read[r] /\ read[r] \in 1..clock /\ shown \in 1..clock
            /\ ~(wall[shown] > wall[read[r]])
        BY <2>2, <3>2 DEF LastShown, Step, NewerShown, IInv, Stamps, TypeOK
      <4> QED BY <4>1, StampsOfOlder DEF IInv
    <3> QED BY <3>1, <3>2
  <2>3. CASE ~CheckDone /\ \A r \in Reloads : ~LastShown(r)
    BY <2>3, OthersLeaveThePage DEF IInv, TypeOK
  <2> QED BY <2>1, <2>2, <2>3
<1> QED BY <1>1, Invariance, PTL DEF Spec, NeverOlder

\* A failure leaves the page only for a result collected after it, unless the clock was set
\* back.
THEOREM FailuresStay == Spec => FailureStaysUntilNewer
<1>1. IInv /\ [Next]_vars
        => [failedAt # 0 /\ failedAt' = 0
              => shown' > failedAt \/ LagAt(shown') < LagAt(failedAt)]_vars
  <2> SUFFICES ASSUME IInv, Next, failedAt # 0, failedAt' = 0
               PROVE  shown' > failedAt \/ LagAt(shown') < LagAt(failedAt)
    OBVIOUS
  <2>1. CASE CheckDone
    BY <2>1 DEF CheckDone, Take, IInv, Stamps, TypeOK
  <2>2. ASSUME NEW r \in Reloads, LastShown(r)
        PROVE  shown' > failedAt \/ LagAt(shown') < LagAt(failedAt)
    <3>1. /\ shown' = read[r] /\ read[r] \in 1..clock /\ failedAt \in 1..clock
          /\ wall[read[r]] > wall[failedAt]
      BY <2>2 DEF LastShown, Step, FailedSince, IInv, Stamps, TypeOK
    <3>2. wall[read[r]] \in Int /\ wall[failedAt] \in Int
      BY <3>1 DEF IInv, TypeOK
    <3> QED BY <3>1, <3>2 DEF LagAt
  <2>3. CASE ~CheckDone /\ \A r \in Reloads : ~LastShown(r)
    BY <2>3, OthersLeaveThePage
  <2> QED BY <2>1, <2>2, <2>3
<1> QED BY <1>1, Invariance, PTL DEF Spec, FailureStaysUntilNewer

=============================================================================
