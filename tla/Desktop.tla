------------------------------- MODULE Desktop -------------------------------
(***************************************************************************)
(* desktop: the resident app (src-tauri/src/main.rs) and its page          *)
(* (src/main.js).  The app runs collectors for the page and for its own    *)
(* hourly tick; those that collect or change state hold the gate, the      *)
(* reads do not, and every answer reaches the page some time after it was  *)
(* computed.  A collector run is one step here: Agent and Connection say   *)
(* what happens inside.  Results and failures have numbers in the order in *)
(* which they came to be; the program itself sees only the wall-clock time *)
(* each of them is stamped with, and that clock may be set back.           *)
(***************************************************************************)
EXTENDS Integers, FiniteSets, Sequences

CONSTANTS
  Connects,      \* how many clicks on "Connect device" may be under way at once
  Reloads,       \* how many reloads of the last result may overlap
  Every,         \* BACKGROUND_EVERY (1 h), in polls of the loop
  WakeGap,       \* WAKE_GAP (120 s): a longer gap between polls is a wake-up
  AfterWake,     \* AFTER_WAKE_DELAY (45 s)
  Jumps,         \* the gaps other than a poll's: sleeps, and clocks set back
  SetBacks,      \* by how many stamps a clock that is set back falls behind
  MaxJumps,      \* bound: how many of those
  MaxClock       \* bound: when the last result is collected

ASSUME IntervalsOrdered == /\ Every \in Nat /\ AfterWake \in 1..Every
                           /\ WakeGap \in Nat \ {0}
ASSUME ClicksAreOthers == {"check", "disconnect", "free", "tick"} \cap Connects = {}
ASSUME JumpsAreTimes == Jumps \subseteq Int /\ SetBacks \subseteq Nat
ASSUME BoundsAreNaturals == MaxJumps \in Nat /\ MaxClock \in Nat

Tasks == {"check", "disconnect"} \cup Connects

VARIABLES
  gate,       \* CollectorGate: who holds it, "free" otherwise
  task,       \* where each request of the page is
  answer,     \* its answer: 0 for a failure, the number of its result for a check
  loop,       \* where the background loop is
  wait,       \* next_tick less the time of the last poll
  jumps,      \* how many jumps there were
  clock,      \* the number of the last result or failure
  wall,       \* of each of them, the time it is stamped with
  lag,        \* by how much the wall clock was set back
  paired,     \* `connection` says that this computer is paired
  saved,      \* the result in last-report.json, 0 when there is none
  shown,      \* currentResult, 0 when the page shows none
  failedAt,   \* lastFailureAt
  known,      \* connection, as the page has it: it believes to be paired
  canConnect, \* the button "Connect device" is enabled
  reload,     \* where each reload is
  read        \* what its collector read: a Boolean as 0 and 1, then a result

native == <<loop, wait, jumps>>
time   == <<clock, wall, lag>>
disk   == <<paired, saved>>
page   == <<shown, failedAt, known, canConnect>>
vars   == <<gate, task, answer, native, time, disk, page, reload, read>>

\* One thing more has happened, and is stamped.
Stamp == clock' = clock + 1 /\ wall' = Append(wall, clock + 1 - lag) /\ UNCHANGED lag

CheckInFlight == task["check"] # "none"

To(t, stage) == task' = [task EXCEPT ![t] = stage]

\* The page takes the answer of t.
Take(t) == task[t] = "answered" /\ To(t, "none") /\ answer' = [answer EXCEPT ![t] = 0]

Init ==
  /\ gate = "free" /\ loop = "poll" /\ wait = Every /\ jumps = 0
  /\ paired \in BOOLEAN /\ saved \in {0, 1} /\ clock = 1 /\ wall = <<1>> /\ lag = 0
  /\ shown = 0 /\ failedAt = 0
  /\ known \in {paired, FALSE} /\ canConnect = ~known
  /\ task = [t \in Tasks |-> IF t = "check" THEN "waiting" ELSE "none"]
  /\ answer = [t \in Tasks |-> 0]
  /\ reload = [r \in Reloads |-> "none"] /\ read = [r \in Reloads |-> 0]

------------------------------------------------------------------------------
(* The gate and what runs behind it.                                        *)

\* Slip: the command does not take the gate first.
GateFree_Unchecked == TRUE

GateFree == gate = "free"

Acquire(t) ==
  /\ task[t] = "waiting" /\ GateFree
  /\ gate' = t /\ To(t, "running")
  /\ UNCHANGED <<answer, native, time, disk, page, reload, read>>

\* The guard is dropped however the task ends.
Answered(t, a) ==
  /\ task[t] = "running"
  /\ answer' = [answer EXCEPT ![t] = a]
  /\ To(t, "answered")
  /\ gate' = "free"

\* check_now: `report` when paired, which saves its result; `status` otherwise, and when
\* the connection could not be read.  A check may also fail after its result was saved.
CheckNow ==
  /\ \/ /\ Answered("check", clock + 1) /\ Stamp
        /\ saved' \in {saved} \cup (IF paired THEN {clock + 1} ELSE {})
     \/ Answered("check", 0) /\ UNCHANGED <<time, saved>>
     \/ Answered("check", 0) /\ paired /\ Stamp /\ saved' = clock + 1
  /\ UNCHANGED <<native, paired, page, reload, read>>

\* connect_hackzero: the person approves, or pairing fails at any of its steps.
ConnectHackzero(c) ==
  /\ \/ Answered(c, 1) /\ paired' = TRUE
     \/ Answered(c, 0) /\ paired' \in BOOLEAN
  /\ UNCHANGED <<native, time, saved, page, reload, read>>

\* disconnect_hackzero: it may fail, or succeed and leave the files.
DisconnectHackzero ==
  /\ \E a \in {0, 1} : Answered("disconnect", a)
  /\ paired' \in {paired, FALSE}
  /\ UNCHANGED <<native, time, saved, page, reload, read>>

------------------------------------------------------------------------------
(* The background loop.                                                     *)

\* Slip: every poll starts the interval anew.
Armed_EveryPoll(gap) == IF gap > WakeGap THEN AfterWake ELSE Every

\* After a wake-up the tick follows soon.
Armed(gap) == IF gap > WakeGap THEN AfterWake ELSE wait - gap

\* ... and never later than after one interval.
Capped(left) == IF left > Every THEN Every ELSE left

\* The time since the last poll: one poll, or a jump.
Poll(gap) ==
  /\ loop = "poll"
  /\ LET left == Capped(Armed(gap))
     IN  IF left <= 0 THEN wait' = Every /\ loop' = "waiting"
                      ELSE wait' = left /\ UNCHANGED loop
  /\ UNCHANGED <<gate, task, answer, clock, wall, disk, page, reload, read>>

\* A clock that is set back also gives earlier stamps from then on.
Jump == /\ jumps < MaxJumps /\ jumps' = jumps + 1
        /\ \E gap \in Jumps :
             /\ Poll(gap)
             /\ IF gap < 0 THEN \E d \in SetBacks : lag' = lag + d ELSE UNCHANGED lag

BeginTick ==
  /\ loop = "waiting" /\ GateFree
  /\ loop' = "running" /\ gate' = "tick"
  /\ UNCHANGED <<task, answer, wait, jumps, time, disk, page, reload, read>>

\* background_tick: `run --once` saves a result when one is due and it can.
BackgroundTick ==
  /\ loop = "running"
  /\ \/ UNCHANGED <<time, saved>>
     \/ paired /\ clock < MaxClock /\ Stamp /\ saved' = clock + 1
  /\ loop' = "poll" /\ gate' = "free"
  /\ UNCHANGED <<task, answer, wait, jumps, paired, page, reload, read>>

------------------------------------------------------------------------------
(* The page: checks.                                                        *)

Refresh ==
  /\ ~CheckInFlight /\ clock < MaxClock
  /\ To("check", "waiting")
  /\ UNCHANGED <<gate, answer, native, time, disk, page, reload, read>>

\* Slip: a check that failed stays in flight.
Settled_OnSuccess(a) == a # 0

\* finally: the check is over, whatever its answer.
Settled(a) == TRUE

\* renderResult, or renderCheckFailure.
CheckDone ==
  /\ Settled(answer["check"])
  /\ Take("check")
  /\ IF answer["check"] # 0
       THEN shown' = answer["check"] /\ failedAt' = 0 /\ UNCHANGED time
       ELSE shown' = 0 /\ failedAt' = clock + 1 /\ Stamp
  /\ UNCHANGED <<gate, native, disk, known, canConnect, reload, read>>

------------------------------------------------------------------------------
(* The page: the connection.                                                *)

RenderConnection(isPaired) == known' = isPaired /\ canConnect' = ~isPaired

ClickConnect(c) ==
  /\ canConnect /\ task[c] = "none"
  /\ canConnect' = FALSE
  /\ To(c, "waiting")
  /\ UNCHANGED <<gate, answer, native, time, disk, shown, failedAt, known, reload, read>>

\* Then the first report is sent, unless a check is under way (or the bound on the
\* clock is reached); the wait for autostart before it is left out.
ConnectDone(c) ==
  /\ task[c] = "answered" /\ answer' = [answer EXCEPT ![c] = 0]
  /\ IF answer[c] = 1
       THEN /\ RenderConnection(TRUE)
            /\ task' = [task EXCEPT ![c] = "none", !["check"] =
                         IF CheckInFlight \/ clock >= MaxClock THEN @ ELSE "waiting"]
       ELSE canConnect' = TRUE /\ To(c, "none") /\ UNCHANGED known
  /\ UNCHANGED <<gate, native, time, disk, shown, failedAt, reload, read>>

ClickDisconnect ==
  /\ known /\ task["disconnect"] = "none"
  /\ To("disconnect", "waiting")
  /\ UNCHANGED <<gate, answer, native, time, disk, page, reload, read>>

DisconnectDone ==
  /\ Take("disconnect")
  /\ IF answer["disconnect"] # 0 THEN RenderConnection(FALSE)
                                 ELSE UNCHANGED <<known, canConnect>>
  /\ UNCHANGED <<gate, native, time, disk, shown, failedAt, reload, read>>

------------------------------------------------------------------------------
(* The page: reloadFromLast, after a tick, a wake-up or a focus.            *)

Step(r, from, to) == reload[r] = from /\ reload' = [reload EXCEPT ![r] = to]

\* Slip: a page that believes to be unpaired does not look again.
MayReload_WhenPaired == ~CheckInFlight /\ known

MayReload == ~CheckInFlight

Begin(r) ==
  /\ MayReload
  /\ Step(r, "none", "connection")
  /\ UNCHANGED <<gate, task, answer, native, time, disk, page, read>>

ReadConnection(r) ==
  /\ Step(r, "connection", "connectionRead")
  /\ read' = [read EXCEPT ![r] = IF paired THEN 1 ELSE 0]
  /\ UNCHANGED <<gate, task, answer, native, time, disk, page>>

\* The page goes on only when it is paired, ...
ConnectionShown(r) ==
  /\ RenderConnection(read[r] = 1)
  /\ Step(r, "connectionRead", IF read[r] = 1 THEN "last" ELSE "none")
  /\ read' = [read EXCEPT ![r] = 0]
  /\ UNCHANGED <<gate, task, answer, native, time, disk, shown, failedAt>>

\* ... and a read that failed leaves its belief.
ConnectionUnread(r) ==
  /\ Step(r, "connectionRead", IF known THEN "last" ELSE "none")
  /\ read' = [read EXCEPT ![r] = 0]
  /\ UNCHANGED <<gate, task, answer, native, time, disk, page>>

ReadLast(r) ==
  /\ Step(r, "last", "lastRead")
  /\ read' = [read EXCEPT ![r] = saved]
  /\ UNCHANGED <<gate, task, answer, native, time, disk, page>>

\* Slip: the failure is not looked at.
FailedSince_Never(at) == FALSE

\* A check has failed and this result's time is not after it.
FailedSince(at) == failedAt # 0 /\ ~(wall[at] > wall[failedAt])

\* Slip: the result on the page is not looked at.
NewerShown_Never(at) == FALSE

NewerShown(at) == shown # 0 /\ wall[shown] > wall[at]

LastShown(r) ==
  /\ Step(r, "lastRead", "none")
  /\ read' = [read EXCEPT ![r] = 0]
  /\ IF CheckInFlight \/ read[r] = 0 \/ FailedSince(read[r]) \/ NewerShown(read[r])
       THEN UNCHANGED <<shown, failedAt>>
       ELSE shown' = read[r] /\ failedAt' = 0
  /\ UNCHANGED <<gate, task, answer, native, time, disk, known, canConnect>>

------------------------------------------------------------------------------
Reloading(r) == ReadConnection(r) \/ ConnectionShown(r) \/ ConnectionUnread(r)
                \/ ReadLast(r) \/ LastShown(r)

UsualPoll == Poll(1) /\ UNCHANGED <<jumps, lag>>

Person ==
  \/ Refresh \/ ClickDisconnect
  \/ \E c \in Connects : ClickConnect(c)
  \/ \E r \in Reloads : Begin(r)

Next ==
  \/ Person \/ UsualPoll \/ Jump \/ BeginTick \/ BackgroundTick
  \/ \E t \in Tasks : Acquire(t)
  \/ CheckNow \/ CheckDone \/ DisconnectHackzero \/ DisconnectDone
  \/ \E c \in Connects : ConnectHackzero(c) \/ ConnectDone(c)
  \/ \E r \in Reloads : Reloading(r)

Spec == Init /\ [][Next]_vars

\* Collector runs other than `pair` end, their answers arrive, the loop polls, and a check or
\* a tick that waits for the gate gets it if it becomes free again and again: the tick
\* leaves it free for most of an hour.  Nothing is assumed of clicks.
LiveSpec ==
  /\ Spec
  /\ WF_vars(CheckNow) /\ WF_vars(CheckDone) /\ WF_vars(DisconnectHackzero)
  /\ WF_vars(UsualPoll) /\ WF_vars(BackgroundTick)
  /\ SF_vars(BeginTick) /\ SF_vars(Acquire("check"))

=============================================================================
