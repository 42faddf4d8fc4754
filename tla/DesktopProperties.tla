-------------------------- MODULE DesktopProperties --------------------------
(***************************************************************************)
(* The properties of Desktop.                                              *)
(***************************************************************************)
EXTENDS Desktop

Stages       == {"none", "waiting", "running", "answered"}
ReloadStages == {"none", "connection", "connectionRead", "last", "lastRead"}

\* Every variable holds a value of its kind, and a task that runs holds
\* the gate: no two collectors of the app that collect or change state overlap.  The next
\* tick is at most one interval away, also after the clock was set back ("do not wait
\* longer than one interval", main.rs:437).
TypeOK ==
  /\ gate \in Tasks \cup {"free", "tick"}
  /\ task \in [Tasks -> Stages] /\ answer \in [Tasks -> Nat]
  /\ \A t \in Tasks : task[t] = "running" => gate = t
  /\ loop \in {"poll", "waiting", "running"} /\ (loop = "running" => gate = "tick")
  /\ wait \in 1..Every /\ jumps \in Nat
  /\ clock \in Nat /\ wall \in [1..clock -> Int] /\ lag \in Nat
  /\ paired \in BOOLEAN /\ saved \in 0..clock
  /\ shown \in 0..clock /\ failedAt \in 0..clock
  /\ known \in BOOLEAN /\ canConnect \in BOOLEAN
  /\ reload \in [Reloads -> ReloadStages] /\ read \in [Reloads -> Nat]

\* How far the clock had been set back when a result or failure was stamped.
LagAt(n) == n - wall[n]

\* A failure leaves the page only for a result collected after it, or stamped before the
\* clock was set back: no interleaving of checks, ticks and overlapping reloads brings
\* back what was there before the failure.
FailureStaysUntilNewer ==
  [][failedAt # 0 /\ failedAt' = 0
       => shown' > failedAt \/ LagAt(shown') < LagAt(failedAt)]_vars

\* A result on the page is never replaced by an older one, whatever the order in
\* which the answers of checks and overlapping reloads arrive, unless the clock was set
\* back between the two.
NeverOlder ==
  [][shown # 0 /\ shown' # 0
       => shown' >= shown \/ LagAt(shown') < LagAt(shown)]_vars

\* "When a manual check fails, the page shows the failure until a NEWER result exists.
\* An older saved report must not quietly bring back a green state." (main.js:49-50)
NoOldGreen == [][failedAt # 0 /\ failedAt' = 0 => shown' > failedAt]_vars

\* The browser calls back, or the person gives up.
BrowserReturns == \A c \in Connects : WF_vars(ConnectHackzero(c))

\* Every check the page starts ends, also when the gate is contended and whatever
\* failed before.
ChecksEnd == BrowserReturns => (CheckInFlight ~> ~CheckInFlight)

\* The background loop goes on ticking after sleeps, clock changes, failed runs and
\* contention for the gate.
TicksGoOn == BrowserReturns => []<>(loop = "running")

\* The window is shown or focused again and again, and its reads succeed now and then.
ReloadsGoOn == \A r \in Reloads : /\ SF_vars(Begin(r) \/ Reloading(r))
                                  /\ SF_vars(ConnectionShown(r))

\* A page that goes on reloading is not wrong for ever about the connection, whatever stale
\* answers it showed.
PageCatchesUp == (BrowserReturns /\ ReloadsGoOn) => []<>(known = paired)

=============================================================================
