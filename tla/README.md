# Device Checker: specifications and proofs

TLA+ models of `hackzero-device-checker`, the TLC runs that check them on small
instances, and TLAPS proofs of all their safety properties for every value of
the constants. Every definition is translated from the source, not from the
documents; `PROJECT.json` maps each one to the lines it stands for.

Device Checker reads a handful of security settings of a computer, turns them
into four verdicts, signs the report with the computer's own key and sends it
to a service. It must not lose evidence, must not claim more than it knows, must
not be confused by two copies of itself, and must never say "connected" or
"uploaded" when that is not so.

## 1. Inventory

### Components

| Component (source) | State it keeps | Operations | What makes it hard | Correct when |
| --- | --- | --- | --- | --- |
| **Agent** `internal/agent/agent.go` | `agent-state.json`, `last-report.json`, what is in memory during a run | `Tick`, `Runner.Run`, `flush`, `deliver`, `Classify`, `updateLastReport` | a run is a dozen separate disk writes and requests; each may fail, or the process may die between any two | the schedule never skips a report; `last-report.json` is never wrong; refused envelopes are not retried |
| **Offline queue** `internal/reporting/spool.go` | one file per envelope, `*.corrupt` files | `Queue`, `Pending`, `Remove`, `trim` | the bound and the order; damaged files; interrupted trims | bounded; oldest first; drops only when full |
| **Envelopes** `internal/reporting/reporting.go` | - | `NewEnvelope`, `NewHeartbeat`, `Verify` | byte-identical signing on two platforms | (identity only; cryptography is not modelled) |
| **Schedule** `internal/schedule/schedule.go` | - | `Evaluate` | boundaries, the zero time | full reports and heartbeats keep their periods |
| **Collector lock** `internal/agent/lock.go` | one lock file | `AcquireLock`, release | create, stat and remove are three system calls; stale locks; release by name | one collector at a time; nobody waits for ever |
| **Connection commands** `cmd/device-checker/main.go` | `identity.json`, `pairing.json` | `pair`, `connection`, `disconnect`, `report`, `run` | several processes, two files, requests whose answers may be lost | paired means registered; disconnect revokes first; nobody is trapped; a new connection reports |
| **Identity** `internal/identity` | the key file | `Generate`, `Save`, `Load`, delete | - | a fresh key after a disconnect |
| **Loopback pairing** `internal/pairing` | an open listener | `StartLoopback`, `Wait` | the browser may never come back | the listener closes |
| **Desktop app** `desktop/src-tauri/src/main.rs` | the gate, `next_tick`, the last poll | `check_now`, `connect_hackzero`, `disconnect_hackzero`, `last_report`, `background_loop` | a mutex held for as long as a person is in a browser; sleep and clock changes | ticks go on, never later than one interval |
| **Page wording** `desktop/src/copy.js` | - | `plainRows`, `screenLockLines`, `heroTitle` | the headline comes from the statuses, the lines from the details | the page says what the report means |
| **Page** `desktop/src/main.js` | `currentResult`, `lastFailureAt`, `checkInFlight`, `connection` | `refresh`, `reloadFromLast`, `connectHackZero`, `disconnectHackZero` | answers arrive in any order, reads overlap with checks | never shows an older result, nor hides a failure behind one; learns in the end whether the computer is paired |
| **Verdicts** `internal/posture` | - | `Evaluate` and its four rules | every fact may be missing | never passes on what was not read |
| **Probes** `internal/probe` | - | `collect` on three platforms, the parse helpers | one of several sources fails; a managed profile overrides some settings | a failed read is unknown, not a default; what is in force decides |

Not modelled: the read-only CLI commands, the legacy Windows tray, packages and installers, the release pipeline
(pure output or configuration; see `PROJECT.json`).

### How they interact

The page calls commands of the desktop app; the app runs the collector binary as a
child, one that changes state at a time, behind its *gate*. The collector takes the *lock file*
for every run, because the service manager's `run` and a shell may start others.
Inside, `Runner.Run` calls the probes, the posture rules, the schedule, the
queue and the sender. `pair` and `disconnect` change identity and pairing files
that a resident `run` has read once, at its start. Nothing is shared but files; the
queue, `agent-state.json` and `last-report.json` survive a disconnect, so that what one
identity left is handled by processes of the next. The page orders results and failures by the wall
clock of the computer, which a user or a time service may set back.

### The hazards

`PROJECT.json` lists them at their lines, each with the property that would
catch it or the reason why none does. The main ones: errors and crashes between
the upload and the two saves in `Run`; a take-over of a lock that is no longer
the stale one; a lost answer to the exchange or the revocation; old answers that
reach the page after newer ones; a gate held by somebody in a browser; a resident
`run`, a queue and a schedule that outlive the identity they belong to; sources
of which only some could be read; managed settings beside the user's own; a wall clock set back
between two results that are compared; a page whose lines and headline disagree.

## 2. Modules

| Module | Models | Role |
| --- | --- | --- |
| `Schedule` | `schedule.Evaluate` | operators |
| `Spool` | what an envelope is, the order of `Pending` | operators |
| `Agent` | `Runner.Run` with the queue, the files, the service's answers, faults | state machine; extends the two above |
| `Delivery` | the promise about each envelope | abstract specification, implemented by `Agent` |
| `AgentProperties`, `MCAgent` | properties, the refinement mapping, TLC instances | |
| `AgentProofs`, `AgentCleanProofs` | | theorems: whatever fails, and up to the first fault |
| `CollectorLock`, `MCCollectorLock`, `CollectorLockProofs` | `AcquireLock` and release | state machine with its properties, instances, theorems |
| `Statuses` | which HTTP statuses are a success, a refusal, a retry, "no such device" | operators, extended by `Agent` and `Connection` |
| `Connection`, `ConnectionProperties`, `MCConnection`, `ConnectionProofs` | `pair`, `disconnect`, what `report` and `run` read and whom they report as, and the service's registrations | state machine; what a report does inside is left open |
| `Computer`, `ComputerProperties`, `MCComputer`, `ComputerProofs` | the runs of `report` and `run` inside `Connection`: lock, queue, schedule, last report, across connections | composition; extends `Connection` and refines it |
| `Desktop`, `DesktopProperties`, `MCDesktop`, `DesktopProofs` | the gate, the background loop, and the page | |
| `Posture` | the verdict of every signal as a function of the facts | operators |
| `Probe`, `ProbeProperties`, `MCProbe`, `ProbeProofs` | which facts a check gets when sources fail | state machine; extends `Posture` |
| `Copy`, `CopyProperties`, `CopyProofs` | the lines of every row of the page and its headline | operators on the details of `Posture`; checked on the states of `Probe` |

Operators whose name has a suffix (`Classify_Uncovered`, `IsStale_Early`) and a comment starting
with "Slip" are variants a plausible bug would give. No specification
uses them; substituting one for the operator it is named after must break the
property `PROJECT.json` names. They show that the property depends on that code.

### Agent

The program counter `pc` names the next thing the run does to the network or the
disk, so an action ends where the code could be interrupted:

`scan`, `flush`, `remove`, `update` are `flush`; `load` is `LoadState` and `Evaluate`;
`collect`, `send` build and deliver an envelope; `queue`, `trim`, `drop` are
`Spool.Queue`; `saveLast` and `saveState` are the two writes at the end.

`FlushSend` and `Send` choose the HTTP status and, through `Exchange`, what client and
service then know: a lost answer leaves an envelope accepted while the client
keeps it queued. `Fail` stands for the error return of any file operation,
`Crash` for the end of the process anywhere, `Damage` for files that no longer
verify or parse, `SetBack` for a clock that moves back, and a file becomes *stuck* when it cannot be read or
moved aside (fault `unread`). Every one of them counts against `MaxFaults`.

`Scan` is `Spool.Pending`. It moves damaged files aside, and passes over a stuck file as the code
does when `ReadFile`, `Info` or the rename fails: the file stays queued but is not in the snapshot, and `flush`
sends what is younger. `skipped` keeps which files the current snapshot passed over. `trim` looks with the
same `Pending`, so a stuck file does not count against `MaxItems`.

Abstractions: an envelope is its number, kind, time and source; the number takes
the place of the file's digest and modification time. Signatures are not
modelled beyond "verifies or not". `now` and the time of an envelope are the same
instant. Runs do not overlap: that is what the lock is for, and `CollectorLock`
says when it fails.

### CollectorLock

One process is at `open`, `stat`, `unlink`, `check` or `sleep` of the loop, or
runs. `lockFile` is a set of at most one file, with its creator and age; `Unlink` and
`Release` remove whatever file has the name, as `os.Remove` does. `elapsed` is
both the time since `AcquireLock` was called (for the deadline) and the time a run has held the
lock (for the staleness). `seized` and `overran` are history.

### Connection

Shells run `pair` and `disconnect`, reporters `report` and `run`; each step ends at
a request or a write. `Truncate` and `Write` are the two halves of `os.WriteFile`, which leaves an
empty pairing file in between; an identity is replaced by one rename.
The service is modelled from how the code uses it: it registers an identity
it has not revoked, answers the two disconnect requests truthfully, and may deactivate a
device by itself. Reading the two files is one step.

Between `Configure` (identity and URL are read) and its end a report is the action `Report`, which
may tell the caller that the service took it (`told`), under an identity that is registered at
that moment, or meet a fault. `Computer` says what happens in between.

### Computer

`Computer` extends `Connection` by the lock and by the files that survive a disconnect.
A run is coarser than in `Agent`: `FlushSend` and `Send` are one request each, `Settle`
is the removal of a flushed file with `updateLastReport`, `Store` all that follows the delivery.
`RunFails` and `Die` break such a step off in between (`Broken` lists what is then
on disk). The lock excludes here; it is left behind by a process that dies and taken over
once stale. An envelope carries who signed it, whether the service took it (`Post`: at most once, so
that a retry after a lost answer is refused as a duplicate), and whether
`last-report.json` describes it. What a run sends is a full report or a heartbeat (`Scheduled` says which of them the
schedule makes). `TickSummary` is the line `run` prints, in all its branches: what became of the full report, otherwise of the
heartbeat, otherwise `queued` when something waits and `uploaded` when nothing does. It looks at the
queue after the lock was released, which is a step of its own (`Counting`, `Tell`), so another process may have used
the queue in between. `ReportsAsPromised` is the refinement: the property is `Connection`'s `Spec`, on the variables the modules share.

What the refinement says of the line is what `Connection` says of it: a full report or a heartbeat is called
uploaded only under an identity the service accepts. The `uploaded` of an idle run promises nothing: a
resident `run` whose identity is revoked prints it too when nothing is due and nothing waits, for the code does not
ask the service then.

### Desktop

`gate` is the app's mutex; a task waits, runs and is answered, and the page takes
the answer in a step of its own. A collector run is one step that may save a
result, fail, or fail after it saved one (the page is told neither which). Results and failures are
numbered in the order in which they happen; the code does not know that order. What it compares is `wall`, the
wall-clock time each of them is stamped with (`Stamp`): `lag` is by how much that clock was set back, and
`FailedSince` and `NewerShown` look at stamps only. `wait` is the time left until the next tick; a
`Jump` is a poll that comes after a sleep, after a tick that lasted longer than
`WAKE_GAP`, or with a clock that was set back, which also makes the stamps that follow smaller. `paired` is what the files say, `known` what the
page believes; a reload reads the one and shows it later (`ConnectionShown`), or fails to
read it and leaves the belief (`ConnectionUnread`).
Uninstall, updates, dialogs and the wait for the autostart setting are left out.

### Posture and Probe

A fact is a set, `{}` when it was not read and `{v}` otherwise; so are settings that may
be absent. A *world* is a computer: its true settings, and which sources may be
unreadable. `Read` and `ReadFails` go through the sources in the order of `collect`;
`Verdict` is `Evaluate` applied to what the parse helpers make of the sources
that were read. `ProbeProperties` states the rules of `SPEC.md` on the
true settings, without any of these operators, and compares.

What is in force on a Mac with a managed screen-saver profile is stated from `SPEC.md:115` ("an MDM profile
... which wins"): each setting that the profile has (timer, whether a password is asked for, delay) is in force instead of the
user's own, and it forces no other. The code does not do that: a managed delay alone makes it take the password for asked
for, and a managed `askForPassword` without a delay changes nothing. They agree on a profile that is whole
(`ProfileIsWhole`); sections 3 and 4 say what is checked on which.

Times are small numbers: a minute has `Minute` seconds, the limit is
`LimitMinutes` (15), `Tolerance` stands for 5 seconds. The detail of the screen lock is
modelled field by field (display timer, saver, password, delay, `lock_minutes` rounded up,
`ok`), because the page is built from it. Texts are the set of phrases the parsers look for:
`FileVault` tests for "decryption in progress" before "encryption in progress", which
it contains. UPS profiles and version numbers are left out; the Windows script either returns or
fails as a whole (the failure is one of `Agent`'s), and a value it could not read is `null`.

### Copy

`Copy` translates `copy.js` from the details to the lines of a row: a line is its tone,
a keyword for what it says, and the power profile it is about. `Row` is what the page shows for
a signal, `Headline` the title over all rows. `CopyProperties` compares them with the
verdict and, through `ProbeProperties`, with the true settings of the computer.

## 3. Runs

| Run | Instance | Shows |
| --- | --- | --- |
| `agent_clean` | manual and scheduled runs, answers none/200/404, no faults | `AtMostOncePerPeriod`, `QueuedMeansWaiting`, `RejectedNeverRetried`, `NewestEvidenceKept`: promises that hold while nothing fails |
| `agent_faults` | scheduled runs under fairness, one fault of any kind, a stuck file among them | `TypeOK`, `StateBackedByEvidence`, `LastReportHonest`, `QueueBounded`, `FlushKeepsOrder`, `QueueDrains`, `OverdueReportIsMade`, and `Agent` implements `Delivery` |
| `agent_daily_resent` | violation | a failing write after the upload makes every new run upload another full report |
| `lock` | 2 processes, 2 deaths or open errors, runs longer than the stale age | `TypeOK`, `HoldersBounded`, `ExclusiveWhenOrderly`, `AcquireReturns`, `AbandonedLockGoes` |
| `lock_race` | violation, 3 processes | two waiters take over the same dead lock and both run |
| `connection_faults` | `Computer`: 1 shell, 1 resident `run` with full reports and heartbeats, 2 identities, a queue of 1, answers none/200/404/409, one fault | of `Connection`: `TypeOK`, `PairedMeansRegistered`, `RevokedBeforeRemoval`, `CleanDisconnectRevokes`, `FreshKeyAfterDisconnect`; of the composition: `DuplicatesBounded`, `LastReportTrue`, and `Computer` implements `Connection` (`ReportsAsPromised`) |
| `connection_live` | the same under fairness, with full reports only | `NobodyIsTrapped`, `QueueMovesOn`, `ReportingResumes` |
| `desktop` | 1 click on Connect, 2 overlapping reloads, 1 sleep or clock set back | order of results and failures (`NeverOlder`, `FailureStaysUntilNewer`), gate and ticks (`TypeOK`) |
| `desktop_live` | 1 click, 1 reload, 1 sleep or clock change, under fairness | `ChecksEnd`, `TicksGoOn`, and the page's belief about the connection (`PageCatchesUp`) |
| `desktop_clock` | violation | after the clock was set back, a result from before a failure replaces it |
| `probe` | every signal on every platform, each optional source readable or not; what is always readable is listed below | the verdict: `PassIsEarned`, `FailIsDeserved`, `DecidedWhenRead`; the report's detail: `DetailIsTrue`; the page: `LockLinesAreTrue`, `RowAgrees` |
| `probe_guess` | violation | an unreadable local Software Update file beside a managed one is taken for one with the defaults |

**What `probe` leaves out.** `HonestWorlds` are the computers on which the code keeps its promises. Always readable in them, because the
code takes the loss of each for a setting, are:

* managed preference files, of Software Update (probe_darwin.go:57) and of the screen saver (:99);
* the local Software Update preferences, when there are managed ones (darwin_parse.go:292);
* the registry values of the Windows screen lock other than those of the screen saver (inactivity limit,
  `DelayLockInterval`, whether a program is set);
* all sources of Windows Update.

And a managed screen-saver profile is whole (`ProfileIsWhole`) where the user's own setting does not ask for a password. Nothing
else is left out. The theorems of section 5 carry the same list in `Honest`, and section 4 says what the code does in
each of these cases. `DecidedWhenRead` asks for a definite verdict only when the platform has one to give
(`Decidable`): on Windows when the screen-saver settings that decide exist, the program included.

**Further instances.** The runs above are the ones `PROJECT.json` lists. These reproduce the other
disagreements of section 4; TLC finds the named property violated in each
(`tlc -config <instance>.cfg <module>`).

| Instance | Module | Property | What the counterexample is |
| --- | --- | --- | --- |
| `agent_failed_check` | `MCAgent` | `FailedCheckSentNothing` | the page says nothing was sent although the report was accepted |
| `agent_order` | `MCAgent` | `RetriedInOrder` | a younger report is sent past an older one whose file could not be read |
| `agent_stale_queued` | `MCAgent` | `QueuedMeansWaiting` | a run that dies between removal and update leaves the delivered report called queued |
| `connection_listener` | `MCConnection` | `ListenerCloses` | without a callback the listener never closes |
| `probe_guess_profile` | `MCProbe` | `PassIsEarned` | an unreadable managed Software Update file is taken for none |
| `probe_guess_saver` | `MCProbe` | `PassIsEarned` | an unreadable managed screen-saver profile is taken for none |
| `probe_guess_windows` | `MCProbe` | `PassIsEarned` | whatever of Windows Update could not be read is taken for automatic |
| `probe_guess_registry` | `MCProbe` | `PassIsEarned` | a `DelayLockInterval` that could not be read is taken for 0 |
| `probe_missing_key` | `MCProbe` | `MissingKeyIsUnknown` | a missing key for the screen-saver program is taken for "no screen saver" |
| `probe_profile_asks` | `MCProbe` | `FailIsDeserved` | a managed profile that asks for a password, without a delay, is not obeyed |
| `probe_profile_delay` | `MCProbe` | `PassIsEarned` | a managed delay alone is taken for a password that is asked for |

### Bounds

* `MaxItems` 2: a third envelope overflows the queue, and two remain to be
  ordered. `FullEvery` 2 and `HeartbeatEvery` 1 make a period in which only a heartbeat is due and one
  in which both are. `MaxClock` 3 gives two periods; at the horizon only
  background runs go on, flushing. `MaxEnvelopes` is never the limit of a behaviour with faults
  other than at the horizon.
* Answers: none, a success and a refusal: `Classify` distinguishes no more (429
  and 5xx are treated like none). In `connection_faults` 404 is the service that forgot the
  device and 409 the refused duplicate.
* One fault in `agent_faults` is one error, crash, damaged or stuck file, clock change or
  lost answer *anywhere*; a fault leaves only files behind, and further runs act on these.
  The theorems of section 5 hold for any number.
* `lock`: two processes suffice for every pair of system calls; `lock_race` needs
  a third, the dead holder. `Horizon` stops clocks where they no longer matter.
  `MaxSeized` ends behaviours in which long runs take each other's lock for ever.
* `connection_faults`: two identities are one before and one after a
  disconnect; one place in the queue is enough for an envelope of the old identity to
  be in the way of the new one, and for `trim` to drop it. One fault of any kind at any step: a fault leaves only files
  and the service's registrations behind, and the behaviour goes on from there without bound
  (a second fault multiplies the states beyond five minutes; the theorems of section 5 hold for any number).
  With one shell the commands interleave only with runs and the service; the theorems cover any
  number of shells, except that `CleanDisconnectRevokes` and `FreshKeyAfterDisconnect` are proved
  for one shell and any number of reporters (two shells break them, see section 4).
* `connection_live` leaves out heartbeats, which would take it beyond five minutes: they share every step of a
  run with full reports, and its properties are about the queue and the full reports.
* `desktop`: `Every` 2, `WakeGap` 1 and `AfterWake` 1 keep the order of the real times;
  `Reloads` and `Connects` are slots, used again and again. `SetBacks` {2} puts the next stamp
  before the two that precede it. Reloads differ by name only (symmetry).
* `desktop_live` has one reload and no symmetry, and stamps stay in order there (`SetBacks` {0}; the
  clock still moves `wait`): its properties are about checks, ticks and the connection, which no stamp decides.
* `probe`: times 0, and below, at and above the limit of two minutes of two seconds, with partial minutes
  and delays below, at and above `Tolerance`, in every combination the rules can tell apart; each
  source that may be unreadable is, or not, independently (0.7 million states).

### Fairness, and why the code justifies it

* `Agent`: a run that started goes on (every request and command has a timeout);
  the background schedule starts runs (`run` sleeps and ticks, the service
  manager starts it again when it ended); time passes. `QueueDrains` further assumes that
  the service gives the head of the queue a definitive answer infinitely often;
  without that no queue can drain.
* `CollectorLock`: processes run, runs end, time passes. `AcquireReturns` is claimed for
  behaviours without runs longer than `LockStaleAfter`: a take-over skips the
  deadline, so a waiter that is always too late might go on for ever otherwise.
* `Connection`: every request returns. Nothing is assumed of the browser. `NobodyIsTrapped`
  assumes a user who goes on trying, and a service that answers now and then.
* `Computer`: a run that holds the lock goes on (its requests and file work have timeouts or are
  local), and time passes. `QueueMovesOn` and `ReportingResumes` also assume `Serviced`: the service manager
  starts `run` again and again and it gets the lock, and the service gives a definitive
  answer to the head of the queue and to a new report infinitely often. Both are claimed
  for a computer that is finally `Settled`: connected, known to the service, and without a process that
  was started under another identity. A resident `run` of the old identity is not
  covered: see section 4.
* `Desktop`: collectors other than `pair` end (the probes' commands,
  the HTTP client and the lock all have timeouts of their own), answers to checks are delivered,
  the loop polls. Acquiring the gate is strongly fair for checks and for the tick only: the mutex is
  free for most of an hour and does not starve a waiter. Nothing is assumed of
  clicks. `ChecksEnd` and `TicksGoOn` assume that the browser calls back or the person gives up,
  because `connect_hackzero` holds the gate until then; `PageCatchesUp` also that the window is
  shown or focused again and again, and that reading the status succeeds now and then.
* `Probe` has no liveness: a check reads a fixed list, each with a timeout.

## 4. Findings

Each is a behaviour of the code: the counterexample of a `violation` run or of an instance of section 3.

Of the runs:

1. `agent_daily_resent` (agent.go:158): an error after the upload returns before
   the state is saved, so a full disk turns the daily report into one per restart. `docs/ARCHITECTURE.md:21`
   promises one in 24 hours.
2. `lock_race` (lock.go:37): stat and remove are two steps, and the second
   waiter removes the first one's new lock.
3. `desktop_clock` (main.js:282): results and failures are compared by wall-clock time. Set the clock back, let a
   check fail, and the saved result from before has the later time: it replaces the failure that
   `main.js:49` wants to stay "until a NEWER result exists". In the other direction a newer result
   is taken for an old one and not shown until the clock has caught up; no property is about that.
4. `probe_guess` (darwin_parse.go:292): when the local Software Update file cannot be
   read but a managed one can, every key is on by default; `darwin_parse.go:15` says that no helper
   guesses a pass.

Of the further instances:

5. `agent_failed_check` (agent.go:158, main.js:180): the early return of 1 is shown as
   "Nothing was sent to HackZero from this check".
6. `agent_order` (spool.go:97): a queue file that cannot be read, or moved aside, while `flush` looks is passed over, and
   younger reports are sent before it; `SPEC.md:181` says that a queued report is "retried in order".
7. `agent_stale_queued` (agent.go:247): the envelope is removed before `last-report.json` is updated, so that a crash in
   between leaves the report called queued for ever; `SPEC.md:183`: "When a queued report is later
   delivered, `last-report.json` is updated."
8. `connection_listener` (loopback.go:70): the wait has no timeout, against `SPEC.md:232`.
9. `probe_guess_profile` (probe_darwin.go:57) and `probe_guess_saver` (probe_darwin.go:99): a managed preference file that
   exists but cannot be read is taken for none, against `darwin_parse.go:15`.
10. `probe_guess_windows` (windows_parse.go:325) and `probe_guess_registry` (windows_parse.go:294): a value the Windows script could
    not read becomes the good default, where `windows_parse.go:18` says that null becomes unknown.
11. `probe_missing_key` (windows_parse.go:285): no screen-saver program in policy or user key counts as "no screen
    saver", and the signal fails; `SPEC.md:116`: "A missing key is unknown, never false."
12. `probe_profile_asks` (darwin_parse.go:273) and `probe_profile_delay` (darwin_parse.go:277): of a managed profile the delay decides
    whether a password is asked for. One that asks and sets no delay is not obeyed, and a computer
    that locks in time fails; one that sets a delay and does not ask makes a computer pass that never
    asks. `SPEC.md:115` has a profile "which wins". The first assumes that `sysadminctl`
    states the user's own setting; should it state what is in force, only the second can happen.

Also met while modelling, part of the models, and kept out of the properties where noted:

* A ClamAV daemon that does not run is never reported as a failure, since `systemctl is-active` exits
  with an error then (`DecidedWhenRead` leaves that signal out).
* A Windows registry value that cannot be read is not told apart from one that is not set (the script gives
  null for both). A root on several devices passes when one of them is encrypted (linux_parse.go:42), as
  `SPEC.md` defines the signal.
* On Windows a profile may state `lock_minutes` 0 ("never") although a screen saver that could not be read
  may lock it, where `SPEC.md` has the field "only when known" (`DetailIsTrue` asks the
  zero to be true only when the verdict is not open).
* The page may say that the display "never turns off, so it never locks" in a row whose verdict is left
  open because the screen saver was not read (copy.js:164; exception in `LockLinesAreTrue`).
* On Windows the page asks for a shorter display timer even where signing in on wake is
  off for that profile and another mechanism decides (copy.js:173; `LockLinesAreTrue` leaves
  that line out there).
* A lock whose timers alone are too long while the password could not be read fails, and its row
  only says that the setting is not on (exception in `RowAgrees`).
* With two shells, a `disconnect` that interleaves with the `pair` of the other may drop an identity that
  is registered a moment later, and a pairing may use a key that is being revoked: no lock
  covers the two commands.
* A resident `run` that was started before a disconnect goes on under its old identity. Its report is
  refused, but is recorded in `agent-state.json` as this period's: as long as it comes first in each period,
  the new identity makes no scheduled report.

## 5. Theorems

All proofs hold for every value of the constants that satisfies the named
assumptions: any number of faults, processes and envelopes.

**`AgentProofs`** (assumptions of `Schedule` and `Agent`)

* `TypeCorrect`: `TypeOK` is inductive. Some of its conjuncts carry weight: the queue is a subset of
  what was signed, `uploaded` of what the service acknowledged.
* `FlushOrder`: `FlushKeepsOrder`: only what `Pending` passed over in this flush is overtaken. It is not inductive, because
  what `flush` compares is the *snapshot* it took: `SnapshotKept` shows first that in `flush` and `drop` the
  snapshot is the queue without the files it passed over (`SnapshotIsQueue`). `agent_order` shows why no more
  can be proved.
* `ScheduleHasEvidence`: `StateBackedByEvidence`. `WellFounded` strengthens it to what
  is in memory: the state being built is backed too, and between the delivery of an envelope and the
  save that records it, the envelope in hand is accounted for and has the
  run's time. `AccountedGrows` says that no action takes an envelope out of
  the accounted ones, which lets every action that leaves the times alone be
  dealt with at once.
* `ReportIsHonest`: `LastReportHonest`. It identifies a report by its number, so `NumbersIdentify` shows
  that numbers identify envelopes; `ReportsWhatHappened` adds that the verdict in
  hand is what happened to the envelope in hand.
* `QueueStaysBounded`: `QueueBounded`, with the finiteness of the queue (`QueueIsCounted`). Each fault pays for at
  most one envelope over the limit: one that an interrupted `Queue` left, or a file `trim` could not read.
* `KeepsItsPromise`: `Agent` implements `Delivery` (`DeliveryContract`). The mapping tells of every number where its
  envelope is and how it was answered last; `Mapped` gives it envelope by envelope. There is one lemma
  for each action that moves an envelope, and all others leave every place and every answer as they are.
  It needs that no envelope is in two places (`InOnePlace`) and that every envelope
  has a number the abstract specification knows (`EnvelopesFit`).

**`AgentCleanProofs`** (extends `AgentProofs`): what `agent_clean` checks, in every state in which no fault has
happened yet (`Undisturbed`; the specification allows faults, so this covers also runs before the first one).

* `RefusalsAreFinal`: `RejectedNeverRetried`, from `RefusedLeaves`: a refused envelope is in the queue only until `Remove`.
* `QueuedReportWaits`: `QueuedMeansWaiting`, from `ReportWaits`.
* `ReportsAreSpaced`: `AtMostOncePerPeriod`. `Punctual` relates three copies of the schedule: until a run loads it the
  file remembers everything that was made, from then on the memory does, except for the envelope in
  hand; and a background run at the instant of the run before finds nothing due.
* `OldestIsDropped`: `NewestEvidenceKept`. The queue is in the order of signing (`SignedInOrder`), so that what is first
  in it is the oldest.

**`CollectorLockProofs`** (`ProcsFinite`, naturals)

* `TypeCorrect`.
* `HoldersAreBounded`: `HoldersBounded` is inductive; the lemmas `EnterRunning`, `LeaveRunning` and `OutsideMove` say what
  a step of one process does to the number of those that run.
* `OrderlyRunsExclude`: `Prompt` strengthens `ExclusiveWhenOrderly`: while nobody died and no run was too long, every
  runner owns the file, whose age is that of its run, hence it is not stale and nobody is at
  `unlink`.

**`ConnectionProofs`** (`NotIdentities`, `OneCommandEach`)

* `TypeCorrect`.
* `PairingIsApproved`: `PairedMeansRegistered`, from `Backed`: every stored pairing, and every one about to be
  stored, is of a registered identity; `RegistrationGrows` says that the service forgets none.
* `RemovalIsSafe`: `RevokedBeforeRemoval`, also from `Backed`: a process on its way to the removal has had the answer that its
  identity is no longer registered, and no exchange revives a revoked one.
* `DisconnectRevokes`, `NewPairingNewKey`: `CleanDisconnectRevokes` and `FreshKeyAfterDisconnect`, under the hypothesis
  `OneShell` (at most one process gives commands, any number report). `Tidy` holds until the first fault: only the stored
  identity may be registered, it is the one the command in progress works on, and outside the two halves of a
  write the pairing is stored with it. Two shells break it, as section 4 says.

**`ComputerProofs`** (also `ManualReports`, `QueueIsPositive`, `LockIsNoProcess`)

* `ComputerReports`: every behaviour of `Computer` is one of `Connection` (`ReportsAsPromised`). `HandIsOwn` is the
  invariant it needs: whoever holds the lock is in a report, and signs as the identity it loaded.
  `RunIsReport` maps every step of a run to `Report` or a stutter, `StepsMap` all of `ComputerNext`. Every branch of
  `TickSummary` is covered; the line of an idle run maps to a line `Connection` promises nothing about.
* `ComputerIsApproved`: hence `PairedMeansRegistered` holds of the whole computer, from `PairingIsApproved`, for
  any number of processes, faults and envelopes.
* `ComputerDisconnects`: in the same way the two properties of a disconnect, for one shell.
* `DuplicatesArePaid`: `DuplicatesBounded`. `HeldIsPaid` counts the envelopes in the queue that the service already has, without the
  one that is about to be removed and with the one that is about to be queued: each cost a fault. `HeldAppend`,
  `HeldTail` and the like say what a step does to their number.
* `ComputerReportIsTrue`: `LastReportTrue`, from `VerdictsAreTrue`: the verdict in hand is true of the envelope it is about,
  which is the head of the queue or the new report.

**`DesktopProofs`** (`IntervalsOrdered`, `ClicksAreOthers`, `JumpsAreTimes`, `BoundsAreNaturals`)

* `TypeCorrect`: `TypeOK`, which includes that running tasks exclude each other and that the next tick is at most
  one interval away, for any sleeps and clock changes.
* `ResultsNeverGoBack`, `FailuresStay`: `NeverOlder` and `FailureStaysUntilNewer`, for any number of clicks and overlapping
  reloads, sleeps and clocks set back: only across a change of the clock (`LagAt`) does the page go back. Results are compared by
  their stamps there, as the code does, and the theorem is about the order in which they happened. `Stamps` is what
  they need: a check's answer on its way to the page is newer than what the page shows and
  than the failure it shows, because no reload replaces either while a check is in flight.

**`ProbeProofs`** (`LimitIsPositive`, `ToleranceIsNatural`; hypothesis `Worlds \subseteq Honest`)

`Honest` is every computer: timers and delays are arbitrary numbers, settings that may be absent are absent or
not, a root has any set of ancestors, and the sources that may be unreadable are those the code treats as optional (what it may
not read otherwise, section 4 lists). The computers of the run `probe` are among them. `ReadsAll` shows that a check that is done got every source
that is not unreadable, so that a verdict can be compared with the settings.

* `PassesAreEarned`, `FailuresAreDeserved`: `PassIsEarned` and `FailIsDeserved`. There is one lemma per kind of
  computer. The three screen locks share `OutcomeIsSound`: if what was read of a power profile is `Truthful` (it is
  true of the timers and the delay, and counts as complete only when nothing is missing), the verdict on the
  profile is right in both directions.
* `ReadMeansDecided`: `DecidedWhenRead`, for computers whose Windows screen saver settings exist (`SaverIsSet`: a value that is not there
  is not told apart from one that was not read, and stays unknown).
* `DetailsAreTrue`: `DetailIsTrue`. `StatedMinutes` gives the lock time a profile states; that a set of timers has a least
  one (`LeastTime`) comes from the well-foundedness of the natural numbers.

**`CopyProofs`** (extends `ProbeProofs`; the same hypothesis)

* `RowsAgree`: `RowAgrees`. A row `Speaks` for its verdict when a pass has good lines only and a failure has one that
  says what is wrong; `RowSpeaks` derives from it what the property asks of row and headline, and
  `TablesSpeak` shows it for every table of `copy.js`.
* `LockLinesTrue`: `LockLinesAreTrue`. `SaidOf` is what a line says in terms of the detail of its profile, `Expresses` what the
  detail says in terms of the facts, and `ProbeProofs` what the facts say of the computer; `Described`
  puts the three together for a row, and `LockRowIsTrue` for each platform.

**Only model-checked**: the liveness properties `QueueDrains`, `OverdueReportIsMade`, `AcquireReturns`, `AbandonedLockGoes`,
`NobodyIsTrapped`, `QueueMovesOn`, `ReportingResumes`, `ChecksEnd`, `TicksGoOn` and `PageCatchesUp`, which are out of the prover's reach.
Every other property of a passing run is stated by a theorem above. A violation needs no proof: its
counterexample is one.

## 6. Not modelled

* Cryptography, the JSON format, the decoder of property lists and the text of command outputs beyond the phrases and
  numbers the parsers look for; HTTP other than the status and whether the answer arrived.
* Two runs of the agent that overlap: what they would do to the files follows a lock failure.
* Uninstall: a disconnect behind the gate (modelled) and then the deletion of the state directory. With
  it `Desktop` has five times the states, and liveness no longer fits; its steps
  add no order of answers that the disconnect does not have.
* App updates: the page's button is a state machine of its own that shares no state with the rest. Read only:
  an update check that was pending when an installation started, and fails, clears the update found
  and renames the button (main.js:320-327 does not look at `installingUpdate` there).
* Dialogs, diagnostics and the launch screen; the delivery note and the sentences themselves.
* The legacy Windows tray and its preview page, packages, installers, the release pipeline.

The service is external: every answer it may give is allowed except where the code relies on its truth (see
Connection).

## 7. Plan

Next, in this order:

1. *Posture*: a verdict that is definite stays when further facts are read (for the screen lock on each
   platform), and pass and failure exclude each other.
2. *Lock and agent together*: two runs on the same files when the lock fails, to say
   which of `Agent`'s properties survive.
3. *Uninstall and updates* as modules of their own beside `Desktop`.
