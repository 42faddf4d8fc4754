-------------------------------- MODULE Copy --------------------------------
(***************************************************************************)
(* desktop/src/copy.js: what the page says about a check.  A row of the    *)
(* page is a set of lines; of a line, its tone and what it says are kept,  *)
(* as a keyword, and the power profile it is about ("" for none).  The     *)
(* lines of a lock are built from the detail in the report alone, the      *)
(* others from the facts that the detail repeats.                          *)
(***************************************************************************)
EXTENDS Probe

Line(tone, says) == [tone |-> tone, says |-> says, power |-> ""]
ProfileSays(tone, says, power) == [tone |-> tone, says |-> says, power |-> power]

Status(verdict) == IF Fails(verdict) THEN "fail" ELSE verdict

Failing(lines) == \E l \in lines : l.tone = "fail"

\* The line of a fact that is on or off; none when it was not read.
OnOff(fact, says) == {Line(IF v THEN "ok" ELSE "fail", says) : v \in fact}

------------------------------------------------------------------------------
(* The screen lock: d is the detail of one profile, lock that of the signal. *)

\* Slip: the page tolerates a longer delay than the check.
PageDelay_Longer(delay) == IF \A s \in delay : s <= Tolerance + 1 THEN 0
                           ELSE CHOOSE s \in delay : TRUE

\* effectiveDelaySeconds, the page's own rule: no delay when none is stated or it is
\* tolerated.
PageDelay(delay) == IF \A s \in delay : s <= Tolerance THEN 0
                    ELSE CHOOSE s \in delay : TRUE

\* What starts the clock: the sooner timer, the display when both start together.
Trigger(d, lock) ==
  IF Positive(d.display \cup lock.saver) = {} THEN "none"
  ELSE IF Soonest(Positive(d.display \cup lock.saver)) \subseteq d.display THEN "display"
  ELSE "saver"

\* Slip: a profile whose lock time is known is taken for one in order.
Fine_Stated(d) == d.minutes \notin {{}, {0}}

Fine(d) == d.ok

\* How to fix a profile that locks too late: that timer, or the sum of timer and delay.
TooLate(d, lock) ==
  IF Trigger(d, lock) = "none" THEN "late"
  ELSE IF PageDelay(lock.delay) > 0 THEN "total" ELSE Trigger(d, lock)

\* profileLine
ProfileLines(p, d, lock) ==
  LET off == Trigger(d, lock) = "none" /\ d.display = {0} IN
  IF lock.password = "off"
    THEN {ProfileSays("info", "display", p) : m \in d.display}
  ELSE IF Fine(d) THEN {ProfileSays("ok", "locks", p)}
  ELSE IF off THEN {ProfileSays("fail", "never", p), ProfileSays("fail", "display", p)}
  ELSE IF d.minutes = {0} THEN {ProfileSays("fail", "never", p)}
  ELSE IF \E m \in d.minutes : m > LimitMinutes
    THEN {ProfileSays("fail", TooLate(d, lock), p)}
  ELSE {ProfileSays("unknown", "unread", p)}

\* screenLockLines; without a detail the code decides.
LockLines(lock, verdict) ==
  LET lines == {Line("fail", "password_off") : x \in {lock.password} \cap {"off"}}
                 \cup (UNION {ProfileLines(p, lock.profiles[p], lock) : p \in DOMAIN lock.profiles})
                 \cup {Line("unknown", "password") : x \in {lock.password} \cap {"unknown"}}
  IN  IF lines # {} THEN lines
      ELSE CASE Status(verdict) = "fail"    -> {Line("fail", verdict)}
             [] Status(verdict) = "pass"    -> {Line("ok", "locks")}
             [] Status(verdict) = "unknown" -> {Line("unknown", "unread")}

------------------------------------------------------------------------------
\* diskLines; without a state the status decides.
DiskLines(state, verdict) ==
  IF state # {}
    THEN {Line(IF s \in {"on", "encrypting"} THEN "ok" ELSE "fail", s) : s \in state}
  ELSE IF verdict = "pass" THEN {Line("ok", "on")}
  ELSE IF verdict = "unknown" THEN {Line("unknown", "unread")} ELSE {}

\* The line of a code, when no line of the detail says what is wrong.
CodeLine(lines, verdict) ==
  IF ~Failing(lines) /\ verdict \in {"automatic_updates_disabled", "automatic_updates_paused"}
    THEN {Line("fail", verdict)} ELSE {}

OtherwiseUnread(lines, verdict) ==
  IF lines = {} /\ verdict = "unknown" THEN {Line("unknown", "unread")} ELSE {}

\* updatesLines: only what is off is named when something is.
UpdatesLines(f, platform, verdict) ==
  LET Off(fact, says) == {Line("fail", says) : v \in fact \cap {FALSE}}
      toggles == [t \in {"download", "check"}
                          \cup (IF platform = "darwin" THEN {"responses"} ELSE {}) |-> f[t]]
      off     == IF platform = "linux" THEN {}
                 ELSE (UNION {Off(toggles[t], t) : t \in DOMAIN toggles})
                        \cup {Line("fail", "paused") : v \in f.paused \cap {TRUE}}
                        \cup {Line("fail", "policy") : v \in f.policyDisabled \cap {TRUE}}
      unread  == {Line("unknown", t) : t \in {u \in DOMAIN toggles :
                    platform = "darwin" /\ verdict = "unknown" /\ toggles[u] = {}}}
      named   == off \cup unread
      lines   == IF named = {} /\ verdict = "pass" THEN {Line("ok", "on")}
                 ELSE named \cup CodeLine(named, verdict)
  IN  lines \cup OtherwiseUnread(lines, verdict)

\* endpointLines on macOS
MacEndpointLines(f, verdict) ==
  LET about  == [gatekeeper |-> f.gatekeeper, definitions |-> f.systemData]
      unread == {a \in DOMAIN about : verdict = "unknown" /\ about[a] = {}}
  IN  (UNION {OnOff(about[a], a) : a \in DOMAIN about}) \cup {Line("unknown", a) : a \in unread}

\* endpointLines on Windows
WindowsEndpointLines(f, verdict) ==
  LET lines == {Line("ok", "defender") : x \in {f.realtime} \cap
                   (IF f.mode \in {{"normal"}, {}} THEN {{TRUE}} ELSE {})}
                 \cup {Line("ok", "others") : n \in Positive(f.others)}
                 \cup (IF Fails(verdict) THEN {Line("fail", "defender")} ELSE {})
  IN  lines \cup OtherwiseUnread(lines, verdict)

\* endpointLines elsewhere
EndpointLines(verdict) ==
  {Line(IF verdict = "pass" THEN "ok" ELSE Status(verdict), "protection")}

------------------------------------------------------------------------------
\* What each row says of its signal.
Lines(w, verdict) ==
  CASE w.kind \in {"mac_lock", "gnome_lock", "windows_lock"} -> LockLines(Details(w), verdict)
    [] w.kind = "mac_updates"      -> UpdatesLines(MacUpdates(w.s), "darwin", verdict)
    [] w.kind = "windows_updates"  -> UpdatesLines(WindowsUpdates(w.s), "windows", verdict)
    [] w.kind = "apt_updates"      -> UpdatesLines(AptUpdates(w.s), "linux", verdict)
    [] w.kind = "mac_endpoint"     -> MacEndpointLines(MacEndpoint(w.s), verdict)
    [] w.kind = "windows_endpoint" -> WindowsEndpointLines(WindowsEndpointFacts(w.s), verdict)
    [] w.kind = "clamav"           -> EndpointLines(verdict)
    [] w.kind = "filevault"        -> DiskLines(Got("fdesetup", FileVault(w.s.text)), verdict)
    [] w.kind = "bitlocker"        -> DiskLines(Got("volume", BitLocker(w.s)), verdict)
    [] w.kind = "root_encryption"  -> DiskLines(RootEncryption(w.s), verdict)

\* describeSignal: no row without a line for its state, and no "ok" line standing alone
\* in a row that does not pass.
Row(w) ==
  LET verdict  == Verdict(w)
      built    == Lines(w, verdict)
      generic  == IF Fails(verdict) /\ ~Failing(built) THEN {Line("fail", "not_on")}
                  ELSE IF verdict = "unknown" /\ \A l \in built : l.tone \in {"ok", "info"}
                    THEN {Line("unknown", "not_read")} ELSE {}
      lines    == built \cup generic
      explained == \E l \in lines : l.tone \notin {"ok", "info"}
  IN  {l \in lines : verdict = "pass" \/ l.tone # "ok" \/ explained}

\* Slip: only a failure keeps the page from turning green.
Headline_NoFailure(statuses, serverFails) ==
  IF "fail" \in statuses \/ serverFails THEN "attention" ELSE "protected"

\* summarize: the tone of the page, from the statuses of the required signals.
Headline(statuses, serverFails) ==
  IF "fail" \in statuses \/ serverFails THEN "attention"
  ELSE IF statuses = {"pass"} THEN "protected" ELSE "verify"

=============================================================================
