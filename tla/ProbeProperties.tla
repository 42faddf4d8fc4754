--------------------------- MODULE ProbeProperties ---------------------------
(***************************************************************************)
(* What a verdict promises about the computer, and what a setting in force *)
(* is: stated from the documents and the platforms, not from the code.     *)
(***************************************************************************)
EXTENDS Probe

Done == todo = <<>>

\* When a lock is there, for timers ts and password delays ds.
Locked(ts, ds) == {t + (IF d > Tolerance THEN d ELSE 0) : t \in {u \in ts : u > 0}, d \in ds}

\* SPEC.md:115: "an MDM profile in /Library/Managed Preferences which wins".  Each setting
\* it has is in force instead of the user's own, and it forces no other.
ManagedIdle(s)  == UNION {m.idle : m \in s.managed}
ManagedAsk(s)   == UNION {m.ask : m \in s.managed}
ManagedDelay(s) == UNION {m.delay : m \in s.managed}

MacTimes(s, p) ==
  LET asked == IF ManagedAsk(s) = {} THEN s.asked ELSE ManagedAsk(s) = {TRUE}
      saver == IF ManagedIdle(s) = {} THEN s.saver ELSE ManagedIdle(s)
      delay == IF ManagedDelay(s) = {} THEN s.delay ELSE ManagedDelay(s)
  IN  IF asked THEN Locked({s.display[p]} \cup saver, delay) ELSE {}

\* Where the user's own setting does not ask for a password, the profile forbids it, or
\* sets both that it is asked for and when, or neither.  The code goes by the delay alone.
ProfileIsWhole(s) ==
  s.asked \/ ManagedAsk(s) = {FALSE} \/ (ManagedAsk(s) = {TRUE} <=> ManagedDelay(s) # {})

\* The value of a Windows screen-saver setting: a policy overrides the user's key.
InForce(s, name) == IF s.policy[name] = {} THEN s.user[name] ELSE s.policy[name]

\* On Windows any of three mechanisms locks.
WindowsTimes(s, p) ==
  LET saver == {t \in InForce(s, "timeout") :
                  \A n \in {"program", "active", "secure"} : InForce(s, n) = {TRUE}}
      delay == IF s.delay = {} THEN {0} ELSE s.delay \ {Never}
  IN  Locked(s.inactivity \cup saver, {0})
        \cup (IF s.onWake[p] = 1 THEN Locked({s.display[p]}, delay) ELSE {})

\* The power profiles of the computer, and when its screen locks under each.
Profiles(w) == IF w.kind = "gnome_lock" THEN {"any"} ELSE DOMAIN w.s.display

TrueTimes(w, p) ==
  CASE w.kind = "mac_lock"     -> MacTimes(w.s, p)
    [] w.kind = "gnome_lock"   -> IF w.s.enabled THEN Locked({w.s.idle}, {w.s.delay}) ELSE {}
    [] w.kind = "windows_lock" -> WindowsTimes(w.s, p)

LocksInTime(w) == \A p \in Profiles(w) : \E t \in TrueTimes(w, p) : t <= Limit

\* A macOS update setting is on unless a preference file turns it off.
MacOn(s, key) ==
  LET managed == UNION {m[key] : m \in s.managed}
  IN  IF managed = {} THEN FALSE \notin s.local[key] ELSE FALSE \notin managed

\* Windows updates itself unless a policy, the service or a pause stops it.
WindowsUpdatesOK(s) ==
  /\ s.noAutoUpdate # {1}
  /\ s.startType # "disabled" /\ ~s.paused
  /\ {1, 2} \cap (IF s.auOptions = {} THEN s.level ELSE s.auOptions) = {}

\* The product states that mean on and up to date (0x61000; 0x62000 is snoozed,
\* 0x61010 is out of date, 0x60000 is off).
HealthyStates == {397312}

\* The computer meets the rule of SPEC.md for the signal.
Compliant(w) ==
  LET s == w.s IN
  CASE w.kind \in {"mac_lock", "gnome_lock", "windows_lock"} -> LocksInTime(w)
    [] w.kind = "mac_updates"      ->
         s.schedule = {TRUE} /\ \A k \in {"check", "download", "responses"} : MacOn(s, k)
    [] w.kind = "windows_updates"  -> WindowsUpdatesOK(s)
    [] w.kind = "apt_updates"      -> s.check = {TRUE} /\ s.download = {TRUE}
    [] w.kind = "mac_endpoint"     -> s.gatekeeper /\ MacOn(s, "systemData")
    [] w.kind = "windows_endpoint" ->
         \/ s.realtime /\ s.enabled /\ s.mode = "normal"
         \/ \E p \in s.products : ~p.defender /\ p.state \in HealthyStates
    [] w.kind = "clamav"           -> s.active
    [] w.kind = "filevault"        ->
         "filevault is on" \in s.text /\ "decryption in progress" \notin s.text
    [] w.kind = "bitlocker"        ->
         s.volume = "encrypting" \/ (s.volume = "encrypted" /\ s.protection = "on")
    [] w.kind = "root_encryption"  -> "crypt" \in s.ancestors

\* A pass is true of the computer, whichever of the sources that may be unreadable could
\* not be read (darwin_parse.go:14-16: no helper guesses a pass; windows_parse.go:18-19:
\* a value that is not there is unknown).
PassIsEarned == Done /\ Verdict(world) = "pass" => Compliant(world)

\* A failure is true of the computer: a setting that was not read is never taken
\* for a bad one (SPEC.md:116-147).
FailIsDeserved == Done /\ Fails(Verdict(world)) => ~Compliant(world)

\* The settings that decide about the screen saver exist.
SaverIsSet(s) == \A name \in {"program", "active", "secure", "timeout"} : InForce(s, name) # {}

\* What the platform itself does not know, or has no key for, may stay unknown.
Decidable(w) ==
  CASE w.kind = "clamav"          -> w.s.active
    [] w.kind = "root_encryption" -> w.s.isDevice
    [] w.kind = "bitlocker"       -> w.s.volume = "encrypted" => w.s.protection # "unknown"
    [] w.kind = "windows_lock"    -> SaverIsSet(w.s)
    [] OTHER                      -> TRUE

\* When every source was read and every setting it depends on exists, the verdict is
\* definite (posture.go:533-551, :648-660).
DecidedWhenRead ==
  (Done /\ Decidable(world)
        /\ got = {Sources(world.kind)[i] : i \in DOMAIN Sources(world.kind)})
    => Verdict(world) # "unknown"

\* "A missing key is unknown, never false" (SPEC.md:116): when no program for the screen
\* saver is set, a failure must be one for every value of that key.
MissingKeyIsUnknown ==
  Done /\ world.kind = "windows_lock" /\ Fails(Verdict(world))
       /\ InForce(world.s, "program") = {} =>
    \A set \in BOOLEAN : ~LocksInTime([world EXCEPT !.s.user.program = {set}])

\* The lock time that a report states is never shorter than the real one, and it says
\* "never" only of a screen that never locks, unless the verdict is left open
\* (posture.go:415-416).  The profiles are in order when the signal passes and only then,
\* and each is in order when its stated time is within the limit.
DetailIsTrue ==
  Done => LET stated == Details(world).profiles IN
    /\ \A p \in DOMAIN stated : \A m \in stated[p].minutes :
         \A q \in IF p = "any" THEN Profiles(world) ELSE {p} :
           /\ m > 0 => \E t \in TrueTimes(world, q) : t <= m * Minute
           /\ m = 0 /\ Verdict(world) # "unknown" => TrueTimes(world, q) = {}
    /\ DOMAIN stated # {} => (Verdict(world) = "pass" <=> \A p \in DOMAIN stated : stated[p].ok)
    /\ \A p \in DOMAIN stated : stated[p].ok <=> \E m \in stated[p].minutes : m \in 1..LimitMinutes

=============================================================================
