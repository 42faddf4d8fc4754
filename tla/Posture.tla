------------------------------- MODULE Posture -------------------------------
(***************************************************************************)
(* internal/posture: what the facts a probe has read say about the         *)
(* computer.  A fact is a set: {} when it could not be read, {v} when its  *)
(* value is v.  A verdict is "pass", "unknown", or the code of a failure.  *)
(* Of the details only those of the screen lock are computed; the others   *)
(* repeat facts.                                                           *)
(***************************************************************************)
EXTENDS Integers

CONSTANTS
  LimitMinutes,   \* the longest time until a password is required (15)
  Minute,         \* the seconds of a minute
  Tolerance       \* the longest password delay that counts as immediate (5 s)

ASSUME LimitIsPositive    == LimitMinutes \in Nat \ {0} /\ Minute \in Nat \ {0}
ASSUME ToleranceIsNatural == Tolerance \in Nat

Limit == LimitMinutes * Minute

Fails(verdict) == verdict \notin {"pass", "unknown"}

\* Slip: what was not read is off.
BoolSignal_UnreadIsOff(fact, code) == IF fact = {TRUE} THEN "pass" ELSE code

\* boolSignal
BoolSignal(fact, code) ==
  IF fact = {} THEN "unknown" ELSE IF fact = {TRUE} THEN "pass" ELSE code

InTime(times) == \E t \in times : t <= Limit

EffectiveDelay(delay) == IF delay <= Tolerance THEN 0 ELSE delay

Positive(fact) == {t \in fact : t > 0}

Soonest(times) == {t \in times : \A u \in times : t <= u}

\* Slip: a partial minute is dropped.
CeilMinutes_Floor(t) == t \div Minute

\* ceilMinutes
CeilMinutes(t) == (t + Minute - 1) \div Minute

Minutes(times) == {CeilMinutes(IF t < 0 THEN 0 ELSE t) : t \in times}

\* ProfileDetail: the minutes until the display turns off and until a password is
\* required (0 for never), where they are stated, and whether the profile is in order.
ProfileDetail(display, times, ok) ==
  [display |-> Minutes(display), minutes |-> Minutes(Soonest(times)), ok |-> ok]

\* ScreenLockDetail
LockDetail(password, delay, saver, profiles) ==
  [password |-> password, delay |-> delay, saver |-> Minutes(saver), profiles |-> profiles]

NoDetail == LockDetail("absent", {}, {}, [p \in {} |-> {}])

------------------------------------------------------------------------------
\* diskSignal
Disk(state) ==
  CASE state \in {{"on"}, {"encrypting"}} -> "pass"
    [] state \in {{"off"}, {"pending_restart"}} -> "disk_encryption_disabled"
    [] state = {"decrypting"} -> "disk_encryption_decrypting"
    [] state = {"suspended"} -> "disk_encryption_suspended"
    [] OTHER -> "unknown"

------------------------------------------------------------------------------
(* macOS and Linux: f has the password setting and its delay, the screen    *)
(* saver and whether it is known, and display, the display timer of every   *)
(* power profile that was listed.  A timer of 0 never starts.               *)

\* The delay until the password is required, where it is known.
KnownDelay(f) ==
  LET given == IF f.password = "immediate" /\ f.delay = {} THEN {0} ELSE f.delay
  IN  {d \in given : d >= 0 /\ f.password \in {"immediate", "delay"}}

\* Slip: a screen saver that is not set counts as unread.
Complete_SaverSet(display, f) == display # {} /\ f.saver # {}

\* Every timer that could start sooner was read.
Complete(display, f) == display # {} /\ f.saverKnown

Idle(display, f) == Positive(display \cup f.saver)

Lock(display, f) == {t + EffectiveDelay(d) : t \in Idle(display, f), d \in KnownDelay(f)}

\* evaluateProfile
Outcome(display, f) ==
  LET idle == Idle(display, f)
      lock == Lock(display, f)
  IN  CASE f.password = "off" -> "screen_lock_password_off"
        [] f.password # "off" /\ InTime(lock) -> "pass"
        [] f.password # "off" /\ ~InTime(lock) /\ Complete(display, f) ->
             IF idle = {} THEN "screen_lock_never"
             ELSE IF lock = {} /\ InTime(idle) THEN "unknown"
             ELSE "screen_lock_timeout_too_long"
        [] OTHER -> "unknown"

\* The detail of one profile; a lock time that may be too long is not stated.
Detail(display, f) ==
  LET outcome == Outcome(display, f)
      times   == CASE outcome \in {"screen_lock_password_off", "screen_lock_never"} -> {0}
                   [] outcome = "unknown" -> {}
                   [] OTHER -> Lock(display, f)
  IN  ProfileDetail(display, times, outcome = "pass")

\* A delay that is not known makes the password setting unknown.
StatedPassword(f) ==
  IF f.password = "delay" /\ KnownDelay(f) = {} THEN "unknown" ELSE f.password

\* There is no detail when nothing at all was read.
ProfileDetails(f) ==
  IF DOMAIN f.display = {} /\ f.saver = {} /\ StatedPassword(f) = "unknown" THEN NoDetail
  ELSE LockDetail(StatedPassword(f), KnownDelay(f), f.saver,
         IF DOMAIN f.display = {} THEN [p \in {"any"} |-> Detail({}, f)]
                                  ELSE [p \in DOMAIN f.display |-> Detail(f.display[p], f)])

\* profileScreenLock: the first that occurs decides.  When no profile was listed,
\* the screen saver alone can still prove a pass.
ProfileScreenLock(f) ==
  LET listed     == {f.display[p] : p \in DOMAIN f.display}
      Seen(code) == \E d \in (IF listed = {} THEN {{}} ELSE listed) : Outcome(d, f) = code
  IN  IF Seen("screen_lock_password_off") THEN "screen_lock_password_off"
      ELSE IF Seen("screen_lock_never") THEN "screen_lock_never"
      ELSE IF Seen("screen_lock_timeout_too_long") THEN "screen_lock_timeout_too_long"
      ELSE IF Seen("unknown") THEN "unknown" ELSE "pass"

------------------------------------------------------------------------------
(* Windows: f has the inactivity limit, the screen saver's settings, the    *)
(* display timers and sign-in on wake on AC and battery, and its delay.     *)

SaverKnown(f) ==
  \/ f.configured = {FALSE}
  \/ f.configured # {} /\ f.active = {FALSE}
  \/ f.configured # {} /\ f.active = {TRUE} /\ f.secure # {} /\ f.timeout # {}

\* The inactivity limit and a secure screen saver do not depend on the profile.
Independent(f) ==
  Positive(f.inactivity)
    \cup (IF f.configured = {TRUE} /\ f.active = {TRUE} /\ f.secure = {TRUE}
            THEN Positive(f.timeout) ELSE {})

DisplayKnown(f) == {} \notin {f.displayAC, f.displayDC, f.lockAC, f.lockDC}

\* When the profile with this display timer and sign-in on wake locks.
LockTimes(f, display, onWake) ==
  LET delay == IF Positive(f.delay) = {} THEN {0} ELSE f.delay
  IN  Independent(f)
        \cup (IF onWake = {TRUE}
                THEN {t + EffectiveDelay(d) : t \in Positive(display), d \in delay}
                ELSE {})

\* The password setting and its delay: of the mechanism that decides.
WindowsPassword(f) ==
  IF InTime(Independent(f)) THEN "immediate"
  ELSE IF DisplayKnown(f) /\ {TRUE} \in {f.lockAC, f.lockDC}
         THEN IF \A d \in f.delay : EffectiveDelay(d) = 0 THEN "immediate" ELSE "delay"
  ELSE IF Independent(f) # {} THEN "immediate"
  ELSE IF DisplayKnown(f) /\ SaverKnown(f) THEN "off" ELSE "unknown"

WindowsDelay(f) ==
  IF WindowsPassword(f) \in {"off", "unknown"} THEN {}
  ELSE IF ~InTime(Independent(f)) /\ DisplayKnown(f) /\ {TRUE} \in {f.lockAC, f.lockDC}
         THEN f.delay ELSE {0}

\* windowsScreenLock
WindowsScreenLock(f) ==
  LET ac == LockTimes(f, f.displayAC, f.lockAC)
      dc == LockTimes(f, f.displayDC, f.lockDC)
  IN  IF InTime(Independent(f)) THEN "pass"
      ELSE IF ~DisplayKnown(f) THEN "unknown"
      ELSE IF InTime(ac) /\ InTime(dc) THEN "pass"
      ELSE IF ~SaverKnown(f) THEN "unknown"
      ELSE IF WindowsPassword(f) = "off" THEN "screen_lock_password_off"
      ELSE IF ac = {} \/ dc = {} THEN "screen_lock_never"
      ELSE "screen_lock_timeout_too_long"

InOrder(times) == InTime(times)

WindowsDetail(display, times) ==
  ProfileDetail(display, IF times = {} THEN {0} ELSE times, InOrder(times))

\* The screen saver is stated when it is known and on.
WindowsDetails(f) ==
  LockDetail(WindowsPassword(f), WindowsDelay(f),
    IF f.configured = {TRUE} /\ f.active = {TRUE} /\ SaverKnown(f) THEN f.timeout ELSE {},
    IF InTime(Independent(f)) \/ ~DisplayKnown(f)
      THEN [p \in {"any"} |-> ProfileDetail({}, Independent(f), InTime(Independent(f)))]
      ELSE [p \in {"ac", "battery"} |->
              IF p = "ac" THEN WindowsDetail(f.displayAC, LockTimes(f, f.displayAC, f.lockAC))
                          ELSE WindowsDetail(f.displayDC, LockTimes(f, f.displayDC, f.lockDC))])

------------------------------------------------------------------------------
\* updatesSignal: f has the settings that were read.
Updates(f, platform) ==
  LET required == {f.check, f.download}
                    \cup (IF platform = "darwin" THEN {f.responses} ELSE {})
  IN  IF {FALSE} \in required \/ f.policyDisabled = {TRUE}
        THEN "automatic_updates_disabled"
      ELSE IF f.paused = {TRUE} THEN "automatic_updates_paused"
      ELSE IF {} \in required THEN "unknown" ELSE "pass"

\* endpointSignal on macOS
Endpoint(f) ==
  IF f.gatekeeper = {FALSE} THEN "gatekeeper_disabled"
  ELSE IF f.systemData = {FALSE} THEN "definitions_updates_off"
  ELSE IF {} \in {f.gatekeeper, f.systemData} THEN "unknown" ELSE "pass"

\* windowsEndpoint
WindowsEndpoint(f) ==
  IF (f.realtime = {TRUE} /\ f.mode = {"normal"}) \/ Positive(f.others) # {}
    THEN "pass"
  ELSE IF f.realtime # {} /\ f.mode \notin {{}, {"unknown"}} /\ f.others # {}
    THEN "endpoint_protection_unavailable"
  ELSE "unknown"

=============================================================================
