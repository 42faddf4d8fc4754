-------------------------------- MODULE Probe --------------------------------
(***************************************************************************)
(* internal/probe: one check of one signal.  The check reads its sources   *)
(* one after the other, in the order of collect; a source that cannot be   *)
(* read (the command is missing, denied or too slow, the file is not       *)
(* readable, the output is not recognised) leaves its facts unknown.       *)
(*                                                                         *)
(* A world is the computer: kind is the platform and signal checked, s its *)
(* true settings, unreliable the sources that may not be readable.         *)
(* Settings that may be absent, and facts, are sets of at most one value.  *)
(***************************************************************************)
EXTENDS Posture, Sequences

CONSTANTS
  Worlds,   \* the computers that are checked
  Never     \* DelayLockInterval 0xFFFFFFFF: sign-in is never required

VARIABLES
  world,    \* the computer
  todo,     \* the sources still to read, in order
  got       \* the sources that were read

vars == <<world, todo, got>>

\* What collect reads for each kind of signal; a power profile's line of the
\* pmset output counts as a source of its own.  Sources that collect skips when an
\* earlier one failed are gone through all the same, and Verdict ignores them.
Sources(kind) ==
  CASE kind = "mac_lock" ->
         <<"console", "pmset", "battery", "ac", "sysadminctl", "saver", "managed">>
    [] kind = "gnome_lock"       -> <<"bus", "idle", "enabled", "delay">>
    [] kind = "windows_lock"     ->
         <<"active", "secure", "timeout", "registry", "video", "console">>
    [] kind = "mac_updates"      -> <<"schedule", "local", "managed">>
    [] kind = "windows_updates"  -> <<"com", "policy", "pause", "service">>
    [] kind = "apt_updates"      -> <<"apt">>
    [] kind = "mac_endpoint"     -> <<"spctl", "local", "managed">>
    [] kind = "windows_endpoint" -> <<"defender", "antivirus">>
    [] kind = "clamav"           -> <<"systemctl">>
    [] kind = "filevault"        -> <<"fdesetup">>
    [] kind = "bitlocker"        -> <<"volume">>
    [] kind = "root_encryption"  -> <<"findmnt", "lsblk">>

Got(source, fact) == IF source \in got THEN fact ELSE {}

\* A policy or managed value wins over the user's own.
Effective(policy, user) == IF policy # {} THEN policy ELSE user

------------------------------------------------------------------------------
(* macOS                                                                    *)

AskedAfter(delay) == IF delay = {0} THEN "immediate" ELSE "delay"

NotNegative(fact) == {t \in fact : t >= 0}

\* parsePmsetCustom: every section is a profile, with or without a display timer.
Pmset(s) == [p \in IF "pmset" \in got THEN DOMAIN s.display ELSE {} |->
               Got(p, {s.display[p]})]

\* parseSysadminctlScreenLock
Sysadminctl(s) ==
  IF "sysadminctl" \notin got THEN "unknown" ELSE IF s.asked THEN AskedAfter(s.delay) ELSE "off"

\* parseScreensaverIdle: a timer that does not exist is known.
Screensaver(s) == [seconds |-> Got("saver", s.saver), known |-> "saver" \in got]

\* macScreenLock; outside the console session nothing is read.
MacLock(s) ==
  LET managed == Got("managed", s.managed)
      idle    == NotNegative(UNION {m.idle : m \in managed})
      delay   == NotNegative(UNION {m.delay : m \in managed})
      off     == {FALSE} = UNION {m.ask : m \in managed}
  IN  [password   |-> IF off THEN "off"
                      ELSE IF delay # {} THEN AskedAfter(delay) ELSE Sysadminctl(s),
       delay      |-> IF off THEN {}
                      ELSE IF delay # {} THEN delay
                      ELSE IF s.asked THEN Got("sysadminctl", s.delay) ELSE {},
       saver      |-> Effective(idle, Screensaver(s).seconds),
       saverKnown |-> idle # {} \/ Screensaver(s).known,
       display    |-> Pmset(s)]

\* macUpdateFacts: what the two preference files say, a key they leave out is on.
\* An absent file is read as one without keys.
MacUpdates(s) ==
  LET managed  == Got("managed", s.managed)
      Stated(key) == Effective(UNION {m[key] : m \in managed}, Got("local", s.local[key]))
      On(key)  == IF "local" \notin got /\ managed = {} THEN {}
                  ELSE Effective(Stated(key), {TRUE})
      schedule == Got("schedule", s.schedule)
      check    == On("check")
  IN  [check          |-> IF schedule = {FALSE} \/ check = {} THEN schedule ELSE check,
       download       |-> On("download"),
       responses      |-> On("responses"),
       systemData     |-> On("systemData"),
       paused         |-> {},
       policyDisabled |-> {}]

\* parseGatekeeper, and the key of the update settings that covers XProtect.
MacEndpoint(s) == [gatekeeper |-> Got("spctl", {s.gatekeeper}),
                   systemData |-> MacUpdates(s).systemData]

\* parseFileVaultState: text is the set of the phrases it looks for that the output
\* contains; the first in this order decides.
FileVault(text) ==
  IF "decryption in progress" \in text THEN {"decrypting"}
  ELSE IF "encryption in progress" \in text THEN {"encrypting"}
  ELSE IF "after the next restart" \in text THEN {"pending_restart"}
  ELSE IF "filevault is on" \in text THEN {"on"}
  ELSE IF "filevault is off" \in text THEN {"off"} ELSE {}

------------------------------------------------------------------------------
(* Windows: one script reads every source; a value it could not read and    *)
(* one that is not set are both null.                                       *)

\* What powercfg prints for a setting: its bounds and step, and the current values.
Printed(setting) == <<0, 16777215, 1, setting.ac, setting.battery>>

\* parsePowercfgACDC: whatever the language, the current values are the last two numbers.
Powercfg(numbers) ==
  LET n == Len(numbers) IN
  IF n < 2 THEN [ac |-> {}, battery |-> {}]
           ELSE [ac |-> {numbers[n - 1]}, battery |-> {numbers[n]}]

\* windowsRaw.screenLock
WindowsLock(s) ==
  LET Value(name) == Got(name, Effective(s.policy[name], s.user[name]))
      away        == Got("registry", s.delay)
      display     == Powercfg(IF "video" \in got THEN Printed(s.display) ELSE <<>>)
      console     == Powercfg(IF "console" \in got THEN Printed(s.onWake) ELSE <<>>)
      OnWake(p)   == IF away = {Never} THEN {FALSE} ELSE {v # 0 : v \in console[p]}
  IN  [inactivity |-> Got("registry", s.inactivity),
       configured |-> Effective(Got("registry", Effective(s.policy.program, s.user.program)),
                                {FALSE}),
       active     |-> Value("active"),
       secure     |-> Value("secure"),
       timeout    |-> Value("timeout"),
       delay      |-> IF away = {Never} THEN {0} ELSE Effective(away, {0}),
       displayAC  |-> display.ac,
       displayDC  |-> display.battery,
       lockAC     |-> OnWake("ac"),
       lockDC     |-> OnWake("battery")]

\* windowsRaw.updates: without a policy, a level or a disabled service they are on.
WindowsUpdates(s) ==
  LET noAuto   == Got("policy", s.noAutoUpdate) = {1}
      level    == Effective(Got("policy", s.auOptions), Got("com", s.level))
      disabled == noAuto \/ Got("service", {s.startType}) = {"disabled"}
  IN  [check          |-> {~disabled /\ level # {1}},
       download       |-> {~disabled /\ level \notin {{1}, {2}}},
       paused         |-> {Got("pause", {s.paused}) = {TRUE}},
       policyDisabled |-> {disabled}]

\* avEnabled and avUpToDate: two hexadecimal digits of the product's state.
AvEnabled(state)  == (state \div 4096) % 16 = 1
AvUpToDate(state) == (state \div 16) % 16 = 0

\* windowsRaw.endpoint: other products count when they are on and up to date.
Healthy(products) ==
  {p \in products : ~p.defender /\ AvEnabled(p.state) /\ AvUpToDate(p.state)}

WindowsEndpointFacts(s) ==
  [realtime |-> Got("defender", {s.realtime /\ s.enabled}),
   mode     |-> Got("defender", {s.mode}),
   others   |-> Got("antivirus", {IF Healthy(s.products) = {} THEN 0 ELSE 1})]

\* windowsRaw.disk
BitLocker(s) ==
  CASE s.volume = "encrypted"  ->
         IF s.protection = "on" THEN {"on"}
         ELSE IF s.protection = "off" THEN {"suspended"} ELSE {}
    [] s.volume = "paused"     -> {"suspended"}
    [] s.volume = "decrypted"  -> {"off"}
    [] OTHER                   -> {s.volume}

------------------------------------------------------------------------------
(* Linux                                                                    *)

\* Slip: a lock delay that was not read counts as none.
GnomePassword_Assumed(s) ==
  IF "enabled" \notin got THEN "unknown"
  ELSE IF ~s.enabled THEN "off"
  ELSE IF "delay" \notin got THEN "immediate" ELSE AskedAfter({s.delay})

GnomePassword(s) ==
  IF "enabled" \notin got THEN "unknown"
  ELSE IF ~s.enabled THEN "off"
  ELSE IF "delay" \notin got THEN "unknown" ELSE AskedAfter({s.delay})

\* gnomeScreenLock returns nothing when neither of these was read.
GnomeIsRead == "bus" \in got /\ {"idle", "enabled"} \cap got # {}

\* gnomeScreenLock: one profile, and no screen saver apart from it.
GnomeLock(s) ==
  [password   |-> GnomePassword(s),
   delay      |-> IF s.enabled THEN Got("delay", {s.delay}) ELSE {},
   saver      |-> {},
   saverKnown |-> TRUE,
   display    |-> [p \in {"any"} |-> Got("idle", {s.idle})]]

\* parseAptPeriodic: a key that is absent is off.
AptUpdates(s) == [check |-> Got("apt", {s.check = {TRUE}}),
                  download |-> Got("apt", {s.download = {TRUE}}),
                  paused |-> {}, policyDisabled |-> {}]

\* rootEncryption: only a device can be asked for its ancestors (lsblk -s), of which
\* one must be encrypted.
RootEncryption(s) ==
  IF ~({"findmnt", "lsblk"} \subseteq got) \/ ~s.isDevice \/ s.ancestors = {} THEN {}
  ELSE {IF "crypt" \in s.ancestors THEN "on" ELSE "off"}

\* antimalwareActive: systemctl is-active fails for a daemon that does not run.
ClamAV(s) == IF s.active THEN {TRUE} ELSE {}

------------------------------------------------------------------------------
(* collect and Evaluate                                                     *)

\* The signal in the report.
Verdict(w) ==
  CASE w.kind = "mac_lock" ->
         IF "console" \in got THEN ProfileScreenLock(MacLock(w.s)) ELSE "unknown"
    [] w.kind = "gnome_lock" ->
         IF GnomeIsRead THEN ProfileScreenLock(GnomeLock(w.s)) ELSE "unknown"
    [] w.kind = "windows_lock"     -> WindowsScreenLock(WindowsLock(w.s))
    [] w.kind = "mac_updates"      -> Updates(MacUpdates(w.s), "darwin")
    [] w.kind = "windows_updates"  -> Updates(WindowsUpdates(w.s), "windows")
    [] w.kind = "apt_updates"      -> Updates(AptUpdates(w.s), "linux")
    [] w.kind = "mac_endpoint"     -> Endpoint(MacEndpoint(w.s))
    [] w.kind = "windows_endpoint" -> WindowsEndpoint(WindowsEndpointFacts(w.s))
    [] w.kind = "clamav" ->
         BoolSignal(Got("systemctl", ClamAV(w.s)), "endpoint_protection_unavailable")
    [] w.kind = "filevault"        -> Disk(Got("fdesetup", FileVault(w.s.text)))
    [] w.kind = "bitlocker"        -> Disk(Got("volume", BitLocker(w.s)))
    [] w.kind = "root_encryption"  -> Disk(RootEncryption(w.s))

\* The detail of the screen lock in the report.
Details(w) ==
  CASE w.kind = "mac_lock" /\ "console" \in got -> ProfileDetails(MacLock(w.s))
    [] w.kind = "gnome_lock" /\ GnomeIsRead      -> ProfileDetails(GnomeLock(w.s))
    [] w.kind = "windows_lock"                   -> WindowsDetails(WindowsLock(w.s))
    [] OTHER                                     -> NoDetail

Init ==
  /\ world \in Worlds
  /\ todo = Sources(world.kind)
  /\ got = {}

Read ==
  /\ todo # <<>>
  /\ got' = got \cup {Head(todo)}
  /\ todo' = Tail(todo)
  /\ UNCHANGED world

ReadFails ==
  /\ todo # <<>>
  /\ Head(todo) \in world.unreliable
  /\ todo' = Tail(todo)
  /\ UNCHANGED <<world, got>>

Next == Read \/ ReadFails

Spec == Init /\ [][Next]_vars

=============================================================================
