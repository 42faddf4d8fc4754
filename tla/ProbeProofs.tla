----------------------------- MODULE ProbeProofs -----------------------------
(***************************************************************************)
(* Probe for every time limit and every computer: timers, delays and       *)
(* policies of any length and in any combination, except the managed       *)
(* profiles and the unreadable sources whose absence the code takes for a  *)
(* setting: Honest names what is left.                                     *)
(***************************************************************************)
EXTENDS ProbeProperties, WellFoundedInduction, TLAPS

Optional(S) == {{}} \cup {{v} : v \in S}

Computer(kind, settings, unreliable) ==
  [kind : {kind}, s : settings, unreliable : SUBSET unreliable]

------------------------------------------------------------------------------
(* The computers.                                                           *)

MacLocks ==
  [display : UNION {[P -> Nat] : P \in {{"ac"}, {"battery"}, {"ac", "battery"}}},
   saver   : Optional(Nat),
   asked   : BOOLEAN,
   delay   : {{d} : d \in Nat},
   managed : Optional([idle : Optional(Nat), ask : Optional(BOOLEAN), delay : Optional(Nat)])]

GnomeLocks == [enabled : BOOLEAN, idle : Nat, delay : Nat]

Savers == [program : Optional(BOOLEAN), active : Optional(BOOLEAN), secure : Optional(BOOLEAN),
           timeout : Optional(Nat)]

WindowsLocks ==
  [policy : Savers, user : Savers, inactivity : Optional(Nat),
   delay : Optional(Nat \cup {Never}),
   display : [ac : Nat, battery : Nat], onWake : [ac : {0, 1}, battery : {0, 1}]]

UpdateKeys == [check : Optional(BOOLEAN), download : Optional(BOOLEAN),
               responses : Optional(BOOLEAN), systemData : Optional(BOOLEAN)]

\* The schedule command reports the setting the files state.
MacUpdateSettings ==
  {s \in [local : UpdateKeys, schedule : {{TRUE}, {FALSE}}, managed : Optional(UpdateKeys)] :
     s.schedule = {MacOn(s, "check")}}

MacEndpoints ==
  [local : UpdateKeys, managed : Optional(UpdateKeys), schedule : {{TRUE}, {FALSE}},
   gatekeeper : BOOLEAN]

WindowsUpdateSettings ==
  [noAutoUpdate : Optional({0, 1}), auOptions : Optional(Nat), level : Optional(Nat),
   paused : BOOLEAN, startType : {"manual", "disabled"}]

Products == [defender : BOOLEAN, state : {397312, 401408, 397328, 393216}]

WindowsEndpoints ==
  [realtime : BOOLEAN, enabled : BOOLEAN, mode : {"normal", "passive", "edr_block", "off"},
   products : SUBSET Products]

FileVaultTexts ==
  {{"filevault is on"}, {"filevault is off"}, {"filevault is off", "after the next restart"},
   {"filevault is on", "encryption in progress"},
   {"filevault is on", "encryption in progress", "decryption in progress"},
   {"filevault is off", "encryption in progress", "decryption in progress"}}

Volumes == {"encrypted", "encrypting", "paused", "decrypting", "decrypted"}

\* Each kind of computer, with the sources that may be unreadable.  Not among them are
\* managed files, the local Software Update preferences beside managed ones, the registry
\* values of the Windows screen lock other than the saver's, and every source of Windows
\* Update: the code takes each of these for a setting when it cannot be read.
MacLocked == Computer("mac_lock", {s \in MacLocks : ProfileIsWhole(s)},
                      {"console", "pmset", "battery", "ac", "sysadminctl", "saver"})
Gnomes == Computer("gnome_lock", GnomeLocks, {"bus", "idle", "enabled", "delay"})
WindowsLocked == Computer("windows_lock", WindowsLocks,
                          {"active", "secure", "timeout", "video", "console"})
Macs == Computer("mac_updates", MacUpdateSettings, {"schedule"})
          \cup Computer("mac_updates", {s \in MacUpdateSettings : s.managed = {}},
                        {"schedule", "local"})
WindowsMachines == Computer("windows_updates", WindowsUpdateSettings, {})
Apts == Computer("apt_updates", [check : Optional(BOOLEAN), download : Optional(BOOLEAN)], {"apt"})
Gatekeepers == Computer("mac_endpoint", MacEndpoints, {"spctl"})
                 \cup Computer("mac_endpoint", {s \in MacEndpoints : s.managed = {}},
                               {"spctl", "local"})
Antiviruses == Computer("windows_endpoint", WindowsEndpoints, {"defender", "antivirus"})
ClamAVs == Computer("clamav", [active : BOOLEAN], {"systemctl"})
FileVaults == Computer("filevault", [text : FileVaultTexts], {"fdesetup"})
BitLockers == Computer("bitlocker", [protection : {"on", "off", "unknown"}, volume : Volumes], {"volume"})
Roots == Computer("root_encryption", [isDevice : BOOLEAN, ancestors : (SUBSET STRING) \ {{}}],
                  {"findmnt", "lsblk"})

\* The computers of which the code keeps its promises.
Honest ==
  UNION {MacLocked, Gnomes, WindowsLocked, Macs, WindowsMachines, Apts, Gatekeepers,
         Antiviruses, ClamAVs, FileVaults, BitLockers, Roots}

------------------------------------------------------------------------------
(* The check reads what it can.                                             *)

Names(sources) == {sources[i] : i \in DOMAIN sources}

\* A source that can be read has been read, or is still to come.
ReadsAll ==
  /\ world \in Worlds /\ todo \in Seq(Names(Sources(world.kind)))
  /\ Names(Sources(world.kind)) \subseteq got \cup world.unreliable \cup Names(todo)

\* What a check that is done has read of the computer w.
ReadAllOf(w) == Names(Sources(w.kind)) \subseteq got \cup w.unreliable

Kinds == {"mac_lock", "gnome_lock", "windows_lock", "mac_updates", "windows_updates",
          "apt_updates", "mac_endpoint", "windows_endpoint", "clamav", "filevault",
          "bitlocker", "root_encryption"}

\* The sources of a kind of check.
Reads(kind, names) == Sources(kind) \in Seq(names) /\ Names(Sources(kind)) = names

\* What each kind of check reads.
LEMMA NamesOfSources ==
  /\ Reads("mac_lock", {"console", "pmset", "battery", "ac", "sysadminctl", "saver", "managed"})
  /\ Reads("gnome_lock", {"bus", "idle", "enabled", "delay"})
  /\ Reads("windows_lock", {"active", "secure", "timeout", "registry", "video", "console"})
  /\ Reads("mac_updates", {"schedule", "local", "managed"})
  /\ Reads("windows_updates", {"com", "policy", "pause", "service"})
  /\ Reads("apt_updates", {"apt"})
  /\ Reads("mac_endpoint", {"spctl", "local", "managed"})
  /\ Reads("windows_endpoint", {"defender", "antivirus"})
  /\ Reads("clamav", {"systemctl"})
  /\ Reads("filevault", {"fdesetup"})
  /\ Reads("bitlocker", {"volume"})
  /\ Reads("root_encryption", {"findmnt", "lsblk"})
  BY DEF Reads, Names, Sources

\* A check goes through all its sources, and skips only those that could not be read.
LEMMA ChecksReadAll ==
  ASSUME Worlds \subseteq Honest
  PROVE  Spec => []ReadsAll
<1>1. \A w \in Honest : w.kind \in Kinds
  BY DEF Honest, Computer, Kinds, MacLocked, Gnomes, WindowsLocked, Macs, WindowsMachines, Apts,
         Gatekeepers, Antiviruses, ClamAVs, FileVaults, BitLockers, Roots
<1>2. Init => ReadsAll
  <2> SUFFICES ASSUME Init  PROVE ReadsAll
    OBVIOUS
  <2>1. world \in Worlds /\ todo = Sources(world.kind) /\ world.kind \in Kinds
    BY <1>1 DEF Init
  <2> QED
    BY <2>1, NamesOfSources DEF ReadsAll, Reads, Kinds
<1>3. ReadsAll /\ [Next]_vars => ReadsAll'
  <2> SUFFICES ASSUME ReadsAll, [Next]_vars  PROVE ReadsAll'
    OBVIOUS
  <2>1. CASE UNCHANGED vars
    BY <2>1 DEF ReadsAll, vars, Names
  <2>2. CASE Read \/ ReadFails
    <3>1. /\ todo # <<>> /\ todo' = Tail(todo) /\ world' = world
          /\ todo \in Seq(Names(Sources(world.kind)))
          /\ got \cup {Head(todo)} \subseteq got' \cup world.unreliable
      BY <2>2 DEF Read, ReadFails, ReadsAll
    <3>2. /\ Tail(todo) \in Seq(Names(Sources(world.kind)))
          /\ Names(todo) \subseteq {Head(todo)} \cup Names(Tail(todo))
      <4>1. /\ Len(todo) \in Nat \ {0} /\ Head(todo) = todo[1]
            /\ Tail(todo) \in Seq(Names(Sources(world.kind)))
            /\ Len(Tail(todo)) = Len(todo) - 1
            /\ \A i \in 1..(Len(todo) - 1) : Tail(todo)[i] = todo[i + 1]
        BY <3>1
      <4>2. ASSUME NEW i \in 1..Len(todo), i # 1
            PROVE  todo[i] \in Names(Tail(todo))
        <5>1. i - 1 \in 1..(Len(todo) - 1) /\ todo[i] = Tail(todo)[i - 1]
          BY <4>1, <4>2
        <5>2. i - 1 \in DOMAIN Tail(todo)
          BY <4>1, <5>1
        <5> QED
          BY <5>1, <5>2 DEF Names
      <4> QED
        BY <3>1, <4>1, <4>2 DEF Names
    <3>3. Names(Sources(world.kind)) \subseteq got' \cup world.unreliable \cup Names(Tail(todo))
      BY <3>1, <3>2 DEF ReadsAll
    <3> QED
      BY <3>1, <3>2, <3>3 DEF ReadsAll, Names
  <2> QED
    BY <2>1, <2>2 DEF Next
<1> QED
  BY <1>2, <1>3, PTL DEF Spec

------------------------------------------------------------------------------
(* What each check says of the computer is true.                            *)

\* A pass is of a computer that meets the rule, a failure of one that does not.
Sound(w) ==
  /\ Verdict(w) = "pass" => Compliant(w)
  /\ Fails(Verdict(w)) => ~Compliant(w)

\* systemctl tells of a daemon that runs; one that does not stays unknown.
LEMMA ClamAVIsSound ==
  ASSUME NEW w \in ClamAVs  PROVE Sound(w)
<1>1. w.kind = "clamav" /\ w.s.active \in BOOLEAN
  BY DEF ClamAVs, Computer
<1>2. /\ Verdict(w) = BoolSignal(Got("systemctl", ClamAV(w.s)), "endpoint_protection_unavailable")
      /\ Compliant(w) <=> w.s.active
  BY <1>1 DEF Verdict, Compliant
<1> QED
  BY <1>1, <1>2 DEF Sound, Fails, BoolSignal, Got, ClamAV

\* A key that the apt configuration leaves out is off.
LEMMA AptIsSound ==
  ASSUME NEW w \in Apts  PROVE Sound(w)
<1>1. w.kind = "apt_updates"
  BY DEF Apts, Computer
<1>2. /\ Verdict(w) = Updates(AptUpdates(w.s), "linux")
      /\ Compliant(w) <=> w.s.check = {TRUE} /\ w.s.download = {TRUE}
  BY <1>1 DEF Verdict, Compliant
<1> QED
  BY <1>2 DEF Sound, Fails, Updates, AptUpdates, Got

\* The phrases of the fdesetup output are looked for in the right order.
LEMMA FileVaultIsSound ==
  ASSUME NEW w \in FileVaults  PROVE Sound(w)
<1>1. w.kind = "filevault" /\ w.s.text \in FileVaultTexts
  BY DEF FileVaults, Computer
<1>2. /\ Verdict(w) = Disk(Got("fdesetup", FileVault(w.s.text)))
      /\ Compliant(w) <=>
           "filevault is on" \in w.s.text /\ "decryption in progress" \notin w.s.text
  BY <1>1 DEF Verdict, Compliant
<1>3. ASSUME "fdesetup" \notin got  PROVE Verdict(w) = "unknown"
  BY <1>2, <1>3 DEF Disk, Got
<1>4. FileVault(w.s.text) \in {{"on"}, {"encrypting"}} <=> Compliant(w)
  BY <1>1, <1>2 DEF FileVault, FileVaultTexts
<1>5. FileVault(w.s.text) \in {{"on"}, {"off"}, {"encrypting"}, {"decrypting"}, {"pending_restart"}}
  BY <1>1 DEF FileVault, FileVaultTexts
<1> QED
  BY <1>2, <1>3, <1>4, <1>5 DEF Sound, Fails, Disk, Got

\* Every state of a volume is told apart, and an encrypted one is asked for protection.
LEMMA BitLockerIsSound ==
  ASSUME NEW w \in BitLockers  PROVE Sound(w)
<1>1. w.kind = "bitlocker" /\ w.s.volume \in Volumes /\ w.s.protection \in {"on", "off", "unknown"}
  BY DEF BitLockers, Computer
<1>2. /\ Verdict(w) = Disk(Got("volume", BitLocker(w.s)))
      /\ Compliant(w) <=>
           w.s.volume = "encrypting" \/ (w.s.volume = "encrypted" /\ w.s.protection = "on")
  BY <1>1 DEF Verdict, Compliant
<1>3. ASSUME "volume" \notin got  PROVE Verdict(w) = "unknown"
  BY <1>2, <1>3 DEF Disk, Got
<1>4. BitLocker(w.s) \in {{"on"}, {"encrypting"}} <=> Compliant(w)
  BY <1>1, <1>2 DEF BitLocker, Volumes
<1>5. BitLocker(w.s) \in {{}, {"on"}, {"off"}, {"encrypting"}, {"decrypting"}, {"suspended"}}
  BY <1>1 DEF BitLocker, Volumes
<1> QED
  BY <1>2, <1>3, <1>4, <1>5 DEF Sound, Fails, Disk, Got

\* A root is encrypted when one of the devices under it is.
LEMMA RootIsSound ==
  ASSUME NEW w \in Roots  PROVE Sound(w)
<1>1. w.kind = "root_encryption"
  BY DEF Roots, Computer
<1>2. /\ Verdict(w) = Disk(RootEncryption(w.s))
      /\ Compliant(w) <=> "crypt" \in w.s.ancestors
  BY <1>1 DEF Verdict, Compliant
<1> QED
  BY <1>2 DEF Sound, Fails, Disk, RootEncryption

\* Two digits of a product's state tell a healthy product from the others.
LEMMA HealthyProducts ==
  ASSUME NEW products \in SUBSET Products
  PROVE  Healthy(products) # {} <=> \E p \in products : ~p.defender /\ p.state \in HealthyStates
<1>1. \A state \in {397312, 401408, 397328, 393216} :
         AvEnabled(state) /\ AvUpToDate(state) <=> state = 397312
  BY DEF AvEnabled, AvUpToDate
<1>2. \A p \in products : p.state \in {397312, 401408, 397328, 393216}
  BY DEF Products
<1> QED
  BY <1>1, <1>2 DEF Healthy, HealthyStates

\* Defender counts in its normal mode, another product when it is on and up to date.
LEMMA AntivirusIsSound ==
  ASSUME NEW w \in Antiviruses  PROVE Sound(w)
<1>1. /\ w.kind = "windows_endpoint" /\ w.s.products \in SUBSET Products
      /\ w.s.realtime \in BOOLEAN /\ w.s.enabled \in BOOLEAN
      /\ w.s.mode \in {"normal", "passive", "edr_block", "off"}
  BY DEF Antiviruses, Computer, WindowsEndpoints
<1>2. /\ Verdict(w) = WindowsEndpoint(WindowsEndpointFacts(w.s))
      /\ Compliant(w) <=> \/ w.s.realtime /\ w.s.enabled /\ w.s.mode = "normal"
                          \/ Healthy(w.s.products) # {}
  BY <1>1, HealthyProducts DEF Verdict, Compliant
<1>3. Positive(WindowsEndpointFacts(w.s).others) # {} <=>
        "antivirus" \in got /\ Healthy(w.s.products) # {}
  BY DEF WindowsEndpointFacts, Positive, Got
<1> QED
  BY <1>1, <1>2, <1>3 DEF Sound, Fails, WindowsEndpoint, WindowsEndpointFacts, Got

\* Without a policy, a level or a disabled service, Windows updates itself.
LEMMA WindowsUpdatesAreSound ==
  ASSUME NEW w \in WindowsMachines, ReadAllOf(w)  PROVE Sound(w)
<1>1. /\ w.kind = "windows_updates" /\ w.s \in WindowsUpdateSettings
      /\ {"com", "policy", "pause", "service"} \subseteq got
  BY NamesOfSources DEF WindowsMachines, Computer, ReadAllOf, Reads
<1>2. /\ Verdict(w) = Updates(WindowsUpdates(w.s), "windows")
      /\ Compliant(w) <=> WindowsUpdatesOK(w.s)
  BY <1>1 DEF Verdict, Compliant
<1> DEFINE level == Effective(w.s.auOptions, w.s.level)
           off   == w.s.noAutoUpdate = {1} \/ w.s.startType = "disabled"
<1>3. /\ WindowsUpdates(w.s).check = {~off /\ level # {1}}
      /\ WindowsUpdates(w.s).download = {~off /\ level \notin {{1}, {2}}}
      /\ WindowsUpdates(w.s).paused = {w.s.paused}
      /\ WindowsUpdates(w.s).policyDisabled = {off}
  BY <1>1 DEF WindowsUpdates, WindowsUpdateSettings, Got
<1>4. level \in Optional(Nat)
  BY <1>1 DEF WindowsUpdateSettings, Effective
<1>5. WindowsUpdatesOK(w.s) <=> ~off /\ ~w.s.paused /\ {1, 2} \cap level = {}
  BY DEF WindowsUpdatesOK, Effective
<1>6. {1, 2} \cap level = {} <=> level \notin {{1}, {2}}
  BY <1>4 DEF Optional
<1>7. w.s.paused \in BOOLEAN
  BY <1>1 DEF WindowsUpdateSettings
<1> HIDE DEF level, off
<1>8. Updates(WindowsUpdates(w.s), "windows") =
        IF off \/ level \in {{1}, {2}} THEN "automatic_updates_disabled"
        ELSE IF w.s.paused THEN "automatic_updates_paused" ELSE "pass"
  BY <1>3, <1>7 DEF Updates
<1> QED
  BY <1>2, <1>5, <1>6, <1>8 DEF Sound, Fails

\* What the two preference files state of a key, once they are read.
LEMMA StatedSettings ==
  ASSUME NEW s, s.managed \in Optional(UpdateKeys), s.local \in UpdateKeys,
         NEW key \in {"check", "download", "responses", "systemData"},
         NEW stated, stated = Effective(UNION {m[key] : m \in s.managed}, s.local[key])
  PROVE  Effective(stated, {TRUE}) = {MacOn(s, key)}
<1>1. s.local[key] \in Optional(BOOLEAN) /\ \A m \in s.managed : m[key] \in Optional(BOOLEAN)
  BY DEF UpdateKeys, Optional
<1>2. UNION {m[key] : m \in s.managed} \in Optional(BOOLEAN)
  <2>1. CASE s.managed = {}
    BY <2>1 DEF Optional
  <2>2. CASE \E m \in UpdateKeys : s.managed = {m}
    <3>1. PICK m \in UpdateKeys : s.managed = {m}
      BY <2>2
    <3>2. UNION {n[key] : n \in s.managed} = m[key]
      BY <3>1
    <3> QED
      BY <1>1, <3>1, <3>2
  <2> QED
    BY <2>1, <2>2 DEF Optional
<1> DEFINE managed == UNION {m[key] : m \in s.managed}
<1>3. MacOn(s, key) \in BOOLEAN
  BY DEF MacOn
<1>4. MacOn(s, key) = (IF managed = {} THEN FALSE \notin s.local[key] ELSE FALSE \notin managed)
  BY DEF MacOn
<1> HIDE DEF managed
<1> QED
  BY <1>1, <1>2, <1>3, <1>4 DEF Effective, Optional, managed

\* What the check takes a key to be.
LEMMA SettingsAreRead ==
  ASSUME NEW s, s.managed \in Optional(UpdateKeys), s.local \in UpdateKeys, "managed" \in got
  PROVE  /\ "local" \in got =>
              /\ MacUpdates(s).download = {MacOn(s, "download")}
              /\ MacUpdates(s).responses = {MacOn(s, "responses")}
              /\ MacUpdates(s).systemData = {MacOn(s, "systemData")}
              /\ MacUpdates(s).check = IF Got("schedule", s.schedule) = {FALSE}
                                       THEN {FALSE} ELSE {MacOn(s, "check")}
         /\ "local" \notin got /\ s.managed = {} =>
              /\ MacUpdates(s).download = {}
              /\ MacUpdates(s).check = Got("schedule", s.schedule)
<1> DEFINE Stated(key) == Effective(UNION {m[key] : m \in s.managed}, s.local[key])
<1>1. ASSUME NEW key \in {"check", "download", "responses", "systemData"}
      PROVE  Effective(Stated(key), {TRUE}) = {MacOn(s, key)}
  BY StatedSettings
<1>2. CASE "local" \in got
  <2>1. Got("managed", s.managed) = s.managed /\ \A key : Got("local", s.local[key]) = s.local[key]
    BY <1>2 DEF Got
  <2>2. /\ MacUpdates(s).download = Effective(Stated("download"), {TRUE})
        /\ MacUpdates(s).responses = Effective(Stated("responses"), {TRUE})
        /\ MacUpdates(s).systemData = Effective(Stated("systemData"), {TRUE})
    BY <1>2, <2>1 DEF MacUpdates
  <2>3. MacUpdates(s).check =
          IF Got("schedule", s.schedule) = {FALSE} \/ Effective(Stated("check"), {TRUE}) = {}
          THEN Got("schedule", s.schedule) ELSE Effective(Stated("check"), {TRUE})
    BY <1>2, <2>1 DEF MacUpdates
  <2> HIDE DEF Stated
  <2> QED
    BY <1>1, <1>2, <2>2, <2>3
<1>3. CASE "local" \notin got
  BY <1>3 DEF MacUpdates, Got
<1> QED
  BY <1>2, <1>3

\* A profile wins over the file, and a file that may be missing is not guessed.
LEMMA MacUpdatesAreSound ==
  ASSUME NEW w \in Macs, ReadAllOf(w)  PROVE Sound(w)
<1>1. /\ w.kind = "mac_updates" /\ w.s \in MacUpdateSettings
      /\ "managed" \in got /\ ("local" \in got \/ w.s.managed = {})
  BY NamesOfSources DEF Macs, Computer, ReadAllOf, Reads
<1>2. /\ w.s.managed \in Optional(UpdateKeys) /\ w.s.local \in UpdateKeys
      /\ w.s.schedule = {MacOn(w.s, "check")}
  BY <1>1 DEF MacUpdateSettings
<1>3. /\ Verdict(w) = Updates(MacUpdates(w.s), "darwin")
      /\ Compliant(w) <=> /\ MacOn(w.s, "check") = TRUE /\ MacOn(w.s, "download")
                          /\ MacOn(w.s, "responses")
  BY <1>1, <1>2 DEF Verdict, Compliant
<1>4. \A key : MacOn(w.s, key) \in BOOLEAN
  BY DEF MacOn
<1>5. MacUpdates(w.s).paused = {} /\ MacUpdates(w.s).policyDisabled = {}
  BY DEF MacUpdates
<1>6. CASE "local" \in got
  <2>1. /\ MacUpdates(w.s).download = {MacOn(w.s, "download")}
        /\ MacUpdates(w.s).responses = {MacOn(w.s, "responses")}
        /\ MacUpdates(w.s).check = {MacOn(w.s, "check")}
    BY <1>1, <1>2, <1>4, <1>6, SettingsAreRead DEF Got
  <2> QED
    BY <1>3, <1>4, <1>5, <2>1 DEF Sound, Fails, Updates
<1>7. CASE "local" \notin got
  <2>1. MacUpdates(w.s).download = {} /\ MacUpdates(w.s).check = Got("schedule", w.s.schedule)
    BY <1>1, <1>2, <1>7, SettingsAreRead
  <2>2. MacUpdates(w.s).responses = {}
    BY <1>1, <1>7 DEF MacUpdates, Got
  <2> QED
    BY <1>2, <1>3, <1>4, <1>5, <2>1, <2>2 DEF Sound, Fails, Updates, Got
<1> QED
  BY <1>6, <1>7

\* The system protections of macOS: Gatekeeper and the updates of its definitions.
LEMMA GatekeeperIsSound ==
  ASSUME NEW w \in Gatekeepers, ReadAllOf(w)  PROVE Sound(w)
<1>1. /\ w.kind = "mac_endpoint" /\ w.s \in MacEndpoints /\ "managed" \in got
      /\ "local" \in got \/ w.s.managed = {}
  BY NamesOfSources DEF Gatekeepers, Computer, ReadAllOf, Reads
<1>2. /\ w.s.managed \in Optional(UpdateKeys) /\ w.s.local \in UpdateKeys
      /\ w.s.gatekeeper \in BOOLEAN
  BY <1>1 DEF MacEndpoints
<1>3. /\ Verdict(w) = Endpoint(MacEndpoint(w.s))
      /\ Compliant(w) <=> w.s.gatekeeper /\ MacOn(w.s, "systemData")
  BY <1>1 DEF Verdict, Compliant
<1>4. MacOn(w.s, "systemData") \in BOOLEAN
  BY DEF MacOn
<1>5. /\ MacEndpoint(w.s).gatekeeper = Got("spctl", {w.s.gatekeeper})
      /\ MacEndpoint(w.s).systemData = IF "local" \in got THEN {MacOn(w.s, "systemData")} ELSE {}
  <2>1. CASE "local" \in got
    BY <1>1, <1>2, <2>1, SettingsAreRead DEF MacEndpoint
  <2>2. CASE "local" \notin got
    BY <1>1, <2>2 DEF MacEndpoint, MacUpdates, Got
  <2> QED
    BY <2>1, <2>2
<1> QED
  BY <1>2, <1>3, <1>4, <1>5 DEF Sound, Fails, Endpoint, Got

------------------------------------------------------------------------------
(* The screen lock of macOS and Linux.                                      *)

\* The code and the properties agree on the delay that counts.
LEMMA LockedAfter ==
  ASSUME NEW ts, NEW d \in Nat
  PROVE  Locked(ts, {d}) = {t + EffectiveDelay(d) : t \in Positive(ts)}
<1>1. (IF d > Tolerance THEN d ELSE 0) = EffectiveDelay(d)
  BY ToleranceIsNatural DEF EffectiveDelay
<1>2. \A x : x \in Locked(ts, {d}) <=>
              \E t \in {u \in ts : u > 0}, e \in {d} : x = t + (IF e > Tolerance THEN e ELSE 0)
  BY DEF Locked
<1>3. \A x : x \in Locked(ts, {d}) <=> \E t \in Positive(ts) : x = t + EffectiveDelay(d)
  BY <1>1, <1>2 DEF Positive
<1> QED
  BY <1>3

\* There is at most one delay to add.
LEMMA OneDelay ==
  ASSUME NEW times, NEW delays, NEW d, delays = {d}
  PROVE  {t + EffectiveDelay(e) : t \in times, e \in delays} = {t + EffectiveDelay(d) : t \in times}
  OBVIOUS

\* When the screen locks whose timers are ts, with a delay of d when it asks at all.
RealLock(asks, ts, d) == IF asks THEN Locked(ts, {d}) ELSE {}

\* What was read of a profile is true of the timers and the delay, and what counts as
\* known is all there is.
Truthful(display, f, asks, ts, d) ==
  /\ f.password \in {"off", "unknown", "immediate", "delay"}
  /\ f.password = "off" => ~asks
  /\ f.password \in {"immediate", "delay"} => asks /\ KnownDelay(f) = {d}
  /\ display \cup f.saver \subseteq ts
  /\ Complete(display, f) => ts = display \cup f.saver

\* One profile: a pass has a lock in time, a failure has none.
LEMMA OutcomeIsSound ==
  ASSUME NEW display, NEW f, NEW asks \in BOOLEAN, NEW ts \in SUBSET Nat, NEW d \in Nat,
         Truthful(display, f, asks, ts, d)
  PROVE  /\ Outcome(display, f) = "pass" => InTime(RealLock(asks, ts, d))
         /\ Fails(Outcome(display, f)) => ~InTime(RealLock(asks, ts, d))
<1> DEFINE idle == Idle(display, f)
           lock == Lock(display, f)
<1>0. Limit \in Int
  BY LimitIsPositive DEF Limit
<1>1. idle \subseteq Positive(ts) /\ \A t \in idle : t \in Nat
  BY DEF Truthful, Idle, Positive
<1>2. ASSUME f.password \notin {"immediate", "delay"}  PROVE lock = {}
  BY <1>2 DEF Lock, KnownDelay
<1>3. ASSUME f.password \in {"immediate", "delay"}
      PROVE  /\ asks /\ lock \subseteq RealLock(asks, ts, d)
             /\ idle = Positive(ts) => lock = RealLock(asks, ts, d)
             /\ lock = {} => idle = {}
  <2>1. asks /\ lock = {t + EffectiveDelay(d) : t \in idle}
    BY <1>3 DEF Truthful, Lock
  <2>2. RealLock(asks, ts, d) = {t + EffectiveDelay(d) : t \in Positive(ts)}
    BY <2>1, LockedAfter DEF RealLock
  <2> HIDE DEF idle, lock
  <2> QED
    BY <1>1, <2>1, <2>2
<1>4. Complete(display, f) => idle = Positive(ts)
  BY DEF Truthful, Idle
<1>5. Outcome(display, f) = "pass" => f.password # "off" /\ InTime(lock)
  BY DEF Outcome
<1>6. Fails(Outcome(display, f)) =>
        \/ f.password = "off"
        \/ Complete(display, f) /\ ~InTime(lock) /\ (idle = {} \/ lock # {} \/ ~InTime(idle))
  BY DEF Outcome, Fails
<1>7. ASSUME ~asks \/ Positive(ts) = {}  PROVE RealLock(asks, ts, d) = {}
  BY <1>7 DEF RealLock, Locked, Positive
<1>8. ASSUME idle = Positive(ts), ~InTime(idle)  PROVE ~InTime(RealLock(asks, ts, d))
  <2>1. \A e \in Nat : (IF e > Tolerance THEN e ELSE 0) \in Nat
    OBVIOUS
  <2>2. \A t \in RealLock(asks, ts, d) : \E u \in Positive(ts) : t >= u /\ u \in Int /\ t \in Int
    BY <2>1 DEF RealLock, Locked, Positive
  <2> QED
    BY <1>0, <1>8, <2>2 DEF InTime
<1> HIDE DEF idle, lock
<1>9. CASE f.password \in {"immediate", "delay"}
  BY <1>3, <1>4, <1>5, <1>6, <1>7, <1>8, <1>9 DEF InTime
<1>10. CASE f.password = "off"
  BY <1>2, <1>5, <1>7, <1>10 DEF InTime, Truthful
<1>11. CASE f.password = "unknown"
  <2>1. lock = {}
    BY <1>2, <1>11
  <2>2. Fails(Outcome(display, f)) =>
          idle = Positive(ts) /\ (Positive(ts) = {} \/ ~InTime(idle))
    BY <1>4, <1>6, <1>11, <2>1
  <2> QED
    BY <1>5, <1>7, <1>8, <2>1, <2>2 DEF InTime
<1> QED
  BY <1>9, <1>10, <1>11 DEF Truthful

\* The profiles together: the first failure decides, and a pass needs every profile.
LEMMA ProfilesDecide ==
  ASSUME NEW f, NEW listed,
         listed = IF DOMAIN f.display = {} THEN {{}} ELSE {f.display[p] : p \in DOMAIN f.display}
  PROVE  /\ ProfileScreenLock(f) = "pass" => \A d \in listed : Outcome(d, f) = "pass"
         /\ Fails(ProfileScreenLock(f)) => \E d \in listed : Fails(Outcome(d, f))
         /\ ProfileScreenLock(f) = "unknown" => \E d \in listed : Outcome(d, f) = "unknown"
<1>1. \A d : Outcome(d, f) \in {"screen_lock_password_off", "screen_lock_never",
                                 "screen_lock_timeout_too_long", "unknown", "pass"}
  BY DEF Outcome
<1>2. {f.display[p] : p \in DOMAIN f.display} = {} <=> DOMAIN f.display = {}
  OBVIOUS
<1> QED
  BY <1>1, <1>2 DEF ProfileScreenLock, Fails

\* Every profile of a computer, P, whose timers are ts.
LEMMA ProfilesAreSound ==
  ASSUME NEW f, NEW P, P # {}, NEW asks \in BOOLEAN, NEW ts \in [P -> SUBSET Nat], NEW d \in Nat,
         DOMAIN f.display \in {{}, P},
         \A p \in P : Truthful(IF DOMAIN f.display = {} THEN {} ELSE f.display[p],
                               f, asks, ts[p], d)
  PROVE  /\ ProfileScreenLock(f) = "pass" => \A p \in P : InTime(RealLock(asks, ts[p], d))
         /\ Fails(ProfileScreenLock(f)) => \E p \in P : ~InTime(RealLock(asks, ts[p], d))
<1> DEFINE Shown(p) == IF DOMAIN f.display = {} THEN {} ELSE f.display[p]
           listed  == IF DOMAIN f.display = {} THEN {{}}
                      ELSE {f.display[p] : p \in DOMAIN f.display}
<1>1. \A p \in P : /\ Outcome(Shown(p), f) = "pass" => InTime(RealLock(asks, ts[p], d))
                   /\ Fails(Outcome(Shown(p), f)) => ~InTime(RealLock(asks, ts[p], d))
  BY OutcomeIsSound
<1>2. /\ \A p \in P : Shown(p) \in listed
      /\ \A e \in listed : \E p \in P : e = Shown(p)
  OBVIOUS
<1>3. /\ ProfileScreenLock(f) = "pass" => \A e \in listed : Outcome(e, f) = "pass"
      /\ Fails(ProfileScreenLock(f)) => \E e \in listed : Fails(Outcome(e, f))
  BY ProfilesDecide
<1> HIDE DEF Shown, listed
<1> QED
  BY <1>1, <1>2, <1>3

\* GNOME has one timer; whatever of it was read is true.
LEMMA GnomeIsTruthful ==
  ASSUME NEW s \in GnomeLocks
  PROVE  Truthful(GnomeLock(s).display["any"], GnomeLock(s), s.enabled, {s.idle}, s.delay)
<1> DEFINE f == GnomeLock(s)
<1>1. s.enabled \in BOOLEAN /\ s.idle \in Nat /\ s.delay \in Nat
  BY DEF GnomeLocks
<1>2. /\ f.password = GnomePassword(s) /\ f.saver = {} /\ f.saverKnown = TRUE
      /\ f.delay = IF s.enabled THEN Got("delay", {s.delay}) ELSE {}
      /\ f.display["any"] = Got("idle", {s.idle})
  BY DEF GnomeLock
<1> HIDE DEF f
<1>3. /\ f.password \in {"off", "unknown", "immediate", "delay"}
      /\ f.password = "off" => ~s.enabled
      /\ f.password \in {"immediate", "delay"} => s.enabled /\ "delay" \in got
  BY <1>1, <1>2 DEF GnomePassword, AskedAfter
<1>4. ASSUME f.password \in {"immediate", "delay"}  PROVE KnownDelay(f) = {s.delay}
  <2>1. f.delay = {s.delay}
    BY <1>2, <1>3, <1>4 DEF Got
  <2> QED
    BY <1>1, <1>4, <2>1 DEF KnownDelay
<1>5. /\ f.display["any"] \cup f.saver \subseteq {s.idle}
      /\ Complete(f.display["any"], f) => {s.idle} = f.display["any"] \cup f.saver
  BY <1>2 DEF Got, Complete
<1> QED
  BY <1>3, <1>4, <1>5 DEF Truthful, f

\* GNOME: what the check says of the screen lock is true.
LEMMA GnomeIsSound ==
  ASSUME NEW w \in Gnomes  PROVE Sound(w)
<1>1. w.kind = "gnome_lock" /\ w.s \in GnomeLocks
  BY DEF Gnomes, Computer
<1>2. w.s.enabled \in BOOLEAN /\ w.s.idle \in Nat /\ w.s.delay \in Nat
  BY <1>1 DEF GnomeLocks
<1> DEFINE f  == GnomeLock(w.s)
           ts == [p \in {"any"} |-> {w.s.idle}]
<1>3. DOMAIN f.display = {"any"}
  BY DEF GnomeLock
<1>4. Truthful(f.display["any"], f, w.s.enabled, ts["any"], w.s.delay)
  BY <1>1, GnomeIsTruthful
<1>5. ts \in [{"any"} -> SUBSET Nat]
  BY <1>2
<1>6. /\ Verdict(w) = IF GnomeIsRead THEN ProfileScreenLock(f) ELSE "unknown"
      /\ Compliant(w) <=> InTime(RealLock(w.s.enabled, ts["any"], w.s.delay))
  BY <1>1 DEF Verdict, Compliant, LocksInTime, Profiles, TrueTimes, RealLock, InTime
<1> HIDE DEF f, ts
<1>7. /\ ProfileScreenLock(f) = "pass" => InTime(RealLock(w.s.enabled, ts["any"], w.s.delay))
      /\ Fails(ProfileScreenLock(f)) => ~InTime(RealLock(w.s.enabled, ts["any"], w.s.delay))
  <2> DEFINE P == {"any"}
  <2>1. /\ P # {} /\ DOMAIN f.display \in {{}, P} /\ ts \in [P -> SUBSET Nat]
        /\ \A p \in P : Truthful(IF DOMAIN f.display = {} THEN {} ELSE f.display[p],
                                 f, w.s.enabled, ts[p], w.s.delay)
    BY <1>3, <1>4, <1>5
  <2>2. /\ ProfileScreenLock(f) = "pass" =>
              \A p \in P : InTime(RealLock(w.s.enabled, ts[p], w.s.delay))
        /\ Fails(ProfileScreenLock(f)) =>
              \E p \in P : ~InTime(RealLock(w.s.enabled, ts[p], w.s.delay))
    <3> HIDE DEF P
    <3> QED
      BY <1>2, <2>1, ProfilesAreSound
  <2> QED
    BY <2>2
<1> QED
  BY <1>6, <1>7 DEF Sound, Fails

\* The settings of a Mac as the code takes them.
MacAsks(s)      == FALSE \notin UNION {m.ask : m \in s.managed} /\ (s.asked \/ ManagedDelay(s) # {})
MacDelay(s)     == IF ManagedDelay(s) = {} THEN s.delay ELSE ManagedDelay(s)
MacSaver(s)     == IF ManagedIdle(s) = {} THEN s.saver ELSE ManagedIdle(s)

\* Each setting is there at most once, and there is always a delay.
LEMMA MacSettings ==
  ASSUME NEW s \in MacLocks
  PROVE  /\ ManagedIdle(s) \in Optional(Nat) /\ ManagedDelay(s) \in Optional(Nat)
         /\ UNION {m.ask : m \in s.managed} \in Optional(BOOLEAN)
         /\ MacSaver(s) \in Optional(Nat) /\ \E d \in Nat : MacDelay(s) = {d}
         /\ MacAsks(s) \in BOOLEAN /\ s.asked \in BOOLEAN
<1>1. /\ s.managed \in Optional([idle : Optional(Nat), ask : Optional(BOOLEAN),
                                 delay : Optional(Nat)])
      /\ s.saver \in Optional(Nat) /\ s.delay \in {{d} : d \in Nat} /\ s.asked \in BOOLEAN
  BY DEF MacLocks
<1>2. /\ ManagedIdle(s) \in Optional(Nat) /\ ManagedDelay(s) \in Optional(Nat)
      /\ UNION {m.ask : m \in s.managed} \in Optional(BOOLEAN)
  <2>1. CASE s.managed = {}
    BY <2>1 DEF ManagedIdle, ManagedDelay, Optional
  <2>2. CASE s.managed # {}
    <3>1. PICK m \in [idle : Optional(Nat), ask : Optional(BOOLEAN), delay : Optional(Nat)] :
            s.managed = {m}
      BY <1>1, <2>2 DEF Optional
    <3>2. /\ ManagedIdle(s) = m.idle /\ ManagedDelay(s) = m.delay
          /\ UNION {n.ask : n \in s.managed} = m.ask
      BY <3>1 DEF ManagedIdle, ManagedDelay
    <3> QED
      BY <3>1, <3>2
  <2> QED
    BY <2>1, <2>2
<1>3. MacAsks(s) \in BOOLEAN
  BY DEF MacAsks
<1> QED
  BY <1>1, <1>2, <1>3 DEF MacSaver, MacDelay, Optional

\* What the code takes the settings to be is what is in force, when the profile is whole.
LEMMA ProfileWins ==
  ASSUME NEW s \in MacLocks, ProfileIsWhole(s), NEW p, NEW d \in Nat, MacDelay(s) = {d}
  PROVE  MacTimes(s, p) = RealLock(MacAsks(s), {s.display[p]} \cup MacSaver(s), d)
<1>1. /\ ManagedDelay(s) \in Optional(Nat) /\ ManagedAsk(s) \in Optional(BOOLEAN)
      /\ s.asked \in BOOLEAN
  BY MacSettings DEF ManagedAsk
<1>2. (IF ManagedAsk(s) = {} THEN s.asked ELSE ManagedAsk(s) = {TRUE}) <=> MacAsks(s)
  <2>1. MacAsks(s) <=> FALSE \notin ManagedAsk(s) /\ (s.asked \/ ManagedDelay(s) # {})
    BY DEF MacAsks, ManagedAsk
  <2>2. s.asked \/ ManagedAsk(s) = {FALSE} \/ (ManagedAsk(s) = {TRUE} <=> ManagedDelay(s) # {})
    BY DEF ProfileIsWhole
  <2>3. ManagedAsk(s) \in {{}, {TRUE}, {FALSE}}
    BY <1>1 DEF Optional
  <2>4. CASE ManagedAsk(s) = {}
    BY <1>1, <2>1, <2>2, <2>4
  <2>5. CASE ManagedAsk(s) = {TRUE}
    BY <1>1, <2>1, <2>2, <2>5
  <2>6. CASE ManagedAsk(s) = {FALSE}
    BY <1>1, <2>1, <2>2, <2>6
  <2> QED
    BY <2>3, <2>4, <2>5, <2>6
<1>3. MacTimes(s, p) = IF MacAsks(s) THEN Locked({s.display[p]} \cup MacSaver(s), MacDelay(s)) ELSE {}
  BY <1>2 DEF MacTimes, MacSaver, MacDelay
<1> QED
  BY <1>3 DEF RealLock

\* What was read of the settings, with the profile that wins, is true.
LEMMA MacIsTruthful ==
  ASSUME NEW s \in MacLocks, "managed" \in got,
         NEW p \in DOMAIN s.display, NEW d \in Nat, MacDelay(s) = {d}
  PROVE  LET f == MacLock(s) IN
         Truthful(IF DOMAIN f.display = {} THEN {} ELSE f.display[p], f,
                  MacAsks(s), {s.display[p]} \cup MacSaver(s), d)
<1> DEFINE f       == MacLock(s)
           display == IF DOMAIN f.display = {} THEN {} ELSE f.display[p]
           off     == {FALSE} = UNION {m.ask : m \in s.managed}
<1>1. /\ ManagedIdle(s) \in Optional(Nat) /\ ManagedDelay(s) \in Optional(Nat)
      /\ UNION {m.ask : m \in s.managed} \in Optional(BOOLEAN)
      /\ MacAsks(s) \in BOOLEAN /\ s.asked \in BOOLEAN
  BY MacSettings
<1>2. Got("managed", s.managed) = s.managed
  BY DEF Got
<1>3. NotNegative(ManagedIdle(s)) = ManagedIdle(s) /\ NotNegative(ManagedDelay(s)) = ManagedDelay(s)
  BY <1>1 DEF NotNegative, Optional
<1>4. /\ f.password = IF off THEN "off"
                      ELSE IF ManagedDelay(s) # {} THEN AskedAfter(ManagedDelay(s))
                      ELSE Sysadminctl(s)
      /\ f.delay = IF off THEN {}
                   ELSE IF ManagedDelay(s) # {} THEN ManagedDelay(s)
                   ELSE IF s.asked THEN Got("sysadminctl", s.delay) ELSE {}
  BY <1>2, <1>3 DEF MacLock, ManagedDelay
<1>5. /\ f.saver = Effective(ManagedIdle(s), Got("saver", s.saver))
      /\ f.saverKnown <=> ManagedIdle(s) # {} \/ "saver" \in got
  BY <1>2, <1>3 DEF MacLock, ManagedIdle, Screensaver
<1>6. display = IF "pmset" \in got THEN Got(p, {s.display[p]}) ELSE {}
  <2>1. f.display = Pmset(s)
    BY DEF MacLock
  <2> QED
    BY <2>1 DEF Pmset
<1> HIDE DEF f, display
<1>7. off <=> FALSE \in UNION {m.ask : m \in s.managed}
  BY <1>1 DEF Optional
<1> HIDE DEF off
<1>8. /\ f.password \in {"off", "unknown", "immediate", "delay"}
      /\ f.password = "off" => ~MacAsks(s)
      /\ f.password \in {"immediate", "delay"} =>
           /\ MacAsks(s) /\ f.delay = {d} /\ f.password = AskedAfter({d})
  BY <1>1, <1>4, <1>7 DEF MacAsks, MacDelay, AskedAfter, Sysadminctl, Got
<1>9. ASSUME f.password \in {"immediate", "delay"}  PROVE KnownDelay(f) = {d}
  BY <1>8, <1>9 DEF KnownDelay, AskedAfter
<1>10. /\ display \subseteq {s.display[p]} /\ f.saver \subseteq MacSaver(s)
       /\ display # {} => display = {s.display[p]}
       /\ f.saverKnown => f.saver = MacSaver(s)
  BY <1>5, <1>6 DEF Got, Effective, MacSaver
<1>11. /\ display \cup f.saver \subseteq {s.display[p]} \cup MacSaver(s)
       /\ Complete(display, f) => {s.display[p]} \cup MacSaver(s) = display \cup f.saver
  BY <1>10 DEF Complete
<1>12. Truthful(display, f, MacAsks(s), {s.display[p]} \cup MacSaver(s), d)
  BY <1>8, <1>9, <1>11 DEF Truthful
<1> QED
  BY <1>12 DEF f, display

\* macOS: a pass needs every profile to lock in time, and a failure has one that does not.
LEMMA MacLockIsSound ==
  ASSUME NEW w \in MacLocked, ReadAllOf(w)  PROVE Sound(w)
<1>1. w.kind = "mac_lock" /\ w.s \in MacLocks /\ ProfileIsWhole(w.s) /\ "managed" \in got
  BY NamesOfSources DEF MacLocked, Computer, ReadAllOf, Reads
<1>2. PICK d \in Nat : MacDelay(w.s) = {d}
  BY <1>1, MacSettings
<1> DEFINE f  == MacLock(w.s)
           P  == DOMAIN w.s.display
           ts == [p \in P |-> {w.s.display[p]} \cup MacSaver(w.s)]
<1>3. P # {} /\ \A p \in P : w.s.display[p] \in Nat
  BY <1>1 DEF MacLocks
<1>4. MacAsks(w.s) \in BOOLEAN /\ MacSaver(w.s) \in SUBSET Nat
  BY <1>1, MacSettings DEF Optional
<1>5. DOMAIN f.display \in {{}, P}
  BY DEF MacLock, Pmset
<1>6. ts \in [P -> SUBSET Nat]
  BY <1>3, <1>4
<1>7. \A p \in P : Truthful(IF DOMAIN f.display = {} THEN {} ELSE f.display[p],
                            f, MacAsks(w.s), ts[p], d)
  BY <1>1, <1>2, MacIsTruthful
<1>8. \A p \in P : TrueTimes(w, p) = RealLock(MacAsks(w.s), ts[p], d)
  <2>1. \A p \in P : TrueTimes(w, p) = MacTimes(w.s, p)
    BY <1>1 DEF TrueTimes
  <2> QED
    BY <1>1, <1>2, <2>1, ProfileWins
<1>9. /\ Verdict(w) = IF "console" \in got THEN ProfileScreenLock(f) ELSE "unknown"
      /\ Compliant(w) <=> \A p \in P : InTime(TrueTimes(w, p))
  BY <1>1 DEF Verdict, Compliant, LocksInTime, Profiles, InTime
<1> HIDE DEF f, P, ts
<1>10. /\ ProfileScreenLock(f) = "pass" =>
             \A p \in P : InTime(RealLock(MacAsks(w.s), ts[p], d))
       /\ Fails(ProfileScreenLock(f)) =>
             \E p \in P : ~InTime(RealLock(MacAsks(w.s), ts[p], d))
  BY <1>2, <1>3, <1>4, <1>5, <1>6, <1>7, ProfilesAreSound
<1> QED
  BY <1>8, <1>9, <1>10 DEF Sound, Fails

------------------------------------------------------------------------------
(* The screen lock of Windows.                                              *)

\* When the screen saver locks, and the delay of the sign-in on wake.
SaverLocks(s)    == \A n \in {"program", "active", "secure"} : InForce(s, n) = {TRUE}
AlwaysLocks(s)   == Locked(s.inactivity \cup (IF SaverLocks(s) THEN InForce(s, "timeout") ELSE {}),
                           {0})
WakeDelay(s)     == IF s.delay = {} THEN {0} ELSE s.delay \ {Never}

\* Each setting is there at most once, and each profile has a timer.
LEMMA WindowsSettings ==
  ASSUME NEW s \in WindowsLocks
  PROVE  /\ InForce(s, "timeout") \in Optional(Nat) /\ s.inactivity \in Optional(Nat)
         /\ \A n \in {"program", "active", "secure"} : InForce(s, n) \in Optional(BOOLEAN)
         /\ s.delay \in Optional(Nat \cup {Never})
         /\ \A p \in {"ac", "battery"} : s.display[p] \in Nat /\ s.onWake[p] \in {0, 1}
  BY DEF WindowsLocks, Savers, InForce

\* When Windows locks: at any time without a profile, or on wake under the profile.
LEMMA WindowsLocksByEither ==
  ASSUME NEW s \in WindowsLocks, NEW p
  PROVE  WindowsTimes(s, p) =
           AlwaysLocks(s) \cup (IF s.onWake[p] = 1 THEN Locked({s.display[p]}, WakeDelay(s)) ELSE {})
<1>1. {t \in InForce(s, "timeout") : \A n \in {"program", "active", "secure"} :
         InForce(s, n) = {TRUE}} = IF SaverLocks(s) THEN InForce(s, "timeout") ELSE {}
  BY DEF SaverLocks
<1> QED
  BY <1>1 DEF WindowsTimes, InForce, AlwaysLocks, WakeDelay

\* The mechanisms that do not depend on the profile: those that were read are true, and
\* known when the screen saver is.
LEMMA IndependentIsTrue ==
  ASSUME NEW s \in WindowsLocks, "registry" \in got
  PROVE  LET f == WindowsLock(s) IN
         /\ Independent(f) \subseteq AlwaysLocks(s)
         /\ SaverKnown(f) => Independent(f) = AlwaysLocks(s)
         /\ Independent(f) \in SUBSET Nat
<1> DEFINE f == WindowsLock(s)
           timers == s.inactivity \cup (IF SaverLocks(s) THEN InForce(s, "timeout") ELSE {})
<1>1. /\ InForce(s, "timeout") \in Optional(Nat) /\ s.inactivity \in Optional(Nat)
      /\ \A n \in {"program", "active", "secure"} : InForce(s, n) \in Optional(BOOLEAN)
  BY WindowsSettings
<1>2. \A n : Effective(s.policy[n], s.user[n]) = InForce(s, n)
  BY DEF Effective, InForce
<1>3. Effective(s.policy.program, s.user.program) = InForce(s, "program")
  BY DEF Effective, InForce
<1>4. /\ f.inactivity = s.inactivity
      /\ f.configured = Effective(InForce(s, "program"), {FALSE})
      /\ f.active = Got("active", InForce(s, "active"))
      /\ f.secure = Got("secure", InForce(s, "secure"))
      /\ f.timeout = Got("timeout", InForce(s, "timeout"))
  BY <1>2, <1>3 DEF WindowsLock, Got
<1> HIDE DEF f
<1>5. AlwaysLocks(s) = Positive(timers)
  <2>1. timers \in SUBSET Nat
    BY <1>1 DEF Optional
  <2> HIDE DEF timers
  <2>2. Locked(timers, {0}) = {t + EffectiveDelay(0) : t \in Positive(timers)}
    BY LockedAfter
  <2>3. EffectiveDelay(0) = 0 /\ \A t \in Positive(timers) : t + 0 = t
    BY <2>1, ToleranceIsNatural DEF EffectiveDelay, Positive
  <2>4. Locked(timers, {0}) = Positive(timers)
    BY <2>2, <2>3
  <2> QED
    BY <2>4 DEF AlwaysLocks, timers
<1> DEFINE saver == IF f.configured = {TRUE} /\ f.active = {TRUE} /\ f.secure = {TRUE}
                    THEN Positive(f.timeout) ELSE {}
           real  == IF SaverLocks(s) THEN Positive(InForce(s, "timeout")) ELSE {}
<1>6. /\ Independent(f) = Positive(s.inactivity) \cup saver
      /\ AlwaysLocks(s) = Positive(s.inactivity) \cup real
  BY <1>4, <1>5 DEF Independent, Positive
<1>7. f.configured = {TRUE} <=> InForce(s, "program") = {TRUE}
  BY <1>4 DEF Effective
<1>8. saver \subseteq real
  BY <1>4, <1>7 DEF Got, Positive, SaverLocks
<1>9. ASSUME SaverKnown(f)  PROVE real = saver
  <2>1. ASSUME SaverLocks(s)
        PROVE f.configured = {TRUE} /\ f.active \in {{}, {TRUE}} /\ f.secure \in {{}, {TRUE}}
    BY <1>4, <1>7, <2>1 DEF SaverLocks, Got
  <2>2. ASSUME SaverLocks(s)
        PROVE  f.active = {TRUE} /\ f.secure = {TRUE} /\ f.timeout # {}
    BY <1>9, <2>1, <2>2 DEF SaverKnown
  <2>3. f.timeout # {} => f.timeout = InForce(s, "timeout")
    BY <1>4 DEF Got
  <2> QED
    BY <1>8, <2>1, <2>2, <2>3
<1>10. Positive(s.inactivity) \in SUBSET Nat /\ real \in SUBSET Nat
  BY <1>1 DEF Positive, Optional
<1> HIDE DEF saver, real
<1>11. /\ Independent(f) \subseteq AlwaysLocks(s)
       /\ SaverKnown(f) => Independent(f) = AlwaysLocks(s)
       /\ Independent(f) \in SUBSET Nat
  BY <1>6, <1>8, <1>9, <1>10
<1> QED
  BY <1>11 DEF f

\* The current values are the last two numbers that powercfg prints.
LEMMA PowercfgReads ==
  /\ Powercfg(<<>>) = [ac |-> {}, battery |-> {}]
  /\ \A v : Powercfg(Printed(v)) = [ac |-> {v.ac}, battery |-> {v.battery}]
<1>1. ASSUME NEW v
      PROVE  Powercfg(Printed(v)) = [ac |-> {v.ac}, battery |-> {v.battery}]
  <2>1. Len(Printed(v)) = 5 /\ Printed(v)[4] = v.ac /\ Printed(v)[5] = v.battery
    BY SMT DEF Printed
  <2>2. ~(Len(Printed(v)) < 2) /\ Len(Printed(v)) - 1 = 4
    BY <2>1
  <2> QED
    BY <2>1, <2>2 DEF Powercfg
<1>2. Len(<<>>) < 2
  OBVIOUS
<1> QED
  BY <1>1, <1>2 DEF Powercfg


\* Under a profile whose timer and sign-in on wake were read.
LEMMA WakeIsTrue ==
  ASSUME NEW s \in WindowsLocks, "registry" \in got, DisplayKnown(WindowsLock(s))
  PROVE  LET f == WindowsLock(s) IN
         /\ LockTimes(f, f.displayAC, f.lockAC) =
              Independent(f) \cup
                (IF s.onWake["ac"] = 1 THEN Locked({s.display["ac"]}, WakeDelay(s)) ELSE {})
         /\ LockTimes(f, f.displayDC, f.lockDC) =
              Independent(f) \cup
                (IF s.onWake["battery"] = 1
                   THEN Locked({s.display["battery"]}, WakeDelay(s)) ELSE {})
<1> DEFINE f == WindowsLock(s)
           video   == Powercfg(IF "video" \in got THEN Printed(s.display) ELSE <<>>)
           console == Powercfg(IF "console" \in got THEN Printed(s.onWake) ELSE <<>>)
           OnWake(p) == IF s.delay = {Never} THEN {FALSE} ELSE {v # 0 : v \in console[p]}
<1>1. \A p \in {"ac", "battery"} : s.display[p] \in Nat /\ s.onWake[p] \in {0, 1}
  BY WindowsSettings
<1>2. s.delay \in Optional(Nat \cup {Never})
  BY WindowsSettings
<1>3. /\ Powercfg(<<>>) = [ac |-> {}, battery |-> {}]
      /\ \A v : Powercfg(Printed(v)) = [ac |-> {v.ac}, battery |-> {v.battery}]
  BY PowercfgReads
<1>4. /\ f.displayAC = video.ac /\ f.displayDC = video.battery
      /\ f.lockAC = OnWake("ac") /\ f.lockDC = OnWake("battery")
      /\ f.delay = IF s.delay = {Never} THEN {0} ELSE Effective(s.delay, {0})
  BY DEF WindowsLock, Got
<1>5. /\ video.ac = {s.display["ac"]} /\ video.battery = {s.display["battery"]}
  <2>1. f.displayAC # {}
    BY DEF DisplayKnown
  <2>2. "video" \notin got => f.displayAC = {}
    BY <1>3, <1>4
  <2>3. "video" \in got
    BY <2>1, <2>2
  <2>4. video = Powercfg(Printed(s.display))
    BY <2>3
  <2> QED
    BY <1>3, <2>4
<1>6. \A p \in {"ac", "battery"} :
         OnWake(p) = {TRUE} <=> s.delay # {Never} /\ s.onWake[p] = 1
  <2>1. CASE s.delay = {Never}
    BY <2>1
  <2>2. CASE s.delay # {Never}
    <3>1. OnWake("ac") = {v # 0 : v \in console["ac"]}
          /\ OnWake("battery") = {v # 0 : v \in console["battery"]}
      BY <2>2
    <3>2. console["ac"] # {} /\ console["battery"] # {}
      BY <1>4, <3>1 DEF DisplayKnown
    <3>3. "console" \in got
      BY <1>3, <3>2
    <3>4. console = Powercfg(Printed(s.onWake))
      BY <3>3
    <3>5. console["ac"] = {s.onWake["ac"]} /\ console["battery"] = {s.onWake["battery"]}
      BY <1>3, <3>4
    <3> HIDE DEF console, OnWake
    <3>6. ASSUME NEW v, NEW values, values = {v}
          PROVE  {u # 0 : u \in values} = {TRUE} <=> v # 0
      BY <3>6
    <3>7. /\ OnWake("ac") = {TRUE} <=> s.onWake["ac"] # 0
          /\ OnWake("battery") = {TRUE} <=> s.onWake["battery"] # 0
      BY <3>1, <3>5, <3>6
    <3>8. \A p \in {"ac", "battery"} : s.onWake[p] # 0 <=> s.onWake[p] = 1
      BY <1>1
    <3>9. \A p \in {"ac", "battery"} : OnWake(p) = {TRUE} <=> s.onWake[p] # 0
      BY <3>7, Zenon
    <3> QED
      BY <2>2, <3>8, <3>9, Zenon
  <2> QED
    BY <2>1, <2>2
<1> DEFINE delay == IF Positive(f.delay) = {} THEN {0} ELSE f.delay
<1>7. ASSUME s.delay # {Never}
      PROVE  \E d \in Nat : delay = {d} /\ WakeDelay(s) = {d}
  <2>1. CASE s.delay = {}
    BY <1>4, <1>7, <2>1 DEF WakeDelay, Effective, Positive
  <2>2. CASE s.delay # {}
    <3>1. PICK d \in Nat : s.delay = {d} /\ d # Never
      BY <1>2, <1>7, <2>2 DEF Optional
    <3>2. f.delay = {d} /\ WakeDelay(s) = {d}
      BY <1>4, <1>7, <3>1 DEF WakeDelay, Effective
    <3>3. delay = {d}
      BY <3>2 DEF Positive
    <3> QED
      BY <3>2, <3>3
  <2> QED
    BY <2>1, <2>2
<1>8. s.delay = {Never} => WakeDelay(s) = {}
  BY DEF WakeDelay
<1> HIDE DEF video, console, OnWake
<1>9. ASSUME NEW p \in {"ac", "battery"}
      PROVE  LockTimes(f, {s.display[p]}, OnWake(p)) =
               Independent(f) \cup
                 (IF s.onWake[p] = 1 THEN Locked({s.display[p]}, WakeDelay(s)) ELSE {})
  <2> DEFINE wake == {t + EffectiveDelay(d) : t \in Positive({s.display[p]}), d \in delay}
  <2>1. LockTimes(f, {s.display[p]}, OnWake(p)) =
          Independent(f) \cup (IF OnWake(p) = {TRUE} THEN wake ELSE {})
    BY DEF LockTimes
  <2> HIDE DEF wake, delay
  <2>2. CASE s.delay = {Never}
    <3>1. OnWake(p) # {TRUE}
      BY <1>6, <2>2
    <3>2. Locked({s.display[p]}, WakeDelay(s)) = {}
      BY <1>8, <2>2 DEF Locked
    <3> QED
      BY <2>1, <3>1, <3>2
  <2>3. CASE s.delay # {Never}
    <3>1. PICK e \in Nat : delay = {e} /\ WakeDelay(s) = {e}
      BY <1>7, <2>3
    <3>2. wake = Locked({s.display[p]}, WakeDelay(s))
      BY <3>1, LockedAfter, OneDelay DEF wake
    <3>3. OnWake(p) = {TRUE} <=> s.onWake[p] = 1
      BY <1>6, <2>3
    <3> QED
      BY <2>1, <3>2, <3>3
  <2> QED
    BY <2>2, <2>3
<1> HIDE DEF f, delay
<1>10. /\ LockTimes(f, f.displayAC, f.lockAC) =
             Independent(f) \cup
               (IF s.onWake["ac"] = 1 THEN Locked({s.display["ac"]}, WakeDelay(s)) ELSE {})
       /\ LockTimes(f, f.displayDC, f.lockDC) =
             Independent(f) \cup
               (IF s.onWake["battery"] = 1
                  THEN Locked({s.display["battery"]}, WakeDelay(s)) ELSE {})
  BY <1>4, <1>5, <1>9
<1> QED
  BY <1>10 DEF f

\* A pass needs every profile, or a mechanism that does not depend on it; a failure needs
\* every mechanism to be known.
LEMMA WindowsLockIsSound ==
  ASSUME NEW w \in WindowsLocked, ReadAllOf(w)  PROVE Sound(w)
<1>1. w.kind = "windows_lock" /\ w.s \in WindowsLocks /\ "registry" \in got
  BY NamesOfSources DEF WindowsLocked, Computer, ReadAllOf, Reads
<1> DEFINE f  == WindowsLock(w.s)
           ac == LockTimes(f, f.displayAC, f.lockAC)
           dc == LockTimes(f, f.displayDC, f.lockDC)
           always == AlwaysLocks(w.s)
           Wake(p) == IF w.s.onWake[p] = 1 THEN Locked({w.s.display[p]}, WakeDelay(w.s)) ELSE {}
<1>2. DOMAIN w.s.display = {"ac", "battery"}
  BY <1>1 DEF WindowsLocks
<1>3. \A p : TrueTimes(w, p) = always \cup Wake(p)
  BY <1>1, WindowsLocksByEither DEF TrueTimes
<1>4. Compliant(w) <=> InTime(always \cup Wake("ac")) /\ InTime(always \cup Wake("battery"))
  BY <1>1, <1>2, <1>3 DEF Compliant, LocksInTime, Profiles, InTime
<1>5. Independent(f) \subseteq always /\ (SaverKnown(f) => Independent(f) = always)
  BY <1>1, IndependentIsTrue
<1>6. DisplayKnown(f) =>
        ac = Independent(f) \cup Wake("ac") /\ dc = Independent(f) \cup Wake("battery")
  BY <1>1, WakeIsTrue
<1>7. Verdict(w) = WindowsScreenLock(f)
  BY <1>1 DEF Verdict
<1> HIDE DEF f, always, Wake
<1>8. /\ WindowsScreenLock(f) = "pass" =>
           InTime(Independent(f)) \/ (DisplayKnown(f) /\ InTime(ac) /\ InTime(dc))
      /\ Fails(WindowsScreenLock(f)) =>
           DisplayKnown(f) /\ SaverKnown(f) /\ ~(InTime(ac) /\ InTime(dc))
  BY DEF WindowsScreenLock, Fails
<1> HIDE DEF ac, dc
<1>9. ASSUME NEW S, NEW T, S \subseteq T, InTime(S)  PROVE InTime(T)
  BY <1>9 DEF InTime
<1>10. ASSUME WindowsScreenLock(f) = "pass"  PROVE Compliant(w)
  BY <1>4, <1>5, <1>6, <1>8, <1>9, <1>10
<1>11. ASSUME Fails(WindowsScreenLock(f))  PROVE ~Compliant(w)
  BY <1>4, <1>5, <1>6, <1>8, <1>11
<1> QED
  BY <1>7, <1>10, <1>11 DEF Sound

------------------------------------------------------------------------------
(* The theorems.                                                            *)

\* What the check has read when it is done, and what its verdict then says.
LEMMA VerdictIsSound ==
  ASSUME Worlds \subseteq Honest
  PROVE  ReadsAll => (Done => Sound(world))
<1> SUFFICES ASSUME ReadsAll, Done  PROVE Sound(world)
  OBVIOUS
<1>1. world \in Honest /\ ReadAllOf(world)
  BY DEF ReadsAll, ReadAllOf, Done, Names
<1> QED
  BY <1>1, MacLockIsSound, GnomeIsSound, WindowsLockIsSound, MacUpdatesAreSound,
     WindowsUpdatesAreSound, AptIsSound, GatekeeperIsSound, AntivirusIsSound, ClamAVIsSound,
     FileVaultIsSound, BitLockerIsSound, RootIsSound DEF Honest

\* Whatever of the optional sources could not be read, a check passes only a computer that
\* meets the rule.
THEOREM PassesAreEarned ==
  ASSUME Worlds \subseteq Honest
  PROVE  Spec => []PassIsEarned
<1>1. ReadsAll => PassIsEarned
  BY VerdictIsSound DEF PassIsEarned, Sound
<1> QED
  BY <1>1, ChecksReadAll, PTL

\* Whatever of the optional sources could not be read, a check fails only a computer that
\* breaks the rule.
THEOREM FailuresAreDeserved ==
  ASSUME Worlds \subseteq Honest
  PROVE  Spec => []FailIsDeserved
<1>1. ReadsAll => FailIsDeserved
  BY VerdictIsSound DEF FailIsDeserved, Sound
<1> QED
  BY <1>1, ChecksReadAll, PTL

------------------------------------------------------------------------------
(* The detail of the screen lock.                                           *)

\* The soonest of some times exists.
LEMMA LeastTime ==
  ASSUME NEW S \in SUBSET Nat, S # {}
  PROVE  \E t \in S : \A u \in S : t <= u
<1> DEFINE R == OpToRel(<, Nat)
<1>1. IsWellFoundedOn(R, Nat)
  BY NatLessThanWellFounded
<1>2. ASSUME NEW x \in Nat, NEW y \in Nat, x < y  PROVE <<x, y>> \in R
  BY <1>2 DEF OpToRel
<1> HIDE DEF R
<1>3. PICK t \in S : \A y \in S : ~(<<y, t>> \in R)
  BY <1>1, WFMin
<1>4. \A u \in S : ~(u < t)
  BY <1>2, <1>3
<1> QED
  BY <1>4

\* Rounding up: the minutes of a time are the fewest that hold it.
LEMMA MinutesHold ==
  ASSUME NEW t \in Nat
  PROVE  /\ CeilMinutes(t) \in Nat
         /\ t <= CeilMinutes(t) * Minute
         /\ (CeilMinutes(t) - 1) * Minute < t
<1> DEFINE k == CeilMinutes(t)
<1>1. Minute \in Nat /\ Minute > 0 /\ t + Minute - 1 \in Nat
  BY LimitIsPositive
<1>2. /\ k \in Nat /\ Minute * k <= t + Minute - 1
      /\ t + Minute - 1 < Minute * k + Minute
  BY <1>1 DEF CeilMinutes
<1> HIDE DEF k
<1>3. (k - 1) * Minute = Minute * k - Minute /\ k * Minute = Minute * k
      /\ Minute * k \in Int
  BY <1>1, <1>2
<1>4. /\ k \in Nat /\ t <= k * Minute /\ (k - 1) * Minute < t
  BY <1>1, <1>2, <1>3
<1> QED
  BY <1>4 DEF k

\* In whole minutes a time is zero, or too long, only when it is.
LEMMA MinutesOrder ==
  ASSUME NEW t \in Nat
  PROVE  /\ CeilMinutes(t) > 0 <=> t > 0
         /\ CeilMinutes(t) <= LimitMinutes <=> t <= Limit
<1> DEFINE k == CeilMinutes(t)
<1>1. /\ Minute \in Nat /\ Minute > 0 /\ LimitMinutes \in Nat
      /\ k \in Nat /\ t <= k * Minute /\ (k - 1) * Minute < t /\ Limit = LimitMinutes * Minute
  BY LimitIsPositive, MinutesHold DEF Limit
<1> HIDE DEF k
<1>2. ASSUME NEW a \in Int, NEW b \in Int, a * Minute < b * Minute  PROVE a < b
  BY <1>1, <1>2
<1>3. ASSUME NEW a \in Int, NEW b \in Int, a <= b  PROVE a * Minute <= b * Minute
  BY <1>1, <1>3
<1>4. (k - 1) * Minute \in Int /\ k * Minute \in Int /\ LimitMinutes * Minute \in Int
  BY <1>1
<1>5. k = 0 => t = 0
  BY <1>1
<1>6. k > 0 => t > 0
  <2>1. k > 0 => 0 * Minute <= (k - 1) * Minute
    BY <1>1, <1>3
  <2> QED
    BY <1>1, <1>4, <2>1
<1>7. k <= LimitMinutes => t <= Limit
  BY <1>1, <1>3, <1>4
<1>8. ASSUME t <= Limit  PROVE k <= LimitMinutes
  <2>1. (k - 1) * Minute < LimitMinutes * Minute
    BY <1>1, <1>4, <1>8
  <2>2. k - 1 < LimitMinutes
    BY <1>1, <1>2, <2>1
  <2> QED
    BY <1>1, <2>2
<1>9. (k > 0 <=> t > 0) /\ (k <= LimitMinutes <=> t <= Limit)
  BY <1>1, <1>5, <1>6, <1>7, <1>8
<1> QED
  BY <1>9 DEF k

\* What a profile states of when it locks, times: the soonest, in whole minutes.
LEMMA StatedMinutes ==
  ASSUME NEW times \in SUBSET Nat, \A t \in times : t > 0,
         NEW stated, stated = Minutes(Soonest(times))
  PROVE  /\ \A m \in stated : m \in Nat /\ m > 0 /\ \E t \in times : t <= m * Minute
         /\ InTime(times) <=> \E m \in stated : m \in 1..LimitMinutes
<1>1. stated = {CeilMinutes(t) : t \in Soonest(times)}
  <2>1. \A t \in Soonest(times) : (IF t < 0 THEN 0 ELSE t) = t
    BY DEF Soonest
  <2> QED
    BY <2>1 DEF Minutes
<1>2. \A t \in Soonest(times) : t \in times /\ t \in Nat /\ \A u \in times : t <= u
  BY DEF Soonest
<1>3. ASSUME NEW t \in Soonest(times)
      PROVE  /\ CeilMinutes(t) \in Nat /\ CeilMinutes(t) > 0 /\ t <= CeilMinutes(t) * Minute
             /\ CeilMinutes(t) \in 1..LimitMinutes <=> t <= Limit
  <2>1. LimitMinutes \in Nat
    BY LimitIsPositive
  <2> QED
    BY <1>2, <2>1, MinutesHold, MinutesOrder
<1>4. ASSUME InTime(times)  PROVE \E t \in Soonest(times) : t <= Limit
  <2>1. PICK u \in times : u <= Limit
    BY <1>4 DEF InTime
  <2>2. PICK t \in times : \A v \in times : t <= v
    BY <2>1, LeastTime
  <2>3. Limit \in Int
    BY LimitIsPositive DEF Limit
  <2> QED
    BY <2>1, <2>2, <2>3 DEF Soonest
<1>5. ASSUME NEW t \in Soonest(times), t <= Limit  PROVE InTime(times)
  BY <1>2, <1>5 DEF InTime
<1> QED
  BY <1>1, <1>2, <1>3, <1>4, <1>5

\* Never is stated as zero minutes.
LEMMA ZeroMinutes == Minutes(Soonest({0})) = {0}
<1>1. Soonest({0}) = {0}
  BY DEF Soonest
<1>2. CeilMinutes(0) = 0
  BY MinutesHold, MinutesOrder
<1> QED
  BY <1>1, <1>2 DEF Minutes

\* A time that is not known is not stated.
LEMMA NoMinutes == Minutes(Soonest({})) = {}
  BY DEF Minutes, Soonest

\* What a stated profile promises of a computer that locks at the times of real.
TrueProfile(stated, real, open) ==
  /\ \A m \in stated.minutes : /\ m > 0 => \E t \in real : t <= m * Minute
                               /\ m = 0 /\ ~open => real = {}
InOrderProfile(stated) == stated.ok <=> \E m \in stated.minutes : m \in 1..LimitMinutes

\* One profile of macOS or Linux.
LEMMA DetailIsSound ==
  ASSUME NEW display, NEW f, NEW asks \in BOOLEAN, NEW ts \in SUBSET Nat, NEW d \in Nat,
         Truthful(display, f, asks, ts, d)
  PROVE  /\ TrueProfile(Detail(display, f), RealLock(asks, ts, d), FALSE)
         /\ InOrderProfile(Detail(display, f))
         /\ Detail(display, f).ok <=> Outcome(display, f) = "pass"
<1> DEFINE idle    == Idle(display, f)
           lock    == Lock(display, f)
           real    == RealLock(asks, ts, d)
           outcome == Outcome(display, f)
           stated  == Detail(display, f)
<1>0. stated.ok <=> outcome = "pass"
  BY DEF Detail, ProfileDetail
<1>1. idle \subseteq Positive(ts)
  BY DEF Truthful, Idle, Positive
<1>2. /\ lock \subseteq real /\ lock \in SUBSET Nat
      /\ \A t \in lock : t > 0
      /\ asks \/ lock = {}
  <2>1. CASE f.password \in {"immediate", "delay"}
    <3>1. asks /\ lock = {t + EffectiveDelay(d) : t \in idle}
      BY <2>1, OneDelay DEF Truthful, Lock
    <3>2. real = {t + EffectiveDelay(d) : t \in Positive(ts)}
      BY <3>1, LockedAfter DEF RealLock
    <3>3. EffectiveDelay(d) \in Nat
      BY DEF EffectiveDelay
    <3> HIDE DEF idle, lock, real
    <3> QED
      BY <1>1, <3>1, <3>2, <3>3 DEF Positive
  <2>2. CASE f.password \notin {"immediate", "delay"}
    BY <2>2 DEF Lock, KnownDelay
  <2> QED
    BY <2>1, <2>2
<1>3. ASSUME outcome \in {"screen_lock_password_off", "screen_lock_never"}  PROVE real = {}
  <2>1. CASE f.password = "off"
    BY <2>1 DEF Truthful, RealLock
  <2>2. CASE f.password # "off"
    <3>1. Complete(display, f) /\ idle = {}
      BY <1>3, <2>2 DEF Outcome
    <3>2. Positive(ts) = {}
      BY <3>1 DEF Truthful, Idle
    <3> QED
      BY <3>2 DEF RealLock, Locked, Positive
  <2> QED
    BY <2>1, <2>2
<1>4. outcome \in {"screen_lock_password_off", "screen_lock_never", "unknown",
                   "screen_lock_timeout_too_long", "pass"}
  BY DEF Outcome
<1>5. stated.minutes = Minutes(Soonest(
        IF outcome \in {"screen_lock_password_off", "screen_lock_never"} THEN {0}
        ELSE IF outcome = "unknown" THEN {} ELSE lock))
  BY <1>4 DEF Detail, ProfileDetail
<1>6. outcome = "pass" => InTime(lock)
  BY DEF Outcome
<1>7. outcome = "screen_lock_timeout_too_long" => ~InTime(lock)
  BY DEF Outcome
<1> HIDE DEF idle, lock, real, outcome, stated
<1>8. CASE outcome \in {"screen_lock_password_off", "screen_lock_never"}
  <2>1. stated.minutes = {0} /\ real = {} /\ ~stated.ok
    BY <1>0, <1>3, <1>5, <1>8, ZeroMinutes
  <2>2. TrueProfile(stated, real, FALSE) /\ InOrderProfile(stated)
    BY <2>1, LimitIsPositive DEF TrueProfile, InOrderProfile
  <2> QED
    BY <1>0, <2>2 DEF stated, real, outcome
<1>9. CASE outcome = "unknown"
  <2>1. stated.minutes = {} /\ ~stated.ok
    BY <1>0, <1>5, <1>9, NoMinutes
  <2>2. TrueProfile(stated, real, FALSE) /\ InOrderProfile(stated)
    BY <2>1 DEF TrueProfile, InOrderProfile
  <2> QED
    BY <1>0, <2>2 DEF stated, real, outcome
<1>10. CASE outcome \in {"screen_lock_timeout_too_long", "pass"}
  <2>1. stated.minutes = Minutes(Soonest(lock))
    BY <1>5, <1>10
  <2>2. /\ \A m \in stated.minutes : m \in Nat /\ m > 0 /\ \E t \in lock : t <= m * Minute
        /\ InTime(lock) <=> \E m \in stated.minutes : m \in 1..LimitMinutes
    BY <1>2, <2>1, StatedMinutes
  <2>3. stated.ok <=> InTime(lock)
    BY <1>0, <1>6, <1>7, <1>10
  <2>4. TrueProfile(stated, real, FALSE) /\ InOrderProfile(stated)
    BY <1>2, <2>2, <2>3 DEF TrueProfile, InOrderProfile
  <2> QED
    BY <1>0, <2>4 DEF stated, real, outcome
<1> QED
  BY <1>4, <1>8, <1>9, <1>10

\* A profile of Windows: no time stands for never, unless the verdict is open.
LEMMA WindowsDetailIsSound ==
  ASSUME NEW display, NEW times \in SUBSET Nat, \A t \in times : t > 0,
         NEW real, times \subseteq real, NEW open, ~open /\ times = {} => real = {}
  PROVE  /\ TrueProfile(WindowsDetail(display, times), real, open)
         /\ InOrderProfile(WindowsDetail(display, times))
         /\ WindowsDetail(display, times).ok <=> InTime(times)
<1> DEFINE stated == WindowsDetail(display, times)
<1>1. /\ stated.minutes = Minutes(Soonest(IF times = {} THEN {0} ELSE times))
      /\ stated.ok <=> InTime(times)
  BY DEF WindowsDetail, ProfileDetail, InOrder
<1> HIDE DEF stated
<1>2. CASE times = {}
  <2>1. stated.minutes = {0} /\ ~stated.ok
    BY <1>1, <1>2, ZeroMinutes DEF InTime
  <2> QED
    BY <1>1, <1>2, <2>1, LimitIsPositive DEF TrueProfile, InOrderProfile, stated
<1>3. CASE times # {}
  <2>1. stated.minutes = Minutes(Soonest(times))
    BY <1>1, <1>3
  <2>2. /\ \A m \in stated.minutes : m \in Nat /\ m > 0 /\ \E t \in times : t <= m * Minute
        /\ InTime(times) <=> \E m \in stated.minutes : m \in 1..LimitMinutes
    BY <2>1, StatedMinutes
  <2>3. TrueProfile(stated, real, open) /\ InOrderProfile(stated)
    BY <1>1, <2>2 DEF TrueProfile, InOrderProfile
  <2> QED
    BY <1>1, <2>3 DEF stated
<1> QED
  BY <1>2, <1>3

\* What the profiles of a report say, stated, of a computer with the profiles P that lock at
\* the times of real, next to the verdict.
Agrees(stated, P, real, verdict) ==
  /\ DOMAIN stated \subseteq {"any"} \cup P
  /\ \A p \in DOMAIN stated : \A q \in IF p = "any" THEN P ELSE {p} :
       TrueProfile(stated[p], real[q], verdict = "unknown")
  /\ DOMAIN stated # {} => (verdict = "pass" <=> \A p \in DOMAIN stated : stated[p].ok)
  /\ \A p \in DOMAIN stated : InOrderProfile(stated[p])

\* When every profile passes, so does the signal.
LEMMA AllPass ==
  ASSUME NEW f, NEW listed,
         listed = IF DOMAIN f.display = {} THEN {{}} ELSE {f.display[p] : p \in DOMAIN f.display},
         \A d \in listed : Outcome(d, f) = "pass"
  PROVE  ProfileScreenLock(f) = "pass"
<1>1. {f.display[p] : p \in DOMAIN f.display} = {} <=> DOMAIN f.display = {}
  OBVIOUS
<1> QED
  BY <1>1 DEF ProfileScreenLock

\* macOS and Linux: every profile that is stated.
LEMMA ProfilesAgree ==
  ASSUME NEW f, NEW P, P # {}, P = {"any"} \/ "any" \notin P,
         NEW asks \in BOOLEAN, NEW ts \in [P -> SUBSET Nat], NEW d \in Nat,
         DOMAIN f.display \in {{}, P},
         \A p \in P : Truthful(IF DOMAIN f.display = {} THEN {} ELSE f.display[p],
                               f, asks, ts[p], d),
         NEW real, \A p \in P : real[p] = RealLock(asks, ts[p], d)
  PROVE  Agrees(ProfileDetails(f).profiles, P, real, ProfileScreenLock(f))
<1> DEFINE Shown(p) == IF DOMAIN f.display = {} THEN {} ELSE f.display[p]
           listed  == IF DOMAIN f.display = {} THEN {{}}
                      ELSE {f.display[p] : p \in DOMAIN f.display}
           stated  == ProfileDetails(f).profiles
           verdict == ProfileScreenLock(f)
<1>1. \A p \in P : /\ TrueProfile(Detail(Shown(p), f), real[p], FALSE)
                   /\ InOrderProfile(Detail(Shown(p), f))
                   /\ Detail(Shown(p), f).ok <=> Outcome(Shown(p), f) = "pass"
  <2> TAKE p \in P
  <2>1. ts[p] \in SUBSET Nat /\ Truthful(Shown(p), f, asks, ts[p], d)
    OBVIOUS
  <2>2. PICK display, times : display = Shown(p) /\ times = ts[p]
    OBVIOUS
  <2>3. real[p] = RealLock(asks, times, d)
    BY <2>2
  <2> HIDE DEF Shown
  <2>4. /\ TrueProfile(Detail(display, f), RealLock(asks, times, d), FALSE)
        /\ InOrderProfile(Detail(display, f))
        /\ Detail(display, f).ok <=> Outcome(display, f) = "pass"
    BY <2>1, <2>2, DetailIsSound
  <2> QED
    BY <2>2, <2>3, <2>4
<1>2. /\ \A p \in P : Shown(p) \in listed
      /\ \A e \in listed : \E p \in P : e = Shown(p)
  OBVIOUS
<1>3. verdict = "pass" <=> \A e \in listed : Outcome(e, f) = "pass"
  BY ProfilesDecide, AllPass
<1>4. verdict = "pass" <=> \A p \in P : Detail(Shown(p), f).ok
  <2> HIDE DEF Shown, listed, verdict
  <2> QED
    BY <1>1, <1>2, <1>3
<1>5. \/ DOMAIN stated = {}
      \/ DOMAIN f.display = {} /\ stated = [p \in {"any"} |-> Detail({}, f)]
      \/ DOMAIN f.display = P /\ stated = [p \in P |-> Detail(f.display[p], f)]
  BY DEF ProfileDetails, NoDetail, LockDetail
<1>6. ASSUME NEW profile, NEW times, NEW open, TrueProfile(profile, times, FALSE)
      PROVE  TrueProfile(profile, times, open)
  BY <1>6 DEF TrueProfile
<1> HIDE DEF stated, verdict
<1>7. CASE DOMAIN stated = {}
  <2>1. Agrees(stated, P, real, verdict)
    BY <1>7 DEF Agrees
  <2> QED
    BY <2>1 DEF stated, verdict
<1>8. CASE DOMAIN f.display = {} /\ stated = [p \in {"any"} |-> Detail({}, f)]
  <2>1. \A p \in P : Shown(p) = {}
    BY <1>8
  <2> HIDE DEF Shown
  <2>2. DOMAIN stated = {"any"} /\ stated["any"] = Detail({}, f)
    BY <1>8
  <2>3. /\ \A q \in P : TrueProfile(stated["any"], real[q], verdict = "unknown")
        /\ InOrderProfile(stated["any"])
        /\ verdict = "pass" <=> stated["any"].ok
    BY <1>1, <1>4, <1>6, <2>1, <2>2
  <2>4. Agrees(stated, P, real, verdict)
    BY <2>2, <2>3 DEF Agrees
  <2> QED
    BY <2>4 DEF stated, verdict
<1>9. CASE DOMAIN f.display = P /\ stated = [p \in P |-> Detail(f.display[p], f)]
  <2>1. \A p \in P : Shown(p) = f.display[p]
    BY <1>9
  <2> HIDE DEF Shown
  <2>2. DOMAIN stated = P /\ \A p \in P : stated[p] = Detail(Shown(p), f)
    BY <1>9, <2>1
  <2>3. /\ \A p \in P : /\ TrueProfile(stated[p], real[p], verdict = "unknown")
                        /\ InOrderProfile(stated[p])
        /\ verdict = "pass" <=> \A p \in P : stated[p].ok
    BY <1>1, <1>4, <1>6, <2>2
  <2>4. \A p \in P : \A q \in IF p = "any" THEN P ELSE {p} : q = p
    OBVIOUS
  <2>5. Agrees(stated, P, real, verdict)
    BY <2>2, <2>3, <2>4 DEF Agrees
  <2> QED
    BY <2>5 DEF stated, verdict
<1> QED
  BY <1>5, <1>7, <1>8, <1>9

\* What the report of the computer w states of its profiles.
DetailsAgree(w) ==
  Agrees(Details(w).profiles, Profiles(w), [p \in Profiles(w) |-> TrueTimes(w, p)], Verdict(w))

\* Where there is no detail there is nothing to be wrong.
LEMMA NothingStated ==
  ASSUME NEW w, Details(w) = NoDetail  PROVE DetailsAgree(w)
<1>1. DOMAIN Details(w).profiles = {}
  BY DEF NoDetail, LockDetail
<1> QED
  BY <1>1 DEF DetailsAgree, Agrees

\* GNOME: its one profile.
LEMMA GnomeDetailsAgree ==
  ASSUME NEW w \in Gnomes  PROVE DetailsAgree(w)
<1>1. w.kind = "gnome_lock" /\ w.s \in GnomeLocks
  BY DEF Gnomes, Computer
<1>2. w.s.enabled \in BOOLEAN /\ w.s.idle \in Nat /\ w.s.delay \in Nat
  BY <1>1 DEF GnomeLocks
<1>3. CASE ~GnomeIsRead
  <2>1. Details(w) = NoDetail
    BY <1>1, <1>3 DEF Details
  <2> QED
    BY <2>1, NothingStated
<1>4. CASE GnomeIsRead
  <2> DEFINE f  == GnomeLock(w.s)
             P  == {"any"}
             ts == [p \in P |-> {w.s.idle}]
             real == [p \in P |-> RealLock(w.s.enabled, ts[p], w.s.delay)]
  <2>1. /\ Details(w) = ProfileDetails(f) /\ Verdict(w) = ProfileScreenLock(f) /\ Profiles(w) = P
    BY <1>1, <1>4 DEF Details, Verdict, Profiles
  <2>2. [p \in P |-> TrueTimes(w, p)] = real
    BY <1>1 DEF TrueTimes, RealLock
  <2>3. /\ P # {} /\ P = {"any"} /\ DOMAIN f.display \in {{}, P} /\ ts \in [P -> SUBSET Nat]
        /\ \A p \in P : Truthful(IF DOMAIN f.display = {} THEN {} ELSE f.display[p],
                                 f, w.s.enabled, ts[p], w.s.delay)
    <3>1. DOMAIN f.display = {"any"}
      BY DEF GnomeLock
    <3>2. Truthful(f.display["any"], f, w.s.enabled, {w.s.idle}, w.s.delay)
      BY <1>1, GnomeIsTruthful
    <3> HIDE DEF f
    <3> QED
      BY <1>2, <3>1, <3>2
  <2> HIDE DEF f, P, ts
  <2>4. Agrees(ProfileDetails(f).profiles, P, real, ProfileScreenLock(f))
    <3>1. \A p \in P : real[p] = RealLock(w.s.enabled, ts[p], w.s.delay)
      OBVIOUS
    <3> HIDE DEF real
    <3> QED
      BY <1>2, <2>3, <3>1, ProfilesAgree
  <2> QED
    BY <2>1, <2>2, <2>4 DEF DetailsAgree
<1> QED
  BY <1>3, <1>4

\* macOS: every profile that pmset lists.
LEMMA MacDetailsAgree ==
  ASSUME NEW w \in MacLocked, ReadAllOf(w)  PROVE DetailsAgree(w)
<1>1. w.kind = "mac_lock" /\ w.s \in MacLocks /\ ProfileIsWhole(w.s) /\ "managed" \in got
  BY NamesOfSources DEF MacLocked, Computer, ReadAllOf, Reads
<1>2. PICK d \in Nat : MacDelay(w.s) = {d}
  BY <1>1, MacSettings
<1>3. CASE "console" \notin got
  <2>1. Details(w) = NoDetail
    BY <1>1, <1>3 DEF Details
  <2> QED
    BY <2>1, NothingStated
<1>4. CASE "console" \in got
  <2> DEFINE f  == MacLock(w.s)
             P  == DOMAIN w.s.display
             ts == [p \in P |-> {w.s.display[p]} \cup MacSaver(w.s)]
             real == [p \in P |-> TrueTimes(w, p)]
  <2>1. /\ Details(w) = ProfileDetails(f) /\ Verdict(w) = ProfileScreenLock(f) /\ Profiles(w) = P
    BY <1>1, <1>4 DEF Details, Verdict, Profiles
  <2>2. P # {} /\ "any" \notin P /\ \A p \in P : w.s.display[p] \in Nat
    BY <1>1 DEF MacLocks
  <2>3. MacAsks(w.s) \in BOOLEAN /\ MacSaver(w.s) \in SUBSET Nat
    BY <1>1, MacSettings DEF Optional
  <2>4. DOMAIN f.display \in {{}, P}
    BY DEF MacLock, Pmset
  <2>5. ts \in [P -> SUBSET Nat]
    BY <2>2, <2>3
  <2>6. \A p \in P : Truthful(IF DOMAIN f.display = {} THEN {} ELSE f.display[p],
                              f, MacAsks(w.s), ts[p], d)
    BY <1>1, <1>2, MacIsTruthful
  <2>7. \A p \in P : TrueTimes(w, p) = RealLock(MacAsks(w.s), ts[p], d)
    <3>1. \A p \in P : TrueTimes(w, p) = MacTimes(w.s, p)
      BY <1>1 DEF TrueTimes
    <3> QED
      BY <1>1, <1>2, <3>1, ProfileWins
  <2>8. \A p \in P : real[p] = RealLock(MacAsks(w.s), ts[p], d)
    BY <2>7
  <2>9. real = [p \in Profiles(w) |-> TrueTimes(w, p)]
    BY <2>1
  <2> HIDE DEF f, P, ts, real
  <2>10. Agrees(ProfileDetails(f).profiles, P, real, ProfileScreenLock(f))
    BY <1>2, <2>2, <2>3, <2>4, <2>5, <2>6, <2>8, ProfilesAgree
  <2> QED
    BY <2>1, <2>9, <2>10 DEF DetailsAgree
<1> QED
  BY <1>3, <1>4

\* Windows: the profiles together when one mechanism decides, each of them otherwise.
LEMMA WindowsDetailsAgree ==
  ASSUME NEW w \in WindowsLocked, ReadAllOf(w)  PROVE DetailsAgree(w)
<1>1. w.kind = "windows_lock" /\ w.s \in WindowsLocks /\ "registry" \in got
  BY NamesOfSources DEF WindowsLocked, Computer, ReadAllOf, Reads
<1> DEFINE f  == WindowsLock(w.s)
           ac == LockTimes(f, f.displayAC, f.lockAC)
           dc == LockTimes(f, f.displayDC, f.lockDC)
           always == AlwaysLocks(w.s)
           ind    == Independent(f)
           Wake(p) == IF w.s.onWake[p] = 1 THEN Locked({w.s.display[p]}, WakeDelay(w.s)) ELSE {}
           real   == [p \in Profiles(w) |-> TrueTimes(w, p)]
           stated == Details(w).profiles
           verdict == WindowsScreenLock(f)
<1>2. Profiles(w) = {"ac", "battery"}
  BY <1>1 DEF Profiles, WindowsLocks
<1>3. real["ac"] = always \cup Wake("ac") /\ real["battery"] = always \cup Wake("battery")
  BY <1>1, <1>2, WindowsLocksByEither DEF TrueTimes
<1>4. ind \subseteq always /\ (SaverKnown(f) => ind = always) /\ ind \in SUBSET Nat
  BY <1>1, IndependentIsTrue
<1>5. \A t \in ind : t > 0
  BY DEF Independent, Positive
<1>6. DisplayKnown(f) => ac = ind \cup Wake("ac") /\ dc = ind \cup Wake("battery")
  BY <1>1, WakeIsTrue
<1>7. \A p \in {"ac", "battery"} : Wake(p) \in SUBSET Nat /\ \A t \in Wake(p) : t > 0
  <2>1. \A p \in {"ac", "battery"} : w.s.display[p] \in Nat
    BY <1>1, WindowsSettings
  <2>2. WakeDelay(w.s) = {} \/ \E d \in Nat : WakeDelay(w.s) = {d}
    BY <1>1, WindowsSettings DEF WakeDelay, Optional
  <2>3. ASSUME NEW n \in Nat, NEW d \in Nat
        PROVE  \A t \in Locked({n}, {d}) : t \in Nat /\ t > 0
    <3>1. Locked({n}, {d}) = {t + EffectiveDelay(d) : t \in Positive({n})}
      BY LockedAfter
    <3>2. EffectiveDelay(d) \in Nat
      BY DEF EffectiveDelay
    <3> QED
      BY <2>3, <3>1, <3>2 DEF Positive
  <2>4. \A n : Locked({n}, {}) = {}
    BY DEF Locked
  <2> QED
    BY <2>1, <2>2, <2>3, <2>4
<1>8. Verdict(w) = verdict
  BY <1>1 DEF Verdict
<1>9. stated = IF InTime(ind) \/ ~DisplayKnown(f)
                 THEN [p \in {"any"} |-> ProfileDetail({}, ind, InTime(ind))]
                 ELSE [p \in {"ac", "battery"} |->
                         IF p = "ac" THEN WindowsDetail(f.displayAC, ac)
                                     ELSE WindowsDetail(f.displayDC, dc)]
  BY <1>1 DEF Details, WindowsDetails, LockDetail
<1>10. /\ InTime(ind) => verdict = "pass"
       /\ ~InTime(ind) /\ ~DisplayKnown(f) => verdict = "unknown"
       /\ ~InTime(ind) /\ DisplayKnown(f) =>
            /\ verdict = "pass" <=> InTime(ac) /\ InTime(dc)
            /\ verdict = "unknown" <=> ~(InTime(ac) /\ InTime(dc)) /\ ~SaverKnown(f)
  BY DEF WindowsScreenLock
<1> HIDE DEF f, always, Wake, real, stated, verdict, ind, ac, dc
<1>11. CASE InTime(ind) \/ ~DisplayKnown(f)
  <2> DEFINE one == ProfileDetail({}, ind, InTime(ind))
  <2>1. stated = [p \in {"any"} |-> one]
    BY <1>9, <1>11
  <2>2. one.minutes = Minutes(Soonest(ind)) /\ (one.ok <=> InTime(ind))
    BY DEF ProfileDetail
  <2> HIDE DEF one
  <2>3. /\ \A m \in one.minutes : m \in Nat /\ m > 0 /\ \E t \in ind : t <= m * Minute
        /\ InTime(ind) <=> \E m \in one.minutes : m \in 1..LimitMinutes
    BY <1>4, <1>5, <2>2, StatedMinutes
  <2>4. ind \subseteq real["ac"] /\ ind \subseteq real["battery"]
    BY <1>3, <1>4
  <2>5. \A q \in {"ac", "battery"} : TrueProfile(one, real[q], verdict = "unknown")
    BY <2>3, <2>4 DEF TrueProfile
  <2>6. DOMAIN stated = {"any"} /\ stated["any"] = one
    BY <2>1
  <2>7. InOrderProfile(one)
    BY <2>2, <2>3 DEF InOrderProfile
  <2>8. verdict = "pass" <=> one.ok
    BY <1>10, <1>11, <2>2
  <2>9. Agrees(stated, {"ac", "battery"}, real, verdict)
    BY <2>5, <2>6, <2>7, <2>8 DEF Agrees
  <2> QED
    BY <1>2, <1>8, <2>9 DEF DetailsAgree, stated, real
<1>12. CASE ~InTime(ind) /\ DisplayKnown(f)
  <2> DEFINE onAC == WindowsDetail(f.displayAC, ac)
             onDC == WindowsDetail(f.displayDC, dc)
             open == verdict = "unknown"
  <2>1. /\ ac = ind \cup Wake("ac") /\ dc = ind \cup Wake("battery")
    BY <1>6, <1>12
  <2>2. /\ ac \in SUBSET Nat /\ \A t \in ac : t > 0
        /\ dc \in SUBSET Nat /\ \A t \in dc : t > 0
    BY <1>4, <1>5, <1>7, <2>1
  <2>3. ac \subseteq real["ac"] /\ dc \subseteq real["battery"]
    BY <1>3, <1>4, <2>1
  <2>4. /\ ~open /\ ac = {} => real["ac"] = {}
        /\ ~open /\ dc = {} => real["battery"] = {}
    <3>1. ~InTime({})
      BY DEF InTime
    <3>2. ASSUME ~open, ac = {} \/ dc = {}  PROVE ind = always
      BY <1>4, <1>10, <1>12, <3>1, <3>2
    <3> QED
      BY <1>3, <2>1, <3>2
  <2>5. /\ TrueProfile(onAC, real["ac"], open) /\ InOrderProfile(onAC)
        /\ onAC.ok <=> InTime(ac)
    BY <2>2, <2>3, <2>4, WindowsDetailIsSound
  <2>6. /\ TrueProfile(onDC, real["battery"], open) /\ InOrderProfile(onDC)
        /\ onDC.ok <=> InTime(dc)
    BY <2>2, <2>3, <2>4, WindowsDetailIsSound
  <2>7. /\ DOMAIN stated = {"ac", "battery"}
        /\ stated["ac"] = onAC /\ stated["battery"] = onDC
    BY <1>9, <1>12
  <2> HIDE DEF onAC, onDC
  <2>8. verdict = "pass" <=> onAC.ok /\ onDC.ok
    BY <1>10, <1>12, <2>5, <2>6
  <2>9. \A p \in {"ac", "battery"} : \A q \in IF p = "any" THEN {"ac", "battery"} ELSE {p} : q = p
    OBVIOUS
  <2>10. \A p \in DOMAIN stated : /\ TrueProfile(stated[p], real[p], open)
                                  /\ InOrderProfile(stated[p])
    BY <2>5, <2>6, <2>7
  <2>11. Agrees(stated, {"ac", "battery"}, real, verdict)
    BY <2>7, <2>8, <2>9, <2>10 DEF Agrees
  <2> QED
    BY <1>2, <1>8, <2>11 DEF DetailsAgree, stated, real
<1> QED
  BY <1>11, <1>12

\* The detail of the screen lock is true: what it says of a profile holds of the computer
\* under every power profile it stands for, and it never contradicts the verdict.
THEOREM DetailsAreTrue ==
  ASSUME Worlds \subseteq Honest
  PROVE  Spec => []DetailIsTrue
<1>1. ReadsAll => DetailIsTrue
  <2> SUFFICES ASSUME ReadsAll, Done  PROVE DetailIsTrue
    BY DEF DetailIsTrue
  <2>1. world \in Honest /\ ReadAllOf(world)
    BY DEF ReadsAll, ReadAllOf, Done, Names
  <2>2. DetailsAgree(world)
    <3>1. CASE world \in UNION {MacLocked, Gnomes, WindowsLocked}
      BY <2>1, <3>1, MacDetailsAgree, GnomeDetailsAgree, WindowsDetailsAgree
    <3>2. CASE world \notin UNION {MacLocked, Gnomes, WindowsLocked}
      <4>1. world.kind \notin {"mac_lock", "gnome_lock", "windows_lock"}
        BY <2>1, <3>2 DEF Honest, Computer, Macs, WindowsMachines, Apts, Gatekeepers, Antiviruses,
                          ClamAVs, FileVaults, BitLockers, Roots
      <4>2. Details(world) = NoDetail
        BY <4>1 DEF Details
      <4> QED
        BY <4>2, NothingStated
    <3> QED
      BY <3>1, <3>2
  <2> DEFINE stated == Details(world).profiles
             real   == [p \in Profiles(world) |-> TrueTimes(world, p)]
  <2>3. Agrees(stated, Profiles(world), real, Verdict(world))
    BY <2>2 DEF DetailsAgree
  <2>4. \A q \in Profiles(world) : real[q] = TrueTimes(world, q)
    OBVIOUS
  <2> HIDE DEF stated, real
  <2>5. ASSUME NEW p \in DOMAIN stated, NEW m \in stated[p].minutes,
               NEW q \in IF p = "any" THEN Profiles(world) ELSE {p}
        PROVE  /\ m > 0 => \E t \in TrueTimes(world, q) : t <= m * Minute
               /\ m = 0 /\ Verdict(world) # "unknown" => TrueTimes(world, q) = {}
    <3>1. q \in Profiles(world)
      BY <2>3, <2>5 DEF Agrees
    <3> QED
      BY <2>3, <2>4, <2>5, <3>1 DEF Agrees, TrueProfile
  <2>6. /\ DOMAIN stated # {} => (Verdict(world) = "pass" <=> \A p \in DOMAIN stated : stated[p].ok)
        /\ \A p \in DOMAIN stated : stated[p].ok <=> \E m \in stated[p].minutes : m \in 1..LimitMinutes
    BY <2>3 DEF Agrees, InOrderProfile
  <2> QED
    BY <2>5, <2>6 DEF DetailIsTrue, stated
<1> QED
  BY <1>1, ChecksReadAll, PTL

------------------------------------------------------------------------------
(* A computer that was read in full.                                        *)

ReadInFull(w) == Names(Sources(w.kind)) \subseteq got

\* One profile.
LEMMA OutcomeIsDecided ==
  ASSUME NEW display, NEW f, NEW asks \in BOOLEAN, NEW ts \in SUBSET Nat, NEW d \in Nat,
         Truthful(display, f, asks, ts, d), f.password # "unknown", Complete(display, f)
  PROVE  Outcome(display, f) # "unknown"
<1>1. f.password # "off" => KnownDelay(f) = {d}
  BY DEF Truthful
<1>2. f.password # "off" => Lock(display, f) = {t + EffectiveDelay(d) : t \in Idle(display, f)}
  BY <1>1, OneDelay DEF Lock
<1>3. f.password # "off" /\ Lock(display, f) = {} => Idle(display, f) = {}
  BY <1>2
<1> QED
  BY <1>3 DEF Outcome

\* GNOME, all four settings read.
LEMMA GnomeIsDecided ==
  ASSUME NEW w \in Gnomes, ReadInFull(w)  PROVE Verdict(w) # "unknown"
<1>1. /\ w.kind = "gnome_lock" /\ w.s \in GnomeLocks
      /\ {"bus", "idle", "enabled", "delay"} \subseteq got
  BY NamesOfSources DEF Gnomes, Computer, ReadInFull, Reads
<1>2. w.s.enabled \in BOOLEAN /\ {w.s.idle} \in SUBSET Nat /\ w.s.delay \in Nat
  BY <1>1 DEF GnomeLocks
<1> DEFINE f == GnomeLock(w.s)
<1>3. /\ DOMAIN f.display = {"any"} /\ f.password # "unknown"
      /\ Complete(f.display["any"], f)
  BY <1>1 DEF GnomeLock, GnomePassword, AskedAfter, Got, Complete
<1>4. Truthful(f.display["any"], f, w.s.enabled, {w.s.idle}, w.s.delay)
  BY <1>1, GnomeIsTruthful
<1>5. Verdict(w) = ProfileScreenLock(f)
  BY <1>1 DEF Verdict, GnomeIsRead
<1> HIDE DEF f
<1>6. Outcome(f.display["any"], f) # "unknown"
  BY <1>2, <1>3, <1>4, OutcomeIsDecided
<1>7. PICK listed : listed = IF DOMAIN f.display = {} THEN {{}}
                             ELSE {f.display[p] : p \in DOMAIN f.display}
  OBVIOUS
<1>8. \A e \in listed : Outcome(e, f) # "unknown"
  BY <1>3, <1>6, <1>7
<1> QED
  BY <1>5, <1>7, <1>8, ProfilesDecide

\* macOS, all seven sources read.
LEMMA MacLockIsDecided ==
  ASSUME NEW w \in MacLocked, ReadInFull(w)  PROVE Verdict(w) # "unknown"
<1>1. /\ w.kind = "mac_lock" /\ w.s \in MacLocks
      /\ {"console", "pmset", "battery", "ac", "sysadminctl", "saver", "managed"} \subseteq got
  BY NamesOfSources DEF MacLocked, Computer, ReadInFull, Reads
<1>2. PICK d \in Nat : MacDelay(w.s) = {d}
  BY <1>1, MacSettings
<1> DEFINE f == MacLock(w.s)
           P == DOMAIN w.s.display
           ts == [p \in P |-> {w.s.display[p]} \cup MacSaver(w.s)]
<1>3. P # {} /\ P \subseteq {"ac", "battery"} /\ \A p \in P : w.s.display[p] \in Nat
  BY <1>1 DEF MacLocks
<1>4. MacAsks(w.s) \in BOOLEAN /\ MacSaver(w.s) \in SUBSET Nat
  BY <1>1, MacSettings DEF Optional
<1>5. f.display = [p \in P |-> {w.s.display[p]}]
  BY <1>1, <1>3 DEF MacLock, Pmset, Got
<1>6. f.password # "unknown" /\ f.saverKnown
  BY <1>1 DEF MacLock, AskedAfter, Sysadminctl, Screensaver
<1>7. \A p \in P : Truthful(IF DOMAIN f.display = {} THEN {} ELSE f.display[p],
                            f, MacAsks(w.s), ts[p], d)
  BY <1>1, <1>2, MacIsTruthful
<1>8. Verdict(w) = ProfileScreenLock(f)
  BY <1>1 DEF Verdict
<1> HIDE DEF f
<1>9. ASSUME NEW p \in P  PROVE Outcome(f.display[p], f) # "unknown"
  <2>1. Truthful(f.display[p], f, MacAsks(w.s), ts[p], d)
    BY <1>3, <1>5, <1>7
  <2>2. Complete(f.display[p], f)
    BY <1>5, <1>6 DEF Complete
  <2>3. ts[p] \in SUBSET Nat
    BY <1>3, <1>4
  <2> HIDE DEF ts
  <2> QED
    BY <1>2, <1>4, <1>6, <2>1, <2>2, <2>3, OutcomeIsDecided
<1>10. DOMAIN f.display = P /\ P # {}
  BY <1>3, <1>5
<1> HIDE DEF P, ts
<1>11. PICK listed : listed = IF DOMAIN f.display = {} THEN {{}}
                              ELSE {f.display[p] : p \in DOMAIN f.display}
  OBVIOUS
<1>12. \A e \in listed : Outcome(e, f) # "unknown"
  BY <1>9, <1>10, <1>11
<1> QED
  BY <1>8, <1>11, <1>12, ProfilesDecide

\* Windows, all sources read of a computer that has the settings.
LEMMA WindowsLockIsDecided ==
  ASSUME NEW w \in WindowsLocked, ReadInFull(w), SaverIsSet(w.s)  PROVE Verdict(w) # "unknown"
<1>1. /\ w.kind = "windows_lock" /\ w.s \in WindowsLocks
      /\ {"active", "secure", "timeout", "registry", "video", "console"} \subseteq got
      /\ \A n \in {"active", "secure", "timeout"} : InForce(w.s, n) # {}
  BY NamesOfSources DEF WindowsLocked, Computer, ReadInFull, Reads, SaverIsSet
<1> DEFINE f == WindowsLock(w.s)
<1>2. \A n \in {"program", "active", "secure"} : InForce(w.s, n) \in Optional(BOOLEAN)
  BY <1>1, WindowsSettings
<1>3. \A n : Effective(w.s.policy[n], w.s.user[n]) = InForce(w.s, n)
  BY DEF Effective, InForce
<1>4. Effective(w.s.policy.program, w.s.user.program) = InForce(w.s, "program")
  BY DEF Effective, InForce
<1>5. /\ f.configured = Effective(InForce(w.s, "program"), {FALSE})
      /\ f.active = InForce(w.s, "active")
      /\ f.secure = InForce(w.s, "secure") /\ f.timeout = InForce(w.s, "timeout")
  BY <1>1, <1>3, <1>4 DEF WindowsLock, Got
<1>6. DisplayKnown(f)
  <2>1. /\ Powercfg(Printed(w.s.display)) = [ac |-> {w.s.display.ac}, battery |-> {w.s.display.battery}]
        /\ Powercfg(Printed(w.s.onWake)) = [ac |-> {w.s.onWake.ac}, battery |-> {w.s.onWake.battery}]
    BY PowercfgReads
  <2> DEFINE display == Powercfg(IF "video" \in got THEN Printed(w.s.display) ELSE <<>>)
             console == Powercfg(IF "console" \in got THEN Printed(w.s.onWake) ELSE <<>>)
             never   == Got("registry", w.s.delay) = {Never}
  <2>2. /\ f.displayAC = display.ac /\ f.displayDC = display.battery
        /\ f.lockAC = IF never THEN {FALSE} ELSE {v # 0 : v \in console["ac"]}
        /\ f.lockDC = IF never THEN {FALSE} ELSE {v # 0 : v \in console["battery"]}
    BY DEF WindowsLock
  <2>3. display.ac # {} /\ display.battery # {}
    BY <1>1, <2>1
  <2>4. console["ac"] # {} /\ console["battery"] # {}
    BY <1>1, <2>1
  <2> HIDE DEF f, display, console, never
  <2> QED
    BY <2>2, <2>3, <2>4 DEF DisplayKnown
<1>7. Verdict(w) = WindowsScreenLock(f)
  BY <1>1 DEF Verdict
<1> HIDE DEF f
<1>8. f.configured \in {{TRUE}, {FALSE}} /\ f.active \in {{TRUE}, {FALSE}}
  BY <1>1, <1>2, <1>5 DEF Effective, Optional
<1>9. SaverKnown(f)
  BY <1>1, <1>5, <1>8 DEF SaverKnown
<1> QED
  BY <1>6, <1>7, <1>9 DEF WindowsScreenLock

\* The checks whose rules are a table.
LEMMA OthersAreDecided ==
  ASSUME NEW w \in UNION {Apts, FileVaults, BitLockers, Antiviruses, WindowsMachines, Gatekeepers,
                          ClamAVs},
         ReadInFull(w), Decidable(w)
  PROVE  Verdict(w) # "unknown"
<1>1. CASE w \in Apts
  <2>1. w.kind = "apt_updates" /\ "apt" \in got
    BY <1>1, NamesOfSources DEF Apts, Computer, ReadInFull, Reads
  <2> QED
    BY <2>1 DEF Verdict, Updates, AptUpdates, Got
<1>2. CASE w \in FileVaults
  <2>1. w.kind = "filevault" /\ "fdesetup" \in got /\ w.s.text \in FileVaultTexts
    BY <1>2, NamesOfSources DEF FileVaults, Computer, ReadInFull, Reads
  <2>2. FileVault(w.s.text) \in {{"on"}, {"off"}, {"encrypting"}, {"decrypting"}, {"pending_restart"}}
    BY <2>1 DEF FileVault, FileVaultTexts
  <2> QED
    BY <2>1, <2>2 DEF Verdict, Disk, Got
<1>3. CASE w \in BitLockers
  <2>1. w.kind = "bitlocker" /\ "volume" \in got /\ w.s.volume \in Volumes
    BY <1>3, NamesOfSources DEF BitLockers, Computer, ReadInFull, Reads
  <2>2. w.s.volume = "encrypted" => w.s.protection \in {"on", "off"}
    BY <1>3, <2>1 DEF BitLockers, Computer, Decidable
  <2>3. BitLocker(w.s) \in {{"on"}, {"off"}, {"encrypting"}, {"decrypting"}, {"suspended"}}
    BY <2>1, <2>2 DEF BitLocker, Volumes
  <2> QED
    BY <2>1, <2>3 DEF Verdict, Disk, Got
<1>4. CASE w \in Antiviruses
  <2>1. /\ w.kind = "windows_endpoint" /\ {"defender", "antivirus"} \subseteq got
        /\ w.s.mode # "unknown"
    BY <1>4, NamesOfSources DEF Antiviruses, Computer, ReadInFull, Reads, WindowsEndpoints
  <2>2. Verdict(w) = WindowsEndpoint(WindowsEndpointFacts(w.s))
    BY <2>1 DEF Verdict
  <2>3. /\ WindowsEndpointFacts(w.s).realtime # {} /\ WindowsEndpointFacts(w.s).others # {}
        /\ WindowsEndpointFacts(w.s).mode \notin {{}, {"unknown"}}
    BY <2>1 DEF WindowsEndpointFacts, Got
  <2> QED
    BY <2>2, <2>3 DEF WindowsEndpoint
<1>5. CASE w \in WindowsMachines
  <2>1. w.kind = "windows_updates"
    BY <1>5 DEF WindowsMachines, Computer
  <2>2. Verdict(w) = Updates(WindowsUpdates(w.s), "windows")
    BY <2>1 DEF Verdict
  <2>3. WindowsUpdates(w.s).check # {} /\ WindowsUpdates(w.s).download # {}
    BY DEF WindowsUpdates
  <2> QED
    BY <2>2, <2>3 DEF Updates
<1>6. CASE w \in Gatekeepers
  <2>1. w.kind = "mac_endpoint" /\ w.s \in MacEndpoints /\ {"spctl", "local", "managed"} \subseteq got
    BY <1>6, NamesOfSources DEF Gatekeepers, Computer, ReadInFull, Reads
  <2>2. w.s.managed \in Optional(UpdateKeys) /\ w.s.local \in UpdateKeys
    BY <2>1 DEF MacEndpoints
  <2>3. Verdict(w) = Endpoint(MacEndpoint(w.s))
    BY <2>1 DEF Verdict
  <2>4. MacEndpoint(w.s).gatekeeper # {} /\ MacEndpoint(w.s).systemData # {}
    BY <2>1, <2>2, SettingsAreRead DEF MacEndpoint, Got
  <2> QED
    BY <2>3, <2>4 DEF Endpoint
<1>7. CASE w \in ClamAVs
  <2>1. w.kind = "clamav" /\ "systemctl" \in got
    BY <1>7, NamesOfSources DEF ClamAVs, Computer, ReadInFull, Reads
  <2> QED
    BY <2>1 DEF Decidable, Verdict, BoolSignal, ClamAV, Got
<1> QED
  BY <1>1, <1>2, <1>3, <1>4, <1>5, <1>6, <1>7

\* The updates of macOS, both files and the schedule read.
LEMMA MacUpdatesAreDecided ==
  ASSUME NEW w \in Macs, ReadInFull(w)  PROVE Verdict(w) # "unknown"
<1>1. /\ w.kind = "mac_updates" /\ w.s \in MacUpdateSettings
      /\ {"schedule", "local", "managed"} \subseteq got
  BY NamesOfSources DEF Macs, Computer, ReadInFull, Reads
<1>2. w.s.managed \in Optional(UpdateKeys) /\ w.s.local \in UpdateKeys
  BY <1>1 DEF MacUpdateSettings
<1>3. Verdict(w) = Updates(MacUpdates(w.s), "darwin")
  BY <1>1 DEF Verdict
<1>4. /\ MacUpdates(w.s).download # {} /\ MacUpdates(w.s).responses # {}
      /\ MacUpdates(w.s).check # {}
  BY <1>1, <1>2, SettingsAreRead
<1> QED
  BY <1>3, <1>4 DEF Updates

\* The root of Linux, when it is a device.
LEMMA RootIsDecided ==
  ASSUME NEW w \in Roots, ReadInFull(w), w.s.isDevice  PROVE Verdict(w) # "unknown"
<1>1. /\ w.kind = "root_encryption" /\ w.s.ancestors # {} /\ {"findmnt", "lsblk"} \subseteq got
  BY NamesOfSources DEF Roots, Computer, ReadInFull, Reads
<1> QED
  BY <1>1 DEF Verdict, Disk, RootEncryption

\* A computer whose sources could all be read, and whose settings exist where the verdict
\* depends on them, gets a definite verdict.
THEOREM ReadMeansDecided ==
  ASSUME Worlds \subseteq Honest
  PROVE  Spec => []DecidedWhenRead
<1> DEFINE Known == world \in Worlds
<1>1. Init => Known
  BY DEF Init
<1>2. Known /\ [Next]_vars => Known'
  BY DEF Next, Read, ReadFails, vars
<1>3. Known => DecidedWhenRead
  <2> SUFFICES ASSUME world \in Honest, Decidable(world), ReadInFull(world)
               PROVE  Verdict(world) # "unknown"
    BY DEF DecidedWhenRead, ReadInFull, Names
  <2>1. CASE world \in Roots
    <3>1. world.s.isDevice
      BY <2>1 DEF Roots, Computer, Decidable
    <3> QED
      BY <2>1, <3>1, RootIsDecided
  <2>2. CASE world \in WindowsLocked
    <3>1. SaverIsSet(world.s)
      BY <2>2 DEF WindowsLocked, Computer, Decidable
    <3> QED
      BY <2>2, <3>1, WindowsLockIsDecided
  <2> QED
    BY <2>1, <2>2, MacLockIsDecided, GnomeIsDecided, MacUpdatesAreDecided, OthersAreDecided
    DEF Honest
<1> QED
  BY <1>1, <1>2, <1>3, PTL DEF Spec

=============================================================================
