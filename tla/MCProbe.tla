------------------------------- MODULE MCProbe -------------------------------
EXTENDS CopyProperties, TLC

Optional(S) == {{}} \cup {{v} : v \in S}

World(kind, settings, unreliable) ==
  {[kind |-> kind, s |-> s, unreliable |-> unreliable] : s \in settings}

\* A display timer of 0 never starts; the limit is two minutes of two seconds, and a
\* delay of one second is tolerated.
Profile(idle, ask, delay) == [idle |-> idle, ask |-> ask, delay |-> delay]

MacLocks ==
  [display : [{"ac"} -> {0, 3, 5}] \cup [{"ac", "battery"} -> {0, 3, 5}],
   saver   : Optional({0, 4, 6}),
   asked   : BOOLEAN,
   delay   : {{0}, {1}, {2}},
   managed : {{}, {Profile({0}, {}, {})}, {Profile({4}, {TRUE}, {})},
              {Profile({}, {FALSE}, {0})}, {Profile({}, {}, {0})}, {Profile({}, {}, {2})},
              {Profile({5}, {TRUE}, {0})}}]

GnomeLocks == [enabled : BOOLEAN, idle : {0, 3, 4, 5}, delay : {0, 1, 2}]

Saver(program, active, secure, timeout) ==
  [program |-> program, active |-> active, secure |-> secure, timeout |-> timeout]

WindowsLocks ==
  [policy : {Saver({}, {}, {}, {}), Saver({FALSE}, {}, {}, {}), Saver({}, {}, {TRUE}, {5})},
   user   : {Saver({}, {TRUE}, {TRUE}, {4}), Saver({TRUE}, {FALSE}, {TRUE}, {4})}
              \cup {Saver({TRUE}, {TRUE}, {secure}, {t}) : secure \in BOOLEAN, t \in {0, 4}},
   inactivity : Optional({0, 4, 5}),
   delay      : Optional({2, Never}),
   display    : [ac : {0, 3, 5}, battery : {3, 5}],
   onWake     : [ac : {0, 1}, battery : {0, 1}]]

Keys(f) == [check |-> f[1], download |-> f[2], responses |-> f[3], systemData |-> f[4]]
UpdateKeys == {Keys(f) : f \in [1..4 -> Optional(BOOLEAN)]}

\* The schedule command reports the setting the files state.
MacUpdateSettings ==
  {s \in [local : UpdateKeys, schedule : {{TRUE}, {FALSE}},
          managed : {{}} \cup {{Keys(f)} : f \in [1..4 -> {{}, {FALSE}}]}] :
     s.schedule = {MacOn(s, "check")}}

WindowsUpdateSettings ==
  [noAutoUpdate : Optional({0, 1}), auOptions : Optional({1, 2, 4}), level : Optional({1, 2, 4}),
   paused : BOOLEAN, startType : {"manual", "disabled"}]

Product(defender, state) == [defender |-> defender, state |-> state]

WindowsEndpoints ==
  [realtime : BOOLEAN, enabled : BOOLEAN, mode : {"normal", "passive", "edr_block", "off"},
   products : SUBSET {Product(TRUE, 397312), Product(FALSE, 397312), Product(FALSE, 401408),
                      Product(FALSE, 397328), Product(FALSE, 393216)}]

\* The text of fdesetup about a conversion names the state as well, and "decryption in
\* progress" contains "encryption in progress".
FileVaultTexts ==
  {{"filevault is on"}, {"filevault is off"}, {"filevault is off", "after the next restart"},
   {"filevault is on", "encryption in progress"},
   {"filevault is on", "encryption in progress", "decryption in progress"},
   {"filevault is off", "encryption in progress", "decryption in progress"}}

\* The computers, and the sources that may be unreadable, for which the code keeps its
\* promises.  Always readable are: managed files; the local Software Update preferences
\* beside managed ones; the registry values of the Windows screen lock other than the saver's;
\* every source of Windows Update.  What the code makes of them when they are not is
\* shown by the worlds below, as are the managed profiles that are left out here.
HonestWorlds ==
  World("mac_lock", {s \in MacLocks : ProfileIsWhole(s)},
        {"console", "pmset", "battery", "ac", "sysadminctl", "saver"})
    \cup World("gnome_lock", GnomeLocks, {"bus", "idle", "enabled", "delay"})
    \cup World("windows_lock", WindowsLocks, {"active", "secure", "timeout", "video", "console"})
    \cup World("mac_updates", MacUpdateSettings, {"schedule"})
    \cup World("mac_updates", {s \in MacUpdateSettings : s.managed = {}}, {"schedule", "local"})
    \cup World("windows_updates", WindowsUpdateSettings, {})
    \cup World("apt_updates", [check : Optional(BOOLEAN), download : Optional(BOOLEAN)], {"apt"})
    \cup World("mac_endpoint", {s @@ [gatekeeper |-> g] : s \in MacUpdateSettings, g \in BOOLEAN},
               {"spctl"})
    \cup World("mac_endpoint", {s @@ [gatekeeper |-> g] :
                 s \in {t \in MacUpdateSettings : t.managed = {}}, g \in BOOLEAN},
               {"spctl", "local"})
    \cup World("windows_endpoint", WindowsEndpoints, {"defender", "antivirus"})
    \cup World("clamav", [active : BOOLEAN], {"systemctl"})
    \cup World("filevault", [text : FileVaultTexts],
               {"fdesetup"})
    \cup World("bitlocker", [protection : {"on", "off", "unknown"},
                  volume : {"encrypted", "encrypting", "paused", "decrypting", "decrypted"}],
               {"volume"})
    \cup World("root_encryption",
             [isDevice : BOOLEAN, ancestors : (SUBSET {"lvm", "crypt", "part", "disk"}) \ {{}}],
             {"findmnt", "lsblk"})

\* Software Update preferences whose local file may be unreadable beside a managed one, ...
UnreadableWorlds ==
  World("mac_updates", {s \in MacUpdateSettings : s.managed # {}}, {"local"})

\* ... whose managed file may be, ...
UnreadableProfileWorlds == World("mac_updates", MacUpdateSettings, {"managed"})

\* ... and a managed screen saver that may be.
UnreadableSaverWorlds == World("mac_lock", {s \in MacLocks : ProfileIsWhole(s)}, {"managed"})

\* Windows Update with any of its sources unreadable.
UnreadableUpdateWorlds ==
  World("windows_updates", WindowsUpdateSettings, {"com", "policy", "pause", "service"})

\* A Windows screen lock whose registry values may be unreadable.
UnreadableRegistryWorlds == World("windows_lock", WindowsLocks, {"registry"})

\* Windows computers without a key for the screen-saver program, everything readable.
MissingKeyWorlds ==
  World("windows_lock", {s \in WindowsLocks : InForce(s, "program") = {}}, {})

\* Managed profiles that ask for a password the user does not want, without a delay, ...
AskingWorlds ==
  World("mac_lock", {s \in MacLocks : ~ProfileIsWhole(s) /\ ManagedAsk(s) = {TRUE}}, {})

\* ... and such that set a delay and leave it to the user whether a password is asked for.
DelayingWorlds ==
  World("mac_lock", {s \in MacLocks : ~ProfileIsWhole(s) /\ ManagedAsk(s) = {}}, {})

=============================================================================
