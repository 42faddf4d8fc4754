----------------------------- MODULE CopyProofs ------------------------------
(***************************************************************************)
(* What the page says of a check, for every time limit and every computer: *)
(* each row agrees with its verdict, and each line of the screen lock is   *)
(* true of the power profile it names.                                     *)
(***************************************************************************)
EXTENDS ProbeProofs, CopyProperties

------------------------------------------------------------------------------
(* What the page says.                                                      *)

Tones == {"ok", "info", "fail", "unknown"}

\* What a row needs: good news only with a pass, and then nothing else, and bad news that
\* says what is wrong with a failure, unless it is excused.
Speaks(lines, verdict, excused) ==
  /\ \A l \in lines : l.tone \in Tones
  /\ verdict = "pass" => lines # {} /\ \A l \in lines : l.tone = "ok"
  /\ Fails(verdict) => excused \/ \E l \in lines : l.tone = "fail" /\ l.says # "not_on"

Plain(lines) == \A l \in lines : l.power = ""

\* The parts of a line.
LEMMA LineHas ==
  ASSUME NEW tone, NEW says
  PROVE  /\ Line(tone, says).tone = tone /\ Line(tone, says).says = says
         /\ Line(tone, says).power = ""
  BY DEF Line

\* A row of one line.
LEMMA OneLine ==
  ASSUME NEW lines, NEW tone \in Tones, NEW says, lines = {Line(tone, says)}
  PROVE  /\ Plain(lines) /\ lines # {}
         /\ \A l \in lines : l.tone = tone
         /\ \E l \in lines : l.tone = tone /\ l.says = says
<1>1. PICK l : l = Line(tone, says)
  OBVIOUS
<1>2. l.tone = tone /\ l.says = says /\ l.power = "" /\ lines = {l}
  BY <1>1, LineHas
<1> QED
  BY <1>2 DEF Plain

\* The row of a computer agrees with the verdict when its lines do.
LEMMA RowSpeaks ==
  ASSUME NEW w, Speaks(Lines(w, Verdict(w)), Verdict(w), Details(w).password = "unknown")
  PROVE  LET row  == Row(w)
             tone == Headline({"pass", Status(Verdict(w))}, FALSE)
         IN  /\ row # {}
             /\ tone = "protected" <=> \A l \in row : l.tone = "ok"
             /\ tone = "attention" => \E l \in row :
                  l.tone = "fail" /\ (l.says = "not_on" => Details(w).password = "unknown")
             /\ tone = "verify" => \E l \in row : l.tone \in {"unknown", "fail"}
<1> DEFINE verdict  == Verdict(w)
           excused  == Details(w).password = "unknown"
           built    == Lines(w, verdict)
           generic  == IF Fails(verdict) /\ ~Failing(built) THEN {Line("fail", "not_on")}
                       ELSE IF verdict = "unknown" /\ \A l \in built : l.tone \in {"ok", "info"}
                         THEN {Line("unknown", "not_read")} ELSE {}
           lines    == built \cup generic
           explained == \E l \in lines : l.tone \notin {"ok", "info"}
           row      == Row(w)
           tone     == Headline({"pass", Status(verdict)}, FALSE)
<1>1. row = {l \in lines : verdict = "pass" \/ l.tone # "ok" \/ explained}
  BY DEF Row
<1>2. Speaks(built, verdict, excused)
  OBVIOUS
<1>3. /\ Line("fail", "not_on").tone = "fail" /\ Line("fail", "not_on").says = "not_on"
      /\ Line("unknown", "not_read").tone = "unknown"
  BY DEF Line
<1>4. /\ tone = "protected" <=> verdict = "pass"
      /\ tone = "attention" <=> Fails(verdict)
      /\ tone = "verify" <=> verdict = "unknown"
  BY DEF Headline, Status, Fails
<1>5. verdict = "pass" \/ verdict = "unknown" \/ Fails(verdict)
  BY DEF Fails
<1> HIDE DEF verdict, excused, built, tone, row
<1>6. CASE verdict = "pass"
  <2>1. generic = {} /\ ~Fails(verdict)
    BY <1>6 DEF Fails
  <2>2. row = built /\ row # {} /\ \A l \in row : l.tone = "ok"
    BY <1>1, <1>2, <1>6, <2>1 DEF Speaks
  <2> QED
    BY <1>4, <1>6, <2>1, <2>2 DEF verdict, excused, tone, row
<1>7. CASE verdict = "unknown"
  <2>1. ~Fails(verdict)
    BY <1>7 DEF Fails
  <2>2. PICK l \in lines : l.tone \in {"unknown", "fail"}
    <3>1. CASE \A l \in built : l.tone \in {"ok", "info"}
      BY <1>3, <1>7, <2>1, <3>1
    <3>2. CASE ~\A l \in built : l.tone \in {"ok", "info"}
      BY <1>2, <3>2 DEF Speaks, Tones
    <3> QED
      BY <3>1, <3>2
  <2>3. l \in row
    BY <1>1, <2>2
  <2> QED
    BY <1>4, <1>7, <2>1, <2>2, <2>3 DEF verdict, excused, tone, row
<1>8. CASE Fails(verdict)
  <2>1. verdict # "pass" /\ verdict # "unknown"
    BY <1>8 DEF Fails
  <2>2. PICK l \in lines : l.tone = "fail" /\ (l.says = "not_on" => excused)
    <3>1. CASE \E l \in built : l.tone = "fail" /\ l.says # "not_on"
      BY <3>1
    <3>2. CASE excused /\ Failing(built)
      BY <3>2 DEF Failing
    <3>3. CASE excused /\ ~Failing(built)
      BY <1>3, <1>8, <3>3
    <3> QED
      BY <1>2, <1>8, <3>1, <3>2, <3>3 DEF Speaks
  <2>3. l \in row
    BY <1>1, <2>2
  <2> QED
    BY <1>4, <1>8, <2>1, <2>2, <2>3 DEF verdict, excused, tone, row
<1> QED
  BY <1>5, <1>6, <1>7, <1>8

\* The row of a disk: its state says everything.
LEMMA DiskSpeaks ==
  ASSUME NEW state,
         state \in Optional({"on", "off", "encrypting", "decrypting", "suspended",
                             "pending_restart"}),
         NEW verdict, verdict = Disk(state), NEW lines, lines = DiskLines(state, verdict)
  PROVE  Speaks(lines, verdict, FALSE) /\ Plain(lines)
<1>1. CASE state = {}
  <2>1. verdict = "unknown"
    BY <1>1 DEF Disk
  <2>2. lines = {Line("unknown", "unread")}
    BY <1>1, <2>1 DEF DiskLines
  <2>3. Plain(lines) /\ \A l \in lines : l.tone = "unknown"
    BY <2>2, OneLine DEF Tones
  <2> QED
    BY <2>1, <2>3 DEF Speaks, Tones, Fails
<1>2. CASE state # {}
  <2>1. PICK s \in {"on", "off", "encrypting", "decrypting", "suspended", "pending_restart"} :
          state = {s}
    BY <1>2 DEF Optional
  <2>2. lines = {Line(IF s \in {"on", "encrypting"} THEN "ok" ELSE "fail", s)}
    BY <2>1 DEF DiskLines
  <2>3. verdict = "pass" <=> s \in {"on", "encrypting"}
    BY <2>1 DEF Disk
  <2>4. verdict # "unknown"
    BY <2>1 DEF Disk
  <2>5. PICK tone \in {"ok", "fail"} : tone = "ok" <=> s \in {"on", "encrypting"}
    OBVIOUS
  <2>6. lines = {Line(tone, s)} /\ tone \in Tones
    BY <2>2, <2>5 DEF Tones
  <2>7. /\ Plain(lines) /\ lines # {} /\ \A l \in lines : l.tone = tone
        /\ \E l \in lines : l.tone = tone /\ l.says = s
    BY <2>6, OneLine
  <2> QED
    BY <2>1, <2>3, <2>4, <2>5, <2>6, <2>7 DEF Speaks, Tones, Fails
<1> QED
  BY <1>1, <1>2

\* The row of the updates: what is off, or else the code.
LEMMA UpdatesSpeak ==
  ASSUME NEW f, NEW platform,
         f.check \in Optional(BOOLEAN), f.download \in Optional(BOOLEAN),
         f.paused \in Optional(BOOLEAN), f.policyDisabled \in Optional(BOOLEAN),
         platform = "darwin" => f.responses \in Optional(BOOLEAN)
  PROVE  LET lines == UpdatesLines(f, platform, Updates(f, platform)) IN
         Speaks(lines, Updates(f, platform), FALSE) /\ Plain(lines)
<1> DEFINE verdict == Updates(f, platform)
           Off(fact, says) == {Line("fail", says) : v \in fact \cap {FALSE}}
           toggles == [t \in {"download", "check"}
                               \cup (IF platform = "darwin" THEN {"responses"} ELSE {}) |-> f[t]]
           off     == IF platform = "linux" THEN {}
                      ELSE (UNION {Off(toggles[t], t) : t \in DOMAIN toggles})
                             \cup {Line("fail", "paused") : v \in f.paused \cap {TRUE}}
                             \cup {Line("fail", "policy") : v \in f.policyDisabled \cap {TRUE}}
           unread  == {Line("unknown", t) : t \in {u \in DOMAIN toggles :
                         platform = "darwin" /\ verdict = "unknown" /\ toggles[u] = {}}}
           named   == off \cup unread
           code    == CodeLine(named, verdict)
           lines   == IF named = {} /\ verdict = "pass" THEN {Line("ok", "on")}
                      ELSE named \cup code
           all     == lines \cup OtherwiseUnread(lines, verdict)
<1>1. UpdatesLines(f, platform, verdict) = all
  BY DEF UpdatesLines
<1>2. verdict \in {"automatic_updates_disabled", "automatic_updates_paused", "unknown", "pass"}
  BY DEF Updates
<1> DEFINE Reasons == {"check", "download", "responses", "paused", "policy",
                       "automatic_updates_disabled", "automatic_updates_paused"}
           Bad(l)  == \E x \in Reasons : l = Line("fail", x)
           Open(l) == \E x : l = Line("unknown", x)
<1>3. /\ \A l : Bad(l) => l.tone = "fail" /\ l.power = "" /\ l.says # "not_on"
      /\ \A l : Open(l) => l.tone = "unknown" /\ l.power = ""
  <2>1. ASSUME NEW l, Bad(l)  PROVE l.tone = "fail" /\ l.power = "" /\ l.says # "not_on"
    <3>1. PICK x \in Reasons : l = Line("fail", x)
      BY <2>1
    <3>2. /\ Line("fail", x).tone = "fail" /\ Line("fail", x).power = ""
          /\ Line("fail", x).says = x
      BY LineHas
    <3> QED
      BY <3>1, <3>2
  <2>2. ASSUME NEW l, Open(l)  PROVE l.tone = "unknown" /\ l.power = ""
    <3>1. PICK x : l = Line("unknown", x)
      BY <2>2
    <3> QED
      BY <3>1, LineHas
  <2> HIDE DEF Bad, Open
  <2> QED
    BY <2>1, <2>2
<1>4. \A t \in DOMAIN toggles : t \in {"check", "download", "responses"}
  <2>1. DOMAIN toggles =
          {"download", "check"} \cup (IF platform = "darwin" THEN {"responses"} ELSE {})
    OBVIOUS
  <2> HIDE DEF toggles
  <2> QED
    BY <2>1
<1>5. \A l \in off : Bad(l)
  <2>1. \A t \in DOMAIN toggles : \A l \in Off(toggles[t], t) : Bad(l)
    BY <1>4
  <2> HIDE DEF toggles, Off
  <2> QED
    BY <2>1
<1>6. ASSUME verdict = "pass"  PROVE off = {}
  <2>1. /\ FALSE \notin f.check /\ FALSE \notin f.download /\ TRUE \notin f.paused
        /\ TRUE \notin f.policyDisabled /\ (platform = "darwin" => FALSE \notin f.responses)
    <3>1. /\ {FALSE} # f.check /\ {FALSE} # f.download /\ {TRUE} # f.paused
          /\ {TRUE} # f.policyDisabled /\ (platform = "darwin" => {FALSE} # f.responses)
      BY <1>6 DEF Updates
    <3>2. \A fact \in Optional(BOOLEAN) : \A v \in BOOLEAN : fact # {v} => v \notin fact
      BY DEF Optional
    <3> QED
      BY <3>1, <3>2
  <2>2. \A t \in DOMAIN toggles : FALSE \notin toggles[t]
    BY <2>1
  <2> HIDE DEF toggles
  <2>3. \A t \in DOMAIN toggles : \A l : l \notin Off(toggles[t], t)
    BY <2>2
  <2> HIDE DEF Off
  <2> QED
    BY <2>1, <2>3
<1>7. (\A l \in unread : Open(l)) /\ (verdict # "unknown" => unread = {})
  OBVIOUS
<1>8. code = IF ~Failing(named) /\ verdict \in {"automatic_updates_disabled",
                                                "automatic_updates_paused"}
               THEN {Line("fail", verdict)} ELSE {}
  BY DEF CodeLine
<1>9. /\ \A l \in code : Bad(l)
      /\ verdict = "pass" => code = {}
      /\ Fails(verdict) => \E l \in named \cup code : l.tone = "fail"
  <2> HIDE DEF code, named, verdict
  <2>1. Line("fail", verdict).tone = "fail"
    BY LineHas
  <2> QED
    BY <1>2, <1>8, <2>1 DEF Failing, Fails
<1>10. \A ls : \A l \in OtherwiseUnread(ls, verdict) : verdict = "unknown" /\ Open(l)
  BY DEF OtherwiseUnread
<1>11. Line("ok", "on").tone = "ok" /\ Line("ok", "on").power = ""
  BY LineHas
<1> HIDE DEF verdict, off, unread, code, Bad, Open
<1>12. Plain(all) /\ \A l \in all : l.tone \in Tones
  BY <1>3, <1>5, <1>7, <1>9, <1>10, <1>11 DEF Plain, Tones
<1>13. ASSUME verdict = "pass"  PROVE all # {} /\ \A l \in all : l.tone = "ok"
  <2>1. lines = {Line("ok", "on")}
    BY <1>6, <1>7, <1>13
  <2> HIDE DEF lines
  <2>2. all = {Line("ok", "on")}
    BY <1>10, <1>13, <2>1
  <2> QED
    BY <1>11, <2>2
<1>14. ASSUME Fails(verdict)  PROVE \E l \in all : l.tone = "fail" /\ l.says # "not_on"
  <2>1. verdict # "pass" /\ verdict # "unknown"
    BY <1>14 DEF Fails
  <2> QED
    BY <1>3, <1>5, <1>7, <1>9, <1>14, <2>1
<1>15. Speaks(all, verdict, FALSE)
  BY <1>12, <1>13, <1>14 DEF Speaks
<1> QED
  BY <1>1, <1>12, <1>15 DEF verdict

\* The line of a fact that may not have been read.
LEMMA OnOffLines ==
  ASSUME NEW fact \in Optional(BOOLEAN), NEW says
  PROVE  \/ fact = {} /\ OnOff(fact, says) = {}
         \/ fact = {TRUE} /\ OnOff(fact, says) = {Line("ok", says)}
         \/ fact = {FALSE} /\ OnOff(fact, says) = {Line("fail", says)}
<1>1. CASE fact = {}
  BY <1>1 DEF OnOff
<1>2. CASE fact = {TRUE}
  BY <1>2 DEF OnOff
<1>3. CASE fact = {FALSE}
  BY <1>3 DEF OnOff
<1> QED
  BY <1>1, <1>2, <1>3 DEF Optional

\* The row of the protections of macOS: each that was read says whether it is on.
LEMMA MacEndpointSpeaks ==
  ASSUME NEW f, f.gatekeeper \in Optional(BOOLEAN), f.systemData \in Optional(BOOLEAN),
         NEW verdict, verdict = Endpoint(f), NEW lines, lines = MacEndpointLines(f, verdict)
  PROVE  Speaks(lines, verdict, FALSE) /\ Plain(lines)
<1> DEFINE about  == [gatekeeper |-> f.gatekeeper, definitions |-> f.systemData]
           unread == {a \in DOMAIN about : verdict = "unknown" /\ about[a] = {}}
           open   == {Line("unknown", a) : a \in unread}
           keeper == OnOff(f.gatekeeper, "gatekeeper")
           data   == OnOff(f.systemData, "definitions")
<1>1. lines = (UNION {OnOff(about[a], a) : a \in DOMAIN about}) \cup open
  BY DEF MacEndpointLines
<1>2. /\ DOMAIN about = {"gatekeeper", "definitions"}
      /\ about["gatekeeper"] = f.gatekeeper /\ about["definitions"] = f.systemData
  OBVIOUS
<1> HIDE DEF about
<1>3. lines = keeper \cup data \cup open
  BY <1>1, <1>2
<1>4. \/ f.gatekeeper = {} /\ keeper = {}
      \/ f.gatekeeper = {TRUE} /\ keeper = {Line("ok", "gatekeeper")}
      \/ f.gatekeeper = {FALSE} /\ keeper = {Line("fail", "gatekeeper")}
  BY OnOffLines, Zenon
<1>5. \/ f.systemData = {} /\ data = {}
      \/ f.systemData = {TRUE} /\ data = {Line("ok", "definitions")}
      \/ f.systemData = {FALSE} /\ data = {Line("fail", "definitions")}
  BY OnOffLines, Zenon
<1>6. (\A l \in open : \E a : l = Line("unknown", a)) /\ (verdict # "unknown" => open = {})
  OBVIOUS
<1> HIDE DEF open, keeper, data
<1>7. \A l \in lines : \E a : \E t \in {"ok", "fail", "unknown"} : l = Line(t, a)
  <2>1. /\ keeper \in {{}, {Line("ok", "gatekeeper")}, {Line("fail", "gatekeeper")}}
        /\ data \in {{}, {Line("ok", "definitions")}, {Line("fail", "definitions")}}
    BY <1>4, <1>5, Zenon
  <2> QED
    BY <1>3, <1>6, <2>1
<1>8. Plain(lines) /\ \A l \in lines : l.tone \in Tones
  <2>1. ASSUME NEW l \in lines  PROVE l.power = "" /\ l.tone \in Tones
    <3>1. PICK a : \E t \in {"ok", "fail", "unknown"} : l = Line(t, a)
      BY <1>7
    <3>2. PICK t \in {"ok", "fail", "unknown"} : l = Line(t, a)
      BY <3>1
    <3>3. l.power = "" /\ l.tone = t
      BY <3>2, LineHas
    <3> QED
      BY <3>3 DEF Tones
  <2> QED
    BY <2>1 DEF Plain
<1>9. verdict = "pass" <=> f.gatekeeper = {TRUE} /\ f.systemData = {TRUE}
  <2>1. {TRUE} # {FALSE} /\ {TRUE} # {}
    OBVIOUS
  <2> QED
    BY <1>4, <1>5, <2>1 DEF Endpoint
<1>10. Fails(verdict) <=> f.gatekeeper = {FALSE} \/ f.systemData = {FALSE}
  BY DEF Endpoint, Fails
<1>11. ASSUME verdict = "pass"  PROVE lines # {} /\ \A l \in lines : l.tone = "ok"
  <2>1. lines = {Line("ok", "gatekeeper"), Line("ok", "definitions")}
    BY <1>3, <1>4, <1>5, <1>6, <1>9, <1>11
  <2>2. Line("ok", "gatekeeper").tone = "ok" /\ Line("ok", "definitions").tone = "ok"
    BY LineHas
  <2> QED
    BY <2>1, <2>2
<1>12. ASSUME Fails(verdict)  PROVE \E l \in lines : l.tone = "fail" /\ l.says # "not_on"
  <2>1. Line("fail", "gatekeeper") \in lines \/ Line("fail", "definitions") \in lines
    BY <1>3, <1>4, <1>5, <1>10, <1>12
  <2>2. /\ Line("fail", "gatekeeper").tone = "fail" /\ Line("fail", "definitions").tone = "fail"
        /\ Line("fail", "gatekeeper").says = "gatekeeper"
        /\ Line("fail", "definitions").says = "definitions"
    BY LineHas
  <2> QED
    BY <2>1, <2>2
<1> QED
  BY <1>8, <1>11, <1>12 DEF Speaks

\* The row of the antimalware of Windows: the product that counts, or the failure.
LEMMA WindowsEndpointSpeaks ==
  ASSUME NEW f, f.realtime \in Optional(BOOLEAN),
         NEW verdict, verdict = WindowsEndpoint(f),
         NEW lines, lines = WindowsEndpointLines(f, verdict)
  PROVE  Speaks(lines, verdict, FALSE) /\ Plain(lines)
<1> DEFINE on    == {Line("ok", "defender") : x \in {f.realtime} \cap
                        (IF f.mode \in {{"normal"}, {}} THEN {{TRUE}} ELSE {})}
           other == {Line("ok", "others") : n \in Positive(f.others)}
           bad   == IF Fails(verdict) THEN {Line("fail", "defender")} ELSE {}
           told  == on \cup other \cup bad
<1>1. lines = told \cup OtherwiseUnread(told, verdict)
  BY DEF WindowsEndpointLines
<1>2. \A l \in OtherwiseUnread(told, verdict) : verdict = "unknown" /\ l = Line("unknown", "unread")
  BY DEF OtherwiseUnread
<1>3. /\ \A l \in on : l = Line("ok", "defender")
      /\ \A l \in other : l = Line("ok", "others")
      /\ \A l \in bad : Fails(verdict) /\ l = Line("fail", "defender")
      /\ Fails(verdict) => Line("fail", "defender") \in bad
  OBVIOUS
<1>4. verdict = "pass" => on \cup other # {}
  <2>1. f.realtime = {TRUE} /\ f.mode = {"normal"} => Line("ok", "defender") \in on
    OBVIOUS
  <2>2. Positive(f.others) # {} => Line("ok", "others") \in other
    OBVIOUS
  <2> QED
    BY <2>1, <2>2 DEF WindowsEndpoint
<1>5. /\ Line("ok", "defender").tone = "ok" /\ Line("ok", "defender").power = ""
      /\ Line("ok", "others").tone = "ok" /\ Line("ok", "others").power = ""
      /\ Line("fail", "defender").tone = "fail" /\ Line("fail", "defender").power = ""
      /\ Line("fail", "defender").says = "defender"
      /\ Line("unknown", "unread").tone = "unknown" /\ Line("unknown", "unread").power = ""
  BY LineHas
<1> HIDE DEF on, other, bad
<1>6. Plain(lines) /\ \A l \in lines : l.tone \in Tones
  BY <1>1, <1>2, <1>3, <1>5 DEF Plain, Tones
<1>7. verdict = "pass" => lines # {} /\ \A l \in lines : l.tone = "ok"
  BY <1>1, <1>2, <1>3, <1>4, <1>5 DEF Fails
<1>8. Fails(verdict) => \E l \in lines : l.tone = "fail" /\ l.says # "not_on"
  BY <1>1, <1>3, <1>5
<1> QED
  BY <1>6, <1>7, <1>8 DEF Speaks

\* The row of the antimalware of Linux.
LEMMA EndpointSpeaks ==
  ASSUME NEW verdict, NEW lines, lines = EndpointLines(verdict)
  PROVE  Speaks(lines, verdict, FALSE) /\ Plain(lines)
<1>1. PICK tone : tone = IF verdict = "pass" THEN "ok" ELSE Status(verdict)
  OBVIOUS
<1>2. /\ tone \in Tones /\ (verdict = "pass" => tone = "ok")
      /\ (Fails(verdict) => tone = "fail")
  BY <1>1 DEF Tones, Status, Fails
<1>3. lines = {Line(tone, "protection")}
  BY <1>1 DEF EndpointLines
<1>4. /\ Plain(lines) /\ lines # {} /\ \A l \in lines : l.tone = tone
      /\ \E l \in lines : l.tone = tone /\ l.says = "protection"
  BY <1>2, <1>3, OneLine
<1> QED
  BY <1>2, <1>4 DEF Speaks

\* A setting of the update files is on, off or not read.
LEMMA UpdateFacts ==
  ASSUME NEW s, s.managed \in Optional(UpdateKeys), s.local \in UpdateKeys,
         s.schedule \in {{TRUE}, {FALSE}}
  PROVE  LET f == MacUpdates(s) IN
         /\ f.check \in Optional(BOOLEAN) /\ f.download \in Optional(BOOLEAN)
         /\ f.responses \in Optional(BOOLEAN) /\ f.systemData \in Optional(BOOLEAN)
<1> DEFINE managed == Got("managed", s.managed)
           Stated(key) == Effective(UNION {m[key] : m \in managed}, Got("local", s.local[key]))
           On(key) == IF "local" \notin got /\ managed = {} THEN {}
                      ELSE Effective(Stated(key), {TRUE})
           schedule == Got("schedule", s.schedule)
<1>1. /\ {} \in Optional(BOOLEAN) /\ {TRUE} \in Optional(BOOLEAN)
      /\ {FALSE} \in Optional(BOOLEAN)
  BY DEF Optional
<1>2. schedule \in Optional(BOOLEAN)
  BY <1>1 DEF Got
<1>3. ASSUME NEW key \in {"check", "download", "responses", "systemData"}
      PROVE  On(key) \in Optional(BOOLEAN)
  <2>1. s.local[key] \in Optional(BOOLEAN) /\ \A m \in s.managed : m[key] \in Optional(BOOLEAN)
    BY DEF UpdateKeys, Optional
  <2>2. UNION {m[key] : m \in managed} \in Optional(BOOLEAN)
    <3>1. CASE managed = {}
      BY <1>1, <3>1
    <3>2. CASE managed # {}
      <4>1. PICK m \in UpdateKeys : managed = {m} /\ m \in s.managed
        BY <3>2 DEF Got, Optional
      <4>2. UNION {n[key] : n \in managed} = m[key]
        BY <4>1
      <4> QED
        BY <2>1, <4>1, <4>2
    <3> QED
      BY <3>1, <3>2
  <2>3. Got("local", s.local[key]) \in Optional(BOOLEAN)
    BY <1>1, <2>1 DEF Got
  <2> HIDE DEF managed
  <2> QED
    BY <1>1, <2>2, <2>3 DEF Effective
<1>4. /\ MacUpdates(s).download = On("download") /\ MacUpdates(s).responses = On("responses")
      /\ MacUpdates(s).systemData = On("systemData")
      /\ MacUpdates(s).check = IF schedule = {FALSE} \/ On("check") = {}
                               THEN schedule ELSE On("check")
  BY DEF MacUpdates
<1> HIDE DEF On, schedule
<1> QED
  BY <1>2, <1>3, <1>4

\* The rows other than the screen lock.
LEMMA TablesSpeak ==
  ASSUME NEW w \in UNION {Macs, WindowsMachines, Apts, Gatekeepers, Antiviruses, ClamAVs,
                          FileVaults, BitLockers, Roots},
         NEW verdict, verdict = Verdict(w), NEW lines, lines = Lines(w, verdict)
  PROVE  Speaks(lines, verdict, FALSE) /\ Plain(lines)
<1>0. /\ \A v \in BOOLEAN : {v} \in Optional(BOOLEAN)
      /\ {} \in Optional(BOOLEAN)
  BY DEF Optional
<1>1. CASE w \in Macs
  <2>1. w.kind = "mac_updates" /\ w.s \in MacUpdateSettings
    BY <1>1 DEF Macs, Computer
  <2> DEFINE f == MacUpdates(w.s)
  <2>2. /\ f.check \in Optional(BOOLEAN) /\ f.download \in Optional(BOOLEAN)
        /\ f.responses \in Optional(BOOLEAN)
    BY <2>1, UpdateFacts DEF MacUpdateSettings
  <2>3. f.paused = {} /\ f.policyDisabled = {}
    BY DEF MacUpdates
  <2>4. verdict = Updates(f, "darwin") /\ lines = UpdatesLines(f, "darwin", verdict)
    BY <2>1 DEF Verdict, Lines
  <2> HIDE DEF f
  <2> QED
    BY <1>0, <2>2, <2>3, <2>4, UpdatesSpeak
<1>2. CASE w \in WindowsMachines
  <2>1. w.kind = "windows_updates"
    BY <1>2 DEF WindowsMachines, Computer
  <2> DEFINE f == WindowsUpdates(w.s)
  <2>2. /\ f.check \in Optional(BOOLEAN) /\ f.download \in Optional(BOOLEAN)
        /\ f.paused \in Optional(BOOLEAN) /\ f.policyDisabled \in Optional(BOOLEAN)
    BY <1>0 DEF WindowsUpdates
  <2>3. verdict = Updates(f, "windows") /\ lines = UpdatesLines(f, "windows", verdict)
    BY <2>1 DEF Verdict, Lines
  <2> HIDE DEF f
  <2> QED
    BY <2>2, <2>3, UpdatesSpeak
<1>3. CASE w \in Apts
  <2>1. w.kind = "apt_updates"
    BY <1>3 DEF Apts, Computer
  <2> DEFINE f == AptUpdates(w.s)
  <2>2. /\ f.check \in Optional(BOOLEAN) /\ f.download \in Optional(BOOLEAN)
        /\ f.paused \in Optional(BOOLEAN) /\ f.policyDisabled \in Optional(BOOLEAN)
    BY <1>0 DEF AptUpdates, Got
  <2>3. verdict = Updates(f, "linux") /\ lines = UpdatesLines(f, "linux", verdict)
    BY <2>1 DEF Verdict, Lines
  <2> HIDE DEF f
  <2> QED
    BY <2>2, <2>3, UpdatesSpeak
<1>4. CASE w \in Gatekeepers
  <2>1. w.kind = "mac_endpoint" /\ w.s \in MacEndpoints
    BY <1>4 DEF Gatekeepers, Computer
  <2> DEFINE f == MacEndpoint(w.s)
  <2>2. f.gatekeeper \in Optional(BOOLEAN)
    BY <1>0, <2>1 DEF MacEndpoint, MacEndpoints, Got
  <2>3. f.systemData \in Optional(BOOLEAN)
    BY <2>1, UpdateFacts DEF MacEndpoint, MacEndpoints
  <2>4. verdict = Endpoint(f) /\ lines = MacEndpointLines(f, verdict)
    BY <2>1 DEF Verdict, Lines
  <2> HIDE DEF f
  <2> QED
    BY <2>2, <2>3, <2>4, MacEndpointSpeaks
<1>5. CASE w \in Antiviruses
  <2>1. w.kind = "windows_endpoint"
    BY <1>5 DEF Antiviruses, Computer
  <2> DEFINE f == WindowsEndpointFacts(w.s)
  <2>2. f.realtime \in Optional(BOOLEAN)
    BY <1>0 DEF WindowsEndpointFacts, Got
  <2>3. verdict = WindowsEndpoint(f) /\ lines = WindowsEndpointLines(f, verdict)
    BY <2>1 DEF Verdict, Lines
  <2> HIDE DEF f
  <2> QED
    BY <2>2, <2>3, WindowsEndpointSpeaks
<1>6. CASE w \in ClamAVs
  <2>1. w.kind = "clamav"
    BY <1>6 DEF ClamAVs, Computer
  <2>2. lines = EndpointLines(verdict)
    BY <2>1 DEF Lines
  <2> QED
    BY <2>2, EndpointSpeaks
<1>7. CASE w \in UNION {FileVaults, BitLockers, Roots}
  <2> DEFINE States == {"on", "off", "encrypting", "decrypting", "suspended", "pending_restart"}
  <2>0. {} \in Optional(States) /\ \A x \in States : {x} \in Optional(States)
    BY DEF Optional
  <2>1. PICK state \in Optional(States) : verdict = Disk(state) /\ lines = DiskLines(state, verdict)
    <3>1. CASE w \in FileVaults
      <4>1. w.kind = "filevault"
        BY <3>1 DEF FileVaults, Computer
      <4>2. /\ verdict = Disk(Got("fdesetup", FileVault(w.s.text)))
            /\ lines = DiskLines(Got("fdesetup", FileVault(w.s.text)), verdict)
        BY <4>1 DEF Verdict, Lines
      <4>3. Got("fdesetup", FileVault(w.s.text)) \in Optional(States)
        BY <2>0 DEF Got, FileVault
      <4> QED
        BY <4>2, <4>3
    <3>2. CASE w \in BitLockers
      <4>1. w.kind = "bitlocker" /\ w.s.volume \in Volumes
        BY <3>2 DEF BitLockers, Computer
      <4>2. /\ verdict = Disk(Got("volume", BitLocker(w.s)))
            /\ lines = DiskLines(Got("volume", BitLocker(w.s)), verdict)
        BY <4>1 DEF Verdict, Lines
      <4>3. Got("volume", BitLocker(w.s)) \in Optional(States)
        BY <2>0, <4>1 DEF Got, BitLocker, Volumes
      <4> QED
        BY <4>2, <4>3
    <3>3. CASE w \in Roots
      <4>1. w.kind = "root_encryption"
        BY <3>3 DEF Roots, Computer
      <4>2. /\ verdict = Disk(RootEncryption(w.s))
            /\ lines = DiskLines(RootEncryption(w.s), verdict)
        BY <4>1 DEF Verdict, Lines
      <4>3. RootEncryption(w.s) \in Optional(States)
        BY <2>0 DEF RootEncryption
      <4> QED
        BY <4>2, <4>3
    <3> QED
      BY <1>7, <3>1, <3>2, <3>3
  <2> QED
    BY <2>1, DiskSpeaks
<1> QED
  BY <1>1, <1>2, <1>3, <1>4, <1>5, <1>6, <1>7

------------------------------------------------------------------------------
(* The lines of one profile of the screen lock.                             *)

\* A display that never turns off, and no screen saver to start sooner.
NeverStarts(d, lock) == Trigger(d, lock) = "none" /\ d.display = {0}

\* What a line of a profile may be.
SaidOf(l, p, d, lock) ==
  /\ l.power = p /\ l.tone \in Tones /\ l.says # "not_on"
  /\ l.tone = "ok" => d.ok
  /\ lock.password # "off" /\ d.ok => l.tone = "ok"
  /\ l.tone = "fail" =>
       /\ lock.password # "off" /\ ~d.ok
       /\ NeverStarts(d, lock) \/ d.minutes = {0} \/ \E m \in d.minutes : m > LimitMinutes
  /\ l.tone = "fail" /\ l.says = "display" =>
       \/ NeverStarts(d, lock)
       \/ TooLate(d, lock) = "display" /\ \E m \in d.minutes : m > LimitMinutes

\* Each line of a profile is one of these.
LEMMA ProfileLineIs ==
  ASSUME NEW p, NEW d, NEW lock, NEW l \in ProfileLines(p, d, lock)
  PROVE  SaidOf(l, p, d, lock)
<1>0. ASSUME NEW tone, NEW says, NEW k, k = ProfileSays(tone, says, p)
      PROVE  k.tone = tone /\ k.says = says /\ k.power = p
  BY <1>0 DEF ProfileSays
<1>1. TooLate(d, lock) \in {"late", "total", "display", "saver"}
  BY DEF TooLate, Trigger
<1> DEFINE Is(tone, says) == l.tone = tone /\ l.says = says /\ l.power = p
<1>2. CASE lock.password = "off"
  <2>1. l = ProfileSays("info", "display", p)
    BY <1>2 DEF ProfileLines
  <2>2. Is("info", "display")
    BY <1>0, <2>1
  <2> QED
    BY <1>2, <2>2 DEF Tones, SaidOf
<1>3. CASE lock.password # "off" /\ d.ok
  <2>1. l = ProfileSays("ok", "locks", p)
    BY <1>3 DEF ProfileLines, Fine
  <2>2. Is("ok", "locks")
    BY <1>0, <2>1
  <2> QED
    BY <1>3, <2>2 DEF Tones, SaidOf
<1>4. CASE lock.password # "off" /\ ~d.ok /\ NeverStarts(d, lock)
  <2>1. l = ProfileSays("fail", "never", p) \/ l = ProfileSays("fail", "display", p)
    BY <1>4 DEF ProfileLines, Fine, NeverStarts
  <2>2. Is("fail", "never") \/ Is("fail", "display")
    BY <1>0, <2>1
  <2> QED
    BY <1>4, <2>2 DEF Tones, SaidOf
<1>5. CASE lock.password # "off" /\ ~d.ok /\ ~NeverStarts(d, lock) /\ d.minutes = {0}
  <2>1. l = ProfileSays("fail", "never", p)
    BY <1>5 DEF ProfileLines, Fine, NeverStarts
  <2>2. Is("fail", "never")
    BY <1>0, <2>1
  <2> QED
    BY <1>5, <2>2 DEF Tones, SaidOf
<1>6. CASE /\ lock.password # "off" /\ ~d.ok /\ ~NeverStarts(d, lock) /\ d.minutes # {0}
           /\ \E m \in d.minutes : m > LimitMinutes
  <2>1. l = ProfileSays("fail", TooLate(d, lock), p)
    BY <1>6 DEF ProfileLines, Fine, NeverStarts
  <2>2. Is("fail", TooLate(d, lock))
    BY <1>0, <2>1
  <2> QED
    BY <1>1, <1>6, <2>2 DEF Tones, SaidOf
<1>7. CASE /\ lock.password # "off" /\ ~d.ok /\ ~NeverStarts(d, lock) /\ d.minutes # {0}
           /\ ~\E m \in d.minutes : m > LimitMinutes
  <2>1. l = ProfileSays("unknown", "unread", p)
    BY <1>7 DEF ProfileLines, Fine, NeverStarts
  <2>2. Is("unknown", "unread")
    BY <1>0, <2>1
  <2> QED
    BY <1>7, <2>2 DEF Tones, SaidOf
<1> QED
  BY <1>2, <1>3, <1>4, <1>5, <1>6, <1>7

\* A profile that never locks, or too late, has a line that says so.
LEMMA ProfileLineFails ==
  ASSUME NEW p, NEW d, NEW lock, lock.password # "off", ~d.ok,
         d.minutes = {0} \/ \E m \in d.minutes : m > LimitMinutes
  PROVE  \E l \in ProfileLines(p, d, lock) : l.tone = "fail" /\ l.says # "not_on"
<1>1. PICK says : ProfileSays("fail", says, p) \in ProfileLines(p, d, lock)
  <2>1. CASE NeverStarts(d, lock)
    BY <2>1 DEF ProfileLines, Fine, NeverStarts
  <2>2. CASE ~NeverStarts(d, lock) /\ d.minutes = {0}
    BY <2>2 DEF ProfileLines, Fine, NeverStarts
  <2>3. CASE ~NeverStarts(d, lock) /\ d.minutes # {0}
    <3>1. ProfileLines(p, d, lock) = {ProfileSays("fail", TooLate(d, lock), p)}
      BY <2>3 DEF ProfileLines, Fine, NeverStarts
    <3> QED
      BY <3>1
  <2> QED
    BY <2>1, <2>2, <2>3
<1>2. PICK l \in ProfileLines(p, d, lock) : l = ProfileSays("fail", says, p)
  BY <1>1
<1>3. l.tone = "fail"
  BY <1>2 DEF ProfileSays
<1>4. SaidOf(l, p, d, lock)
  BY <1>2, ProfileLineIs
<1> QED
  BY <1>3, <1>4 DEF SaidOf

\* The row of the screen lock, when its profiles agree with the verdict.
LEMMA LockSpeaks ==
  ASSUME NEW lock, NEW verdict, verdict # "not_on",
         verdict = "pass" =>
           /\ lock.password \notin {"off", "unknown"}
           /\ \A p \in DOMAIN lock.profiles : lock.profiles[p].ok,
         Fails(verdict) =>
           \/ DOMAIN lock.profiles = {} \/ lock.password \in {"off", "unknown"}
           \/ \E p \in DOMAIN lock.profiles :
                /\ ~lock.profiles[p].ok
                /\ \/ lock.profiles[p].minutes = {0}
                   \/ \E m \in lock.profiles[p].minutes : m > LimitMinutes
  PROVE  Speaks(LockLines(lock, verdict), verdict, lock.password = "unknown")
<1> DEFINE Of(p)    == ProfileLines(p, lock.profiles[p], lock)
           profiles == UNION {Of(p) : p \in DOMAIN lock.profiles}
           off      == {Line("fail", "password_off") : x \in {lock.password} \cap {"off"}}
           open     == {Line("unknown", "password") : x \in {lock.password} \cap {"unknown"}}
           built    == off \cup profiles \cup open
           status   == Status(verdict)
           decided  == CASE status = "fail"    -> {Line("fail", verdict)}
                         [] status = "pass"    -> {Line("ok", "locks")}
                         [] status = "unknown" -> {Line("unknown", "unread")}
           lines    == LockLines(lock, verdict)
<1>1. lines = IF built # {} THEN built ELSE decided
  BY DEF LockLines
<1>2. /\ Line("fail", "password_off").tone = "fail"
      /\ Line("fail", "password_off").says = "password_off"
      /\ Line("unknown", "password").tone = "unknown"
      /\ Line("fail", verdict).tone = "fail" /\ Line("fail", verdict).says = verdict
      /\ Line("ok", "locks").tone = "ok" /\ Line("unknown", "unread").tone = "unknown"
  <2>1. Line("fail", verdict).tone = "fail" /\ Line("fail", verdict).says = verdict
    BY DEF Line
  <2>2. /\ Line("fail", "password_off").tone = "fail"
        /\ Line("fail", "password_off").says = "password_off"
    BY DEF Line
  <2>3. /\ Line("unknown", "password").tone = "unknown"
        /\ Line("ok", "locks").tone = "ok" /\ Line("unknown", "unread").tone = "unknown"
    BY DEF Line
  <2> QED
    BY <2>1, <2>2, <2>3
<1>3. /\ \A l \in off : lock.password = "off" /\ l = Line("fail", "password_off")
      /\ lock.password = "off" => Line("fail", "password_off") \in off
      /\ \A l \in open : lock.password = "unknown" /\ l = Line("unknown", "password")
  OBVIOUS
<1>4. \A l \in profiles : /\ l.tone \in Tones
                          /\ verdict = "pass" => l.tone = "ok"
  <2>1. ASSUME NEW p \in DOMAIN lock.profiles, NEW l \in Of(p)
        PROVE  l.tone \in Tones /\ (verdict = "pass" => l.tone = "ok")
    <3>1. PICK d : d = lock.profiles[p]
      OBVIOUS
    <3>2. SaidOf(l, p, d, lock)
      BY <2>1, <3>1, ProfileLineIs
    <3> QED
      BY <3>1, <3>2 DEF SaidOf
  <2> HIDE DEF Of
  <2> QED
    BY <2>1
<1>5. /\ status = "fail" <=> Fails(verdict)
      /\ status = "pass" <=> verdict = "pass"
      /\ status = "unknown" <=> verdict = "unknown"
      /\ status \in {"fail", "pass", "unknown"}
  BY DEF Status, Fails
<1> HIDE DEF status
<1>6. /\ Fails(verdict) => decided = {Line("fail", verdict)}
      /\ verdict = "pass" => decided = {Line("ok", "locks")}
      /\ verdict = "unknown" => decided = {Line("unknown", "unread")}
      /\ Fails(verdict) \/ verdict = "pass" \/ verdict = "unknown"
  BY <1>5
<1>7. Fails(verdict) /\ lock.password # "unknown" =>
        \E l \in lines : l.tone = "fail" /\ l.says # "not_on"
  <2> SUFFICES ASSUME Fails(verdict), lock.password # "unknown"
               PROVE  \E l \in lines : l.tone = "fail" /\ l.says # "not_on"
    OBVIOUS
  <2>1. CASE lock.password = "off"
    <3> HIDE DEF off, profiles, open, lines, decided
    <3> QED
      BY <1>1, <1>2, <1>3, <2>1
  <2>2. CASE lock.password # "off" /\ \E p \in DOMAIN lock.profiles :
               /\ ~lock.profiles[p].ok
               /\ \/ lock.profiles[p].minutes = {0}
                  \/ \E m \in lock.profiles[p].minutes : m > LimitMinutes
    <3>1. PICK p \in DOMAIN lock.profiles : \E l \in Of(p) : l.tone = "fail" /\ l.says # "not_on"
      BY <2>2, ProfileLineFails
    <3>2. PICK l \in Of(p) : l.tone = "fail" /\ l.says # "not_on"
      BY <3>1
    <3>3. l \in profiles
      BY <3>2
    <3> HIDE DEF off, profiles, open, lines, decided
    <3> QED
      BY <1>1, <3>2, <3>3
  <2>3. CASE lock.password # "off" /\ DOMAIN lock.profiles = {}
    <3>1. profiles = {}
      BY <2>3
    <3> HIDE DEF off, profiles, open, lines, decided
    <3> QED
      BY <1>1, <1>2, <1>3, <1>6, <2>3, <3>1
  <2> QED
    BY <2>1, <2>2, <2>3
<1> HIDE DEF off, profiles, open, lines, decided
<1>8. \A l \in lines : l.tone \in Tones
  BY <1>1, <1>2, <1>3, <1>4, <1>6 DEF Tones
<1>9. ASSUME verdict = "pass"  PROVE lines # {} /\ \A l \in lines : l.tone = "ok"
  <2>1. built = profiles
    BY <1>3, <1>9
  <2>2. decided = {Line("ok", "locks")}
    BY <1>6, <1>9
  <2> QED
    BY <1>1, <1>2, <1>4, <1>9, <2>1, <2>2
<1>10. Speaks(lines, verdict, lock.password = "unknown")
  BY <1>7, <1>8, <1>9 DEF Speaks
<1> QED
  BY <1>10 DEF lines

\* Timers in whole minutes: none is lost, and only one of zero is stated as zero.
LEMMA MinutesOf ==
  ASSUME NEW S \in SUBSET Nat
  PROVE  /\ Minutes(S) = {CeilMinutes(t) : t \in S}
         /\ \A m \in Minutes(S) : m \in Nat
         /\ Positive(Minutes(S)) = {} <=> Positive(S) = {}
         /\ Minutes(S) = {0} => S # {} /\ \A t \in S : t = 0
<1>1. Minutes(S) = {CeilMinutes(t) : t \in S}
  <2>1. \A t \in S : (IF t < 0 THEN 0 ELSE t) = t
    OBVIOUS
  <2> QED
    BY <2>1 DEF Minutes
<1>2. \A t \in S : t \in Nat /\ CeilMinutes(t) \in Nat /\ (CeilMinutes(t) > 0 <=> t > 0)
  BY MinutesHold, MinutesOrder
<1>3. \A m \in Minutes(S) : m \in Nat
  BY <1>1, <1>2
<1>4. ASSUME Positive(S) = {}  PROVE Positive(Minutes(S)) = {}
  BY <1>1, <1>2, <1>4 DEF Positive
<1>5. ASSUME Positive(S) # {}  PROVE Positive(Minutes(S)) # {}
  <2>1. PICK t \in S : t > 0
    BY <1>5 DEF Positive
  <2>2. CeilMinutes(t) \in Minutes(S) /\ CeilMinutes(t) > 0
    BY <1>1, <1>2, <2>1
  <2> QED
    BY <2>2 DEF Positive
<1>6. ASSUME Minutes(S) = {0}  PROVE S # {} /\ \A t \in S : t = 0
  <2>1. S # {}
    BY <1>1, <1>6
  <2>2. \A t \in S : CeilMinutes(t) \in Minutes(S)
    BY <1>1
  <2> QED
    BY <1>2, <1>6, <2>1, <2>2
<1> QED
  BY <1>1, <1>3, <1>4, <1>5, <1>6

\* The minutes of a lock time that is too late.
LEMMA LateMinutes ==
  ASSUME NEW times \in SUBSET Nat, \A t \in times : t > 0, ~InTime(times),
         NEW stated, stated = Minutes(Soonest(times))
  PROVE  /\ \A m \in stated : m > LimitMinutes
         /\ times # {} => stated # {}
<1>1. /\ \A m \in stated : m \in Nat /\ m > 0
      /\ \A m \in stated : m \notin 1..LimitMinutes
  BY StatedMinutes
<1>2. times # {} => Soonest(times) # {}
  BY LeastTime DEF Soonest
<1>3. Soonest(times) # {} => stated # {}
  BY DEF Minutes
<1> QED
  BY <1>1, <1>2, <1>3, LimitIsPositive

\* What the detail of a profile says next to its outcome, for macOS and Linux.
Expresses(stated, outcome, display, f, d) ==
  /\ stated.display = Minutes(display)
  /\ stated.ok <=> outcome = "pass"
  /\ outcome \in {"screen_lock_password_off", "screen_lock_never"} => stated.minutes = {0}
  /\ outcome = "unknown" => stated.minutes = {}
  /\ outcome = "pass" => \A m \in stated.minutes : m > 0
  /\ outcome = "screen_lock_timeout_too_long" =>
       /\ ~InTime(Lock(display, f)) /\ Idle(display, f) # {}
       /\ \A m \in stated.minutes : m > LimitMinutes
       /\ Lock(display, f) # {} <=> stated.minutes # {}
  /\ outcome \in {"screen_lock_password_off", "screen_lock_never", "unknown",
                  "screen_lock_timeout_too_long", "pass"}
  /\ KnownDelay(f) # {} => \A t \in Idle(display, f) : t + EffectiveDelay(d) \in Lock(display, f)
  /\ KnownDelay(f) = {} => Lock(display, f) = {}

\* A detail says what its outcome means.
LEMMA DetailSays ==
  ASSUME NEW display, NEW f, NEW asks \in BOOLEAN, NEW ts \in SUBSET Nat, NEW d \in Nat,
         Truthful(display, f, asks, ts, d),
         NEW stated, stated = Detail(display, f), NEW outcome, outcome = Outcome(display, f)
  PROVE  Expresses(stated, outcome, display, f, d)
<1> DEFINE lock == Lock(display, f)
           idle == Idle(display, f)
<1>1. /\ stated.display = Minutes(display)
      /\ stated.ok <=> outcome = "pass"
      /\ stated.minutes = Minutes(Soonest(
           IF outcome \in {"screen_lock_password_off", "screen_lock_never"} THEN {0}
           ELSE IF outcome = "unknown" THEN {} ELSE lock))
  BY DEF Detail, ProfileDetail
<1>2. /\ outcome \in {"screen_lock_password_off", "screen_lock_never", "unknown",
                      "screen_lock_timeout_too_long", "pass"}
      /\ outcome = "screen_lock_timeout_too_long" => ~InTime(lock) /\ idle # {}
  BY DEF Outcome
<1>3. lock = {t + EffectiveDelay(d) : t \in {u \in idle : KnownDelay(f) # {}}}
  <2>1. CASE f.password \in {"immediate", "delay"}
    <3>1. KnownDelay(f) = {d}
      BY <2>1 DEF Truthful
    <3>2. lock = {t + EffectiveDelay(d) : t \in idle}
      BY <3>1, OneDelay DEF Lock
    <3>3. {u \in idle : KnownDelay(f) # {}} = idle
      BY <3>1
    <3> HIDE DEF lock, idle
    <3> QED
      BY <3>2, <3>3
  <2>2. CASE f.password \notin {"immediate", "delay"}
    <3>1. KnownDelay(f) = {}
      BY <2>2 DEF KnownDelay
    <3>2. lock = {}
      BY <3>1 DEF Lock
    <3> HIDE DEF lock, idle
    <3> QED
      BY <3>1, <3>2
  <2> QED
    BY <2>1, <2>2
<1>4. \A t \in idle : t \in Nat /\ t > 0
  BY DEF Truthful, Idle, Positive
<1>5. EffectiveDelay(d) \in Nat
  BY DEF EffectiveDelay
<1> HIDE DEF lock, idle
<1>6. lock \in SUBSET Nat /\ \A t \in lock : t > 0
  BY <1>3, <1>4, <1>5
<1>7. outcome \in {"screen_lock_timeout_too_long", "pass"} =>
        stated.minutes = Minutes(Soonest(lock))
  BY <1>1
<1>8. outcome = "pass" => \A m \in stated.minutes : m > 0
  BY <1>6, <1>7, StatedMinutes
<1>9. outcome = "screen_lock_timeout_too_long" =>
        /\ \A m \in stated.minutes : m > LimitMinutes
        /\ lock # {} <=> stated.minutes # {}
  <2>1. lock = {} => Minutes(Soonest(lock)) = {}
    BY NoMinutes
  <2> QED
    BY <1>2, <1>6, <1>7, <2>1, LateMinutes
<1>10. /\ outcome \in {"screen_lock_password_off", "screen_lock_never"} => stated.minutes = {0}
       /\ outcome = "unknown" => stated.minutes = {}
  BY <1>1, ZeroMinutes, NoMinutes
<1> QED
  BY <1>1, <1>2, <1>3, <1>8, <1>9, <1>10 DEF lock, idle, Expresses

\* The lines of one profile of macOS or Linux: a failing one is true of the profile once the
\* screen saver is known, and the display timer is named only where it never starts or is
\* too long.
LEMMA ProfileLinesAreTrue ==
  ASSUME NEW display \in Optional(Nat), NEW f, NEW asks \in BOOLEAN, NEW ts \in SUBSET Nat,
         NEW d \in Nat, Truthful(display, f, asks, ts, d),
         NEW lock, lock.password = StatedPassword(f), lock.delay = KnownDelay(f),
         lock.saver = Minutes(f.saver),
         NEW stated, stated = Detail(display, f), NEW outcome, outcome = Outcome(display, f),
         NEW p, NEW l \in ProfileLines(p, stated, lock), l.tone = "fail"
  PROVE  /\ f.saverKnown => Fails(outcome)
         /\ l.says = "display" => \E t \in display : t = 0 \/ t > Limit
<1> DEFINE idle == Idle(display, f)
<1>1. /\ stated.display = Minutes(display)
      /\ stated.ok <=> outcome = "pass"
      /\ outcome \in {"screen_lock_password_off", "screen_lock_never"} => stated.minutes = {0}
      /\ outcome = "unknown" => stated.minutes = {}
      /\ outcome = "screen_lock_timeout_too_long" =>
           /\ ~InTime(Lock(display, f)) /\ idle # {}
           /\ Lock(display, f) # {} <=> stated.minutes # {}
      /\ outcome \in {"screen_lock_password_off", "screen_lock_never", "unknown",
                      "screen_lock_timeout_too_long", "pass"}
      /\ KnownDelay(f) # {} => \A t \in idle : t + EffectiveDelay(d) \in Lock(display, f)
      /\ KnownDelay(f) = {} => Lock(display, f) = {}
  <2>1. Expresses(stated, outcome, display, f, d)
    BY DetailSays
  <2> QED
    BY <2>1 DEF Expresses
<1>2. /\ lock.password # "off" /\ ~stated.ok
      /\ \/ NeverStarts(stated, lock) \/ stated.minutes = {0}
         \/ \E m \in stated.minutes : m > LimitMinutes
      /\ l.says = "display" =>
           \/ NeverStarts(stated, lock)
           \/ TooLate(stated, lock) = "display" /\ \E m \in stated.minutes : m > LimitMinutes
  <2>1. SaidOf(l, p, stated, lock)
    BY ProfileLineIs
  <2> QED
    BY <2>1 DEF SaidOf
<1>3. f.password # "off"
  BY <1>2 DEF StatedPassword
<1>4. display \in SUBSET Nat /\ f.saver \in SUBSET Nat
  BY DEF Truthful, Optional
<1>5. /\ stated.display = {0} => display # {} /\ \A t \in display : t = 0
      /\ Positive(stated.display) = {} <=> Positive(display) = {}
      /\ Positive(lock.saver) = {} <=> Positive(f.saver) = {}
      /\ \A m \in stated.display \cup lock.saver : m \in Nat
      /\ stated.display = {CeilMinutes(t) : t \in display}
  BY <1>1, <1>4, MinutesOf
<1>6. ASSUME NEW S, NEW T  PROVE Positive(S \cup T) = Positive(S) \cup Positive(T)
  BY DEF Positive
<1>7. Trigger(stated, lock) = "none" <=> idle = {}
  <2>1. Positive(stated.display \cup lock.saver) = {} <=> idle = {}
    <3>1. idle = Positive(display) \cup Positive(f.saver)
      BY <1>6 DEF Idle
    <3>2. Positive(stated.display \cup lock.saver) =
            Positive(stated.display) \cup Positive(lock.saver)
      BY <1>6
    <3> HIDE DEF idle
    <3> QED
      BY <1>5, <3>1, <3>2
  <2> QED
    BY <2>1 DEF Trigger
<1>8. ASSUME idle = {}, display # {}, f.saverKnown  PROVE outcome = "screen_lock_never"
  <2>1. Lock(display, f) = {}
    BY <1>8 DEF Lock
  <2>2. ~InTime(Lock(display, f))
    BY <2>1 DEF InTime
  <2> QED
    BY <1>3, <1>8, <2>2 DEF Outcome, Complete
<1>9. ASSUME Trigger(stated, lock) = "display"  PROVE \E t \in display : t \in idle
  <2> DEFINE timers == Positive(stated.display \cup lock.saver)
  <2>1. timers # {} /\ Soonest(timers) \subseteq stated.display
    BY <1>9 DEF Trigger
  <2>2. timers \in SUBSET Nat /\ \A m \in timers : m > 0
    BY <1>5 DEF Positive
  <2> HIDE DEF timers
  <2>3. PICK m \in timers : \A n \in timers : m <= n
    BY <2>1, <2>2, LeastTime
  <2>4. m \in stated.display /\ m > 0
    BY <2>1, <2>2, <2>3 DEF Soonest
  <2>5. PICK t \in display : CeilMinutes(t) = m
    BY <1>5, <2>4
  <2>6. t \in Nat /\ t > 0
    BY <1>4, <2>4, <2>5, MinutesOrder
  <2> QED
    BY <2>5, <2>6 DEF Idle, Positive
<1> HIDE DEF idle
<1>10. NeverStarts(stated, lock) => idle = {} /\ display # {} /\ \A t \in display : t = 0
  BY <1>5, <1>7 DEF NeverStarts
<1>11. f.saverKnown => Fails(outcome)
  <2>1. CASE outcome # "unknown"
    BY <1>1, <1>2, <2>1 DEF Fails
  <2>2. CASE outcome = "unknown"
    BY <1>1, <1>2, <1>8, <1>10, <2>2
  <2> QED
    BY <2>1, <2>2
<1>12. ASSUME TooLate(stated, lock) = "display", \E m \in stated.minutes : m > LimitMinutes
       PROVE  \E t \in display : t > Limit
  <2>1. outcome = "screen_lock_timeout_too_long"
    BY <1>1, <1>2, <1>12, LimitIsPositive
  <2>2. KnownDelay(f) # {} /\ ~InTime(Lock(display, f))
    BY <1>1, <1>12, <2>1
  <2>3. KnownDelay(f) = {d}
    BY <2>2 DEF Truthful, KnownDelay
  <2>4. Trigger(stated, lock) = "display" /\ ~(PageDelay(lock.delay) > 0)
    BY <1>12 DEF TooLate
  <2>5. EffectiveDelay(d) = 0
    <3>1. lock.delay = {d} /\ d \in Nat
      BY <2>3
    <3>2. \A s \in lock.delay : (CHOOSE r \in lock.delay : TRUE) = s
      BY <3>1
    <3>3. d <= Tolerance
      <4>1. CASE \A s \in lock.delay : s <= Tolerance
        BY <3>1, <4>1
      <4>2. CASE ~(\A s \in lock.delay : s <= Tolerance)
        <5>1. PageDelay(lock.delay) = (CHOOSE r \in lock.delay : TRUE)
          BY <4>2 DEF PageDelay
        <5>2. ~(d > 0)
          BY <2>4, <3>1, <3>2, <5>1
        <5> QED
          BY <3>1, <5>2, ToleranceIsNatural
      <4> QED
        BY <4>1, <4>2
    <3> QED
      BY <3>1, <3>3, ToleranceIsNatural DEF EffectiveDelay
  <2>6. PICK t \in display : t \in idle
    BY <1>9, <2>4
  <2>7. t \in Nat /\ t + EffectiveDelay(d) \in Lock(display, f)
    BY <1>1, <1>4, <2>2, <2>6
  <2>8. t \in Lock(display, f)
    BY <2>5, <2>7
  <2>9. ~(t <= Limit)
    BY <2>2, <2>8 DEF InTime
  <2> QED
    BY <2>7, <2>9, LimitIsPositive DEF Limit
<1>13. l.says = "display" => \E t \in display : t = 0 \/ t > Limit
  BY <1>2, <1>10, <1>12
<1> QED
  BY <1>11, <1>13

------------------------------------------------------------------------------
(* The rows of the screen lock, macOS and Linux.                            *)

\* What a line of the lock says of the computer whose profiles P lock at the times of real,
\* next to the verdict.
TrueLine(l, P, real, verdict) ==
  LET meant == IF l.power = "any" THEN P ELSE {l.power} IN
  /\ l.tone = "ok" => \A p \in meant : InTime(real[p])
  /\ l.tone = "fail" /\ verdict # "unknown" => \E p \in meant : ~InTime(real[p])

\* A line that names a profile is one of the lines of that profile.
LEMMA LockLineOf ==
  ASSUME NEW lock, NEW verdict, NEW l \in LockLines(lock, verdict), l.power # ""
  PROVE  /\ l.power \in DOMAIN lock.profiles
         /\ l \in ProfileLines(l.power, lock.profiles[l.power], lock)
<1> DEFINE profiles == UNION {ProfileLines(p, lock.profiles[p], lock) : p \in DOMAIN lock.profiles}
           off      == {Line("fail", "password_off") : x \in {lock.password} \cap {"off"}}
           open     == {Line("unknown", "password") : x \in {lock.password} \cap {"unknown"}}
           built    == off \cup profiles \cup open
           decided  == CASE Status(verdict) = "fail"    -> {Line("fail", verdict)}
                         [] Status(verdict) = "pass"    -> {Line("ok", "locks")}
                         [] Status(verdict) = "unknown" -> {Line("unknown", "unread")}
<1>1. LockLines(lock, verdict) = IF built # {} THEN built ELSE decided
  BY DEF LockLines
<1>2. Status(verdict) \in {"fail", "pass", "unknown"}
  BY DEF Status, Fails
<1>3. /\ \A k \in off \cup open : \E tone, says : k = Line(tone, says)
      /\ \A k \in decided : \E tone, says : k = Line(tone, says)
  BY <1>2
<1> HIDE DEF off, open, decided, profiles
<1>4. ASSUME NEW tone, NEW says, l = Line(tone, says)  PROVE FALSE
  <2>1. Line(tone, says).power = ""
    BY DEF Line
  <2> QED
    BY <1>4, <2>1
<1>5. l \in profiles
  BY <1>1, <1>3, <1>4
<1>6. PICK p \in DOMAIN lock.profiles : l \in ProfileLines(p, lock.profiles[p], lock)
  BY <1>5 DEF profiles
<1>7. PICK d : d = lock.profiles[p]
  OBVIOUS
<1>8. l \in ProfileLines(p, d, lock)
  BY <1>6, <1>7
<1>9. SaidOf(l, p, d, lock)
  BY <1>8, ProfileLineIs
<1>10. l.power = p
  BY <1>9 DEF SaidOf
<1> QED
  BY <1>6, <1>10

\* A line of the row that names a profile is one of the lines of its signal.
LEMMA RowLine ==
  ASSUME NEW w, NEW l \in Row(w), l.power # ""
  PROVE  l \in Lines(w, Verdict(w))
<1>1. \/ l \in Lines(w, Verdict(w))
      \/ l = Line("fail", "not_on") \/ l = Line("unknown", "not_read")
  BY DEF Row
<1>2. Line("fail", "not_on").power = "" /\ Line("unknown", "not_read").power = ""
  BY DEF Line
<1> QED
  BY <1>1, <1>2

\* The passwords of a lock of macOS or Linux that passes or is known to be too late.
LEMMA PasswordOf ==
  ASSUME NEW display, NEW f, NEW asks \in BOOLEAN, NEW ts \in SUBSET Nat, NEW d \in Nat,
         Truthful(display, f, asks, ts, d),
         NEW stated, stated = Detail(display, f), NEW outcome, outcome = Outcome(display, f)
  PROVE  /\ outcome = "pass" => StatedPassword(f) \notin {"off", "unknown"}
         /\ Fails(outcome) =>
              \/ StatedPassword(f) \in {"off", "unknown"}
              \/ stated.minutes = {0} \/ \E m \in stated.minutes : m > LimitMinutes
<1>1. Expresses(stated, outcome, display, f, d)
  BY DetailSays
<1>2. /\ f.password \in {"off", "unknown", "immediate", "delay"}
      /\ f.password \in {"immediate", "delay"} => KnownDelay(f) = {d}
  BY DEF Truthful
<1>3. f.password \in {"off", "unknown"} => StatedPassword(f) \in {"off", "unknown"}
  BY DEF StatedPassword
<1>4. outcome = "pass" => f.password # "off" /\ InTime(Lock(display, f))
  BY DEF Outcome
<1>5. ASSUME outcome = "pass"  PROVE StatedPassword(f) \notin {"off", "unknown"}
  <2>1. KnownDelay(f) # {}
    BY <1>1, <1>4, <1>5 DEF Expresses, InTime
  <2>2. f.password \in {"immediate", "delay"}
    BY <2>1 DEF KnownDelay
  <2> QED
    BY <2>1, <2>2 DEF StatedPassword
<1>6. ASSUME Fails(outcome), f.password \in {"immediate", "delay"}
      PROVE  stated.minutes = {0} \/ \E m \in stated.minutes : m > LimitMinutes
  <2>1. CASE outcome \in {"screen_lock_password_off", "screen_lock_never"}
    BY <1>1, <2>1 DEF Expresses
  <2>2. CASE outcome = "screen_lock_timeout_too_long"
    <3>1. KnownDelay(f) # {} /\ Idle(display, f) # {}
      BY <1>1, <1>2, <1>6, <2>2 DEF Expresses
    <3>2. Lock(display, f) # {}
      BY <1>1, <3>1 DEF Expresses
    <3>3. stated.minutes # {} /\ \A m \in stated.minutes : m > LimitMinutes
      BY <1>1, <2>2, <3>2 DEF Expresses
    <3> QED
      BY <3>3
  <2> QED
    BY <1>1, <1>6, <2>1, <2>2 DEF Expresses, Fails
<1> QED
  BY <1>2, <1>3, <1>5, <1>6

\* The display timer that a line asks to shorten never starts or is too long.
Worthwhile(l, display) ==
  l.tone = "fail" /\ l.says = "display" =>
    l.power \in DOMAIN display /\ \E t \in display[l.power] : t = 0 \/ t > Limit

\* macOS and Linux: a line of one profile, whose timers under one of the computer's
\* profiles are ts.
LEMMA ProfileLineIsTrue ==
  ASSUME NEW display \in Optional(Nat), NEW f, NEW asks \in BOOLEAN, NEW ts \in SUBSET Nat,
         NEW d \in Nat, Truthful(display, f, asks, ts, d),
         NEW lock, lock.password = StatedPassword(f), lock.delay = KnownDelay(f),
         lock.saver = Minutes(f.saver),
         NEW stated, stated = Detail(display, f),
         NEW p, NEW l \in ProfileLines(p, stated, lock)
  PROVE  /\ l.tone = "ok" => InTime(RealLock(asks, ts, d))
         /\ l.tone = "fail" => f.password # "off" /\ ~stated.ok
         /\ l.tone = "fail" /\ f.saverKnown => ~InTime(RealLock(asks, ts, d))
<1> DEFINE outcome == Outcome(display, f)
<1>1. SaidOf(l, p, stated, lock)
  BY ProfileLineIs
<1>2. stated.ok <=> outcome = "pass"
  BY DEF Detail, ProfileDetail
<1>3. /\ outcome = "pass" => InTime(RealLock(asks, ts, d))
      /\ Fails(outcome) => ~InTime(RealLock(asks, ts, d))
  BY OutcomeIsSound
<1>4. l.tone = "fail" /\ f.saverKnown => Fails(outcome)
  BY ProfileLinesAreTrue
<1>5. l.tone = "fail" => f.password # "off" /\ ~stated.ok
  BY <1>1 DEF SaidOf, StatedPassword
<1> HIDE DEF outcome
<1> QED
  BY <1>1, <1>2, <1>3, <1>4, <1>5 DEF SaidOf

\* What the row says when the profiles P lock at the times of real.
Described(f, P, real) ==
  LET lock    == ProfileDetails(f)
      verdict == ProfileScreenLock(f)
      lines   == LockLines(lock, verdict)
  IN  /\ Speaks(lines, verdict, lock.password = "unknown")
      /\ \A l \in lines : l.power # "" =>
           TrueLine(l, P, real, verdict) /\ Worthwhile(l, f.display)

\* macOS and Linux: the row.
LEMMA ProfilesSpeak ==
  ASSUME NEW f, NEW P, P # {}, P = {"any"} \/ "any" \notin P,
         NEW asks \in BOOLEAN, NEW ts \in [P -> SUBSET Nat], NEW d \in Nat,
         DOMAIN f.display \in {{}, P},
         \A p \in DOMAIN f.display : f.display[p] \in Optional(Nat),
         \A p \in P : Truthful(IF DOMAIN f.display = {} THEN {} ELSE f.display[p],
                               f, asks, ts[p], d),
         NEW real, \A p \in P : real[p] = RealLock(asks, ts[p], d)
  PROVE  Described(f, P, real)
<1>0. PICK lock, verdict, lines : /\ lock = ProfileDetails(f) /\ verdict = ProfileScreenLock(f)
                                  /\ lines = LockLines(lock, verdict)
  OBVIOUS
<1> DEFINE stated   == lock.profiles
           Shown(p) == IF DOMAIN f.display = {} THEN {} ELSE f.display[p]
           Meant(p) == IF p = "any" THEN P ELSE {p}
           listed   == IF DOMAIN f.display = {} THEN {{}}
                       ELSE {f.display[p] : p \in DOMAIN f.display}
<1>1. Agrees(stated, P, real, verdict)
  BY <1>0, ProfilesAgree
<1>2. \/ lock = NoDetail
      \/ /\ lock.password = StatedPassword(f) /\ lock.delay = KnownDelay(f)
         /\ lock.saver = Minutes(f.saver)
         /\ \/ DOMAIN f.display = {} /\ stated = [p \in {"any"} |-> Detail({}, f)]
            \/ DOMAIN f.display = P /\ stated = [p \in P |-> Detail(f.display[p], f)]
  BY <1>0 DEF ProfileDetails, LockDetail
<1>3. lock = NoDetail => lock.password = "absent" /\ DOMAIN stated = {}
  BY DEF NoDetail, LockDetail
<1>4. ASSUME lock # NoDetail
      PROVE  /\ \A p \in DOMAIN stated :
                  /\ stated[p] = Detail(Shown(p), f) /\ Shown(p) \in Optional(Nat)
                  /\ Meant(p) # {} /\ Meant(p) \subseteq P
                  /\ \A q \in Meant(p) : Truthful(Shown(p), f, asks, ts[q], d)
             /\ \A e \in listed : \E p \in DOMAIN stated : e = Shown(p)
  <2>1. CASE DOMAIN f.display = {} /\ stated = [p \in {"any"} |-> Detail({}, f)]
    <3>1. DOMAIN stated = {"any"} /\ stated["any"] = Detail({}, f)
      BY <2>1
    <3>2. \A p : Shown(p) = {}
      BY <2>1
    <3>3. listed = {{}} /\ {} \in Optional(Nat)
      BY <2>1 DEF Optional
    <3>4. \A q \in P : Truthful({}, f, asks, ts[q], d)
      BY <2>1
    <3> HIDE DEF stated, Shown, listed
    <3> QED
      BY <3>1, <3>2, <3>3, <3>4
  <2>2. CASE DOMAIN f.display = P /\ stated = [p \in P |-> Detail(f.display[p], f)]
    <3>1. DOMAIN stated = P /\ \A p \in P : stated[p] = Detail(f.display[p], f)
      BY <2>2
    <3>2. \A p \in P : Shown(p) = f.display[p]
      BY <2>2
    <3>3. \A e \in listed : \E p \in P : e = f.display[p]
      BY <2>2
    <3>4. \A p \in P : Meant(p) = {p}
      OBVIOUS
    <3>5. \A p \in P : Truthful(f.display[p], f, asks, ts[p], d) /\ f.display[p] \in Optional(Nat)
      BY <2>2
    <3> HIDE DEF stated, Shown, listed, Meant
    <3>6. \A p \in P : /\ stated[p] = Detail(Shown(p), f) /\ Shown(p) \in Optional(Nat)
                      /\ Meant(p) # {} /\ Meant(p) \subseteq P
      BY <3>1, <3>2, <3>4, <3>5
    <3>7. \A p \in P : \A q \in Meant(p) : Truthful(Shown(p), f, asks, ts[q], d)
      BY <3>2, <3>4, <3>5
    <3>8. \A e \in listed : \E p \in P : e = Shown(p)
      BY <3>2, <3>3
    <3> QED
      BY <3>1, <3>6, <3>7, <3>8
  <2> QED
    BY <1>2, <1>4, <2>1, <2>2
<1>5. /\ verdict = "pass" => \A e \in listed : Outcome(e, f) = "pass"
      /\ Fails(verdict) => \E e \in listed : Fails(Outcome(e, f))
  BY <1>0, ProfilesDecide
<1>6. \E e : e \in listed
  OBVIOUS
<1>7. verdict # "not_on"
  BY <1>0 DEF ProfileScreenLock
<1> HIDE DEF stated, Shown, Meant, listed
<1>8. ASSUME lock # NoDetail, NEW p \in DOMAIN stated
      PROVE  /\ stated[p].ok <=> Outcome(Shown(p), f) = "pass"
             /\ Outcome(Shown(p), f) = "pass" => lock.password \notin {"off", "unknown"}
             /\ Fails(Outcome(Shown(p), f)) =>
                  \/ lock.password \in {"off", "unknown"}
                  \/ stated[p].minutes = {0} \/ \E m \in stated[p].minutes : m > LimitMinutes
  <2>1. PICK q \in P : Truthful(Shown(p), f, asks, ts[q], d)
    BY <1>4, <1>8
  <2>2. PICK display, profile, outcome : /\ display = Shown(p) /\ profile = Detail(display, f)
                                         /\ outcome = Outcome(display, f)
    OBVIOUS
  <2>3. PICK times \in SUBSET Nat : Truthful(display, f, asks, times, d)
    BY <2>1, <2>2
  <2>4. /\ outcome = "pass" => StatedPassword(f) \notin {"off", "unknown"}
        /\ Fails(outcome) =>
             \/ StatedPassword(f) \in {"off", "unknown"}
             \/ profile.minutes = {0} \/ \E m \in profile.minutes : m > LimitMinutes
    BY <2>2, <2>3, PasswordOf
  <2>5. profile.ok <=> outcome = "pass"
    BY <2>2 DEF Detail, ProfileDetail
  <2>6. stated[p] = profile /\ lock.password = StatedPassword(f)
    BY <1>2, <1>4, <1>8, <2>2
  <2> QED
    BY <2>2, <2>4, <2>5, <2>6
<1>9. Speaks(lines, verdict, lock.password = "unknown")
  <2>1. ASSUME verdict = "pass"
        PROVE  /\ lock.password \notin {"off", "unknown"}
               /\ \A p \in DOMAIN stated : stated[p].ok
    <3>1. CASE lock = NoDetail
      BY <1>3, <3>1
    <3>2. CASE lock # NoDetail
      <4>1. PICK p \in DOMAIN stated : Outcome(Shown(p), f) = "pass"
        BY <1>4, <1>5, <1>6, <2>1, <3>2
      <4>2. \A q \in DOMAIN stated : stated[q].ok
        BY <1>1, <2>1, <4>1 DEF Agrees
      <4> QED
        BY <1>8, <3>2, <4>1, <4>2
    <3> QED
      BY <3>1, <3>2
  <2>2. ASSUME Fails(verdict)
        PROVE  \/ DOMAIN stated = {} \/ lock.password \in {"off", "unknown"}
               \/ \E p \in DOMAIN stated :
                    /\ ~stated[p].ok
                    /\ \/ stated[p].minutes = {0}
                       \/ \E m \in stated[p].minutes : m > LimitMinutes
    <3>1. CASE lock = NoDetail
      BY <1>3, <3>1
    <3>2. CASE lock # NoDetail
      <4>1. PICK p \in DOMAIN stated : Fails(Outcome(Shown(p), f))
        BY <1>4, <1>5, <2>2, <3>2
      <4>2. ~stated[p].ok
        BY <1>8, <3>2, <4>1 DEF Fails
      <4> QED
        BY <1>8, <3>2, <4>1, <4>2
    <3> QED
      BY <3>1, <3>2
  <2> QED
    BY <1>0, <1>7, <2>1, <2>2, LockSpeaks DEF stated
<1>10. ASSUME NEW l \in lines, l.power # ""
       PROVE  TrueLine(l, P, real, verdict) /\ Worthwhile(l, f.display)
  <2>1. PICK p : p = l.power /\ p \in DOMAIN stated /\ l \in ProfileLines(p, stated[p], lock)
    BY <1>0, <1>10, LockLineOf DEF stated
  <2>2. lock # NoDetail
    BY <1>3, <2>1
  <2>3. PICK display, profile : display = Shown(p) /\ profile = stated[p]
    OBVIOUS
  <2>4. /\ profile = Detail(display, f) /\ display \in Optional(Nat)
        /\ Meant(p) # {} /\ Meant(p) \subseteq P
        /\ \A q \in Meant(p) : Truthful(display, f, asks, ts[q], d)
    BY <1>4, <2>1, <2>2, <2>3
  <2>5. /\ lock.password = StatedPassword(f) /\ lock.delay = KnownDelay(f)
        /\ lock.saver = Minutes(f.saver)
    BY <1>2, <2>2
  <2>6. ASSUME NEW q \in Meant(p)
        PROVE  /\ l.tone = "ok" => InTime(real[q])
               /\ l.tone = "fail" => f.password # "off" /\ ~profile.ok
               /\ l.tone = "fail" /\ f.saverKnown => ~InTime(real[q])
               /\ l.tone = "fail" /\ l.says = "display" => \E t \in display : t = 0 \/ t > Limit
    <3>1. PICK times \in SUBSET Nat : times = ts[q] /\ real[q] = RealLock(asks, times, d)
      BY <2>4
    <3>2. Truthful(display, f, asks, times, d)
      BY <2>4, <3>1
    <3>3. l \in ProfileLines(p, profile, lock)
      BY <2>1, <2>3
    <3>4. /\ l.tone = "ok" => InTime(RealLock(asks, times, d))
          /\ l.tone = "fail" => f.password # "off" /\ ~profile.ok
          /\ l.tone = "fail" /\ f.saverKnown => ~InTime(RealLock(asks, times, d))
      BY <2>4, <2>5, <3>2, <3>3, ProfileLineIsTrue
    <3>5. l.tone = "fail" /\ l.says = "display" => \E t \in display : t = 0 \/ t > Limit
      BY <2>4, <2>5, <3>2, <3>3, ProfileLinesAreTrue
    <3> QED
      BY <3>1, <3>4, <3>5
  <2>7. ASSUME l.tone = "fail", verdict # "unknown"  PROVE f.saverKnown
    <3>1. f.password # "off" /\ ~profile.ok
      BY <2>4, <2>6, <2>7
    <3>2. verdict # "pass"
      BY <1>1, <2>1, <2>3, <3>1 DEF Agrees
    <3>3. PICK e \in listed : Fails(Outcome(e, f))
      BY <1>5, <2>7, <3>2 DEF Fails
    <3>4. Complete(e, f)
      BY <3>1, <3>3 DEF Outcome, Fails
    <3> QED
      BY <3>4 DEF Complete
  <2>8. TrueLine(l, P, real, verdict)
    <3>1. Meant(p) = IF l.power = "any" THEN P ELSE {l.power}
      BY <2>1 DEF Meant
    <3>2. PICK q \in Meant(p) : TRUE
      BY <2>4
    <3> QED
      BY <2>6, <2>7, <3>1, <3>2 DEF TrueLine
  <2>9. Worthwhile(l, f.display)
    <3> SUFFICES ASSUME l.tone = "fail", l.says = "display"
                 PROVE  /\ l.power \in DOMAIN f.display
                        /\ \E t \in f.display[l.power] : t = 0 \/ t > Limit
      BY DEF Worthwhile
    <3>1. \E t \in Shown(p) : t = 0 \/ t > Limit
      BY <2>3, <2>4, <2>6
    <3>2. DOMAIN f.display = P /\ Shown(p) = f.display[p]
      BY <3>1 DEF Shown
    <3>3. p \in P
      BY <1>1, <1>2, <2>1, <2>2, <3>2 DEF stated
    <3> QED
      BY <2>1, <3>1, <3>2, <3>3
  <2> QED
    BY <2>8, <2>9
<1> QED
  BY <1>0, <1>9, <1>10 DEF Described

\* The row of the screen lock of the computer w, whose verdict is right.
LockRowIsTrue(w) ==
  LET verdict == Verdict(w)
      lines   == LockLines(Details(w), verdict)
      real    == [p \in Profiles(w) |-> TrueTimes(w, p)]
  IN  /\ Speaks(lines, verdict, Details(w).password = "unknown")
      /\ \A l \in lines : l.power # "" =>
           /\ TrueLine(l, Profiles(w), real, verdict)
           /\ l.tone = "fail" /\ l.says = "display" /\ w.kind # "windows_lock" =>
                DisplayTimer(w, l.power) = 0 \/ DisplayTimer(w, l.power) > Limit

\* Where nothing was read, no profile is named.
LEMMA NothingSaid ==
  ASSUME NEW w, Details(w) = NoDetail, Verdict(w) = "unknown"
  PROVE  LockRowIsTrue(w)
<1> DEFINE lock  == Details(w)
           lines == LockLines(lock, "unknown")
<1>1. DOMAIN lock.profiles = {} /\ lock.password = "absent"
  BY DEF NoDetail, LockDetail
<1>2. ~Fails("unknown")
  BY DEF Fails
<1> HIDE DEF lock, lines
<1>3. Speaks(lines, "unknown", lock.password = "unknown")
  BY <1>1, <1>2, LockSpeaks DEF lines
<1>4. \A l \in lines : l.power = ""
  BY <1>1, LockLineOf DEF lines
<1> QED
  BY <1>3, <1>4 DEF LockRowIsTrue, lock, lines

\* GNOME.
LEMMA GnomeRowIsTrue ==
  ASSUME NEW w \in Gnomes  PROVE LockRowIsTrue(w)
<1>1. w.kind = "gnome_lock" /\ w.s \in GnomeLocks
  BY DEF Gnomes, Computer
<1>2. w.s.enabled \in BOOLEAN /\ w.s.idle \in Nat /\ w.s.delay \in Nat
  BY <1>1 DEF GnomeLocks
<1>3. CASE ~GnomeIsRead
  <2>1. Details(w) = NoDetail /\ Verdict(w) = "unknown"
    BY <1>1, <1>3 DEF Details, Verdict
  <2> QED
    BY <2>1, NothingSaid
<1>4. CASE GnomeIsRead
  <2> DEFINE f  == GnomeLock(w.s)
             P  == {"any"}
             ts == [p \in P |-> {w.s.idle}]
             real == [p \in P |-> TrueTimes(w, p)]
             lock == ProfileDetails(f)
             verdict == ProfileScreenLock(f)
             lines == LockLines(lock, verdict)
  <2>1. Details(w) = lock /\ Verdict(w) = verdict /\ Profiles(w) = P
    BY <1>1, <1>4 DEF Details, Verdict, Profiles
  <2>2. \A p \in P : real[p] = RealLock(w.s.enabled, ts[p], w.s.delay)
    BY <1>1 DEF TrueTimes, RealLock
  <2>3. f.display["any"] \in Optional(Nat) /\ f.display["any"] \subseteq {w.s.idle}
    BY <1>2 DEF GnomeLock, Got, Optional
  <2>4. /\ P # {} /\ P = {"any"} /\ DOMAIN f.display \in {{}, P} /\ ts \in [P -> SUBSET Nat]
        /\ \A p \in DOMAIN f.display : f.display[p] \in Optional(Nat)
        /\ \A p \in P : Truthful(IF DOMAIN f.display = {} THEN {} ELSE f.display[p],
                                 f, w.s.enabled, ts[p], w.s.delay)
    <3>1. DOMAIN f.display = {"any"}
      BY DEF GnomeLock
    <3>2. Truthful(f.display["any"], f, w.s.enabled, {w.s.idle}, w.s.delay)
      BY <1>1, GnomeIsTruthful
    <3> HIDE DEF f
    <3> QED
      BY <1>2, <2>3, <3>1, <3>2
  <2> HIDE DEF f, P, ts, real, lock, verdict, lines
  <2>5. /\ Speaks(lines, verdict, lock.password = "unknown")
        /\ \A l \in lines : l.power # "" =>
             TrueLine(l, P, real, verdict) /\ Worthwhile(l, f.display)
    <3>1. Described(f, P, real)
      BY <1>2, <2>2, <2>4, ProfilesSpeak
    <3> QED
      BY <3>1 DEF Described, lock, verdict, lines
  <2>6. ASSUME NEW l, Worthwhile(l, f.display), l.tone = "fail", l.says = "display"
        PROVE  DisplayTimer(w, l.power) = 0 \/ DisplayTimer(w, l.power) > Limit
    <3>1. l.power = "any" /\ \E t \in f.display["any"] : t = 0 \/ t > Limit
      BY <2>4, <2>6 DEF Worthwhile, P
    <3> QED
      BY <1>1, <2>3, <3>1 DEF DisplayTimer
  <2>7. real = [p \in Profiles(w) |-> TrueTimes(w, p)]
    BY <2>1 DEF real
  <2> QED
    BY <2>1, <2>5, <2>6, <2>7 DEF LockRowIsTrue, lines
<1> QED
  BY <1>3, <1>4

\* macOS.
LEMMA MacRowIsTrue ==
  ASSUME NEW w \in MacLocked, ReadAllOf(w)  PROVE LockRowIsTrue(w)
<1>1. w.kind = "mac_lock" /\ w.s \in MacLocks /\ ProfileIsWhole(w.s) /\ "managed" \in got
  BY NamesOfSources DEF MacLocked, Computer, ReadAllOf, Reads
<1>2. PICK d \in Nat : MacDelay(w.s) = {d}
  BY <1>1, MacSettings
<1>3. CASE "console" \notin got
  <2>1. Details(w) = NoDetail /\ Verdict(w) = "unknown"
    BY <1>1, <1>3 DEF Details, Verdict
  <2> QED
    BY <2>1, NothingSaid
<1>4. CASE "console" \in got
  <2> DEFINE f  == MacLock(w.s)
             P  == DOMAIN w.s.display
             ts == [p \in P |-> {w.s.display[p]} \cup MacSaver(w.s)]
             real == [p \in P |-> TrueTimes(w, p)]
             lock == ProfileDetails(f)
             verdict == ProfileScreenLock(f)
             lines == LockLines(lock, verdict)
  <2>1. Details(w) = lock /\ Verdict(w) = verdict /\ Profiles(w) = P
    BY <1>1, <1>4 DEF Details, Verdict, Profiles
  <2>2. P # {} /\ "any" \notin P /\ \A p \in P : w.s.display[p] \in Nat
    BY <1>1 DEF MacLocks
  <2>3. MacAsks(w.s) \in BOOLEAN /\ MacSaver(w.s) \in SUBSET Nat
    BY <1>1, MacSettings DEF Optional
  <2>4. /\ DOMAIN f.display \in {{}, P}
        /\ \A p \in DOMAIN f.display : p \in P /\ f.display[p] = Got(p, {w.s.display[p]})
    BY DEF MacLock, Pmset
  <2>5. ts \in [P -> SUBSET Nat]
    BY <2>2, <2>3
  <2>6. \A p \in P : Truthful(IF DOMAIN f.display = {} THEN {} ELSE f.display[p],
                              f, MacAsks(w.s), ts[p], d)
    BY <1>1, <1>2, MacIsTruthful
  <2>7. \A p \in P : TrueTimes(w, p) = RealLock(MacAsks(w.s), ts[p], d)
    <3>1. \A p \in P : TrueTimes(w, p) = MacTimes(w.s, p)
      BY <1>1 DEF TrueTimes
    <3> QED
      BY <1>1, <1>2, <3>1, ProfileWins
  <2>8. \A p \in P : real[p] = RealLock(MacAsks(w.s), ts[p], d)
    BY <2>7
  <2>9. real = [p \in Profiles(w) |-> TrueTimes(w, p)]
    BY <2>1
  <2> HIDE DEF f, P, ts, real, lock, verdict, lines
  <2>10. \A p \in DOMAIN f.display : f.display[p] \in Optional(Nat)
    BY <2>2, <2>4 DEF Got, Optional
  <2>11. /\ Speaks(lines, verdict, lock.password = "unknown")
         /\ \A l \in lines : l.power # "" =>
              TrueLine(l, P, real, verdict) /\ Worthwhile(l, f.display)
    <3>1. Described(f, P, real)
      BY <1>2, <2>2, <2>3, <2>4, <2>5, <2>6, <2>8, <2>10, ProfilesSpeak
    <3> QED
      BY <3>1 DEF Described, lock, verdict, lines
  <2>12. ASSUME NEW l, Worthwhile(l, f.display), l.tone = "fail", l.says = "display"
         PROVE  DisplayTimer(w, l.power) = 0 \/ DisplayTimer(w, l.power) > Limit
    <3>1. PICK p \in DOMAIN f.display : p = l.power /\ \E t \in f.display[p] : t = 0 \/ t > Limit
      BY <2>12 DEF Worthwhile
    <3>2. f.display[p] \subseteq {w.s.display[p]}
      BY <2>4 DEF Got
    <3> QED
      BY <1>1, <3>1, <3>2 DEF DisplayTimer
  <2> QED
    BY <2>1, <2>9, <2>11, <2>12 DEF LockRowIsTrue, lines
<1> QED
  BY <1>3, <1>4

------------------------------------------------------------------------------
(* The rows of the screen lock, Windows.                                    *)

\* What the detail of a profile of Windows says.
LEMMA WindowsDetailSays ==
  ASSUME NEW display, NEW times \in SUBSET Nat, \A t \in times : t > 0, ~InTime(times),
         NEW stated, stated = WindowsDetail(display, times)
  PROVE  stated.minutes = {0} \/ \E m \in stated.minutes : m > LimitMinutes
<1>1. stated.minutes = Minutes(Soonest(IF times = {} THEN {0} ELSE times))
  BY DEF WindowsDetail, ProfileDetail
<1>2. CASE times = {}
  BY <1>1, <1>2, ZeroMinutes
<1>3. CASE times # {}
  <2>1. stated.minutes = Minutes(Soonest(times))
    BY <1>1, <1>3
  <2>2. stated.minutes # {} /\ \A m \in stated.minutes : m > LimitMinutes
    BY <1>3, <2>1, LateMinutes
  <2> QED
    BY <2>2
<1> QED
  BY <1>2, <1>3

\* On wake a profile locks after its timer, never before.
LEMMA WakesLater ==
  ASSUME NEW s \in WindowsLocks, NEW p \in {"ac", "battery"},
         NEW wake, wake = IF s.onWake[p] = 1 THEN Locked({s.display[p]}, WakeDelay(s)) ELSE {}
  PROVE  wake \in SUBSET Nat /\ \A t \in wake : t > 0
<1>1. s.display[p] \in Nat
  BY WindowsSettings
<1>2. WakeDelay(s) = {} \/ \E d \in Nat : WakeDelay(s) = {d}
  BY WindowsSettings DEF WakeDelay, Optional
<1>3. ASSUME NEW n \in Nat, NEW d \in Nat
      PROVE  \A t \in Locked({n}, {d}) : t \in Nat /\ t > 0
  <2>1. Locked({n}, {d}) = {t + EffectiveDelay(d) : t \in Positive({n})}
    BY LockedAfter
  <2>2. EffectiveDelay(d) \in Nat
    BY DEF EffectiveDelay
  <2> QED
    BY <1>3, <2>1, <2>2 DEF Positive
<1>4. \A n : Locked({n}, {}) = {}
  BY DEF Locked
<1> QED
  BY <1>1, <1>2, <1>3, <1>4

\* Windows.
LEMMA WindowsRowIsTrue ==
  ASSUME NEW w \in WindowsLocked, ReadAllOf(w)  PROVE LockRowIsTrue(w)
<1>1. w.kind = "windows_lock" /\ w.s \in WindowsLocks /\ "registry" \in got
  BY NamesOfSources DEF WindowsLocked, Computer, ReadAllOf, Reads
<1> DEFINE f  == WindowsLock(w.s)
           ac == LockTimes(f, f.displayAC, f.lockAC)
           dc == LockTimes(f, f.displayDC, f.lockDC)
           always == AlwaysLocks(w.s)
           ind    == Independent(f)
           Wake(p) == IF w.s.onWake[p] = 1 THEN Locked({w.s.display[p]}, WakeDelay(w.s)) ELSE {}
           real   == [p \in Profiles(w) |-> TrueTimes(w, p)]
           lock   == Details(w)
           stated == Details(w).profiles
           verdict == WindowsScreenLock(f)
           lines  == LockLines(lock, verdict)
           one    == ProfileDetail({}, ind, InTime(ind))
           onAC   == WindowsDetail(f.displayAC, ac)
           onDC   == WindowsDetail(f.displayDC, dc)
<1>2. Profiles(w) = {"ac", "battery"}
  BY <1>1 DEF Profiles, WindowsLocks
<1>3. real["ac"] = always \cup Wake("ac") /\ real["battery"] = always \cup Wake("battery")
  BY <1>1, <1>2, WindowsLocksByEither DEF TrueTimes
<1>4. ind \subseteq always /\ (SaverKnown(f) => ind = always) /\ ind \in SUBSET Nat
  BY <1>1, IndependentIsTrue
<1>5. DisplayKnown(f) => ac = ind \cup Wake("ac") /\ dc = ind \cup Wake("battery")
  BY <1>1, WakeIsTrue
<1>6. Verdict(w) = verdict
  BY <1>1 DEF Verdict
<1>7. /\ stated = IF InTime(ind) \/ ~DisplayKnown(f)
                  THEN [p \in {"any"} |-> one]
                  ELSE [p \in {"ac", "battery"} |-> IF p = "ac" THEN onAC ELSE onDC]
      /\ lock.password = WindowsPassword(f)
  BY <1>1 DEF Details, WindowsDetails, LockDetail
<1>8. one.ok <=> InTime(ind)
  BY DEF ProfileDetail
<1>9. (onAC.ok <=> InTime(ac)) /\ (onDC.ok <=> InTime(dc))
  BY DEF WindowsDetail, ProfileDetail, InOrder
<1>10. /\ verdict # "not_on"
       /\ InTime(ind) => verdict = "pass"
       /\ ~InTime(ind) /\ ~DisplayKnown(f) => verdict = "unknown"
       /\ ~InTime(ind) /\ DisplayKnown(f) =>
            /\ verdict = "pass" <=> InTime(ac) /\ InTime(dc)
            /\ verdict = "unknown" <=> ~(InTime(ac) /\ InTime(dc)) /\ ~SaverKnown(f)
  BY DEF WindowsScreenLock
<1>11. verdict = "pass" => lock.password \notin {"off", "unknown"}
  <2>1. f.lockAC # {TRUE} => ac = ind
    BY DEF LockTimes
  <2> HIDE DEF ac, ind, verdict
  <2>2. {TRUE} \notin {f.lockAC, f.lockDC} => ac = ind
    BY <2>1
  <2>3. verdict = "pass" => InTime(ind) \/ (DisplayKnown(f) /\ {TRUE} \in {f.lockAC, f.lockDC})
    BY <1>10, <2>2
  <2> QED
    BY <1>7, <2>3 DEF WindowsPassword, ind
<1>12. ASSUME DisplayKnown(f)
       PROVE  /\ ac \in SUBSET Nat /\ \A t \in ac : t > 0
              /\ dc \in SUBSET Nat /\ \A t \in dc : t > 0
  <2>1. \A p \in {"ac", "battery"} : Wake(p) \in SUBSET Nat /\ \A t \in Wake(p) : t > 0
    BY <1>1, WakesLater
  <2>2. \A t \in ind : t > 0
    BY DEF Independent, Positive
  <2> HIDE DEF f, ac, dc, ind, Wake
  <2> QED
    BY <1>4, <1>5, <1>12, <2>1, <2>2
<1> HIDE DEF f, always, Wake, real, lock, stated, verdict, lines, ind, ac, dc, one, onAC, onDC
<1>13. CASE InTime(ind) \/ ~DisplayKnown(f)
  <2>1. DOMAIN stated = {"any"} /\ stated["any"] = one
    BY <1>7, <1>13
  <2>2. verdict = "unknown" \/ (verdict = "pass" /\ InTime(ind))
    BY <1>10, <1>13
  <2>3. Speaks(lines, verdict, lock.password = "unknown")
    <3>1. verdict = "pass" => \A p \in DOMAIN stated : stated[p].ok
      BY <1>8, <2>1, <2>2
    <3>2. ~Fails(verdict)
      BY <2>2 DEF Fails
    <3> QED
      BY <1>10, <1>11, <3>1, <3>2, LockSpeaks DEF lines, stated, lock
  <2>4. ASSUME NEW l \in lines, l.power # ""
        PROVE  TrueLine(l, Profiles(w), real, verdict)
    <3>1. l.power = "any" /\ l \in ProfileLines("any", one, lock)
      BY <2>1, <2>4, LockLineOf DEF lines, stated, lock
    <3>2. SaidOf(l, "any", one, lock)
      BY <3>1, ProfileLineIs
    <3>3. /\ l.tone = "ok" => InTime(ind)
          /\ l.tone = "fail" => verdict = "unknown"
      BY <1>8, <2>2, <3>2 DEF SaidOf
    <3>4. InTime(ind) => \A p \in {"ac", "battery"} : InTime(real[p])
      BY <1>3, <1>4 DEF InTime
    <3> QED
      BY <1>2, <3>1, <3>3, <3>4 DEF TrueLine
  <2> QED
    BY <1>1, <1>6, <2>3, <2>4 DEF LockRowIsTrue, lines, lock, real
<1>14. CASE ~InTime(ind) /\ DisplayKnown(f)
  <2>1. DOMAIN stated = {"ac", "battery"} /\ stated["ac"] = onAC /\ stated["battery"] = onDC
    BY <1>7, <1>14
  <2>2. Speaks(lines, verdict, lock.password = "unknown")
    <3>1. verdict = "pass" => \A p \in DOMAIN stated : stated[p].ok
      BY <1>9, <1>10, <1>14, <2>1
    <3>2. ASSUME Fails(verdict)
          PROVE \E p \in DOMAIN stated :
                   /\ ~stated[p].ok
                   /\ \/ stated[p].minutes = {0}
                      \/ \E m \in stated[p].minutes : m > LimitMinutes
      <4>1. ~InTime(ac) \/ ~InTime(dc)
        BY <1>10, <1>14, <3>2 DEF Fails
      <4>2. ~InTime(ac) => onAC.minutes = {0} \/ \E m \in onAC.minutes : m > LimitMinutes
        BY <1>12, <1>14, WindowsDetailSays DEF onAC
      <4>3. ~InTime(dc) => onDC.minutes = {0} \/ \E m \in onDC.minutes : m > LimitMinutes
        BY <1>12, <1>14, WindowsDetailSays DEF onDC
      <4> QED
        BY <1>9, <2>1, <4>1, <4>2, <4>3
    <3> QED
      BY <1>10, <1>11, <3>1, <3>2, LockSpeaks DEF lines, stated, lock
  <2>3. /\ ac \subseteq real["ac"] /\ dc \subseteq real["battery"]
        /\ SaverKnown(f) => ac = real["ac"] /\ dc = real["battery"]
    BY <1>3, <1>4, <1>5, <1>14
  <2>4. ASSUME NEW l \in lines, l.power # ""
        PROVE  TrueLine(l, Profiles(w), real, verdict)
    <3>1. PICK p, profile : /\ p = l.power /\ p \in {"ac", "battery"} /\ profile = stated[p]
                            /\ l \in ProfileLines(p, profile, lock)
      BY <2>1, <2>4, LockLineOf DEF lines, stated, lock
    <3>2. SaidOf(l, p, profile, lock)
      BY <3>1, ProfileLineIs
    <3>3. /\ profile.ok => InTime(real[p])
          /\ ~profile.ok /\ SaverKnown(f) => ~InTime(real[p])
      BY <1>9, <2>1, <2>3, <3>1 DEF InTime
    <3>4. ~profile.ok => verdict = "unknown" \/ SaverKnown(f)
      BY <1>9, <1>10, <1>14, <2>1, <3>1
    <3>5. /\ l.tone = "ok" => InTime(real[p])
          /\ l.tone = "fail" /\ verdict # "unknown" => ~InTime(real[p])
      BY <3>2, <3>3, <3>4 DEF SaidOf
    <3> QED
      BY <3>1, <3>5 DEF TrueLine
  <2> QED
    BY <1>1, <1>6, <2>2, <2>4 DEF LockRowIsTrue, lines, lock, real
<1> QED
  BY <1>13, <1>14

------------------------------------------------------------------------------
(* Every row.                                                               *)

\* A check that is done has read what it can.
LEMMA DoneReading ==
  ASSUME Worlds \subseteq Honest, ReadsAll, Done
  PROVE  world \in Honest /\ ReadAllOf(world)
  BY DEF ReadsAll, ReadAllOf, Done, Names

LockKinds == {"mac_lock", "gnome_lock", "windows_lock"}

\* The row of a screen lock.
LEMMA LocksAreTrue ==
  ASSUME NEW w \in UNION {MacLocked, Gnomes, WindowsLocked}, ReadAllOf(w)
  PROVE  /\ LockRowIsTrue(w) /\ DetailsAgree(w)
         /\ Lines(w, Verdict(w)) = LockLines(Details(w), Verdict(w))
<1>1. w.kind \in LockKinds
  BY DEF MacLocked, Gnomes, WindowsLocked, Computer, LockKinds
<1>2. Lines(w, Verdict(w)) = LockLines(Details(w), Verdict(w))
  BY <1>1 DEF Lines, LockKinds
<1>3. LockRowIsTrue(w)
  BY MacRowIsTrue, GnomeRowIsTrue, WindowsRowIsTrue
<1>4. DetailsAgree(w)
  BY MacDetailsAgree, GnomeDetailsAgree, WindowsDetailsAgree
<1> QED
  BY <1>2, <1>3, <1>4

\* Every row speaks with its verdict, and only those of a lock name a profile.
LEMMA RowsSpeak ==
  ASSUME NEW w \in Honest, ReadAllOf(w)
  PROVE  /\ Speaks(Lines(w, Verdict(w)), Verdict(w), Details(w).password = "unknown")
         /\ w \notin UNION {MacLocked, Gnomes, WindowsLocked} => Plain(Lines(w, Verdict(w)))
<1>1. CASE w \in UNION {MacLocked, Gnomes, WindowsLocked}
  BY <1>1, LocksAreTrue DEF LockRowIsTrue
<1>2. CASE w \notin UNION {MacLocked, Gnomes, WindowsLocked}
  <2>1. w \in UNION {Macs, WindowsMachines, Apts, Gatekeepers, Antiviruses, ClamAVs,
                     FileVaults, BitLockers, Roots}
    BY <1>2 DEF Honest
  <2>2. Speaks(Lines(w, Verdict(w)), Verdict(w), FALSE) /\ Plain(Lines(w, Verdict(w)))
    BY <2>1, TablesSpeak
  <2> QED
    BY <2>2 DEF Speaks
<1> QED
  BY <1>1, <1>2

------------------------------------------------------------------------------
(* The theorems.                                                            *)

\* The row on the page, the headline over it and the verdict agree, for every computer and
\* whichever of the optional sources could not be read.
THEOREM RowsAgree ==
  ASSUME Worlds \subseteq Honest
  PROVE  Spec => []RowAgrees
<1>1. ReadsAll => RowAgrees
  <2> SUFFICES ASSUME ReadsAll, Done  PROVE RowAgrees
    BY DEF RowAgrees
  <2>1. world \in Honest /\ ReadAllOf(world)
    BY DoneReading
  <2>2. Speaks(Lines(world, Verdict(world)), Verdict(world), Details(world).password = "unknown")
    BY <2>1, RowsSpeak
  <2> QED
    BY <2>2, RowSpeaks DEF RowAgrees
<1> QED
  BY <1>1, ChecksReadAll, PTL

\* The lines of the screen lock are true of the profile they name, for every computer and
\* whichever of the optional sources could not be read.
THEOREM LockLinesTrue ==
  ASSUME Worlds \subseteq Honest
  PROVE  Spec => []LockLinesAreTrue
<1>1. ReadsAll => LockLinesAreTrue
  <2> SUFFICES ASSUME ReadsAll, Done, NEW l \in Row(world), l.power # ""
               PROVE  LET InTimeUnder(p) == \E t \in TrueTimes(world, p) : t <= Limit
                          meant == IF l.power = "any" THEN Profiles(world) ELSE {l.power}
                      IN  /\ l.tone = "ok" => \A p \in meant : InTimeUnder(p)
                          /\ l.tone = "fail" /\ Verdict(world) # "unknown" =>
                               \E p \in meant : ~InTimeUnder(p)
                          /\ l.tone = "fail" /\ l.says = "display" /\ world.kind # "windows_lock" =>
                               \/ DisplayTimer(world, l.power) = 0
                               \/ DisplayTimer(world, l.power) > Limit
    BY DEF LockLinesAreTrue
  <2>1. world \in Honest /\ ReadAllOf(world)
    BY DoneReading
  <2>2. l \in Lines(world, Verdict(world))
    BY RowLine
  <2>3. world \in UNION {MacLocked, Gnomes, WindowsLocked}
    <3>1. ~Plain(Lines(world, Verdict(world)))
      BY <2>2 DEF Plain
    <3> QED
      BY <2>1, <3>1, RowsSpeak
  <2> DEFINE real  == [p \in Profiles(world) |-> TrueTimes(world, p)]
             meant == IF l.power = "any" THEN Profiles(world) ELSE {l.power}
             lines == LockLines(Details(world), Verdict(world))
  <2>4. l \in lines /\ LockRowIsTrue(world) /\ DetailsAgree(world)
    BY <2>1, <2>2, <2>3, LocksAreTrue
  <2>5. /\ TrueLine(l, Profiles(world), real, Verdict(world))
        /\ l.tone = "fail" /\ l.says = "display" /\ world.kind # "windows_lock" =>
             DisplayTimer(world, l.power) = 0 \/ DisplayTimer(world, l.power) > Limit
    BY <2>4 DEF LockRowIsTrue
  <2>6. l.power \in DOMAIN Details(world).profiles
    BY <2>4, LockLineOf
  <2>7. meant \subseteq Profiles(world)
    BY <2>4, <2>6 DEF DetailsAgree, Agrees
  <2>8. \A p \in meant : real[p] = TrueTimes(world, p)
    BY <2>7
  <2>9. /\ l.tone = "ok" => \A p \in meant : InTime(real[p])
        /\ l.tone = "fail" /\ Verdict(world) # "unknown" => \E p \in meant : ~InTime(real[p])
    BY <2>5 DEF TrueLine
  <2> HIDE DEF real, meant
  <2>10. /\ l.tone = "ok" => \A p \in meant : \E t \in TrueTimes(world, p) : t <= Limit
         /\ l.tone = "fail" /\ Verdict(world) # "unknown" =>
              \E p \in meant : ~\E t \in TrueTimes(world, p) : t <= Limit
    BY <2>8, <2>9 DEF InTime
  <2> QED
    BY <2>5, <2>10 DEF meant
<1> QED
  BY <1>1, ChecksReadAll, PTL

=============================================================================
