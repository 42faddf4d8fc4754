--------------------------- MODULE AgentCleanProofs ---------------------------
(***************************************************************************)
(* Agent for every interval, queue limit and set of answers, while nothing *)
(* goes wrong: up to the first fault, no evidence is duplicated, kept too  *)
(* long or dropped too soon.  Each theorem says what holds in every state  *)
(* before that fault.                                                      *)
(***************************************************************************)
EXTENDS AgentProofs

Undisturbed == faults = 0

\* An envelope stays queued when the service has said nothing definitive about it.
LEMMA KeptIsUnanswered ==
  ASSUME NEW status, StaysQueued(status)
  PROVE  ~Success(status) /\ ~Refusal(status)
BY DEF StaysQueued, Classify

\* A fault is counted, so the steps of an undisturbed behavior are not faults.
LEMMA StillUndisturbed ==
  ASSUME TypeOK, [Next]_vars, Undisturbed'
  PROVE  /\ Undisturbed
         /\ ~(Fail \/ UpdateLastFails \/ Crash \/ SetBack \/ Damage \/ LoseAccess)
<1>1. ASSUME NEW kind, Fault(kind)  PROVE FALSE
  BY <1>1 DEF Fault, Undisturbed, TypeOK
<1>2. ~(Fail \/ UpdateLastFails \/ Crash \/ SetBack \/ Damage \/ LoseAccess)
  BY <1>1 DEF Fail, UpdateLastFails, Crash, SetBack, Damage, LoseAccess
<1>3. CASE FlushScan \/ FlushDone \/ Remove \/ UpdateLast \/ Load \/ Collect \/ Queue
  BY <1>2, <1>3 DEF FlushScan, FlushDone, Remove, UpdateLast, Load, Collect, Queue, Undisturbed
<1>4. CASE TrimScan \/ TrimDrop \/ TrimDone \/ SaveLast \/ SaveState \/ Tick
           \/ RegainAccess \/ UNCHANGED vars
  BY <1>2, <1>4 DEF TrimScan, TrimDrop, TrimDone, SaveLast, SaveState, Return, Tick,
              RegainAccess, vars, Undisturbed
<1>5. ASSUME NEW status \in Answers, FlushSend(status) \/ Send(status)
      PROVE  Undisturbed
  <2>1. \E e : Exchange(e, status)
    BY <1>5 DEF FlushSend, Send
  <2>2. faults' = faults \/ Fault("answer")
    BY <2>1 DEF Exchange
  <2> QED
    BY <1>1, <2>2 DEF Undisturbed
<1>6. ASSUME NEW s \in Callers, Start(s)  PROVE Undisturbed
  BY <1>6 DEF Start, Undisturbed
<1> QED
  BY <1>2, <1>3, <1>4, <1>5, <1>6 DEF Next, Flush, Work, Environment

\* No file that cannot be read, and none passed over.
AllReadable == Undisturbed => stuck = {} /\ skipped = {}

\* Until the first fault Pending reads every file.
LEMMA EveryFileIsRead == Spec => []AllReadable
<1>1. Init => AllReadable
  BY DEF Init, AllReadable
<1>2. TypeOK /\ AllReadable /\ [Next]_vars => AllReadable'
  <2> SUFFICES ASSUME TypeOK, AllReadable, [Next]_vars, Undisturbed'
               PROVE  stuck' = {} /\ skipped' = {}
    BY DEF AllReadable
  <2>1. /\ Undisturbed
        /\ ~(Fail \/ UpdateLastFails \/ Crash \/ SetBack \/ Damage \/ LoseAccess)
    BY StillUndisturbed
  <2>2. stuck = {} /\ skipped = {}
    BY <2>1 DEF AllReadable
  <2> USE DEF run, files
  <2>3. CASE FlushScan \/ TrimScan
    BY <2>2, <2>3 DEF FlushScan, TrimScan, Scan
  <2>4. ASSUME NEW status \in Answers, FlushSend(status) \/ Send(status)
        PROVE  stuck' = {} /\ skipped' = {}
    BY <2>2, <2>4 DEF FlushSend, Send
  <2>5. CASE FlushDone \/ Remove \/ UpdateLast \/ Load \/ Collect \/ Queue
    BY <2>2, <2>5 DEF FlushDone, Remove, UpdateLast, Load, Collect, Queue
  <2>6. CASE TrimDrop \/ TrimDone \/ SaveLast \/ SaveState
    BY <2>2, <2>6 DEF TrimDrop, TrimDone, SaveLast, SaveState, Return
  <2>7. CASE Tick \/ RegainAccess \/ UNCHANGED vars
    BY <2>2, <2>7 DEF Tick, RegainAccess, vars
  <2>8. ASSUME NEW s \in Callers, Start(s)  PROVE stuck' = {} /\ skipped' = {}
    BY <2>2, <2>8 DEF Start
  <2> QED
    BY <2>1, <2>3, <2>4, <2>5, <2>6, <2>7, <2>8 DEF Next, Flush, Work, Environment
<1> QED
  BY <1>1, <1>2, TypeCorrect, PTL DEF Spec

------------------------------------------------------------------------------
(* What was refused is not sent again.                                      *)

\* A refused envelope is in the queue only until Remove takes it out.
RefusedLeaves ==
  Undisturbed => \A e \in spool \cap rejected : pc = "remove" /\ e = cur

\* No run before the first fault leaves a refused envelope in the queue for the next
\* one to send.
THEOREM RefusalsAreFinal == Spec => [](Undisturbed => RejectedNeverRetried)
<1>1. Init => RefusedLeaves
  BY DEF Init, RefusedLeaves
<1>2. TypeOK /\ SnapshotIsQueue /\ InOnePlace /\ RefusedLeaves /\ [Next]_vars
        => RefusedLeaves'
  <2> SUFFICES ASSUME TypeOK, SnapshotIsQueue, InOnePlace, RefusedLeaves, [Next]_vars,
                      Undisturbed'
               PROVE  RefusedLeaves'
    BY DEF RefusedLeaves
  <2>1. /\ Undisturbed
        /\ ~(Fail \/ UpdateLastFails \/ Crash \/ SetBack \/ Damage \/ LoseAccess)
    BY StillUndisturbed
  <2> USE DEF RefusedLeaves, run, files, history
  <2>2. CASE FlushScan \/ TrimScan \/ FlushDone \/ Remove \/ UpdateLast \/ Load \/ Collect
    BY <2>1, <2>2 DEF FlushScan, TrimScan, Scan, FlushDone, Remove, UpdateLast, Load, Collect
  <2>3. ASSUME NEW status \in Answers, FlushSend(status)  PROVE RefusedLeaves'
    <3>1. PICK e \in pending : /\ Exchange(e, status) /\ cur' = e
                               /\ StaysQueued(status) \/ pc' = "remove"
      BY <2>1, <2>3 DEF FlushSend
    <3>2. pc = "flush" /\ spool' = spool
      BY <2>1, <2>3 DEF FlushSend
    <3>3. CASE StaysQueued(status)
      BY <2>1, <3>1, <3>2, <3>3, KeptIsUnanswered DEF Exchange
    <3>4. CASE pc' = "remove"
      <4>1. rejected' \subseteq rejected \cup {e}
        BY <3>1 DEF Exchange
      <4> QED
        BY <2>1, <3>1, <3>2, <3>4, <4>1
    <3> QED
      BY <3>1, <3>3, <3>4
  <2>4. ASSUME NEW status \in Answers, Send(status)  PROVE RefusedLeaves'
    BY <2>1, <2>4 DEF Send, Exchange, InOnePlace, InHand, Accounted
  <2>5. CASE Queue
    BY <2>1, <2>5 DEF Queue, InOnePlace, InHand, Accounted
  <2>6. CASE TrimDrop \/ TrimDone \/ SaveLast \/ SaveState
    BY <2>1, <2>6 DEF TrimDrop, TrimDone, SaveLast, SaveState, Return
  <2>7. CASE Tick \/ RegainAccess \/ UNCHANGED vars
    BY <2>1, <2>7 DEF Tick, RegainAccess, vars
  <2>8. ASSUME NEW s \in Callers, Start(s)  PROVE RefusedLeaves'
    BY <2>1, <2>8 DEF Start
  <2> QED
    BY <2>1, <2>2, <2>3, <2>4, <2>5, <2>6, <2>7, <2>8 DEF Next, Flush, Work, Environment
<1>3. RefusedLeaves => (Undisturbed => RejectedNeverRetried)
  BY DEF RefusedLeaves, RejectedNeverRetried
<1> QED
  BY <1>1, <1>2, <1>3, TypeCorrect, SnapshotKept, PlacesAreDisjoint, PTL DEF Spec

------------------------------------------------------------------------------
(* What last-report.json calls queued waits.                                *)

\* The envelopes that were queued and not answered since.
Waiting == spool \cup aside \cup trimmed

ReportWaits ==
  Undisturbed =>
    /\ lastReport.n # 0 => \E e \in made : e.n = lastReport.n /\ e.kind = "full"
    /\ pc \in {"trim", "drop"} \/ (pc = "saveLast" /\ verdict = "queued") => cur \in Waiting
    /\ lastReport.delivery = "queued" =>
         \/ lastReport.n \in Numbers(Waiting)
         \/ pc = "update" /\ cur.n = lastReport.n

\* As long as nothing fails, is lost or is tampered with, a report that says "queued" still
\* waits in the queue, or its run is about to correct it (agent.go, the last report).
THEOREM QueuedReportWaits == Spec => [](Undisturbed => QueuedMeansWaiting)
<1>1. Init => ReportWaits
  BY DEF Init, ReportWaits, NoReport
<1>2. TypeOK /\ SnapshotIsQueue /\ WellFounded /\ Numbered /\ ReportsWhatHappened
        /\ ReportWaits /\ [Next]_vars
      => ReportWaits'
  <2> SUFFICES ASSUME TypeOK, SnapshotIsQueue, WellFounded, Numbered,
                      ReportsWhatHappened, ReportWaits, [Next]_vars, Undisturbed'
               PROVE  ReportWaits'
    BY DEF ReportWaits
  <2>1. /\ Undisturbed
        /\ ~(Fail \/ UpdateLastFails \/ Crash \/ SetBack \/ Damage \/ LoseAccess)
    BY StillUndisturbed
  <2> DEFINE Full    == lastReport.n # 0 =>
                          \E e \in made : e.n = lastReport.n /\ e.kind = "full"
             Placed  == pc \in {"trim", "drop"} \/ (pc = "saveLast" /\ verdict = "queued")
                          => cur \in Waiting
             Listed  == lastReport.delivery = "queued" =>
                          \/ lastReport.n \in Numbers(Waiting)
                          \/ pc = "update" /\ cur.n = lastReport.n
  <2>2. Full /\ Placed /\ Listed
    BY <2>1 DEF ReportWaits
  <2>3. Full' /\ Placed' /\ Listed' => ReportWaits'
    BY DEF ReportWaits
  \* A step that leaves last-report.json and the places alone.
  <2>4. ASSUME lastReport' = lastReport, made \subseteq made', Waiting \subseteq Waiting',
               pc # "update", Placed'
        PROVE  ReportWaits'
    <3>1. Full'
      BY <2>2, <2>4
    <3>2. Listed'
      BY <2>2, <2>4 DEF Numbers
    <3> QED
      BY <2>3, <2>4, <3>1, <3>2
  <2> HIDE DEF Full, Placed, Listed
  <2> USE DEF Waiting, run, files, history
  <2>5. CASE FlushScan \/ TrimScan \/ FlushDone \/ Load \/ Collect \/ Queue
    BY <2>2, <2>4, <2>5
    DEF FlushScan, TrimScan, Scan, FlushDone, Load, Collect, Queue, Placed
  <2>6. ASSUME NEW status \in Answers, FlushSend(status)  PROVE ReportWaits'
    BY <2>4, <2>6 DEF FlushSend, Placed
  <2>7. CASE Remove
    <3>1. /\ pc = "remove" /\ lastReport' = lastReport /\ made' = made /\ cur' = cur
          /\ spool' = spool \ {cur} /\ aside' = aside /\ trimmed' = trimmed
          /\ pc' = IF cur.kind = "full" THEN "update" ELSE "flush"
      BY <2>7 DEF Remove
    <3>2. Full' /\ Placed'
      BY <2>2, <3>1 DEF Full, Placed
    <3>3. lastReport.n = cur.n /\ lastReport.n # 0 => cur.kind = "full"
      BY <2>2, <3>1 DEF Full, Numbered, TypeOK, Holding
    <3>4. cur.n # 0
      BY <3>1 DEF TypeOK, Holding, Envelope
    <3>5. Listed'
      <4> SUFFICES ASSUME lastReport.delivery = "queued"
                   PROVE  \/ lastReport.n \in Numbers(Waiting')
                          \/ pc' = "update" /\ cur.n = lastReport.n
        BY <3>1 DEF Listed
      <4>1. PICK e \in Waiting : e.n = lastReport.n
        BY <2>2, <3>1 DEF Listed, Numbers
      <4>2. CASE e = cur
        BY <3>1, <3>3, <3>4, <4>1, <4>2
      <4>3. CASE e # cur
        BY <3>1, <4>1, <4>3 DEF Numbers
      <4> QED
        BY <4>2, <4>3
    <3> QED
      BY <2>3, <3>2, <3>5
  <2>8. CASE UpdateLast
    <3>1. /\ pc = "update" /\ pc' = "flush" /\ made' = made
          /\ spool' = spool /\ aside' = aside /\ trimmed' = trimmed
          /\ lastReport'.n = lastReport.n
          /\ lastReport'.delivery = IF LastIsLate THEN verdict ELSE lastReport.delivery
      BY <2>8 DEF UpdateLast, TypeOK
    <3>2. verdict # "queued"
      BY <3>1 DEF ReportsWhatHappened
    <3>3. Listed'
      BY <2>2, <3>1, <3>2 DEF Listed, LastIsLate, Numbers
    <3> QED
      BY <2>2, <2>3, <3>1, <3>3 DEF Full, Placed
  <2>9. ASSUME NEW status \in Answers, Send(status)  PROVE ReportWaits'
    <3>1. verdict' = "queued" => pc' = "queue"
      BY <2>9 DEF Send, Exchange, StaysQueued
    <3>2. pc' \in {"queue", "saveLast", "saveState"}
      BY <2>9 DEF Send, Delivered
    <3> QED
      BY <2>4, <2>9, <3>1, <3>2 DEF Send, Placed
  <2>10. CASE TrimDrop \/ TrimDone
    <3>1. Waiting \subseteq Waiting' /\ cur' = cur /\ lastReport' = lastReport
      BY <2>10 DEF TrimDrop, TrimDone
    <3>2. pc = "drop" /\ made' = made
      BY <2>10 DEF TrimDrop, TrimDone
    <3>3. Placed'
      BY <2>2, <3>1, <3>2 DEF Placed
    <3> QED
      BY <2>4, <3>1, <3>2, <3>3
  <2>11. CASE SaveLast
    <3>1. /\ pc = "saveLast" /\ pc' \in {"collect", "saveState"} /\ made' = made
          /\ spool' = spool /\ aside' = aside /\ trimmed' = trimmed
          /\ lastReport'.n = cur.n /\ lastReport'.delivery = verdict
          /\ cur \in made /\ cur.kind = "full"
      BY <2>11 DEF SaveLast, TypeOK, Holding, WellFounded
    <3>2. Listed'
      BY <2>2, <3>1 DEF Listed, Placed, Numbers
    <3> QED
      BY <2>3, <3>1, <3>2 DEF Full, Placed
  <2>12. CASE SaveState
    BY <2>4, <2>12 DEF SaveState, Return, Placed
  <2>13. CASE Tick \/ RegainAccess \/ UNCHANGED vars
    <3>1. /\ lastReport' = lastReport /\ made' = made /\ pc' = pc /\ cur' = cur
          /\ verdict' = verdict
          /\ spool' = spool /\ aside' = aside /\ trimmed' = trimmed
      BY <2>13 DEF Tick, RegainAccess, vars
    <3> QED
      BY <2>2, <2>3, <3>1 DEF Full, Placed, Listed, Numbers
  <2>14. ASSUME NEW s \in Callers, Start(s)  PROVE ReportWaits'
    BY <2>4, <2>14 DEF Start, Placed
  <2> QED
    BY <2>1, <2>5, <2>6, <2>7, <2>8, <2>9, <2>10, <2>11, <2>12, <2>13, <2>14
    DEF Next, Flush, Work, Environment
<1>3. ReportWaits => (Undisturbed => QueuedMeansWaiting)
  BY DEF ReportWaits, QueuedMeansWaiting, Waiting
<1> QED
  BY <1>1, <1>2, <1>3, TypeCorrect, SnapshotKept, MemoryIsWellFounded, NumbersIdentify,
     ReportsAreBacked, PTL
  DEF Spec

------------------------------------------------------------------------------
(* Nothing is made before it is due.                                        *)

Early   == {"idle", "scan", "flush", "remove", "update", "load"}
Sending == {"send", "queue", "trim", "drop", "saveLast"}

\* The scheduler state times is not behind the envelopes of S.
Remembers(times, S) ==
  \A e \in S :
    /\ e.kind = "full" => e.at <= times.full
    /\ e.kind = "heartbeat" => e.at <= times.heartbeat

FullDue      == Elapsed(now, state.full, FullEvery)
HeartbeatDue == Elapsed(now, state.heartbeat, HeartbeatEvery)

\* Time goes forward, and every envelope carries the instant of its run.
InTime ==
  /\ 1 <= clock /\ now <= clock
  /\ \A e \in made : 1 <= e.at /\ e.at <= now

\* Until a run loads the scheduler state, the file remembers everything that was
\* made, and a run that reads the instant of the one before finds no report due.
FileIsCurrent ==
  /\ Remembers(stateFile, made)
  /\ now = clock => ~Elapsed(now, stateFile.full, FullEvery)
  /\ pc # "idle" /\ src = "manual" => now < clock

\* From then on the state in memory does, except for the envelope in hand.
MemoryIsCurrent ==
  /\ now = clock
  /\ due.full \/ ~FullDue
  /\ pc \in Sending => Remembers(state, made \ {cur})
  /\ pc \in {"collect", "saveState"} => Remembers(state, made)
  /\ pc \in Sending /\ cur.kind = "heartbeat" => ~due.full
  /\ pc \in Sending \cup {"collect"} /\ due.heartbeat => HeartbeatDue
  /\ pc = "collect" => /\ due.full \/ due.heartbeat
                       /\ due.full => /\ src = "manual" \/ FullDue
                                      /\ \A e \in made : e.at < now
  /\ pc = "saveState" => ~due.full

Punctual ==
  /\ InTime
  /\ pc \in Early => FileIsCurrent
  /\ pc \notin Early => MemoryIsCurrent

\* The steps that only move a run on, before it loads the state.
LEMMA StillEarly ==
  ASSUME Punctual, pc \in Early, pc' \in Early \ {"idle"}, pc # "idle",
         clock' = clock, now' = now, src' = src, made' = made, stateFile' = stateFile
  PROVE  Punctual'
BY DEF Punctual, InTime, FileIsCurrent, Remembers, Early

\* The steps that only move the envelope in hand on.
LEMMA StillSending ==
  ASSUME Punctual, pc \in Sending, pc' \in Sending,
         clock' = clock, now' = now, src' = src, made' = made, due' = due, state' = state,
         cur' = cur
  PROVE  Punctual'
BY DEF Punctual, InTime, MemoryIsCurrent, Remembers, FullDue, HeartbeatDue, Early, Sending

\* A heartbeat that was delivered or queued ends the run's work; a full report goes
\* on to last-report.json.
LEMMA DeliveredInTime ==
  ASSUME TypeOK, Punctual, pc \in {"send", "drop"}, pc' = Delivered, state' = WithHeartbeat,
         clock' = clock, now' = now, src' = src, made' = made, due' = due, cur' = cur
  PROVE  Punctual'
<1>1. cur \in Envelope
  BY DEF TypeOK, Holding
<1>2. CASE cur.kind = "full"
  <2>1. state' = state /\ pc' = "saveLast"
    BY <1>2 DEF WithHeartbeat, Delivered
  <2> QED
    BY <2>1, StillSending DEF Sending
<1>3. CASE cur.kind = "heartbeat"
  <2>1. /\ pc' = "saveState"
        /\ state'.full = state.full /\ state'.heartbeat = now
    BY <1>3 DEF WithHeartbeat, Delivered, TypeOK
  <2>2. MemoryIsCurrent /\ InTime
    BY DEF Punctual, Early
  <2>3. MemoryIsCurrent'
    <3>1. ~due.full /\ ~FullDue /\ Remembers(state, made \ {cur})
      BY <1>3, <2>2 DEF MemoryIsCurrent, Sending
    <3>2. ~FullDue'
      BY <2>1, <3>1 DEF FullDue
    <3>3. Remembers(state', made)
      BY <1>3, <2>1, <2>2, <3>1 DEF Remembers, InTime
    <3> QED
      BY <2>1, <2>2, <3>1, <3>2, <3>3 DEF MemoryIsCurrent, Sending
  <2> QED
    BY <2>1, <2>2, <2>3 DEF Punctual, InTime, Early
<1> QED
  BY <1>1, <1>2, <1>3 DEF Envelope, Kinds

\* What a run signs is due: a period has passed since everything of its kind.
LEMMA CollectInTime ==
  ASSUME TypeOK, Numbered, Punctual, Collect
  PROVE  /\ Punctual'
         /\ AtMostOncePerPeriod => AtMostOncePerPeriod'
<1> DEFINE e == cur'
<1>1. /\ pc = "collect" /\ pc' = "send" /\ made' = made \cup {e}
      /\ e.n = signed + 1 /\ e.at = now /\ e.src = src
      /\ e.kind = IF due.full THEN "full" ELSE "heartbeat"
      /\ clock' = clock /\ now' = now /\ src' = src /\ due' = due /\ state' = state
  BY DEF Collect
<1>2. InTime /\ MemoryIsCurrent
  BY <1>1 DEF Punctual, Early
<1>3. /\ now = clock /\ now \in Nat /\ Remembers(state, made)
      /\ due.full \/ ~FullDue
      /\ due.heartbeat => HeartbeatDue
      /\ due.full \/ due.heartbeat
      /\ due.full => src = "manual" \/ FullDue
  BY <1>1, <1>2 DEF MemoryIsCurrent, TypeOK
<1> HIDE DEF e
<1>4. Punctual'
  <2>1. InTime'
    BY <1>1, <1>2, <1>3 DEF InTime
  <2>2. MemoryIsCurrent'
    <3>1. Remembers(state', made' \ {e})
      BY <1>1, <1>3 DEF Remembers
    <3>2. /\ now' = clock'
          /\ due'.full \/ ~FullDue'
          /\ due'.heartbeat => HeartbeatDue'
      BY <1>1, <1>3 DEF FullDue, HeartbeatDue
    <3>3. e.kind = "heartbeat" => ~due'.full
      BY <1>1
    <3> QED
      BY <1>1, <3>1, <3>2, <3>3 DEF MemoryIsCurrent, Sending, e
  <2> QED
    BY <1>1, <2>1, <2>2 DEF Punctual, Early
<1>5. \A f \in made :
        f.n < e.n /\ f.kind = e.kind =>
          IF e.kind = "full" THEN e.src = "manual" \/ e.at >= f.at + FullEvery
                             ELSE e.at >= f.at + HeartbeatEvery
  <2> SUFFICES ASSUME NEW f \in made, f.kind = e.kind
               PROVE  IF e.kind = "full" THEN e.src = "manual" \/ e.at >= f.at + FullEvery
                                         ELSE e.at >= f.at + HeartbeatEvery
    OBVIOUS
  <2>1. /\ f.at \in Nat /\ 1 <= f.at
        /\ state.full \in Nat /\ state.heartbeat \in Nat
        /\ FullEvery \in Nat /\ HeartbeatEvery \in Nat
    BY <1>2, IntervalsArePositive DEF InTime, TypeOK, Envelope
  <2>2. CASE due.full
    BY <1>1, <1>3, <2>1, <2>2 DEF Remembers, FullDue, Elapsed, Never
  <2>3. CASE ~due.full
    BY <1>1, <1>3, <2>1, <2>3 DEF Remembers, HeartbeatDue, Elapsed, Never
  <2> QED
    BY <2>2, <2>3
<1>6. \A f \in made : f.n \in Nat /\ f.n < e.n
  BY <1>1 DEF Numbered, TypeOK, Envelope
<1>7. e.n \in Nat
  BY <1>1 DEF TypeOK
<1>8. AtMostOncePerPeriod => AtMostOncePerPeriod'
  BY <1>1, <1>5, <1>6, <1>7 DEF AtMostOncePerPeriod
<1> QED
  BY <1>4, <1>8

\* A run signs a full report only when the last one is a period old.
LEMMA RunsAreInTime == Spec => [](Undisturbed => Punctual /\ AtMostOncePerPeriod)
<1> DEFINE Good == Undisturbed => Punctual /\ AtMostOncePerPeriod
<1>1. Init => Good
  BY IntervalsArePositive
  DEF Init, Punctual, InTime, FileIsCurrent, Remembers, Early, Never, AtMostOncePerPeriod
<1>2. TypeOK /\ SnapshotIsQueue /\ WellFounded /\ Numbered /\ Good /\ [Next]_vars => Good'
  <2> SUFFICES ASSUME TypeOK, SnapshotIsQueue, WellFounded, Numbered, Good, [Next]_vars,
                      Undisturbed'
               PROVE  Punctual' /\ AtMostOncePerPeriod'
    OBVIOUS
  <2>1. /\ Undisturbed
        /\ ~(Fail \/ UpdateLastFails \/ Crash \/ SetBack \/ Damage \/ LoseAccess)
    BY StillUndisturbed
  <2>2. Punctual /\ AtMostOncePerPeriod
    BY <2>1
  <2>3. ASSUME made' = made, Punctual'
        PROVE  Punctual' /\ AtMostOncePerPeriod'
    BY <2>2, <2>3 DEF AtMostOncePerPeriod
  <2> HIDE DEF Good
  <2> USE DEF run, files, history
  <2>4. CASE FlushScan \/ FlushDone \/ Remove \/ UpdateLast
    BY <2>2, <2>3, <2>4, StillEarly DEF FlushScan, FlushDone, Remove, UpdateLast, Early
  <2>5. ASSUME NEW status \in Answers, FlushSend(status)
        PROVE  Punctual' /\ AtMostOncePerPeriod'
    BY <2>2, <2>3, <2>5, StillEarly DEF FlushSend, Early
  <2>6. CASE Load
    <3>1. /\ pc = "load" /\ now' = clock /\ clock' = clock /\ state' = stateFile
          /\ src' = src /\ made' = made
          /\ pc' = IF due'.full \/ due'.heartbeat THEN "collect" ELSE "saveState"
          /\ due' = Due
      BY <2>6 DEF Load
    <3>2. InTime /\ FileIsCurrent
      BY <2>2, <3>1 DEF Punctual, Early
    <3>3. /\ due'.full <=> src = "manual" \/ FullDue'
          /\ due'.heartbeat <=> HeartbeatDue'
      BY <3>1 DEF Due, Evaluate, FullDue, HeartbeatDue
    <3>4. due'.full => \A e \in made : e.at < clock
      <4>1. due'.full => now < clock
        BY <3>1, <3>2, <3>3 DEF InTime, FileIsCurrent, FullDue, TypeOK
      <4> QED
        BY <3>2, <4>1 DEF InTime, TypeOK, Envelope
    <3>5. MemoryIsCurrent'
      BY <3>1, <3>2, <3>3, <3>4 DEF MemoryIsCurrent, FileIsCurrent, Sending
    <3>6. InTime'
      BY <3>1, <3>2 DEF InTime, TypeOK, Envelope
    <3> QED
      BY <2>3, <3>1, <3>5, <3>6 DEF Punctual, Early
  <2>7. CASE Collect
    BY <2>2, <2>7, CollectInTime
  <2>8. CASE Queue \/ TrimScan \/ TrimDrop
    BY <2>2, <2>3, <2>8, StillSending DEF Queue, TrimScan, TrimDrop, Sending
  <2>9. CASE TrimDone
    BY <2>2, <2>3, <2>9, DeliveredInTime DEF TrimDone
  <2>10. ASSUME NEW status \in Answers, Send(status)
         PROVE  Punctual' /\ AtMostOncePerPeriod'
    <3>1. CASE StaysQueued(status)
      BY <2>2, <2>3, <2>10, <3>1, StillSending DEF Send, Sending
    <3>2. CASE ~StaysQueued(status)
      BY <2>2, <2>3, <2>10, <3>2, DeliveredInTime DEF Send
    <3> QED
      BY <3>1, <3>2
  <2>11. CASE SaveLast
    <3>1. /\ pc = "saveLast" /\ cur.kind = "full" /\ made' = made
          /\ clock' = clock /\ now' = now /\ src' = src
          /\ state'.full = now /\ state'.heartbeat = state.heartbeat
          /\ ~due'.full /\ due'.heartbeat = due.heartbeat
          /\ pc' = IF due.heartbeat THEN "collect" ELSE "saveState"
      BY <2>11 DEF SaveLast, WithFull, WellFounded, TypeOK
    <3>2. InTime /\ MemoryIsCurrent
      BY <2>2, <3>1 DEF Punctual, Early
    <3>3. Remembers(state', made)
      BY <3>1, <3>2 DEF InTime, MemoryIsCurrent, Remembers, Sending
    <3>4. ~FullDue'
      <4>1. 1 <= now /\ now \in Nat
        BY <3>2 DEF InTime, MemoryIsCurrent, TypeOK
      <4> QED
        BY <3>1, <4>1, IntervalsArePositive DEF FullDue, Elapsed, Never
    <3>5. due.heartbeat => HeartbeatDue'
      BY <3>1, <3>2 DEF MemoryIsCurrent, HeartbeatDue, Sending
    <3>6. MemoryIsCurrent'
      BY <3>1, <3>2, <3>3, <3>4, <3>5 DEF MemoryIsCurrent, Sending
    <3> QED
      BY <2>3, <3>1, <3>2, <3>6 DEF Punctual, InTime, Early
  <2>12. CASE SaveState
    <3>1. /\ pc = "saveState" /\ pc' = "idle" /\ made' = made
          /\ clock' = clock /\ now' = now /\ src' = src /\ stateFile' = state
      BY <2>12 DEF SaveState, Return
    <3>2. InTime /\ MemoryIsCurrent
      BY <2>2, <3>1 DEF Punctual, Early
    <3>3. FileIsCurrent'
      BY <3>1, <3>2 DEF MemoryIsCurrent, FileIsCurrent, FullDue
    <3> QED
      BY <2>3, <3>1, <3>2, <3>3 DEF Punctual, InTime, Early
  <2>13. CASE Tick
    <3>1. /\ pc = "idle" /\ pc' = pc /\ made' = made /\ clock' = clock + 1
          /\ now' = now /\ src' = src /\ stateFile' = stateFile
      BY <2>13 DEF Tick
    <3>2. InTime /\ FileIsCurrent
      BY <2>2, <3>1 DEF Punctual, Early
    <3> QED
      BY <2>3, <3>1, <3>2 DEF Punctual, InTime, FileIsCurrent, Early, TypeOK
  <2>14. CASE RegainAccess \/ UNCHANGED vars
    <3>1. Punctual'
      BY <2>2, <2>14
      DEF RegainAccess, vars, Punctual, InTime, FileIsCurrent, MemoryIsCurrent, FullDue, HeartbeatDue
    <3> QED
      BY <2>3, <2>14, <3>1 DEF RegainAccess, vars
  <2>15. ASSUME NEW s \in Callers, Start(s)
         PROVE  Punctual' /\ AtMostOncePerPeriod'
    <3>1. /\ pc = "idle" /\ pc' = "scan" /\ src' = s /\ made' = made
          /\ now < clock \/ s = "background"
          /\ clock' = clock /\ now' = now /\ stateFile' = stateFile
      BY <2>15 DEF Start
    <3> QED
      BY <2>2, <2>3, <3>1 DEF Punctual, InTime, FileIsCurrent, Early
  <2> QED
    BY <2>1, <2>4, <2>5, <2>6, <2>7, <2>8, <2>9, <2>10, <2>11, <2>12, <2>13, <2>14, <2>15
    DEF Next, Flush, Work, Environment
<1> QED
  BY <1>1, <1>2, TypeCorrect, SnapshotKept, MemoryIsWellFounded, NumbersIdentify, PTL DEF Spec

\* Up to the first fault the agent sends no report and no heartbeat before its period
\* has passed, however its runs and the answers of the service fall.
THEOREM ReportsAreSpaced == Spec => [](Undisturbed => AtMostOncePerPeriod)
BY RunsAreInTime, PTL

------------------------------------------------------------------------------
(* What the queue drops is the oldest evidence.                             *)

\* The order in which envelopes are sent and dropped is the order they were signed in.
SignedInOrder ==
  /\ \A e, f \in made :
       e.n < f.n => \/ e.at < f.at
                    \/ e.at = f.at /\ (e.kind = "full" \/ f.kind = "heartbeat")
  /\ InHand => cur.n = signed

OldestDropped == SignedInOrder /\ NewestEvidenceKept

\* While that is so, what comes before in the queue was signed before.
LEMMA OldestWasSignedFirst ==
  ASSUME TypeOK, Numbered, SignedInOrder, NEW e \in made, NEW f \in made, Before(e, f)
  PROVE  e.n < f.n
<1>1. e \in Envelope /\ f \in Envelope
  BY DEF TypeOK
<1>2. e.n # f.n
  BY <1>1 DEF Before, Envelope, Numbered
<1>3. CASE f.n < e.n
  <2>1. \/ f.at < e.at
        \/ f.at = e.at /\ (f.kind = "full" \/ e.kind = "heartbeat")
    BY <1>3 DEF SignedInOrder
  <2> QED
    BY <1>1, <1>3, <2>1 DEF Before, Envelope, Kinds
<1> QED
  BY <1>1, <1>2, <1>3 DEF Envelope

\* Up to the first fault the queue drops only what is older than everything it keeps.
THEOREM OldestIsDropped == Spec => [](Undisturbed => NewestEvidenceKept)
<1> DEFINE Good == Undisturbed => OldestDropped
           Time == Undisturbed => Punctual
<1>1. Init => Good
  BY DEF Init, OldestDropped, SignedInOrder, NewestEvidenceKept, InHand
<1>2. TypeOK /\ SnapshotIsQueue /\ AllReadable /\ Numbered /\ InOnePlace /\ Time /\ Good
        /\ [Next]_vars
      => Good'
  <2> SUFFICES ASSUME TypeOK, SnapshotIsQueue, AllReadable, Numbered, InOnePlace, Time, Good,
                      [Next]_vars, Undisturbed'
               PROVE  OldestDropped'
    OBVIOUS
  <2>1. /\ Undisturbed
        /\ ~(Fail \/ UpdateLastFails \/ Crash \/ SetBack \/ Damage \/ LoseAccess)
    BY StillUndisturbed
  <2>2. Punctual /\ SignedInOrder /\ NewestEvidenceKept
    BY <2>1 DEF OldestDropped
  <2> HIDE DEF Good, Time
  \* A step that signs nothing, and neither drops nor queues.
  <2>3. ASSUME made' = made, signed' = signed, trimmed' = trimmed, spool' \subseteq spool,
               ~InHand' \/ (InHand /\ cur' = cur)
        PROVE  OldestDropped'
    BY <2>2, <2>3 DEF OldestDropped, SignedInOrder, NewestEvidenceKept
  <2> USE DEF run, files, history
  <2>4. CASE FlushScan \/ FlushDone \/ Remove \/ UpdateLast \/ Load
    BY <2>3, <2>4 DEF FlushScan, Scan, FlushDone, Remove, UpdateLast, Load, InHand
  <2>5. ASSUME NEW status \in Answers, FlushSend(status)  PROVE OldestDropped'
    BY <2>3, <2>5 DEF FlushSend, InHand
  <2>6. CASE Collect
    <3> DEFINE e == cur'
    <3>1. /\ pc = "collect" /\ made' = made \cup {e}
          /\ e.n = signed + 1 /\ signed' = signed + 1 /\ e.at = now
          /\ e.kind = IF due.full THEN "full" ELSE "heartbeat"
          /\ spool' = spool /\ trimmed' = trimmed
      BY <2>6 DEF Collect
    <3> HIDE DEF e
    <3>2. \A f \in made : \/ f.at < e.at
                          \/ f.at = e.at /\ e.kind = "heartbeat"
      BY <2>2, <3>1 DEF Punctual, InTime, MemoryIsCurrent, Early, TypeOK, Envelope
    <3>3. \A f \in made : f.n \in Nat /\ f.n < e.n
      BY <3>1 DEF Numbered, TypeOK, Envelope
    <3>4. e.n \in Nat
      BY <3>1 DEF TypeOK
    <3>5. SignedInOrder'
      BY <2>2, <3>1, <3>2, <3>3, <3>4 DEF SignedInOrder, e
    <3> QED
      BY <2>2, <3>1, <3>5 DEF OldestDropped, NewestEvidenceKept
  <2>7. ASSUME NEW status \in Answers, Send(status)  PROVE OldestDropped'
    BY <2>3, <2>7 DEF Send, InHand, Delivered
  <2>8. CASE Queue
    <3>1. /\ pc = "queue" /\ pc' = "trim" /\ cur' = cur /\ made' = made
          /\ spool' = spool \cup {cur} /\ trimmed' = trimmed
      BY <2>8 DEF Queue
    <3>2. \A e \in trimmed : e.n < cur.n
      <4> SUFFICES ASSUME NEW e \in trimmed
                   PROVE  e.n < cur.n
        OBVIOUS
      <4>1. e \in made /\ cur \in made /\ e # cur
        BY <3>1 DEF TypeOK, Holding, InOnePlace, InHand, Accounted
      <4>2. e.n <= cur.n /\ e.n # cur.n
        BY <2>2, <3>1, <4>1 DEF Numbered, SignedInOrder, InHand
      <4> QED
        BY <4>1, <4>2 DEF TypeOK, Envelope
    <3> QED
      BY <2>2, <3>1, <3>2 DEF OldestDropped, SignedInOrder, NewestEvidenceKept, InHand
  <2>9. CASE TrimScan \/ TrimDone
    BY <2>3, <2>9 DEF TrimScan, Scan, TrimDone, InHand, Delivered
  <2>10. CASE TrimDrop
    <3>1. PICK e \in spool : /\ \A f \in spool \ {e} : Before(e, f)
                             /\ spool' = spool \ {e}
                             /\ trimmed' = trimmed \cup {e}
      <4>1. pending = spool
        BY <2>1, <2>10 DEF TrimDrop, SnapshotIsQueue, AllReadable
      <4> QED
        BY <2>10, <4>1 DEF TrimDrop, IsOldest
    <3>2. pc = "drop" /\ pc' = pc /\ made' = made
      BY <2>10 DEF TrimDrop
    <3>3. \A f \in spool \ {e} : e.n < f.n
      BY <2>2, <3>1, OldestWasSignedFirst DEF TypeOK
    <3> QED
      BY <2>2, <3>1, <3>2, <3>3 DEF OldestDropped, SignedInOrder, NewestEvidenceKept, InHand
  <2>11. CASE SaveLast \/ SaveState
    BY <2>3, <2>11 DEF SaveLast, SaveState, Return, InHand
  <2>12. CASE Tick \/ RegainAccess \/ UNCHANGED vars
    BY <2>3, <2>12 DEF Tick, RegainAccess, vars, InHand
  <2>13. ASSUME NEW s \in Callers, Start(s)  PROVE OldestDropped'
    BY <2>3, <2>13 DEF Start, InHand
  <2> QED
    BY <2>1, <2>4, <2>5, <2>6, <2>7, <2>8, <2>9, <2>10, <2>11, <2>12, <2>13
    DEF Next, Flush, Work, Environment
<1>3. /\ (Undisturbed => Punctual /\ AtMostOncePerPeriod) => Time
      /\ Good => (Undisturbed => NewestEvidenceKept)
  BY DEF OldestDropped
<1> QED
  BY <1>1, <1>2, <1>3, TypeCorrect, SnapshotKept, EveryFileIsRead, NumbersIdentify,
     PlacesAreDisjoint, RunsAreInTime, PTL
  DEF Spec

=============================================================================
