----------------------------- MODULE AgentProofs -----------------------------
(***************************************************************************)
(* Agent for every queue limit, every set of answers and every number of   *)
(* faults: what holds however a run is interrupted, and that the queue     *)
(* keeps the promise of Delivery.                                          *)
(***************************************************************************)
EXTENDS AgentProperties, FiniteSetTheorems, TLAPS

\* Every variable keeps a value of its kind; in particular the queue holds only
\* envelopes this computer signed, and only the service's own acknowledgement
\* makes one count as uploaded.
THEOREM TypeCorrect == Spec => []TypeOK
<1>1. Init => TypeOK
  BY DEF Init, TypeOK, Holding, NoState, NothingDue, NoReport, NoEnvelope, Never, Steps, Sources,
         Verdicts
<1>2. TypeOK /\ [Next]_vars => TypeOK'
  <2> SUFFICES ASSUME TypeOK, [Next]_vars
               PROVE  TypeOK'
    OBVIOUS
  <2> USE CallersAreSources DEF TypeOK, Holding, Steps, Verdicts, Kinds, run, files, history
  <2>1. ASSUME NEW s \in Callers, Start(s)  PROVE TypeOK'
    BY <2>1 DEF Start
  <2>2. CASE FlushScan
    BY <2>2 DEF FlushScan, Scan
  <2>3. ASSUME NEW status \in Answers, FlushSend(status)  PROVE TypeOK'
    BY <2>3 DEF FlushSend, Exchange, Fault, Classify, IsOldest, Success, Refusal,
                StaysQueued
  <2>4. CASE FlushDone
    BY <2>4 DEF FlushDone
  <2>5. CASE Remove
    BY <2>5 DEF Remove
  <2>6. CASE UpdateLast
    BY <2>6 DEF UpdateLast
  <2>7. CASE Load
    BY <2>7 DEF Load, Due, Evaluate, Elapsed, NoEnvelope
  <2>8. CASE Collect
    BY <2>8 DEF Collect, Envelope
  <2>9. ASSUME NEW status \in Answers, Send(status)  PROVE TypeOK'
    BY <2>9 DEF Send, Exchange, Fault, Classify, Success, Refusal, StaysQueued,
                Delivered, WithHeartbeat
  <2>10. CASE Queue
    BY <2>10 DEF Queue
  <2>11. CASE TrimScan
    BY <2>11 DEF TrimScan, Scan
  <2>12. CASE TrimDrop
    BY <2>12 DEF TrimDrop, IsOldest
  <2>13. CASE TrimDone
    BY <2>13 DEF TrimDone, Delivered, WithHeartbeat
  <2>14. CASE SaveLast
    <3>1. cur.n \in Nat /\ cur.n # 0
      BY <2>14 DEF SaveLast, Envelope
    <3>2. /\ state' \in [full : Nat, heartbeat : Nat]
          /\ lastReport' \in [n : Nat, delivery : Verdicts \cup {"none"}]
          /\ due' \in [full : BOOLEAN, heartbeat : BOOLEAN]
      BY <2>14, <3>1 DEF SaveLast, WithFull
    <3> QED
      BY <2>14, <3>2 DEF SaveLast
  <2>15. CASE SaveState
    BY <2>15 DEF SaveState, Return, NothingDue, NoState, Never, NoEnvelope
  <2>16. CASE Fail \/ Crash
    <3>1. /\ Return("error") \/ Return("died")
          /\ faults' = faults + 1 /\ UNCHANGED files
      BY <2>16 DEF Fail, Crash, Fault
    <3> QED
      <4>1. /\ due' = NothingDue /\ state' = NoState
            /\ pc' = "idle" /\ told' \in {"error", "died"} /\ pending' = {}
            /\ cur' = NoEnvelope /\ verdict' = "queued"
        BY <3>1 DEF Return
      <4>2. /\ NothingDue \in [full : BOOLEAN, heartbeat : BOOLEAN]
            /\ NoState \in [full : Nat, heartbeat : Nat]
        BY DEF NothingDue, NoState, Never
      <4> QED
        BY <3>1, <4>1, <4>2 DEF Return
  <2>17. CASE UpdateLastFails
    BY <2>17 DEF UpdateLastFails, Fault
  <2>18. CASE Tick
    BY <2>18 DEF Tick
  <2>19. CASE SetBack
    BY <2>19 DEF SetBack, Fault, Never
  <2>20. CASE Damage
    BY <2>20 DEF Damage, Fault, NoState, NoReport, Never
  <2>21. CASE LoseAccess \/ RegainAccess \/ UNCHANGED vars
    BY <2>21 DEF LoseAccess, RegainAccess, Fault, vars
  <2> QED
    BY <2>1, <2>2, <2>3, <2>4, <2>5, <2>6, <2>7, <2>8, <2>9, <2>10, <2>11, <2>12,
       <2>13, <2>14, <2>15, <2>16, <2>17, <2>18, <2>19, <2>20, <2>21
    DEF Next, Flush, Work, Environment
<1> QED
  BY <1>1, <1>2, PTL DEF Spec

------------------------------------------------------------------------------
(* The strengthenings.                                                      *)

\* While flush or trim works through its snapshot, the snapshot is the queue but for
\* the files that Pending passed over.
SnapshotIsQueue ==
  /\ pc \in {"flush", "update", "drop"} => /\ pending \subseteq spool
                                          /\ spool \subseteq pending \cup skipped
  /\ pc = "remove" => /\ pending \subseteq spool /\ cur \in spool /\ cur \notin pending
                      /\ spool \subseteq pending \cup skipped \cup {cur}
                      /\ \A e \in pending : Before(cur, e)

\* The scheduler state in memory is as well founded as the one on disk, and an
\* envelope about to be recorded as made is accounted for.
WellFounded ==
  /\ StateBackedByEvidence
  /\ Backs(Accounted, state)
  /\ pc \in {"remove", "update"} => cur \in uploaded \cup rejected
  /\ pc \in {"send", "queue", "trim", "drop", "saveLast"} => cur.at = now
  /\ pc \in {"trim", "drop", "saveLast"} => cur \in Accounted
  /\ pc = "saveLast" => cur.kind = "full"

\* Envelopes are told apart by their numbers.
Numbered ==
  /\ \A e \in made : e.n <= signed
  /\ \A e, f \in made : e.n = f.n => e = f
  /\ lastReport.n <= signed
  /\ pc \in {"send", "queue", "trim", "drop", "saveLast"} => lastReport.n < cur.n
  /\ InHand => cur \notin spool

\* What last-report.json may say: a settled report has left the queue.
ReportsWhatHappened ==
  /\ LastReportHonest
  /\ lastReport.delivery \in {"uploaded", "rejected"} => lastReport.n \notin Numbers(spool)
  /\ pc = "update" => cur \notin spool
  /\ pc \in {"remove", "update"} =>
       \/ verdict = "uploaded" /\ cur \in uploaded
       \/ verdict = "rejected" /\ cur \in rejected
  /\ pc = "saveLast" =>
       \/ verdict = "uploaded" /\ cur \in uploaded \ spool
       \/ verdict = "rejected" /\ cur \in rejected \ spool
       \/ verdict = "queued"
  /\ pc \in {"queue", "trim", "drop"} => verdict = "queued"

------------------------------------------------------------------------------
\* The listing that a run works on is the queue, but for the envelope it is removing.
LEMMA SnapshotKept == Spec => []SnapshotIsQueue
<1>1. Init => SnapshotIsQueue
  BY DEF Init, SnapshotIsQueue
<1>2. TypeOK /\ SnapshotIsQueue /\ [Next]_vars => SnapshotIsQueue'
  <2> SUFFICES ASSUME TypeOK, SnapshotIsQueue, [Next]_vars
               PROVE  SnapshotIsQueue'
    OBVIOUS
  <2> USE DEF SnapshotIsQueue, run, files
  <2>1. CASE FlushScan \/ TrimScan
    BY <2>1 DEF FlushScan, TrimScan, Scan
  <2>2. ASSUME NEW status \in Answers, FlushSend(status)  PROVE SnapshotIsQueue'
    <3>1. PICK e \in pending : /\ IsOldest(e, pending) /\ cur' = e
                              /\ \/ pc' = "load"
                                 \/ pc' = "remove" /\ pending' = pending \ {e}
      BY <2>2 DEF FlushSend
    <3>2. pc = "flush" /\ spool' = spool /\ skipped' = skipped
      BY <2>2 DEF FlushSend
    <3>3. pending \subseteq spool /\ spool \subseteq pending \cup skipped
      BY <3>2
    <3>4. CASE pc' = "load"
      BY <3>4
    <3>5. CASE pc' = "remove" /\ pending' = pending \ {e}
      <4>1. \A f \in pending' : Before(cur', f)
        BY <3>1, <3>5 DEF IsOldest
      <4> QED
        BY <3>1, <3>2, <3>3, <3>5, <4>1
    <3> QED
      BY <3>1, <3>4, <3>5
  <2>3. CASE Remove
    BY <2>3 DEF Remove
  <2>4. CASE UpdateLast \/ UpdateLastFails
    BY <2>4 DEF UpdateLast, UpdateLastFails
  <2>5. CASE TrimDrop
    BY <2>5 DEF TrimDrop
  <2>6. CASE Damage \/ Tick \/ SetBack \/ LoseAccess \/ RegainAccess \/ UNCHANGED vars
    BY <2>6 DEF Damage, Tick, SetBack, LoseAccess, RegainAccess, vars
  <2>7. CASE FlushDone \/ Load \/ Collect \/ Queue \/ TrimDone \/ SaveLast
    BY <2>7 DEF FlushDone, Load, Collect, Queue, TrimDone, SaveLast, Delivered
  <2>8. ASSUME NEW status \in Answers, Send(status)  PROVE SnapshotIsQueue'
    BY <2>8 DEF Send, Delivered
  <2>9. CASE SaveState \/ Fail \/ Crash
    BY <2>9 DEF SaveState, Fail, Crash, Return
  <2>10. ASSUME NEW s \in Callers, Start(s)  PROVE SnapshotIsQueue'
    BY <2>10 DEF Start
  <2> QED
    BY <2>1, <2>2, <2>3, <2>4, <2>5, <2>6, <2>7, <2>8, <2>9, <2>10
    DEF Next, Flush, Work, Environment
<1> QED
  BY <1>1, <1>2, TypeCorrect, PTL DEF Spec

\* Order: an envelope leaves the queue as sent only when nothing older waits that
\* flush could read.
THEOREM FlushOrder == Spec => []FlushKeepsOrder
<1>1. TypeOK /\ SnapshotIsQueue => FlushKeepsOrder
  <2> SUFFICES ASSUME TypeOK, SnapshotIsQueue, pc = "remove", NEW e \in spool \ {cur},
                      Before(e, cur)
               PROVE  e \in skipped
    BY DEF FlushKeepsOrder
  <2>1. e \in skipped \/ Before(cur, e)
    BY DEF SnapshotIsQueue
  <2>2. e \in Envelope /\ cur \in Envelope
    BY DEF TypeOK, Holding
  <2> QED
    BY <2>1, <2>2 DEF Before, Envelope, Kinds
<1> QED
  BY <1>1, TypeCorrect, SnapshotKept, PTL

------------------------------------------------------------------------------
(* The schedule skips nothing.                                              *)

\* No step loses sight of an envelope that is accounted for.
LEMMA AccountedGrows ==
  TypeOK /\ WellFounded /\ [Next]_vars => Accounted \subseteq Accounted'
<1> SUFFICES ASSUME TypeOK, WellFounded, [Next]_vars, NEW x \in Accounted
             PROVE  x \in Accounted'
  OBVIOUS
<1> USE DEF Accounted, files, history
<1>1. CASE FlushScan \/ TrimScan
  BY <1>1 DEF FlushScan, TrimScan, Scan
<1>2. ASSUME NEW status \in Answers, FlushSend(status) \/ Send(status)
      PROVE  x \in Accounted'
  BY <1>2 DEF FlushSend, Send, Exchange
<1>3. CASE Remove
  BY <1>3 DEF Remove, WellFounded
<1>4. CASE TrimDrop
  BY <1>4 DEF TrimDrop
<1>5. CASE Queue
  BY <1>5 DEF Queue
<1>6. CASE FlushDone \/ UpdateLast \/ UpdateLastFails \/ Load \/ Collect \/ TrimDone
           \/ SaveLast \/ Tick \/ SetBack \/ Damage \/ LoseAccess \/ RegainAccess
           \/ UNCHANGED vars
  BY <1>6 DEF FlushDone, UpdateLast, UpdateLastFails, Load, Collect, TrimDone, SaveLast,
              Tick, SetBack, Damage, LoseAccess, RegainAccess, vars
<1>7. CASE SaveState \/ Fail \/ Crash
  BY <1>7 DEF SaveState, Fail, Crash, Return
<1>8. ASSUME NEW s \in Callers, Start(s)  PROVE x \in Accounted'
  BY <1>8 DEF Start
<1> QED
  BY <1>1, <1>2, <1>3, <1>4, <1>5, <1>6, <1>7, <1>8 DEF Next, Flush, Work, Environment

\* Whatever the schedule remembers, on disk or in a run, a signed envelope backs.
LEMMA MemoryIsWellFounded == Spec => []WellFounded
<1>1. Init => WellFounded
  BY DEF Init, WellFounded, StateBackedByEvidence, Backs, NoState, Kinds
<1>2. TypeOK /\ WellFounded /\ [Next]_vars => WellFounded'
  <2> SUFFICES ASSUME TypeOK, WellFounded, [Next]_vars
               PROVE  WellFounded'
    OBVIOUS
  <2> DEFINE Backed(times) == Backs(Accounted', times)
             Working == /\ pc \in {"remove", "update"} => cur \in uploaded \cup rejected
                        /\ pc \in {"send", "queue", "trim", "drop", "saveLast"}
                             => cur.at = now
                        /\ pc = "saveLast" => cur.kind = "full"
             Known   == pc \in {"trim", "drop", "saveLast"} => cur \in Accounted
  <2>1. Accounted \subseteq Accounted'
    BY AccountedGrows
  <2>2. Backed(state) /\ Backed(stateFile) /\ Backed(NoState)
    BY <2>1 DEF WellFounded, StateBackedByEvidence, Backs, NoState, Kinds
  <2>3. ASSUME stateFile' \in {stateFile, state, NoState}, Backed(state'), Working', Known'
        PROVE  WellFounded'
    <3>1. Backed(stateFile')
      BY <2>2, <2>3
    <3> QED
      BY <2>3, <3>1 DEF WellFounded, StateBackedByEvidence
  <2>4. Holding => cur \in Envelope
    BY DEF TypeOK
  <2> HIDE DEF Backed
  <2>5. cur \in Envelope /\ cur.at = now /\ cur \in Accounted' => Backed(WithHeartbeat)
    <3> SUFFICES ASSUME cur \in Envelope, cur.at = now, cur \in Accounted',
                        cur.kind = "heartbeat"
                 PROVE  Backed(WithHeartbeat)
      BY <2>2 DEF WithHeartbeat, Envelope, Kinds
    <3>1. /\ WithHeartbeat["full"] = state["full"]
          /\ WithHeartbeat["heartbeat"] = now
      BY DEF WithHeartbeat, TypeOK
    <3> QED
      BY <2>2, <3>1 DEF Backed, Backs, Kinds
  <2>6. cur.kind = "full" /\ cur.at = now /\ cur \in Accounted' => Backed(WithFull)
    <3> SUFFICES ASSUME cur.kind = "full", cur.at = now, cur \in Accounted'
                 PROVE  Backed(WithFull)
      OBVIOUS
    <3>1. /\ WithFull["full"] = now
          /\ WithFull["heartbeat"] = state["heartbeat"]
      BY DEF WithFull, TypeOK
    <3> QED
      BY <2>2, <3>1 DEF Backed, Backs, Kinds
  <2> USE DEF run, files, history
  <2>7. ASSUME NEW s \in Callers, Start(s)  PROVE WellFounded'
    BY <2>2, <2>3, <2>7 DEF Start
  <2>8. CASE FlushScan \/ FlushDone \/ UpdateLast \/ UpdateLastFails \/ Tick
    BY <2>2, <2>3, <2>8 DEF FlushScan, FlushDone, UpdateLast, UpdateLastFails, Tick
  <2>9. ASSUME NEW status \in Answers, FlushSend(status)  PROVE WellFounded'
    BY <2>2, <2>3, <2>9 DEF FlushSend, Exchange, StaysQueued, Classify
  <2>10. CASE Remove
    BY <2>2, <2>3, <2>10 DEF Remove, WellFounded
  <2>11. CASE Load
    BY <2>2, <2>3, <2>11 DEF Load
  <2>12. CASE Collect
    BY <2>2, <2>3, <2>12 DEF Collect
  <2>13. ASSUME NEW status \in Answers, Send(status)  PROVE WellFounded'
    <3>1. /\ pc = "send" /\ cur \in Envelope /\ cur.at = now
          /\ cur' = cur /\ now' = now /\ stateFile' = stateFile
      BY <2>4, <2>13 DEF Send, WellFounded, Holding
    <3>2. CASE StaysQueued(status)
      BY <2>2, <2>3, <2>13, <3>1, <3>2 DEF Send
    <3>3. CASE ~StaysQueued(status)
      <4>1. cur \in Accounted'
        BY <2>13, <3>3 DEF Send, Exchange, StaysQueued, Classify, Accounted
      <4>2. pc' = Delivered /\ state' = WithHeartbeat
        BY <2>13, <3>3 DEF Send
      <4> QED
        BY <2>3, <2>5, <3>1, <4>1, <4>2 DEF Delivered
    <3> QED
      BY <3>2, <3>3
  <2>14. CASE Queue
    <3>1. cur \in Accounted'
      BY <2>14 DEF Queue, Accounted
    <3> QED
      BY <2>2, <2>3, <2>14, <3>1 DEF Queue, WellFounded
  <2>15. CASE TrimScan \/ TrimDrop
    BY <2>1, <2>2, <2>3, <2>15 DEF TrimScan, TrimDrop, WellFounded
  <2>16. CASE TrimDone
    BY <2>1, <2>3, <2>4, <2>5, <2>16 DEF TrimDone, WellFounded, Delivered, Holding
  <2>17. CASE SaveLast
    BY <2>1, <2>3, <2>6, <2>17 DEF SaveLast, WellFounded
  <2>18. CASE SaveState \/ Fail \/ Crash
    <3>1. pc' = "idle" /\ state' = NoState /\ stateFile' \in {stateFile, state}
      BY <2>18 DEF SaveState, Fail, Crash, Return
    <3> QED
      BY <2>2, <2>3, <3>1
  <2>19. CASE SetBack
    BY <2>2, <2>3, <2>19 DEF SetBack
  <2>20. CASE Damage
    BY <2>1, <2>2, <2>3, <2>20 DEF Damage, WellFounded
  <2>21. CASE LoseAccess \/ RegainAccess \/ UNCHANGED vars
    BY <2>1, <2>2, <2>3, <2>21 DEF LoseAccess, RegainAccess, vars, WellFounded
  <2> QED
    BY <2>7, <2>8, <2>9, <2>10, <2>11, <2>12, <2>13, <2>14, <2>15, <2>16, <2>17, <2>18,
       <2>19, <2>20, <2>21
    DEF Next, Flush, Work, Environment
<1> QED
  BY <1>1, <1>2, TypeCorrect, PTL DEF Spec

\* The schedule is never ahead of the evidence, however a run is interrupted.
THEOREM ScheduleHasEvidence == Spec => []StateBackedByEvidence
<1>1. WellFounded => StateBackedByEvidence
  BY DEF WellFounded
<1> QED
  BY <1>1, MemoryIsWellFounded, PTL

------------------------------------------------------------------------------
(* last-report.json tells the truth.                                        *)

\* Envelopes are told apart by their numbers, and the one in hand is the newest.
LEMMA NumbersIdentify == Spec => []Numbered
<1>1. Init => Numbered
  BY DEF Init, Numbered, NoReport, InHand
<1>2. TypeOK /\ Numbered /\ [Next]_vars => Numbered'
  <2> SUFFICES ASSUME TypeOK, Numbered, [Next]_vars
               PROVE  Numbered'
    OBVIOUS
  <2>1. Holding => cur \in made /\ cur \in Envelope
    BY DEF TypeOK
  <2> USE DEF Numbered, InHand, run, files, history
  <2>2. ASSUME NEW s \in Callers, Start(s)  PROVE Numbered'
    BY <2>2 DEF Start
  <2>3. CASE FlushScan \/ FlushDone \/ Remove \/ UpdateLastFails \/ Load
    BY <2>3 DEF FlushScan, FlushDone, Remove, UpdateLastFails, Load
  <2>4. ASSUME NEW status \in Answers, FlushSend(status)  PROVE Numbered'
    BY <2>4 DEF FlushSend
  <2>5. CASE UpdateLast
    <3>1. lastReport'.n = lastReport.n
      BY <2>5 DEF UpdateLast, TypeOK
    <3> QED
      BY <2>5, <3>1 DEF UpdateLast
  <2>6. CASE Collect
    <3>1. PICK e \in Envelope : /\ e.n = signed + 1 /\ cur' = e
                                /\ made' = made \cup {e}
      BY <2>6 DEF Collect, TypeOK, Envelope, Kinds
    <3>2. signed' = signed + 1 /\ lastReport' = lastReport /\ spool' = spool
      BY <2>6 DEF Collect
    <3>3. /\ signed \in Nat /\ lastReport.n \in Nat /\ spool \subseteq made
          /\ \A f \in made : f.n \in Nat
      BY DEF TypeOK, Envelope
    <3> QED
      BY <3>1, <3>2, <3>3
  <2>7. ASSUME NEW status \in Answers, Send(status)  PROVE Numbered'
    BY <2>7 DEF Send, Delivered
  <2>8. CASE Queue \/ TrimScan \/ TrimDrop \/ TrimDone
    BY <2>8 DEF Queue, TrimScan, TrimDrop, TrimDone, Scan, Delivered
  <2>9. CASE SaveLast
    BY <2>1, <2>9 DEF SaveLast, Holding
  <2>10. CASE SaveState \/ Fail \/ Crash
    BY <2>10 DEF SaveState, Fail, Crash, Return
  <2>11. CASE Tick \/ SetBack \/ LoseAccess \/ RegainAccess \/ UNCHANGED vars
    BY <2>11 DEF Tick, SetBack, LoseAccess, RegainAccess, vars
  <2>12. CASE Damage
    <3>1. /\ signed \in Nat
          /\ pc \in {"send", "queue", "trim", "drop", "saveLast"} => 0 < cur.n
      BY <2>1 DEF TypeOK, Envelope, Holding
    <3>2. lastReport' = lastReport \/ lastReport'.n = 0
      BY <2>12 DEF Damage, NoReport
    <3> QED
      BY <2>12, <3>1, <3>2 DEF Damage
  <2> QED
    BY <2>2, <2>3, <2>4, <2>5, <2>6, <2>7, <2>8, <2>9, <2>10, <2>11, <2>12
    DEF Next, Flush, Work, Environment
<1> QED
  BY <1>1, <1>2, TypeCorrect, PTL DEF Spec

\* What the last report says, and what a run is about to make it say, has happened.
LEMMA ReportsAreBacked == Spec => []ReportsWhatHappened
<1>1. Init => ReportsWhatHappened
  BY DEF Init, ReportsWhatHappened, LastReportHonest, NoReport
<1>2. TypeOK /\ SnapshotIsQueue /\ WellFounded /\ Numbered /\ ReportsWhatHappened
        /\ [Next]_vars
      => ReportsWhatHappened'
  <2> SUFFICES ASSUME TypeOK, SnapshotIsQueue, WellFounded, Numbered, ReportsWhatHappened,
                      [Next]_vars
               PROVE  ReportsWhatHappened'
    OBVIOUS
  <2> DEFINE Working ==
               /\ pc = "update" => cur \notin spool
               /\ pc \in {"remove", "update"} =>
                    \/ verdict = "uploaded" /\ cur \in uploaded
                    \/ verdict = "rejected" /\ cur \in rejected
               /\ pc = "saveLast" =>
                    \/ verdict = "uploaded" /\ cur \in uploaded \ spool
                    \/ verdict = "rejected" /\ cur \in rejected \ spool
                    \/ verdict = "queued"
               /\ pc \in {"queue", "trim", "drop"} => verdict = "queued"
             Waiting ==
               lastReport.delivery \in {"uploaded", "rejected"} =>
                 lastReport.n \notin Numbers(spool)
  <2>1. Accounted \subseteq Accounted'
    BY AccountedGrows
  <2>2. LastReportHonest' /\ Waiting' /\ Working' => ReportsWhatHappened'
    BY DEF ReportsWhatHappened
  <2>3. LastReportHonest /\ Waiting /\ Working
    BY DEF ReportsWhatHappened
  \* A step that leaves last-report.json alone and takes nothing back.
  <2>4. ASSUME lastReport' = lastReport, accepted \subseteq accepted',
               uploaded \subseteq uploaded', rejected \subseteq rejected'
        PROVE  LastReportHonest'
    BY <2>1, <2>3, <2>4 DEF LastReportHonest, Numbers
  <2>5. ASSUME lastReport' = lastReport, spool' \subseteq spool
        PROVE  Waiting'
    BY <2>3, <2>5 DEF Numbers
  <2> HIDE DEF Waiting, Working
  <2> USE DEF run, files, history
  <2>6. ASSUME NEW s \in Callers, Start(s)  PROVE ReportsWhatHappened'
    BY <2>2, <2>4, <2>5, <2>6 DEF Start, Working
  <2>7. CASE FlushScan \/ FlushDone \/ UpdateLastFails \/ Load \/ Collect
    BY <2>2, <2>4, <2>5, <2>7
    DEF FlushScan, Scan, FlushDone, UpdateLastFails, Load, Collect, Working
  <2>8. CASE Tick \/ SetBack \/ LoseAccess \/ RegainAccess \/ UNCHANGED vars
    BY <2>2, <2>3, <2>4, <2>5, <2>8 DEF Tick, SetBack, LoseAccess, RegainAccess, vars, Working
  <2>9. CASE SaveState \/ Fail \/ Crash
    BY <2>2, <2>4, <2>5, <2>9 DEF SaveState, Fail, Crash, Return, Working
  <2>10. CASE Remove \/ TrimScan \/ TrimDrop \/ TrimDone
    BY <2>2, <2>3, <2>4, <2>5, <2>10
    DEF Remove, TrimScan, TrimDrop, TrimDone, Scan, Delivered, Working
  \* An answer about one envelope takes nothing back about another.
  <2>11. ASSUME NEW e \in Envelope, NEW status \in Answers, Exchange(e, status),
                lastReport' = lastReport,
                lastReport.delivery \in {"uploaded", "rejected"} => lastReport.n # e.n
         PROVE  LastReportHonest'
    <3>1. /\ accepted \subseteq accepted'
          /\ uploaded \ {e} \subseteq uploaded' /\ rejected \ {e} \subseteq rejected'
      BY <2>11 DEF Exchange
    <3> QED
      BY <2>1, <2>3, <2>11, <3>1 DEF LastReportHonest, Numbers
  <2>12. ASSUME NEW status \in Answers, FlushSend(status)  PROVE ReportsWhatHappened'
    <3>1. PICK e \in spool : Exchange(e, status) /\ cur' = e
      BY <2>12 DEF FlushSend, SnapshotIsQueue
    <3>2. /\ e \in Envelope /\ lastReport' = lastReport /\ spool' = spool
          /\ \/ pc' = "load"
             \/ pc' = "remove" /\ ~StaysQueued(status)
      BY <2>12, <3>1 DEF FlushSend, TypeOK
    <3>3. lastReport.delivery \in {"uploaded", "rejected"} => lastReport.n # e.n
      BY <2>3, <3>1 DEF Waiting, Numbers
    <3>4. Working'
      <4>1. CASE StaysQueued(status)
        BY <3>2, <4>1 DEF Working
      <4>2. CASE ~StaysQueued(status)
        BY <3>1, <3>2, <4>2 DEF Working, Exchange, StaysQueued, Classify
      <4> QED
        BY <4>1, <4>2
    <3> QED
      BY <2>2, <2>5, <2>11, <3>1, <3>2, <3>3, <3>4
  <2>13. ASSUME NEW status \in Answers, Send(status)  PROVE ReportsWhatHappened'
    <3>1. /\ Exchange(cur, status) /\ cur' = cur /\ cur \notin spool
          /\ lastReport' = lastReport /\ spool' = spool
          /\ \/ pc' = "queue" /\ StaysQueued(status)
             \/ pc' \in {"saveLast", "saveState"} /\ ~StaysQueued(status)
      BY <2>13 DEF Send, Delivered, Numbered, InHand
    <3>2. cur \in Envelope /\ lastReport.n # cur.n
      BY <2>13 DEF Send, TypeOK, Holding, Numbered, Envelope
    <3>3. Working'
      BY <3>1 DEF Working, Exchange, StaysQueued, Classify
    <3> QED
      BY <2>2, <2>5, <2>11, <3>1, <3>2, <3>3
  <2>14. CASE UpdateLast
    <3>1. /\ pc = "update" /\ pc' = "flush" /\ cur \in made /\ spool \subseteq made
          /\ spool' = spool /\ accepted' = accepted
          /\ uploaded' = uploaded /\ rejected' = rejected
      BY <2>14 DEF UpdateLast, TypeOK, Holding
    <3>2. CASE LastIsLate
      <4>1. lastReport'.n = cur.n /\ lastReport'.delivery = verdict
        BY <2>14, <3>2 DEF UpdateLast, LastIsLate, TypeOK
      <4>2. lastReport'.n \notin Numbers(spool)
        BY <2>3, <3>1, <4>1 DEF Working, Numbered, Numbers
      <4>3. LastReportHonest'
        BY <2>3, <3>1, <4>1 DEF Working, LastReportHonest, Numbers, TypeOK
      <4> QED
        BY <2>2, <3>1, <4>2, <4>3 DEF Waiting, Working
    <3>3. CASE ~LastIsLate
      BY <2>2, <2>4, <2>5, <2>14, <3>3 DEF UpdateLast, Working
    <3> QED
      BY <3>2, <3>3
  <2>15. CASE Queue
    <3>1. /\ lastReport.n < cur.n /\ lastReport.n \in Nat /\ cur.n \in Nat
          /\ verdict = "queued" /\ verdict' = verdict
          /\ spool' = spool \cup {cur} /\ lastReport' = lastReport /\ pc' = "trim"
      BY <2>3, <2>15 DEF Queue, Numbered, Working, TypeOK, Holding, Envelope
    <3>2. Waiting'
      BY <2>3, <3>1 DEF Waiting, Numbers
    <3>3. LastReportHonest'
      BY <2>4, <2>15 DEF Queue
    <3> QED
      BY <2>2, <3>1, <3>2, <3>3 DEF Working
  <2>16. CASE SaveLast
    <3>1. /\ pc = "saveLast" /\ pc' \in {"collect", "saveState"}
          /\ cur \in made /\ spool \subseteq made /\ uploaded \subseteq accepted
          /\ spool' = spool /\ accepted' = accepted
          /\ uploaded' = uploaded /\ rejected' = rejected
          /\ lastReport'.n = cur.n /\ lastReport'.delivery = verdict
      BY <2>16 DEF SaveLast, TypeOK, Holding
    <3>2. Waiting'
      BY <2>3, <3>1 DEF Waiting, Working, Numbered, Numbers
    <3>3. cur \in Accounted'
      BY <2>1, <3>1 DEF WellFounded
    <3>4. LastReportHonest'
      BY <2>3, <3>1, <3>3 DEF Working, LastReportHonest, Numbers
    <3> QED
      BY <2>2, <3>1, <3>2, <3>4 DEF Working
  <2>17. CASE Damage
    <3>1. Working'
      BY <2>3, <2>17 DEF Damage, Working
    <3>2. CASE lastReport' = lastReport
      BY <2>2, <2>4, <2>5, <2>17, <3>1, <3>2 DEF Damage
    <3>3. CASE lastReport' = NoReport
      BY <2>2, <3>1, <3>3 DEF LastReportHonest, Waiting, NoReport
    <3> QED
      BY <2>17, <3>2, <3>3 DEF Damage
  <2> QED
    BY <2>6, <2>7, <2>8, <2>9, <2>10, <2>12, <2>13, <2>14, <2>15, <2>16, <2>17
    DEF Next, Flush, Work, Environment
<1> QED
  BY <1>1, <1>2, TypeCorrect, SnapshotKept, MemoryIsWellFounded, NumbersIdentify, PTL DEF Spec

\* last-report.json never claims an upload or a refusal that did not happen.
THEOREM ReportIsHonest == Spec => []LastReportHonest
<1>1. ReportsWhatHappened => LastReportHonest
  BY DEF ReportsWhatHappened
<1> QED
  BY <1>1, ReportsAreBacked, PTL

------------------------------------------------------------------------------
(* The queue is bounded.                                                    *)

\* The queue is finite, and over its limit only as QueueBounded says; there are no
\* more files that cannot be read than there were faults.
QueueIsCounted ==
  /\ IsFiniteSet(spool) /\ QueueBounded
  /\ Cardinality(stuck) <= faults /\ Cardinality(skipped) <= faults
  /\ IsFiniteSet(skipped)

\* A queue that loses files, or in which a run gives up its place to a fault, keeps
\* within the bound.
LEMMA FewerFiles ==
  ASSUME TypeOK, QueueIsCounted, spool' \subseteq spool, faults' \in Nat,
         stuck' \subseteq stuck, skipped' \in {skipped, stuck, {}},
         \/ faults' = faults /\ (pc \in {"trim", "drop"} => pc' \in {"trim", "drop"})
         \/ faults' = faults + 1
  PROVE  QueueIsCounted'
<1>1. IsFiniteSet(spool') /\ Cardinality(spool') <= Cardinality(spool)
  BY FS_Subset DEF QueueIsCounted
<1>2. Cardinality(spool') \in Nat /\ Cardinality(spool) \in Nat
  BY <1>1, FS_CardinalityType DEF QueueIsCounted
<1>3. /\ IsFiniteSet(stuck) /\ Cardinality(stuck) \in Nat
      /\ IsFiniteSet(stuck') /\ Cardinality(stuck') \in Nat
      /\ Cardinality(stuck') <= Cardinality(stuck)
  <2>1. IsFiniteSet(stuck)
    BY FS_Subset DEF TypeOK, QueueIsCounted
  <2> QED
    BY <2>1, FS_Subset, FS_CardinalityType
<1>4. /\ IsFiniteSet(skipped') /\ Cardinality(skipped') <= faults
      /\ Cardinality(skipped') \in Nat
  <2>1. CASE skipped' = skipped
    BY <2>1, FS_CardinalityType DEF QueueIsCounted
  <2>2. CASE skipped' = stuck
    BY <1>3, <2>2 DEF QueueIsCounted
  <2>3. CASE skipped' = {}
    <3>1. IsFiniteSet(skipped') /\ Cardinality(skipped') = 0
      BY <2>3, FS_EmptySet
    <3> QED
      BY <3>1 DEF TypeOK
  <2> QED
    BY <2>1, <2>2, <2>3
<1>5. QueueBounded'
  BY <1>1, <1>2, QueueIsPositive DEF TypeOK, QueueIsCounted, QueueBounded
<1> QED
  BY <1>1, <1>3, <1>4, <1>5 DEF TypeOK, QueueIsCounted

\* One more element makes a set larger by at most one.
LEMMA OneMore ==
  ASSUME NEW S, IsFiniteSet(S), NEW x
  PROVE  /\ IsFiniteSet(S \cup {x})
         /\ Cardinality(S) \in Nat /\ Cardinality(S \cup {x}) \in Nat
         /\ Cardinality(S \cup {x}) <= Cardinality(S) + 1
<1>1. /\ IsFiniteSet(S \cup {x})
      /\ x \in S \/ Cardinality(S \cup {x}) = Cardinality(S) + 1
  BY FS_AddElement
<1>2. x \in S => S \cup {x} = S
  OBVIOUS
<1>3. Cardinality(S) \in Nat /\ Cardinality(S \cup {x}) \in Nat
  BY <1>1, FS_CardinalityType
<1> QED
  BY <1>1, <1>2, <1>3

\* One more file that cannot be read is one more fault.
LEMMA OneMoreStuck ==
  ASSUME TypeOK, QueueIsCounted, spool' = spool, skipped' = skipped, faults' = faults + 1,
         NEW e \in spool, stuck' = stuck \cup {e}
  PROVE  QueueIsCounted'
<1>1. IsFiniteSet(stuck) /\ Cardinality(stuck) \in Nat /\ Cardinality(skipped) \in Nat
  <2>1. IsFiniteSet(stuck) /\ IsFiniteSet(skipped)
    BY FS_Subset DEF TypeOK, QueueIsCounted
  <2> QED
    BY <2>1, FS_CardinalityType
<1>2. Cardinality(stuck') \in Nat /\ Cardinality(stuck') <= Cardinality(stuck) + 1
  BY <1>1, OneMore
<1>3. Cardinality(spool) \in Nat
  BY FS_CardinalityType DEF QueueIsCounted
<1>4. QueueBounded'
  BY <1>3, QueueIsPositive DEF TypeOK, QueueIsCounted, QueueBounded
<1>5. /\ Cardinality(stuck) <= faults /\ Cardinality(skipped) <= faults /\ faults \in Nat
      /\ IsFiniteSet(spool) /\ IsFiniteSet(skipped)
  BY DEF TypeOK, QueueIsCounted
<1>6. Cardinality(stuck') <= faults' /\ Cardinality(skipped') <= faults'
  BY <1>1, <1>2, <1>5
<1> QED
  BY <1>4, <1>5, <1>6 DEF QueueIsCounted

\* A set is no larger than two that cover it.
LEMMA CardinalityOfCover ==
  ASSUME NEW S, NEW P, NEW Q, IsFiniteSet(P), IsFiniteSet(Q), S \subseteq P \cup Q
  PROVE  Cardinality(S) <= Cardinality(P) + Cardinality(Q)
<1>1. /\ IsFiniteSet(P \cup Q) /\ IsFiniteSet(P \cap Q)
      /\ Cardinality(P \cup Q) = Cardinality(P) + Cardinality(Q) - Cardinality(P \cap Q)
  BY FS_Union, FS_Intersection
<1>2. IsFiniteSet(S) /\ Cardinality(S) <= Cardinality(P \cup Q)
  BY <1>1, FS_Subset
<1> QED
  BY <1>1, <1>2, FS_CardinalityType

\* Spool.Queue leaves at most MaxItems files behind, besides those it cannot read;
\* every run that is interrupted between writing the new one and dropping the oldest
\* leaves one more.
THEOREM QueueStaysBounded == Spec => []QueueBounded
<1>1. Init => QueueIsCounted
  <2>1. Init => Cardinality(spool) = 0 /\ Cardinality(stuck) = 0 /\ Cardinality(skipped) = 0
    BY FS_EmptySet DEF Init
  <2> QED
    BY <2>1, FS_EmptySet, QueueIsPositive DEF Init, QueueIsCounted, QueueBounded
<1>2. TypeOK /\ SnapshotIsQueue /\ QueueIsCounted /\ [Next]_vars => QueueIsCounted'
  <2> SUFFICES ASSUME TypeOK, SnapshotIsQueue, QueueIsCounted, [Next]_vars
               PROVE  QueueIsCounted'
    OBVIOUS
  <2>1. faults \in Nat
    BY DEF TypeOK
  <2> USE DEF run, files, history
  <2>2. CASE FlushScan \/ FlushDone \/ Remove \/ UpdateLast \/ Load \/ Collect
    BY <2>1, <2>2, FewerFiles DEF FlushScan, Scan, FlushDone, Remove, UpdateLast, Load, Collect
  <2>3. ASSUME NEW status \in Answers, FlushSend(status) \/ Send(status)
        PROVE  QueueIsCounted'
    <3>1. /\ pc \in {"flush", "send"} /\ spool' = spool /\ faults' \in {faults, faults + 1}
          /\ stuck' = stuck /\ skipped' = skipped
      BY <2>3 DEF FlushSend, Send, Exchange, Fault
    <3> QED
      BY <2>1, <3>1, FewerFiles
  <2>4. CASE Queue
    <3>1. /\ pc = "queue" /\ pc' = "trim"
          /\ spool' = spool \cup {cur} /\ faults' = faults
          /\ stuck' = stuck /\ skipped' = skipped
      BY <2>4 DEF Queue
    <3>2. /\ IsFiniteSet(spool')
          /\ Cardinality(spool') <= Cardinality(spool) + 1
          /\ Cardinality(spool) \in Nat /\ Cardinality(spool') \in Nat
      BY <3>1, OneMore DEF QueueIsCounted
    <3>3. QueueBounded'
      BY <2>1, <3>1, <3>2, QueueIsPositive DEF QueueIsCounted, QueueBounded
    <3>4. Cardinality(stuck') <= faults' /\ Cardinality(skipped') <= faults'
      BY <3>1 DEF QueueIsCounted
    <3> QED
      BY <3>1, <3>2, <3>3, <3>4 DEF QueueIsCounted
  <2>5. CASE TrimScan \/ TrimDrop
    BY <2>1, <2>5, FewerFiles DEF TrimScan, Scan, TrimDrop
  <2>6. CASE TrimDone
    <3>1. /\ spool' = spool /\ faults' = faults /\ stuck' = stuck /\ skipped' = skipped
          /\ pc' \notin {"trim", "drop"}
          /\ ~(Cardinality(pending) > MaxItems)
          /\ pending \subseteq spool /\ spool \subseteq pending \cup skipped
      BY <2>6 DEF TrimDone, OverLimit, SnapshotIsQueue, Delivered
    <3>2. /\ IsFiniteSet(pending) /\ IsFiniteSet(skipped)
          /\ Cardinality(spool) \in Nat /\ Cardinality(pending) \in Nat
          /\ Cardinality(skipped) \in Nat /\ Cardinality(skipped) <= faults
      BY <3>1, FS_Subset, FS_CardinalityType DEF QueueIsCounted
    <3>3. Cardinality(spool) <= Cardinality(pending) + Cardinality(skipped)
      BY <3>1, <3>2, CardinalityOfCover
    <3> QED
      BY <2>1, <3>1, <3>2, <3>3, QueueIsPositive DEF QueueIsCounted, QueueBounded
  <2>7. CASE SaveLast \/ SaveState
    BY <2>1, <2>7, FewerFiles DEF SaveLast, SaveState, Return
  <2>8. CASE Fail \/ UpdateLastFails \/ Crash \/ SetBack \/ Damage \/ LoseAccess
    <3>1. /\ spool' = spool /\ faults' = faults + 1 /\ skipped' \in {skipped, {}}
          /\ stuck' = stuck \/ \E e \in spool : skipped' = skipped /\ stuck' = stuck \cup {e}
      BY <2>8 DEF Fail, UpdateLastFails, Crash, Return, SetBack, Damage, LoseAccess, Fault
    <3>2. CASE stuck' = stuck
      BY <2>1, <3>1, <3>2, FewerFiles
    <3>3. CASE \E e \in spool : skipped' = skipped /\ stuck' = stuck \cup {e}
      BY <3>1, <3>3, OneMoreStuck
    <3> QED
      BY <3>1, <3>2, <3>3
  <2>9. CASE Tick \/ RegainAccess \/ UNCHANGED vars
    BY <2>1, <2>9, FewerFiles DEF Tick, RegainAccess, vars
  <2>10. ASSUME NEW s \in Callers, Start(s)  PROVE QueueIsCounted'
    BY <2>1, <2>10, FewerFiles DEF Start
  <2> QED
    BY <2>2, <2>3, <2>4, <2>5, <2>6, <2>7, <2>8, <2>9, <2>10
    DEF Next, Flush, Work, Environment
<1>3. QueueIsCounted => QueueBounded
  BY DEF QueueIsCounted
<1> QED
  BY <1>1, <1>2, <1>3, TypeCorrect, SnapshotKept, PTL DEF Spec

------------------------------------------------------------------------------
(* An envelope is in one place.                                             *)

\* What waits has not been set aside or dropped, and the envelope in hand has not
\* been answered or put anywhere yet.
InOnePlace ==
  /\ spool \cap (aside \cup trimmed) = {}
  /\ InHand => cur \notin Accounted

\* No envelope waits that was set aside, dropped or is in hand.
LEMMA PlacesAreDisjoint == Spec => []InOnePlace
<1>1. Init => InOnePlace
  BY DEF Init, InOnePlace, InHand
<1>2. TypeOK /\ Numbered /\ SnapshotIsQueue /\ InOnePlace /\ [Next]_vars => InOnePlace'
  <2> SUFFICES ASSUME TypeOK, Numbered, SnapshotIsQueue, InOnePlace, [Next]_vars
               PROVE  InOnePlace'
    OBVIOUS
  <2> USE DEF InOnePlace, InHand, Accounted, run, files, history
  <2>1. CASE FlushScan \/ TrimScan
    BY <2>1 DEF FlushScan, TrimScan, Scan
  <2>2. ASSUME NEW status \in Answers, FlushSend(status)  PROVE InOnePlace'
    BY <2>2 DEF FlushSend
  <2>3. CASE FlushDone \/ Remove \/ UpdateLast \/ UpdateLastFails \/ Load
    BY <2>3 DEF FlushDone, Remove, UpdateLast, UpdateLastFails, Load
  <2>4. CASE Collect
    <3>1. /\ cur'.n = signed + 1
          /\ spool' = spool /\ aside' = aside /\ trimmed' = trimmed
          /\ uploaded' = uploaded /\ rejected' = rejected
      BY <2>4 DEF Collect
    <3>2. \A e \in made : e.n # signed + 1
      BY DEF TypeOK, Numbered, Envelope
    <3>3. Accounted \subseteq made
      BY DEF TypeOK
    <3> QED
      BY <3>1, <3>2, <3>3
  <2>5. ASSUME NEW status \in Answers, Send(status)  PROVE InOnePlace'
    <3>1. CASE StaysQueued(status)
      BY <2>5, <3>1 DEF Send, Exchange, StaysQueued, Classify
    <3>2. CASE ~StaysQueued(status)
      BY <2>5, <3>2 DEF Send, Delivered
    <3> QED
      BY <3>1, <3>2
  <2>6. CASE Queue
    BY <2>6 DEF Queue
  <2>7. CASE TrimDrop
    BY <2>7 DEF TrimDrop
  <2>8. CASE TrimDone \/ SaveLast
    BY <2>8 DEF TrimDone, SaveLast, Delivered
  <2>9. CASE SaveState \/ Fail \/ Crash
    BY <2>9 DEF SaveState, Fail, Crash, Return
  <2>10. CASE Tick \/ SetBack \/ Damage \/ LoseAccess \/ RegainAccess \/ UNCHANGED vars
    BY <2>10 DEF Tick, SetBack, Damage, LoseAccess, RegainAccess, vars
  <2>11. ASSUME NEW s \in Callers, Start(s)  PROVE InOnePlace'
    BY <2>11 DEF Start
  <2> QED
    BY <2>1, <2>2, <2>3, <2>4, <2>5, <2>6, <2>7, <2>8, <2>9, <2>10, <2>11
    DEF Next, Flush, Work, Environment
<1> QED
  BY <1>1, <1>2, TypeCorrect, NumbersIdentify, SnapshotKept, PTL DEF Spec

------------------------------------------------------------------------------
(* Agent implements Delivery: each of its steps is a step of Delivery about *)
(* one envelope, a scan that sets damaged ones aside, or no step of         *)
(* Delivery at all.                                                         *)

Ids == 1..MaxEnvelopes

------------------------------------------------------------------------------
(* Every envelope has a number of its own among Ids.                        *)

\* A run that starts has room for the two envelopes it may sign.
EnvelopesFit ==
  /\ signed <= MaxEnvelopes
  /\ pc \in {"scan", "flush", "remove", "update", "load"} => signed + 2 <= MaxEnvelopes
  /\ pc = "collect" => /\ signed + 1 <= MaxEnvelopes
                       /\ due.full /\ due.heartbeat => signed + 2 <= MaxEnvelopes
  /\ pc \in {"send", "queue", "trim", "drop", "saveLast"} /\ cur.kind = "full"
       /\ due.heartbeat => signed + 1 <= MaxEnvelopes

\* No run signs more envelopes than there are numbers for.
LEMMA EveryEnvelopeFits == Spec => []EnvelopesFit
<1>1. Init => EnvelopesFit
  BY BoundsAreNaturals DEF Init, EnvelopesFit
<1>2. TypeOK /\ WellFounded /\ EnvelopesFit /\ [Next]_vars => EnvelopesFit'
  <2> SUFFICES ASSUME TypeOK, WellFounded, EnvelopesFit, [Next]_vars
               PROVE  EnvelopesFit'
    OBVIOUS
  <2>1. signed \in Nat /\ MaxEnvelopes \in Nat
    BY BoundsAreNaturals DEF TypeOK
  <2> USE DEF EnvelopesFit, run, files, history
  <2>2. CASE FlushScan \/ FlushDone \/ Remove \/ UpdateLast \/ UpdateLastFails
    BY <2>1, <2>2 DEF FlushScan, FlushDone, Remove, UpdateLast, UpdateLastFails
  <2>3. ASSUME NEW status \in Answers, FlushSend(status)  PROVE EnvelopesFit'
    BY <2>1, <2>3 DEF FlushSend
  <2>4. CASE Load
    BY <2>1, <2>4 DEF Load
  <2>5. CASE Collect
    <3>1. /\ pc = "collect" /\ pc' = "send" /\ signed' = signed + 1 /\ due' = due
          /\ cur'.kind = "full" => due.full
      BY <2>5 DEF Collect
    <3> QED
      BY <2>1, <3>1
  <2>6. ASSUME NEW status \in Answers, Send(status)  PROVE EnvelopesFit'
    BY <2>1, <2>6 DEF Send, Delivered
  <2>7. CASE Queue \/ TrimScan \/ TrimDrop \/ TrimDone
    BY <2>1, <2>7 DEF Queue, TrimScan, TrimDrop, TrimDone, Delivered
  <2>8. CASE SaveLast
    <3>1. /\ pc = "saveLast" /\ cur.kind = "full" /\ signed' = signed
          /\ ~due'.full
          /\ pc' = IF due.heartbeat THEN "collect" ELSE "saveState"
      BY <2>8 DEF SaveLast, WellFounded, TypeOK
    <3> QED
      BY <2>1, <3>1
  <2>9. CASE SaveState \/ Fail \/ Crash
    BY <2>1, <2>9 DEF SaveState, Fail, Crash, Return
  <2>10. CASE Tick \/ SetBack \/ Damage \/ LoseAccess \/ RegainAccess \/ UNCHANGED vars
    BY <2>1, <2>10 DEF Tick, SetBack, Damage, LoseAccess, RegainAccess, vars
  <2>11. ASSUME NEW s \in Callers, Start(s)  PROVE EnvelopesFit'
    BY <2>1, <2>11 DEF Start
  <2> QED
    BY <2>2, <2>3, <2>4, <2>5, <2>6, <2>7, <2>8, <2>9, <2>10, <2>11
    DEF Next, Flush, Work, Environment
<1> QED
  BY <1>1, <1>2, TypeCorrect, MemoryIsWellFounded, PTL DEF Spec

------------------------------------------------------------------------------
(* The mapping, envelope by envelope.                                       *)

PlaceOf(e) ==
  IF e \in spool THEN "queued"
  ELSE IF e \in aside THEN "aside"
  ELSE IF e \in trimmed THEN "dropped"
  ELSE IF e \in uploaded THEN "uploaded"
  ELSE IF e \in rejected THEN "rejected"
  ELSE IF InHand /\ e = cur THEN "new" ELSE "lost"

AnswerTo(e) ==
  IF e \in uploaded THEN "uploaded" ELSE IF e \in rejected THEN "rejected" ELSE "none"

\* The fate of a number is that of the one envelope that carries it.
Mapped ==
  /\ \A e \in made : Fate(e.n) = PlaceOf(e) /\ Answered(e.n) = AnswerTo(e)
  /\ \A n : n \notin Numbers(made) => Fate(n) = "none" /\ Answered(n) = "none"

\* The refinement mapping can be read off envelope by envelope.
LEMMA MappingIsPointwise == TypeOK /\ Numbered => Mapped
<1> SUFFICES ASSUME TypeOK, Numbered
             PROVE  Mapped
  OBVIOUS
<1>1. \A e \in made : \A S \in SUBSET made : e.n \in Numbers(S) <=> e \in S
  BY DEF Numbered, Numbers
<1>2. /\ spool \in SUBSET made /\ aside \in SUBSET made /\ trimmed \in SUBSET made
      /\ uploaded \in SUBSET made /\ rejected \in SUBSET made /\ made \in SUBSET made
  BY DEF TypeOK
<1>3. InHand => cur \in made
  BY DEF InHand, TypeOK, Holding
<1>4. ASSUME NEW e \in made
      PROVE  Fate(e.n) = PlaceOf(e) /\ Answered(e.n) = AnswerTo(e)
  <2>1. /\ e.n \in Numbers(made)
        /\ e.n \in Numbers(spool) <=> e \in spool
        /\ e.n \in Numbers(aside) <=> e \in aside
        /\ e.n \in Numbers(trimmed) <=> e \in trimmed
        /\ e.n \in Numbers(uploaded) <=> e \in uploaded
        /\ e.n \in Numbers(rejected) <=> e \in rejected
    BY <1>1, <1>2
  <2>2. InHand /\ e.n = cur.n <=> InHand /\ e = cur
    BY <1>3 DEF Numbered
  <2> QED
    BY <2>1, <2>2 DEF Fate, PlaceOf, Answered, AnswerTo
<1>5. ASSUME NEW n, n \notin Numbers(made)
      PROVE  Fate(n) = "none" /\ Answered(n) = "none"
  <2>1. n \notin Numbers(uploaded) /\ n \notin Numbers(rejected)
    BY <1>2, <1>5 DEF Numbers
  <2> QED
    BY <1>5, <2>1 DEF Fate, Answered
<1> QED
  BY <1>4, <1>5 DEF Mapped

\* The same in the state a step leads to.
LEMMA MappingStaysPointwise == (TypeOK /\ Numbered => Mapped)'
BY MappingIsPointwise, PTL

Fates == [n \in Ids |-> Fate(n)]
LastAnswers == [n \in Ids |-> Answered(n)]

\* What holds in every state the steps below start from and lead to.
Facts == TypeOK /\ Numbered /\ SnapshotIsQueue /\ WellFounded /\ InOnePlace /\ EnvelopesFit
                /\ Mapped

\* The places and answers of the envelopes outside S stay.
Stay(S) == \A e \in made \ S : PlaceOf(e)' = PlaceOf(e) /\ AnswerTo(e)' = AnswerTo(e)

\* A step that moves no envelope changes no fate and no answer.
LEMMA NothingMoves ==
  ASSUME Facts, Facts', made' = made, Stay({})
  PROVE  Fates' = Fates /\ LastAnswers' = LastAnswers
<1>1. ASSUME NEW n \in Ids  PROVE Fate(n)' = Fate(n) /\ Answered(n)' = Answered(n)
  <2>1. CASE n \in Numbers(made)
    <3>1. PICK e \in made : e.n = n
      BY <2>1 DEF Numbers
    <3> QED
      BY <3>1 DEF Facts, Mapped, Stay
  <2>2. CASE n \notin Numbers(made)
    BY <2>2 DEF Facts, Mapped
  <2> QED
    BY <2>1, <2>2
<1> QED
  BY <1>1 DEF Fates, LastAnswers

\* A step that moves one envelope changes its fate and its answer and no other.
LEMMA OneMoves ==
  ASSUME Facts, Facts', made' = made, NEW e \in made, Stay({e})
  PROVE  /\ e.n \in Ids
         /\ Fates[e.n] = PlaceOf(e) /\ LastAnswers[e.n] = AnswerTo(e)
         /\ Fates' = [Fates EXCEPT ![e.n] = PlaceOf(e)']
         /\ LastAnswers' = [LastAnswers EXCEPT ![e.n] = AnswerTo(e)']
<1>1. e.n \in Ids
  BY BoundsAreNaturals DEF Facts, TypeOK, Numbered, EnvelopesFit, Envelope, Ids
<1>2. ASSUME NEW n \in Ids, n # e.n
      PROVE  Fate(n)' = Fate(n) /\ Answered(n)' = Answered(n)
  <2>1. CASE n \in Numbers(made)
    <3>1. PICK f \in made : f.n = n
      BY <2>1 DEF Numbers
    <3> QED
      BY <1>2, <3>1 DEF Facts, Mapped, Stay
  <2>2. CASE n \notin Numbers(made)
    BY <2>2 DEF Facts, Mapped
  <2> QED
    BY <2>1, <2>2
<1>3. /\ Fate(e.n) = PlaceOf(e) /\ Answered(e.n) = AnswerTo(e)
      /\ Fate(e.n)' = PlaceOf(e)' /\ Answered(e.n)' = AnswerTo(e)'
  BY DEF Facts, Mapped
<1> QED
  BY <1>1, <1>2, <1>3 DEF Fates, LastAnswers

------------------------------------------------------------------------------
(* One step of Delivery per step of Agent.                                  *)

DeliveryStep == Contract!Next \/ (Fates' = Fates /\ LastAnswers' = LastAnswers)

\* The steps that move no envelope.
SamePlaces ==
  /\ made' = made /\ spool' = spool /\ aside' = aside /\ trimmed' = trimmed
  /\ \A e \in made : (InHand /\ e = cur)' <=> InHand /\ e = cur

\* A step that leaves the places alone is a stutter of the contract.
LEMMA StutterStep ==
  ASSUME Facts, Facts', SamePlaces, uploaded' = uploaded, rejected' = rejected
  PROVE  DeliveryStep
<1>1. Stay({})
  BY DEF SamePlaces, Stay, PlaceOf, AnswerTo
<1> QED
  BY <1>1, NothingMoves DEF SamePlaces, DeliveryStep

\* The envelope that Collect signs is new.
LEMMA SignStep ==
  ASSUME Facts, Facts', Collect
  PROVE  DeliveryStep
<1>1. PICK e : /\ e = cur'
               /\ pc = "collect" /\ pc' = "send" /\ made' = made \cup {e}
               /\ e.n = signed + 1
  BY DEF Collect
<1>2. /\ spool' = spool /\ aside' = aside /\ trimmed' = trimmed
      /\ uploaded' = uploaded /\ rejected' = rejected
  BY DEF Collect, files
<1>3. e.n \in Ids
  BY <1>1, <1>2, BoundsAreNaturals DEF Facts, TypeOK, EnvelopesFit, Ids
<1>4. e.n \notin Numbers(made) /\ e \notin made
  BY <1>1, <1>2 DEF Facts, TypeOK, Numbered, Numbers, Envelope
<1>5. Fate(e.n) = "none" /\ Answered(e.n) = "none"
  BY <1>4 DEF Facts, Mapped
<1>6. Fate(e.n)' = "new" /\ Answered(e.n)' = "none"
  <2>1. PlaceOf(e)' = "new" /\ AnswerTo(e)' = "none"
    BY <1>1, <1>2, <1>4 DEF Facts, TypeOK, PlaceOf, AnswerTo, InHand
  <2> QED
    BY <1>1, <1>2, <2>1 DEF Facts, Mapped
<1>7. ASSUME NEW n \in Ids, n # e.n
      PROVE  Fate(n)' = Fate(n) /\ Answered(n)' = Answered(n)
  <2>1. CASE n \in Numbers(made)
    <3>1. PICK f \in made : f.n = n
      BY <2>1 DEF Numbers
    <3>2. PlaceOf(f)' = PlaceOf(f) /\ AnswerTo(f)' = AnswerTo(f)
      BY <1>1, <1>2, <1>4, <3>1 DEF PlaceOf, AnswerTo, InHand
    <3> QED
      BY <1>1, <1>2, <3>1, <3>2 DEF Facts, Mapped
  <2>2. CASE n \notin Numbers(made)
    BY <1>1, <1>2, <1>7, <2>2 DEF Facts, Mapped, Numbers
  <2> QED
    BY <2>1, <2>2
<1>8. Contract!Sign(e.n)
  BY <1>3, <1>5, <1>6, <1>7 DEF Contract!Sign, Ids
<1> QED
  BY <1>3, <1>8 DEF DeliveryStep, Contract!Next, Ids

\* A scan sets those damaged files aside that can be moved.
LEMMA ScanStep ==
  ASSUME Facts, Facts', Scan, ~InHand, ~InHand', UNCHANGED history
  PROVE  DeliveryStep
<1> DEFINE Moved == damaged \ stuck
<1>1. /\ spool' = spool \ Moved /\ aside' = aside \cup Moved /\ trimmed' = trimmed
      /\ uploaded' = uploaded /\ rejected' = rejected /\ made' = made
  BY DEF Scan, history
<1>2. /\ Moved \subseteq spool /\ spool \subseteq made /\ spool \cap aside = {}
  BY DEF Facts, TypeOK, InOnePlace
<1> HIDE DEF Moved
<1>3. Numbers(Moved) \in SUBSET Contract!Queued
  <2> SUFFICES ASSUME NEW e \in Moved
               PROVE  e.n \in Ids /\ Fate(e.n) = "queued"
    BY DEF Numbers, Contract!Queued, Ids
  <2>1. e.n \in Ids
    BY <1>2, BoundsAreNaturals DEF Facts, TypeOK, Numbered, EnvelopesFit, Envelope, Ids
  <2>2. Fate(e.n) = "queued"
    BY <1>2 DEF Facts, Mapped, PlaceOf
  <2> QED
    BY <2>1, <2>2
<1>4. ASSUME NEW n \in Ids
      PROVE  /\ Fate(n)' = IF n \in Numbers(Moved) THEN "aside" ELSE Fate(n)
             /\ Answered(n)' = Answered(n)
  <2>1. CASE n \in Numbers(made)
    <3>1. PICK e \in made : e.n = n
      BY <2>1 DEF Numbers
    <3>2. n \in Numbers(Moved) <=> e \in Moved
      BY <1>2, <3>1 DEF Facts, Numbered, Numbers
    <3>3. /\ PlaceOf(e)' = IF e \in Moved THEN "aside" ELSE PlaceOf(e)
          /\ AnswerTo(e)' = AnswerTo(e)
      BY <1>1, <1>2 DEF PlaceOf, AnswerTo
    <3> QED
      BY <1>1, <3>1, <3>2, <3>3 DEF Facts, Mapped
  <2>2. CASE n \notin Numbers(made)
    <3>1. n \notin Numbers(Moved)
      BY <1>2, <2>2 DEF Numbers
    <3> QED
      BY <1>1, <2>2, <3>1 DEF Facts, Mapped
  <2> QED
    BY <2>1, <2>2
<1>5. Contract!SetAside(Numbers(Moved))
  BY <1>4 DEF Contract!SetAside, Ids
<1> QED
  BY <1>3, <1>5 DEF DeliveryStep, Contract!Next

\* Remove takes an answered envelope out of the queue.
LEMMA SettleStep ==
  ASSUME Facts, Facts', Remove
  PROVE  DeliveryStep
<1>1. /\ cur \in made /\ cur \in spool /\ cur \notin aside /\ cur \notin trimmed
      /\ cur \in uploaded \cup rejected
  BY DEF Remove, Facts, TypeOK, Holding, SnapshotIsQueue, WellFounded, InOnePlace
<1>2. /\ spool' = spool \ {cur} /\ aside' = aside /\ trimmed' = trimmed /\ made' = made
      /\ uploaded' = uploaded /\ rejected' = rejected /\ ~InHand /\ ~InHand'
  BY DEF Remove, InHand, history
<1>3. Stay({cur})
  BY <1>2 DEF Stay, PlaceOf, AnswerTo
<1>4. PICK e \in made : e = cur
  BY <1>1
<1>5. /\ PlaceOf(e) = "queued" /\ PlaceOf(e)' = AnswerTo(e) /\ AnswerTo(e)' = AnswerTo(e)
      /\ AnswerTo(e) \in {"uploaded", "rejected"}
  BY <1>1, <1>2, <1>4 DEF PlaceOf, AnswerTo
<1>6. Contract!Settle(e.n)
  <2>1. /\ e.n \in Ids
        /\ Fates[e.n] = PlaceOf(e) /\ LastAnswers[e.n] = AnswerTo(e)
        /\ Fates' = [Fates EXCEPT ![e.n] = PlaceOf(e)']
        /\ LastAnswers' = [LastAnswers EXCEPT ![e.n] = AnswerTo(e)']
    BY <1>2, <1>3, <1>4, OneMoves
  <2>2. LastAnswers' = LastAnswers
    BY <1>5, <2>1 DEF LastAnswers
  <2> QED
    BY <1>5, <2>1, <2>2 DEF Contract!Settle, Contract!Settled, Fates, LastAnswers, Ids
<1> QED
  BY <1>4, <1>6, OneMoves, <1>2, <1>3 DEF DeliveryStep, Contract!Next, Ids

\* An exchange concerns one envelope, and a definitive answer is the last one to it.
LEMMA ExchangeIsOfOne ==
  ASSUME NEW e, NEW status, Exchange(e, status)
  PROVE  /\ \A f : f # e => AnswerTo(f)' = AnswerTo(f)
         /\ \A f : f # e => /\ (f \in uploaded)' = (f \in uploaded)
                            /\ (f \in rejected)' = (f \in rejected)
         /\ StaysQueued(status) => uploaded' = uploaded /\ rejected' = rejected
         /\ ~StaysQueued(status) =>
              \/ e \in uploaded'
              \/ e \notin uploaded' /\ e \in rejected'
<1>1. /\ uploaded' = IF Success(status) THEN uploaded \cup {e}
                     ELSE IF Refusal(status) THEN uploaded \ {e} ELSE uploaded
      /\ rejected' = IF Refusal(status) THEN rejected \cup {e}
                     ELSE IF Success(status) THEN rejected \ {e} ELSE rejected
  BY DEF Exchange
<1>2. StaysQueued(status) => ~Success(status) /\ ~Refusal(status)
  BY DEF StaysQueued, Classify
<1>3. ~StaysQueued(status) => Success(status) \/ Refusal(status)
  BY DEF StaysQueued, Classify
<1>4. \A f : f # e => /\ (f \in uploaded)' = (f \in uploaded)
                      /\ (f \in rejected)' = (f \in rejected)
  BY <1>1
<1>5. \A f : f # e => AnswerTo(f)' = AnswerTo(f)
  BY <1>4 DEF AnswerTo
<1> QED
  BY <1>1, <1>2, <1>3, <1>4, <1>5

\* The service answers the head of the queue, which stays in it for now.
LEMMA AnswerStep ==
  ASSUME Facts, Facts', NEW status \in Answers, FlushSend(status)
  PROVE  DeliveryStep
<1>1. PICK e \in made : Exchange(e, status) /\ e \in spool
  BY DEF FlushSend, Facts, TypeOK, SnapshotIsQueue
<1>2. /\ spool' = spool /\ aside' = aside /\ trimmed' = trimmed /\ made' = made
      /\ ~InHand /\ ~InHand'
  BY DEF FlushSend, InHand, files
<1>3. CASE StaysQueued(status)
  <2>1. uploaded' = uploaded /\ rejected' = rejected
    BY <1>1, <1>3, ExchangeIsOfOne
  <2> QED
    BY <1>2, <2>1, StutterStep DEF SamePlaces
<1>4. CASE ~StaysQueued(status)
  <2>1. Stay({e})
    BY <1>1, <1>2, ExchangeIsOfOne DEF Stay, PlaceOf
  <2>2. /\ PlaceOf(e) = "queued" /\ PlaceOf(e)' = "queued"
        /\ AnswerTo(e)' \in {"uploaded", "rejected"}
    BY <1>1, <1>2, <1>4, ExchangeIsOfOne DEF PlaceOf, AnswerTo
  <2>3. /\ e.n \in Ids /\ Fates[e.n] = "queued" /\ Fates' = [Fates EXCEPT ![e.n] = "queued"]
        /\ LastAnswers' = [LastAnswers EXCEPT ![e.n] = AnswerTo(e)']
    BY <1>2, <2>1, <2>2, OneMoves
  <2>4. Fates' = Fates
    BY <2>3 DEF Fates
  <2>5. Contract!Answer(e.n, AnswerTo(e)')
    BY <2>3, <2>4 DEF Contract!Answer, Fates, LastAnswers, Ids
  <2> QED
    BY <2>2, <2>3, <2>5 DEF DeliveryStep, Contract!Next, Contract!Settled, Ids
<1> QED
  BY <1>3, <1>4

\* The service answers the envelope in hand, or says nothing definitive about it.
LEMMA DeliverStep ==
  ASSUME Facts, Facts', NEW status \in Answers, Send(status)
  PROVE  DeliveryStep
<1>1. PICK e \in made : Exchange(e, status) /\ e = cur
  BY DEF Send, Facts, TypeOK, Holding
<1>2. /\ spool' = spool /\ aside' = aside /\ trimmed' = trimmed /\ made' = made
      /\ cur' = cur /\ InHand
  BY DEF Send, InHand, files
<1>3. CASE StaysQueued(status)
  <2>1. uploaded' = uploaded /\ rejected' = rejected /\ InHand'
    BY <1>1, <1>3, ExchangeIsOfOne DEF Send, InHand
  <2> QED
    BY <1>2, <2>1, StutterStep DEF SamePlaces
<1>4. CASE ~StaysQueued(status)
  <2>1. ~InHand'
    BY <1>4 DEF Send, Delivered, InHand
  <2>2. Stay({e})
    BY <1>1, <1>2, <2>1, ExchangeIsOfOne DEF Stay, PlaceOf
  <2>3. /\ PlaceOf(e) = "new" /\ PlaceOf(e)' = AnswerTo(e)'
        /\ AnswerTo(e)' \in {"uploaded", "rejected"}
    <3>1. e \notin spool /\ e \notin aside /\ e \notin trimmed
          /\ e \notin uploaded /\ e \notin rejected
      BY <1>1, <1>2 DEF Facts, InOnePlace, Accounted
    <3> QED
      BY <1>1, <1>2, <1>4, <3>1, ExchangeIsOfOne DEF PlaceOf, AnswerTo
  <2>4. /\ e.n \in Ids /\ Fates[e.n] = "new"
        /\ Fates' = [Fates EXCEPT ![e.n] = AnswerTo(e)']
        /\ LastAnswers' = [LastAnswers EXCEPT ![e.n] = AnswerTo(e)']
    BY <1>2, <2>2, <2>3, OneMoves
  <2>5. Contract!Deliver(e.n, AnswerTo(e)')
    BY <2>4 DEF Contract!Deliver, Fates, LastAnswers, Ids
  <2> QED
    BY <2>3, <2>4, <2>5 DEF DeliveryStep, Contract!Next, Contract!Settled, Ids
<1> QED
  BY <1>3, <1>4

\* Queue puts the envelope in hand into the queue.
LEMMA StoreStep ==
  ASSUME Facts, Facts', Queue
  PROVE  DeliveryStep
<1>1. PICK e \in made : e = cur
  BY DEF Queue, Facts, TypeOK, Holding
<1>2. /\ spool' = spool \cup {e} /\ aside' = aside /\ trimmed' = trimmed /\ made' = made
      /\ uploaded' = uploaded /\ rejected' = rejected /\ InHand /\ ~InHand'
  BY <1>1 DEF Queue, InHand, history
<1>3. Stay({e})
  BY <1>1, <1>2 DEF Stay, PlaceOf, AnswerTo
<1>4. PlaceOf(e) = "new" /\ PlaceOf(e)' = "queued" /\ AnswerTo(e)' = AnswerTo(e)
  BY <1>1, <1>2 DEF PlaceOf, AnswerTo, Facts, InOnePlace, Accounted
<1>5. /\ e.n \in Ids /\ Fates[e.n] = "new" /\ Fates' = [Fates EXCEPT ![e.n] = "queued"]
      /\ LastAnswers[e.n] = AnswerTo(e)
      /\ LastAnswers' = [LastAnswers EXCEPT ![e.n] = AnswerTo(e)]
  BY <1>2, <1>3, <1>4, OneMoves
<1>6. LastAnswers' = LastAnswers
  BY <1>5 DEF LastAnswers
<1>7. Contract!Store(e.n)
  BY <1>5, <1>6 DEF Contract!Store, Fates, LastAnswers, Ids
<1> QED
  BY <1>5, <1>7 DEF DeliveryStep, Contract!Next, Ids

\* A run that ends loses the envelope in hand, if it has one.
LEMMA LoseStep ==
  ASSUME Facts, Facts', Fail \/ Crash
  PROVE  DeliveryStep
<1>1. /\ spool' = spool /\ aside' = aside /\ trimmed' = trimmed /\ made' = made
      /\ uploaded' = uploaded /\ rejected' = rejected /\ ~InHand'
  BY DEF Fail, Crash, Return, files, history, InHand
<1>2. CASE ~InHand
  BY <1>1, <1>2, StutterStep DEF SamePlaces
<1>3. CASE InHand
  <2>1. PICK e \in made : e = cur
    BY <1>3 DEF Facts, TypeOK, Holding, InHand
  <2>2. Stay({e})
    BY <1>1, <2>1 DEF Stay, PlaceOf, AnswerTo
  <2>3. PlaceOf(e) = "new" /\ PlaceOf(e)' = "lost" /\ AnswerTo(e)' = AnswerTo(e)
    BY <1>1, <1>3, <2>1 DEF PlaceOf, AnswerTo, Facts, InOnePlace, Accounted
  <2>4. /\ e.n \in Ids /\ Fates[e.n] = "new" /\ Fates' = [Fates EXCEPT ![e.n] = "lost"]
        /\ LastAnswers[e.n] = AnswerTo(e)
        /\ LastAnswers' = [LastAnswers EXCEPT ![e.n] = AnswerTo(e)]
    BY <1>1, <2>2, <2>3, OneMoves
  <2>5. LastAnswers' = LastAnswers
    BY <2>4 DEF LastAnswers
  <2>6. Contract!Lose(e.n)
    BY <2>4, <2>5 DEF Contract!Lose, Fates, LastAnswers, Ids
  <2> QED
    BY <2>4, <2>6 DEF DeliveryStep, Contract!Next, Ids
<1> QED
  BY <1>2, <1>3

\* The queue of Delivery is as large as the queue directory.
LEMMA QueueIsMapped ==
  ASSUME Facts
  PROVE  Cardinality(Contract!Queued) = Cardinality(spool) /\ IsFiniteSet(spool)
<1> DEFINE number == [e \in spool |-> e.n]
<1>1. spool \subseteq made
  BY DEF Facts, TypeOK
<1>2. \A e \in made : e.n \in Ids
  BY BoundsAreNaturals DEF Facts, TypeOK, Numbered, EnvelopesFit, Envelope, Ids
<1>3. Contract!Queued = Numbers(spool)
  <2>1. ASSUME NEW n \in Ids, Fate(n) = "queued"  PROVE n \in Numbers(spool)
    <3>1. n \in Numbers(made)
      BY <2>1 DEF Facts, Mapped
    <3>2. PICK e \in made : e.n = n
      BY <3>1 DEF Numbers
    <3>3. PlaceOf(e) = "queued"
      BY <2>1, <3>2 DEF Facts, Mapped
    <3>4. e \in spool
      BY <3>3 DEF PlaceOf
    <3> QED
      BY <3>2, <3>4 DEF Numbers
  <2>2. ASSUME NEW e \in spool  PROVE e.n \in Ids /\ Fate(e.n) = "queued"
    BY <1>1, <1>2 DEF Facts, Mapped, PlaceOf
  <2> QED
    BY <2>1, <2>2 DEF Numbers, Contract!Queued, Ids
<1>4. IsFiniteSet(Numbers(spool))
  <2>1. IsFiniteSet(Ids)
    BY FS_Interval, BoundsAreNaturals DEF Ids
  <2>2. Numbers(spool) \subseteq Ids
    BY <1>1, <1>2 DEF Numbers
  <2> QED
    BY <2>1, <2>2, FS_Subset
<1>5. /\ number \in Injection(spool, Numbers(spool))
      /\ number \in Surjection(spool, Numbers(spool))
  BY <1>1 DEF Facts, Numbered, Numbers, Injection, IsInjective, Surjection
<1> HIDE DEF number
<1>6. IsFiniteSet(spool)
  BY ONLY <1>4, <1>5, FS_Injection
<1>7. Cardinality(spool) = Cardinality(Numbers(spool))
  BY ONLY <1>4, <1>5, FS_Injection
<1> QED
  BY <1>3, <1>6, <1>7

\* Delivery counts with the same Cardinality.
LEMMA SameCardinality == \A S : Contract!Cardinality(S) = Cardinality(S)
BY DEF Contract!Cardinality, Cardinality

\* Spool.Queue drops the oldest of a queue that is over its limit.
LEMMA DropStep ==
  ASSUME Facts, Facts', TrimDrop
  PROVE  DeliveryStep
<1>1. PICK e \in spool : spool' = spool \ {e} /\ trimmed' = trimmed \cup {e}
  BY DEF TrimDrop, Facts, SnapshotIsQueue
<1>2. /\ aside' = aside /\ made' = made /\ uploaded' = uploaded /\ rejected' = rejected
      /\ ~InHand /\ ~InHand' /\ e \in made /\ e \notin aside
  BY <1>1 DEF TrimDrop, InHand, Facts, TypeOK, InOnePlace
<1>3. Contract!Cardinality(Contract!Queued) > MaxItems
  <2>1. /\ Cardinality(pending) > MaxItems /\ pending \subseteq spool
        /\ IsFiniteSet(spool) /\ Cardinality(Contract!Queued) = Cardinality(spool)
    BY QueueIsMapped DEF TrimDrop, OverLimit, Facts, SnapshotIsQueue
  <2>2. Cardinality(pending) <= Cardinality(spool)
    BY <2>1, FS_Subset
  <2>3. /\ Cardinality(pending) \in Nat /\ Cardinality(spool) \in Nat
    BY <2>1, FS_Subset, FS_CardinalityType
  <2> QED
    BY <2>1, <2>2, <2>3, SameCardinality, QueueIsPositive
<1>4. Stay({e})
  BY <1>1, <1>2 DEF Stay, PlaceOf, AnswerTo
<1>5. PlaceOf(e) = "queued" /\ PlaceOf(e)' = "dropped" /\ AnswerTo(e)' = AnswerTo(e)
  BY <1>1, <1>2 DEF PlaceOf, AnswerTo
<1>6. /\ e.n \in Ids /\ Fates[e.n] = "queued" /\ Fates' = [Fates EXCEPT ![e.n] = "dropped"]
      /\ LastAnswers[e.n] = AnswerTo(e)
      /\ LastAnswers' = [LastAnswers EXCEPT ![e.n] = AnswerTo(e)]
  BY <1>2, <1>4, <1>5, OneMoves
<1>7. LastAnswers' = LastAnswers
  BY <1>6 DEF LastAnswers
<1>8. Contract!Drop(e.n)
  BY <1>3, <1>6, <1>7 DEF Contract!Drop, Fates, LastAnswers, Ids
<1> QED
  BY <1>6, <1>8 DEF DeliveryStep, Contract!Next, Ids

------------------------------------------------------------------------------
(* The refinement.                                                          *)

\* Every step of the agent is a step of the contract or a stutter.
LEMMA EveryStepKeepsIt ==
  ASSUME Facts, Facts', [Next]_vars
  PROVE  DeliveryStep
<1>1. CASE FlushScan \/ TrimScan
  <2>1. Scan /\ UNCHANGED history /\ ~InHand /\ ~InHand'
    BY <1>1 DEF FlushScan, TrimScan, InHand
  <2> QED
    BY <2>1, ScanStep
<1>2. CASE FlushDone \/ UpdateLast \/ UpdateLastFails \/ Load \/ TrimDone \/ SaveLast
  <2>1. /\ UNCHANGED <<spool, aside, history>> /\ ~InHand /\ ~InHand'
    BY <1>2
    DEF FlushDone, UpdateLast, UpdateLastFails, Load, TrimDone, SaveLast, Delivered, InHand, files
  <2> QED
    BY <2>1, StutterStep DEF SamePlaces, history
<1>3. CASE SaveState
  <2>1. /\ UNCHANGED <<spool, aside, history>> /\ ~InHand /\ ~InHand'
    BY <1>3 DEF SaveState, Return, InHand
  <2> QED
    BY <2>1, StutterStep DEF SamePlaces, history
<1>4. CASE Tick \/ SetBack \/ Damage \/ LoseAccess \/ RegainAccess \/ UNCHANGED vars
  <2>1. UNCHANGED <<spool, aside, history, pc, cur>>
    BY <1>4 DEF Tick, SetBack, Damage, LoseAccess, RegainAccess, vars, run, files
  <2> QED
    BY <2>1, StutterStep DEF SamePlaces, InHand, history
<1>5. ASSUME NEW s \in Callers, Start(s)  PROVE DeliveryStep
  <2>1. UNCHANGED <<spool, aside, history>> /\ ~InHand /\ ~InHand'
    BY <1>5 DEF Start, InHand, files
  <2> QED
    BY <2>1, StutterStep DEF SamePlaces, history
<1> QED
  BY <1>1, <1>2, <1>3, <1>4, <1>5, SettleStep, AnswerStep, SignStep, DeliverStep, StoreStep,
     DropStep, LoseStep
  DEF Next, Flush, Work, Environment

\* Every behavior of the agent, faults included, is one that Delivery allows: an
\* envelope is never sent and forgotten, never leaves the queue without a definitive
\* answer unless the queue was over its limit or its file damaged, and its fate agrees
\* with the service's last definitive answer.
THEOREM KeepsItsPromise == Spec => DeliveryContract
<1>1. Init => Contract!Init
  <2> SUFFICES ASSUME Init  PROVE Contract!Init
    OBVIOUS
  <2>1. \A n : n \notin Numbers(made) /\ n \notin Numbers(uploaded) /\ n \notin Numbers(rejected)
    BY DEF Init, Numbers
  <2>2. \A n : Fate(n) = "none" /\ Answered(n) = "none"
    BY <2>1 DEF Fate, Answered
  <2> QED
    BY <2>2 DEF Contract!Init
<1>2. Facts /\ Facts' /\ [Next]_vars
      => [Contract!Next]_<<[n \in 1..MaxEnvelopes |-> Fate(n)],
                           [n \in 1..MaxEnvelopes |-> Answered(n)]>>
  BY EveryStepKeepsIt DEF DeliveryStep, Fates, LastAnswers, Ids
<1>3. TypeOK /\ Numbered /\ SnapshotIsQueue /\ WellFounded /\ InOnePlace /\ EnvelopesFit
      => Facts
  BY MappingIsPointwise DEF Facts
<1> QED
  BY <1>1, <1>2, <1>3, TypeCorrect, NumbersIdentify, SnapshotKept, MemoryIsWellFounded,
     PlacesAreDisjoint, EveryEnvelopeFits, PTL
  DEF Spec, DeliveryContract, Contract!Spec

=============================================================================
