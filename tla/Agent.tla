-------------------------------- MODULE Agent --------------------------------
(***************************************************************************)
(* internal/agent: one Runner and the files it keeps.  A run retries the   *)
(* queued envelopes, loads the scheduler state, sends the full report and  *)
(* the heartbeat that are due, queues what the service could not take, and *)
(* saves last-report.json and the scheduler state.                         *)
(*                                                                         *)
(* Every step below ends where the code touches the network or the disk,   *)
(* so that a run can be interrupted between any two of them.  Runs do not  *)
(* overlap here: CollectorLock says when that assumption holds.            *)
(***************************************************************************)
EXTENDS Schedule, Spool, Statuses, FiniteSets

CONSTANTS
  MaxItems,       \* Spool.MaxItems (96)
  Answers,        \* the HTTP statuses the service may answer, 0 for none
  Callers,        \* who starts runs: the schedule, "check now", or both
  FaultKinds,     \* the kinds of fault this instance meets
  MaxFaults,      \* bound: how many faults
  MaxClock,       \* bound: the horizon of the clock
  MaxEnvelopes    \* bound: how many envelopes are ever signed

ASSUME QueueIsPositive   == MaxItems \in Nat \ {0}
ASSUME AnswersAreHTTP    == Answers \subseteq {0} \cup 100..599
ASSUME CallersAreSources == Callers \subseteq Sources
ASSUME BoundsAreNaturals == /\ MaxFaults \in Nat
                            /\ MaxClock \in Nat \ {0}
                            /\ MaxEnvelopes \in Nat

VARIABLES
  clock,        \* the computer's clock
  pc,           \* where the run is
  src,          \* Runner.Source of the current or last run
  now,          \* the instant that run read
  due,          \* what Evaluate found due
  state,        \* the scheduler state being built in memory
  pending,      \* the rest of the Pending() snapshot being worked through
  skipped,      \* the files that Pending() passed over when it made the snapshot
  cur,          \* the envelope in hand
  verdict,      \* what Classify made of the answer to cur
  spool,        \* the *.json files of the queue directory
  damaged,      \* those of them that no longer verify
  stuck,        \* those that can at present be neither read nor moved aside
  aside,        \* the *.corrupt files
  stateFile,    \* agent-state.json
  lastReport,   \* last-report.json
  accepted,     \* the envelopes the service holds
  signed,       \* how many envelopes were signed
  made,         \* history: those envelopes
  uploaded,     \* history: those whose last definitive answer was a 2xx
  rejected,     \* history: those whose last definitive answer was a refusal
  trimmed,      \* history: those dropped to bound the queue
  told,         \* how the last run ended for its caller
  faults        \* how many faults happened

run     == <<pc, src, now, due, state, pending, skipped, cur, verdict>>
files   == <<spool, damaged, stuck, aside, stateFile, lastReport>>
history == <<signed, made, uploaded, rejected, trimmed>>
vars    == <<clock, run, files, accepted, history, told, faults>>

------------------------------------------------------------------------------
(* Vocabulary.                                                              *)

NoState    == [full |-> Never, heartbeat |-> Never]
NothingDue == [full |-> FALSE, heartbeat |-> FALSE]
NoReport   == [n |-> 0, delivery |-> "none"]
NoEnvelope == [n |-> 0, kind |-> "none", at |-> 0, src |-> "none"]

Steps == {"idle", "scan", "flush", "remove", "update", "load", "collect",
          "send", "queue", "trim", "drop", "saveLast", "saveState"}

\* Slips: the limit off by one, either way.
OverLimit_Late(S)  == Cardinality(S) > MaxItems + 1
OverLimit_Early(S) == Cardinality(S) >= MaxItems

OverLimit(S) == Cardinality(S) > MaxItems

\* Slips: any queued report is taken for this one; only an upload is recorded.
LastIsLate_Any     == lastReport.delivery = "queued"
LastIsLate_Upload  == lastReport.delivery = "queued" /\ lastReport.n = cur.n
                                                     /\ verdict = "uploaded"

\* last-report.json describes the envelope in hand and calls it queued.
LastIsLate == lastReport.delivery = "queued" /\ lastReport.n = cur.n

\* A full report that was delivered or queued counts as made, ...
WithFull == [state EXCEPT !.full = now]

\* Slip: a heartbeat counts as a full report.
WithHeartbeat_AsFull == IF cur.kind = "full" THEN state
                                             ELSE [full |-> now, heartbeat |-> now]

\* ... and so does a heartbeat.
WithHeartbeat == IF cur.kind = "full" THEN state ELSE [state EXCEPT !.heartbeat = now]

------------------------------------------------------------------------------
Init ==
  /\ clock = 1
  /\ pc = "idle" /\ src = "background" /\ now = Never
  /\ due = NothingDue /\ state = NoState
  /\ pending = {} /\ skipped = {} /\ cur = NoEnvelope /\ verdict = "queued"
  /\ spool = {} /\ damaged = {} /\ stuck = {} /\ aside = {}
  /\ stateFile = NoState /\ lastReport = NoReport
  /\ accepted = {}
  /\ signed = 0 /\ made = {} /\ uploaded = {} /\ rejected = {} /\ trimmed = {}
  /\ told = "nothing" /\ faults = 0

------------------------------------------------------------------------------
(* The queue, as the agent uses it.                                         *)

\* Pending(): a file that cannot be read is passed over and stays, as does one that
\* no longer verifies and cannot be renamed; the others that do not verify are
\* renamed aside, and what is left is the snapshot the caller works through.
Scan ==
  /\ pending' = spool \ (damaged \cup stuck)
  /\ skipped' = stuck
  /\ spool' = spool \ (damaged \ stuck)
  /\ aside' = aside \cup (damaged \ stuck)
  /\ damaged' = damaged \cap stuck
  /\ UNCHANGED stuck

\* A fault of the given kind, if this instance still has one to meet.
Fault(kind) ==
  /\ kind \in FaultKinds
  /\ faults < MaxFaults
  /\ faults' = faults + 1

\* What the service and the client come to know from one Send of e.  The service
\* holds an envelope it acknowledged; it also holds one whose acknowledgement
\* was lost, which the client cannot tell from a failure.
Exchange(e, status) ==
  /\ verdict' = Classify(status)
  /\ uploaded' = IF Success(status) THEN uploaded \cup {e}
                 ELSE IF Refusal(status) THEN uploaded \ {e} ELSE uploaded
  /\ rejected' = IF Refusal(status) THEN rejected \cup {e}
                 ELSE IF Success(status) THEN rejected \ {e} ELSE rejected
  /\ \/ /\ accepted' = IF Success(status) THEN accepted \cup {e} ELSE accepted
        /\ UNCHANGED faults
     \/ /\ StaysQueued(status)
        /\ Fault("answer")
        /\ accepted' = accepted \cup {e}

------------------------------------------------------------------------------
(* flush: queued envelopes first.                                           *)

\* Two runs read two different instants, except at the horizon of the model,
\* where the background run goes on flushing.
Start(s) ==
  /\ pc = "idle"
  /\ now < clock \/ (clock = MaxClock /\ s = "background")
  /\ signed + 2 <= MaxEnvelopes
  /\ pc' = "scan" /\ src' = s
  /\ UNCHANGED <<clock, now, due, state, pending, skipped, cur, verdict, files, accepted,
                 history, told, faults>>

FlushScan ==
  /\ pc = "scan"
  /\ pc' = "flush"
  /\ Scan
  /\ UNCHANGED <<clock, src, now, due, state, cur, verdict, stateFile, lastReport,
                 accepted, history, told, faults>>

FlushSend(status) ==
  /\ pc = "flush"
  /\ \E e \in pending :
       /\ IsOldest(e, pending)
       /\ Exchange(e, status)
       /\ cur' = e
       /\ IF StaysQueued(status)
            THEN pc' = "load" /\ pending' = {}
            ELSE pc' = "remove" /\ pending' = pending \ {e}
  /\ UNCHANGED <<clock, src, now, due, state, skipped, files, signed, made, trimmed, told>>

FlushDone ==
  /\ pc = "flush" /\ pending = {}
  /\ pc' = "load"
  /\ UNCHANGED <<clock, src, now, due, state, pending, skipped, cur, verdict, files,
                 accepted, history, told, faults>>

Remove ==
  /\ pc = "remove"
  /\ spool' = spool \ {cur}
  /\ damaged' = damaged \ {cur} /\ stuck' = stuck \ {cur}
  /\ pc' = IF cur.kind = "full" THEN "update" ELSE "flush"
  /\ UNCHANGED <<clock, src, now, due, state, pending, skipped, cur, verdict, aside,
                 stateFile, lastReport, accepted, history, told, faults>>

\* updateLastReport: only the report that last-report.json still calls queued.
UpdateLast ==
  /\ pc = "update"
  /\ pc' = "flush"
  /\ lastReport' = IF LastIsLate
                     THEN [lastReport EXCEPT !.delivery = verdict]
                     ELSE lastReport
  /\ UNCHANGED <<clock, src, now, due, state, pending, skipped, cur, verdict, spool, damaged,
                 stuck, aside, stateFile, accepted, history, told, faults>>

------------------------------------------------------------------------------
(* Work that is due.                                                        *)

\* Slip: nothing new is made while older work waits.
Due_QueueFirst ==
  IF spool = {} THEN Evaluate(clock, stateFile, src = "manual") ELSE NothingDue

Due == Evaluate(clock, stateFile, src = "manual")

Load ==
  /\ pc = "load"
  /\ now' = clock
  /\ state' = stateFile
  /\ due' = Due
  /\ pc' = IF due'.full \/ due'.heartbeat THEN "collect" ELSE "saveState"
  /\ cur' = NoEnvelope /\ verdict' = "queued"
  /\ UNCHANGED <<clock, src, pending, skipped, files, accepted, history, told, faults>>

\* Build and sign the next envelope: the full report if it is still to be made,
\* the heartbeat otherwise.
Collect ==
  /\ pc = "collect"
  /\ LET e == [n |-> signed + 1,
               kind |-> IF due.full THEN "full" ELSE "heartbeat",
               at |-> now, src |-> src]
     IN  cur' = e /\ made' = made \cup {e}
  /\ signed' = signed + 1
  /\ pc' = "send"
  /\ UNCHANGED <<clock, src, now, due, state, pending, skipped, verdict, files, accepted,
                 uploaded, rejected, trimmed, told, faults>>

\* Where deliver returns to: a full report is recorded in last-report.json.
Delivered == IF cur.kind = "full" THEN "saveLast" ELSE "saveState"

Send(status) ==
  /\ pc = "send"
  /\ Exchange(cur, status)
  /\ IF StaysQueued(status)
       THEN pc' = "queue" /\ UNCHANGED state
       ELSE pc' = Delivered /\ state' = WithHeartbeat
  /\ UNCHANGED <<clock, src, now, due, pending, skipped, cur, files, signed, made, trimmed,
                 told>>

\* Spool.Queue up to its rename.
Queue ==
  /\ pc = "queue"
  /\ spool' = spool \cup {cur}
  /\ pc' = "trim"
  /\ UNCHANGED <<clock, src, now, due, state, pending, skipped, cur, verdict, damaged, stuck,
                 aside, stateFile, lastReport, accepted, history, told, faults>>

TrimScan ==
  /\ pc = "trim"
  /\ pc' = "drop"
  /\ Scan
  /\ UNCHANGED <<clock, src, now, due, state, cur, verdict, stateFile, lastReport,
                 accepted, history, told, faults>>

TrimDrop ==
  /\ pc = "drop" /\ OverLimit(pending)
  /\ \E e \in pending :
       /\ IsOldest(e, pending)
       /\ pending' = pending \ {e}
       /\ spool' = spool \ {e}
       /\ damaged' = damaged \ {e} /\ stuck' = stuck \ {e}
       /\ trimmed' = trimmed \cup {e}
  /\ UNCHANGED <<clock, pc, src, now, due, state, skipped, cur, verdict, aside, stateFile,
                 lastReport, accepted, signed, made, uploaded, rejected, told, faults>>

TrimDone ==
  /\ pc = "drop" /\ ~OverLimit(pending)
  /\ pending' = {}
  /\ pc' = Delivered /\ state' = WithHeartbeat
  /\ UNCHANGED <<clock, src, now, due, skipped, cur, verdict, files, accepted, history,
                 told, faults>>

SaveLast ==
  /\ pc = "saveLast"
  /\ state' = WithFull
  /\ lastReport' = [n |-> cur.n, delivery |-> verdict]
  /\ due' = [due EXCEPT !.full = FALSE]
  /\ pc' = IF due.heartbeat THEN "collect" ELSE "saveState"
  /\ UNCHANGED <<clock, src, now, pending, skipped, cur, verdict, spool, damaged, stuck,
                 aside, stateFile, accepted, history, told, faults>>

------------------------------------------------------------------------------
(* The end of a run.                                                        *)

\* The caller gets what; everything in memory is gone.
Return(what) ==
  /\ pc' = "idle" /\ told' = what
  /\ due' = NothingDue /\ state' = NoState
  /\ pending' = {} /\ skipped' = {} /\ cur' = NoEnvelope /\ verdict' = "queued"
  /\ UNCHANGED <<clock, src, now, accepted, history>>

SaveState ==
  /\ pc = "saveState"
  /\ stateFile' = state
  /\ Return("done")
  /\ UNCHANGED <<spool, damaged, stuck, aside, lastReport, faults>>

\* A file operation fails and Run returns the error at once.
Fail ==
  /\ pc \in {"scan", "remove", "queue", "trim", "drop", "saveLast", "saveState"}
  /\ Fault("error")
  /\ Return("error")
  /\ UNCHANGED files

\* updateLastReport is best effort: its failure is not even noticed.
UpdateLastFails ==
  /\ pc = "update"
  /\ Fault("error")
  /\ pc' = "flush"
  /\ UNCHANGED <<clock, src, now, due, state, pending, skipped, cur, verdict, files, accepted,
                 history, told>>

Crash ==
  /\ pc # "idle"
  /\ Fault("crash")
  /\ Return("died")
  /\ UNCHANGED files

------------------------------------------------------------------------------
(* The computer.                                                            *)

\* Only Load reads the clock, so it may as well stand still during a run.
Tick ==
  /\ pc = "idle" /\ clock < MaxClock
  /\ clock' = clock + 1
  /\ UNCHANGED <<run, files, accepted, history, told, faults>>

\* The wall clock is set back.
SetBack ==
  /\ pc = "idle"
  /\ Fault("clock")
  /\ clock' \in 1..(clock - 1)
  /\ now' = Never
  /\ UNCHANGED <<pc, src, due, state, pending, skipped, cur, verdict, files, accepted,
                 history, told>>

\* A file is damaged behind the program's back, a queued one perhaps so that it
\* cannot be moved aside either.
Damage ==
  /\ Fault("damage")
  /\ \/ /\ \E e \in spool \ damaged :
             damaged' = damaged \cup {e} /\ stuck' \in {stuck, stuck \cup {e}}
        /\ UNCHANGED <<stateFile, lastReport>>
     \/ /\ stateFile' = NoState
        /\ UNCHANGED <<damaged, stuck, lastReport>>
     \/ /\ lastReport' = NoReport
        /\ UNCHANGED <<damaged, stuck, stateFile>>
  /\ UNCHANGED <<clock, run, spool, aside, accepted, history, told>>

\* Only Pending asks whether a file can be read, so that may as well change just
\* before it does.
Looking == pc \in {"scan", "trim"}

\* A queued file cannot be read (another program holds it open, say) ...
LoseAccess ==
  /\ Looking
  /\ Fault("unread")
  /\ \E e \in spool \ stuck : stuck' = stuck \cup {e}
  /\ UNCHANGED <<clock, run, spool, damaged, aside, stateFile, lastReport, accepted,
                 history, told>>

\* ... and can be again.
RegainAccess ==
  /\ Looking
  /\ \E e \in stuck : stuck' = stuck \ {e}
  /\ UNCHANGED <<clock, run, spool, damaged, aside, stateFile, lastReport, accepted,
                 history, told, faults>>

------------------------------------------------------------------------------
Flush ==
  \/ FlushScan \/ FlushDone \/ Remove \/ UpdateLast
  \/ \E status \in Answers : FlushSend(status)

Work ==
  \/ Load \/ Collect \/ Queue \/ TrimScan \/ TrimDrop \/ TrimDone \/ SaveLast
  \/ SaveState
  \/ \E status \in Answers : Send(status)

Environment ==
  \/ Fail \/ UpdateLastFails \/ Crash \/ Tick \/ SetBack \/ Damage
  \/ LoseAccess \/ RegainAccess

Next == Flush \/ Work \/ Environment \/ \E s \in Callers : Start(s)

Spec == Init /\ [][Next]_vars

\* A run that started goes on, the background schedule keeps starting runs,
\* and time passes.
Fairness ==
  /\ WF_vars(Flush \/ Work)
  /\ WF_vars(Start("background"))
  /\ WF_vars(Tick)

LiveSpec == Spec /\ Fairness

=============================================================================
