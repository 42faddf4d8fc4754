--------------------------- MODULE AgentProperties ---------------------------
(***************************************************************************)
(* The properties of Agent, and the mapping under which it implements      *)
(* Delivery.                                                               *)
(***************************************************************************)
EXTENDS Agent

Numbers(S) == {e.n : e \in S}

\* The envelope in hand has been signed and is not settled or queued yet.
InHand == pc \in {"send", "queue"}

\* The steps that work on the envelope in hand.
Holding == pc \in {"remove", "update", "send", "queue", "trim", "drop", "saveLast"}

------------------------------------------------------------------------------
\* Every variable holds a value of its kind.
TypeOK ==
  /\ clock \in Nat /\ now \in Nat /\ signed \in Nat /\ faults \in Nat
  /\ pc \in Steps /\ src \in Sources /\ verdict \in Verdicts
  /\ due \in [full : BOOLEAN, heartbeat : BOOLEAN]
  /\ state \in [full : Nat, heartbeat : Nat]
  /\ stateFile \in [full : Nat, heartbeat : Nat]
  /\ lastReport \in [n : Nat, delivery : Verdicts \cup {"none"}]
  /\ made \subseteq Envelope
  /\ cur \in made \cup {NoEnvelope} /\ (Holding => cur \in made)
  /\ pending \subseteq made /\ spool \subseteq made /\ aside \subseteq made
  /\ skipped \subseteq made /\ damaged \subseteq spool /\ stuck \subseteq spool
  /\ accepted \subseteq made /\ uploaded \subseteq accepted
  /\ rejected \subseteq made /\ trimmed \subseteq made
  /\ told \in {"nothing", "done", "error", "died"}

\* Every envelope that was answered, waits, or left the queue unsent.
Accounted == uploaded \cup rejected \cup spool \cup aside \cup trimmed

\* The times of a scheduler state are those of envelopes in S.
Backs(S, times) ==
  \A kind \in Kinds : times[kind] # Never =>
    \E e \in S : e.kind = kind /\ e.at = times[kind]

\* The time a report or heartbeat is remembered as sent (agent-state.json) is the
\* time of one that exists: the service answered it, or it waits in the queue,
\* or it was set aside or dropped from there.  A run that is interrupted between
\* sending, queueing and saving never makes the schedule skip a report.
StateBackedByEvidence == Backs(Accounted, stateFile)

\* last-report.json says uploaded only of a report the service holds, and
\* rejected only of one it refused; one it calls queued waits, or was set aside or
\* dropped from the queue, or was answered since.
LastReportHonest ==
  CASE lastReport.delivery = "uploaded" -> lastReport.n \in Numbers(uploaded \cap accepted)
    [] lastReport.delivery = "rejected" -> lastReport.n \in Numbers(rejected)
    [] lastReport.delivery = "queued"   -> lastReport.n \in Numbers(Accounted)
    [] OTHER -> TRUE

\* The queue is over its limit only while Queue is trimming it, plus one file for
\* every run that was interrupted there and for every file trim could not read.
QueueBounded ==
  Cardinality(spool) <= MaxItems + faults + (IF pc \in {"trim", "drop"} THEN 1 ELSE 0)

\* flush keeps the order ("oldest queued reports first"): when an envelope leaves the
\* queue as sent, an older one is left behind only if Pending could not read it when
\* flush looked.
FlushKeepsOrder ==
  pc = "remove" => \A e \in spool \ {cur} : Before(e, cur) => e \in skipped

\* What the service could not take is "retried in order" (SPEC.md:182): nothing older
\* than what leaves the queue as sent is left behind in it.
RetriedInOrder ==
  pc = "remove" => \A e \in spool \ {cur} : ~Before(e, cur)

\* What trim drops was collected before everything it keeps ("Bounded storage
\* favors the newest evidence").
NewestEvidenceKept ==
  \A e \in trimmed, f \in spool : e.n < f.n

\* A report the schedule asked for comes at least FullEvery after every earlier
\* full report, and heartbeats are HeartbeatEvery apart.
AtMostOncePerPeriod ==
  \A e, f \in made :
    e.n < f.n /\ e.kind = f.kind =>
      IF f.kind = "full" THEN f.src = "manual" \/ f.at >= e.at + FullEvery
                         ELSE f.at >= e.at + HeartbeatEvery

\* A refused envelope leaves the queue at once: between runs none is queued, so
\* none is ever sent again.
RejectedNeverRetried ==
  pc \in {"idle", "load", "collect", "saveState"} => spool \cap rejected = {}

\* A report last-report.json calls queued really is still on its way (or was
\* dropped to bound the queue): its late delivery is recorded by the run that
\* delivers it.
QueuedMeansWaiting ==
  lastReport.delivery = "queued" /\ pc \notin {"remove", "update"} =>
    lastReport.n \in Numbers(spool \cup aside \cup trimmed)

\* The page says "Nothing was sent to HackZero from this check" (main.js:180) when
\* the check it asked for failed.
FailedCheckSentNothing ==
  told = "error" /\ src = "manual" /\ pc = "idle" /\ now = clock =>
    \A e \in made : e.at = now /\ e.src = "manual" => e \notin accepted

------------------------------------------------------------------------------
\* Each envelope's fate, read off the files and the history.
Fate(n) ==
  IF n \notin Numbers(made)          THEN "none"
  ELSE IF n \in Numbers(spool)       THEN "queued"
  ELSE IF n \in Numbers(aside)       THEN "aside"
  ELSE IF n \in Numbers(trimmed)     THEN "dropped"
  ELSE IF n \in Numbers(uploaded)    THEN "uploaded"
  ELSE IF n \in Numbers(rejected)    THEN "rejected"
  ELSE IF InHand /\ n = cur.n        THEN "new" ELSE "lost"

Answered(n) ==
  IF n \in Numbers(uploaded) THEN "uploaded"
  ELSE IF n \in Numbers(rejected) THEN "rejected" ELSE "none"

Contract == INSTANCE Delivery WITH
  Ids    <- 1..MaxEnvelopes,
  status <- [n \in 1..MaxEnvelopes |-> Fate(n)],
  answer <- [n \in 1..MaxEnvelopes |-> Answered(n)]

\* The agent keeps the promise of Delivery about every envelope.
DeliveryContract == Contract!Spec

------------------------------------------------------------------------------
\* When the service answers the head of the queue now and then, everything in the
\* queue that can be read and verifies leaves it, whatever stays behind unreadable.
ServiceAnswers ==
  SF_vars(\E status \in Answers : Classify(status) # "queued" /\ FlushSend(status))

QueueDrains == ServiceAnswers => []<>(spool \subseteq damaged \cup stuck)

\* A due full report is made even when the service is unreachable: once the clock
\* stands at the horizon the schedule does not stay behind.
FullOverdue == clock = MaxClock /\ Evaluate(clock, stateFile, FALSE).full

OverdueReportIsMade == FullOverdue ~> ~FullOverdue

=============================================================================
