------------------------------ MODULE Computer ------------------------------
(***************************************************************************)
(* One computer through several connections: what Connection leaves open   *)
(* between the start of `report` or `run` and its end, and the files that  *)
(* survive a disconnect (the queue, agent-state.json, last-report.json)    *)
(* while the identity and the pairing do not.  Processes load the identity *)
(* before they take the collector lock and keep it for as long as they     *)
(* live, so that a resident `run` goes on under an identity that was       *)
(* signed off or replaced meanwhile.  The lock excludes here               *)
(* (CollectorLock says when), and a run is coarser than in Agent: a step   *)
(* sends one envelope or does the file work that follows.                  *)
(***************************************************************************)
EXTENDS Connection, Sequences

CONSTANTS
  Manual,     \* the Reporters that are `report`; the others are `run`
  Scheduled,  \* what the schedule makes by itself: full reports, heartbeats
  MaxItems    \* Spool.MaxItems (96)

ASSUME ManualReports == Manual \subseteq Reporters
ASSUME ScheduledAreSent == Scheduled \subseteq Sendings
ASSUME QueueIsPositive == MaxItems \in Nat \ {0}
ASSUME LockIsNoProcess == {"free", "left"} \cap Reporters = {}

VARIABLES
  lock,      \* who holds the lock file; "free", or "left" by a process that died
  step,      \* where the run of that process is
  due,       \* what it has to send
  cur,       \* the envelope in its hand
  verdict,   \* what Classify made of the answer to it
  queue,     \* the envelopes in the queue directory, oldest first
  made,      \* agent-state.json: what is recorded as made in its current period
  last       \* last-report.json: the delivery it states, and what became of that report

run  == <<lock, step, due, cur, verdict>>
kept == <<queue, made, last>>
all  == <<vars, run, kept>>

\* An envelope is signed by an identity; the service may have taken it, and
\* last-report.json may describe it.
Envelope(i) == [by |-> i, taken |-> FALSE, latest |-> FALSE]

Nothing == [by |-> None, taken |-> FALSE, latest |-> FALSE]

ComputerInit ==
  /\ Init
  /\ lock = "free" /\ step = "none" /\ due = {} /\ cur = Nothing /\ verdict = "queued"
  /\ queue = <<>> /\ made = {}
  /\ last = [delivery |-> "none", taken |-> FALSE]

------------------------------------------------------------------------------
(* The service.                                                             *)

Duplicate == 409

\* One Send of e: the service takes an envelope once, signed by a device it has
\* registered; it refuses it, does not answer, or its acknowledgement is lost.
Post(e, status, taken) ==
  /\ Truthful(status, e.by)
  /\ status = Duplicate => e.taken
  /\ \/ Success(status) /\ ~e.taken /\ taken /\ UNCHANGED faults
     \/ ~Success(status) /\ taken = e.taken /\ UNCHANGED faults
     \/ /\ status = 0 /\ Fault("answer")
        /\ registration[e.by] = "active" /\ ~e.taken /\ taken

------------------------------------------------------------------------------
(* A run, by the process that holds the lock.                               *)

At(p, where) == pc[p] = "report" /\ lock = p /\ step = where

\* Slip: whatever the service does not take is tried again.
Delivery_Retried(status) == IF Success(status) THEN "uploaded" ELSE "queued"

\* reportSender.Send and Classify: a success is one whatever its body.
Delivery(status) == Classify(status)

\* Slip: the delivery of a full report does not replace the default.
TickSummary_Default(full, heartbeat, queued) ==
  IF full # "none" THEN Line("uploaded", "full")
  ELSE IF heartbeat # "none" THEN Line(heartbeat, "heartbeat")
  ELSE Line(IF queued > 0 THEN "queued" ELSE "uploaded", "nothing")

\* The line of a run: what became of the full report, or else of the heartbeat; of a run
\* that made neither, whether anything waits.
TickSummary(full, heartbeat, queued) ==
  IF full # "none" THEN Line(full, "full")
  ELSE IF heartbeat # "none" THEN Line(heartbeat, "heartbeat")
  ELSE Line(IF queued > 0 THEN "queued" ELSE "uploaded", "nothing")

\* The lock is released, and what waits in the queue not counted yet.
Counting == Line("counting", "nothing")

\* AcquireLock, once the file of a dead process is stale.
Begin(p) ==
  /\ pc[p] = "report" /\ told[p] # Counting /\ lock \in {"free", "left"}
  /\ lock' = p /\ step' = "flush"
  /\ told' = [told EXCEPT ![p] = Silent]
  /\ UNCHANGED <<pc, dev, files, registration, history, faults, due, cur, verdict, kept>>

\* The wait for the lock is over, whoever left the file: `report` and `run --once` end,
\* `run` tries again.
Busy(p) ==
  /\ pc[p] = "report" /\ told[p] # Counting /\ lock \notin {"free", p}
  /\ Exit(p)
  /\ UNCHANGED <<files, registration, history, faults, run, kept>>

FlushSend(p, status) ==
  /\ At(p, "flush") /\ queue # <<>>
  /\ \E taken \in BOOLEAN : /\ Post(Head(queue), status, taken)
                           /\ queue' = [queue EXCEPT ![1].taken = taken]
  /\ verdict' = Delivery(status)
  /\ step' = IF Delivery(status) = "queued" THEN "due" ELSE "settle"
  /\ UNCHANGED <<pc, dev, files, registration, history, told, lock, due, cur, made, last>>

\* Slip: last-report.json is taken to describe whatever was queued.
LastIsLate_Any == TRUE

LastIsLate == Head(queue).latest

\* Spool.Remove and updateLastReport.
Settle(p) ==
  /\ At(p, "settle")
  /\ queue' = Tail(queue)
  /\ last' = [delivery |-> IF LastIsLate THEN verdict ELSE last.delivery,
              taken    |-> IF Head(queue).latest THEN Head(queue).taken ELSE last.taken]
  /\ step' = "flush" /\ verdict' = "queued"
  /\ UNCHANGED <<vars, lock, due, cur, made>>

Unlock == lock' = "free" /\ step' = "none" /\ due' = {} /\ cur' = Nothing /\ verdict' = "queued"

\* The lock is released; `report` and `run --once` end, `run` sleeps for a minute.
Finish(p) ==
  /\ Unlock
  /\ \/ Exit(p)
     \/ p \notin Manual /\ UNCHANGED <<pc, dev, told>>

\* Slip: a device that was refused makes no full report any more.
Due_GivesUp(p) ==
  (Scheduled \ (made \cup IF last.delivery = "rejected" THEN {"full"} ELSE {}))
    \cup IF p \in Manual THEN {"full"} ELSE {}

\* Evaluate: `report` always makes a full report, `run` one a period; either sends a
\* heartbeat when its period is over.
Due(p) == (Scheduled \ made) \cup IF p \in Manual THEN {"full"} ELSE {}

\* The flush has come to its end, or to an envelope that stays.
Flushed(p) == At(p, "due") \/ (At(p, "flush") /\ queue = <<>>)

NothingDue(p) ==
  /\ Flushed(p) /\ Due(p) = {}
  /\ Unlock
  /\ told' = [told EXCEPT ![p] = Counting]
  /\ UNCHANGED <<pc, dev, files, registration, history, faults, kept>>

\* Spool.Count runs after the lock is released, and then the line is printed.
Tell(p) ==
  /\ told[p] = Counting
  /\ told' = [told EXCEPT ![p] = TickSummary("none", "none", Len(queue))]
  /\ UNCHANGED <<pc, dev, files, registration, history, faults, run, kept>>

\* `run --once` ends with its line.
Once(p) ==
  /\ pc[p] = "report" /\ lock # p /\ told[p].of = "nothing" /\ told[p].says \in Verdicts
  /\ Exit(p)
  /\ UNCHANGED <<files, registration, history, faults, run, kept>>

\* The full report comes first.
Collect(p) ==
  /\ Flushed(p) /\ "full" \in Due(p)
  /\ due' = Due(p)
  /\ cur' = Envelope(dev[p])
  /\ step' = "send"
  /\ UNCHANGED <<vars, lock, verdict, kept>>

Heartbeat(p) ==
  /\ Flushed(p) /\ Due(p) = {"heartbeat"}
  /\ due' = Due(p)
  /\ cur' = Envelope(dev[p])
  /\ step' = "beat"
  /\ UNCHANGED <<vars, lock, verdict, kept>>

\* What becomes of the full report, or of the heartbeat after it, settles the line.
Send(p, status) ==
  /\ At(p, "send") \/ At(p, "beat")
  /\ \E taken \in BOOLEAN : Post(cur, status, taken) /\ cur' = [cur EXCEPT !.taken = taken]
  /\ verdict' = Delivery(status)
  /\ told' = [told EXCEPT ![p] =
       IF step = "send"       THEN TickSummary(Delivery(status), "none", Len(queue))
       ELSE IF "full" \in due THEN TickSummary(@.says, Delivery(status), Len(queue))
                              ELSE TickSummary("none", Delivery(status), Len(queue))]
  /\ step' = IF step = "send" THEN "store" ELSE "keep"
  /\ UNCHANGED <<pc, dev, files, registration, history, lock, due, kept>>

\* Slip: what was delivered is queued as well.
Waits_Always == verdict # "rejected"

Waits == verdict = "queued"

\* Spool.Queue with its trim.
Queued(e) == LET s == Append(queue, e)
             IN  IF Len(s) > MaxItems THEN Tail(s) ELSE s

\* From the moment SaveLastReport is done, last-report.json describes the new report.
Only(s) == [i \in DOMAIN s |-> [s[i] EXCEPT !.latest = Waits /\ i = Len(s)]]

Deliver    == queue' = IF Waits THEN Queued(cur) ELSE queue
SaveReport == /\ queue' = Only(IF Waits THEN Queued(cur) ELSE queue)
              /\ last' = [delivery |-> verdict, taken |-> cur.taken]

\* The rest of deliver and SaveLastReport; then the heartbeat, or saveState.
Store(p) ==
  /\ At(p, "store")
  /\ SaveReport
  /\ \/ /\ "heartbeat" \in due
        /\ step' = "beat" /\ cur' = Envelope(dev[p]) /\ verdict' = "queued"
        /\ UNCHANGED <<pc, dev, told, lock, due, made>>
     \/ /\ "heartbeat" \notin due
        /\ made' = made \cup due
        /\ Finish(p)
  /\ UNCHANGED <<files, registration, history, faults>>

\* The same of a heartbeat, which last-report.json does not mention.
Keep(p) ==
  /\ At(p, "keep")
  /\ Deliver
  /\ made' = made \cup due
  /\ Finish(p)
  /\ UNCHANGED <<files, registration, history, faults, last>>

\* What a run that breaks off leaves of what it was about to write.
Broken ==
  \/ UNCHANGED kept
  \/ step = "settle" /\ queue' = Tail(queue) /\ UNCHANGED <<made, last>>
  \/ step \in {"store", "keep"} /\ Deliver /\ UNCHANGED <<made, last>>
  \/ step = "store" /\ SaveReport /\ UNCHANGED made

\* A file operation fails: the run ends with the error, and so does its process.
RunFails(p) ==
  /\ lock = p /\ step \in {"flush", "settle", "due", "store", "keep"}
  /\ Fault("error")
  /\ Exit(p) /\ Unlock
  /\ Broken
  /\ UNCHANGED <<files, registration, history>>

\* A process dies; its lock file stays until it is stale.
Die(p) ==
  /\ Crash(p)
  /\ IF lock = p
       THEN /\ Broken
            /\ lock' = "left" /\ step' = "none" /\ due' = {} /\ cur' = Nothing /\ verdict' = "queued"
       ELSE UNCHANGED <<run, kept>>

\* A period is over.
Elapse(what) ==
  /\ what \in made /\ made' = made \ {what}
  /\ UNCHANGED <<vars, run, queue, last>>

------------------------------------------------------------------------------
\* What goes on in a run without anybody's help.
Run(p) ==
  \/ Settle(p) \/ NothingDue(p) \/ Tell(p) \/ Collect(p) \/ Heartbeat(p) \/ Store(p) \/ Keep(p)
  \/ \E status \in Answers : FlushSend(p, status) \/ Send(p, status)

\* The commands that connect and disconnect know nothing of the other files.
Connecting(p) ==
  /\ \/ Create(p) \/ Asked(p) \/ Truncate(p) \/ Write(p) \/ Unpair(p) \/ Forget(p)
     \/ Pair(p) \/ Callback(p) \/ Disconnect(p) \/ WriteFails(p) \/ Configure(p)
  /\ UNCHANGED <<run, kept>>

ComputerNext ==
  \/ \E p \in Procs : Connecting(p) \/ Die(p)
  \/ \E p \in Reporters : Begin(p) \/ Busy(p) \/ Run(p) \/ RunFails(p) \/ Once(p)
  \/ \E i \in Ids : Deactivate(i) /\ UNCHANGED <<run, kept>>
  \/ \E what \in Scheduled : Elapse(what)

ComputerSpec == ComputerInit /\ [][ComputerNext]_all

\* Commands and runs that started go on, and time passes.
ComputerLiveSpec ==
  /\ ComputerSpec
  /\ \A p \in Shells : WF_vars(Step(p))
  /\ \A p \in Reporters : WF_all(Run(p))
  /\ \A what \in Scheduled : WF_all(Elapse(what))

=============================================================================
