--------------------------- MODULE ComputerProofs ---------------------------
(***************************************************************************)
(* Computer implements Connection, for any number of processes and faults  *)
(* and any length of the queue, and inherits what ConnectionProofs shows.  *)
(***************************************************************************)
EXTENDS ComputerProperties, ConnectionProofs, FiniteSetTheorems

\* The process that holds the lock is in a run, and works under the identity it signs
\* with; once its full report is sent, its line is settled.
HandIsOwn ==
  \A p \in Reporters : lock = p =>
    /\ pc[p] = "report" /\ told[p] # Counting
    /\ step \in {"send", "store", "beat", "keep"} => cur.by = dev[p]
    /\ step = "send" => "full" \in due
    /\ step = "store" \/ (step = "beat" /\ "full" \in due)
         => \E says \in Verdicts : told[p] = Line(says, "full")

\* Only a process in its run has a queue to count.
CountsInReport == \A p \in Procs : told[p] = Counting => pc[p] = "report"

IInv == TypeOK /\ HandIsOwn /\ CountsInReport

\* The line of a run is settled when its full report, or else its heartbeat, is sent.
LEMMA SendSettles ==
  ASSUME NEW p \in Reporters, IInv, NEW status \in Answers, Send(p, status)
  PROVE  /\ Delivery(status) \in Verdicts
         /\ step = "send" => told' = [told EXCEPT ![p] = Line(Delivery(status), "full")]
         /\ step = "beat" =>
              \/ told' = told
              \/ told' = [told EXCEPT ![p] = Line(Delivery(status), "heartbeat")]
<1>1. Delivery(status) \in Verdicts
  BY DEF Delivery, Classify, Verdicts
<1>2. ASSUME step = "send"  PROVE told' = [told EXCEPT ![p] = Line(Delivery(status), "full")]
  BY <1>1, <1>2 DEF Send, TickSummary, Verdicts
<1>3. ASSUME step = "beat", "full" \in due  PROVE told' = told
  <2>1. PICK says \in Verdicts : told[p] = Line(says, "full")
    BY <1>3 DEF Send, At, IInv, HandIsOwn
  <2>2. TickSummary(told[p].says, Delivery(status), Len(queue)) = told[p]
    BY <2>1 DEF TickSummary, Line, Verdicts
  <2>3. told \in [Procs -> Lines]
    BY DEF IInv, TypeOK
  <2> QED
    BY <1>3, <2>2, <2>3 DEF Send
<1>4. ASSUME step = "beat", "full" \notin due
      PROVE  told' = [told EXCEPT ![p] = Line(Delivery(status), "heartbeat")]
  BY <1>1, <1>4 DEF Send, TickSummary, Verdicts
<1> QED
  BY <1>1, <1>2, <1>3, <1>4

\* Whatever a run does, Connection allows it of a process that reports: its line calls
\* a report or heartbeat uploaded only when the identity that signed it is active.
LEMMA RunIsReport ==
  ASSUME NEW p \in Reporters, IInv,
         \/ Begin(p) \/ Busy(p) \/ Settle(p) \/ NothingDue(p) \/ Tell(p) \/ Once(p)
         \/ Collect(p) \/ Heartbeat(p) \/ Store(p) \/ Keep(p) \/ RunFails(p)
         \/ \E status \in Answers : FlushSend(p, status) \/ Send(p, status)
  PROVE  Report(p) \/ UNCHANGED vars
<1> USE DEF IInv, HandIsOwn, At, Flushed, Finish, Report, vars
<1>1. CASE Busy(p) \/ Once(p)
  BY <1>1 DEF Busy, Once
<1>2. CASE Settle(p) \/ Collect(p) \/ Heartbeat(p)
  BY <1>2 DEF Settle, Collect, Heartbeat
<1>3. CASE Begin(p) \/ NothingDue(p)
  BY <1>3 DEF Begin, NothingDue, Silent, Counting, Line, Lines
<1>4. CASE Store(p) \/ Keep(p)
  BY <1>4 DEF Store, Keep
<1>5. CASE RunFails(p)
  BY <1>5 DEF RunFails
<1>6. CASE Tell(p)
  <2>1. pc[p] = "report"
    BY <1>6 DEF Tell, IInv, CountsInReport, Procs
  <2>2. TickSummary("none", "none", Len(queue))
          \in {Line("queued", "nothing"), Line("uploaded", "nothing")}
    BY DEF TickSummary
  <2>3. \A says \in {"queued", "uploaded"} :
          /\ Line(says, "nothing") \in Lines
          /\ Line(says, "nothing").of \notin Sendings
    BY DEF Line, Lines, Verdicts, Sendings
  <2> QED
    BY <1>6, <2>1, <2>2, <2>3 DEF Tell
<1>7. ASSUME NEW status \in Answers, FlushSend(p, status)
      PROVE  Report(p)
  BY <1>7 DEF FlushSend, Post
<1>8. ASSUME NEW status \in Answers, Send(p, status)
      PROVE  Report(p)
  <2>1. UNCHANGED faults \/ Fault("error") \/ Fault("answer")
    BY <1>8 DEF Send, Post
  <2>2. Delivery(status) = "uploaded" => Success(status)
    BY DEF Delivery, Classify
  <2>3. Delivery(status) = "uploaded" => registration[dev[p]] = "active"
    BY <1>8, <2>2 DEF Send, Post, Truthful
  <2>4. \E of \in Sendings : told' \in {told, [told EXCEPT ![p] = Line(Delivery(status), of)]}
    BY <1>8, SendSettles DEF Send, Sendings
  <2>5. \A of \in Sendings : /\ Line(Delivery(status), of) \in Lines
                             /\ Line(Delivery(status), of).says = Delivery(status)
    BY <1>8, SendSettles DEF Line, Lines
  <2> QED
    BY <1>8, <2>1, <2>3, <2>4, <2>5 DEF Send
<1> QED
  BY <1>1, <1>2, <1>3, <1>4, <1>5, <1>6, <1>7, <1>8

\* Every step of Computer is a step of Connection, or none.
LEMMA StepsMap == IInv /\ [ComputerNext]_all => [Next]_vars
<1> SUFFICES ASSUME IInv, [ComputerNext]_all
             PROVE  [Next]_vars
  OBVIOUS
<1> USE DEF IInv, Next, Procs
<1>1. ASSUME NEW p \in Procs, Connecting(p)  PROVE Next
  BY <1>1 DEF Connecting, Step
<1>2. ASSUME NEW p \in Procs, Die(p)  PROVE Next
  BY <1>2 DEF Die
<1>3. ASSUME NEW p \in Reporters, Begin(p) \/ Busy(p) \/ Run(p) \/ RunFails(p) \/ Once(p)
      PROVE  Next \/ UNCHANGED vars
  BY <1>3, RunIsReport DEF Run, Step
<1>4. ASSUME NEW i \in Ids, Deactivate(i)  PROVE Next
  BY <1>4
<1>5. CASE (\E what \in Scheduled : Elapse(what)) \/ UNCHANGED all
  BY <1>5 DEF Elapse, all
<1> QED
  BY <1>1, <1>2, <1>3, <1>4, <1>5 DEF ComputerNext

\* The lock changes hands only when its holder ends a run, and nobody else touches
\* what the holder has loaded.
LEMMA HandStaysOwn == IInv /\ [ComputerNext]_all => HandIsOwn'
<1> SUFFICES ASSUME IInv, [ComputerNext]_all
             PROVE  HandIsOwn'
  OBVIOUS
<1> USE LockIsNoProcess, OneCommandEach
    DEF IInv, TypeOK, HandIsOwn, Procs, Goto, Exit, run, kept, vars, At, Flushed, Unlock
<1>1. ASSUME NEW p \in Procs, Connecting(p)  PROVE HandIsOwn'
  <2>1. UNCHANGED run
    BY <1>1 DEF Connecting
  <2>2. pc[p] # "report"
    BY <1>1 DEF Connecting, Create, Asked, Request, Exchange, Challenge, Revoke, Truncate,
                Write, Unpair, Forget, Pair, Callback, Disconnect, WriteFails, Configure
  <2>3. \A q \in Procs \ {p} : pc'[q] = pc[q] /\ dev'[q] = dev[q] /\ told'[q] = told[q]
    <3>1. CASE Create(p) \/ Truncate(p) \/ Write(p) \/ Unpair(p) \/ Forget(p) \/ Pair(p)
      BY <3>1 DEF Create, Truncate, Write, Unpair, Forget, Pair
    <3>2. CASE Callback(p) \/ Disconnect(p) \/ WriteFails(p) \/ Configure(p)
      BY <3>2 DEF Callback, Disconnect, WriteFails, Configure
    <3>3. CASE Asked(p)
      BY <3>3 DEF Asked, Request, Exchange, Challenge, Revoke, Proceed
    <3> QED
      BY <1>1, <3>1, <3>2, <3>3 DEF Connecting
  <2> QED
    BY <2>1, <2>2, <2>3
<1>2. ASSUME NEW p \in Procs, Die(p)  PROVE HandIsOwn'
  BY <1>2 DEF Die, Crash
<1>3. ASSUME NEW p \in Reporters, Begin(p)  PROVE HandIsOwn'
  BY <1>3 DEF Begin, Silent, Counting, Line
<1>4. ASSUME NEW p \in Reporters, Busy(p) \/ Once(p)  PROVE HandIsOwn'
  BY <1>4 DEF Busy, Once
<1>5. ASSUME NEW p \in Reporters, Settle(p)  PROVE HandIsOwn'
  BY <1>5 DEF Settle
<1>6. ASSUME NEW p \in Reporters, Collect(p) \/ Heartbeat(p)  PROVE HandIsOwn'
  BY <1>6 DEF Collect, Heartbeat, Envelope
<1>7. ASSUME NEW p \in Reporters, NothingDue(p) \/ Keep(p) \/ RunFails(p)
      PROVE  HandIsOwn'
  BY <1>7 DEF NothingDue, Keep, RunFails, Finish
<1>8. ASSUME NEW p \in Reporters, Store(p)  PROVE HandIsOwn'
  BY <1>8 DEF Store, Finish, Envelope
<1>9. ASSUME NEW p \in Reporters, Tell(p)  PROVE HandIsOwn'
  BY <1>9 DEF Tell
<1>10. ASSUME NEW p \in Reporters, NEW status \in Answers, FlushSend(p, status)
      PROVE  HandIsOwn'
  BY <1>10 DEF FlushSend
<1>11. ASSUME NEW p \in Reporters, NEW status \in Answers, Send(p, status)
      PROVE  HandIsOwn'
  <2>1. cur'.by = cur.by /\ step' \in {"store", "keep"} /\ due' = due /\ pc' = pc
    BY <1>11 DEF Send
  <2>2. /\ Delivery(status) \in Verdicts
        /\ \A of \in Sendings : Line(Delivery(status), of) # Counting
    BY <1>11, SendSettles DEF Counting, Line, Verdicts
  <2>3. /\ step = "send" => told' = [told EXCEPT ![p] = Line(Delivery(status), "full")]
        /\ step = "beat" =>
             \/ told' = told
             \/ told' = [told EXCEPT ![p] = Line(Delivery(status), "heartbeat")]
    BY <1>11, SendSettles
  <2>4. step \in {"send", "beat"} /\ lock = p
    BY <1>11 DEF Send
  <2>5. told'[p] # Counting /\ \A q \in Reporters \ {p} : told'[q] = told[q]
    BY <2>2, <2>3, <2>4 DEF Sendings
  <2>6. step' = "store" => told'[p] = Line(Delivery(status), "full")
    BY <1>11, <2>3, <2>4 DEF Send
  <2> QED
    BY <1>11, <2>1, <2>5, <2>6, <2>2, <2>4 DEF Send
<1>12. ASSUME NEW i \in Ids, Deactivate(i) /\ UNCHANGED <<run, kept>>  PROVE HandIsOwn'
  BY <1>12 DEF Deactivate
<1>13. CASE (\E what \in Scheduled : Elapse(what)) \/ UNCHANGED all
  BY <1>13 DEF Elapse, all
<1> QED
  BY <1>1, <1>2, <1>3, <1>4, <1>5, <1>6, <1>7, <1>8, <1>9, <1>10,
     <1>11, <1>12, <1>13
  DEF ComputerNext, Run

\* Whoever leaves its run has printed its line, or never will.
LEMMA CountingEnds == IInv /\ [ComputerNext]_all => CountsInReport'
<1> SUFFICES ASSUME IInv, [ComputerNext]_all
             PROVE  CountsInReport'
  OBVIOUS
<1>0. Silent # Counting
  BY DEF Silent, Counting, Line
<1> USE <1>0 DEF IInv, TypeOK, CountsInReport, Procs, Goto, Exit, vars
<1>1. ASSUME NEW p \in Procs, Connecting(p)  PROVE CountsInReport'
  <2>1. CASE Create(p) \/ Truncate(p) \/ Write(p) \/ Unpair(p) \/ Forget(p) \/ Pair(p)
    BY <2>1 DEF Create, Truncate, Write, Unpair, Forget, Pair
  <2>2. CASE Callback(p) \/ Disconnect(p) \/ WriteFails(p) \/ Configure(p)
    BY <2>2 DEF Callback, Disconnect, WriteFails, Configure
  <2>3. CASE Asked(p)
    BY <2>3 DEF Asked, Request, Exchange, Challenge, Revoke, Proceed
  <2> QED
    BY <1>1, <2>1, <2>2, <2>3 DEF Connecting
<1>2. ASSUME NEW p \in Procs, Die(p)  PROVE CountsInReport'
  BY <1>2 DEF Die, Crash
<1>3. ASSUME NEW p \in Reporters, Begin(p) \/ Busy(p) \/ Once(p) \/ RunFails(p)
      PROVE  CountsInReport'
  BY <1>3 DEF Begin, Busy, Once, RunFails
<1>4. ASSUME NEW p \in Reporters, Settle(p) \/ Collect(p) \/ Heartbeat(p)
      PROVE  CountsInReport'
  BY <1>4 DEF Settle, Collect, Heartbeat
<1>5. ASSUME NEW p \in Reporters, Store(p) \/ Keep(p)  PROVE CountsInReport'
  BY <1>5 DEF Store, Keep, Finish
<1>6. ASSUME NEW p \in Reporters, NothingDue(p)  PROVE CountsInReport'
  BY <1>6 DEF NothingDue, Flushed, At
<1>7. ASSUME NEW p \in Reporters, Tell(p)  PROVE CountsInReport'
  BY <1>7 DEF Tell
<1>8. ASSUME NEW p \in Reporters, NEW status \in Answers, FlushSend(p, status) \/ Send(p, status)
      PROVE  CountsInReport'
  BY <1>8 DEF FlushSend, Send, At
<1>9. ASSUME NEW i \in Ids, Deactivate(i)  PROVE CountsInReport'
  BY <1>9 DEF Deactivate
<1>10. CASE (\E what \in Scheduled : Elapse(what)) \/ UNCHANGED all
  BY <1>10 DEF Elapse, all
<1> QED
  BY <1>1, <1>2, <1>3, <1>4, <1>5, <1>6, <1>7, <1>8, <1>9, <1>10 DEF ComputerNext, Run

\* The invariant of the connection holds beside the runs of the agent.
LEMMA ComputerIsTyped == ComputerSpec => []IInv
<1>1. ComputerInit => IInv
  <2>1. ASSUME Init  PROVE TypeOK
    BY <2>1, NotIdentities, BoundIsNatural
    DEF Init, TypeOK, Procs, Pairing, Disconnecting, Lines, Silent, Line
  <2>2. ASSUME ComputerInit  PROVE HandIsOwn /\ CountsInReport
    BY <2>2, LockIsNoProcess
    DEF ComputerInit, Init, HandIsOwn, CountsInReport, Procs, Silent, Counting, Line
  <2> QED
    BY <2>1, <2>2 DEF ComputerInit, IInv
<1>2. IInv /\ [ComputerNext]_all => IInv'
  BY StepsMap, HandStaysOwn, CountingEnds, TypeStep DEF IInv
<1> QED
  BY <1>1, <1>2, PTL DEF ComputerSpec

\* A computer reports as Connection lets a process report, whatever happens to its
\* queue, its lock and its other files.
THEOREM ComputerReports == ComputerSpec => ReportsAsPromised
<1>1. ComputerInit => Init
  BY DEF ComputerInit
<1> QED
  BY <1>1, ComputerIsTyped, StepsMap, PTL DEF ComputerSpec, ReportsAsPromised, Spec

\* What holds of the commands holds of the whole computer: it calls itself paired, and
\* reports, only under an identity the service registered.
COROLLARY ComputerIsApproved == ComputerSpec => []PairedMeansRegistered
BY ComputerReports, PairingIsApproved, PTL DEF ReportsAsPromised

\* While commands are given one after another and nothing fails, what disconnect
\* deletes is signed off and the next pairing uses a new key, whatever the runs of the
\* background agent do meanwhile.
COROLLARY ComputerDisconnects ==
  ASSUME OneShell
  PROVE  ComputerSpec => [](CleanDisconnectRevokes /\ FreshKeyAfterDisconnect)
BY ComputerReports, DisconnectRevokes, NewPairingNewKey, PTL DEF ReportsAsPromised

------------------------------------------------------------------------------
(* The queue and last-report.json.                                          *)

Sent == [by : Ids \cup {None}, taken : BOOLEAN, latest : BOOLEAN]

\* Every variable of a run holds a value of its kind.
RunOK ==
  /\ queue \in Seq(Sent) /\ cur \in Sent /\ verdict \in Verdicts
  /\ last \in [delivery : Verdicts \cup {"none"}, taken : BOOLEAN]
  /\ step \in {"none", "flush", "settle", "due", "send", "store", "beat", "keep"}
  /\ step # "none" => lock \in Reporters
  /\ step = "settle" => queue # <<>>

\* The envelopes of s that the service already holds.
Held(s) == {i \in DOMAIN s : s[i].taken}

\* The envelopes of a queue that the service holds can be counted.
LEMMA HeldIsFinite ==
  ASSUME NEW s \in Seq(Sent)
  PROVE  IsFiniteSet(Held(s)) /\ Cardinality(Held(s)) \in Nat
<1>1. IsFiniteSet(1..Len(s))
  BY FS_Interval
<1>2. Held(s) \subseteq 1..Len(s)
  BY DEF Held
<1> QED
  BY <1>1, <1>2, FS_Subset, FS_CardinalityType

\* One envelope more is held than before, if it is.
LEMMA HeldAppend ==
  ASSUME NEW s \in Seq(Sent), NEW e \in Sent
  PROVE  Cardinality(Held(Append(s, e)))
           = Cardinality(Held(s)) + (IF e.taken THEN 1 ELSE 0)
<1>1. e.taken => Held(Append(s, e)) = Held(s) \cup {Len(s) + 1}
  BY DEF Held, Sent
<1>2. ~e.taken => Held(Append(s, e)) = Held(s)
  BY DEF Held, Sent
<1>3. Len(s) + 1 \notin Held(s)
  BY DEF Held
<1> QED
  BY <1>1, <1>2, <1>3, HeldIsFinite, FS_AddElement

\* Removing the head changes the count by the head's share.
LEMMA HeldTail ==
  ASSUME NEW s \in Seq(Sent), s # <<>>
  PROVE  /\ Tail(s) \in Seq(Sent)
         /\ Cardinality(Held(Tail(s))) <= Cardinality(Held(s))
         /\ Cardinality(Held(s)) <= Cardinality(Held(Tail(s))) + 1
         /\ ~Head(s).taken => Cardinality(Held(s)) = Cardinality(Held(Tail(s)))
<1> DEFINE later == [i \in Held(Tail(s)) |-> i + 1]
           earlier == [i \in Held(s) \ {1} |-> i - 1]
<1>1. /\ Tail(s) \in Seq(Sent) /\ Len(s) \in Nat \ {0} /\ Len(Tail(s)) = Len(s) - 1
      /\ \A i \in 1..(Len(s) - 1) : Tail(s)[i] = s[i + 1]
      /\ Head(s) = s[1]
  OBVIOUS
<1>2. /\ \A i \in Held(Tail(s)) : i \in Int /\ i + 1 \in Held(s) \ {1}
      /\ \A i \in Held(s) \ {1} : i \in Int /\ i - 1 \in Held(Tail(s))
  BY <1>1 DEF Held
<1>3. /\ later \in Injection(Held(Tail(s)), Held(s) \ {1})
      /\ earlier \in Injection(Held(s) \ {1}, Held(Tail(s)))
  BY <1>2 DEF Injection, IsInjective
<1>4. /\ IsFiniteSet(Held(s)) /\ Cardinality(Held(s)) \in Nat
      /\ IsFiniteSet(Held(Tail(s))) /\ Cardinality(Held(Tail(s))) \in Nat
  BY <1>1, HeldIsFinite
<1>5. /\ IsFiniteSet(Held(s) \ {1}) /\ Cardinality(Held(s) \ {1}) \in Nat
      /\ Cardinality(Held(s) \ {1}) = Cardinality(Held(s)) - (IF 1 \in Held(s) THEN 1 ELSE 0)
  BY <1>4, FS_RemoveElement, FS_CardinalityType
<1> HIDE DEF later, earlier
<1>6. /\ Cardinality(Held(Tail(s))) <= Cardinality(Held(s) \ {1})
      /\ Cardinality(Held(s) \ {1}) <= Cardinality(Held(Tail(s)))
  BY <1>3, <1>4, <1>5, FS_Injection
<1>7. ~Head(s).taken => 1 \notin Held(s)
  BY <1>1 DEF Held
<1> QED
  BY <1>1, <1>4, <1>5, <1>6, <1>7

\* The answer to the head says whether it is held, and nothing about the others.
LEMMA HeldAnswer ==
  ASSUME NEW s \in Seq(Sent), s # <<>>, NEW b \in BOOLEAN,
         NEW t, t = [s EXCEPT ![1].taken = b]
  PROVE  /\ t \in Seq(Sent) /\ t # <<>> /\ Tail(t) = Tail(s) /\ Head(t).taken = b
         /\ b = Head(s).taken => Held(t) = Held(s)
<1>1. /\ Len(s) \in Nat \ {0} /\ s \in [1..Len(s) -> Sent] /\ Head(s) = s[1]
  OBVIOUS
<1>2. PICK e \in Sent : e = s[1]
  BY <1>1
<1>3. PICK f \in Sent : f = [e EXCEPT !.taken = b]
  BY DEF Sent
<1>4. f.taken = b
  BY <1>3 DEF Sent
<1>5. t = [s EXCEPT ![1] = f]
  BY <1>2, <1>3
<1>6. t \in [1..Len(s) -> Sent] /\ t[1] = f /\ \A i \in 2..Len(s) : t[i] = s[i]
  BY <1>1, <1>5
<1>7. t \in Seq(Sent) /\ Len(t) = Len(s)
  BY <1>1, <1>6
<1>8. t # <<>> /\ Head(t) = f
  BY <1>1, <1>6, <1>7
<1>9. Tail(t) = Tail(s)
  <2>1. /\ Tail(t) \in Seq(Sent) /\ Tail(s) \in Seq(Sent)
        /\ Len(Tail(t)) = Len(s) - 1 /\ Len(Tail(s)) = Len(s) - 1
    BY <1>1, <1>7, <1>8
  <2>2. \A i \in 1..(Len(s) - 1) : Tail(t)[i] = t[i + 1] /\ Tail(s)[i] = s[i + 1]
    BY <1>1, <1>7, <1>8
  <2> QED
    BY <1>1, <1>6, <2>1, <2>2
<1>10. b = Head(s).taken => Held(t) = Held(s)
  BY <1>1, <1>2, <1>4, <1>6, <1>7 DEF Held
<1> QED
  BY <1>4, <1>7, <1>8, <1>9, <1>10

\* Which report last-report.json describes changes nothing about what is held.
LEMMA HeldOnly ==
  ASSUME NEW s \in Seq(Sent)
  PROVE  Only(s) \in Seq(Sent) /\ Held(Only(s)) = Held(s)
<1> DEFINE note(i) == [s[i] EXCEPT !.latest = Waits /\ i = Len(s)]
<1>1. DOMAIN s = 1..Len(s) /\ Len(s) \in Nat
  OBVIOUS
<1>2. \A i \in 1..Len(s) : note(i) \in Sent /\ note(i).taken = s[i].taken
  <2> SUFFICES ASSUME NEW i \in 1..Len(s)
               PROVE  note(i) \in Sent /\ note(i).taken = s[i].taken
    OBVIOUS
  <2>1. PICK e \in Sent : e = s[i]
    OBVIOUS
  <2>2. PICK b \in BOOLEAN : b = (Waits /\ i = Len(s))
    BY DEF Waits
  <2>3. [e EXCEPT !.latest = b] \in Sent /\ [e EXCEPT !.latest = b].taken = e.taken
    BY DEF Sent
  <2> QED
    BY <2>1, <2>2, <2>3
<1> HIDE DEF note
<1>3. Only(s) = [i \in 1..Len(s) |-> note(i)]
  BY <1>1 DEF Only, note
<1>4. Only(s) \in Seq(Sent) /\ DOMAIN Only(s) = 1..Len(s)
  BY <1>1, <1>2, <1>3
<1> QED
  BY <1>1, <1>2, <1>3, <1>4 DEF Held

\* The envelopes a run has not answered yet, and the one it is about to queue although
\* the service took it.
Rest == IF step = "settle" THEN Tail(queue) ELSE queue
LostInHand == IF step \in {"store", "keep"} /\ Waits /\ cur.taken THEN 1 ELSE 0

\* Every envelope that is held and still waits has cost a fault.
HeldIsPaid == Cardinality(Held(Rest)) + LostInHand <= faults

\* The verdict about e is true, up to the first fault.
VerdictFits(e) == /\ verdict = "uploaded" => e.taken
                  /\ verdict = "rejected" /\ e.taken => faults # 0

VerdictsAreTrue ==
  /\ last.delivery = "uploaded" => last.taken
  /\ last.delivery = "rejected" /\ last.taken => faults # 0
  /\ step = "settle" => VerdictFits(Head(queue))
  /\ step \in {"send", "beat"} => ~cur.taken
  /\ step \in {"store", "keep"} => VerdictFits(cur)

\* What a run leaves in the queue when its delivery is over, or broke off.
Stored == IF Waits THEN Queued(cur) ELSE queue

\* The queue that a run leaves has no more duplicates than there were faults.
LEMMA StoredIsPaid ==
  ASSUME RunOK, HeldIsPaid, IInv, step \in {"store", "keep"}
  PROVE  Stored \in Seq(Sent) /\ Cardinality(Held(Stored)) <= faults
<1> DEFINE longer == Append(queue, cur)
<1>1. queue \in Seq(Sent) /\ cur \in Sent /\ faults \in Nat
  BY DEF RunOK, IInv, TypeOK
<1>2. Cardinality(Held(queue)) \in Nat /\ Cardinality(Held(queue)) <= faults
  BY <1>1, HeldIsFinite DEF HeldIsPaid, Rest, LostInHand
<1>3. CASE Waits
  <2>1. longer \in Seq(Sent) /\ longer # <<>>
    <3>1. longer \in Seq(Sent) /\ Len(longer) = Len(queue) + 1 /\ Len(queue) \in Nat
      BY <1>1
    <3>2. Len(<<>>) = 0
      OBVIOUS
    <3> QED
      BY <3>1, <3>2
  <2>2. Cardinality(Held(longer)) \in Nat /\ Cardinality(Held(longer)) <= faults
    BY <1>1, <1>2, <1>3, <2>1, HeldAppend, HeldIsFinite DEF HeldIsPaid, Rest, LostInHand
  <2> HIDE DEF longer
  <2>3. /\ Tail(longer) \in Seq(Sent)
        /\ Cardinality(Held(Tail(longer))) \in Nat
        /\ Cardinality(Held(Tail(longer))) <= faults
    <3>1. /\ Tail(longer) \in Seq(Sent)
          /\ Cardinality(Held(Tail(longer))) <= Cardinality(Held(longer))
      BY <2>1, HeldTail
    <3>2. Cardinality(Held(Tail(longer))) \in Nat
      BY <3>1, HeldIsFinite
    <3> QED
      BY <1>1, <2>2, <3>1, <3>2
  <2>4. Stored \in {longer, Tail(longer)}
    BY <1>3 DEF Stored, Queued, longer
  <2> QED
    BY <2>1, <2>2, <2>3, <2>4
<1>4. CASE ~Waits
  BY <1>1, <1>2, <1>4 DEF Stored
<1> QED
  BY <1>3, <1>4

\* The invariant of a run.
RunInv == RunOK /\ HeldIsPaid /\ VerdictsAreTrue

\* A step that leaves the run and its files alone.
LEMMA RunStays ==
  ASSUME IInv, RunInv, faults' \in {faults, faults + 1}, UNCHANGED <<run, kept>>
  PROVE  RunInv'
<1>1. faults \in Nat /\ Rest \in Seq(Sent)
  BY HeldTail DEF IInv, TypeOK, RunInv, RunOK, Rest
<1>2. Cardinality(Held(Rest)) \in Nat
  BY <1>1, HeldIsFinite
<1>3. RunOK'
  BY DEF RunInv, RunOK, run, kept
<1>4. Rest' = Rest /\ LostInHand' = LostInHand /\ Held(Rest)' = Held(Rest)
  BY DEF Rest, LostInHand, Waits, Held, run, kept
<1>5. HeldIsPaid'
  BY <1>1, <1>2, <1>4 DEF RunInv, HeldIsPaid, LostInHand
<1>6. VerdictsAreTrue'
  BY <1>1 DEF RunInv, VerdictsAreTrue, VerdictFits, run, kept
<1> QED
  BY <1>3, <1>5, <1>6 DEF RunInv

\* The end of a run leaves a queue that is paid for, and a true last-report.json.
LEMMA RunEnds ==
  ASSUME IInv, RunInv, faults' \in {faults, faults + 1}, step' = "none",
         cur' = Nothing, verdict' = "queued",
         queue' \in Seq(Sent), Cardinality(Held(queue')) <= faults',
         last' \in [delivery : Verdicts \cup {"none"}, taken : BOOLEAN],
         last'.delivery = "uploaded" => last'.taken,
         last'.delivery = "rejected" /\ last'.taken => faults' # 0
  PROVE  RunInv'
<1>1. faults \in Nat /\ Nothing \in Sent
  BY DEF IInv, TypeOK, Nothing, Sent
<1>2. RunOK'
  BY <1>1 DEF RunOK, Verdicts
<1>3. Cardinality(Held(queue')) \in Nat
  BY HeldIsFinite
<1>4. Rest' = queue' /\ LostInHand' = 0
  BY DEF Rest, LostInHand
<1>5. Held(Rest)' = Held(queue')
  BY <1>4 DEF Held
<1>6. HeldIsPaid'
  BY <1>1, <1>3, <1>4, <1>5 DEF HeldIsPaid
<1>7. VerdictsAreTrue'
  BY DEF VerdictsAreTrue
<1> QED
  BY <1>2, <1>6, <1>7 DEF RunInv

\* What a run that breaks off leaves is as true as what it found, at the price of the
\* fault.
LEMMA BrokenIsPaid ==
  ASSUME IInv, RunInv, Broken, faults' = faults + 1
  PROVE  /\ queue' \in Seq(Sent) /\ Cardinality(Held(queue')) <= faults'
         /\ last' \in [delivery : Verdicts \cup {"none"}, taken : BOOLEAN]
         /\ last'.delivery = "uploaded" => last'.taken
         /\ last'.delivery = "rejected" /\ last'.taken => faults' # 0
<1>1. /\ faults \in Nat /\ queue \in Seq(Sent) /\ cur \in Sent /\ verdict \in Verdicts
      /\ step = "settle" => queue # <<>>
  BY DEF IInv, TypeOK, RunInv, RunOK
<1>2. Cardinality(Held(queue)) \in Nat
  BY <1>1, HeldIsFinite
<1>3. Cardinality(Held(queue)) <= faults + 1
  <2>1. CASE step = "settle"
    <3>1. /\ Tail(queue) \in Seq(Sent)
          /\ Cardinality(Held(queue)) <= Cardinality(Held(Tail(queue))) + 1
      BY <1>1, <2>1, HeldTail
    <3>2. Cardinality(Held(Tail(queue))) \in Nat
      BY <3>1, HeldIsFinite
    <3> QED
      BY <1>1, <1>2, <2>1, <3>1, <3>2 DEF RunInv, HeldIsPaid, Rest, LostInHand
  <2>2. CASE step # "settle"
    BY <1>1, <1>2, <2>2 DEF RunInv, HeldIsPaid, Rest, LostInHand
  <2> QED
    BY <2>1, <2>2
<1>4. ASSUME last' = last
      PROVE  /\ last' \in [delivery : Verdicts \cup {"none"}, taken : BOOLEAN]
             /\ last'.delivery = "uploaded" => last'.taken
             /\ last'.delivery = "rejected" /\ last'.taken => faults' # 0
  BY <1>1, <1>4 DEF RunInv, RunOK, VerdictsAreTrue
<1>5. CASE UNCHANGED kept
  BY <1>1, <1>3, <1>4, <1>5 DEF kept
<1>6. CASE step = "settle" /\ queue' = Tail(queue) /\ UNCHANGED <<made, last>>
  <2>1. /\ Tail(queue) \in Seq(Sent)
        /\ Cardinality(Held(Tail(queue))) <= Cardinality(Held(queue))
    BY <1>1, <1>6, HeldTail
  <2>2. Cardinality(Held(Tail(queue))) \in Nat
    BY <2>1, HeldIsFinite
  <2> QED
    BY <1>1, <1>2, <1>3, <1>4, <1>6, <2>1, <2>2
<1>7. CASE step \in {"store", "keep"} /\ Deliver /\ UNCHANGED <<made, last>>
  <2>1. queue' = Stored
    BY <1>7 DEF Deliver, Stored
  <2>2. Stored \in Seq(Sent) /\ Cardinality(Held(Stored)) <= faults
    BY <1>7, StoredIsPaid DEF RunInv
  <2>3. Cardinality(Held(Stored)) \in Nat
    BY <2>2, HeldIsFinite
  <2> QED
    BY <1>1, <1>4, <1>7, <2>1, <2>2, <2>3
<1>8. CASE step = "store" /\ SaveReport /\ UNCHANGED made
  <2>1. queue' = Only(Stored) /\ last' = [delivery |-> verdict, taken |-> cur.taken]
    BY <1>8 DEF SaveReport, Stored
  <2>2. Stored \in Seq(Sent) /\ Cardinality(Held(Stored)) <= faults
    BY <1>8, StoredIsPaid DEF RunInv
  <2>3. Only(Stored) \in Seq(Sent) /\ Held(Only(Stored)) = Held(Stored)
    BY <2>2, HeldOnly
  <2>4. Cardinality(Held(Stored)) \in Nat
    BY <2>2, HeldIsFinite
  <2>5. queue' \in Seq(Sent) /\ Cardinality(Held(queue')) <= faults'
    BY <1>1, <2>1, <2>2, <2>3, <2>4
  <2>6. cur.taken \in BOOLEAN
    BY <1>1 DEF Sent
  <2>7. /\ last' \in [delivery : Verdicts \cup {"none"}, taken : BOOLEAN]
        /\ last'.delivery = verdict /\ last'.taken = cur.taken
    BY <1>1, <2>1, <2>6
  <2> QED
    BY <1>1, <1>8, <2>5, <2>7 DEF RunInv, VerdictsAreTrue, VerdictFits
<1> QED
  BY <1>5, <1>6, <1>7, <1>8 DEF Broken

\* What the client makes of an answer, and what the service holds then.
LEMMA PostTells ==
  ASSUME NEW e, NEW status, NEW b \in BOOLEAN, Post(e, status, b)
  PROVE  /\ faults' \in {faults, faults + 1}
         /\ Delivery(status) = "uploaded" => b
         /\ Delivery(status) = "rejected" /\ b => e.taken
         /\ Delivery(status) = "queued" => b = e.taken \/ faults' = faults + 1
<1>1. /\ Delivery(status) = "uploaded" => Success(status)
      /\ Delivery(status) = "rejected" => Refusal(status)
      /\ Delivery(status) = "queued" => ~Success(status)
  BY DEF Delivery, Classify
<1>2. ~Refusal(0) /\ (Refusal(status) => ~Success(status))
  BY DEF Refusal, Success
<1>3. \/ Success(status) /\ b /\ faults' = faults
      \/ ~Success(status) /\ b = e.taken /\ faults' = faults
      \/ status = 0 /\ faults' = faults + 1 /\ b
  BY DEF Post, Fault
<1>4. ~Success(0)
  BY DEF Success
<1> QED
  BY <1>1, <1>2, <1>3, <1>4

\* The flush hears about the oldest envelope.
LEMMA FlushIsPaid ==
  ASSUME IInv, RunInv, NEW p \in Reporters, NEW status \in Answers, FlushSend(p, status)
  PROVE  RunInv'
<1>1. /\ faults \in Nat /\ queue \in Seq(Sent) /\ queue # <<>> /\ step = "flush" /\ lock = p
      /\ lock' = lock /\ cur' = cur /\ last' = last
      /\ verdict' = Delivery(status) /\ Delivery(status) \in Verdicts
      /\ step' = IF Delivery(status) = "queued" THEN "due" ELSE "settle"
  BY DEF FlushSend, At, IInv, TypeOK, RunInv, RunOK, Delivery, Classify, Verdicts
<1>2. PICK b \in BOOLEAN : Post(Head(queue), status, b) /\ queue' = [queue EXCEPT ![1].taken = b]
  BY DEF FlushSend
<1>3. PICK t : t = queue'
  OBVIOUS
<1>4. /\ t \in Seq(Sent) /\ t # <<>> /\ Tail(t) = Tail(queue) /\ Head(t).taken = b
      /\ b = Head(queue).taken => Held(t) = Held(queue)
  BY <1>1, <1>2, <1>3, HeldAnswer
<1>5. RunOK'
  BY <1>1, <1>3, <1>4 DEF RunInv, RunOK
<1>6. PICK r \in Seq(Sent) : r = Tail(queue) /\ r = Tail(t)
  BY <1>4, HeldTail
<1>7. /\ Cardinality(Held(queue)) \in Nat /\ Cardinality(Held(queue)) <= faults
      /\ Cardinality(Held(t)) \in Nat /\ Cardinality(Held(r)) \in Nat
      /\ Cardinality(Held(r)) <= Cardinality(Held(queue))
      /\ Cardinality(Held(t)) <= Cardinality(Held(r)) + 1
  <2>1. /\ Cardinality(Held(r)) <= Cardinality(Held(queue))
        /\ Cardinality(Held(t)) <= Cardinality(Held(r)) + 1
    BY <1>1, <1>4, <1>6, HeldTail
  <2>2. /\ Cardinality(Held(queue)) \in Nat
        /\ Cardinality(Held(t)) \in Nat /\ Cardinality(Held(r)) \in Nat
    BY <1>1, <1>4, HeldIsFinite
  <2>3. Cardinality(Held(queue)) <= faults
    BY <1>1, <2>2 DEF RunInv, HeldIsPaid, Rest, LostInHand
  <2> QED
    BY <2>1, <2>2, <2>3
<1>8. /\ Rest' = IF Delivery(status) = "queued" THEN t ELSE r
      /\ Held(Rest)' = Held(IF Delivery(status) = "queued" THEN t ELSE r)
      /\ LostInHand' = 0
  BY <1>1, <1>3, <1>6 DEF Rest, LostInHand, Held
\* The service holds what it took, and what it denies under a lost acknowledgement.
<1>9. /\ faults' \in {faults, faults + 1}
      /\ Delivery(status) = "uploaded" => b
      /\ Delivery(status) = "rejected" /\ b => Head(queue).taken
      /\ Delivery(status) = "queued" => b = Head(queue).taken \/ faults' = faults + 1
  BY <1>2, PostTells
<1>10. HeldIsPaid'
  BY <1>1, <1>4, <1>7, <1>8, <1>9 DEF HeldIsPaid
<1>11. Delivery(status) = "rejected" /\ b => faults' # 0
  <2> SUFFICES ASSUME Delivery(status) = "rejected", b
               PROVE  faults' # 0
    OBVIOUS
  <2>1. 1 \in Held(queue)
    BY <1>1, <1>9 DEF Held
  <2>2. Cardinality(Held(queue)) # 0
    BY <1>1, <2>1, HeldIsFinite, FS_EmptySet
  <2> QED
    BY <1>1, <1>7, <1>9, <2>2
<1>12. VerdictsAreTrue'
  BY <1>1, <1>3, <1>4, <1>9, <1>11 DEF RunInv, VerdictsAreTrue, VerdictFits
<1> QED
  BY <1>5, <1>10, <1>12 DEF RunInv

\* An answered envelope leaves the queue, and last-report.json follows if it was the
\* report described there.
LEMMA SettleIsPaid ==
  ASSUME IInv, RunInv, NEW p \in Reporters, Settle(p)
  PROVE  RunInv'
<1>1. /\ faults \in Nat /\ faults' = faults /\ queue \in Seq(Sent) /\ queue # <<>>
      /\ step = "settle" /\ step' = "flush" /\ lock' = lock /\ lock = p /\ cur' = cur
      /\ verdict' = "queued" /\ verdict \in Verdicts /\ queue' = Tail(queue)
  BY DEF Settle, At, IInv, TypeOK, RunInv, RunOK, vars
<1>2. Tail(queue) \in Seq(Sent)
  BY <1>1, HeldTail
<1>3. PICK e \in Sent : e = Head(queue)
  BY <1>1
<1>4. /\ last' \in [delivery : Verdicts \cup {"none"}, taken : BOOLEAN]
      /\ \/ last'.delivery = verdict /\ last'.taken = e.taken
         \/ last'.delivery = last.delivery /\ last'.taken = last.taken
  <2>1. last' = IF e.latest THEN [delivery |-> verdict, taken |-> e.taken]
                ELSE [delivery |-> last.delivery, taken |-> last.taken]
    BY <1>3 DEF Settle, LastIsLate
  <2>2. /\ last.delivery \in Verdicts \cup {"none"} /\ last.taken \in BOOLEAN
        /\ e.taken \in BOOLEAN
    BY <1>3 DEF RunInv, RunOK, Sent
  <2> QED
    BY <1>1, <2>1, <2>2
<1>5. RunOK'
  BY <1>1, <1>2, <1>4 DEF RunInv, RunOK, Verdicts
<1>6. Rest' = Tail(queue) /\ Rest = Tail(queue) /\ LostInHand' = 0 /\ LostInHand = 0
  BY <1>1 DEF Rest, LostInHand
<1>7. Held(Rest)' = Held(Rest)
  BY <1>6 DEF Held
<1>8. HeldIsPaid'
  BY <1>1, <1>6, <1>7 DEF RunInv, HeldIsPaid
<1>9. VerdictsAreTrue'
  BY <1>1, <1>3, <1>4 DEF RunInv, VerdictsAreTrue, VerdictFits
<1> QED
  BY <1>5, <1>8, <1>9 DEF RunInv

\* The service answers the envelope in hand.
LEMMA SendIsPaid ==
  ASSUME IInv, RunInv, NEW p \in Reporters, NEW status \in Answers, Send(p, status)
  PROVE  RunInv'
<1>1. /\ faults \in Nat /\ queue \in Seq(Sent) /\ cur \in Sent /\ ~cur.taken
      /\ step \in {"send", "beat"} /\ step' \in {"store", "keep"} /\ lock' = lock /\ lock = p /\ queue' = queue
      /\ verdict' = Delivery(status) /\ Delivery(status) \in Verdicts /\ last' = last
  BY DEF Send, At, kept, IInv, TypeOK, RunInv, RunOK, VerdictsAreTrue, Delivery, Classify,
         Verdicts
<1>2. PICK b \in BOOLEAN : Post(cur, status, b) /\ cur' = [cur EXCEPT !.taken = b]
  BY DEF Send
<1>3. cur' \in Sent /\ cur'.taken = b
  BY <1>1, <1>2 DEF Sent
<1>4. RunOK'
  BY <1>1, <1>3 DEF RunInv, RunOK
<1>5. /\ faults' \in {faults, faults + 1}
      /\ Delivery(status) = "uploaded" => b
      /\ Delivery(status) = "rejected" => ~b
      /\ Delivery(status) = "queued" /\ b => faults' = faults + 1
  <2>1. /\ faults' \in {faults, faults + 1}
        /\ Delivery(status) = "uploaded" => b
        /\ Delivery(status) = "rejected" /\ b => cur.taken
        /\ Delivery(status) = "queued" => b = cur.taken \/ faults' = faults + 1
    BY <1>2, PostTells
  <2>2. b = cur.taken => ~b
    BY <1>1
  <2> QED
    BY <2>1, <2>2
<1>6. /\ Rest = queue /\ Rest' = queue /\ LostInHand = 0
      /\ LostInHand' = IF Delivery(status) = "queued" /\ b THEN 1 ELSE 0
  BY <1>1, <1>3 DEF Rest, LostInHand, Waits
<1>7. Held(Rest)' = Held(queue) /\ Cardinality(Held(queue)) \in Nat
  BY <1>1, <1>6, HeldIsFinite DEF Held
<1>8. HeldIsPaid'
  BY <1>1, <1>5, <1>6, <1>7 DEF RunInv, HeldIsPaid
<1>9. VerdictsAreTrue'
  BY <1>1, <1>3, <1>5 DEF RunInv, VerdictsAreTrue, VerdictFits
<1> QED
  BY <1>4, <1>8, <1>9 DEF RunInv

\* The full report is delivered: the envelope is queued if it must be, and described.
LEMMA StoreIsPaid ==
  ASSUME IInv, RunInv, NEW p \in Reporters, Store(p)
  PROVE  RunInv'
<1>1. /\ faults \in Nat /\ faults' = faults /\ cur \in Sent /\ verdict \in Verdicts
      /\ step = "store" /\ lock = p /\ verdict' = "queued"
      /\ queue' = Only(Stored) /\ last' = [delivery |-> verdict, taken |-> cur.taken]
      /\ \/ step' = "none" /\ cur' = Nothing
         \/ step' = "beat" /\ cur' = Envelope(dev[p]) /\ lock' = lock
  BY DEF Store, At, SaveReport, Stored, Finish, Unlock, IInv, TypeOK, RunInv, RunOK
<1>2. Stored \in Seq(Sent) /\ Cardinality(Held(Stored)) <= faults
  BY <1>1, StoredIsPaid DEF RunInv
<1>3. queue' \in Seq(Sent) /\ Cardinality(Held(queue')) <= faults'
  BY <1>1, <1>2, HeldOnly
<1>4. cur.taken \in BOOLEAN
  BY <1>1 DEF Sent
<1>5. /\ last' \in [delivery : Verdicts \cup {"none"}, taken : BOOLEAN]
      /\ last'.delivery = verdict /\ last'.taken = cur.taken
  BY <1>1, <1>4
<1>6. /\ last'.delivery = "uploaded" => last'.taken
      /\ last'.delivery = "rejected" /\ last'.taken => faults' # 0
  BY <1>1, <1>5 DEF RunInv, VerdictsAreTrue, VerdictFits
<1>7. CASE step' = "none" /\ cur' = Nothing
  BY <1>1, <1>3, <1>5, <1>6, <1>7, RunEnds
\* The heartbeat is in hand, and new.
<1>8. CASE step' = "beat" /\ cur' = Envelope(dev[p]) /\ lock' = lock
  <2>1. Envelope(dev[p]) \in Sent /\ ~Envelope(dev[p]).taken
    BY DEF Envelope, Sent, IInv, TypeOK, Procs
  <2>2. RunOK'
    BY <1>1, <1>3, <1>5, <1>8, <2>1 DEF RunOK, RunInv, Verdicts
  <2>3. Rest' = queue' /\ LostInHand' = 0 /\ Held(Rest)' = Held(queue')
    BY <1>8 DEF Rest, LostInHand, Held
  <2>4. HeldIsPaid'
    BY <1>1, <1>3, <2>3, HeldIsFinite DEF HeldIsPaid
  <2>5. VerdictsAreTrue'
    BY <1>6, <1>8, <2>1 DEF VerdictsAreTrue
  <2> QED
    BY <2>2, <2>4, <2>5 DEF RunInv
<1> QED
  BY <1>1, <1>7, <1>8

\* The same of the heartbeat, about which last-report.json is silent.
LEMMA KeepIsPaid ==
  ASSUME IInv, RunInv, NEW p \in Reporters, Keep(p)
  PROVE  RunInv'
<1>1. /\ faults' = faults /\ step = "keep" /\ step' = "none" /\ cur' = Nothing
      /\ verdict' = "queued" /\ queue' = Stored /\ last' = last
  BY DEF Keep, At, Deliver, Stored, Finish, Unlock
<1>2. queue' \in Seq(Sent) /\ Cardinality(Held(queue')) <= faults'
  BY <1>1, StoredIsPaid DEF RunInv
<1> QED
  BY <1>1, <1>2, RunEnds DEF RunInv, RunOK, VerdictsAreTrue

\* Every step of the computer keeps the invariant.
LEMMA RunInvStep ==
  ASSUME IInv, RunInv, [ComputerNext]_all
  PROVE  RunInv'
<1>1. faults' \in {faults, faults + 1}
  BY StepsMap, FaultsAreCounted DEF IInv
<1>2. CASE UNCHANGED <<run, kept>>
  BY <1>1, <1>2, RunStays
<1>3. ASSUME NEW p \in Procs, Connecting(p)  PROVE UNCHANGED <<run, kept>>
  BY <1>3 DEF Connecting
<1>4. ASSUME NEW p \in Procs, Die(p)  PROVE RunInv'
  <2>1. CASE lock = p
    <3>1. /\ Broken /\ lock' = "left" /\ step' = "none" /\ cur' = Nothing
          /\ verdict' = "queued" /\ faults' = faults + 1
      BY <1>4, <2>1 DEF Die, Crash, Fault
    <3> QED
      BY <1>1, <3>1, BrokenIsPaid, RunEnds
  <2>2. CASE lock # p
    BY <1>2, <1>4, <2>2 DEF Die
  <2> QED
    BY <2>1, <2>2
<1>5. ASSUME NEW p \in Reporters, Begin(p)  PROVE RunInv'
  <2>1. /\ step = "none" /\ step' = "flush" /\ lock' = p /\ faults' = faults
        /\ queue' = queue /\ cur' = cur /\ verdict' = verdict /\ last' = last
    BY <1>5, LockIsNoProcess DEF Begin, RunInv, RunOK, kept
  <2>2. Rest' = Rest /\ LostInHand' = LostInHand /\ Held(Rest)' = Held(Rest)
    BY <2>1 DEF Rest, LostInHand, Held
  <2> QED
    BY <2>1, <2>2 DEF RunInv, RunOK, HeldIsPaid, VerdictsAreTrue
<1>6. ASSUME NEW p \in Reporters, Busy(p) \/ Once(p) \/ Tell(p)
      PROVE  UNCHANGED <<run, kept>>
  BY <1>6 DEF Busy, Once, Tell
<1>7. ASSUME NEW p \in Reporters, RunFails(p)  PROVE RunInv'
  <2>1. /\ Broken /\ step' = "none" /\ cur' = Nothing
        /\ verdict' = "queued" /\ faults' = faults + 1
    BY <1>7 DEF RunFails, Unlock, Fault
  <2> QED
    BY <1>1, <2>1, BrokenIsPaid, RunEnds
<1>8. ASSUME NEW p \in Reporters, NothingDue(p)  PROVE RunInv'
  <2>1. /\ step \in {"due", "flush"} /\ step' = "none" /\ cur' = Nothing /\ verdict' = "queued"
        /\ queue' = queue /\ last' = last /\ faults' = faults
    BY <1>8 DEF NothingDue, Flushed, At, Unlock, kept
  <2>2. queue \in Seq(Sent) /\ Cardinality(Held(queue)) \in Nat
        /\ faults \in Nat
    BY HeldIsFinite DEF RunInv, RunOK, IInv, TypeOK
  <2>3. Cardinality(Held(queue)) <= faults
    BY <2>1, <2>2 DEF RunInv, HeldIsPaid, Rest, LostInHand
  <2> QED
    BY <1>1, <2>1, <2>2, <2>3, RunEnds DEF RunInv, RunOK, VerdictsAreTrue
<1>9. ASSUME NEW p \in Reporters, Collect(p) \/ Heartbeat(p)  PROVE RunInv'
  <2>1. /\ step \in {"due", "flush"} /\ step' \in {"send", "beat"} /\ lock' = lock /\ faults' = faults
        /\ queue' = queue /\ cur' = Envelope(dev[p]) /\ verdict' = verdict /\ last' = last
    BY <1>9 DEF Collect, Heartbeat, Flushed, At, vars, kept
  <2>2. Envelope(dev[p]) \in Sent /\ ~Envelope(dev[p]).taken
    BY DEF Envelope, Sent, IInv, TypeOK, Procs
  <2>3. Rest' = Rest /\ LostInHand' = LostInHand /\ Held(Rest)' = Held(Rest)
    BY <2>1 DEF Rest, LostInHand, Held
  <2>4. RunOK'
    BY <2>1, <2>2 DEF RunInv, RunOK
  <2>5. VerdictsAreTrue'
    BY <2>1, <2>2 DEF RunInv, VerdictsAreTrue
  <2> QED
    BY <2>1, <2>3, <2>4, <2>5 DEF RunInv, HeldIsPaid
<1>10. ASSUME NEW i \in Ids, Deactivate(i) /\ UNCHANGED <<run, kept>>
       PROVE  UNCHANGED <<run, kept>>
  BY <1>10
<1>11. ASSUME NEW what \in Scheduled, Elapse(what)  PROVE RunInv'
  <2>1. UNCHANGED <<run, queue, last, faults>>
    BY <1>11 DEF Elapse, vars
  <2>2. Rest' = Rest /\ LostInHand' = LostInHand /\ Held(Rest)' = Held(Rest)
    BY <2>1 DEF Rest, LostInHand, Waits, Held, run
  <2> QED
    BY <2>1, <2>2 DEF RunInv, RunOK, HeldIsPaid, VerdictsAreTrue, VerdictFits, run
<1>12. CASE UNCHANGED all
  BY <1>2, <1>12 DEF all
<1> QED
  BY <1>2, <1>3, <1>4, <1>5, <1>6, <1>7, <1>8, <1>9, <1>10, <1>11, <1>12, FlushIsPaid,
     SettleIsPaid, SendIsPaid, StoreIsPaid, KeepIsPaid
  DEF ComputerNext, Run

\* Every duplicate was paid for by a fault, and every verdict is that of the service.
LEMMA RunsArePaid == ComputerSpec => []RunInv
<1>1. ComputerInit => RunInv
  <2> SUFFICES ASSUME ComputerInit  PROVE RunInv
    OBVIOUS
  <2>1. /\ queue = <<>> /\ cur = Nothing /\ verdict = "queued" /\ step = "none" /\ faults = 0
        /\ last = [delivery |-> "none", taken |-> FALSE] /\ Nothing \in Sent
    BY DEF ComputerInit, Init, Nothing, Sent
  <2>2. Held(queue) = {} /\ queue \in Seq(Sent)
    BY <2>1 DEF Held
  <2>3. RunOK
    BY <2>1, <2>2 DEF RunOK, Verdicts
  <2>4. HeldIsPaid
    BY <2>1, <2>2, FS_EmptySet DEF HeldIsPaid, Rest, LostInHand
  <2>5. VerdictsAreTrue
    BY <2>1 DEF VerdictsAreTrue
  <2> QED
    BY <2>3, <2>4, <2>5 DEF RunInv
<1>2. IInv /\ RunInv /\ [ComputerNext]_all => RunInv'
  BY RunInvStep
<1> QED
  BY <1>1, <1>2, ComputerIsTyped, PTL DEF ComputerSpec

\* For every queue limit and any number of processes: an envelope that the service
\* already holds waits in the queue only at the price of a fault.
THEOREM DuplicatesArePaid == ComputerSpec => []DuplicatesBounded
<1>1. IInv /\ RunInv => DuplicatesBounded
  <2> SUFFICES ASSUME IInv, RunInv  PROVE DuplicatesBounded
    OBVIOUS
  <2>1. /\ faults \in Nat /\ queue \in Seq(Sent)
        /\ step = "settle" => queue # <<>>
    BY DEF IInv, TypeOK, RunInv, RunOK
  <2>2. Cardinality(Held(queue)) \in Nat
    BY <2>1, HeldIsFinite
  <2>3. CASE step = "settle"
    <3>1. /\ Tail(queue) \in Seq(Sent)
          /\ Cardinality(Held(queue)) <= Cardinality(Held(Tail(queue))) + 1
      BY <2>1, <2>3, HeldTail
    <3>2. Cardinality(Held(Tail(queue))) \in Nat
      BY <3>1, HeldIsFinite
    <3>3. Cardinality(Held(queue)) <= faults + 1
      BY <2>1, <2>2, <2>3, <3>1, <3>2 DEF RunInv, HeldIsPaid, Rest, LostInHand
    <3> QED
      BY <2>1, <2>2, <2>3, <3>3 DEF DuplicatesBounded, Held
  <2>4. CASE step # "settle"
    <3>1. Cardinality(Held(queue)) <= faults
      BY <2>1, <2>2, <2>4 DEF RunInv, HeldIsPaid, Rest, LostInHand
    <3> QED
      BY <2>1, <2>2, <2>4, <3>1 DEF DuplicatesBounded, Held
  <2> QED
    BY <2>3, <2>4
<1> QED
  BY <1>1, ComputerIsTyped, RunsArePaid, PTL

\* last-report.json tells of each report what became of it, also when that is known only
\* runs later and under another identity.
THEOREM ComputerReportIsTrue == ComputerSpec => []LastReportTrue
<1>1. RunInv => LastReportTrue
  BY DEF RunInv, VerdictsAreTrue, LastReportTrue
<1> QED
  BY <1>1, RunsArePaid, PTL

=============================================================================
