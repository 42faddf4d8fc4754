------------------------- MODULE ComputerProperties -------------------------
(***************************************************************************)
(* The properties of Computer, beside those of Connection, which hold of   *)
(* it as they stand.                                                       *)
(***************************************************************************)
EXTENDS Computer, ConnectionProperties

\* A report is as a process of Connection may make it: what happens between its start
\* and its end never touches the pairing, and its line calls a full report or heartbeat
\* uploaded only under an identity the service still accepts.  (A run with nothing to
\* send and nothing queued says uploaded as well, under any identity.)
ReportsAsPromised == Spec

\* A report the service already holds waits in the queue only after a fault: one for
\* each acknowledgement that was lost, and for each run that broke off between
\* an answer and the removal of the file; and the one that is about to be removed.
DuplicatesBounded ==
  Cardinality({i \in DOMAIN queue : queue[i].taken})
    <= faults + IF step = "settle" THEN 1 ELSE 0

\* last-report.json says uploaded only of a report the service holds, and rejected of
\* one it holds only after a fault: the service refuses the retry of an envelope
\* whose acknowledgement was lost as a duplicate.
LastReportTrue ==
  /\ last.delivery = "uploaded" => last.taken
  /\ last.delivery = "rejected" /\ faults = 0 => ~last.taken

------------------------------------------------------------------------------
\* The schedule starts `run` again and again, the lock is free in between, and the
\* service answers now and then.
Serviced ==
  \A p \in Reporters :
    /\ SF_all(Connecting(p)) /\ SF_all(Begin(p))
    /\ SF_all(\E status \in Answers : ~StaysQueued(status) /\ FlushSend(p, status))
    /\ SF_all(\E status \in Answers : ~StaysQueued(status) /\ step = "send" /\ Send(p, status))

\* The computer is connected, the service knows its identity, and no process is left
\* that was started under another one.
Settled ==
  /\ Connected /\ registration[identityFile] = "active"
  /\ \A p \in Reporters : pc[p] = "idle" \/ dev[p] = identityFile

\* Envelopes of an identity that was signed off do not hold back anything: the service
\* refuses them, and the queue empties under the next identity.
QueueMovesOn == Serviced /\ <>[]Settled => []<>(queue = <<>>)

\* A computer that is connected anew, and whose processes all were started since,
\* reports as the new identity, although agent-state.json still records the
\* report of the old one.
ReportingResumes ==
  Serviced /\ <>[]Settled =>
    []<>(\E p \in Reporters : dev[p] = identityFile /\ told[p] = Line("uploaded", "full"))

=============================================================================
