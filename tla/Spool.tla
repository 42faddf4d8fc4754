-------------------------------- MODULE Spool --------------------------------
(***************************************************************************)
(* internal/reporting: what an envelope is, as far as the queue can tell   *)
(* two of them apart, and the order in which queued envelopes are sent and *)
(* dropped.                                                                *)
(***************************************************************************)
EXTENDS Naturals

Kinds == {"full", "heartbeat"}

Sources == {"manual", "background"}

\* An envelope.  n numbers envelopes in the order they are signed: it stands for
\* the digest that names the queue file, and decides as the file's
\* modification time does.  at is CreatedAt.
Envelope == [n : Nat \ {0}, kind : Kinds, at : Nat, src : Sources]

\* Slip: the newest first.
Before_Reversed(e, f) == e.n > f.n

\* The comparison of Pending: the signed time first, a full report before the
\* heartbeat of the same instant, then the time the file was written.
Before(e, f) ==
  \/ e.at < f.at
  \/ /\ e.at = f.at
     /\ e.kind # f.kind
     /\ e.kind = "full"
  \/ /\ e.at = f.at
     /\ e.kind = f.kind
     /\ e.n < f.n

\* Slip: the files in whatever order the directory lists them.
IsOldest_Unsorted(e, S) == e \in S

IsOldest(e, S) == e \in S /\ \A f \in S \ {e} : Before(e, f)

=============================================================================
