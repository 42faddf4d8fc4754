------------------------------ MODULE Statuses ------------------------------
(***************************************************************************)
(* What an HTTP status means to the client: the sender of                  *)
(* cmd/device-checker and the delivery rules of internal/agent.  0 stands  *)
(* for no answer.                                                          *)
(***************************************************************************)
EXTENDS Naturals

Verdicts == {"uploaded", "queued", "rejected"}

Success(status) == status \in 200..299
Refusal(status) == status \in 400..499 /\ status # 429

\* Slip: a status no case covers leaves the initial delivery in place.
Classify_Uncovered(status) ==
  IF Success(status) THEN "uploaded" ELSE IF status = 0 THEN "queued" ELSE "not_sent"

\* The delivery rules.  The sender returns an error for anything but a 2xx.
Classify(status) ==
  CASE Success(status) -> "uploaded"
    [] Refusal(status) -> "rejected"
    [] OTHER           -> "queued"

\* Slip: everything the service did not take is kept for another attempt.
StaysQueued_UnlessTaken(status) == ~Success(status)

StaysQueued(status) == Classify(status) = "queued"

=============================================================================
