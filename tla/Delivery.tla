------------------------------ MODULE Delivery ------------------------------
(***************************************************************************)
(* What the agent promises about every envelope it signs, whatever is      *)
(* interrupted and whatever the service answers: it is tried at once, an   *)
(* envelope that is not settled stays in the queue, and one leaves the     *)
(* queue only because the service gave a definitive answer to it, because  *)
(* the queue was over its limit, or because its file was damaged.          *)
(***************************************************************************)
EXTENDS Naturals, FiniteSets

CONSTANTS Ids, MaxItems

VARIABLES
  status,    \* what became of each envelope
  answer     \* the last definitive answer of the service to each

Settled == {"uploaded", "rejected"}
Statuses == Settled \cup {"none", "new", "queued", "aside", "dropped", "lost"}

Queued == {i \in Ids : status[i] = "queued"}

Init == /\ status = [i \in Ids |-> "none"]
        /\ answer = [i \in Ids |-> "none"]

Sign(i) == /\ status[i] = "none"
           /\ status' = [status EXCEPT ![i] = "new"]
           /\ UNCHANGED answer

\* The service settles an envelope that was never queued ...
Deliver(i, v) == /\ status[i] = "new"
                 /\ status' = [status EXCEPT ![i] = v]
                 /\ answer' = [answer EXCEPT ![i] = v]

\* ... or answers one that is queued, which leaves the queue in a later step.
Answer(i, v) == /\ status[i] = "queued"
                /\ answer' = [answer EXCEPT ![i] = v]
                /\ UNCHANGED status

Settle(i) == /\ status[i] = "queued"
             /\ answer[i] \in Settled
             /\ status' = [status EXCEPT ![i] = answer[i]]
             /\ UNCHANGED answer

Store(i) == /\ status[i] = "new"
            /\ status' = [status EXCEPT ![i] = "queued"]
            /\ UNCHANGED answer

Drop(i) == /\ status[i] = "queued"
           /\ Cardinality(Queued) > MaxItems
           /\ status' = [status EXCEPT ![i] = "dropped"]
           /\ UNCHANGED answer

SetAside(S) ==
  /\ status' = [i \in Ids |-> IF i \in S THEN "aside" ELSE status[i]]
  /\ UNCHANGED answer

\* The run ended before the envelope was sent or queued.
Lose(i) == /\ status[i] = "new"
           /\ status' = [status EXCEPT ![i] = "lost"]
           /\ UNCHANGED answer

Next ==
  \/ \E i \in Ids : Sign(i) \/ Settle(i) \/ Store(i) \/ Drop(i) \/ Lose(i)
  \/ \E i \in Ids, v \in Settled : Deliver(i, v) \/ Answer(i, v)
  \/ \E S \in SUBSET Queued : SetAside(S)

Spec == Init /\ [][Next]_<<status, answer>>

=============================================================================
