------------------------------ MODULE Schedule ------------------------------
(***************************************************************************)
(* internal/schedule: when collection work is due.  Times are clock ticks; *)
(* Never is Go's zero time.Time, the value a missing or unreadable state   *)
(* file is read as.                                                        *)
(***************************************************************************)
EXTENDS Naturals

CONSTANTS
  FullEvery,       \* schedule.FullReportEvery (24 h)
  HeartbeatEvery   \* schedule.HeartbeatEvery (6 h)

ASSUME IntervalsArePositive == /\ FullEvery \in Nat \ {0}
                               /\ HeartbeatEvery \in Nat \ {0}

Never == 0

\* Slip: the period is over one tick early.
Elapsed_Early(now, last, period) == last = Never \/ now + 1 >= last + period

Elapsed(now, last, period) == last = Never \/ now >= last + period

Evaluate(now, state, checkNow) ==
  [full      |-> checkNow \/ Elapsed(now, state.full, FullEvery),
   heartbeat |-> Elapsed(now, state.heartbeat, HeartbeatEvery)]

=============================================================================
