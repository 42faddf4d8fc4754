SPECIFICATION Spec
CONSTANTS
  FullEvery = 2
  HeartbeatEvery = 1
  MaxItems = 2
  Answers = {200}
  Callers = {"manual", "background"}
  FaultKinds = {"error"}
  MaxFaults = 2
  MaxClock = 3
  MaxEnvelopes = 12
INVARIANT FailedCheckSentNothing
