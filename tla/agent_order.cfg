SPECIFICATION Spec
CONSTANTS
  FullEvery = 2
  HeartbeatEvery = 1
  MaxItems = 2
  Answers = {0, 200}
  Callers = {"background"}
  FaultKinds = {"unread"}
  MaxFaults = 1
  MaxClock = 3
  MaxEnvelopes = 12
INVARIANT RetriedInOrder
