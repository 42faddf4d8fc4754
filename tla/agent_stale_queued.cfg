SPECIFICATION Spec
CONSTANTS
  FullEvery = 2
  HeartbeatEvery = 1
  MaxItems = 2
  Answers = {0, 200, 404}
  Callers = {"manual", "background"}
  FaultKinds = {"crash"}
  MaxFaults = 1
  MaxClock = 3
  MaxEnvelopes = 9
INVARIANT QueuedMeansWaiting
