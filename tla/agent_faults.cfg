SPECIFICATION LiveSpec
CONSTANTS
  FullEvery = 2
  HeartbeatEvery = 1
  MaxItems = 2
  Answers = {0, 200, 404}
  Callers = {"background"}
  FaultKinds = {"error", "crash", "damage", "clock", "answer", "unread"}
  MaxFaults = 1
  MaxClock = 3
  MaxEnvelopes = 11
INVARIANTS TypeOK StateBackedByEvidence LastReportHonest QueueBounded FlushKeepsOrder
PROPERTIES DeliveryContract QueueDrains OverdueReportIsMade
