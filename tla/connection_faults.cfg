SPECIFICATION ComputerSpec
CONSTANTS
  Ids = {d1, d2}
  None = None
  Torn = Torn
  Shells = {app}
  Reporters = {run}
  Manual = {}
  Scheduled = {"full", "heartbeat"}
  MaxItems = 1
  Answers = {0, 200, 404, 409}
  FaultKinds = {"error", "crash", "answer"}
  MaxFaults = 1
INVARIANTS TypeOK PairedMeansRegistered RevokedBeforeRemoval CleanDisconnectRevokes FreshKeyAfterDisconnect DuplicatesBounded LastReportTrue
PROPERTY ReportsAsPromised
