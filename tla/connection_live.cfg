SPECIFICATION ComputerLiveSpec
CONSTANTS
  Ids = {d1, d2}
  None = None
  Torn = Torn
  Shells = {app}
  Reporters = {run}
  Manual = {}
  Scheduled = {"full"}
  MaxItems = 1
  Answers = {0, 200, 404, 409}
  FaultKinds = {"error", "crash", "answer"}
  MaxFaults = 1
PROPERTIES NobodyIsTrapped QueueMovesOn ReportingResumes
