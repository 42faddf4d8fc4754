SPECIFICATION LiveSpec
CONSTANTS
  Ids = {d1}
  None = None
  Torn = Torn
  Shells = {app}
  Reporters = {run}
  Answers = {0, 200}
  FaultKinds = {}
  MaxFaults = 0
PROPERTY ListenerCloses
