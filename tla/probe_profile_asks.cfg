SPECIFICATION Spec
CONSTANTS
  LimitMinutes = 2
  Minute    = 2
  Tolerance = 1
  Never     = Never
  Worlds    <- AskingWorlds
INVARIANTS
  FailIsDeserved
CHECK_DEADLOCK FALSE
