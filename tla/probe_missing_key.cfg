SPECIFICATION Spec
CONSTANTS
  LimitMinutes = 2
  Minute    = 2
  Tolerance = 1
  Never     = Never
  Worlds    <- MissingKeyWorlds
INVARIANTS
  MissingKeyIsUnknown
CHECK_DEADLOCK FALSE
