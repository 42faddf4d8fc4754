SPECIFICATION Spec
CONSTANTS
  LimitMinutes = 2
  Minute    = 2
  Tolerance = 1
  Never     = Never
  Worlds    <- UnreadableRegistryWorlds
INVARIANTS
  PassIsEarned
CHECK_DEADLOCK FALSE
