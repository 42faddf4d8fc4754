SPECIFICATION Spec
CONSTANTS
  LimitMinutes = 2
  Minute    = 2
  Tolerance = 1
  Never     = Never
  Worlds    <- HonestWorlds
INVARIANTS
  PassIsEarned
  FailIsDeserved
  DecidedWhenRead
  DetailIsTrue
  LockLinesAreTrue
  RowAgrees
CHECK_DEADLOCK FALSE
