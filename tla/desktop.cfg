SPECIFICATION Spec
CONSTANTS
  Connects = {c1}
  Reloads = {r1, r2}
  Every = 2
  WakeGap = 1
  AfterWake = 1
  Jumps <- SleepAndSetBack
  SetBacks = {2}
  MaxJumps = 1
  MaxClock = 3
SYMMETRY ReloadsAlike
INVARIANT TypeOK
PROPERTIES FailureStaysUntilNewer NeverOlder
