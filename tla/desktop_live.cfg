SPECIFICATION LiveSpec
CONSTANTS
  Connects = {c1}
  Reloads = {r1}
  Every = 2
  WakeGap = 1
  AfterWake = 1
  Jumps <- SleepAndSetBack
  SetBacks = {0}
  MaxJumps = 1
  MaxClock = 3
PROPERTIES ChecksEnd TicksGoOn PageCatchesUp
