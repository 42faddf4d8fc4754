SPECIFICATION Spec
CONSTANTS
  Connects = {c1}
  Reloads = {r1}
  Every = 2
  WakeGap = 1
  AfterWake = 1
  Jumps <- SleepAndSetBack
  SetBacks = {2}
  MaxJumps = 1
  MaxClock = 3
PROPERTY NoOldGreen
