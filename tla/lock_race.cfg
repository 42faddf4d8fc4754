SPECIFICATION Spec
CONSTANTS
  Procs = {p1, p2, p3}
  StaleAfter = 2
  Wait = 1
  MaxRun = 2
  MaxFaults = 1
  MaxSeized = 3
SYMMETRY ProcSymmetry
INVARIANT MutualExclusion
