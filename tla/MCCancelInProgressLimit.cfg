CONSTANTS
  p1 = p1
  p2 = p2
  Procs <- MCProcs
  NumRuns = 3
  MaxRuns = 1
  Paused = {2}
  KeyErrors = {}
SPECIFICATION Spec
INVARIANT ActiveWithinMaxRuns
