CONSTANTS
  p1 = p1
  p2 = p2
  Procs = {p1}
  NumRuns = 4
  MaxRuns = 1
  Paused = {2}
  KeyErrors = {4}
SPECIFICATION Spec
INVARIANTS
  TypeOK
PROPERTIES
  NoStartAfterCancel
  FailureHandled
