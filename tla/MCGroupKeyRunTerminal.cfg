CONSTANTS
  g1 = g1
  w1 = w1
  NoWorker = NoWorker
  Runs <- MCRuns
  Workers <- MCWorkers
  TimeoutSet <- MCRuns
SPECIFICATION Spec
PROPERTY TerminalIsFinal
