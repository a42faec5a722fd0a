CONSTANTS
  Null = Null
  Sessions <- MCSessions
  Ts <- MCTs
  MaxRunsValues <- MCMaxRunsValues
  DefaultSlots = 3
  MaxHeld = 2
SPECIFICATION Spec
INVARIANT TypeOK
INVARIANT ActiveFollowsNewestSession
CHECK_DEADLOCK FALSE
