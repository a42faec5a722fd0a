CONSTANTS
  UserKeys = {u1}
  UserVals = {v1, v2}
  CronExprs = {c1}
  CronNames = {n1}
  Nil = Nil
SPECIFICATION Spec
INVARIANT TypeOK
INVARIANT HatchetKeysWin
CHECK_DEADLOCK FALSE
