CONSTANTS
  w1 = w1
  w2 = w2
  a1 = a1
  a2 = a2
  p1 = p1
  p2 = p2
  s1 = s1
  s2 = s2
  s3 = s3
  k1 = k1
  k2 = k2
  Workers <- MCWorkersLive
  Actions <- MCActionsLive
  WorkerActions <- MCWorkerActionsLive
  MaxRuns <- MCMaxRunsLive
  Assigners <- MCAssigners
  MaxBatch = 1
  MustReplenish = {TRUE}
  WorkerSnapshots <- MCWorkerSnapshotsLive
  SlotIds <- MCSlotIds
  AckIds <- MCAckIds
SPECIFICATION Spec
PROPERTY ReplenishCompletes
