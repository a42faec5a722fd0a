CONSTANTS
  a1 = a1
  a2 = a2
  Partitions <- MCPartitions
  NumItems = 3
  PartOf <- MCPartOf
  Units <- MCUnits
  Capacity = 1
  Slots <- MCSlots
  BatchSize = 1
  Deadlines = {2, 3}
SPECIFICATION Spec
INVARIANTS
  TypeOK
  ReportedOnce
PROPERTY
  TryAssignCompletes
CHECK_DEADLOCK FALSE
