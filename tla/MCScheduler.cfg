CONSTANTS
  Replicas = {r1, r2}
  OnRedis = {r1, r2}
  Jobs = {1, 2}
  Schedule <- Registry
  Minute = 2
  LookBack = 2
  ClaimTtl = 3
  MaxGap = 2
  MaxLag = 1
  MaxTime = 6
SPECIFICATION Spec
SYMMETRY Interchangeable
INVARIANTS TypeOK FiresAtMostOnce NoneOverlooked
CHECK_DEADLOCK FALSE
