CONSTANTS
  Replicas = {r1, r2}
  Connections = {c1, c2}
  Grace = 3
  Throttle = 3
  MaxDelay = 1
  MaxLost = 1
  MaxReseals = 1
  MaxTime = 8
SPECIFICATION SessionSpec
SYMMETRY Interchangeable
INVARIANTS SessionTypeOK GraceAbsorbs
CHECK_DEADLOCK FALSE
