CONSTANTS
  Replicas = {r1}
  Connections = {c1, c2, c3, c4}
  Grace = 5
  Throttle = 1
  MaxDelay = 0
  MaxLost = 0
  MaxReseals = 0
  MaxTime = 4
SPECIFICATION SessionSpec
SYMMETRY Interchangeable
INVARIANTS NeverFalseKills
CHECK_DEADLOCK FALSE
