CONSTANTS
  Replicas = {r1, r2}
  Events = {e1, e2}
  MaxAttempts = 3
  MaxBuffer = 1
  BatchSize = 1
SPECIFICATION Spec
SYMMETRY Interchangeable
INVARIANTS TypeOK OneChain GivesUpOnlyToGrowth LinkedOncePerAttempt NothingVanishes
PROPERTY SealsAsOneLog
CHECK_DEADLOCK FALSE
