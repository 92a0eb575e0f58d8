CONSTANTS
  Rules = {1, 2}
  Writes <- WritesOf
  Matching = {{1, 2}}
  Roots = {e1, e2}
  MaxDepth = 1
  MaxFanout = 2
  FanoutSize = 1
  Restored <- Granted
  Caps = {0}
  MaxGrants = 1
  MaxLoose = 1
  NoRoot = NoRoot
SPECIFICATION Spec
SYMMETRY Interchangeable
INVARIANTS TypeOK ChainsEnd FanoutIsBudgeted WritesWithinCap
CHECK_DEADLOCK FALSE
