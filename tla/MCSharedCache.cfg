CONSTANTS
  Replicas = {r1, r2}
  Callers = {c1, c2}
  MaxWrites = 2
  MaxFills = 2
SPECIFICATION Spec
SYMMETRY Interchangeable
INVARIANTS TypeOK StaleOnlyByJoining
