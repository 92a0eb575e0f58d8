CONSTANTS
  Admins = {ann, bob, cyd}
  Proposals = {p1}
  Requests = {r1, r2, r3}
  NoEntry = NoEntry
  MaxRuns = 2
SPECIFICATION Spec
INVARIANTS TypeOK ExecutedByAnother ApprovedMeansApplied
PROPERTIES SettledStaysSettled
CHECK_DEADLOCK FALSE
