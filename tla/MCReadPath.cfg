CONSTANTS
  Callers = {c1, c2}
  Keys = {k1, k2}
  CacheOn = TRUE
  MaxEntries = 1
  MaxWrites = 2
  MaxResets = 1
SPECIFICATION FairSpec
INVARIANTS TypeOK AnswersAreOwn StaleOnlyByOverlap
PROPERTIES EveryReadEnds
