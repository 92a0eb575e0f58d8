CONSTANTS
  LogCap = 3
  MaxSeals = 5
  MaxBackups = 2
SPECIFICATION Spec
INVARIANTS TypeOK EmittedIsOneChain EvidenceIsInOrder
PROPERTIES AdvanceOnly
