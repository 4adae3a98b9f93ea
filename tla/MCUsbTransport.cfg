SPECIFICATION FairSpec
CONSTANTS
  NSlots = 3
  Chunk = 2
  MinLimit = 2
  StartLimit = 3
  MaxLen = 3
  MaxCalls = 2
INVARIANTS KernelHoldsItsSlots FinishedCallIsClean ReportedWasMoved
PROPERTIES CallReturns
CHECK_DEADLOCK FALSE
