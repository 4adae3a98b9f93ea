SPECIFICATION FairSpec
CONSTANTS
  NBlocks = 2
  bs = 2
  MaxBlocks = 1
  Requests <- MCRequests
  TagMod = 4
  MaxCalls = 3
  MaxFaults = 2
  MaxSpin = 1
INVARIANTS WritesExact PassedReadIsTrue FlushReachesMedium
PROPERTIES RequestReturns
CHECK_DEADLOCK FALSE
