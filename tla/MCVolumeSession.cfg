SPECIFICATION FairSpec
CONSTANTS
  t1 = t1  t2 = t2  enc = enc  plain = plain  p1 = p1  p2 = p2  dev = dev
  None = None
  Devices = {dev}
  DeviceOf <- MCDeviceOf
  Threads <- MCThreads
  Vols <- MCVols
  Encrypted <- MCEncrypted
  Btrfs <- MCBtrfs
  Parts <- MCParts
  PartOf <- MCPartOf
  Writers = {"w1"}
  MaxCalls = 2
INVARIANTS ExclusiveWriter FencedHasNoBatch
PROPERTIES GatedWrites EveryCallReturns
CHECK_DEADLOCK FALSE
