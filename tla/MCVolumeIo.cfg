SPECIFICATION Spec
CONSTANTS
  Disks <- MCDisks
  Passwords = {"old", "new", "other"}
  MinHdr = 1
  MaxHdr = 3
  ValidHdr = {1, 2}
  None = None
  WriteChunk = 4
  Requests <- MCRequests
  Claims <- MCClaims
  MaxCalls = 1
  Modulus = 13
  Junk = {12}
INVARIANT MountedRight
PROPERTY Flat
CHECK_DEADLOCK FALSE
