SPECIFICATION FairSpec
CONSTANTS
  c1 = c1  c2 = c2  o1 = o1  o2 = o2  ui = ui  idle = idle
  v1 = v1  v2 = v2  d1 = d1  d2 = d2  None = None
  Clients = {c1, c2}
  Openers = {o1}
  Lockers = {ui, idle}
  IdleLocker = idle
  Vols = {v1, v2}
  Devs = {d1}
  MaxLocks = 1
  MaxDetach = 1
  MaxLeave = 1
INVARIANTS StateMatchesHandles LeasesAreCounted
PROPERTIES LockReturns DetachIsHandled
CHECK_DEADLOCK FALSE
