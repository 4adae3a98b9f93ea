SPECIFICATION Spec
CONSTANTS
  Ids = {t1}
  Proxies = {p1}
  Kinds = {"import", "export", "tree", "treeExport", "hash"}
  Chunks = 2
  TreeFiles = 2
  MaxSessions = 2
  None = None
INVARIANTS Serialised LockGivenBack LandsWhole
CHECK_DEADLOCK FALSE
