SPECIFICATION FairSpec
CONSTANTS
  Ids = {}
  Proxies = {p1, p2}
  Kinds = {"import", "export", "tree", "hash"}
  Chunks = 1
  TreeFiles = 2
  MaxSessions = 2
  None = None
PROPERTIES HandlerReturns
CHECK_DEADLOCK FALSE
