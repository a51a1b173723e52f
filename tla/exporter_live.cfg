SPECIFICATION FairSpec
CONSTANTS
  Clusters = {0}
  Partitions = {p}
  LogEnd = 2
  Requests = {r1, r2}
  Cancelled = Cancelled
  Size <- OneEach
PROPERTIES
  RequestEnds
  GoroutinesDrain
