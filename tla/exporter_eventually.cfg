SPECIFICATION FairCalmSpec
CONSTANTS
  Clusters = {0}
  Partitions = {p}
  LogEnd = 2
  Requests = {r1}
  Cancelled = Cancelled
  Size <- OneEach
PROPERTY EventuallyExported
