\* One partition, two overlapping requests, every failure.
SPECIFICATION Spec
CONSTANTS
  Clusters = {0}
  Partitions = {p}
  LogEnd = 3
  Requests = {r1, r2}
  Cancelled = Cancelled
  Size <- PoisonInside
SYMMETRY Symmetry
INVARIANTS
  TypeOK
  CommittedWithinFetched
  SampleWrittenOnce
  StoredIsLatest
PROPERTY ImplementsConsumer
