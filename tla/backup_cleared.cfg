SPECIFICATION Spec
CONSTANTS
  n1 = n1
  n2 = n2
  t1 = t1
  t2 = t2
  system = system
  Nodes = {n1, n2}
  AllTables = {t1, t2, system}
  Ignored = {system}
  Providers = {"azure"}
  SharedPath = SharedPath
  Nowhere = Nowhere
  MaxDay = 0
  MaxWrites = 1
  MaxJobs = 1
  MaxFaults = 1
CHECK_DEADLOCK FALSE
INVARIANT ClearedIsCopied
