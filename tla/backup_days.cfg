SPECIFICATION FairSpec
CONSTANTS
  n1 = n1
  n2 = n2
  t1 = t1
  t2 = t2
  system = system
  Nodes = {n1, n2}
  AllTables = {t1, system}
  Ignored = {system}
  Providers = {"azure", "aws", "gcloud"}
  SharedPath = SharedPath
  Nowhere = Nowhere
  MaxDay = 1
  MaxWrites = 1
  MaxJobs = 2
  MaxFaults = 1
CHECK_DEADLOCK FALSE
INVARIANTS
  TypeOK
  CopiesAreTheSnapshot
  FreshForItsDay
  DoneMeansBackedUp
PROPERTY JobEnds
