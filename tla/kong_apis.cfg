SPECIFICATION FairSpec
CONSTANTS
  a1 = a1
  a2 = a2
  a3 = a3
  a4 = a4
  jwt = jwt
  acl = acl
  v1 = v1
  v2 = v2
  v3 = v3
  Apis = {a1, a2, a3, a4}
  Plugins = {jwt, acl}
  Consumers = {}
  Groups = {}
  Nobody = Nobody
  Versions = {v1, v2, v3}
  Absent = Absent
  MaxCredentials = 0
  Tries = 2
  MaxFaults = 3
  Input <- ThreeReleases
  MaxPageSize = 3
INVARIANTS
  TypeOK
  DoneMeansConverged
PROPERTIES
  NoOutage
  RunsComplete
