SPECIFICATION Spec
CONSTANTS
  a1 = a1
  a2 = a2
  jwt = jwt
  rate = rate
  c1 = c1
  v1 = v1
  v2 = v2
  Apis = {a1, a2}
  Plugins = {jwt, rate}
  RateLimiting = rate
  Consumers = {c1}
  Groups = {}
  Nobody = Nobody
  Versions = {v1, v2}
  Absent = Absent
  MaxCredentials = 2
  Tries = 2
  MaxFaults = 1
  MaxPageSize = 2
  Input <- ApiReleases
  InputGroups <- NoGroups
  Limits <- ConsumerLimits
INVARIANT ApisConverged
PROPERTY OverridesSurvive
