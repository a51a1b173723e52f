SPECIFICATION Spec
CONSTANTS
  a1 = a1
  jwt = jwt
  rate = rate
  c1 = c1
  c2 = c2
  g1 = g1
  g2 = g2
  v1 = v1
  v2 = v2
  v3 = v3
  Apis = {a1}
  Plugins = {jwt, rate}
  RateLimiting = rate
  Consumers = {c1, c2}
  Groups = {g1, g2}
  Nobody = Nobody
  Versions = {v1, v2}
  Absent = Absent
  MaxCredentials = 4
  Tries = 2
  MaxFaults = 2
  InputGroups <- Releases
  Limits <- LimitTakenAway
  Deployed <- OneApi
INVARIANT DeletesTheRateLimit
