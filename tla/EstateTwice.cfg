SPECIFICATION Spec
CONSTANTS
  Owners = {o1}
  Visitors = {v1}
  Requests = {r1, r2}
  Servers = {s1, s2}
  r1 = r1
  s1 = s1
  s2 = s2
  ServerOf <- TwoServers
  StampOf <- SameStamp
  MayLapse = FALSE
  NoTask = NoTask
INVARIANT OneConstruction
