SPECIFICATION Spec
CONSTANTS
  Players = {p1, p2}
  Requests = {r1, r2}
  Finalizers = {}
  Servers = {"server"}
  ServerOf <- OneServer
  Amounts = {1, 2}
  StartPrices = {0}
  MaxRetries = 3
  IoErrors = FALSE
  Nobody = Nobody
INVARIANT NoBidLost
