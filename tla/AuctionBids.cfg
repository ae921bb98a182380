SPECIFICATION Spec
CONSTANTS
  Players = {p1, p2}
  Requests = {r1, r2, r3}
  Finalizers = {}
  Servers = {r1, r2, r3}
  ServerOf <- OwnServer
  Amounts = {1, 2, 3}
  StartPrices = {0}
  MaxRetries = 3
  IoErrors = FALSE
  Nobody = Nobody
SYMMETRY Symmetry
INVARIANTS TypeOK NoBidLost AcceptedAmountsDiffer RetriesSuffice
PROPERTIES ImplementsBidding
