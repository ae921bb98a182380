SPECIFICATION FairSpec
CONSTANTS
  Players = {p1, p2}
  Requests = {r1, r2}
  Finalizers = {f1}
  Servers = {"server"}
  ServerOf <- OneServer
  Amounts = {1, 2}
  StartPrices = {0}
  MaxRetries = 2
  IoErrors = TRUE
  Nobody = Nobody
INVARIANTS BidsAscend WinnerBid
PROPERTY BidAnswered
