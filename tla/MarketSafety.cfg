SPECIFICATION Spec
CONSTANTS
  Players = {p1, p2, p3}
  Trades = {t1}
  Requests = {r1, r2, r3, r4}
  Nobody = Nobody
  Stamps = {1}
  MayLapse = FALSE
SYMMETRY RequestSymmetry
INVARIANTS TypeOK OneSale BuyerOfRecord SectionOwnsLock
PROPERTIES OpenTradeStaysListed ImplementsSale
