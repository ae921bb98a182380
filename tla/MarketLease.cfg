SPECIFICATION Spec
CONSTANTS
  Players = {p1, p2}
  Trades = {t1}
  Requests = {r1, r2, r3}
  Nobody = Nobody
  Stamps = {1, 2}
  MayLapse = TRUE
SYMMETRY RequestSymmetry
INVARIANT ReleasedOnReturn
