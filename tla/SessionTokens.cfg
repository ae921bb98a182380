SPECIFICATION FairSpec
CONSTANTS
  wx = wx
  acct = acct
  Players = {wx, acct}
  Requests = {1, 2, 3}
  KindOf <- MCKindOf
  AccessLife = 1
  RefreshLife = 2
  MaxTime = 2
  MayFail = TRUE
  None = None
INVARIANTS
  TypeOK
  NewOnce
  ClientHoldsSession
  LogoutIsFinal
PROPERTIES
  RevokedStaysRevoked
  StaleEnds
CHECK_DEADLOCK FALSE
