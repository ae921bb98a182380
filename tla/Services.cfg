SPECIFICATION Spec
CONSTANTS
  Nothing = Nothing
  Nobody = Nobody
  Gone = Gone
  NoCode = NoCode
  Players = {p1}
  PartyMembers = {p1, p2, p3}
  GiftPlayers = {p1, p2}
  Watched = {p1}
  Requests = {r1, r2}
  Counts = {1}
  Given <- SmallGifts
  RoomIds = {q1}
  PartyIds = {q1, q2}
  maxPartySize = 2
  Skilled = {p1}
  MaxSeconds = 2
  LastSecond = 4
  MaxCredit = 4
  Amounts = {6}
  DueTimes = {0, 1}
  LastDay = 1
  MaxFlags = 1
  MaxLoans = 1
  MaxTotal = 10
  MaxGifts = 2
  ItemTypes = {t1}
  PartySockets = {a1, a2, a3}
  TradeSockets = {b1}
  EstateSockets = {e1}
  Instances = {i1, i2}
  Sockets = {s1, s2}
  Changes = {x1}
  Subscriptions = {n1}
INVARIANTS TypeOK FloorPaid PartyWellFormed PaidForTimeAway GiftsCounted KnowsLaterMembers AttrReaches RulesAgree CodesPaired OnlyKnownNamesDiffer
CHECK_DEADLOCK FALSE
