SPECIFICATION Spec
CONSTANTS
  Nothing = Nothing
  Nobody = Nobody
  Gone = Gone
  NoCode = NoCode
  Players = {p1}
  PartyMembers = {p1, p2, p3}
  GiftPlayers = {p1, p2}
  Watched = {p1}
  Requests = {}
  Counts = {}
  Given <- SmallGifts
  RoomIds = {q1}
  PartyIds = {q1}
  maxPartySize = 2
  Skilled = {}
  MaxSeconds = 1
  LastSecond = 0
  MaxCredit = 0
  Amounts = {}
  DueTimes = {}
  LastDay = 0
  MaxFlags = 0
  MaxLoans = 0
  MaxTotal = 0
  MaxGifts = 0
  ItemTypes = {}
  PartySockets = {}
  TradeSockets = {}
  EstateSockets = {}
  Instances = {i1}
  Sockets = {s1}
  Changes = {x1}
  Subscriptions = {}
INVARIANT CurrencyReaches
CHECK_DEADLOCK FALSE
