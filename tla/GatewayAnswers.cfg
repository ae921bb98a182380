SPECIFICATION Spec
CONSTANTS
  NoCode = NoCode
  c1 = c1
  c2 = c2
  p1 = p1
  Players = {p1}
  Clients = {c1}
  Sockets = {1, 2}
  TokenOf <- OnePlayer
  MaxSeq = 2
  maxReconnectAttempts = 1
  Nobody = Nobody
INVARIANTS TypeOK NoneSwallowed LoneSocketMapped
PROPERTIES AnswerFits
CHECK_DEADLOCK FALSE
