--------------------------- MODULE GatewayProofs ---------------------------
(***************************************************************************)
(* Proofs about Gateway for any number of players, clients, sockets and    *)
(* requests: its types, the map of a player's socket, and that no answer   *)
(* is swallowed or taken for another.                                      *)
(***************************************************************************)
EXTENDS Gateway, TLAPS

-----------------------------------------------------------------------------
\* The codes a client sends, and what the server makes of a message

LEMMA RequestCodes ==
  ASSUME NEW c \in Codes
  PROVE  c \in Nat /\ isRequest(c)
  <1> DEFINE Even(S) == \A n \in DOMAIN S :
                          S[n].req \in Nat /\ S[n].req <= 6016 /\ S[n].req % 2 = 0
  <1>1. Even(SystemCodes) /\ Even(AuthCodes) /\ Even(PlayerCodes)
    BY SMT DEF SystemCodes, AuthCodes, PlayerCodes, Message
  <1>2. Even(BattleCodes) /\ Even(EconomyCodes)
    BY SMT DEF BattleCodes, EconomyCodes, Message
  <1>3. Even(EstateCodes) /\ Even(SocialCodes)
    BY SMT DEF EstateCodes, SocialCodes, Message
  <1>4. ASSUME NEW m \in Modules PROVE Even(Sections[m])
    <2> HIDE DEF Even
    <2>1. QED
      BY <1>1, <1>2, <1>3 DEF Modules, Sections
  <1>5. ASSUME c \in AllRequests PROVE c \in Nat /\ c <= 6016 /\ c % 2 = 0
    <2>1. PICK m \in Modules : c \in RequestsOf(Sections[m])
      BY <1>5 DEF AllRequests
    <2>2. PICK n \in DOMAIN Sections[m] : c = Sections[m][n].req
      BY <2>1 DEF RequestsOf
    <2>3. QED
      BY <1>4, <2>2
  <1>6. CASE c = ClientUseItem
    BY <1>6, SMT DEF ClientUseItem, ClientCodes, Message, isRequest, PushBase
  <1>7. QED
    BY <1>5, <1>6, SMT DEF Codes, isRequest, PushBase

\* Every such code has a response code.
LEMMA ResponseCode ==
  ASSUME NEW c \in Codes
  PROVE  getResponseCode(c) \in Nat /\ getResponseCode(c) # NoCode
  BY RequestCodes, NoCodeAssumption DEF getResponseCode

\* The requests the clients send by name are among them.
LEMMA NamedCodes ==
  /\ HEARTBEAT_REQ \in Codes /\ HEARTBEAT_REQ = 0
  /\ GET_INVENTORY_REQ \in Codes /\ ClientUseItem \in Codes
  <1>1. HEARTBEAT_REQ \in RequestsOf(SystemCodes)
    BY DEF HEARTBEAT_REQ, SystemCodes, RequestsOf
  <1>2. GET_INVENTORY_REQ \in RequestsOf(PlayerCodes)
    BY DEF GET_INVENTORY_REQ, PlayerCodes, RequestsOf
  <1>3. RequestsOf(SystemCodes) \subseteq AllRequests /\ RequestsOf(PlayerCodes) \subseteq AllRequests
    <2>1. /\ "SYSTEM" \in Modules /\ Sections["SYSTEM"] = SystemCodes
          /\ "PLAYER" \in Modules /\ Sections["PLAYER"] = PlayerCodes
      BY DEF Modules, Sections
    <2>2. QED
      BY <2>1, Zenon DEF AllRequests
  <1>4. HEARTBEAT_REQ = 0
    BY SMT DEF HEARTBEAT_REQ, SystemCodes, Message
  <1>5. QED
    BY <1>1, <1>2, <1>3, <1>4 DEF Codes

\* A JSON message is read as it was sent; of any other at most the number is
\* left, and it counts as a heartbeat.
LEMMA Parsed ==
  ASSUME NEW m \in Requests
  PROVE  /\ Parse(m).code \in Codes
         /\ Parse(m).seq \in {0, m.seq}
         /\ m.fmt = "json" => Parse(m) = [ok |-> TRUE, isProtobuf |-> FALSE,
                                          code |-> m.code, seq |-> m.seq]
         /\ m.fmt # "json" => Parse(m).seq = 0 \/ Parse(m).isProtobuf
         /\ Parse(m).isProtobuf \in BOOLEAN
         /\ m.seq \in 1..MaxSeq /\ m.socket \in Sockets /\ m.code \in Codes
  <1>1. m.seq \in 1..MaxSeq /\ m.socket \in Sockets /\ m.code \in Codes
    BY DEF Requests
  <1>2. CASE m.fmt = "json"
    BY <1>1, <1>2 DEF Parse
  <1>3. CASE m.fmt # "json"
    BY <1>1, <1>3, NamedCodes DEF Parse
  <1>4. QED
    BY <1>1, <1>2, <1>3

\* Whatever the handler does, a routed message is answered with the response
\* code of what was read of it.
LEMMA RouteAnswers ==
  ASSUME NEW t, t.msg \in Requests, Route(t)
  PROVE  \E e \in BOOLEAN :
           Emit(t.msg.socket, getResponseCode(Parse(t.msg).code), Parse(t.msg).seq,
                e, Parse(t.msg).isProtobuf, t.msg.seq)
  <1>1. getResponseCode(Parse(t.msg).code) # NoCode
    BY Parsed, ResponseCode
  <1>2. QED
    BY <1>1 DEF Route, SendError

-----------------------------------------------------------------------------
\* Types

Messages == [msg : Requests, at : {"verify", "route"}, player : Players \cup {Nobody}]
Answers == [socket : Sockets, code : Nat, seq : 0..MaxSeq, error : BOOLEAN,
            framed : BOOLEAN, for : 0..MaxSeq]
Formats == {x.fmt : x \in Sent}
Awaited == [seq : 1..MaxSeq, code : Codes, fmt : Formats, over : SUBSET Sockets]

\* The sets of records that TypeOK describes by their fields.
RecordTypes ==
  /\ tasks \subseteq Messages
  /\ answers \subseteq Answers
  /\ pending \in [Clients -> SUBSET Awaited]
  /\ \A c \in Clients : \A m \in pending[c] : m.seq <= seq[c]

TypeInv == TypeOK /\ RecordTypes

LEMMA TypeInit == Init => TypeInv
  BY TokenAssumption, BoundAssumption DEF Init, TypeInv, TypeOK, RecordTypes, Links

\* What the server sends on a socket is an answer.
LEMMA EmitTypes ==
  ASSUME NEW s \in Sockets, NEW c \in Nat, NEW n \in 0..MaxSeq, NEW e \in BOOLEAN,
         NEW b \in BOOLEAN, NEW f \in 0..MaxSeq, answers \subseteq Answers,
         Emit(s, c, n, e, b, f)
  PROVE  answers' \subseteq Answers
  BY DEF Emit, Answers

LEMMA RoutingTypes ==
  ASSUME TypeInv, NEW m \in Requests, NEW p \in Players \cup {Nobody},
         NEW others \in SUBSET Messages, StartRouting(m, p, others)
  PROVE  tasks' \subseteq Messages /\ answers' \subseteq Answers
  <1>1. CASE Parse(m).ok
    BY <1>1 DEF StartRouting, Task, Messages, TypeInv, RecordTypes
  <1>2. CASE ~Parse(m).ok
    <2>1. tasks' = others /\ Emit(m.socket, 0, 0, TRUE, FALSE, m.seq)
      BY <1>2 DEF StartRouting, SendError
    <2>2. 0 \in Nat /\ 0 \in 0..MaxSeq /\ m.seq \in 0..MaxSeq /\ m.socket \in Sockets
      BY Parsed, BoundAssumption
    <2>3. QED
      BY <2>1, <2>2, EmitTypes DEF TypeInv, RecordTypes
  <1>3. QED
    BY <1>1, <1>2

LEMMA ReconnectTypes ==
  ASSUME TypeOK, NEW c \in Clients, AttemptReconnect(c)
  PROVE  link' \in [Clients -> Links] /\ attempts' \in [Clients -> 0..maxReconnectAttempts]
  <1>1. CASE attempts[c] >= maxReconnectAttempts
    BY <1>1 DEF AttemptReconnect, TypeOK, Links
  <1>2. CASE attempts[c] < maxReconnectAttempts
    <2>1. attempts[c] + 1 \in 0..maxReconnectAttempts
      BY <1>2, BoundAssumption DEF TypeOK
    <2>2. QED
      BY <1>2, <2>1, BoundAssumption DEF AttemptReconnect, TypeOK, Links
  <1>3. QED
    BY <1>1, <1>2, BoundAssumption DEF TypeOK

LEMMA MapTypes ==
  ASSUME TypeOK, NEW s \in Sockets \cup {Nobody}, NEW p \in Players \cup {Nobody}, Map(p, s)
  PROVE  playerSockets' \in [Players -> Sockets \cup {Nobody}]
  BY DEF Map, TypeOK

\* The player a token names.
LEMMA PlayerTypes ==
  ASSUME TypeOK, NEW s \in Sockets
  PROVE  PlayerIn(s) \in Players \cup {Nobody}
  BY TokenAssumption DEF PlayerIn, TypeOK

\* A request, heartbeats included.
LEMMA SendTypes ==
  ASSUME TypeInv, NEW c \in Clients, NEW x \in Codes, NEW f \in Formats, Send(c, x, f)
  PROVE  TypeInv'
  <1> DEFINE q == seq[c] + 1
             over == {s \in up : owner[s] = c}
             m == [seq |-> q, code |-> x, fmt |-> f, over |-> over]
  <1>1. q \in 1..MaxSeq /\ over \in SUBSET Sockets
    BY BoundAssumption DEF Send, TypeInv, TypeOK
  <1>2. m \in Awaited
    BY <1>1 DEF Awaited
  <1>3. /\ seq' = [seq EXCEPT ![c] = q]
        /\ pending' = [pending EXCEPT ![c] = @ \cup {m}]
        /\ wire' = wire \cup {[socket |-> s, seq |-> q, code |-> x, fmt |-> f] : s \in over}
        /\ UNCHANGED <<proto, valid, owner, up, connected, serverVars, answers, link, attempts>>
    BY DEF Send
  <1>4. seq' \in [Clients -> 0..MaxSeq]
    BY <1>1, <1>3 DEF TypeInv, TypeOK
  <1>5. pending' \in [Clients -> SUBSET Awaited]
    BY <1>2, <1>3 DEF TypeInv, RecordTypes
  <1>6. wire' \subseteq Requests
    BY <1>1, <1>3 DEF TypeInv, TypeOK, Requests, Formats
  <1>7. ASSUME NEW d \in Clients, NEW n \in pending'[d] PROVE n.seq <= seq'[d]
    <2>1. CASE n \in pending[d]
      <3>1. n \in Awaited /\ n.seq \in Nat /\ seq[d] \in Nat /\ n.seq <= seq[d]
        BY <2>1, BoundAssumption DEF TypeInv, TypeOK, RecordTypes, Awaited
      <3>2. seq'[d] \in {seq[d], seq[d] + 1}
        BY <1>3 DEF TypeInv, TypeOK
      <3>3. QED
        BY <3>1, <3>2
    <2>2. CASE n = m /\ d = c
      BY <1>1, <1>3, <2>2 DEF TypeInv, TypeOK
    <2>3. QED
      BY <1>3, <1>7, <2>1, <2>2 DEF TypeInv, RecordTypes
  <1> HIDE DEF q, over, m
  <1>8. ASSUME NEW d \in Clients, NEW n \in pending'[d]
        PROVE  n.seq \in 1..seq'[d] /\ n.code \in Codes /\ n.over \subseteq Sockets
    <2>1. n \in Awaited /\ n.seq <= seq'[d] /\ seq'[d] \in Nat
      BY <1>4, <1>5, <1>7, <1>8, BoundAssumption
    <2>2. QED
      BY <2>1, BoundAssumption DEF Awaited
  <1>9. TypeOK'
    BY <1>3, <1>4, <1>6, <1>8 DEF TypeInv, TypeOK, serverVars
  <1>10. RecordTypes'
    BY <1>3, <1>5, <1>7 DEF TypeInv, RecordTypes, serverVars
  <1>11. QED
    BY <1>9, <1>10 DEF TypeInv

\* Fewer requests to wait for: what is left has its types.
LEMMA FewerPending ==
  ASSUME TypeInv, UNCHANGED seq, pending' \in [Clients -> SUBSET Awaited],
         \A c \in Clients : pending'[c] \subseteq pending[c]
  PROVE  /\ \A c \in Clients : \A m \in pending'[c] :
              /\ m.seq \in 1..seq'[c] /\ m.code \in Codes /\ m.over \subseteq Sockets
         /\ \A c \in Clients : \A m \in pending'[c] : m.seq <= seq'[c]
  BY DEF TypeInv, TypeOK, RecordTypes

LEMMA TypeStep == TypeInv /\ [Next]_vars => TypeInv'
  <1> SUFFICES ASSUME TypeInv, [Next]_vars PROVE TypeInv'
    OBVIOUS
  <1> USE DEF serverVars, clientVars
  <1>1. ASSUME UNCHANGED <<seq, pending, proto>>,
               valid' \subseteq Clients,
               owner' \in [Sockets -> Clients \cup {Nobody}],
               up' \subseteq connected',
               connected' \cup joining' \subseteq {s \in Sockets : owner'[s] # Nobody},
               data' \in [Sockets -> Players \cup {Nobody}],
               playerSockets' \in [Players -> Sockets \cup {Nobody}],
               wire' \subseteq Requests, tasks' \subseteq Messages, answers' \subseteq Answers,
               link' \in [Clients -> Links],
               attempts' \in [Clients -> 0..maxReconnectAttempts]
        PROVE  TypeInv'
    BY <1>1 DEF TypeInv, TypeOK, RecordTypes, Messages, Answers
  <1>2. ASSUME NEW c \in Clients, NEW s \in Sockets, Dial(c, s) PROVE TypeInv'
    <2>1. owner' \in [Sockets -> Clients \cup {Nobody}]
      BY <1>2 DEF Dial, TypeInv, TypeOK
    <2>2. connected' \cup joining' \subseteq {x \in Sockets : owner'[x] # Nobody}
      BY <1>2, NobodyAssumption DEF Dial, TypeInv, TypeOK
    <2>3. link' \in [Clients -> Links] /\ attempts' \in [Clients -> 0..maxReconnectAttempts]
      BY <1>2, BoundAssumption DEF Dial, TypeInv, TypeOK, Links
    <2>4. up' \subseteq connected'
      BY <1>2 DEF Dial, TypeInv, TypeOK
    <2>5. QED
      BY <1>1, <1>2, <2>1, <2>2, <2>3, <2>4 DEF Dial, TypeInv, TypeOK, RecordTypes
  <1>3. ASSUME NEW c \in Clients, DialFails(c) PROVE TypeInv'
    <2>1. link' \in [Clients -> Links] /\ attempts' \in [Clients -> 0..maxReconnectAttempts]
      BY <1>3, ReconnectTypes DEF DialFails, TypeInv, TypeOK, Links
    <2>2. QED
      BY <1>1, <1>3, <2>1 DEF DialFails, TypeInv, TypeOK, RecordTypes
  <1>4. ASSUME NEW s \in Sockets, Drop(s) PROVE TypeInv'
    <2>1. owner[s] \in Clients
      BY <1>4 DEF Drop, TypeInv, TypeOK
    <2>2. link' \in [Clients -> Links] /\ attempts' \in [Clients -> 0..maxReconnectAttempts]
      BY <1>4, <2>1, ReconnectTypes DEF Drop, TypeInv
    <2>3. QED
      BY <1>1, <1>4, <2>2 DEF Drop, TypeInv, TypeOK, RecordTypes
  <1>5. ASSUME NEW c \in Clients, NEW x \in Sent, Send(c, x.code, x.fmt) PROVE TypeInv'
    <2>1. x.code \in Codes /\ x.fmt \in Formats
      <3>1. x.fmt \in Formats
        BY DEF Formats
      <3>2. x.code \in {GET_INVENTORY_REQ, ClientUseItem}
        BY DEF Sent
      <3>3. QED
        BY <3>1, <3>2, NamedCodes
    <2>2. QED
      BY <1>5, <2>1, SendTypes
  <1>6. ASSUME NEW c \in Clients, Heartbeat(c) PROVE TypeInv'
    <2>1. "json" \in Formats
      BY DEF Formats, Sent
    <2>2. QED
      BY <1>6, <2>1, NamedCodes, SendTypes DEF Heartbeat
  <1>7. ASSUME NEW a \in answers, Receive(a) PROVE TypeInv'
    <2>1. pending' \in [Clients -> SUBSET Awaited]
      BY <1>7 DEF Receive, TypeInv, RecordTypes
    <2>2. \A c \in Clients : pending'[c] \subseteq pending[c]
      BY <1>7 DEF Receive, TypeInv, RecordTypes
    <2>3. /\ UNCHANGED <<proto, valid, owner, up, connected, serverVars, wire, link,
                         attempts, seq>>
          /\ answers' \subseteq answers
      BY <1>7 DEF Receive
    <2>4. QED
      BY <2>1, <2>2, <2>3, FewerPending DEF TypeInv, TypeOK, RecordTypes
  <1>8. ASSUME NEW c \in Clients, NEW m \in pending[c], Timeout(c, m) PROVE TypeInv'
    <2>1. pending' \in [Clients -> SUBSET Awaited]
      BY <1>8 DEF Timeout, TypeInv, RecordTypes
    <2>2. \A d \in Clients : pending'[d] \subseteq pending[d]
      BY <1>8 DEF Timeout, TypeInv, RecordTypes
    <2>3. UNCHANGED <<proto, valid, owner, up, connected, serverVars, wire, answers, link,
                      attempts, seq>>
      BY <1>8 DEF Timeout
    <2>4. QED
      BY <2>1, <2>2, <2>3, FewerPending DEF TypeInv, TypeOK, RecordTypes
  <1>9. ASSUME NEW s \in Sockets, Joined(s) PROVE TypeInv'
    <2>1. PlayerIn(s) \in Players \cup {Nobody}
      BY PlayerTypes DEF TypeInv
    <2>2. playerSockets' \in [Players -> Sockets \cup {Nobody}]
      BY <1>9, <2>1, MapTypes DEF Joined, TypeInv
    <2>3. data' \in [Sockets -> Players \cup {Nobody}]
      BY <1>9, <2>1 DEF Joined, TypeInv, TypeOK
    <2>4. QED
      BY <1>1, <1>9, <2>2, <2>3 DEF Joined, TypeInv, TypeOK, RecordTypes
  <1>10. ASSUME NEW s \in Sockets, HandleDisconnect(s) PROVE TypeInv'
    <2>1. playerSockets' \in [Players -> Sockets \cup {Nobody}]
      BY <1>10, MapTypes DEF HandleDisconnect, TypeInv, TypeOK
    <2>2. QED
      BY <1>1, <1>10, <2>1 DEF HandleDisconnect, TypeInv, TypeOK, RecordTypes
  <1>11. ASSUME NEW m \in wire, HandleMessage(m) PROVE TypeInv'
    <2>1. m \in Requests /\ m.socket \in Sockets
      BY Parsed DEF TypeInv, TypeOK
    <2>2. CASE tasks' = tasks \cup {Task(m, "verify", Nobody)} /\ UNCHANGED answers
      <3>1. Task(m, "verify", Nobody) \in Messages
        BY <2>1 DEF Task, Messages
      <3>2. QED
        BY <1>1, <1>11, <2>2, <3>1 DEF HandleMessage, TypeInv, TypeOK, RecordTypes
    <2>3. CASE StartRouting(m, data[m.socket], tasks)
      <3>1. data[m.socket] \in Players \cup {Nobody} /\ tasks \in SUBSET Messages
        BY <2>1 DEF TypeInv, TypeOK, RecordTypes
      <3>2. tasks' \subseteq Messages /\ answers' \subseteq Answers
        BY <2>1, <2>3, <3>1, RoutingTypes
      <3>3. QED
        BY <1>1, <1>11, <3>2 DEF HandleMessage, TypeInv, TypeOK
    <2>4. QED
      BY <1>11, <2>2, <2>3 DEF HandleMessage
  <1>12. ASSUME NEW t \in tasks, Verified(t) PROVE TypeInv'
    <2>1. t.msg \in Requests /\ t.msg.socket \in Sockets
      BY Parsed DEF TypeInv, TypeOK
    <2>2. PlayerIn(t.msg.socket) \in Players \cup {Nobody}
      BY <2>1, PlayerTypes DEF TypeInv
    <2>3. playerSockets' \in [Players -> Sockets \cup {Nobody}]
      BY <1>12, <2>1, <2>2, MapTypes DEF Verified, LazyMap, TypeInv
    <2>4. data' \in [Sockets -> Players \cup {Nobody}]
      BY <1>12, <2>1, <2>2 DEF Verified, TypeInv, TypeOK
    <2>5. PICK p \in Players \cup {Nobody} : p = data'[t.msg.socket]
      BY <2>1, <2>4
    <2>6. StartRouting(t.msg, p, tasks \ {t})
      BY <1>12, <2>5 DEF Verified
    <2>7. tasks' \subseteq Messages /\ answers' \subseteq Answers
      BY <2>1, <2>6, RoutingTypes DEF TypeInv, RecordTypes
    <2>8. QED
      BY <1>1, <1>12, <2>3, <2>4, <2>7 DEF Verified, TypeInv, TypeOK
  <1>13. ASSUME NEW t \in tasks, Route(t) PROVE TypeInv'
    <2>1. t.msg \in Requests
      BY DEF TypeInv, TypeOK
    <2>2. PICK e \in BOOLEAN :
            Emit(t.msg.socket, getResponseCode(Parse(t.msg).code), Parse(t.msg).seq,
                 e, Parse(t.msg).isProtobuf, t.msg.seq)
      BY <1>13, <2>1, RouteAnswers
    <2>3. /\ getResponseCode(Parse(t.msg).code) \in Nat
          /\ Parse(t.msg).seq \in 0..MaxSeq /\ t.msg.seq \in 0..MaxSeq
          /\ t.msg.socket \in Sockets /\ Parse(t.msg).isProtobuf \in BOOLEAN
      BY <2>1, Parsed, ResponseCode, BoundAssumption
    <2>4. answers' \subseteq Answers
      BY <2>2, <2>3, EmitTypes DEF TypeInv, RecordTypes
    <2>5. QED
      BY <1>1, <1>13, <2>4 DEF Route, TypeInv, TypeOK, RecordTypes
  <1>14. ASSUME NEW p \in Players, NEW x \in Nat, PushToPlayer(p, x) PROVE TypeInv'
    <2>1. playerSockets[p] \in Sockets /\ 0 \in 0..MaxSeq
      BY <1>14, BoundAssumption DEF PushToPlayer, TypeInv, TypeOK
    <2>2. answers' \subseteq Answers
      BY <1>14, <2>1, EmitTypes DEF PushToPlayer, TypeInv, RecordTypes
    <2>3. QED
      BY <1>1, <1>14, <2>2 DEF PushToPlayer, TypeInv, TypeOK, RecordTypes
  <1>15. ASSUME NEW x \in Nat, Broadcast(x) PROVE TypeInv'
    <2>1. up \subseteq Sockets /\ 0 \in 0..MaxSeq
      BY BoundAssumption DEF TypeInv, TypeOK
    <2>2. answers' \subseteq Answers
      <3>1. \A s \in up : [socket |-> s, code |-> x, seq |-> 0, error |-> FALSE,
                       framed |-> FALSE, for |-> 0] \in Answers
        BY <2>1 DEF Answers
      <3>2. QED
        BY <1>15, <3>1 DEF Broadcast, TypeInv, RecordTypes
    <2>3. QED
      BY <1>1, <1>15, <2>2 DEF Broadcast, TypeInv, TypeOK, RecordTypes
  <1>16. ASSUME NEW c \in Clients, TokenExpires(c) PROVE TypeInv'
    BY <1>1, <1>16 DEF TokenExpires, TypeInv, TypeOK, RecordTypes
  <1>17. CASE UNCHANGED vars
    BY <1>1, <1>17 DEF vars, TypeInv, TypeOK, RecordTypes
  <1>18. 900000 \in Nat
    BY SMT
  <1>19. QED
    BY <1>2, <1>3, <1>4, <1>5, <1>6, <1>7, <1>8, <1>9, <1>10, <1>11, <1>12, <1>13,
       <1>14, <1>15, <1>16, <1>17, <1>18, SMT DEF Next, Serve

\* Connections, messages, handlers and clients keep their types.
THEOREM TypeCorrect == Spec => []TypeOK
  <1>1. TypeInv => TypeOK
    BY DEF TypeInv
  <1>2. QED
    BY <1>1, TypeInit, TypeStep, PTL DEF Spec

-----------------------------------------------------------------------------
\* The socket of a player.  LoneSocketMapped needs to know that a socket never
\* changes players: its token is that of the client who opened it.

DataFromToken ==
  \A s \in Sockets : data[s] # Nobody => owner[s] \in Clients /\ data[s] = TokenOf[owner[s]]

LoneInv == DataFromToken /\ LoneSocketMapped

\* A socket learns its player, or that its token is of no use.
LEMMA PlayerLearnt ==
  ASSUME TypeOK, LoneInv, NEW s \in Sockets, NEW p, p = PlayerIn(s),
         data' = [data EXCEPT ![s] = IF p = Nobody THEN @ ELSE p], Map(p, s),
         UNCHANGED <<owner, connected>>
  PROVE  LoneInv'
  <1>1. CASE p = Nobody
    <2>1. UNCHANGED <<data, playerSockets>>
      BY <1>1 DEF Map, TypeOK
    <2>2. QED
      BY <2>1 DEF LoneInv, DataFromToken, LoneSocketMapped
  <1>2. CASE p # Nobody
    <2>1. p = TokenOf[owner[s]] /\ owner[s] \in Clients /\ p \in Players
      BY <1>2, TokenAssumption DEF PlayerIn, TypeOK
    <2>2. /\ data' = [data EXCEPT ![s] = p]
          /\ playerSockets' = [playerSockets EXCEPT ![p] = s]
      BY <1>2 DEF Map
    <2>3. data[s] \in {Nobody, p}
      BY <2>1 DEF LoneInv, DataFromToken
    <2>4. DataFromToken'
      BY <2>1, <2>2 DEF LoneInv, DataFromToken, TypeOK
    <2>5. ASSUME NEW q \in Players, playerSockets'[q] # Nobody
          PROVE  data'[playerSockets'[q]] = q
      BY <1>2, <2>1, <2>2, <2>3, <2>5, NobodyAssumption DEF LoneInv, LoneSocketMapped, TypeOK
    <2>6. ASSUME NEW q \in Players, NEW x \in connected, data'[x] = q,
                 \A o \in Sockets : data'[o] = q => o = x
          PROVE  playerSockets'[q] = x
      <3>1. CASE q = p
        BY <2>1, <2>2, <2>6, <3>1 DEF TypeOK
      <3>2. CASE q # p
        <4>1. x # s /\ data[x] = q
          BY <2>2, <2>6, <3>2 DEF TypeOK
        <4>2. \A o \in Sockets : data[o] = q => o = x
          BY <2>2, <2>3, <2>6, <3>2, NobodyAssumption DEF TypeOK
        <4>3. QED
          BY <2>2, <3>2, <4>1, <4>2 DEF LoneInv, LoneSocketMapped, TypeOK
      <3>3. QED
        BY <3>1, <3>2
    <2>7. QED
      BY <2>4, <2>5, <2>6 DEF LoneInv, LoneSocketMapped
  <1>3. QED
    BY <1>1, <1>2

LEMMA LoneStep == TypeInv /\ LoneInv /\ [Next]_vars => LoneInv'
  <1> SUFFICES ASSUME TypeInv, LoneInv, [Next]_vars PROVE LoneInv'
    OBVIOUS
  <1> USE DEF serverVars, clientVars
  <1>1. TypeOK
    BY DEF TypeInv
  <1>2. ASSUME UNCHANGED <<owner, connected, data, playerSockets>> PROVE LoneInv'
    BY <1>2 DEF LoneInv, DataFromToken, LoneSocketMapped
  <1>3. ASSUME NEW c \in Clients, NEW s \in Sockets, Dial(c, s) PROVE LoneInv'
    <2>1. /\ owner[s] = Nobody /\ owner' = [owner EXCEPT ![s] = c]
          /\ connected' = connected \cup {s} /\ UNCHANGED <<data, playerSockets>>
      BY <1>3 DEF Dial
    <2>2. data[s] = Nobody
      BY <2>1, NobodyAssumption DEF LoneInv, DataFromToken
    <2>3. DataFromToken'
      BY <1>1, <2>1, <2>2 DEF LoneInv, DataFromToken, TypeOK
    <2>4. LoneSocketMapped'
      BY <2>1, <2>2, NobodyAssumption DEF LoneInv, LoneSocketMapped
    <2>5. QED
      BY <2>3, <2>4 DEF LoneInv
  <1>4. ASSUME NEW s \in Sockets, Joined(s) PROVE LoneInv'
    BY <1>1, <1>4, PlayerLearnt DEF Joined
  <1>5. ASSUME NEW t \in tasks, Verified(t) PROVE LoneInv'
    <2>1. t.msg.socket \in Sockets
      BY Parsed DEF TypeInv, TypeOK
    <2>2. QED
      BY <1>1, <1>5, <2>1, PlayerLearnt DEF Verified, LazyMap
  <1>6. ASSUME NEW s \in Sockets, HandleDisconnect(s) PROVE LoneInv'
    <2>1. /\ connected' = connected \ {s} /\ UNCHANGED <<owner, data>>
          /\ playerSockets' = IF data[s] = Nobody THEN playerSockets
                              ELSE [playerSockets EXCEPT ![data[s]] = Nobody]
      BY <1>6 DEF HandleDisconnect, Map
    <2>2. DataFromToken'
      BY <2>1 DEF LoneInv, DataFromToken
    <2>3. \A p \in Players : playerSockets'[p] # Nobody => data'[playerSockets'[p]] = p
      BY <1>1, <2>1 DEF LoneInv, LoneSocketMapped, TypeOK
    <2>4. ASSUME NEW p \in Players, NEW x \in connected', data[x] = p,
                 \A o \in Sockets : data[o] = p => o = x
          PROVE  playerSockets'[p] = x
      <3>1. x \in connected /\ x # s /\ data[s] # p
        BY <2>1, <2>4
      <3>2. playerSockets[p] = x
        BY <2>4, <3>1 DEF LoneInv, LoneSocketMapped
      <3>3. QED
        BY <1>1, <2>1, <3>1, <3>2 DEF TypeOK
    <2>5. QED
      BY <2>1, <2>2, <2>3, <2>4 DEF LoneInv, LoneSocketMapped
  <1>7. CASE UNCHANGED vars
    BY <1>2, <1>7 DEF vars
  <1>8. ASSUME \/ \E c \in Clients :
                    \/ DialFails(c) \/ Heartbeat(c) \/ TokenExpires(c)
                    \/ \E x \in Sent : Send(c, x.code, x.fmt)
                    \/ \E m \in pending[c] : Timeout(c, m)
               \/ \E s \in Sockets : Drop(s)
               \/ \E a \in answers : Receive(a)
               \/ \E m \in wire : HandleMessage(m)
               \/ \E t \in tasks : Route(t)
               \/ \E p \in Players, x \in Nat : PushToPlayer(p, x)
               \/ \E x \in Nat : Broadcast(x)
        PROVE  LoneInv'
    <2>1. UNCHANGED <<owner, connected, data, playerSockets>>
      BY <1>8 DEF DialFails, Heartbeat, TokenExpires, Send, Timeout, Drop, Receive,
         HandleMessage, Route, PushToPlayer, Broadcast
    <2>2. QED
      BY <1>2, <2>1
  <1>9. 900000 \in Nat
    BY SMT
  <1>10. QED
    BY <1>3, <1>4, <1>5, <1>6, <1>7, <1>8, <1>9, SMT DEF Next, Serve

\* playerSockets leads to sockets of the player, and to the only one there is.
THEOREM LoneSocketFound == Spec => []LoneSocketMapped
  <1>1. Init => LoneInv
    BY NobodyAssumption DEF Init, LoneInv, DataFromToken, LoneSocketMapped
  <1>2. LoneInv => LoneSocketMapped
    BY DEF LoneInv
  <1>3. QED
    BY <1>1, <1>2, TypeInit, TypeStep, LoneStep, PTL DEF Spec

-----------------------------------------------------------------------------
(***************************************************************************)
(* Requests and answers.  What is on its way to the server and back is     *)
(* about one request of the client of its socket, or is a push; and none   *)
(* can be taken for a later request, whose number is higher.               *)
(***************************************************************************)

UnderWay == wire \cup {t.msg : t \in tasks}

\* A message is one its client has sent, and is the one it waits for by that
\* number, if any.
SentByOwner(w) ==
  /\ owner[w.socket] # Nobody
  /\ w.seq <= seq[owner[w.socket]]
  /\ \A m \in pending[owner[w.socket]] :
       m.seq = w.seq => m.code = w.code /\ m.fmt = w.fmt

\* An answer carries the number of the request it is about, or none; to a JSON
\* request it carries the number and the response code, and to another none or
\* what the client cannot read.
AnswersOwn(a) ==
  /\ owner[a.socket] # Nobody
  /\ a.for <= seq[owner[a.socket]] /\ a.seq \in {0, a.for}
  /\ \A m \in pending[owner[a.socket]] :
       m.seq = a.for =>
         IF m.fmt = "json"
         THEN a.seq = a.for /\ ~a.framed /\ a.code = getResponseCode(m.code)
         ELSE a.seq = 0 \/ a.framed

\* A client tells its requests by their numbers and sends them over its sockets.
Numbered ==
  \A c \in Clients : \A m \in pending[c] :
    /\ \A n \in pending[c] : m.seq = n.seq => m = n
    /\ \A s \in m.over : owner[s] = c

AnswerInv ==
  /\ \A w \in UnderWay : SentByOwner(w)
  /\ \A a \in answers : AnswersOwn(a)
  /\ Numbered /\ NoneSwallowed

\* What no step does: hand a socket to another client, lower a counter, or wait
\* for a request that is neither old nor newly numbered.
Frame ==
  /\ \A s \in Sockets : owner[s] # Nobody => owner'[s] = owner[s]
  /\ \A c \in Clients : seq[c] <= seq'[c]
  /\ \A c \in Clients : \A m \in pending'[c] : m \in pending[c] \/ m.seq > seq[c]

\* The request that Send makes.
NewRequest(c, x, f) ==
  [seq |-> seq[c] + 1, code |-> x, fmt |-> f, over |-> {s \in up : owner[s] = c}]

LEMMA SendEffect ==
  ASSUME TypeInv, NEW c \in Clients, NEW x, NEW f, Send(c, x, f)
  PROVE  /\ seq' = [seq EXCEPT ![c] = seq[c] + 1]
         /\ pending' = [pending EXCEPT ![c] = pending[c] \cup {NewRequest(c, x, f)}]
         /\ wire' = wire \cup {[socket |-> s, seq |-> seq[c] + 1, code |-> x, fmt |-> f] :
                                 s \in {s \in up : owner[s] = c}}
         /\ UNCHANGED <<owner, up, tasks, answers>>
  BY DEF Send, NewRequest, serverVars

LEMMA FrameStep == ASSUME TypeInv, [Next]_vars PROVE Frame
  <1> USE DEF serverVars, clientVars
  <1>1. \A c \in Clients : seq[c] \in Nat
    BY BoundAssumption DEF TypeInv, TypeOK
  <1>2. ASSUME UNCHANGED <<owner, seq>>,
               \A c \in Clients : pending'[c] \subseteq pending[c]
        PROVE  Frame
    BY <1>1, <1>2 DEF Frame
  <1>3. ASSUME NEW c \in Clients, NEW s \in Sockets, Dial(c, s) PROVE Frame
    BY <1>1, <1>3 DEF Dial, Frame, TypeInv, TypeOK
  <1>4. ASSUME NEW c \in Clients, NEW x, NEW f, Send(c, x, f) PROVE Frame
    <2>1. /\ seq' = [seq EXCEPT ![c] = seq[c] + 1] /\ owner' = owner
          /\ pending' = [pending EXCEPT ![c] = pending[c] \cup {NewRequest(c, x, f)}]
      BY <1>4, SendEffect
    <2>2. NewRequest(c, x, f).seq = seq[c] + 1
      BY DEF NewRequest
    <2>3. \A d \in Clients : seq[d] <= seq'[d]
      BY <1>1, <2>1 DEF TypeInv, TypeOK
    <2>4. ASSUME NEW d \in Clients, NEW m \in pending'[d]
          PROVE  m \in pending[d] \/ m.seq > seq[d]
      BY <1>1, <2>1, <2>2, <2>4 DEF TypeInv, RecordTypes
    <2>5. QED
      BY <2>1, <2>3, <2>4 DEF Frame
  <1>5. ASSUME NEW a \in answers, Receive(a) PROVE Frame
    <2>1. \A c \in Clients : pending'[c] \subseteq pending[c]
      BY <1>5 DEF Receive, TypeInv, RecordTypes
    <2>2. QED
      BY <1>2, <1>5, <2>1 DEF Receive
  <1>6. ASSUME NEW c \in Clients, NEW m \in pending[c], Timeout(c, m) PROVE Frame
    <2>1. \A d \in Clients : pending'[d] \subseteq pending[d]
      BY <1>6 DEF Timeout, TypeInv, RecordTypes
    <2>2. QED
      BY <1>2, <1>6, <2>1 DEF Timeout
  <1>7. ASSUME UNCHANGED <<owner, seq, pending>> PROVE Frame
    BY <1>2, <1>7
  <1>8. ASSUME \/ \E c \in Clients : DialFails(c) \/ TokenExpires(c)
               \/ \E s \in Sockets : Drop(s) \/ Joined(s) \/ HandleDisconnect(s)
               \/ \E m \in wire : HandleMessage(m)
               \/ \E t \in tasks : Verified(t) \/ Route(t)
               \/ \E p \in Players, x \in Nat : PushToPlayer(p, x)
               \/ \E x \in Nat : Broadcast(x)
               \/ UNCHANGED vars
        PROVE  Frame
    <2>1. UNCHANGED <<owner, seq, pending>>
      BY <1>8 DEF DialFails, TokenExpires, Drop, Joined, HandleDisconnect,
         HandleMessage, Verified, Route, PushToPlayer, Broadcast, vars
    <2>2. QED
      BY <1>7, <2>1
  <1>9. 900000 \in Nat
    BY SMT
  <1>10. ASSUME NEW c \in Clients, Heartbeat(c) PROVE Frame
    BY <1>4, <1>10 DEF Heartbeat
  <1>11. QED
    BY <1>3, <1>4, <1>5, <1>6, <1>8, <1>9, <1>10, SMT DEF Next, Serve

LEMMA SentStays ==
  ASSUME TypeInv, TypeInv', Frame, NEW w \in Requests, SentByOwner(w)
  PROVE  SentByOwner(w)'
  <1>1. owner'[w.socket] = owner[w.socket] /\ owner[w.socket] \in Clients
    BY Parsed DEF Frame, SentByOwner, TypeInv, TypeOK
  <1> DEFINE c == owner[w.socket]
  <1>2. /\ c \in Clients /\ owner'[w.socket] = c
        /\ w.seq \in Nat /\ seq[c] \in Nat /\ seq'[c] \in Nat
        /\ w.seq <= seq[c] /\ seq[c] <= seq'[c]
    BY <1>1, Parsed, BoundAssumption DEF TypeInv, TypeOK, SentByOwner, Frame
  <1>3. \A m \in pending'[c] : m.seq \in Nat
    BY <1>2, BoundAssumption DEF TypeInv, TypeOK
  <1> HIDE DEF c
  <1>4. ASSUME NEW m \in pending'[c], m.seq = w.seq
        PROVE  m.code = w.code /\ m.fmt = w.fmt
    <2>1. m \in pending[c]
      BY <1>2, <1>3, <1>4 DEF Frame
    <2>2. QED
      BY <1>4, <2>1 DEF SentByOwner, c
  <1>5. QED
    BY <1>2, <1>4, NobodyAssumption DEF SentByOwner

LEMMA AnswersOwnStays ==
  ASSUME TypeInv, TypeInv', Frame, NEW a \in Answers, AnswersOwn(a)
  PROVE  AnswersOwn(a)'
  <1>1. a.socket \in Sockets /\ a.for \in Nat
    BY BoundAssumption DEF Answers
  <1>2. owner'[a.socket] = owner[a.socket] /\ owner[a.socket] \in Clients
    BY <1>1 DEF Frame, AnswersOwn, TypeInv, TypeOK
  <1> DEFINE c == owner[a.socket]
  <1>3. /\ c \in Clients /\ owner'[a.socket] = c
        /\ seq[c] \in Nat /\ seq'[c] \in Nat
        /\ a.for <= seq[c] /\ seq[c] <= seq'[c]
    BY <1>2, BoundAssumption DEF TypeInv, TypeOK, AnswersOwn, Frame
  <1>4. \A m \in pending'[c] : m.seq \in Nat
    BY <1>3, BoundAssumption DEF TypeInv, TypeOK
  <1> HIDE DEF c
  <1>5. ASSUME NEW m \in pending'[c], m.seq = a.for
        PROVE  IF m.fmt = "json"
               THEN a.seq = a.for /\ ~a.framed /\ a.code = getResponseCode(m.code)
               ELSE a.seq = 0 \/ a.framed
    <2>1. m \in pending[c]
      BY <1>1, <1>3, <1>4, <1>5 DEF Frame
    <2>2. QED
      BY <1>5, <2>1 DEF AnswersOwn, c
  <1>6. QED
    BY <1>1, <1>3, <1>5, NobodyAssumption DEF AnswersOwn

\* What the server answers to a message that fits is an answer of this kind,
\* whether it could read the message or not.
LEMMA AnswerToSent ==
  ASSUME TypeInv, NEW w \in Requests, SentByOwner(w), NEW e, NEW a,
         \/ a = [socket |-> w.socket, code |-> getResponseCode(Parse(w).code),
                 seq |-> Parse(w).seq, error |-> e, framed |-> Parse(w).isProtobuf,
                 for |-> w.seq]
         \/ /\ ~Parse(w).ok
            /\ a = [socket |-> w.socket, code |-> 0, seq |-> 0, error |-> e,
                    framed |-> FALSE, for |-> w.seq]
  PROVE  AnswersOwn(a)
  <1>1. a.socket = w.socket /\ a.for = w.seq /\ a.seq \in {0, w.seq}
    BY Parsed
  <1>2. w.fmt = "json" =>
          a.seq = w.seq /\ ~a.framed /\ a.code = getResponseCode(w.code)
    BY Parsed
  <1>3. w.fmt # "json" => a.seq = 0 \/ a.framed
    BY Parsed
  <1>4. QED
    BY <1>1, <1>2, <1>3 DEF AnswersOwn, SentByOwner

-----------------------------------------------------------------------------
\* What each step does to the messages under way.

Sending == \E c \in Clients, x \in Codes, f \in Formats : Send(c, x, f)

LEMMA SendingKinds ==
  ASSUME NEW c \in Clients,
         Heartbeat(c) \/ \E x \in Sent : Send(c, x.code, x.fmt)
  PROVE  Sending
  <1>1. "json" \in Formats /\ \A x \in Sent : x.fmt \in Formats
    BY DEF Formats, Sent
  <1>2. \A x \in Sent : x.code \in Codes
    BY NamedCodes DEF Sent
  <1>3. QED
    BY <1>1, <1>2, NamedCodes DEF Heartbeat, Sending

\* A message that is looked at goes on as a task, or cannot be read and is
\* answered with an error.
LEMMA RoutingEffect ==
  ASSUME NEW m, NEW p, NEW others, StartRouting(m, p, others)
  PROVE  \/ tasks' = others \cup {Task(m, "route", p)} /\ answers' = answers
         \/ /\ ~Parse(m).ok /\ tasks' = others
            /\ Emit(m.socket, 0, 0, TRUE, FALSE, m.seq)
  BY DEF StartRouting, SendError

\* m is answered: with what was read of it, or with an error.
Answered(m) ==
  \E e \in BOOLEAN :
    \/ Emit(m.socket, getResponseCode(Parse(m).code), Parse(m).seq, e,
            Parse(m).isProtobuf, m.seq)
    \/ ~Parse(m).ok /\ Emit(m.socket, 0, 0, e, FALSE, m.seq)

\* A step of the server on the message m: it stays under way or is answered.
Handling(m) ==
  /\ m \in UnderWay
  /\ UNCHANGED <<owner, up, seq, pending>>
  /\ UnderWay' \subseteq UnderWay /\ UnderWay \ {m} \subseteq UnderWay'
  /\ \/ m \in UnderWay' /\ answers' = answers
     \/ Answered(m)

LEMMA HandlingSteps ==
  ASSUME TypeInv,
         \/ \E m \in wire : HandleMessage(m)
         \/ \E t \in tasks : Verified(t) \/ Route(t)
  PROVE  \E m \in Requests : Handling(m)
  <1> USE DEF serverVars, clientVars
  <1>1. ASSUME NEW m \in wire, HandleMessage(m) PROVE m \in Requests /\ Handling(m)
    <2>1. /\ wire' = wire \ {m} /\ m \in Requests
          /\ UNCHANGED <<owner, up, seq, pending>>
      BY <1>1 DEF HandleMessage, TypeInv, TypeOK
    <2>2. \/ /\ \E at, p : tasks' = tasks \cup {Task(m, at, p)}
             /\ answers' = answers
          \/ tasks' = tasks /\ Answered(m)
      BY <1>1, RoutingEffect DEF HandleMessage, Answered
    <2>3. \A at, p : Task(m, at, p).msg = m
      BY DEF Task
    <2>4. CASE (\E at, p : tasks' = tasks \cup {Task(m, at, p)}) /\ answers' = answers
      <3>1. UnderWay' = UnderWay
        BY <2>1, <2>3, <2>4 DEF UnderWay
      <3>2. QED
        BY <2>1, <2>4, <3>1 DEF Handling, UnderWay
    <2>5. CASE tasks' = tasks /\ Answered(m)
      BY <2>1, <2>5 DEF Handling, UnderWay
    <2>6. QED
      BY <2>1, <2>2, <2>4, <2>5
  <1>2. ASSUME NEW t \in tasks, Verified(t) PROVE t.msg \in Requests /\ Handling(t.msg)
    <2>1. /\ wire' = wire /\ t.msg \in Requests
          /\ UNCHANGED <<owner, up, seq, pending>>
      BY <1>2 DEF Verified, TypeInv, TypeOK
    <2>2. \/ /\ \E p : tasks' = (tasks \ {t}) \cup {Task(t.msg, "route", p)}
             /\ answers' = answers
          \/ tasks' = tasks \ {t} /\ Answered(t.msg)
      BY <1>2, RoutingEffect DEF Verified, Answered
    <2>3. \A p : Task(t.msg, "route", p).msg = t.msg
      BY DEF Task
    <2>4. CASE /\ \E p : tasks' = (tasks \ {t}) \cup {Task(t.msg, "route", p)}
               /\ answers' = answers
      <3>1. UnderWay' = UnderWay
        BY <2>1, <2>3, <2>4 DEF UnderWay
      <3>2. QED
        BY <2>1, <2>4, <3>1 DEF Handling, UnderWay
    <2>5. CASE tasks' = tasks \ {t} /\ Answered(t.msg)
      BY <2>1, <2>5 DEF Handling, UnderWay
    <2>6. QED
      BY <2>1, <2>2, <2>4, <2>5
  <1>3. ASSUME NEW t \in tasks, Route(t) PROVE t.msg \in Requests /\ Handling(t.msg)
    <2>1. /\ wire' = wire /\ tasks' = tasks \ {t} /\ t.msg \in Requests
          /\ UNCHANGED <<owner, up, seq, pending>>
      BY <1>3 DEF Route, TypeInv, TypeOK
    <2>2. Answered(t.msg)
      BY <1>3, <2>1, RouteAnswers DEF Answered
    <2>3. QED
      BY <2>1, <2>2 DEF Handling, UnderWay
  <1>4. QED
    BY <1>1, <1>2, <1>3

\* Pushes answer nothing.
Pushing ==
  /\ UNCHANGED <<owner, up, seq, pending, wire, tasks>>
  /\ answers \subseteq answers'
  /\ \A a \in answers' \ answers : a.socket \in up /\ a.seq = 0 /\ a.for = 0

LEMMA PushingSteps ==
  ASSUME NEW x, Broadcast(x) \/ \E p \in Players : PushToPlayer(p, x)
  PROVE  Pushing
  BY DEF Broadcast, PushToPlayer, Emit, Pushing, serverVars, clientVars

\* Steps that send nothing, answer nothing and read nothing.
Bystander ==
  /\ \A s \in Sockets : owner[s] # Nobody => owner'[s] = owner[s]
  /\ \A s \in up' \ up : owner[s] = Nobody
  /\ UNCHANGED <<seq, tasks>>
  /\ \A c \in Clients : pending'[c] \subseteq pending[c]
  /\ wire' \subseteq wire /\ \A w \in wire \ wire' : w.socket \notin up'
  /\ answers' \subseteq answers
  /\ \A a \in answers \ answers' : up' # up /\ a.socket \notin up'

LEMMA BystanderSteps ==
  ASSUME TypeInv,
         \/ \E c \in Clients :
              \/ \E s \in Sockets : Dial(c, s)
              \/ DialFails(c) \/ TokenExpires(c)
              \/ \E m \in pending[c] : Timeout(c, m)
         \/ \E s \in Sockets : Drop(s) \/ Joined(s) \/ HandleDisconnect(s)
         \/ UNCHANGED vars
  PROVE  Bystander
  <1> USE DEF serverVars, clientVars
  <1>1. ASSUME NEW c \in Clients, NEW s \in Sockets, Dial(c, s) PROVE Bystander
    BY <1>1 DEF Dial, Bystander, TypeInv, TypeOK
  <1>2. ASSUME NEW c \in Clients, NEW m \in pending[c], Timeout(c, m) PROVE Bystander
    BY <1>2 DEF Timeout, Bystander, TypeInv, RecordTypes
  <1>3. ASSUME NEW s \in Sockets, Drop(s) PROVE Bystander
    BY <1>3 DEF Drop, Bystander
  <1>4. ASSUME NEW s \in Sockets, HandleDisconnect(s) PROVE Bystander
    BY <1>4 DEF HandleDisconnect, Bystander
  <1>5. CASE \/ \E c \in Clients : DialFails(c) \/ TokenExpires(c)
             \/ \E s \in Sockets : Joined(s)
             \/ UNCHANGED vars
    BY <1>5 DEF DialFails, TokenExpires, Joined, vars, Bystander
  <1>6. QED
    BY <1>1, <1>2, <1>3, <1>4, <1>5

\* Every step is of one of these kinds.
LEMMA StepKinds ==
  ASSUME TypeInv, [Next]_vars
  PROVE  \/ Sending \/ Pushing \/ Bystander
         \/ \E m \in Requests : Handling(m)
         \/ \E a \in answers : Receive(a)
  BY SendingKinds, HandlingSteps, PushingSteps, BystanderSteps, SMT DEF Next, Serve

-----------------------------------------------------------------------------
\* The invariant, one part at a time.

\* UnderWay holds messages.
LEMMA UnderWayTypes == TypeInv => UnderWay \subseteq Requests
  BY DEF TypeInv, TypeOK, UnderWay

LEMMA SentStep ==
  ASSUME TypeInv, TypeInv', [Next]_vars, AnswerInv
  PROVE  \A w \in UnderWay' : SentByOwner(w)'
  <1>1. ASSUME NEW w \in UnderWay PROVE SentByOwner(w)'
    BY <1>1, UnderWayTypes, FrameStep, SentStays DEF AnswerInv
  <1>2. ASSUME NEW c \in Clients, NEW x \in Codes, NEW f \in Formats, Send(c, x, f),
               NEW w \in UnderWay' \ UnderWay
        PROVE  SentByOwner(w)'
    <2>1. /\ seq' = [seq EXCEPT ![c] = seq[c] + 1]
          /\ pending' = [pending EXCEPT ![c] = pending[c] \cup {NewRequest(c, x, f)}]
          /\ UNCHANGED <<owner, up, tasks>>
          /\ wire' = wire \cup {[socket |-> s, seq |-> seq[c] + 1, code |-> x, fmt |-> f] :
                                  s \in {s \in up : owner[s] = c}}
      BY <1>2, SendEffect
    <2>2. PICK s \in up : /\ owner[s] = c
                          /\ w = [socket |-> s, seq |-> seq[c] + 1, code |-> x, fmt |-> f]
      BY <1>2, <2>1 DEF UnderWay
    <2>3. seq[c] \in Nat /\ seq'[c] = seq[c] + 1
      BY <2>1, BoundAssumption DEF TypeInv, TypeOK
    <2>4. ASSUME NEW m \in pending'[c], m.seq = seq[c] + 1
          PROVE  m.code = x /\ m.fmt = f
      <3>1. \A n \in pending[c] : n.seq \in Nat /\ n.seq <= seq[c]
        BY BoundAssumption DEF TypeInv, TypeOK, RecordTypes
      <3>2. m = NewRequest(c, x, f)
        BY <2>1, <2>3, <2>4, <3>1 DEF TypeInv, RecordTypes
      <3>3. QED
        BY <3>2 DEF NewRequest
    <2>5. owner'[w.socket] = c /\ c # Nobody
      BY <2>1, <2>2, NobodyAssumption
    <2>6. w.seq = seq[c] + 1 /\ w.code = x /\ w.fmt = f
      BY <2>2
    <2>7. QED
      BY <2>3, <2>4, <2>5, <2>6 DEF SentByOwner
  <1>3. CASE Sending
    BY <1>1, <1>2, <1>3 DEF Sending
  <1>4. CASE ~Sending
    <2>1. UnderWay' \subseteq UnderWay
      BY <1>4, StepKinds DEF Pushing, Bystander, Handling, Receive, UnderWay, serverVars
    <2>2. QED
      BY <1>1, <2>1
  <1>5. QED
    BY <1>3, <1>4

LEMMA AnswersStep ==
  ASSUME TypeInv, TypeInv', [Next]_vars, AnswerInv
  PROVE  \A a \in answers' : AnswersOwn(a)'
  <1>1. Frame
    BY FrameStep
  <1>2. ASSUME NEW a \in Answers, AnswersOwn(a) PROVE AnswersOwn(a)'
    BY <1>1, <1>2, AnswersOwnStays
  <1>3. answers \subseteq Answers /\ answers' \subseteq Answers
    BY DEF TypeInv, RecordTypes
  <1>4. \A a \in answers : AnswersOwn(a)
    BY DEF AnswerInv
  <1>5. ASSUME NEW m \in Requests, Handling(m), NEW a \in answers' \ answers
        PROVE  AnswersOwn(a)
    <2>1. SentByOwner(m)
      BY <1>5 DEF Handling, AnswerInv
    <2>2. PICK e \in BOOLEAN :
            \/ Emit(m.socket, getResponseCode(Parse(m).code), Parse(m).seq, e,
                    Parse(m).isProtobuf, m.seq)
            \/ ~Parse(m).ok /\ Emit(m.socket, 0, 0, e, FALSE, m.seq)
      BY <1>5 DEF Handling, Answered
    <2>3. \/ a = [socket |-> m.socket, code |-> getResponseCode(Parse(m).code),
                  seq |-> Parse(m).seq, error |-> e, framed |-> Parse(m).isProtobuf,
                  for |-> m.seq]
          \/ /\ ~Parse(m).ok
             /\ a = [socket |-> m.socket, code |-> 0, seq |-> 0, error |-> e,
                     framed |-> FALSE, for |-> m.seq]
      BY <1>5, <2>2 DEF Emit
    <2>4. QED
      BY <2>1, <2>3, AnswerToSent
  <1>6. ASSUME Pushing, NEW a \in answers' \ answers PROVE AnswersOwn(a)
    <2>1. /\ a.socket \in up /\ a.seq = 0 /\ a.for = 0
      BY <1>6 DEF Pushing
    <2>2. owner[a.socket] \in Clients /\ owner[a.socket] # Nobody
      BY <2>1, NobodyAssumption DEF TypeInv, TypeOK
    <2>3. /\ 0 <= seq[owner[a.socket]]
          /\ \A m \in pending[owner[a.socket]] : m.seq # 0
      BY <2>2, BoundAssumption DEF TypeInv, TypeOK
    <2>4. QED
      BY <2>1, <2>2, <2>3 DEF AnswersOwn
  <1>7. \A a \in answers' : AnswersOwn(a)
    <2>1. CASE \E m \in Requests : Handling(m)
      BY <1>4, <1>5, <2>1
    <2>2. CASE Pushing
      BY <1>4, <1>6, <2>2
    <2>3. CASE Sending \/ Bystander \/ \E a \in answers : Receive(a)
      <3>1. answers' \subseteq answers
        BY <2>3, SendEffect DEF Sending, Bystander, Receive
      <3>2. QED
        BY <1>4, <3>1
    <2>4. QED
      BY <2>1, <2>2, <2>3, StepKinds
  <1>8. QED
    BY <1>2, <1>3, <1>7

LEMMA NumberedStep ==
  ASSUME TypeInv, [Next]_vars, Numbered
  PROVE  Numbered'
  <1>1. ASSUME \A c \in Clients : pending'[c] \subseteq pending[c]
        PROVE  Numbered'
    <2>1. \A c \in Clients : \A m \in pending'[c] : m.over \subseteq Sockets
      BY <1>1 DEF TypeInv, TypeOK
    <2>2. \A c \in Clients : \A m \in pending'[c] : \A s \in m.over : owner'[s] = c
      BY <1>1, <2>1, FrameStep, NobodyAssumption DEF Numbered, Frame
    <2>3. QED
      BY <1>1, <2>2 DEF Numbered
  <1>2. ASSUME NEW c \in Clients, NEW x \in Codes, NEW f \in Formats, Send(c, x, f)
        PROVE  Numbered'
    <2>1. /\ pending' = [pending EXCEPT ![c] = pending[c] \cup {NewRequest(c, x, f)}]
          /\ owner' = owner
      BY <1>2, SendEffect
    <2>2. /\ NewRequest(c, x, f).seq = seq[c] + 1
          /\ \A s \in NewRequest(c, x, f).over : owner[s] = c
      BY DEF NewRequest
    <2>3. \A n \in pending[c] : n.seq # seq[c] + 1
      BY BoundAssumption DEF TypeInv, TypeOK, RecordTypes
    <2>4. QED
      BY <2>1, <2>2, <2>3 DEF Numbered, TypeInv, RecordTypes
  <1>3. CASE Sending
    BY <1>2, <1>3 DEF Sending
  <1>4. ASSUME NEW a \in answers, Receive(a) PROVE Numbered'
    <2>1. \A c \in Clients : pending'[c] \subseteq pending[c]
      BY <1>4 DEF Receive, TypeInv, RecordTypes
    <2>2. QED
      BY <1>1, <2>1
  <1>5. CASE Pushing \/ Bystander \/ \E m \in Requests : Handling(m)
    BY <1>1, <1>5 DEF Pushing, Bystander, Handling
  <1>6. QED
    BY <1>3, <1>4, <1>5, StepKinds

\* What a client does with an answer: it settles the JSON request it is about
\* and no other.
Settled(a) ==
  LET c == owner[a.socket] IN
  /\ \A m \in pending[c] \ pending'[c] :
       m.seq = a.for /\ m.fmt = "json" /\ a.code = getResponseCode(m.code)
  /\ \A m \in pending[c] \cap pending'[c] : m.seq = a.for => m.fmt # "json"

LEMMA ReceiveEffect ==
  ASSUME TypeInv, AnswerInv, NEW a \in answers, Receive(a)
  PROVE  /\ Settled(a)
         /\ answers' = answers \ {a} /\ UNCHANGED <<owner, up, seq, wire, tasks>>
         /\ \A d \in Clients : pending'[d] \subseteq pending[d]
         /\ \A d \in Clients : d # owner[a.socket] => pending'[d] = pending[d]
  <1> DEFINE c == owner[a.socket]
             own == IF a.framed THEN {} ELSE {m \in pending[c] : Matches(m, a)}
  <1>1. /\ answers' = answers \ {a} /\ UNCHANGED <<owner, up, seq, wire, tasks>>
        /\ IF own = {} THEN UNCHANGED pending
           ELSE \E m \in own : pending' = [pending EXCEPT ![c] = @ \ {m}]
    BY DEF Receive, serverVars
  <1>2. AnswersOwn(a) /\ c \in Clients /\ a.for \in Nat
    <2>1. AnswersOwn(a) /\ a \in Answers
      BY DEF AnswerInv, TypeInv, RecordTypes
    <2>2. QED
      BY <2>1, BoundAssumption DEF AnswersOwn, Answers, TypeInv, TypeOK
  <1>3. \A m \in pending[c] : m.seq \in Nat /\ m.seq > 0
    BY <1>2, BoundAssumption DEF TypeInv, TypeOK
  <1>4. \A m, n \in pending[c] : m.seq = n.seq => m = n
    BY <1>2 DEF AnswerInv, Numbered
  <1>5. \A m \in own : m \in pending[c] /\ m.seq = a.for /\ m.fmt = "json"
    BY <1>2 DEF Matches, AnswersOwn
  <1>6. \A m \in pending[c] :
          m.seq = a.for /\ m.fmt = "json" =>
            m \in own /\ a.code = getResponseCode(m.code)
    BY <1>2, <1>3 DEF Matches, AnswersOwn
  <1> HIDE DEF own
  <1>7. CASE own = {}
    <2>1. pending' = pending /\ \A m \in pending[c] : m.seq = a.for => m.fmt # "json"
      BY <1>1, <1>6, <1>7
    <2>2. QED
      BY <1>1, <2>1 DEF Settled
  <1>8. CASE own # {}
    <2>1. PICK m \in own : pending' = [pending EXCEPT ![c] = @ \ {m}]
      BY <1>1, <1>8
    <2>2. m \in pending[c] /\ m.seq = a.for /\ m.fmt = "json"
      BY <1>5
    <2>3. /\ pending'[c] = pending[c] \ {m}
          /\ \A d \in Clients : d # c => pending'[d] = pending[d]
      BY <1>2, <2>1 DEF TypeInv, RecordTypes
    <2>4. \A n \in pending[c] : n.seq = a.for => n = m
      BY <1>4, <2>2
    <2>5. a.code = getResponseCode(m.code)
      BY <1>6, <2>2
    <2>6. Settled(a)
      BY <2>2, <2>3, <2>4, <2>5 DEF Settled
    <2>7. QED
      BY <1>1, <2>3, <2>6
  <1>9. QED
    BY <1>7, <1>8

\* The request m of a client is on its way over s, or its answer is.
Traced(m, s) ==
  \/ \E w \in UnderWay : w.socket = s /\ w.seq = m.seq
  \/ \E a \in answers : a.socket = s /\ a.for = m.seq

LEMMA HandlingKeeps == ASSUME NEW q, Handling(q) PROVE answers \subseteq answers'
  BY DEF Handling, Answered, Emit

\* The server takes no request off an open socket without answering it.
LEMMA HandlingTraces ==
  ASSUME NEW q, Handling(q), NEW m, NEW s \in up, Traced(m, s)
  PROVE  Traced(m, s)'
  <1>1. CASE \E a \in answers : a.socket = s /\ a.for = m.seq
    BY <1>1, HandlingKeeps DEF Traced
  <1>2. CASE \E w \in UnderWay' : w.socket = s /\ w.seq = m.seq
    BY <1>2 DEF Traced
  <1>3. CASE q.socket = s /\ q.seq = m.seq /\ q \notin UnderWay'
    <2>1. ASSUME NEW code, NEW n, NEW e, NEW b, Emit(s, code, n, e, b, m.seq)
          PROVE  \E a \in answers' : a.socket = s /\ a.for = m.seq
      <3> DEFINE a == [socket |-> s, code |-> code, seq |-> n, error |-> e,
                       framed |-> b, for |-> m.seq]
      <3>1. a \in answers'
        BY <2>1 DEF Emit
      <3>2. a.socket = s /\ a.for = m.seq
        OBVIOUS
      <3>3. QED
        BY <3>1, <3>2
    <2>2. PICK code, n, e, b : Emit(q.socket, code, n, e, b, q.seq)
      BY <1>3 DEF Handling, Answered
    <2>3. Emit(s, code, n, e, b, m.seq)
      BY <1>3, <2>2
    <2>4. QED
      BY <2>1, <2>3 DEF Traced
  <1>4. QED
    BY <1>1, <1>2, <1>3 DEF Traced, Handling

LEMMA SwallowedStep ==
  ASSUME TypeInv, TypeInv', [Next]_vars, AnswerInv
  PROVE  NoneSwallowed'
  <1>1. NoneSwallowed' <=>
          \A c \in Clients : \A m \in pending'[c] :
            m.fmt = "json" => \A s \in m.over \cap up' : Traced(m, s)'
    BY DEF NoneSwallowed, Traced, UnderWay
  <1> SUFFICES ASSUME NEW c \in Clients, NEW m \in pending'[c], m.fmt = "json",
                      NEW s \in m.over \cap up'
               PROVE  Traced(m, s)'
    BY <1>1
  <1>2. ASSUME m \in pending[c]
        PROVE  s \in Sockets /\ owner[s] = c /\ c # Nobody /\ (s \in up => Traced(m, s))
    <2>1. s \in Sockets /\ owner[s] = c
      BY <1>2 DEF AnswerInv, Numbered, TypeInv, TypeOK
    <2>2. s \in up => Traced(m, s)
      BY <1>2 DEF AnswerInv, NoneSwallowed, Traced, UnderWay
    <2>3. QED
      BY <2>1, <2>2, NobodyAssumption
  <1>3. ASSUME NEW d \in Clients, NEW x \in Codes, NEW f \in Formats, Send(d, x, f)
        PROVE  Traced(m, s)'
    <2>1. /\ pending' = [pending EXCEPT ![d] = pending[d] \cup {NewRequest(d, x, f)}]
          /\ UNCHANGED <<owner, up, tasks, answers>>
          /\ wire' = wire \cup {[socket |-> z, seq |-> seq[d] + 1, code |-> x, fmt |-> f] :
                                  z \in {z \in up : owner[z] = d}}
      BY <1>3, SendEffect
    <2>2. CASE m \in pending[c]
      <3>1. Traced(m, s)
        BY <1>2, <2>1, <2>2
      <3>2. QED
        BY <2>1, <3>1 DEF Traced, UnderWay
    <2>3. CASE m \notin pending[c]
      <3>1. m = NewRequest(d, x, f)
        BY <2>1, <2>3 DEF TypeInv, RecordTypes
      <3>2. s \in up /\ owner[s] = d /\ m.seq = seq[d] + 1
        BY <3>1 DEF NewRequest
      <3>3. [socket |-> s, seq |-> seq[d] + 1, code |-> x, fmt |-> f] \in UnderWay'
        BY <2>1, <3>2 DEF UnderWay
      <3>4. QED
        BY <3>2, <3>3 DEF Traced
    <2>4. QED
      BY <2>2, <2>3
  <1>4. CASE Sending
    BY <1>3, <1>4 DEF Sending
  <1>5. CASE Pushing
    <2>1. m \in pending[c] /\ s \in up
      BY <1>5 DEF Pushing
    <2>2. QED
      BY <1>2, <1>5, <2>1 DEF Pushing, Traced, UnderWay
  <1>6. CASE Bystander
    <2>1. m \in pending[c]
      BY <1>6 DEF Bystander
    <2>2. s \in up
      BY <1>2, <1>6, <2>1 DEF Bystander
    <2>3. QED
      BY <1>2, <1>6, <2>1, <2>2 DEF Bystander, Traced, UnderWay
  <1>7. ASSUME NEW q \in Requests, Handling(q) PROVE Traced(m, s)'
    <2>1. m \in pending[c] /\ s \in up
      BY <1>7 DEF Handling
    <2>2. QED
      BY <1>2, <1>7, <2>1, HandlingTraces
  <1>8. ASSUME NEW a \in answers, Receive(a) PROVE Traced(m, s)'
    <2>1. /\ Settled(a) /\ m \in pending[c] /\ s \in up
          /\ answers' = answers \ {a} /\ UNCHANGED <<wire, tasks>>
      BY <1>8, ReceiveEffect
    <2>2. a.socket = s /\ a.for = m.seq => FALSE
      BY <1>2, <2>1 DEF Settled
    <2>3. QED
      BY <1>2, <2>1, <2>2 DEF Traced, UnderWay
  <1>9. QED
    BY <1>4, <1>5, <1>6, <1>7, <1>8, StepKinds

LEMMA AnswerInvStep == TypeInv /\ TypeInv' /\ AnswerInv /\ [Next]_vars => AnswerInv'
  <1> SUFFICES ASSUME TypeInv, TypeInv', AnswerInv, [Next]_vars PROVE AnswerInv'
    OBVIOUS
  <1>1. Numbered'
    BY NumberedStep DEF AnswerInv
  <1>2. QED
    BY <1>1, SentStep, AnswersStep, SwallowedStep DEF AnswerInv

LEMMA AnswerInvariant == Spec => [](TypeInv /\ AnswerInv)
  <1>1. Init => AnswerInv
    BY DEF Init, AnswerInv, UnderWay, Numbered, NoneSwallowed
  <1>2. QED
    BY <1>1, TypeInit, TypeStep, AnswerInvStep, PTL DEF Spec

\* While the connection a JSON request went over is open, the request or its
\* answer is under way: only a lost connection makes a client wait in vain.
THEOREM NothingSwallowed == Spec => []NoneSwallowed
  <1>1. AnswerInv => NoneSwallowed
    BY DEF AnswerInv
  <1>2. QED
    BY <1>1, AnswerInvariant, PTL

\* What a client receives settles the request it answers and no other, with
\* the code that belongs to it.
THEOREM AnswersSettle == Spec => AnswerFits
  <1> DEFINE Settling == up' = up => \A a \in answers \ answers' : Settled(a)
  <1>1. TypeInv /\ AnswerInv /\ [Next]_vars => Settling
    <2> SUFFICES ASSUME TypeInv, AnswerInv, [Next]_vars, up' = up,
                        NEW a \in answers \ answers'
                 PROVE  Settled(a)
      OBVIOUS
    <2>1. ~Sending
      BY SendEffect DEF Sending
    <2>2. ~Pushing /\ ~Bystander
      BY DEF Pushing, Bystander
    <2>3. ASSUME NEW m \in Requests, Handling(m) PROVE FALSE
      BY <2>3, HandlingKeeps
    <2>4. PICK b \in answers : Receive(b)
      BY <2>1, <2>2, <2>3, StepKinds
    <2>5. QED
      BY <2>4, ReceiveEffect
  <1>2. AnswerFits <=> [][Settling]_vars
    BY DEF AnswerFits, Settled
  <1> HIDE DEF Settling
  <1>3. TypeInv /\ AnswerInv /\ [Next]_vars => [Settling]_vars
    BY <1>1
  <1>4. QED
    BY <1>2, <1>3, AnswerInvariant, PTL DEF Spec

=============================================================================
