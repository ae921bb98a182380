------------------------------ MODULE Gateway ------------------------------
(***************************************************************************)
(* The message gateway, src/modules/gateway/message.gateway.ts with        *)
(* src/core/message-router.ts and shared/protobuf/protobuf.service.ts, and *)
(* its documented client, docs/client-example.js.  That client opens a raw *)
(* WebSocket, which socket.io does not accept: the client here has its     *)
(* connect, request and handleMessage over a socket.io connection, where a *)
(* JSON message arrives as an object and a framed one as bytes.            *)
(*                                                                         *)
(* A connection is a socket.  It breaks for its client first and for the   *)
(* server when handleDisconnect runs; in between the client may be back on *)
(* another socket.  Messages are sets: handlers run side by side, so       *)
(* answers are in no order.  "for" is the request an answer is about, a    *)
(* history the code does not have.                                         *)
(***************************************************************************)
EXTENDS MessageCodes, FiniteSets

CONSTANTS
  Players, Clients, Sockets,
  TokenOf,             \* the player in the token of each client, or Nobody
  MaxSeq,              \* bound on the requests of a client
  maxReconnectAttempts,
  Nobody

ASSUME TokenAssumption == TokenOf \in [Clients -> Players \cup {Nobody}]
ASSUME SocketAssumption == Sockets \subseteq Nat    \* in the order they are opened
ASSUME NobodyAssumption == Nobody \notin Players \cup Clients \cup Sockets
ASSUME BoundAssumption == MaxSeq \in Nat /\ maxReconnectAttempts \in Nat

VARIABLES
  proto,               \* whether loadProto found game.proto
  valid,               \* clients whose token has not expired
  owner,               \* the client of each socket, or Nobody
  up,                  \* sockets whose transport works
  connected,           \* sockets whose handleDisconnect has not run
  joining,             \* sockets whose handleConnection awaits the token
  data,                \* client.data.playerId of each socket
  playerSockets,
  wire,                \* messages to the server
  tasks,               \* handleMessage calls after their first await
  answers,             \* messages to the clients
  link, attempts,      \* the connection of each client
  seq, pending         \* its counter and the requests it waits for

serverVars == <<joining, data, playerSockets, tasks>>
clientVars == <<link, attempts, seq, pending>>
vars == <<proto, valid, owner, up, connected, serverVars, wire, answers, clientVars>>

HEARTBEAT_REQ == SystemCodes.HEARTBEAT.req
TIME_SYNC_REQ == SystemCodes.TIME_SYNC.req
GET_PLAYER_DATA_REQ == PlayerCodes.GET_PLAYER_DATA.req
GET_INVENTORY_REQ == PlayerCodes.GET_INVENTORY.req
ClientUseItem == ClientCodes.PLAYER.USE_ITEM.req     \* of the client's copy: a stale number

\* What clients send, besides heartbeats: a handled and an unhandled code, a
\* framed message and one that nobody can read.
Sent == {[code |-> GET_INVENTORY_REQ, fmt |-> "json"], [code |-> ClientUseItem, fmt |-> "json"],
         [code |-> GET_INVENTORY_REQ, fmt |-> "proto"],
         [code |-> GET_INVENTORY_REQ, fmt |-> "junk"]}
Codes == AllRequests \cup {ClientUseItem}
Requests == [socket : Sockets, seq : 1..MaxSeq, code : Codes, fmt : {x.fmt : x \in Sent}]
MaxPushes == 1         \* bound on the pushes under way
Links == {"dialing", "up", "stuck", "gaveUp"}

TypeOK ==
  /\ proto \in BOOLEAN /\ valid \subseteq Clients
  /\ owner \in [Sockets -> Clients \cup {Nobody}]
  /\ up \subseteq connected /\ connected \subseteq {s \in Sockets : owner[s] # Nobody}
  /\ joining \subseteq {s \in Sockets : owner[s] # Nobody}
  /\ data \in [Sockets -> Players \cup {Nobody}]
  /\ playerSockets \in [Players -> Sockets \cup {Nobody}]
  /\ wire \subseteq Requests
  /\ \A t \in tasks : t.msg \in Requests /\ t.at \in {"verify", "route"}
                        /\ t.player \in Players \cup {Nobody}
  /\ \A a \in answers : a.socket \in Sockets /\ a.seq \in 0..MaxSeq /\ a.for \in 0..MaxSeq
                          /\ a.error \in BOOLEAN /\ a.framed \in BOOLEAN /\ a.code \in Nat
  /\ link \in [Clients -> Links]
  /\ attempts \in [Clients -> 0..maxReconnectAttempts]
  /\ seq \in [Clients -> 0..MaxSeq]
  /\ \A c \in Clients : \A m \in pending[c] : m.seq \in 1..seq[c] /\ m.code \in Codes
                                             /\ m.over \subseteq Sockets

Init ==
  /\ proto \in BOOLEAN /\ valid = {c \in Clients : TokenOf[c] # Nobody}
  /\ owner = [s \in Sockets |-> Nobody] /\ up = {} /\ connected = {} /\ joining = {}
  /\ data = [s \in Sockets |-> Nobody]
  /\ playerSockets = [p \in Players |-> Nobody]
  /\ wire = {} /\ tasks = {} /\ answers = {}
  /\ link = [c \in Clients |-> "dialing"] /\ attempts = [c \in Clients |-> 0]
  /\ seq = [c \in Clients |-> 0] /\ pending = [c \in Clients |-> {}]

-----------------------------------------------------------------------------
\* The client: connect, attemptReconnect, request, handleMessage.

Dial(c, s) ==
  /\ link[c] = "dialing" /\ owner[s] = Nobody
  /\ \A o \in Sockets : o < s => owner[o] # Nobody
  /\ owner' = [owner EXCEPT ![s] = c]
  /\ up' = up \cup {s} /\ connected' = connected \cup {s} /\ joining' = joining \cup {s}
  /\ link' = [link EXCEPT ![c] = "up"] /\ attempts' = [attempts EXCEPT ![c] = 0]
  /\ UNCHANGED <<proto, valid, data, playerSockets, wire, tasks, answers, seq, pending>>

AttemptReconnectLate(c) ==
  IF attempts[c] > maxReconnectAttempts
  THEN link' = [link EXCEPT ![c] = "gaveUp"] /\ UNCHANGED attempts
  ELSE link' = [link EXCEPT ![c] = "dialing"] /\ attempts' = [attempts EXCEPT ![c] = @ + 1]
AttemptReconnect(c) ==
  IF attempts[c] >= maxReconnectAttempts
  THEN link' = [link EXCEPT ![c] = "gaveUp"] /\ UNCHANGED attempts
  ELSE /\ link' = [link EXCEPT ![c] = "dialing"]
       /\ attempts' = [attempts EXCEPT ![c] = @ + 1]

\* A connection that fails is closed, and retried, or only reports an error.
DialFails(c) ==
  /\ link[c] = "dialing"
  /\ \/ AttemptReconnect(c)
     \/ link' = [link EXCEPT ![c] = "stuck"] /\ UNCHANGED attempts
  /\ UNCHANGED <<proto, valid, owner, up, connected, serverVars, wire, answers, seq, pending>>

\* onClose: what the server has sent or will send on this socket is lost.
Drop(s) ==
  /\ s \in up
  /\ up' = up \ {s}
  /\ answers' = {a \in answers : a.socket # s}
  /\ AttemptReconnect(owner[s])
  /\ UNCHANGED <<proto, valid, owner, connected, serverVars, wire, seq, pending>>

\* request: the promise waits even when nothing could be sent.  "over" is a
\* history: the socket it went over, if any.
Send(c, code, fmt) ==
  LET q == seq[c] + 1
      over == {s \in up : owner[s] = c}
  IN
  /\ seq[c] < MaxSeq
  /\ seq' = [seq EXCEPT ![c] = @ + 1]
  /\ pending' = [pending EXCEPT ![c] = @ \cup {[seq |-> q, code |-> code, fmt |-> fmt, over |-> over]}]
  /\ wire' = wire \cup {[socket |-> s, seq |-> q, code |-> code, fmt |-> fmt] : s \in over}
  /\ UNCHANGED <<proto, valid, owner, up, connected, serverVars, answers, link, attempts>>

\* The interval that startHeartbeat sets and onClose clears.
Heartbeat(c) == link[c] = "up" /\ Send(c, HEARTBEAT_REQ, "json")

\* handleMessage finds the pending request by its number.
MatchesByCode(m, a) == a.seq > 0 /\ a.code = getResponseCode(m.code)
Matches(m, a) == a.seq > 0 /\ m.seq = a.seq

\* A framed answer is not JSON: handleMessage logs it and returns.  A message
\* that matches nothing goes to handlePush, which changes nothing here.
Receive(a) ==
  LET c == owner[a.socket]
      own == IF a.framed THEN {} ELSE {m \in pending[c] : Matches(m, a)}
  IN
  /\ a \in answers
  /\ answers' = answers \ {a}
  /\ IF own = {} THEN UNCHANGED pending
     ELSE \E m \in own : pending' = [pending EXCEPT ![c] = @ \ {m}]
  /\ UNCHANGED <<proto, valid, owner, up, connected, serverVars, wire, link, attempts, seq>>

\* The timer of a request, which runs from the moment it is made.
Timeout(c, m) ==
  /\ m \in pending[c]
  /\ pending' = [pending EXCEPT ![c] = @ \ {m}]
  /\ UNCHANGED <<proto, valid, owner, up, connected, serverVars, wire, answers, link, attempts, seq>>

-----------------------------------------------------------------------------
\* The server: handleConnection and handleDisconnect.

PlayerIn(s) == IF owner[s] \in valid THEN TokenOf[owner[s]] ELSE Nobody

Map(p, s) == playerSockets' = IF p = Nobody THEN playerSockets
                              ELSE [playerSockets EXCEPT ![p] = s]

Joined(s) ==
  LET p == PlayerIn(s) IN
  /\ s \in joining
  /\ joining' = joining \ {s}
  /\ data' = [data EXCEPT ![s] = IF p = Nobody THEN @ ELSE p]
  /\ Map(p, s)
  /\ UNCHANGED <<proto, valid, owner, up, connected, wire, tasks, answers, clientVars>>

HandleDisconnect(s) ==
  /\ s \in connected \ up
  /\ connected' = connected \ {s}
  /\ wire' = {m \in wire : m.socket # s}
  /\ Map(data[s], Nobody)
  /\ UNCHANGED <<proto, valid, owner, up, joining, data, tasks, answers, clientVars>>

-----------------------------------------------------------------------------
\* handleMessage.  parseMessage understands JSON.  A framed message needs the
\* schema, and decode returns its payload in base64, which is not JSON, so its
\* code becomes 0 and only its number is left.

Parse(m) ==
  CASE m.fmt = "json" -> [ok |-> TRUE, isProtobuf |-> FALSE, code |-> m.code, seq |-> m.seq]
    [] m.fmt = "proto" /\ proto ->
         [ok |-> TRUE, isProtobuf |-> TRUE, code |-> HEARTBEAT_REQ, seq |-> m.seq]
    [] OTHER -> [ok |-> FALSE, isProtobuf |-> FALSE, code |-> 0, seq |-> 0]

\* "framed" is what encode makes of an answer to a framed message: the schema
\* that decoded the one encodes the other.
Emit(s, code, n, error, framed, for) ==
  answers' = IF s \notin up THEN answers
             ELSE answers \cup {[socket |-> s, code |-> code, seq |-> n, error |-> error,
                                 framed |-> framed, for |-> for]}
SendErrorNone(s, code, n, framed, for) == UNCHANGED answers
SendError(s, code, n, framed, for) == Emit(s, code, n, TRUE, framed, for)

Task(m, at, p) == [msg |-> m, at |-> at, player |-> p]

\* A task t of message m goes on once the player of its socket is settled.
StartRouting(m, p, others) ==
  IF Parse(m).ok
  THEN tasks' = others \cup {Task(m, "route", p)} /\ UNCHANGED answers
  ELSE tasks' = others /\ SendError(m.socket, 0, 0, FALSE, m.seq)

HandleMessage(m) ==
  LET s == m.socket IN
  /\ m \in wire /\ s \in connected
  /\ wire' = wire \ {m}
  /\ IF data[s] = Nobody /\ TokenOf[owner[s]] # Nobody
     THEN tasks' = tasks \cup {Task(m, "verify", Nobody)} /\ UNCHANGED answers
     ELSE StartRouting(m, data[s], tasks)
  /\ UNCHANGED <<proto, valid, owner, up, connected, joining, data, playerSockets, clientVars>>

LazyMapNone(s) == Map(Nobody, s)
LazyMap(s) == Map(PlayerIn(s), s)

Verified(t) ==
  LET s == t.msg.socket
      p == PlayerIn(s) IN
  /\ t \in tasks /\ t.at = "verify"
  /\ data' = [data EXCEPT ![s] = IF p = Nobody THEN @ ELSE p]
  /\ LazyMap(s)
  /\ StartRouting(t.msg, data'[s], tasks \ {t})
  /\ UNCHANGED <<proto, valid, owner, up, connected, joining, wire, clientVars>>

\* The handlers that registerHandlers registers, and how they may end.  The
\* router answers null for any other code, and does not throw.
Handled ==
  {HEARTBEAT_REQ, TIME_SYNC_REQ, GET_PLAYER_DATA_REQ, GET_INVENTORY_REQ,
   PlayerCodes.USE_ITEM.req, AuthCodes.WECHAT_LOGIN.req,
   AuthCodes.ACCOUNT_REGISTER.req, AuthCodes.ACCOUNT_LOGIN.req}
Throws(code, p) ==
  CASE code \in {HEARTBEAT_REQ, TIME_SYNC_REQ, GET_PLAYER_DATA_REQ} -> {FALSE}
    [] code = GET_INVENTORY_REQ /\ p = Nobody -> {TRUE}
    [] code \in Handled -> BOOLEAN
    [] OTHER -> {FALSE}

Route(t) ==
  LET m == t.msg
      data_ == Parse(m)
      rc == getResponseCode(data_.code) IN
  /\ t \in tasks /\ t.at = "route"
  /\ tasks' = tasks \ {t}
  /\ \E throws \in Throws(data_.code, t.player) :
       IF throws
       THEN SendError(m.socket, IF rc # NoCode THEN rc ELSE data_.code, data_.seq,
                      data_.isProtobuf, m.seq)
       ELSE IF rc # NoCode
            THEN Emit(m.socket, rc, data_.seq, FALSE, data_.isProtobuf, m.seq)
       ELSE UNCHANGED answers
  /\ UNCHANGED <<proto, valid, owner, up, connected, joining, data, playerSockets, wire, clientVars>>

\* pushToPlayer and broadcast; pushes carry the number 0.
Quiet == Cardinality({a \in answers : a.for = 0}) < MaxPushes

PushToPlayer(p, code) ==
  /\ Quiet
  /\ playerSockets[p] # Nobody
  /\ Emit(playerSockets[p], code, 0, FALSE, FALSE, 0)
  /\ UNCHANGED <<proto, valid, owner, up, connected, serverVars, wire, clientVars>>

Broadcast(code) ==
  /\ Quiet
  /\ answers' = answers \cup {[socket |-> s, code |-> code, seq |-> 0, error |-> FALSE,
                               framed |-> FALSE, for |-> 0] : s \in up}
  /\ UNCHANGED <<proto, valid, owner, up, connected, serverVars, wire, clientVars>>

TokenExpires(c) ==
  /\ c \in valid /\ valid' = valid \ {c}
  /\ UNCHANGED <<proto, owner, up, connected, serverVars, wire, answers, clientVars>>

Serve == (\E m \in wire : HandleMessage(m)) \/ (\E t \in tasks : Verified(t) \/ Route(t))

Next ==
  \/ \E c \in Clients :
       \/ \E s \in Sockets : Dial(c, s)
       \/ DialFails(c) \/ Heartbeat(c) \/ TokenExpires(c)
       \/ \E x \in Sent : Send(c, x.code, x.fmt)
       \/ \E m \in pending[c] : Timeout(c, m)
  \/ \E s \in Sockets : Drop(s) \/ Joined(s) \/ HandleDisconnect(s)
  \/ \E a \in answers : Receive(a)
  \/ Serve
  \/ \E p \in Players : PushToPlayer(p, 900000)
  \/ Broadcast(900000)

Spec == Init /\ [][Next]_vars

-----------------------------------------------------------------------------
\* What a client receives settles the JSON request it answers, with the code
\* that belongs to it, and no other: what the server made of a message it could
\* not read settles nothing.  And the client does not take the answer to a JSON
\* request it still waits for as a push.  (up' = up: a broken connection loses
\* answers too.)
AnswerFits ==
  [][up' = up => \A a \in answers \ answers' :
       LET c == owner[a.socket] IN
       /\ \A m \in pending[c] \ pending'[c] :
            m.seq = a.for /\ m.fmt = "json" /\ a.code = getResponseCode(m.code)
       /\ \A m \in pending[c] \cap pending'[c] : m.seq = a.for => m.fmt # "json"]_vars

\* While the connection a JSON request went over is open, the request or its
\* answer is under way: handlers that throw, tokens that lapse and codes that
\* nobody handles are answered like any other, so only a lost connection makes
\* a client wait in vain.
NoneSwallowed ==
  \A c \in Clients : \A m \in pending[c] :
    m.fmt = "json" => \A s \in m.over \cap up :
      \/ \E w \in wire \cup {t.msg : t \in tasks} : w.socket = s /\ w.seq = m.seq
      \/ \E a \in answers : a.socket = s /\ a.for = m.seq

\* playerSockets leads to a socket of that player.  An open socket whose
\* player has had no other is in the map: only another socket of the player
\* can take it off.
LoneSocketMapped ==
  /\ \A p \in Players : playerSockets[p] # Nobody => data[playerSockets[p]] = p
  /\ \A p \in Players, s \in connected :
       data[s] = p /\ (\A o \in Sockets : data[o] = p => o = s) => playerSockets[p] = s
=============================================================================
