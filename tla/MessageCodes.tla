---------------------------- MODULE MessageCodes ----------------------------
(***************************************************************************)
(* The message numbers of the game by name, and the arithmetic on them:    *)
(* src/shared/constants/message-codes.ts (the server) with the copies that *)
(* docs/client-example.js and tools/generate-message-codes.js keep.        *)
(*                                                                         *)
(* A section is the messages of a module by name; X |-> Message(q, r)      *)
(* stands for the constants X_REQ: q and X_RESP: r.                        *)
(***************************************************************************)
EXTENDS Integers

CONSTANT NoCode        \* null, of getRequestCode and getResponseCode

ASSUME NoCodeAssumption == NoCode \notin Nat

Message(q, r) == [req |-> q, resp |-> r]

-----------------------------------------------------------------------------
\* The server's table.

SystemCodes ==
  [HEARTBEAT |-> Message(0, 1), VERSION_CHECK |-> Message(4, 5), TIME_SYNC |-> Message(6, 7)]
ERROR_RESP == 2                     \* answers no request of its own
SystemPushes == [SERVER_NOTICE_PUSH |-> 3]
AuthCodes ==
  [WECHAT_LOGIN |-> Message(1000, 1001), REFRESH_TOKEN |-> Message(1002, 1003),
   LOGOUT |-> Message(1004, 1005), CHECK_AUTH |-> Message(1006, 1007),
   ACCOUNT_REGISTER |-> Message(1010, 1011), ACCOUNT_LOGIN |-> Message(1012, 1013)]
PlayerCodes ==
  [GET_PLAYER_DATA |-> Message(2000, 2001), GET_INVENTORY |-> Message(2002, 2003),
   GET_EQUIPMENT |-> Message(2004, 2005), EQUIP_ITEM |-> Message(2006, 2007),
   UNEQUIP_ITEM |-> Message(2008, 2009), USE_ITEM |-> Message(2010, 2011),
   DISCARD_ITEM |-> Message(2012, 2013), GET_OFFLINE_REWARD |-> Message(2014, 2015),
   LEVEL_UP |-> Message(2016, 2017), REALM_BREAKTHROUGH |-> Message(2018, 2019)]
BattleCodes ==
  [START_BATTLE |-> Message(3000, 3001), BATTLE_ACTION |-> Message(3002, 3003),
   END_BATTLE |-> Message(3004, 3005), GET_BATTLE_LOG |-> Message(3006, 3007),
   CREATE_PARTY |-> Message(3008, 3009), JOIN_PARTY |-> Message(3010, 3011),
   LEAVE_PARTY |-> Message(3012, 3013), SET_READY |-> Message(3014, 3015),
   START_DUNGEON |-> Message(3016, 3017), GET_DUNGEON_LIST |-> Message(3018, 3019),
   CHALLENGE_BOSS |-> Message(3020, 3021)]
EconomyCodes ==
  [GET_MARKET_LIST |-> Message(4000, 4001), LIST_ITEM |-> Message(4002, 4003),
   BUY_ITEM |-> Message(4004, 4005), CANCEL_LISTING |-> Message(4006, 4007),
   GET_AUCTION_LIST |-> Message(4008, 4009), CREATE_AUCTION |-> Message(4010, 4011),
   PLACE_BID |-> Message(4012, 4013), GET_TRADE_HISTORY |-> Message(4014, 4015),
   GIFT_ITEM |-> Message(4016, 4017), GET_MARKET_PRICE |-> Message(4018, 4019)]
EstateCodes ==
  [GET_ESTATE |-> Message(5000, 5001), BUILDING_UPGRADE |-> Message(5002, 5003),
   HARVEST_RESOURCE |-> Message(5004, 5005), VISIT_ESTATE |-> Message(5006, 5007),
   ASSIST_FRIEND |-> Message(5008, 5009), GET_PRODUCTION_QUEUE |-> Message(5010, 5011),
   START_PRODUCTION |-> Message(5012, 5013)]
SocialCodes ==
  [GET_FRIENDS |-> Message(6000, 6001), ADD_FRIEND |-> Message(6002, 6003),
   REMOVE_FRIEND |-> Message(6004, 6005), PRIVATE_CHAT |-> Message(6006, 6007),
   GET_CHAT_HISTORY |-> Message(6008, 6009), SEND_MAIL |-> Message(6010, 6011),
   GET_MAIL_LIST |-> Message(6012, 6013), READ_MAIL |-> Message(6014, 6015),
   CLAIM_MAIL_ATTACHMENT |-> Message(6016, 6017)]
ServerPushCodes ==
  [PLAYER_ATTR_CHANGED |-> 900000, CURRENCY_CHANGED |-> 900001, INVENTORY_CHANGED |-> 900002,
   EQUIPMENT_CHANGED |-> 900003, LEVEL_UP_PUSH |-> 900004, REALM_BREAKTHROUGH_PUSH |-> 900005,
   BATTLE_STARTED |-> 900010, BATTLE_ENDED |-> 900011, BATTLE_ACTION_PUSH |-> 900012,
   PARTY_STATE_CHANGED |-> 900020, PARTY_MEMBER_JOINED |-> 900021,
   PARTY_MEMBER_LEFT |-> 900022, PARTY_MEMBER_READY |-> 900023,
   PRIVATE_MESSAGE_RECEIVED |-> 900030, SYSTEM_MAIL_RECEIVED |-> 900031,
   TRADE_COMPLETED |-> 900040, AUCTION_OUTBID |-> 900041,
   BUILDING_UPGRADE_COMPLETE |-> 900050, RESOURCE_HARVESTABLE |-> 900051,
   FRIEND_REQUEST_RECEIVED |-> 900060, PLAYER_DATA_SYNC |-> 900100,
   INVENTORY_SYNC |-> 900101, FORCE_LOGOUT |-> 900999]
\* The errors of the system and of authentication; an error code reuses the
\* number of a message and travels in a field of its own.
ErrorCodes ==
  [SUCCESS |-> 0, UNKNOWN_ERROR |-> 1000, INVALID_REQUEST |-> 1001,
   SERVER_MAINTENANCE |-> 1002, RATE_LIMIT_EXCEEDED |-> 1003, VERSION_TOO_OLD |-> 1004,
   UNAUTHORIZED |-> 2000, TOKEN_EXPIRED |-> 2001, TOKEN_INVALID |-> 2002,
   TOKEN_REFRESH_FAILED |-> 2003, ALREADY_LOGGED_IN |-> 2004, LOGIN_FAILED |-> 2005]

Sections ==
  [SYSTEM |-> SystemCodes, AUTH |-> AuthCodes, PLAYER |-> PlayerCodes, BATTLE |-> BattleCodes,
   ECONOMY |-> EconomyCodes, ESTATE |-> EstateCodes, SOCIAL |-> SocialCodes]
Modules == {"SYSTEM", "AUTH", "PLAYER", "BATTLE", "ECONOMY", "ESTATE", "SOCIAL"}

RequestsOf(section) == {section[n].req : n \in DOMAIN section}
ResponsesOf(section) == {section[n].resp : n \in DOMAIN section}
AllRequests == UNION {RequestsOf(Sections[m]) : m \in Modules}
AllResponses == {ERROR_RESP} \cup UNION {ResponsesOf(Sections[m]) : m \in Modules}
Pushes == {ServerPushCodes[n] : n \in DOMAIN ServerPushCodes}
AllPushes == Pushes \cup {SystemPushes.SERVER_NOTICE_PUSH}

-----------------------------------------------------------------------------
\* The functions of message-codes.ts

PushBase == 900000
isRequest(c) == c % 2 = 0 /\ c < PushBase
isResponse(c) == c % 2 = 1 /\ c < PushBase
isServerPush(c) == c >= PushBase
getRequestCode(c) == IF isResponse(c) THEN c - 1 ELSE NoCode
getResponseCodeEven(c) == IF isResponse(c) THEN NoCode ELSE c + 1
getResponseCode(c) == IF isRequest(c) THEN c + 1 ELSE NoCode

\* A chain of returns, from the highest section down.
getMessageModule(c) ==
  IF c >= 900000 THEN "PUSH"
  ELSE IF c >= 6000 THEN "SOCIAL"
  ELSE IF c >= 5000 THEN "ESTATE"
  ELSE IF c >= 4000 THEN "ECONOMY"
  ELSE IF c >= 3000 THEN "BATTLE"
  ELSE IF c >= 2000 THEN "PLAYER"
  ELSE IF c >= 1000 THEN "AUTH"
  ELSE "SYSTEM"

-----------------------------------------------------------------------------
\* The constants of docs/client-example.js, by the server's modules, ...

ClientCodesShifted ==
  [SYSTEM |-> [HEARTBEAT |-> Message(0, 1)],
   AUTH   |-> [WECHAT_LOGIN |-> Message(1000, 1001), REFRESH_TOKEN |-> Message(1004, 1005)],
   PLAYER |-> [GET_PLAYER_DATA |-> Message(2000, 2001), USE_ITEM |-> Message(2004, 2005)]]
ClientCodes ==
  [SYSTEM |-> [HEARTBEAT |-> Message(0, 1)],
   AUTH   |-> [WECHAT_LOGIN |-> Message(1000, 1001), REFRESH_TOKEN |-> Message(1002, 1003)],
   PLAYER |-> [GET_PLAYER_DATA |-> Message(2000, 2001), USE_ITEM |-> Message(2004, 2005)]]
ClientPushes == [PLAYER_ATTR_CHANGED |-> 900000, CURRENCY_CHANGED |-> 900001]

\* ... and the default configuration of tools/generate-message-codes.js, the
\* ERROR_RESP of its System module apart.
DefaultCodes ==
  [SYSTEM |-> [HEARTBEAT |-> Message(0, 1), TIME_SYNC |-> Message(4, 5)],
   AUTH   |-> [WECHAT_LOGIN |-> Message(1000, 1001), REFRESH_TOKEN |-> Message(1002, 1003),
               LOGOUT |-> Message(1004, 1005)],
   PLAYER |-> [GET_PLAYER_DATA |-> Message(2000, 2001), GET_INVENTORY |-> Message(2002, 2003),
               USE_ITEM |-> Message(2004, 2005)]]
DefaultErrorResp == 2
DefaultPushes ==
  [PLAYER_ATTR_CHANGED |-> 900000, CURRENCY_CHANGED |-> 900001, INVENTORY_CHANGED |-> 900002,
   LEVEL_UP_PUSH |-> 900003]
DefaultErrors ==
  [SUCCESS |-> 0, UNKNOWN_ERROR |-> 1000, INVALID_REQUEST |-> 1001, UNAUTHORIZED |-> 2000,
   TOKEN_EXPIRED |-> 2001]
DefaultBase == [SYSTEM |-> 0, AUTH |-> 1000, PLAYER |-> 2000]
DefaultPushBase == 900000

\* The generated getMessageModule bounds every section, and knows no other.
GeneratedModule(c) ==
  LET Holds(m) == DefaultBase[m] <= c /\ c < DefaultBase[m] + 1000
  IN IF \E m \in DOMAIN DefaultBase : Holds(m)
     THEN CHOOSE m \in DOMAIN DefaultBase : Holds(m)
     ELSE IF c >= DefaultPushBase THEN "PUSH" ELSE "UNKNOWN"
GeneratedIsRequest(c) == c % 2 = 0 /\ c < DefaultPushBase
GeneratedIsResponse(c) == c % 2 = 1 /\ c < DefaultPushBase
Generated ==
  {DefaultErrorResp} \cup {DefaultPushes[n] : n \in DOMAIN DefaultPushes}
    \cup UNION {RequestsOf(DefaultCodes[m]) \cup ResponsesOf(DefaultCodes[m]) :
                m \in DOMAIN DefaultCodes}

-----------------------------------------------------------------------------
\* The names to which two tables do not give one number.
Changed(mine, theirs) == {n \in DOMAIN mine : n \notin DOMAIN theirs \/ mine[n] # theirs[n]}
Stale(copy) == UNION {Changed(copy[m], Sections[m]) : m \in DOMAIN copy}

\* What the server makes of a request that a copy gives another number: it takes
\* it for another message of the module.
Mistaken(copy, m, n) ==
  \E k \in DOMAIN Sections[m] : k # n /\ Sections[m][k] = copy[m][n]

\* X_RESP is what getResponseCode makes of X_REQ and getRequestCode turns it back,
\* both in the section that getMessageModule gives them; no number is that of
\* two messages, and a push answers nothing.
CodesPaired ==
  /\ \A m \in Modules : \A n \in DOMAIN Sections[m] :
       LET x == Sections[m][n]
       IN  /\ isRequest(x.req) /\ getResponseCode(x.req) = x.resp
           /\ getRequestCode(x.resp) = x.req
           /\ getMessageModule(x.req) = m /\ getMessageModule(x.resp) = m
           /\ \A k \in DOMAIN Sections[m] : Sections[m][k].req = x.req => k = n
  /\ \A c \in Pushes :
       isServerPush(c) /\ getMessageModule(c) = "PUSH" /\ getResponseCode(c) = NoCode
  /\ AllRequests \cap AllResponses = {} /\ AllPushes \cap (AllRequests \cup AllResponses) = {}

\* The documented client and the generator's default configuration give every
\* name the server's number but for these: TIME_SYNC and LEVEL_UP_PUSH of the
\* generator and USE_ITEM of both, each the number of another message.  The
\* generated functions classify every number listed as the server's do.
OnlyKnownNamesDiffer ==
  /\ Stale(ClientCodes) = {"USE_ITEM"} /\ Changed(ClientPushes, ServerPushCodes) = {}
  /\ Stale(DefaultCodes) = {"TIME_SYNC", "USE_ITEM"}
  /\ Changed(DefaultPushes, ServerPushCodes) = {"LEVEL_UP_PUSH"}
  /\ Changed(DefaultErrors, ErrorCodes) = {} /\ DefaultErrorResp = ERROR_RESP
  /\ Mistaken(ClientCodes, "PLAYER", "USE_ITEM") /\ Mistaken(DefaultCodes, "PLAYER", "USE_ITEM")
  /\ Mistaken(DefaultCodes, "SYSTEM", "TIME_SYNC")
  /\ DefaultPushes.LEVEL_UP_PUSH = ServerPushCodes.EQUIPMENT_CHANGED
  /\ \A c \in Generated :
       /\ GeneratedModule(c) = getMessageModule(c)
       /\ GeneratedIsRequest(c) = isRequest(c) /\ GeneratedIsResponse(c) = isResponse(c)
=============================================================================
