------------------------------- MODULE Rooms -------------------------------
(***************************************************************************)
(* The socket.io rooms of the party, trade and estate gateways:            *)
(* src/modules/battle/party.gateway.ts, market/trade.gateway.ts and        *)
(* estate/estate.gateway.ts.  A handler runs to its end before the next    *)
(* message of the process: its awaited joins are resolved.  Each socket    *)
(* belongs to one namespace, and socket.io forgets it when it goes.        *)
(*                                                                         *)
(* The player that the party gateway announces is the one that the message *)
(* names; nothing ties it to the sender.  A player is written here as the  *)
(* socket of its own client.                                               *)
(***************************************************************************)
EXTENDS Integers, Sequences, SequencesExt, Lists

CONSTANTS
  Players, ItemTypes, PartyIds,
  PartySockets, TradeSockets, EstateSockets

RoomsAssumption ==
  /\ PartySockets \cap TradeSockets = {} /\ PartySockets \cap EstateSockets = {}
  /\ TradeSockets \cap EstateSockets = {}

AllSockets == PartySockets \cup TradeSockets \cup EstateSockets
PartyRooms == {<<"party", id>> : id \in PartyIds}
MarketRooms == {<<"market", t>> : t \in ItemTypes \cup {"all"}}
AuctionRoom == <<"auction", "all">>
EstateRooms == {<<"estate", p>> : p \in Players}
RoomNames == PartyRooms \cup MarketRooms \cup {AuctionRoom} \cup EstateRooms

VARIABLES
  online, gone,        \* connected sockets, and those that have been
  room,                \* the sockets in each room, in the order they came
  known,               \* whom each party socket was told of, and not told off,
                       \* since it is in the room
  misnamed             \* history: who joined a room under another's name, or in
                       \* whose name another left, since it joined under its own

RoomsTypeOK ==
  /\ online \subseteq AllSockets /\ gone \subseteq AllSockets \ online
  /\ \A n \in RoomNames : ToSet(room[n]) \subseteq online /\ IsInjective(room[n])
  /\ known \in [PartySockets -> [PartyRooms -> SUBSET PartySockets]]
  /\ misnamed \in [PartyRooms -> SUBSET PartySockets]

RoomsInit ==
  /\ online = {} /\ gone = {}
  /\ room = [n \in RoomNames |-> <<>>]
  /\ known = [s \in PartySockets |-> [n \in PartyRooms |-> {}]]
  /\ misnamed = [n \in PartyRooms |-> {}]

-----------------------------------------------------------------------------
Entered(rooms, s) ==
  [n \in RoomNames |-> IF n \in rooms /\ ~Contains(room[n], s) THEN Append(room[n], s) ELSE room[n]]
Left(rooms, s) ==
  [n \in RoomNames |-> IF n \in rooms THEN Filtered(room[n], s) ELSE room[n]]

Connect(s) ==
  /\ s \in AllSockets \ (online \cup gone)
  /\ online' = online \cup {s} /\ UNCHANGED <<gone, room, known, misnamed>>

\* The party gateway's handleDisconnect tells nobody in the rooms.
Disconnect(s) ==
  /\ s \in online
  /\ online' = online \ {s} /\ gone' = gone \cup {s}
  /\ room' = Left(RoomNames, s)
  /\ known' = [o \in PartySockets |-> IF o = s THEN [n \in PartyRooms |-> {}] ELSE known[o]]
  /\ misnamed' = [n \in PartyRooms |-> misnamed[n] \ {s}]

\* client.to(room): all in the room but the sender, who may be outside.
Itself(n, s) == {s}
Others(n, s) == ToSet(room[n]) \ {s}

JoinPartyRoom(s, n, p) ==
  /\ s \in online
  /\ room' = Entered({n}, s)
  /\ known' = [o \in PartySockets |->
       IF o \in Others(n, s) THEN [known[o] EXCEPT ![n] = @ \cup {p}]
       ELSE known[o]]
  /\ misnamed' = [misnamed EXCEPT ![n] = IF p = s THEN @ \ {s} ELSE @ \cup {s}]
  /\ UNCHANGED <<online, gone>>

LeavePartyRoom(s, n, p) ==
  /\ s \in online
  /\ room' = Left({n}, s)
  /\ known' = [o \in PartySockets |->
       IF o \in Others(n, s) THEN [known[o] EXCEPT ![n] = @ \ {p}]
       ELSE IF o = s THEN [known[o] EXCEPT ![n] = {}] ELSE known[o]]
  /\ misnamed' = [misnamed EXCEPT ![n] = (@ \cup ({p} \cap ToSet(room[n]))) \ {s}]
  /\ UNCHANGED <<online, gone>>

\* set-ready, start-dungeon, party-chat and broadcastPartyUpdate go to the whole
\* room, whoever sends them: membership and leadership are not looked at.
PartyAudience(id) == ToSet(room[<<"party", id>>])

-----------------------------------------------------------------------------
\* No types means all of them.
MarketRoomsFor(types) ==
  IF types = {} THEN {<<"market", "all">>} ELSE {<<"market", t>> : t \in types}
SubscribeMarket(s, types) ==
  /\ s \in online
  /\ room' = Entered(MarketRoomsFor(types), s) /\ UNCHANGED <<online, gone, known, misnamed>>

SubscribeAuction(s) ==
  /\ s \in online
  /\ room' = Entered({AuctionRoom}, s) /\ UNCHANGED <<online, gone, known, misnamed>>

Unsubscribe(s, rooms) ==
  /\ s \in online
  /\ room' = Left(rooms, s) /\ UNCHANGED <<online, gone, known, misnamed>>

\* Who is sent a new listing (once, in one room or both), the news of auctions,
\* a completed trade, and a personal notification: its room has no way in.
ListingAudience(t) == ToSet(room[<<"market", t>>]) \cup ToSet(room[<<"market", "all">>])
AuctionAudience == ToSet(room[AuctionRoom])
TradeCompleteAudience == online \cap TradeSockets
PlayerAudience(p) == IF <<"player", p>> \in DOMAIN room THEN ToSet(room[<<"player", p>>]) ELSE {}

SubscribeEstate(s, p) ==
  /\ s \in online
  /\ room' = Entered({<<"estate", p>>}, s) /\ UNCHANGED <<online, gone, known, misnamed>>
UnsubscribeEstate(s, p) ==
  /\ s \in online
  /\ room' = Left({<<"estate", p>>}, s) /\ UNCHANGED <<online, gone, known, misnamed>>
EstateAudience(p) == ToSet(room[<<"estate", p>>])

RoomsNext ==
  \/ \E s \in AllSockets : Connect(s) \/ Disconnect(s)
  \/ \E s, p \in PartySockets, n \in PartyRooms : JoinPartyRoom(s, n, p) \/ LeavePartyRoom(s, n, p)
  \/ \E s \in TradeSockets :
       \/ SubscribeAuction(s)
       \/ \E types \in SUBSET ItemTypes : SubscribeMarket(s, types)
       \/ \E n \in MarketRooms \cup {AuctionRoom} : Unsubscribe(s, {n})
  \/ \E s \in EstateSockets, p \in Players : SubscribeEstate(s, p) \/ UnsubscribeEstate(s, p)

RoomsSpec == RoomsInit /\ [][RoomsNext]_<<online, gone, room, known, misnamed>>

-----------------------------------------------------------------------------
\* A socket in a party room has been told of the player of every socket that
\* came into it later and is still there, however they come, go, come twice and
\* break off, if that player joined under its own name and nobody has left in
\* it since.  (It is not told of those who were there before, nor that one broke
\* off, and a message that names another player is believed.)
KnowsLaterMembers ==
  \A n \in PartyRooms : \A j \in DOMAIN room[n] : \A i \in 1..(j - 1) :
    room[n][j] \in known[room[n][i]][n] \cup misnamed[n]
=============================================================================
