----------------------------- MODULE MCServices -----------------------------
\* The services that share no state with each other, in one run: a behaviour
\* chooses one of them and takes its steps, so that their state spaces add up
\* and do not multiply.  The pure rules and the message codes have a behaviour
\* each, which takes no step.
EXTENDS Integers

CONSTANTS
  Players,               \* of all services but two
  PartyMembers, GiftPlayers, Watched,
  RoomIds,               \* the parties that have rooms
  Requests, Nothing,
  Counts, Given, PartyIds, maxPartySize, Skilled, MaxSeconds, LastSecond, MaxCredit,
  Amounts, DueTimes, LastDay, MaxTotal, MaxGifts, MaxFlags, MaxLoans,
  ItemTypes, PartySockets, TradeSockets, EstateSockets,
  Instances, Sockets, Changes, Subscriptions, Nobody, Gone, NoCode

VARIABLES
  active,
  dungeon, visit, party, partyCache, call,
  second, offlineTask, credited, claim, alone,
  day, gifts, trades, loans, flags, gift, steady,
  online, gone, room, known, misnamed,
  commands, redisSubs, handlers, change, copies, sockets, bound, playerSocketMap, pushes, due

dungeonVars == <<dungeon, visit>>
partyVars == <<party, partyCache, call>>
offlineVars == <<second, offlineTask, credited, claim, alone>>
riskVars == <<day, gifts, trades, loans, flags, gift, steady>>
roomVars == <<online, gone, room, known, misnamed>>
busVars == <<commands, redisSubs, handlers, change, copies, sockets, bound, playerSocketMap,
             pushes, due>>

Dungeons == INSTANCE Dungeon
Parties == INSTANCE Party WITH Players <- PartyMembers
Offlines == INSTANCE Offline
Risks == INSTANCE RiskControl WITH Players <- GiftPlayers
RoomsOf == INSTANCE Rooms WITH PartyIds <- RoomIds
Bus == INSTANCE EventBus
Calculations == INSTANCE Rules
Codes == INSTANCE MessageCodes

ASSUME DungeonAssumption == Dungeons!DungeonAssumption
ASSUME PartyAssumption == Parties!PartyAssumption
ASSUME OfflineAssumption == Offlines!OfflineAssumption
ASSUME RiskAssumption == Risks!RiskAssumption
ASSUME RoomsAssumption == RoomsOf!RoomsAssumption
ASSUME BusAssumption == Bus!BusAssumption

Init ==
  /\ active \in {"dungeon", "party", "offline", "risk", "rooms", "bus", "rules", "codes"}
  /\ Dungeons!DungeonInit /\ Parties!PartyInit /\ Offlines!OfflineInit
  /\ Risks!RiskInit /\ RoomsOf!RoomsInit /\ Bus!BusInit

Next ==
  /\ UNCHANGED active
  /\ \/ /\ active = "dungeon" /\ Dungeons!DungeonNext
        /\ UNCHANGED <<partyVars, offlineVars, riskVars, roomVars, busVars>>
     \/ /\ active = "party" /\ Parties!PartyNext
        /\ UNCHANGED <<dungeonVars, offlineVars, riskVars, roomVars, busVars>>
     \/ /\ active = "offline" /\ Offlines!OfflineNext
        /\ UNCHANGED <<dungeonVars, partyVars, riskVars, roomVars, busVars>>
     \/ /\ active = "risk" /\ Risks!RiskNext
        /\ UNCHANGED <<dungeonVars, partyVars, offlineVars, roomVars, busVars>>
     \/ /\ active = "rooms" /\ RoomsOf!RoomsNext
        /\ UNCHANGED <<dungeonVars, partyVars, offlineVars, riskVars, busVars>>
     \/ /\ active = "bus" /\ Bus!BusNext
        /\ UNCHANGED <<dungeonVars, partyVars, offlineVars, riskVars, roomVars>>

Spec == Init /\ [][Next]_<<active, dungeonVars, partyVars, offlineVars, riskVars, roomVars, busVars>>

\* Every value has the type its service gives it; the seconds of a claim are
\* never more than the limit of an absence.
TypeOK ==
  /\ Dungeons!DungeonTypeOK /\ Parties!PartyTypeOK /\ Offlines!OfflineTypeOK
  /\ Risks!RiskTypeOK /\ RoomsOf!RoomsTypeOK /\ Bus!BusTypeOK

\* The properties of the services, as their modules state them.
FloorPaid == Dungeons!FloorPaid
PartyWellFormed == Parties!PartyWellFormed
PaidForTimeAway == Offlines!PaidForTimeAway
GiftsCounted == Risks!GiftsCounted
KnowsLaterMembers == RoomsOf!KnowsLaterMembers
AttrReaches == Bus!AttrReaches
CurrencyReaches == Bus!CurrencyReaches

\* The rules and the codes, as their modules state them.
RulesAgree == active = "rules" => Calculations!RulesAgree
CodesPaired == active = "codes" => Codes!CodesPaired
OnlyKnownNamesDiffer == active = "codes" => Codes!OnlyKnownNamesDiffer

SmallGifts == [guiding_talisman |-> 2, concealment_array |-> 1]
=============================================================================
