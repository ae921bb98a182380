# Verification of the taixu game server

The repository is a NestJS server for a cultivation game: HTTP controllers and
socket.io gateways in front of services that keep their state in MongoDB
(documents) and Redis (caches, locks, auctions, dungeons, sessions). Several
server processes may run against the same two stores. This directory holds TLA+
modules that model its services one awaited call at a time, TLC configurations
that check them on small instances, and TLAPS proofs for every instance.

## 1. Inventory

Paths are relative to `src/src/`. "Hard" names the behaviours a test would hardly
reach. `PROJECT.json` lists every hazard at its line, with the property that
covers it or the reason none does.

| Component | State | Operations | Hard | Correct when |
|---|---|---|---|---|
| Market `modules/market/market.service.ts` | trade documents (MongoDB), sorted set `market:<itemId>`, lock `lock:trade:<id>` | `listItem`, `buyItem`, `cancelListing`; queries | interleaved purchases, cancellations without the lock, failed calls, crashes, leases that end early | a trade is sold once, to the player who was told so; locks come back; open trades stay listed |
| Redis lock `redis/redis.service.ts` | a key with a value and an expiry | `acquireLock` = SETNX, EXPIRE; `releaseLock` = GET, compare, DEL | four commands, none atomic with the next | one holder; never stuck; never released by another |
| Auction house `modules/market/auction.service.ts` | `auction:<id>` (JSON), `auction:active` | `createAuction`, `placeBid` (WATCH, three attempts), `finalizeAuction`; queries | one connection and so one WATCH per process; lost EXEC replies; expiry during a bid | accepted bids stay; prices ascend; every bid is answered |
| Risk control `modules/market/risk-control.service.ts` | daily gift total and loans in Redis | `validateTrade`, `recordGift`, `recordLoan`, `checkOverdueLoans`, `flagAccount` | read-check-write without a lock | the gift limit holds |
| Dungeon `modules/battle/dungeon.service.ts` | one JSON value per run | `enterDungeon`, `useItem`, `exitDungeon`, `acquireItem` | read-modify-write; limits looked up under wrong keys | items bounded, counted and used once; rewards once |
| Parties `modules/battle/battle.service.ts` | party in Redis and in a `Map` of each process | `createParty`, `joinParty`, `leaveParty`, `switchStyle` | lost joins, resurrected parties, stale `Map` | leader is a member, at most 4 members, empty parties go |
| Estate `modules/estate/estate.service.ts` | estate document, lock, cooldown key, timers in memory | `startBuilding`, `completeBuilding`, `stealSpirit`, `assistBuilding`, `boost` | checks before the lock, timers lost by a restart, entries pushed twice | one construction at a time; it ends; one theft per cooldown |
| Offline rewards `modules/offline/offline.service.ts` | task in Redis, player document | `setOfflineTask`, `calculateAndClaimReward` | three calls: read, pay, delete | no more time is paid than has passed |
| Player profile `modules/player/player.service.ts` | cached profile with a TTL | `getProfile`, `updateStatus` | stale value cached after the invalidation | the cache catches up |
| Sessions `modules/auth/auth.service.ts` | stored refresh token, player document | `wechatLogin`, `accountRegister`, `accountLogin`, `refreshTokens`, `logout` | refreshes and logouts that overlap; first logins that race; tokens equal within a second | one first login; a revoked token stays revoked; logout ends the session |
| Event bus `core/event.manager.ts`, `core/cross-service.event-bus.ts`, `redis/redis-pubsub.service.ts` | handler sets, channels | `emit`, `publishGlobal`, `publishToPlayer`, `subscribe*`, unsubscribe closures | duplicates across two channels, SUBSCRIBE that fails, copies that arrive after a socket has gone | a change reaches the socket of its player |
| Message gateway and router `modules/gateway/message.gateway.ts`, `core/message-router.ts`, with the client of `docs/client-example.js` | `playerSockets`, `client.data`; at the client its pending requests | connect, verify, route, answer, push, disconnect; request, timeout, reconnect | an awaited verification between connect and register; answers out of order; the old socket disconnects after the new one registered | every request over a live connection is answered, with its own answer |
| Party, trade and estate sockets `modules/battle/party.gateway.ts`, `modules/market/trade.gateway.ts`, `modules/estate/estate.gateway.ts` | rooms, `playerSocketMap` | join, leave, subscribe, bind, disconnect, broadcasts | a second join, a break-off without a message | members know who came after them |
| Message codes, utilities `shared/`, `../tools/`, `../docs/client-example.js` | none | code arithmetic, tax, suppression, item maps | rules and code tables written twice or more | the copies agree, but for the names known to differ |
| HTTP plumbing, configuration, protobuf, examples | none of their own | | | not modelled |

How they interact: controllers call services; services share Redis and MongoDB
and nothing else, apart from per-process memory (`BattleService.partyCache`,
estate timers, socket maps, and **the one Redis client** of `RedisService`, on
which `WATCH` state lives). Market and Estate are clients of the same lock.
Services emit events through `EventManager`; `CrossServiceEventBus` forwards them
between processes over Redis channels. The status of a player document is
written by logins, logouts and `updateStatus` and cached by `getProfile`, so
`Session` models both services.

## 2. Plan

Order: what costs players property if it is wrong comes first.

| # | Module | Models | Composition | State |
|---|---|---|---|---|
| 1 | `RedisLock` | the lock's Redis commands | instantiated by its clients | done |
| 2 | `Sale` | abstract: offered, bought once, confirmed once | implemented by `Market` | done |
| 3 | `Market`, `MCMarket`, `MarketProofs` | list, buy, cancel | `Lock == INSTANCE RedisLock`, `AbstractSale == INSTANCE Sale` | done |
| 4 | `Auction`, `MCAuction`, `AuctionProofs`; `Bidding` | create, bid, finalize; abstract: open, accept, close | `AbstractBidding == INSTANCE Bidding` | done |
| 5 | `Estate`, `MCEstate`, `EstateProofs` | building, stealing, assisting, timers, restarts | second client of `RedisLock` | done |
| 6 | `Session`, `MCSession`, `SessionProofs` | logins, refresh, logout, profile cache | both services that write the player's status | done |
| 7 | `MessageCodes`, `Gateway`, `MCGateway`, `GatewayProofs` | code tables; server and client of the message protocol | `Gateway` extends `MessageCodes` | done |
| 8 | `Dungeon`, `DungeonProofs`; `Offline`, `OfflineProofs`; `ServicesProofs` | dungeon runs; offline tasks and claims | in `MCServices` | done |
| 9 | `Lists`, `Party`, `RiskControl` | `filter`; party values; gifts, loans, flags | `Party` and `Rooms` extend `Lists`; in `MCServices`, proved in `ServicesProofs` | done |
| 10 | `Rooms`, `EventBus` | socket rooms; changes from publisher to socket | in `MCServices`, proved in `ServicesProofs` | done |
| 11 | `Rules` | calculations, against each other | in `MCServices` | done |

What is left: an abstract specification of the request protocol, with `Gateway`
shown to implement it, and the unsubscribe closures of the event bus once something
calls them.

## 3. What is modelled

**A request** is a label `pc[r]` naming the call it is about to await and the
values it carries. An action is one awaited call with the synchronous code up to
the next; every action of any other request may come in between, which is what
Node and several processes allow. A request that is never continued is one whose
process hangs.

### RedisLock
`SetNx` and `SetExpiry` are the two commands of `acquireLock`, `Del` the last of
`releaseLock` (which compares first, in an action of the client), `Lapse` the
server's expiry. `lockVal[k]` is the string under the key, `lockTtl[k]` whether it
has an expiry: between SETNX and EXPIRE it has none.

### Market
| Code | Actions |
|---|---|
| `listItem` | `ListCreate`, `ListIndex` |
| `buyItem` | `BuyLock`, `BuyExpire`, `BuyFind`, `BuySave`, `BuyUnlist`, `BuyGetLock`, `BuyDelLock` |
| `cancelListing` | `CancelFind`, `CancelSave`, `CancelUnlist` |
| a rejected call inside `buyItem`'s `try` / elsewhere | `TryFails` / `CallFails` |
| the process stops; the lease ends | `Crash`; `LockLapses` |

The document is reduced to seller, completion and buyer: prices and item fields
decide nothing after the input checks of `listItem`. `save()` writes the modified
paths unconditionally, so `BuySave` sets `buyerId` whatever happened since
`BuyFind`. A rejected call is one that had no effect. A lost answer to SETNX or to
`save()` is that call followed by the rejection of the next one; lost answers to
the other calls are left out. Lock values are `Date.now()` strings, so two may
coincide: a purchase draws any value of `Stamps`.

`MayLapse` says whether a lease can end while its holder is still running.
`acquireLock` asks for 10 seconds and nothing renews it (`extendLock` has no
caller), so both values are possible and the properties say which they need.

### Sale
What the market promises regardless of steps: `Offer`, `Purchase` (at most one
buyer, never the seller), `Confirm` (at most one request is told, and it is the
buyer's). `Market!AbstractSale` maps documents to `seller` and `buyer`, and the
requests that returned success to `told`; `ImplementsSale` is its specification.

### Auction
| Code | Actions |
|---|---|
| `createAuction` | `CreateSet`, `CreateIndex` |
| `placeBid`, one attempt | `Watch`, `Get`, then `Unwatch` (a check failed) or `Exec`; `Retry` is the part they share with failures |
| `finalizeAuction` | `FinalizeGet`, `FinalizeUnlist`, `FinalizeDel` |
| a call rejects; EXEC ran but its reply is lost; the client reconnects | `CallFails`; `ExecReplyLost`; `Reconnect` |
| the clock passes `endTime`; the key without bids expires | `TimePasses`; `KeyExpires` |

A WATCH belongs to a connection. `watching` and `dirty` are sets of connections,
and `ServerOf` says which connection serves which request: `RedisService` has one
client per process, so requests of one process share it. A failed check throws
inside the `try`, whose `catch` retries without looking at the cause: the model
follows it. `Exec` runs the SET, which drops the expiry of the key. Auction ids
are assumed unique, and all bids know the id only after the key is written.

### Bidding
What the auction house promises regardless of steps: `Open` once, `Accept` (a bid
above the price of this moment, by somebody else than the seller, entered in the
history as it is accepted, one per request), `Close`, after which nothing is
accepted. `Auction!AbstractBidding` maps the auction to `lot` and the bids that
were answered `isHighest` to `accepted`. A bid is accepted at its EXEC: while its
watch is intact, nothing has happened since its GET. One thing is not what is
stored: an unbid auction whose key expires while a bid is between GET and EXEC
counts as open as long as such a bid's watch is intact (`Unaborted`), because its EXEC
writes the auction back. Its lot is then what these bids have read; all have read
the same (`SameCopies`), so it does not matter whose copy `OpenLot` chooses.

### Estate
| Code | Actions |
|---|---|
| `getEstate`, at the head of every operation | `BuildFind`, `AssistFind`, `VisitFind`, `StealFind`; `CreateNew` or, against the unique index, `CreateClash` |
| `startBuilding` | `BuildFind`, `Acquire`, `Expire`, `Update`, `GetLock`, `DelLock` |
| `setTimeout`, `completeBuilding` | `TimerFires`; `TimerFails` when its update rejects |
| `stealSpirit` | `StealCooldown`, `Acquire`, `Expire`, `StealFind`, `StealLog`, `SetCooldown`, `GetLock`, `DelLock` |
| `assistBuilding` | `AssistFind`, `AssistLog` |
| a rejected call; an update whose reply is lost; a process stops | `CallFails`; `UpdateReplyLost`; `Crash` |
| the cooldown key expires; the lease ends | `CooldownEnds`; `LockLapses` |

Only the entries of one building type are kept: types share no field and no lock.
`startBuilding` chooses `$set` or `$push` by what it read before the lock
(`found`), and `buildings.$` is the first match, so a second entry pushed by a race
is never completed nor seen again. Timers live in the process of their request
(`ServerOf`); how long they run is left open. Lock values are constants of the
requests (`StampOf`), all equal in the runs. `boostBuilding` only logs;
`assistBuilding` reports a shorter time but changes no timer.

### Session
| Code | Actions |
|---|---|
| `wechatLogin`, `accountLogin`, `accountRegister` | `WechatLogin`, `AccountLogin`, `Register` (the lookup), `Create` or `Save`, `Store` |
| `refreshTokens` | `Refresh`, `RefreshGet`, `Store` |
| `logout` behind its guard | `Logout`, `LogoutDel`, `LogoutBlacklist`, `Update` |
| `updateStatus` | `UpdateStatus`, `Update`, `DelCache` |
| `getProfile` | `GetProfile`, `FindDoc`, `SetCache` |
| a rejected call; the clock with the expiry of keys; expiry of a profile | `CallFails`; `Tick`; `CacheExpires` |

A JWT carries its player, its type and the second it was signed in, and nothing
else that differs, so a pair of tokens is `[player, iat]`: two pairs of one second
are the same strings. `Store` may lose its reply: the key is written and the
client has an error. Mongoose sends the paths that were modified, so `Save`
writes the status only if another one was read. The blacklist is written and
never read, and `logout` goes on when its SET fails. Two refreshes with one token
may both pass `RefreshGet`; both succeed and the pair that was stored first is
dead. A refresh that passed it before a logout stores its pair after it, and the
session lives on. A lost reply of `Store` leaves a client with a token that no
longer refreshes. Of the answers only `isNewPlayer` is kept, in `told`. Logins, logouts and offline pay do
not drop the cached profile; only its time to live ends that.

### MessageCodes, Gateway
`MessageCodes` holds the code table of the server by name, the copies that the
documented client and the generator's default configuration keep of it, and the
functions on codes. `shared/protocol/message-codes.ts` is the server's file with
another header line and `types.ts` beside it uses the constants by name, so neither
is a table of its own.

`Gateway` has both ends of the protocol. Its client is the documented one with one
difference: `docs/client-example.js` opens a raw WebSocket, which cannot connect to
a socket.io server, as `docs/WEBSOCKET_TROUBLESHOOTING.md:87-95` says. What is modelled
is a socket.io client with that example's `connect`, `request` and `handleMessage`,
and `NoneSwallowed` and `AnswerFits` hold of such a client only. A JSON answer arrives
as an object; a framed one arrives as bytes, at which the example's `JSON.parse`
fails, so `Receive` drops it and settles nothing.

| Code | Actions |
|---|---|
| client: `connect`, `attemptReconnect`, `onClose` | `Dial`, `DialFails`, `Drop` |
| client: `request`, `startHeartbeat`, `handleMessage`, the timer | `Send`, `Heartbeat`, `Receive`, `Timeout` |
| `handleConnection`, `handleDisconnect` | `Joined`, `HandleDisconnect` |
| `handleMessage` up to and after its `await` | `HandleMessage`, `Verified` (the token is verified again when the socket has no player), `Route` |
| `pushToPlayer`, `broadcast`; a token's end | `PushToPlayer`, `Broadcast`; `TokenExpires` |

Messages under way are sets, and handlers run side by side, so answers overtake
each other. A payload is one of a handled code, an unhandled one, a framed
message and one that cannot be read. `loadProto` looks for `game.proto` under
`src/src/shared/proto`, while the repository has it at `src/shared/proto`, so
`Init` takes both outcomes. A framed message decodes to base64, which is not
JSON, so its code becomes 0. A code without a handler is answered with `null` as
a success. `playerSockets.delete` does not compare sockets: a late disconnect of
an old socket takes the mapping of its successor away, which is why
`LoneSocketMapped` speaks of players with one socket. A login over the socket does
not authenticate that socket.

### Dungeon, Party, Offline, RiskControl
Each is one Redis value (or a few) that is read, changed and written back
without a lock. A request keeps what it read; its write is an action of its own,
may fail, and may be done while its reply is lost.

| Code | Actions |
|---|---|
| `enterDungeon`, `useItem`, `exitDungeon`, `acquireItem`; expiry | `Enter`, `UseItem`, `Exit`, `AcquireItem`, then `Write`; `DungeonExpires` |
| `createParty`, `joinParty` | `CreateParty`, `JoinGet`, then `PartyWrite` |
| `leaveParty`; expiry | `LeaveKeys`, `LeaveGet` per key, `PartyWrite` or `LeaveNothing`; `PartyExpires` |
| `setOfflineTask` | `SetOfflineTask` |
| `calculateAndClaimReward`; a failure; the clock | `ClaimGet`, `ClaimPay`, `ClaimDel`; `ClaimFails`; `SecondPasses` |
| `recordGift`; a failure; expiry | `GiftGet`, `GiftSet`, `GiftCreate`; `GiftFails`; `GiftsExpire` |
| `recordLoan`, `flagAccount`; the clock with the expiry of loans | `RecordLoan`, `FlagAccount`; `DayPasses` |

*Dungeon.* `DUNGEON_ITEM_LIMITS` is keyed by the names of the items and read by
their values, so the limit is `undefined`, the count becomes `NaN` and is stored
as `null`: `Nothing`. An item type that names no item (`Unlisted`) passes `useItem`'s
check, since `undefined <= 0` is false, and writes the state back as it was read.
*Party.* A member list keeps its order, since the first one
left becomes leader, and `Lists!Filtered` is the `filter` that takes a member off
it; the `Map` of a process is written and never read. *Offline.*
The seconds a claim counts stand for the reward, which is a product of them with
a rate and an efficiency. *RiskControl.* No module calls the service. A loan's
key expires when the loan is due, so no overdue loan is found but one of zero days,
whose key has no expiry (`lives`); scores are multiplied by a constant to stay whole.

### Rooms, EventBus
`Rooms` has `Connect`, `Disconnect`, `JoinPartyRoom`, `LeavePartyRoom`,
`SubscribeMarket`, `SubscribeAuction`, `Unsubscribe`, `SubscribeEstate` and
`UnsubscribeEstate`; `known` is what the sockets in a party room have been told.
A join or a departure announces the player its message names, whoever sends it:
`misnamed` keeps who is announced under another's name or announced gone without
leaving, and `KnowsLaterMembers` is about the others. A player is written as the
socket of its own client.
The rooms of `notifyPlayer` have no way in. Broadcasts are the sets of sockets
they reach. `EventBus` follows a change: `Notify` or `Emit`, `Publish` per channel
(or `PublishFails`, which the code swallows), a copy per subscribed process, and
`Deliver`, which runs every handler of the channel down to the lookup in
`playerSocketMap`. `Subscribe` sends SUBSCRIBE for the first handler of a channel
only (`CommandArrives`, `CommandFails`). `SubscriberLost` is a process whose
subscriber connection breaks: ioredis sends its SUBSCRIBEs again, and what was on its
way or is published meanwhile is lost, so nothing is owed to its sockets any more.
`Connect`, `BindPlayer` and `HandleDisconnect` are the gateway's.

### Rules
The calculations that services rely on, as operators. Those written twice in the
code are compared: the suppression of a party and the halving of rewards, the
item map and the merged lists, the slots and their constants.

### MCServices
Dungeon, parties, offline rewards, risk control, rooms and the bus share no
variable. `MCServices` instantiates all of them, parties, gifts and rooms with sets
of their own (`PartyMembers`, `GiftPlayers`, `RoomIds`); `active` picks the one that
moves, so that one run adds their state spaces. Nothing is lost: a service's
behaviours are the same beside another that it shares nothing with. Their
assumptions on constants are operators there, and ASSUMEd by `MCServices`.

## 4. What is checked

| Run | Instance | Shows |
|---|---|---|
| `market_safety` | 1 trade, 3 players, 4 requests, leases outlive holders; 255 000 states | types; one request is told it bought (`OneSale`) and the document keeps its buyer (`BuyerOfRecord`); a purchase owns its lock until its DEL (`SectionOwnsLock`); no step takes an open trade off the index (`OpenTradeStaysListed`); the market implements `Sale` |
| `market_lease` | 1 trade, 2 players, 3 requests, 2 lock values, leases lapse; 93 000 states | a lock without a running request was left by a crash or a failed call (`ReleasedOnReturn`): refusals and errors inside the `try` all release |
| `market_withdrawn` | 3 requests | **violated**: a confirmed withdrawal gets a buyer |
| `auction_bids` | 3 bids, 2 players, amounts 1 to 3, own connections, no Redis errors; 356 000 states | accepted bids stay on record (`NoBidLost`) and differ (`AcceptedAmountsDiffer`); three attempts suffice for three contenders (`RetriesSuffice`); the house implements `Bidding` (`ImplementsBidding`), so a bid is accepted against the price of the moment and none after the close |
| `auction_shared` | 2 bids on one connection, 1 finalizer, Redis errors, 2 attempts, fairness; 287 000 states | what is stored is coherent even when bids are lost (`BidsAscend`); a winner asked for the price (`WinnerBid`); every bid is answered (`BidAnswered`) |
| `auction_lost_bid` | 2 bids on one connection, no Redis errors | **violated**: an accepted bid is overwritten |
| `estate_build` | 1 estate, 1 building type, 3 requests on 2 processes, Redis and MongoDB errors, crashes, fairness of timers; 402 000 states | locks exclude (`SectionOwnsLock`); a building under construction has a timer unless one was lost (`ConstructionHasTimer`); each completion is one level of the first entry (`LevelsEarned`); constructions end unless disturbed (`ConstructionEnds`) |
| `estate_twice` | 2 requests | **violated**: a building is started while it is under construction |
| `session_tokens` | 2 players, one of each kind of account, 3 requests, 3 seconds, access tokens live 1 and refresh tokens 2, failed calls and lost replies, fairness; 395 000 states | one of several first logins is told it is new (`NewOnce`); a client that is alone can refresh (`ClientHoldsSession`); a logout that is alone is final (`LogoutIsFinal`); revoked tokens stay revoked (`RevokedStaysRevoked`); stale profiles end (`StaleEnds`) |
| `gateway_answers` | 1 client, 2 sockets, 2 requests, 1 reconnection, 1 push at a time; 2 553 000 states | a JSON request over a live connection is under way or answered (`NoneSwallowed`); an answer settles the request it is for, with its code (`AnswerFits`); the map names the player's only socket (`LoneSocketMapped`) |
| `services` | per service: 1 player, 2 requests (dungeon, offline); 3 players, 2 parties of at most 2, 2 requests; 2 players, 2 gifts; 3 party sockets; 2 processes, 2 sockets, 1 change; 1 230 000 states | floors and arrays are paid with items (`FloorPaid`); stored parties are well-formed (`PartyWellFormed`); lone claims are paid for time away (`PaidForTimeAway`); undisturbed gift totals are what was given (`GiftsCounted`); members know later members (`KnowsLaterMembers`); a change of attributes reaches its socket while its process keeps its subscriber connection (`AttrReaches`); rules written twice agree (`RulesAgree`); requests and responses are paired by name (`CodesPaired`) and the copies of the table differ from it in three names alone (`OnlyKnownNamesDiffer`) |
| `currency_push` | as `services` | **violated**: a change of a currency is pushed to nobody |

**Bounds.** Most are the sizes of the sets of the configurations. What would grow
without end is cut off in the guards by a named bound: `MaxTotal` (the gift total
that a further gift may find), `MaxGifts`, `MaxFlags`, `MaxLoans`, `LastDay`, `MaxCredit`
and `MaxSeq`, constants the configurations choose, and `MaxPushes` of `Gateway`, a
definition. The code has none of them, and the theorems hold for every value of the
constants. Locks, documents and index entries of different trades never touch each
other, so one trade is enough. Four requests allow a listing, two competing
purchases and a cancellation, each by any of a seller and two buyers. Two lock
values let two purchases carry the same or different ones, which is all
`releaseLock` distinguishes. Three bids are the smallest number for which
two attempts would not do; a first price, a better and a best one are three
amounts. With a finalizer beside the three bids the check of `ImplementsBidding`
takes 3 089 000 states and passes too; the committed run leaves it out, since expiry
closes auctions there and the theorem covers finalizers. `auction_shared` uses two attempts to leave room for errors, whose
number the attempts bound. Requests and, in `auction_bids`, players are
symmetric; no run with a liveness property uses symmetry. In `estate_build`
three requests are two overlapping builds and a third operation, or a theft
between two others; one process may crash while the other goes on.
In `session_tokens` three requests are a login, and two of refreshes, logouts and
logins that overlap; the three seconds contain a moment when the access token is
dead and the refresh token alive, and one when both are. Requests are
numbered in the order they arrive in, which leaves out states that differ in names
alone. `gateway_answers` has
one client, whose two sockets give an old connection and its successor; clients
of different players meet only in `playerSockets`, each at its own key. In
`services` two requests overlap in every read and write; three players and two
places make a party that is full; three party sockets are one that was there, one
that came and one that came later. `Given` is two talismans and one array instead
of ten and two: the sum, not the number, matters.

**Fairness.** `auction_shared` has weak fairness of the steps of a
`placeBid` in flight. Redis answers what a running process awaits, and the loop
has no other wait. Errors, reconnections, finalizers, the clock and expiry are
not fair: nothing makes them happen. Bids are answered because attempts are
counted, not because contention ends. `estate_build` has weak fairness of
`TimerFires` alone: a running Node process fires the timers it holds. A crash or a
failed update takes the timer away, and `ConstructionEnds` says so (`Disturbed`).

`session_tokens` has weak fairness of the steps of a request in flight and of the
expiry of cached profiles: Redis drops keys when their five minutes are over,
whatever clients do. Nobody has to send a request. `StaleEnds` fails without the
expiry, since only `updateStatus` drops a profile.

**Deadlock** is checked in the runs of markets, auctions and estates: `Rest` is
enabled only when every request has returned or died and no timer is armed. It is
not checked in `session_tokens`, `gateway_answers`, `services` and `currency_push`,
whose requests, sockets and clocks run out at their bounds.

### What the violated runs show
* `market_withdrawn`: `cancelListing` takes no lock. A purchase reads the open
  document, the cancellation saves `isCompleted` and answers, the purchase saves
  its `buyerId`. `market.service.ts:192` describes a cancelled trade as completed
  without a buyer. `Sale` therefore promises nothing about withdrawals.
* `auction_lost_bid`: both bids WATCH and GET; the EXEC of the first ends the
  connection's watch, so the EXEC of the second is unconditional and writes a
  history computed before the first. The first bidder was told `isHighest`.
  `auction.service.ts:93` claims optimistic locking.

* `estate_twice`: both requests read the building before either takes the lock;
  the second builds after the first released it, without looking again.
  `estate.service.ts:84` says the lock makes this safe. Both timers fire: two levels
  for one construction time, and two entries if there was none.
* `currency_push`: `notifyCurrencyChanged` publishes to the player's own channel
  alone, and no process subscribes to it; the party gateway subscribes to such
  changes at its start, but the global channel that feeds it carries none. The
  same holds for changes of the inventory.

### What fails and has no run
* `OneSale`, `BuyerOfRecord`, `SectionOwnsLock` and `ImplementsSale` need leases that outlive their
  holders. With `MayLapse = TRUE`: a purchase passes `BuyFind`, its lease ends, a
  second purchase runs to completion, and the first saves over it; both are
  told they bought. No comment promises a bound on the lease's holder, so this is
  stated as the assumption of the theorems.
* `LockExpires` (in `Market`): a crash or error between SETNX and EXPIRE leaves a
  lock without an expiry, and its trade can never be bought.
* `StealsCool` (in `Estate`): two thefts of one visitor both find no cooldown, wait
  their turn at the lock, and both succeed. `ARCHITECTURE.md:223` speaks of a
  cooldown and a distributed lock.

* *Session:* a login that read "online" while a logout was writing leaves the
  player offline, because `save()` sends nothing for the status.
* *Gateway:* with two sockets of one player, a late disconnect of the older one
  unmaps the newer, and pushes are lost until the player connects again; a socket
  that breaks off while its token is verified is mapped after it has gone. A player
  who is mapped is not the same as a player who is connected. The party gateway's
  map loses the successor in the same way, and keeps the entry of a socket's earlier
  player.
* *Codes:* `ERROR_RESP` is 2 and `SERVER_NOTICE_PUSH` 3, neither what its name says
  by the functions on codes; `CodesPaired` excepts these two. The documented client
  (`docs/client-example.js:24`), the generator (`tools/generate-message-codes.js:61`) and
  `docs/MESSAGE_PROTOCOL.md` number `USE_ITEM_REQ` 2004, which is the server's
  `GET_EQUIPMENT_REQ`; the generator numbers `TIME_SYNC_REQ` 4 (`VERSION_CHECK_REQ`) and
  `LEVEL_UP_PUSH` 900003 (`EQUIPMENT_CHANGED`). `OnlyKnownNamesDiffer` names these and
  says there are no others.
* *Dungeon:* an exit repeated while the record is kept answers rewards again;
  an acquired item cannot be used (its count is `null`).
* *Party:* overlapping joins lose a member; a deletion overtaken by a join's
  write brings the party back; a player may be in several parties.
* *Offline:* overlapping claims are paid twice; a task set between the read and
  the deletion of a claim is lost. `PaidForTimeAway` speaks of players without either.
* *RiskControl:* two overlapping gifts pass one limit.
* *Rooms:* a socket that breaks off is not announced, and a joiner is not told of
  those before it. *EventBus:* a failed SUBSCRIBE is never sent again.

## 5. What is proved

For all sets of players, trades, requests, lock values, servers, sockets,
clients, payloads and amounts, under the ASSUMEs of the modules (which TLC
evaluates in the runs above). Each safety property that a passing run checks is
a theorem.

| Theorem | Assumes | Inductive invariant, or argument |
|---|---|---|
| `MarketProofs!TypeCorrect` | | `TypeOK` is inductive |
| `MarketProofs!LockOwned` | `~MayLapse` | `SectionOwnsLock` is inductive over `TypeOK`: SETNX needs the key absent, a key lapses only with nobody in the section |
| `MarketProofs!SoldOnce`, `BuyerKept` | `~MayLapse` | `SaleParts` |
| `MarketProofs!MarketImplementsSale` | `~MayLapse` | `BuySave` is `Purchase`; the step that returns success is `Confirm`; `ListCreate` is `Offer`; all else stutters |
| `MarketProofs!LockGivenBack` | | `TakenHasReason` |
| `MarketProofs!OpenTradeKept` | | an action property, from `RemovalEarned` |
| `AuctionProofs!TypeCorrect` | | `TypeOK` with `AttemptLeft`: a request that is not done has an attempt left |
| `AuctionProofs!RecordCoherent` | | `CoherentInv` |
| `AuctionProofs!WinnerAsked` | | `WinnerInv` |
| `AuctionProofs!BidsNeverLost`, `AmountsDiffer` | own connections, no Redis errors | `WatchInv /\ RecordInv` |
| `AuctionProofs!HistoryKept` | own connections, no Redis errors | an action property, from the same |
| `AuctionProofs!HouseImplementsBidding` | own connections, no Redis errors | `LotInv` over the invariants above; an EXEC that sets is `Accept`, the SET of `createAuction` is `Open`, a removal or expiry that leaves no intact watch, or the last such watch lost after one, is `Close`; all else stutters |
| `AuctionProofs!AttemptsSuffice` | own connections, no Redis errors, no more requests than attempts | `RetryInv` |
| `EstateProofs!TypeCorrect`, `TimerHeld` | | `TypeInv`, `ErrorPlaces` |
| `EstateProofs!LockOwned` | `~MayLapse` | `SectionOwnsLock` over `TypeInv` |
| `EstateProofs!LevelsCounted` | | `LevelInv` |
| `SessionProofs!TypeCorrect`, `OnceNew`, `LogoutFinal`, `ClientKeepsSession`, `RevokedForGood` | | `TypeInv` with, in turn, `OnceInv`, `LogoutInv`, `ClientInv`, `NotRevived` |
| `GatewayProofs!TypeCorrect` | | `TypeInv` |
| `GatewayProofs!LoneSocketFound` | | `LoneInv` |
| `GatewayProofs!NothingSwallowed`, `AnswersSettle` | | `AnswerInv`; the second is an action property |
| `DungeonProofs!FloorsPaid`, `TypeCorrect` | `DungeonAssumption` | `DungeonInv`: `DungeonTypeOK /\ FloorPaid` is inductive |
| `OfflineProofs!NotOverpaid`, `TypeCorrect` | `OfflineAssumption` | `OfflineInv` |
| `ServicesProofs!FloorsPaidAmongServices`, `NotOverpaidAmongServices` | | every step of `MCServices` is a step of the service or a stutter; the theorems of `DungeonProofs` and `OfflineProofs` |
| `ServicesProofs!PartiesFormed` | | `PartyInv` |
| `ServicesProofs!LaterMembersKnown` | | `RoomsInv` |
| `ServicesProofs!AttributesReach` | | `BusInv` |
| `ServicesProofs!GiftsTallied` | | `RiskInv` |
| `ServicesProofs!TypesAmongServices` | | the types of the six services, each from its invariant |
| `ServicesProofs!RulesForAllNumbers` | | arithmetic, of constants |
| `ServicesProofs!MergedForAllLists` | | induction on the places of a list, through `FoldExists` |
| `ServicesProofs!RulesAlwaysAgree` | | the two above, at the values of `RulesAgree` |
| `ServicesProofs!CodesStayPaired`, `OnlyKnownNamesEverDiffer` | | the sections as even numbers of a thousand; comparison by name, section by section |

`~MayLapse` is the assumption on leases of section 4. "Own connections" says that
no two bids share a Redis client, "no Redis errors" that no awaited call rejects;
`auction_lost_bid` is the counterexample without the first. `Requests` is finite in
`AttemptsSuffice`, and `Subscriptions` in the event bus: both are counted.

*Market.* `OneSale` alone is not inductive: nothing in it says that a request in
front of its `save` still sees an unsold document. `SaleParts` adds where a
request that decided "bought" may be, that a document with a buyer was offered,
that a request about to save has an unsold, foreign document (unless a
cancellation completed it), and that one about to unlist is the buyer on record.
`SectionOwnsLock` makes these stable: only the request itself can change the buyer.

`ReleasedOnReturn` is not inductive either when leases lapse. A slow purchase that
finds another value in the key returns without deleting it, so an arbitrary
request of that trade does not answer for a taken lock: `TakenHasReason` asks for
one that carries the value the key holds. When two values coincide, a purchase
may delete the lock of another, and nothing needs an answer any more.
`RemovalEarned` says that a request in front of a `zrem` has completed its trade, and
that trades are never reopened.

*Auction.* A request whose watch is intact read what is still stored, or the key
has expired and then no bid was ever accepted (`Fresh`; `TtlUnbid` gives the
second case: a key that can expire has no bids). `Watched` says the watch exists
from WATCH to EXEC, so every SET by another connection marks it. `ExecBetter`
keeps the checks of `Get` true of the copy. Then an EXEC that runs appends to the
stored history (`NoBidLost`) an amount above all accepted ones (`AcceptedBelow`,
`AcceptedAmountsDiffer`). With a shared connection `Watched` fails.

`BidsAscend` and `WinnerBid` hold without a watch. `BidsAscend` is not inductive,
because a SET writes what its request made of a copy: `CoherentInv` asks for
coherent copies too, stale or not. A finalizer tells what it read two awaits ago,
so `WinnerInv` says of every value, stored or read, that its current bidder asked
for its price in an attempt that has ended, which no later step undoes.

`RetryInv` counts. An attempt is aborted by a bid that was accepted between its
WATCH and its EXEC, and one accepted bid aborts a request once: its next WATCH
comes later. So a request that was not outbid has at most as many failed attempts
behind it as bids were accepted, where a mark on its watch already counts as one
(`Charged`). It is not itself accepted, so with no more requests than `MaxRetries`
there are too few others to use its attempts up. This is the hypothesis: with one
request more, `MaxRetries` others can be accepted in its way.

`HouseImplementsBidding` needs `LotInv`: the bids whose watch is intact read the same
(`SameCopies`), nobody is answered before it is done (`Unanswered`), and what is not
stored is no auction (`AbsentIsNone`). The point at which a bid is accepted is the EXEC,
over a watch that is intact; `Fresh` makes its copy the lot of that moment, and
`ExecBetter` with coherence makes its amount one above the price of the lot
(`PriceOfLot`). `Watched` closes the other way: every SET or DEL of another connection
breaks the watches, so what an aborted bid has read is not the lot any more. The
refinement implies what `HistoryKept` says, that neither price nor history goes
back; TLC checks the refinement and not both.

*Estate.* The types need to know which operation can be where (`Placed`), that a
build past `getEstate` has a document and a `found` that is still true, since
entries are never removed (`Reached`), and that a timer has an entry to complete
(`Timed`). `SectionOwnsLock` is inductive as in the market. `ConstructionHasTimer`
is inductive with `ErrorPlaces` (a failed request decides nothing any more): the
only steps that set `isConstructing` arm a timer or leave an error, and the only
ones that remove a timer clear the flag or lose the timer. `LevelInv` adds that a
timer is not set before its request leaves the update (`TimerUnset`) and that
those that fired are finitely many: the one that fires is then a new member of
the set whose cardinality is the level.

*Session.* The types need which operation can be where (`Placed`) and that every
token held or answered was signed by now (`TokenHeld`). The lemma `Steps` then
splits a step into one that leaves alone what the properties are about
(`Background`), `Tick`, and the few that do not (`Foreground`). `OnceInv` follows the
creator of a document from `Create` to its answer: there is a document from then
on, so the unique index lets no other pass. `LogoutInv` says that after a lone
logout nobody is on the way to store a key, because a refresh needs a key to get
there. `ClientInv` adds that the key outlives the token in it, because the token was
signed before the key was written. `NotRevived`: a token that is dead was signed in an
earlier second, so no later signature equals it, and what is stored next was
signed later or was on its way.

*Gateway.* `LoneInv` adds that a socket's player is the one of the token it was
opened with (`DataFromToken`), so a socket never changes players and an entry of
`playerSockets` is never about another's. `NoneSwallowed` and `AnswerFits` rest on
numbers: whatever is on its way to the server is a request of its socket's client
under a number that client has used (`SentByOwner`); an answer carries the number
of the request it is about, or none, and to a JSON request its number and its
response code (`AnswersOwn`); and of what a client waits for no two share a number
(`Numbered`). A new request gets a higher number, so nothing under way can be
taken for it. That an answer's code is the response code of its request is
arithmetic on the tables (`RequestCodes`, `ServerReads`).

*Dungeon.* The lemmas `EnterSound`, `TalismanSound`, `ArraySound`, `ExitSound` and
`AcquireSound` say what an operation makes of a state that is sound; `FloorPaid`
covers the copies of requests in flight, so it is inductive. `AcquireSound` rests
on `NoLimit`: no item has a limit under its value, so an acquired count is no number.

*Offline.* While nothing has overlapped there is one claim of the player at most
(`Claims1`), what it is about to pay fits in the time passed (`PayFits`), and a task
nobody claims starts after all that is paid (`TaskUnpaid`).

*Parties and rooms.* Both take elements off lists. `FilteredKeeps` says of
`Lists!Filtered` what they need: it holds the elements that are not the one taken
off, all of them, and in their order. `PartyInv` says that what a request is about
to write is a party as well as what is stored, so a write is good however late it
comes. `RoomsInv` says that a room is in the order of arrival
(`LaterKnown`), each socket once and online (`Occupied`): who comes is appended and
announced to all before it, and a filter keeps the order.

*Event bus.* `Homes`: an entry of `playerSocketMap` names a socket of that process
or a closed one. `OwedNow`: as long as a change is owed to a socket, that socket is
still bound where the global channel is heard, and the push has happened or its
copy is awaited. `Spent` bounds the pushes of a change on a process by the channels
whose copy was passed on, one push for the global channel and at most one per
subscription for the player's own; each copy is passed on once (`CopiesOut`).

*Risk control.* `Tallied`: while a player's gifts do not overlap, the total is the
sum of his recorded trades, and ahead of it by the one gift whose trade is still
to be created. A sum is a fold over a set that CHOOSEs its next element.
`SumsInAnyOrder` shows that the choice does not matter and `AmountAdded` that a new
trade adds its amount.

*Composition.* The theorems of `DungeonProofs` and `OfflineProofs` take the
assumption on their constants as a hypothesis, because `MCServices` instantiates
their modules and ASSUMEs the same formula. `SameDungeon` and `SameOffline` say that the instances of
`MCServices` and of `ServicesProofs` are the same formulas. The invariants of the
other services are proved there, of the instances of `MCServices` themselves.

*Induction.* What `filter` returns and that a sum exists are facts about all
lists and all finite sets. The library's induction theorems take an operator and
cannot be used, so `NumberInduction` states induction over a set of numbers, from
the library's well-foundedness of `<` on `Nat`, and both facts are proved as the
membership of every number in such a set.

*Rules.* `RulesForAllNumbers` states the arithmetic of `RulesAgree`, which TLC evaluates
over small ranges, for all levels and amounts. `MergedForAllLists` states the rest of
it for all lists: merging two lists and counting the result gives the same map as
counting both. `createItemMap` folds over the places of a list in an order that
a CHOOSE decides, `mergeItemLists` folds a fold. `FoldExists` gives such a fold, as a
function of the set of places still to take, by `NumberInduction`; `PlaceAdded` says
that one more place adds its item to the map, whichever it is, so the map is
that of sums over places (`MapOf`); `MergeCounts` says the same of one item merged into a
list, which keeps each id once, and `ListMerged` of a whole list.

*Codes.* `CodesPaired` and `OnlyKnownNamesDiffer` are about fixed tables. A section is
`Numbered`: its requests are different even numbers of one thousand, each with its
response above it. Its thousand is the one `getMessageModule` gives its module
(`SectionThousand`), below the pushes (`PushesApart`), from which `MessagePaired` and the
rest follow without looking at numbers again. The copies are compared by name, section
by section (`ClientModules`, `DefaultModules`, `StaleNames`, `StalePushes`), and the
generated functions by the thousand a number is in (`GeneratedAgrees`).

**Only model-checked:** `BidAnswered`, `ConstructionEnds` and `StaleEnds`, which are
liveness and beyond the prover, and the properties of the violated runs, which are
false. Freedom from deadlock is left to TLC alone, since it speaks of ENABLED. The theorems
about a composition of services hold for each of them beside the others;
`MergedForAllLists` speaks of two lists, as `RulesAgree` does, and more of them are
merged by the same step.

## 6. What is not modelled

* `switchStyle` saves a field nothing else reads or writes; its rule is in `Rules`.
* `psubscribe` and the closures that unsubscribe: nothing calls them.
* `WebSocketGatewayImpl` (`modules/gateway/websocket.gateway.ts`): no module
  provides it. `TestAuthController` exists in development only.
* `OptionalJwtAuthGuard` is used nowhere; `requireAuth` and `rateLimit` of a handler
  are stored and never read by the router.
* Rates, efficiencies and item drops of offline rewards, and the `enteredAt` of a
  dungeon, which nothing reads.
* What ends a real socket: heartbeats that go unanswered are the `Drop` of a transport.
* Queries (`getListings`, `getMarketStats`, `getActiveAuctions`, ...): they change
  nothing, and their results are not compared with anything here.
* Logging, response wording, Swagger, modules' wiring, protobuf encoding.
* Redis and MongoDB inside: each command is atomic, as both guarantee for a single
  key or document. Failover of either store is not considered.
