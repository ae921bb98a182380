------------------------------- MODULE Market -------------------------------
(***************************************************************************)
(* The market of src/modules/market/market.service.ts: listItem, buyItem   *)
(* and cancelListing as the requests of players, on any number of server   *)
(* processes that share one MongoDB (trades) and one Redis (index, locks). *)
(*                                                                         *)
(* A request is a label (pc) that names the call it is about to await, and *)
(* the values it carries across its awaits.  Each action is one awaited    *)
(* call and the synchronous code up to the next one.                       *)
(***************************************************************************)
EXTENDS Integers

CONSTANTS
  Players, Trades, Requests,
  Nobody,      \* stands for an unset sellerId (no such document) or buyerId
  Stamps,      \* values of Date.now(), the lock values; two may coincide
  MayLapse     \* whether the 10 s lease of a lock can end under a live holder

ASSUME NobodyAssumption == Nobody \notin Players
ASSUME StampsAssumption == Stamps \subseteq Nat \ {0}
ASSUME MayLapseAssumption == MayLapse \in BOOLEAN
\* Init chooses meaningless arguments for idle requests: there are some.
ASSUME NonEmptyAssumption == Players # {} /\ Trades # {} /\ Stamps # {}

VARIABLES
  trades,            \* the trade documents in MongoDB
  index,             \* the members of the sorted sets market:<itemId>
  lockVal, lockTtl,  \* the keys lock:trade:<tradeId>, see RedisLock
  pc,                \* the call each request is about to await
  caller, target,    \* sellerId or buyerId, and tradeId, of each request
  stamp,             \* lockValue of each purchase
  reply              \* what the handler has decided to answer

Lock == INSTANCE RedisLock WITH Keys <- Trades

args == <<caller, target, stamp>>
lockVars == <<lockVal, lockTtl>>
vars == <<trades, index, lockVal, lockTtl, pc, caller, target, stamp, reply>>

\* Mutant: the schema's default for isCompleted is forgotten.
NoTradeUndefaulted == [seller |-> Nobody, isCompleted |-> Nobody, buyerId |-> Nobody]

NoTrade == [seller |-> Nobody, isCompleted |-> FALSE, buyerId |-> Nobody]

Labels == {"idle", "zadd", "expire", "find", "save", "zrem", "getLock",
           "delLock", "cancelSave", "cancelZrem", "done", "dead"}
Replies == {"none", "listed", "bought", "withdrawn", "refused", "error"}

TypeOK ==
  /\ trades \in [Trades -> [seller : Players \cup {Nobody},
                            isCompleted : BOOLEAN,
                            buyerId : Players \cup {Nobody}]]
  /\ index \in SUBSET Trades
  /\ lockVal \in [Trades -> Stamps \cup {Lock!Absent}]
  /\ lockTtl \in [Trades -> BOOLEAN]
  /\ pc \in [Requests -> Labels]
  /\ caller \in [Requests -> Players]
  /\ target \in [Requests -> Trades]
  /\ stamp \in [Requests -> Stamps]
  /\ reply \in [Requests -> Replies]

\* The arguments of a request mean nothing while it is idle.
Init ==
  /\ trades = [t \in Trades |-> NoTrade]
  /\ index = {}
  /\ Lock!LockInit
  /\ pc = [r \in Requests |-> "idle"]
  /\ caller = [r \in Requests |-> CHOOSE p \in Players : TRUE]
  /\ target = [r \in Requests |-> CHOOSE t \in Trades : TRUE]
  /\ stamp = [r \in Requests |-> CHOOSE s \in Stamps : TRUE]
  /\ reply = [r \in Requests |-> "none"]

Goto(r, label) == pc' = [pc EXCEPT ![r] = label]
Decide(r, answer) == reply' = [reply EXCEPT ![r] = answer]
Arrive(r, p, t) ==
  /\ pc[r] = "idle"
  /\ caller' = [caller EXCEPT ![r] = p]
  /\ target' = [target EXCEPT ![r] = t]

-----------------------------------------------------------------------------
\* listItem

\* tradeModel.create: a new ObjectId, visible to getListings from here on.
ListCreate(r, p, t) ==
  /\ Arrive(r, p, t)
  /\ trades[t].seller = Nobody
  /\ trades' = [trades EXCEPT ![t] = [NoTrade EXCEPT !.seller = p]]
  /\ Goto(r, "zadd")
  /\ UNCHANGED <<index, lockVars, stamp, reply>>

ListIndex(r) ==
  /\ pc[r] = "zadd"
  /\ index' = index \cup {target[r]}
  /\ Goto(r, "done") /\ Decide(r, "listed")
  /\ UNCHANGED <<trades, lockVars, args>>

-----------------------------------------------------------------------------
\* buyItem

\* Mutant: acquireLock moved inside the try block, so that a refused request
\* runs releaseLock too.
BuyLockInTry(r, p, t, s) ==
  /\ Arrive(r, p, t)
  /\ stamp' = [stamp EXCEPT ![r] = s]
  /\ \/ Lock!SetNx(t, s) /\ Goto(r, "expire") /\ UNCHANGED reply
     \/ /\ lockVal[t] # Lock!Absent
        /\ Goto(r, "getLock") /\ Decide(r, "refused")
        /\ UNCHANGED lockVars
  /\ UNCHANGED <<trades, index>>

\* Mutant: the answer of SETNX is ignored.
BuyLockUnchecked(r, p, t, s) ==
  /\ Arrive(r, p, t)
  /\ stamp' = [stamp EXCEPT ![r] = s]
  /\ \/ Lock!SetNx(t, s)
     \/ lockVal[t] # Lock!Absent /\ UNCHANGED lockVars
  /\ Goto(r, "expire")
  /\ UNCHANGED <<trades, index, reply>>

\* acquireLock, first command.  A refusal throws before the try block.
BuyLock(r, p, t, s) ==
  /\ Arrive(r, p, t)
  /\ stamp' = [stamp EXCEPT ![r] = s]
  /\ \/ Lock!SetNx(t, s) /\ Goto(r, "expire") /\ UNCHANGED reply
     \/ /\ lockVal[t] # Lock!Absent
        /\ Goto(r, "done") /\ Decide(r, "refused")
        /\ UNCHANGED lockVars
  /\ UNCHANGED <<trades, index>>

\* acquireLock, second command.
BuyExpire(r) ==
  /\ pc[r] = "expire"
  /\ Lock!SetExpiry(target[r])
  /\ Goto(r, "find")
  /\ UNCHANGED <<trades, index, args, reply>>

\* Mutants: one of the checks after findById is missing.
BuyableTwice(t, p) == trades[t].seller \notin {Nobody, p}
BuyableBySeller(t, p) == trades[t].seller # Nobody /\ ~trades[t].isCompleted

Buyable(t, p) ==
  /\ trades[t].seller \notin {Nobody, p}
  /\ ~trades[t].isCompleted

\* Mutant: a refusal after findById returns without the finally block.
BuyFindNoFinally(r) ==
  /\ pc[r] = "find"
  /\ \/ Buyable(target[r], caller[r]) /\ Goto(r, "save") /\ UNCHANGED reply
     \/ /\ ~Buyable(target[r], caller[r])
        /\ Goto(r, "done") /\ Decide(r, "refused")
  /\ UNCHANGED <<trades, index, lockVars, args>>

\* findById and the three checks on what it returned; a throw runs finally.
BuyFind(r) ==
  /\ pc[r] = "find"
  /\ \/ Buyable(target[r], caller[r]) /\ Goto(r, "save") /\ UNCHANGED reply
     \/ /\ ~Buyable(target[r], caller[r])
        /\ Goto(r, "getLock") /\ Decide(r, "refused")
  /\ UNCHANGED <<trades, index, lockVars, args>>

\* save() sends the modified paths only, without any condition on the document.
BuySave(r) ==
  /\ pc[r] = "save"
  /\ trades' = [trades EXCEPT ![target[r]].isCompleted = TRUE,
                              ![target[r]].buyerId = caller[r]]
  /\ Goto(r, "zrem")
  /\ UNCHANGED <<index, lockVars, args, reply>>

BuyUnlist(r) ==
  /\ pc[r] = "zrem"
  /\ index' = index \ {target[r]}
  /\ Goto(r, "getLock") /\ Decide(r, "bought")
  /\ UNCHANGED <<trades, lockVars, args>>

\* releaseLock, first command: read the key and compare.
BuyGetLock(r) ==
  /\ pc[r] = "getLock"
  /\ Goto(r, IF lockVal[target[r]] = stamp[r] THEN "delLock" ELSE "done")
  /\ UNCHANGED <<trades, index, lockVars, args, reply>>

\* releaseLock, second command: delete the key, whatever it holds by now.
BuyDelLock(r) ==
  /\ pc[r] = "delLock"
  /\ Lock!Del(target[r])
  /\ Goto(r, "done")
  /\ UNCHANGED <<trades, index, args, reply>>

-----------------------------------------------------------------------------
\* cancelListing, which takes no lock

\* Mutant: the trade leaves the index before the document is saved.
CancelFindUnlistFirst(r, p, t) ==
  /\ Arrive(r, p, t)
  /\ trades[t].seller = p /\ ~trades[t].isCompleted
  /\ index' = index \ {t}
  /\ Goto(r, "cancelSave")
  /\ UNCHANGED <<trades, lockVars, stamp, reply>>

\* findOne({_id, sellerId, isCompleted: false})
CancelFind(r, p, t) ==
  /\ Arrive(r, p, t)
  /\ \/ /\ trades[t].seller = p /\ ~trades[t].isCompleted
        /\ Goto(r, "cancelSave") /\ UNCHANGED reply
     \/ /\ ~(trades[t].seller = p /\ ~trades[t].isCompleted)
        /\ Goto(r, "done") /\ Decide(r, "refused")
  /\ UNCHANGED <<trades, index, lockVars, stamp>>

CancelSave(r) ==
  /\ pc[r] = "cancelSave"
  /\ trades' = [trades EXCEPT ![target[r]].isCompleted = TRUE]
  /\ Goto(r, "cancelZrem")
  /\ UNCHANGED <<index, lockVars, args, reply>>

CancelUnlist(r) ==
  /\ pc[r] = "cancelZrem"
  /\ index' = index \ {target[r]}
  /\ Goto(r, "done") /\ Decide(r, "withdrawn")
  /\ UNCHANGED <<trades, lockVars, args>>

-----------------------------------------------------------------------------
\* The environment: failed calls, crashes, the expiry of keys.

\* An awaited call rejects inside buyItem's try block: finally runs.
TryFails(r) ==
  /\ pc[r] \in {"find", "save", "zrem"}
  /\ Goto(r, "getLock") /\ Decide(r, "error")
  /\ UNCHANGED <<trades, index, lockVars, args>>

\* It rejects outside: the handler throws; a lock already taken stays taken.
CallFails(r) ==
  /\ pc[r] \in {"zadd", "expire", "getLock", "delLock", "cancelSave", "cancelZrem"}
  /\ Goto(r, "done") /\ Decide(r, "error")
  /\ UNCHANGED <<trades, index, lockVars, args>>

\* The server process stops while the request is in flight.
Crash(r) ==
  /\ pc[r] \notin {"idle", "done", "dead"}
  /\ Goto(r, "dead")
  /\ UNCHANGED <<trades, index, lockVars, args, reply>>

\* The request runs between its SETNX and its DEL.
InSection(r) == pc[r] \in {"expire", "find", "save", "zrem", "getLock", "delLock"}

LockLapses(t) ==
  /\ MayLapse \/ \A r \in Requests : target[r] = t => ~InSection(r)
  /\ Lock!Lapse(t)
  /\ UNCHANGED <<trades, index, pc, args, reply>>

\* No request is left to make: the bounded instance is at rest.
Rest ==
  /\ \A r \in Requests : pc[r] \in {"done", "dead"}
  /\ UNCHANGED vars

Next ==
  \/ \E r \in Requests, p \in Players, t \in Trades :
       \/ ListCreate(r, p, t)
       \/ CancelFind(r, p, t)
       \/ \E s \in Stamps : BuyLock(r, p, t, s)
  \/ \E r \in Requests :
       \/ ListIndex(r)
       \/ BuyExpire(r) \/ BuyFind(r) \/ BuySave(r) \/ BuyUnlist(r)
       \/ BuyGetLock(r) \/ BuyDelLock(r)
       \/ CancelSave(r) \/ CancelUnlist(r)
       \/ TryFails(r) \/ CallFails(r) \/ Crash(r)
  \/ \E t \in Trades : LockLapses(t)
  \/ Rest

Spec == Init /\ [][Next]_vars

-----------------------------------------------------------------------------
\* Properties

\* Two buyItem requests for one trade never both decide to answer success:
\* the second must meet the lock or the completed document, however the two
\* interleave with each other, with a cancellation, a crash or a failed call.
OneSale ==
  \A r, q \in Requests :
    reply[r] = "bought" /\ reply[q] = "bought" /\ target[r] = target[q] => r = q

\* A request that answers success is the one whose buyerId the document keeps:
\* no later save of another request overwrites it.
BuyerOfRecord ==
  \A r \in Requests :
    reply[r] = "bought" =>
      /\ trades[target[r]].isCompleted
      /\ trades[target[r]].buyerId = caller[r]

\* While a request runs between its SETNX and its DEL the key holds its value,
\* and no other request of that trade runs there: the DEL at the end of
\* releaseLock can only remove the request's own lock.
SectionOwnsLock ==
  \A r \in Requests :
    InSection(r) =>
      /\ lockVal[target[r]] = stamp[r]
      /\ \A q \in Requests \ {r} : target[q] = target[r] => ~InSection(q)

\* The market index never loses a trade that can still be bought.
OpenTradeStaysListed ==
  [][\A t \in index \ index' : trades[t].isCompleted]_vars

\* The lock of t has no expiry and nobody left to give it one.
Orphaned(t) ==
  /\ lockVal[t] # Lock!Absent /\ ~lockTtl[t]
  /\ \A r \in Requests : target[r] = t => ~InSection(r)

\* Every way out of buyItem gives the lock back, also when leases lapse, lock
\* values coincide and a slow request deletes another's lock: a lock that is
\* taken with no request behind it was left by a crash or a failed call.
ReleasedOnReturn ==
  \A t \in Trades :
    lockVal[t] # Lock!Absent =>
      \E r \in Requests :
        target[r] = t /\ (InSection(r) \/ pc[r] = "dead" \/ reply[r] = "error")

\* The market as the abstract sale: the documents are the state, and a request
\* is told when its handler returns, after the lock is released.
Told(r) == pc[r] = "done" /\ reply[r] = "bought"
ToldOf(t) ==
  {<<r, caller[r]>> : r \in {q \in Requests : Told(q) /\ target[q] = t}}

AbstractSale == INSTANCE Sale WITH
  seller <- [t \in Trades |-> trades[t].seller],
  buyer <- [t \in Trades |-> trades[t].buyerId],
  told <- [t \in Trades |-> ToldOf(t)]

\* Every step of the market is a step of the abstract sale or none of its
\* business: at most one buyer, never the seller, at most one confirmation.
ImplementsSale == AbstractSale!SaleSpec

-----------------------------------------------------------------------------
\* Statements of the repository that the code does not keep

\* market.service.ts:192, a cancelled trade is completed without a buyer.
WithdrawnHasNoBuyer ==
  \A r \in Requests :
    reply[r] = "withdrawn" => trades[target[r]].buyerId = Nobody

\* redis.service.ts:201, ttl is the lock's expiry: a key without an expiry is
\* one that some request is about to give it.
LockExpires == \A t \in Trades : ~Orphaned(t)

==============================================================================
