------------------------------- MODULE Auction -------------------------------
(***************************************************************************)
(* The auction house of src/modules/market/auction.service.ts: one auction *)
(* stored as one JSON value in Redis, and placeBid's optimistic locking.   *)
(*                                                                         *)
(* WATCH is a property of the connection, not of the request: RedisService *)
(* keeps one client per server process, so all requests of a process share *)
(* one watch, which any EXEC or UNWATCH of the process ends.  ServerOf     *)
(* tells which process serves which request.  A request that is never      *)
(* continued stands for a process that stops.                              *)
(***************************************************************************)
EXTENDS Integers, Sequences

CONSTANTS
  Players, Requests, Finalizers,
  Servers, ServerOf,
  Amounts,           \* the amounts players offer
  StartPrices,       \* the start prices of sellers
  MaxRetries,        \* maxRetries
  IoErrors,          \* whether awaited Redis calls may reject
  Nobody             \* an unset currentBidderId

ASSUME ServerAssumption == ServerOf \in [Requests -> Servers]
ASSUME AmountAssumption == Amounts \subseteq Nat /\ StartPrices \subseteq Nat
ASSUME RetryAssumption == MaxRetries \in Nat \ {0}
ASSUME PlayerAssumption == Nobody \notin Players /\ IoErrors \in BOOLEAN

VARIABLES
  auction,           \* the value of auction:<id>, or NoAuction
  ttl,               \* whether that key expires
  active,            \* whether the sorted set auction:active has the id
  ended,             \* whether endTime has passed
  creation,          \* progress of createAuction
  watching, dirty,   \* servers with a watch on the key; those whose EXEC aborts
  bidder, amount,    \* the arguments of each placeBid request
  pc, tries,         \* where each request is, and its completed attempts
  copy,              \* the value the request read with GET
  answer,            \* what placeBid returned or threw
  fpc, fcopy,        \* where each finalizeAuction is, and the value it read
  result             \* the winner and price it returned

bidArgs == <<bidder, amount>>
keyVars == <<auction, ttl, ended, active, creation>>
watchVars == <<watching, dirty>>
bidVars == <<pc, tries, copy, answer>>
finVars == <<fpc, fcopy, result>>
vars == <<auction, ttl, active, ended, creation, watching, dirty, bidder,
          amount, pc, tries, copy, answer, fpc, fcopy, result>>

NoAuction == [seller |-> Nobody, startPrice |-> 0, currentPrice |-> 0,
              currentBidder |-> Nobody, bids |-> <<>>]
NoResult == [winner |-> Nobody, price |-> 0]

Prices == Amounts \cup StartPrices \cup {0}
Bid == [bidder : Players, amount : Amounts]
AuctionValue ==
  [seller : Players \cup {Nobody}, startPrice : StartPrices \cup {0},
   currentPrice : Prices, currentBidder : Players \cup {Nobody}, bids : Seq(Bid)]

TypeOK ==
  /\ auction \in AuctionValue
  /\ ttl \in BOOLEAN /\ active \in BOOLEAN /\ ended \in BOOLEAN
  /\ creation \in {"none", "zadd", "done"}
  /\ watching \in SUBSET Servers /\ dirty \in SUBSET watching
  /\ bidder \in [Requests -> Players] /\ amount \in [Requests -> Amounts]
  /\ pc \in [Requests -> {"watch", "get", "unwatch", "exec", "done"}]
  /\ tries \in [Requests -> 0..MaxRetries]
  /\ copy \in [Requests -> AuctionValue]
  /\ answer \in [Requests -> {"none", "highest", "failed"}]
  /\ fpc \in [Finalizers -> {"get", "zrem", "del", "done"}]
  /\ fcopy \in [Finalizers -> AuctionValue]
  /\ result \in [Finalizers -> [winner : Players \cup {Nobody},
                                price : Prices]]

Init ==
  /\ auction = NoAuction /\ ttl = FALSE /\ active = FALSE /\ ended = FALSE
  /\ creation = "none"
  /\ watching = {} /\ dirty = {}
  /\ bidder \in [Requests -> Players] /\ amount \in [Requests -> Amounts]
  /\ pc = [r \in Requests |-> "watch"]
  /\ tries = [r \in Requests |-> 0]
  /\ copy = [r \in Requests |-> NoAuction]
  /\ answer = [r \in Requests |-> "none"]
  /\ fpc = [f \in Finalizers |-> "get"]
  /\ fcopy = [f \in Finalizers |-> NoAuction]
  /\ result = [f \in Finalizers |-> NoResult]

Stored == auction.seller # Nobody

-----------------------------------------------------------------------------
\* createAuction.  Nobody knows the new id before the key is there.

CreateSet(p, price) ==
  /\ creation = "none"
  /\ auction' = [NoAuction EXCEPT !.seller = p, !.startPrice = price,
                                  !.currentPrice = price]
  /\ ttl' = TRUE
  /\ creation' = "zadd"
  /\ UNCHANGED <<active, ended, watchVars, bidArgs, bidVars, finVars>>

CreateIndex ==
  /\ creation = "zadd"
  /\ active' = TRUE
  /\ creation' = "done"
  /\ UNCHANGED <<auction, ttl, ended, watchVars, bidArgs, bidVars, finVars>>

-----------------------------------------------------------------------------
\* placeBid

Watch(r) ==
  /\ pc[r] = "watch" /\ creation # "none"
  /\ watching' = watching \cup {ServerOf[r]}
  /\ pc' = [pc EXCEPT ![r] = "get"]
  /\ UNCHANGED <<keyVars, dirty, bidArgs, tries, copy, answer, finVars>>

\* Mutants: equal offers pass; the offer is compared with the start price.
AcceptableEqual(r) ==
  /\ Stored /\ ~ended
  /\ auction.seller # bidder[r]
  /\ amount[r] >= auction.currentPrice
AcceptableAboveStart(r) ==
  /\ Stored /\ ~ended
  /\ auction.seller # bidder[r]
  /\ amount[r] > auction.startPrice

Acceptable(r) ==
  /\ Stored /\ ~ended
  /\ auction.seller # bidder[r]
  /\ amount[r] > auction.currentPrice

\* getJson and the four checks; each failed check awaits unwatch, then throws.
Get(r) ==
  /\ pc[r] = "get"
  /\ \/ /\ Acceptable(r)
        /\ copy' = [copy EXCEPT ![r] = auction]
        /\ pc' = [pc EXCEPT ![r] = "exec"]
     \/ /\ ~Acceptable(r)
        /\ pc' = [pc EXCEPT ![r] = "unwatch"]
        /\ UNCHANGED copy
  /\ UNCHANGED <<keyVars, watchVars, bidArgs, tries, answer, finVars>>

\* Mutants: the loop runs one attempt less, or more; attempts are not counted.
RetryWithin(r, n) ==
  /\ tries' = [tries EXCEPT ![r] = @ + 1]
  /\ copy' = [copy EXCEPT ![r] = NoAuction]
  /\ IF tries[r] + 1 < n
     THEN pc' = [pc EXCEPT ![r] = "watch"] /\ UNCHANGED answer
     ELSE /\ pc' = [pc EXCEPT ![r] = "done"]
          /\ answer' = [answer EXCEPT ![r] = "failed"]
RetryShort(r) == RetryWithin(r, MaxRetries - 1)
RetryLong(r) == RetryWithin(r, MaxRetries + 1)
RetryUncounted(r) ==
  /\ copy' = [copy EXCEPT ![r] = NoAuction]
  /\ pc' = [pc EXCEPT ![r] = "watch"]
  /\ UNCHANGED <<tries, answer>>

\* The end of an attempt without an answer: the catch block, or an aborted EXEC.
Retry(r) ==
  /\ tries' = [tries EXCEPT ![r] = @ + 1]
  /\ copy' = [copy EXCEPT ![r] = NoAuction]
  /\ IF tries[r] + 1 < MaxRetries
     THEN pc' = [pc EXCEPT ![r] = "watch"] /\ UNCHANGED answer
     ELSE /\ pc' = [pc EXCEPT ![r] = "done"]
          /\ answer' = [answer EXCEPT ![r] = "failed"]

\* UNWATCH and EXEC end the watch of the whole connection.
EndWatch(s) ==
  /\ watching' = watching \ {s}
  /\ dirty' = dirty \ {s}

Unwatch(r) ==
  /\ pc[r] = "unwatch"
  /\ EndWatch(ServerOf[r])
  /\ Retry(r)
  /\ UNCHANGED <<keyVars, bidArgs, finVars>>

\* Mutants: the history is replaced; the current price is not updated.
WithBidOnly(a, p, n) ==
  [a EXCEPT !.currentPrice = n, !.currentBidder = p,
            !.bids = <<[bidder |-> p, amount |-> n]>>]
WithBidNoPrice(a, p, n) ==
  [a EXCEPT !.currentBidder = p,
            !.bids = Append(@, [bidder |-> p, amount |-> n])]

WithBid(a, p, n) ==
  [a EXCEPT !.currentPrice = n, !.currentBidder = p,
            !.bids = Append(@, [bidder |-> p, amount |-> n])]

\* Mutant: a plain SET instead of WATCH and EXEC.
ExecSetUnwatched(r, s) ==
  /\ auction' = WithBid(copy[r], bidder[r], amount[r])
  /\ ttl' = FALSE
  /\ watching' = watching \ {s}
  /\ dirty' = watching \ {s}

\* EXEC on server s ran the SET: no expiry any more, other watchers abort.
ExecSet(r, s) ==
  /\ s \notin dirty
  /\ auction' = WithBid(copy[r], bidder[r], amount[r])
  /\ ttl' = FALSE
  /\ watching' = watching \ {s}
  /\ dirty' = watching \ {s}

\* MULTI, SET and EXEC travel together.
Exec(r) ==
  /\ pc[r] = "exec"
  /\ \/ /\ ExecSet(r, ServerOf[r])
        /\ pc' = [pc EXCEPT ![r] = "done"]
        /\ answer' = [answer EXCEPT ![r] = "highest"]
        /\ copy' = [copy EXCEPT ![r] = NoAuction]
        /\ UNCHANGED tries
     \/ /\ ServerOf[r] \in dirty
        /\ EndWatch(ServerOf[r])
        /\ Retry(r)
        /\ UNCHANGED <<auction, ttl>>
  /\ UNCHANGED <<active, ended, creation, bidArgs, finVars>>

\* A call rejects before it reaches Redis; the watch, if any, stays.
CallFails(r) ==
  /\ IoErrors /\ pc[r] \in {"watch", "get", "unwatch", "exec"} /\ creation # "none"
  /\ Retry(r)
  /\ UNCHANGED <<keyVars, watchVars, bidArgs, finVars>>

\* The EXEC is run but its reply is lost: the bid stands, the loop goes on.
ExecReplyLost(r) ==
  /\ IoErrors /\ pc[r] = "exec"
  /\ ExecSet(r, ServerOf[r])
  /\ Retry(r)
  /\ UNCHANGED <<active, ended, creation, bidArgs, finVars>>

\* The client reconnects: the new connection watches nothing.
Reconnect(s) ==
  /\ IoErrors /\ s \in watching
  /\ EndWatch(s)
  /\ UNCHANGED <<keyVars, bidArgs, bidVars, finVars>>

-----------------------------------------------------------------------------
\* finalizeAuction, which no code calls yet and which looks at no clock

FinalizeGet(f) ==
  /\ fpc[f] = "get" /\ creation # "none"
  /\ \/ /\ Stored
        /\ fcopy' = [fcopy EXCEPT ![f] = auction]
        /\ fpc' = [fpc EXCEPT ![f] = "zrem"]
     \/ /\ ~Stored
        /\ fpc' = [fpc EXCEPT ![f] = "done"]
        /\ UNCHANGED fcopy
  /\ UNCHANGED <<keyVars, watchVars, bidArgs, bidVars, result>>

FinalizeUnlist(f) ==
  /\ fpc[f] = "zrem"
  /\ active' = FALSE
  /\ fpc' = [fpc EXCEPT ![f] = "del"]
  /\ UNCHANGED <<auction, ttl, ended, creation, watchVars, bidArgs, bidVars,
                 fcopy, result>>

\* DEL aborts the watchers only if there was a key to delete.
FinalizeDel(f) ==
  /\ fpc[f] = "del"
  /\ auction' = NoAuction /\ ttl' = FALSE
  /\ dirty' = IF Stored THEN watching ELSE dirty
  /\ result' = [result EXCEPT ![f] = [winner |-> fcopy[f].currentBidder,
                                      price |-> fcopy[f].currentPrice]]
  /\ fpc' = [fpc EXCEPT ![f] = "done"]
  /\ UNCHANGED <<active, ended, creation, watching, bidArgs, bidVars, fcopy>>

-----------------------------------------------------------------------------
\* The clock

TimePasses ==
  /\ creation # "none" /\ ~ended
  /\ ended' = TRUE
  /\ UNCHANGED <<auction, ttl, active, creation, watchVars, bidArgs, bidVars, finVars>>

\* The key of an auction without bids expires when endTime passes.  Whether
\* that aborts the watchers depends on the version of the Redis server.
KeyExpires ==
  /\ ttl /\ ended
  /\ auction' = NoAuction /\ ttl' = FALSE
  /\ dirty' \in {dirty, watching}
  /\ UNCHANGED <<active, ended, creation, watching, bidArgs, bidVars, finVars>>

Rest ==
  /\ \A r \in Requests : pc[r] = "done"
  /\ \A f \in Finalizers : fpc[f] = "done"
  /\ UNCHANGED vars

Proceed(r) == Watch(r) \/ Get(r) \/ Unwatch(r) \/ Exec(r)

Next ==
  \/ \E p \in Players, n \in StartPrices : CreateSet(p, n)
  \/ CreateIndex
  \/ \E r \in Requests : Proceed(r) \/ CallFails(r) \/ ExecReplyLost(r)
  \/ \E s \in Servers : Reconnect(s)
  \/ \E f \in Finalizers : FinalizeGet(f) \/ FinalizeUnlist(f) \/ FinalizeDel(f)
  \/ TimePasses \/ KeyExpires
  \/ Rest

Spec == Init /\ [][Next]_vars

\* Redis answers what a running process awaits.
FairSpec == Spec /\ \A r \in Requests : WF_vars(Proceed(r))

-----------------------------------------------------------------------------
\* Properties

\* The stored auction is coherent whatever is lost: its bids ascend from above
\* the start price, none is the seller's, and the last one is the current one.
BidsAscend ==
  Stored =>
    LET b == auction.bids  n == Len(auction.bids) IN
    /\ \A i \in 1..n :
         /\ b[i].bidder # auction.seller
         /\ b[i].amount > IF i = 1 THEN auction.startPrice ELSE b[i - 1].amount
    /\ IF n = 0
       THEN auction.currentPrice = auction.startPrice /\ auction.currentBidder = Nobody
       ELSE auction.currentPrice = b[n].amount /\ auction.currentBidder = b[n].bidder

\* A bidder told to be the highest stays on record as long as the auction does:
\* a concurrent bid read before this one is not written over it.
NoBidLost ==
  \A r \in Requests :
    Stored /\ answer[r] = "highest" =>
      \E i \in 1..Len(auction.bids) :
        auction.bids[i] = [bidder |-> bidder[r], amount |-> amount[r]]

\* Two accepted bids never have the same amount, not even after the auction is
\* removed: the second must have been checked against the first.
AcceptedAmountsDiffer ==
  \A r, q \in Requests :
    answer[r] = "highest" /\ answer[q] = "highest" /\ amount[r] = amount[q] => r = q

\* While the key lives its price never falls and its history only grows.
HistoryGrows ==
  [][Stored /\ Stored' =>
       /\ auction'.currentPrice >= auction.currentPrice
       /\ SubSeq(auction'.bids, 1, Len(auction.bids)) = auction.bids]_vars

\* Three attempts are enough for up to three contenders: without Redis errors a
\* bid on a running auction fails only if it was not the better offer.
RetriesSuffice ==
  \A r \in Requests :
    answer[r] = "failed" /\ Stored /\ ~ended =>
      bidder[r] = auction.seller \/ amount[r] <= auction.currentPrice

\* The bids that were computed from what they read and are not aborted yet.  The
\* key of an auction without bids may expire under them; whether it is closed by
\* that depends on what EXEC makes of them, so until then the auction is open.
Unaborted == {r \in Requests : pc[r] = "exec" /\ ServerOf[r] \notin dirty}
LotOf(a) == [seller |-> a.seller, startPrice |-> a.startPrice, bids |-> a.bids]
OpenLot ==
  LotOf(IF Stored \/ Unaborted = {} THEN auction ELSE copy[CHOOSE r \in Unaborted : TRUE])
AcceptedBids == {<<r, bidder[r], amount[r]>> : r \in {q \in Requests : answer[q] = "highest"}}

AbstractBidding ==
  INSTANCE Bidding WITH opened <- creation # "none", lot <- OpenLot,
                        accepted <- AcceptedBids, NoLot <- LotOf(NoAuction)

\* When no two bids share a connection and calls do not fail, the auction house
\* implements the abstract one: although a bid is read, compared and written in
\* three calls, it is accepted as if in one, against the price at that moment.
ImplementsBidding == AbstractBidding!BiddingSpec

\* A winner is a player who asked for exactly that price.
WinnerBid ==
  \A f \in Finalizers :
    result[f].winner # Nobody =>
      \E r \in Requests :
        /\ bidder[r] = result[f].winner /\ amount[r] = result[f].price
        /\ tries[r] > 0 \/ answer[r] = "highest"

\* Contention cannot keep a bid in the retry loop for ever.
BidAnswered == \A r \in Requests : creation # "none" ~> answer[r] # "none"

==============================================================================
