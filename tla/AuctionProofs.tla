---------------------------- MODULE AuctionProofs ----------------------------
(***************************************************************************)
(* Proofs about Auction for any number of players, bids and finalizers:    *)
(* its types; when no two bids share a connection and Redis calls do not   *)
(* fail, that the watch protects every accepted bid, that the history only *)
(* grows, that as many attempts as bids suffice and that the house         *)
(* implements Bidding; and without these assumptions that the record is    *)
(* coherent and a winner asked for its price.                              *)
(***************************************************************************)
EXTENDS Auction, SequenceTheorems, FiniteSetTheorems, TLAPS

-----------------------------------------------------------------------------
\* Types.  A request that is not done has an attempt left.

AttemptLeft == \A r \in Requests : pc[r] # "done" => tries[r] < MaxRetries

LEMMA NoAuctionType == NoAuction \in AuctionValue
  <1>1. <<>> \in Seq(Bid)
    OBVIOUS
  <1>2. QED
    BY <1>1 DEF NoAuction, AuctionValue, Prices

LEMMA WithBidType ==
  ASSUME NEW a \in AuctionValue, NEW p \in Players, NEW n \in Amounts
  PROVE  WithBid(a, p, n) \in AuctionValue
  <1>1. [bidder |-> p, amount |-> n] \in Bid
    BY DEF Bid
  <1>2. Append(a.bids, [bidder |-> p, amount |-> n]) \in Seq(Bid)
    BY <1>1 DEF AuctionValue
  <1>3. QED
    BY <1>2 DEF WithBid, AuctionValue, Prices

\* The end of an attempt, which four actions share.
LEMMA RetryTypes ==
  ASSUME TypeOK, AttemptLeft, NEW r \in Requests, pc[r] # "done", Retry(r)
  PROVE  /\ tries' \in [Requests -> 0..MaxRetries]
         /\ copy' \in [Requests -> AuctionValue]
         /\ pc' \in [Requests -> {"watch", "get", "unwatch", "exec", "done"}]
         /\ answer' \in [Requests -> {"none", "highest", "failed"}]
         /\ AttemptLeft'
  <1>1. tries[r] \in Nat /\ tries[r] + 1 \in 0..MaxRetries
    BY RetryAssumption DEF TypeOK, AttemptLeft
  <1>2. AttemptLeft'
    BY <1>1, RetryAssumption DEF TypeOK, AttemptLeft, Retry
  <1>3. QED
    BY <1>1, <1>2, NoAuctionType DEF TypeOK, Retry

LEMMA TypeInit == Init => TypeOK /\ AttemptLeft
  <1> SUFFICES ASSUME Init PROVE TypeOK /\ AttemptLeft
    OBVIOUS
  <1>1. NoResult \in [winner : Players \cup {Nobody}, price : Prices]
    BY DEF NoResult, Prices
  <1>2. 0 \in 0..MaxRetries /\ 0 < MaxRetries
    BY RetryAssumption
  <1>3. QED
    BY <1>1, <1>2, NoAuctionType DEF Init, TypeOK, AttemptLeft

LEMMA TypeStep == TypeOK /\ AttemptLeft /\ [Next]_vars => TypeOK' /\ AttemptLeft'
  <1> SUFFICES ASSUME TypeOK, AttemptLeft, [Next]_vars
               PROVE  TypeOK' /\ AttemptLeft'
    OBVIOUS
  <1> USE DEF TypeOK, bidArgs, keyVars, watchVars, bidVars, finVars
  <1> DEFINE Goal == TypeOK' /\ AttemptLeft'
  <1>1. ASSUME NEW p \in Players, NEW n \in StartPrices, CreateSet(p, n)
        PROVE  Goal
    <2>1. auction' \in AuctionValue
      BY <1>1, NoAuctionType DEF CreateSet, AuctionValue, Prices
    <2>2. QED
      BY <1>1, <2>1 DEF CreateSet, AttemptLeft
  <1>2. CASE CreateIndex
    BY <1>2 DEF CreateIndex, AttemptLeft
  <1>3. ASSUME NEW r \in Requests, Watch(r) PROVE Goal
    BY <1>3, ServerAssumption DEF Watch, AttemptLeft
  <1>4. ASSUME NEW r \in Requests, Get(r) PROVE Goal
    BY <1>4 DEF Get, AttemptLeft
  <1>5. ASSUME NEW r \in Requests, Unwatch(r) PROVE Goal
    BY <1>5, RetryTypes DEF Unwatch, EndWatch
  <1>6. ASSUME NEW r \in Requests, Exec(r) PROVE Goal
    <2>1. WithBid(copy[r], bidder[r], amount[r]) \in AuctionValue
      BY WithBidType
    <2>2. CASE ExecSet(r, ServerOf[r]) /\ UNCHANGED tries
               /\ pc' = [pc EXCEPT ![r] = "done"]
               /\ answer' = [answer EXCEPT ![r] = "highest"]
               /\ copy' = [copy EXCEPT ![r] = NoAuction]
      BY <1>6, <2>1, <2>2, NoAuctionType DEF Exec, ExecSet, AttemptLeft
    <2>3. CASE EndWatch(ServerOf[r]) /\ Retry(r) /\ UNCHANGED <<auction, ttl>>
      BY <1>6, <2>3, RetryTypes DEF Exec, EndWatch
    <2>4. QED
      BY <1>6, <2>2, <2>3 DEF Exec
  <1>7. ASSUME NEW r \in Requests, CallFails(r) PROVE Goal
    BY <1>7, RetryTypes DEF CallFails
  <1>8. ASSUME NEW r \in Requests, ExecReplyLost(r) PROVE Goal
    <2>1. WithBid(copy[r], bidder[r], amount[r]) \in AuctionValue
      BY WithBidType
    <2>2. QED
      BY <1>8, <2>1, RetryTypes DEF ExecReplyLost, ExecSet
  <1>9. ASSUME NEW s \in Servers, Reconnect(s) PROVE Goal
    BY <1>9 DEF Reconnect, EndWatch, AttemptLeft
  <1>10. ASSUME NEW f \in Finalizers, FinalizeGet(f) PROVE Goal
    <2>1. fcopy' \in [Finalizers -> AuctionValue]
      BY <1>10 DEF FinalizeGet
    <2>2. fpc' \in [Finalizers -> {"get", "zrem", "del", "done"}]
      BY <1>10 DEF FinalizeGet
    <2>3. UNCHANGED <<keyVars, watchVars, bidArgs, bidVars, result>>
      BY <1>10 DEF FinalizeGet
    <2>4. QED
      BY <2>1, <2>2, <2>3 DEF AttemptLeft
  <1>11. ASSUME NEW f \in Finalizers, FinalizeUnlist(f) PROVE Goal
    BY <1>11 DEF FinalizeUnlist, AttemptLeft
  <1>12. ASSUME NEW f \in Finalizers, FinalizeDel(f) PROVE Goal
    BY <1>12, NoAuctionType DEF FinalizeDel, AttemptLeft, AuctionValue
  <1>13. CASE TimePasses \/ KeyExpires
    BY <1>13, NoAuctionType DEF TimePasses, KeyExpires, AttemptLeft
  <1>14. CASE Rest \/ UNCHANGED vars
    BY <1>14 DEF Rest, vars, AttemptLeft
  <1>15. QED
    BY <1>1, <1>2, <1>3, <1>4, <1>5, <1>6, <1>7, <1>8, <1>9, <1>10, <1>11,
       <1>12, <1>13, <1>14 DEF Next, Proceed

\* The stored value, the watches and the requests keep their types, whatever
\* fails, and no request makes more attempts than maxRetries.
THEOREM TypeCorrect == Spec => []TypeOK
  BY TypeInit, TypeStep, PTL DEF Spec

-----------------------------------------------------------------------------
(***************************************************************************)
(* The watch.  From here on every bid has a connection of its own and the  *)
(* calls do not fail: with a shared connection a run refutes NoBidLost.    *)
(* What a request with an intact watch read is still what is stored,       *)
(* unless the key expired, and then nobody was told a bid stands (Fresh).  *)
(***************************************************************************)

OwnConnections == \A r, q \in Requests : ServerOf[r] = ServerOf[q] => r = q

NoneAccepted == \A r \in Requests : answer[r] # "highest"

BeforeCreation ==
  creation = "none" => \A r \in Requests : pc[r] = "watch" /\ answer[r] = "none"

TtlUnbid == ttl => NoneAccepted

Watched ==
  \A r \in Requests : pc[r] \in {"get", "unwatch", "exec"} => ServerOf[r] \in watching

ExecBetter ==
  \A r \in Requests :
    pc[r] = "exec" => amount[r] > copy[r].currentPrice /\ copy[r].seller # Nobody

Fresh ==
  \A r \in Requests :
    pc[r] = "exec" /\ ServerOf[r] \notin dirty =>
      copy[r] = auction \/ (~Stored /\ NoneAccepted)

AcceptedBelow ==
  \A r \in Requests :
    Stored /\ answer[r] = "highest" => amount[r] <= auction.currentPrice

WatchInv ==
  /\ BeforeCreation /\ TtlUnbid /\ Watched /\ ExecBetter /\ Fresh

RecordInv ==
  /\ NoBidLost /\ AcceptedBelow /\ AcceptedAmountsDiffer

LEMMA WatchInit == Init => WatchInv /\ RecordInv
  BY DEF Init, WatchInv, RecordInv, BeforeCreation, TtlUnbid, Watched, ExecBetter,
         Fresh, NoneAccepted, NoBidLost, AcceptedBelow, AcceptedAmountsDiffer

\* An attempt that ends without an answer accepts nothing.
LEMMA RetryAccepts ==
  ASSUME TypeOK, NEW r \in Requests, Retry(r)
  PROVE  /\ \A q \in Requests : q # r => pc'[q] = pc[q] /\ copy'[q] = copy[q]
         /\ pc'[r] \in {"watch", "done"}
         /\ \A q \in Requests : answer'[q] = "highest" => answer[q] = "highest"
  BY DEF TypeOK, Retry

\* What EXEC over an intact watch does to the record, for any pair of bids.
LEMMA ExecRecord ==
  ASSUME TypeOK, WatchInv, RecordInv, NEW r \in Requests, pc[r] = "exec",
         ExecSet(r, ServerOf[r]),
         answer' = [answer EXCEPT ![r] = "highest"], UNCHANGED bidArgs
  PROVE  RecordInv'
  <1> USE DEF TypeOK, bidArgs
  <1> DEFINE new == [bidder |-> bidder[r], amount |-> amount[r]]
  <1>1. /\ copy[r] \in AuctionValue
        /\ copy[r].bids \in Seq(Bid)
        /\ auction' = WithBid(copy[r], bidder[r], amount[r])
    BY DEF ExecSet, AuctionValue
  <1>2. /\ auction'.bids = Append(copy[r].bids, new)
        /\ auction'.currentPrice = amount[r]
    BY <1>1 DEF WithBid, AuctionValue
  <1>3. (copy[r] = auction /\ Stored) \/ NoneAccepted
    BY DEF ExecSet, WatchInv, Fresh, ExecBetter, Stored
  <1>4. \A q \in Requests : q # r /\ answer'[q] = "highest" =>
           copy[r] = auction /\ Stored /\ answer[q] = "highest"
    BY <1>3 DEF NoneAccepted
  <1>5. \A q \in Requests : amount[q] \in Nat
    BY AmountAssumption
  <1>6. \A q \in Requests : q # r /\ answer'[q] = "highest" => amount[q] < amount[r]
    <2>1. amount[r] > copy[r].currentPrice
      BY DEF WatchInv, ExecBetter
    <2>2. copy[r].currentPrice \in Nat
      <3>1. Prices \subseteq Nat
        BY AmountAssumption DEF Prices
      <3>2. QED
        BY <1>1, <3>1 DEF AuctionValue
    <2>3. QED
      BY <1>4, <1>5, <2>1, <2>2 DEF RecordInv, AcceptedBelow
  <1>7. NoBidLost'
    <2> SUFFICES ASSUME NEW q \in Requests, answer'[q] = "highest"
                 PROVE  \E i \in 1..Len(auction'.bids) :
                          auction'.bids[i] = [bidder |-> bidder[q], amount |-> amount[q]]
      BY DEF NoBidLost
    <2>1. CASE q = r
      <3>1. Len(copy[r].bids) + 1 \in 1..Len(auction'.bids)
        BY <1>1, <1>2
      <3>2. auction'.bids[Len(copy[r].bids) + 1] = new
        BY <1>1, <1>2
      <3>3. QED
        BY <2>1, <3>1, <3>2
    <2>2. CASE q # r
      <3>1. PICK i \in 1..Len(auction.bids) :
              auction.bids[i] = [bidder |-> bidder[q], amount |-> amount[q]]
        BY <1>4, <2>2 DEF RecordInv, NoBidLost
      <3>2. auction.bids = copy[r].bids
        BY <1>4, <2>2
      <3>3. i \in 1..Len(auction'.bids) /\ auction'.bids[i] = auction.bids[i]
        BY <1>1, <1>2, <3>2
      <3>4. QED
        BY <3>1, <3>3
    <2>3. QED
      BY <2>1, <2>2
  <1>8. AcceptedBelow'
    BY <1>2, <1>5, <1>6 DEF AcceptedBelow
  <1>9. AcceptedAmountsDiffer'
    BY <1>5, <1>6, <1>4 DEF RecordInv, AcceptedAmountsDiffer
  <1>10. QED
    BY <1>7, <1>8, <1>9 DEF RecordInv

LEMMA WatchStep ==
  ASSUME OwnConnections, ~IoErrors
  PROVE  TypeOK /\ WatchInv /\ RecordInv /\ [Next]_vars => WatchInv' /\ RecordInv'
  <1> SUFFICES ASSUME TypeOK, WatchInv, RecordInv, [Next]_vars
               PROVE  WatchInv' /\ RecordInv'
    OBVIOUS
  <1> USE DEF bidArgs, keyVars, watchVars, bidVars, finVars
  <1> DEFINE Goal == WatchInv' /\ RecordInv'
  <1>1. ASSUME NEW p \in Players, NEW n \in StartPrices, CreateSet(p, n)
        PROVE  Goal
    BY <1>1 DEF CreateSet, WatchInv, RecordInv, BeforeCreation, TtlUnbid, Watched,
       ExecBetter, Fresh, NoneAccepted, NoBidLost, AcceptedBelow, AcceptedAmountsDiffer
  <1>2. ASSUME UNCHANGED <<auction, ttl, watchVars, bidArgs, bidVars>>,
               creation' = creation \/ (creation # "none" /\ creation' # "none")
        PROVE  Goal
    BY <1>2 DEF WatchInv, RecordInv, BeforeCreation, TtlUnbid, Watched, ExecBetter,
       Fresh, Stored, NoneAccepted, NoBidLost, AcceptedBelow, AcceptedAmountsDiffer
  <1>3. ASSUME UNCHANGED <<auction, bidArgs, answer>> PROVE RecordInv'
    BY <1>3 DEF RecordInv, Stored, NoBidLost, AcceptedBelow, AcceptedAmountsDiffer
  <1>4. ASSUME NEW r \in Requests, Watch(r) PROVE Goal
    BY <1>3, <1>4 DEF TypeOK, Watch, WatchInv, BeforeCreation, TtlUnbid, Watched,
       ExecBetter, Fresh, Stored, NoneAccepted
  <1>5. ASSUME NEW r \in Requests, Get(r) PROVE Goal
    BY <1>3, <1>5 DEF TypeOK, Get, Acceptable, WatchInv, BeforeCreation, TtlUnbid,
       Watched, ExecBetter, Fresh, Stored, NoneAccepted
  <1>6. ASSUME NEW r \in Requests, pc[r] \in {"unwatch", "exec"},
               EndWatch(ServerOf[r]), Retry(r),
               UNCHANGED <<auction, ttl, creation, bidArgs>>
        PROVE  Goal
    <2>1. \A q \in Requests : q # r => ServerOf[q] # ServerOf[r]
      BY DEF OwnConnections
    <2>2. /\ BeforeCreation'
          /\ TtlUnbid'
          /\ NoneAccepted => NoneAccepted'
      BY <1>6, RetryAccepts DEF WatchInv, BeforeCreation, TtlUnbid, NoneAccepted
    <2>3. Watched' /\ ExecBetter'
      BY <1>6, <2>1, RetryAccepts DEF EndWatch, WatchInv, Watched, ExecBetter
    <2>4. Fresh'
      BY <1>6, <2>1, <2>2, RetryAccepts DEF EndWatch, WatchInv, Fresh, Stored
    <2>5. RecordInv'
      BY <1>6, RetryAccepts DEF RecordInv, Stored, NoBidLost, AcceptedBelow,
         AcceptedAmountsDiffer
    <2>6. QED
      BY <2>2, <2>3, <2>4, <2>5 DEF WatchInv
  <1>7. ASSUME NEW r \in Requests, Exec(r) PROVE Goal
    <2>1. CASE /\ ExecSet(r, ServerOf[r])
               /\ pc' = [pc EXCEPT ![r] = "done"]
               /\ answer' = [answer EXCEPT ![r] = "highest"]
               /\ copy' = [copy EXCEPT ![r] = NoAuction]
      <3>1. RecordInv'
        BY <1>7, <2>1, ExecRecord DEF Exec
      <3>2. \A q \in Requests : q # r /\ pc[q] = "exec" => ServerOf[q] \in dirty'
        BY <2>1 DEF ExecSet, WatchInv, Watched, OwnConnections
      <3>3. BeforeCreation' /\ TtlUnbid'
        BY <1>7, <2>1 DEF Exec, ExecSet, WatchInv, BeforeCreation, TtlUnbid
      <3>4. Watched'
        BY <1>7, <2>1 DEF TypeOK, Exec, ExecSet, WatchInv, Watched, OwnConnections
      <3>5. ExecBetter' /\ Fresh'
        BY <1>7, <2>1, <3>2 DEF TypeOK, Exec, WatchInv, ExecBetter, Fresh
      <3>6. QED
        BY <3>1, <3>3, <3>4, <3>5 DEF WatchInv
    <2>2. CASE EndWatch(ServerOf[r]) /\ Retry(r) /\ UNCHANGED <<auction, ttl>>
      BY <1>6, <1>7, <2>2 DEF Exec
    <2>3. QED
      BY <1>7, <2>1, <2>2 DEF Exec
  <1>8. ASSUME NEW r \in Requests, Unwatch(r) PROVE Goal
    BY <1>6, <1>8 DEF Unwatch
  <1>9. ASSUME NEW r \in Requests, CallFails(r) \/ ExecReplyLost(r) PROVE Goal
    BY <1>9 DEF CallFails, ExecReplyLost
  <1>10. ASSUME NEW s \in Servers, Reconnect(s) PROVE Goal
    BY <1>10 DEF Reconnect
  <1>11. ASSUME auction' = NoAuction, ttl' = FALSE,
                UNCHANGED <<creation, watching, bidArgs, bidVars>>,
                dirty' \in {dirty, watching}, dirty' = watching \/ ~Stored \/ ttl
         PROVE  Goal
    <2>1. ~Stored'
      BY <1>11 DEF Stored, NoAuction
    <2>2. RecordInv'
      BY <1>11, <2>1 DEF RecordInv, NoBidLost, AcceptedBelow, AcceptedAmountsDiffer
    <2>3. BeforeCreation' /\ TtlUnbid' /\ Watched' /\ ExecBetter'
      BY <1>11 DEF WatchInv, BeforeCreation, TtlUnbid, Watched, ExecBetter
    <2>4. Fresh'
      <3> SUFFICES ASSUME NEW r \in Requests, pc[r] = "exec", ServerOf[r] \notin dirty'
                   PROVE  NoneAccepted
        BY <1>11, <2>1 DEF Fresh, NoneAccepted
      <3>1. dirty' = dirty /\ (~Stored \/ ttl)
        BY <1>11 DEF WatchInv, Watched
      <3>2. QED
        BY <3>1 DEF WatchInv, Fresh, ExecBetter, TtlUnbid, Stored
    <2>5. QED
      BY <2>2, <2>3, <2>4 DEF WatchInv
  <1>12. ASSUME NEW f \in Finalizers, FinalizeGet(f) \/ FinalizeUnlist(f) PROVE Goal
    <2>1. UNCHANGED <<auction, ttl, creation, watchVars, bidArgs, bidVars>>
      BY <1>12 DEF FinalizeGet, FinalizeUnlist
    <2>2. QED
      BY <1>2, <2>1
  <1>13. ASSUME NEW f \in Finalizers, FinalizeDel(f) PROVE Goal
    BY <1>11, <1>13 DEF FinalizeDel
  <1>14. CASE KeyExpires
    BY <1>11, <1>14 DEF KeyExpires
  <1>15. CASE CreateIndex \/ TimePasses \/ Rest \/ UNCHANGED vars
    <2>1. UNCHANGED <<auction, ttl, watchVars, bidArgs, bidVars>>
      BY <1>15 DEF CreateIndex, TimePasses, Rest, vars
    <2>2. creation' = creation \/ (creation # "none" /\ creation' # "none")
      BY <1>15 DEF CreateIndex, TimePasses, Rest, vars
    <2>3. QED
      BY <1>2, <2>1, <2>2
  <1>16. QED
    BY <1>1, <1>4, <1>5, <1>7, <1>8, <1>9, <1>10, <1>12, <1>13, <1>14, <1>15
       DEF Next, Proceed

LEMMA WatchAlways ==
  ASSUME OwnConnections, ~IoErrors
  PROVE  Spec => [](WatchInv /\ RecordInv)
  <1>1. Init => TypeOK /\ AttemptLeft
    BY TypeInit
  <1>2. Init => WatchInv /\ RecordInv
    BY WatchInit
  <1>3. TypeOK /\ AttemptLeft /\ [Next]_vars => TypeOK' /\ AttemptLeft'
    BY TypeStep
  <1>4. TypeOK /\ WatchInv /\ RecordInv /\ [Next]_vars => WatchInv' /\ RecordInv'
    BY WatchStep
  <1>5. QED
    BY <1>1, <1>2, <1>3, <1>4, PTL DEF Spec

\* A bidder who was told to be the highest stays on record while the auction
\* does, for any number of bids, amounts, finalizers and expiries.
THEOREM BidsNeverLost ==
  ASSUME OwnConnections, ~IoErrors
  PROVE  Spec => []NoBidLost
  <1>1. WatchInv /\ RecordInv => NoBidLost
    BY DEF RecordInv
  <1>2. QED
    BY <1>1, WatchAlways, PTL

\* No two bids of one amount are both accepted, not even around the removal of
\* the auction.
THEOREM AmountsDiffer ==
  ASSUME OwnConnections, ~IoErrors
  PROVE  Spec => []AcceptedAmountsDiffer
  <1>1. WatchInv /\ RecordInv => AcceptedAmountsDiffer
    BY DEF RecordInv
  <1>2. QED
    BY <1>1, WatchAlways, PTL

-----------------------------------------------------------------------------
(***************************************************************************)
(* The stored value, whatever fails and however connections are shared.    *)
(* BidsAscend is not inductive: a SET writes what the request made of the  *)
(* copy it read, so the copies have to be coherent too, stale or not.      *)
(***************************************************************************)

\* The last two conjuncts of BidsAscend, of any value.
Ascending(a) ==
  \A i \in 1..Len(a.bids) :
    /\ a.bids[i].bidder # a.seller
    /\ a.bids[i].amount > IF i = 1 THEN a.startPrice ELSE a.bids[i - 1].amount
LastIsCurrent(a) ==
  IF Len(a.bids) = 0
  THEN a.currentPrice = a.startPrice /\ a.currentBidder = Nobody
  ELSE /\ a.currentPrice = a.bids[Len(a.bids)].amount
       /\ a.currentBidder = a.bids[Len(a.bids)].bidder
Coherent(a) == a.seller # Nobody => Ascending(a) /\ LastIsCurrent(a)

\* What a request is about to write is a better bid of somebody else than the
\* seller on a coherent value.
CopiesCoherent ==
  \A r \in Requests :
    pc[r] = "exec" =>
      /\ copy[r].seller \notin {Nobody, bidder[r]}
      /\ amount[r] > copy[r].currentPrice
      /\ Coherent(copy[r])

CoherentInv == Coherent(auction) /\ CopiesCoherent

LEMMA BidsNatural ==
  ASSUME NEW a \in AuctionValue
  PROVE  /\ a.bids \in Seq(Bid) /\ Len(a.bids) \in Nat
         /\ a.startPrice \in Nat /\ a.currentPrice \in Nat
         /\ \A i \in 1..Len(a.bids) : a.bids[i] \in Bid /\ a.bids[i].amount \in Nat
  <1>1. a.bids \in Seq(Bid) /\ Len(a.bids) \in Nat
    BY DEF AuctionValue
  <1>2. Prices \subseteq Nat
    BY AmountAssumption DEF Prices
  <1>3. a.startPrice \in Nat /\ a.currentPrice \in Nat
    <2>1. a.startPrice \in StartPrices \cup {0} /\ a.currentPrice \in Prices
      BY DEF AuctionValue
    <2>2. a.currentPrice \in Nat
      BY <1>2, <2>1
    <2>3. StartPrices \cup {0} \subseteq Nat
      BY AmountAssumption
    <2>4. QED
      BY <2>1, <2>2, <2>3
  <1>4. \A i \in 1..Len(a.bids) : a.bids[i] \in Bid
    BY <1>1
  <1>5. \A b \in Bid : b.amount \in Nat
    BY AmountAssumption DEF Bid
  <1>6. QED
    BY <1>1, <1>3, <1>4, <1>5

\* A bid above the current price of a coherent value, by somebody else than
\* its seller, keeps it coherent.
LEMMA WithBidCoherent ==
  ASSUME NEW a \in AuctionValue, NEW p \in Players, NEW n \in Amounts,
         Coherent(a), a.seller \notin {Nobody, p}, n > a.currentPrice
  PROVE  Coherent(WithBid(a, p, n))
  <1> DEFINE c == WithBid(a, p, n)
             k == Len(a.bids)
             new == [bidder |-> p, amount |-> n]
  <1>1. /\ a.bids \in Seq(Bid) /\ k \in Nat
        /\ a.startPrice \in Nat /\ a.currentPrice \in Nat /\ n \in Nat
        /\ \A i \in 1..k : a.bids[i].amount \in Nat
    BY BidsNatural, AmountAssumption
  <1>2. /\ c.bids = Append(a.bids, new) /\ c.seller = a.seller
        /\ c.startPrice = a.startPrice /\ c.currentPrice = n /\ c.currentBidder = p
    BY DEF WithBid, AuctionValue
  <1>3. /\ Len(c.bids) = k + 1 /\ c.bids[k + 1] = new
        /\ \A i \in 1..k : c.bids[i] = a.bids[i]
    BY <1>1, <1>2
  <1>4. k = 0 => a.currentPrice = a.startPrice
    BY DEF Coherent, LastIsCurrent
  <1>5. k # 0 => a.currentPrice = a.bids[k].amount
    BY DEF Coherent, LastIsCurrent
  <1> HIDE DEF c, k
  <1>6. Ascending(c)
    <2> SUFFICES ASSUME NEW i \in 1..(k + 1)
                 PROVE  /\ c.bids[i].bidder # c.seller
                        /\ c.bids[i].amount >
                             IF i = 1 THEN c.startPrice ELSE c.bids[i - 1].amount
      BY <1>3 DEF Ascending
    <2>1. CASE i \in 1..k
      <3>1. /\ a.bids[i].bidder # a.seller
            /\ a.bids[i].amount > IF i = 1 THEN a.startPrice ELSE a.bids[i - 1].amount
        BY <2>1 DEF Coherent, Ascending, k
      <3>2. i # 1 => i - 1 \in 1..k
        BY <1>1, <2>1
      <3>3. QED
        BY <1>2, <1>3, <2>1, <3>1, <3>2
    <2>2. CASE i = k + 1
      <3>1. c.bids[i].bidder = p /\ c.bids[i].amount = n
        BY <1>3, <2>2
      <3>2. CASE k = 0
        BY <1>1, <1>2, <1>4, <2>2, <3>1, <3>2
      <3>3. CASE k # 0
        <4>1. i # 1 /\ i - 1 = k /\ k \in 1..k
          BY <1>1, <2>2, <3>3
        <4>2. c.bids[i - 1].amount = a.currentPrice
          BY <1>3, <1>5, <3>3, <4>1
        <4>3. QED
          BY <1>1, <1>2, <3>1, <4>1, <4>2
      <3>4. QED
        BY <3>2, <3>3
    <2>3. QED
      BY <1>1, <2>1, <2>2
  <1>7. LastIsCurrent(c)
    BY <1>1, <1>2, <1>3 DEF LastIsCurrent
  <1>8. QED
    BY <1>6, <1>7 DEF Coherent, c

LEMMA StartCoherent ==
  ASSUME NEW p \in Players, NEW n \in StartPrices
  PROVE  Coherent([NoAuction EXCEPT !.seller = p, !.startPrice = n, !.currentPrice = n])
  BY DEF Coherent, Ascending, LastIsCurrent, NoAuction

LEMMA NoAuctionCoherent == Coherent(NoAuction) /\ NoAuction.seller = Nobody
  BY DEF Coherent, NoAuction

\* Every step either keeps the stored value and its readers, reads it, removes
\* it, or writes a bid on the copy of one reader.
LEMMA CoherentStep == TypeOK /\ CoherentInv /\ [Next]_vars => CoherentInv'
  <1> SUFFICES ASSUME TypeOK, CoherentInv, [Next]_vars PROVE CoherentInv'
    OBVIOUS
  <1> USE DEF bidArgs, keyVars, watchVars, bidVars, finVars
  <1>1. ASSUME UNCHANGED <<bidArgs, copy>>,
               \A r \in Requests : pc'[r] = "exec" => pc[r] = "exec"
        PROVE  CopiesCoherent'
    BY <1>1 DEF CoherentInv, CopiesCoherent, Coherent, Ascending, LastIsCurrent
  <1>2. ASSUME auction' = auction PROVE Coherent(auction)'
    BY <1>2 DEF CoherentInv, Coherent, Ascending, LastIsCurrent
  <1>3. ASSUME NEW a, Coherent(a), auction' = a PROVE Coherent(auction)'
    BY <1>3 DEF Coherent, Ascending, LastIsCurrent
  <1>4. ASSUME NEW r \in Requests, UNCHANGED bidArgs,
               \A q \in Requests : q # r => pc'[q] = pc[q] /\ copy'[q] = copy[q],
               pc'[r] # "exec"
        PROVE  CopiesCoherent'
    <2> SUFFICES ASSUME NEW q \in Requests, pc'[q] = "exec"
                 PROVE  /\ copy'[q].seller \notin {Nobody, bidder'[q]}
                        /\ amount'[q] > copy'[q].currentPrice
                        /\ Coherent(copy[q])'
      BY DEF CopiesCoherent
    <2>1. copy'[q] = copy[q] /\ pc[q] = "exec" /\ UNCHANGED bidArgs
      BY <1>4
    <2>2. Coherent(copy[q])
      BY <2>1 DEF CoherentInv, CopiesCoherent
    <2>3. Coherent(copy[q])'
      BY <2>1, <2>2 DEF Coherent, Ascending, LastIsCurrent
    <2>4. QED
      BY <2>1, <2>3 DEF CoherentInv, CopiesCoherent
  <1>5. ASSUME NEW r \in Requests, pc[r] = "exec", ExecSet(r, ServerOf[r])
        PROVE  Coherent(auction)'
    <2>1. /\ copy[r] \in AuctionValue /\ bidder[r] \in Players /\ amount[r] \in Amounts
          /\ auction' = WithBid(copy[r], bidder[r], amount[r])
      BY <1>5 DEF TypeOK, ExecSet
    <2>2. Coherent(WithBid(copy[r], bidder[r], amount[r]))
      BY <1>5, <2>1, WithBidCoherent DEF CoherentInv, CopiesCoherent
    <2>3. QED
      BY <1>3, <2>1, <2>2
  <1>6. ASSUME NEW p \in Players, NEW n \in StartPrices, CreateSet(p, n)
        PROVE  CoherentInv'
    BY <1>1, <1>3, <1>6, StartCoherent DEF CreateSet, CoherentInv
  <1>7. ASSUME NEW r \in Requests, Watch(r) PROVE CoherentInv'
    BY <1>1, <1>2, <1>7 DEF Watch, CoherentInv, TypeOK
  <1>8. ASSUME NEW r \in Requests, Get(r) PROVE CoherentInv'
    <2>1. auction' = auction /\ UNCHANGED bidArgs
      BY <1>8 DEF Get
    <2>2. CASE /\ Acceptable(r)
               /\ copy' = [copy EXCEPT ![r] = auction]
               /\ pc' = [pc EXCEPT ![r] = "exec"]
      <3>1. /\ copy'[r] = auction
            /\ \A q \in Requests : q # r => pc'[q] = pc[q] /\ copy'[q] = copy[q]
        BY <2>2 DEF TypeOK
      <3>2. auction.seller \notin {Nobody, bidder[r]} /\ amount[r] > auction.currentPrice
        BY <2>2 DEF Acceptable, Stored
      <3>3. ASSUME NEW q \in Requests, pc'[q] = "exec", NEW c, c = copy'[q]
            PROVE  /\ c.seller \notin {Nobody, bidder[q]}
                   /\ amount[q] > c.currentPrice
                   /\ Coherent(c)
        <4>1. CASE q = r
          BY <3>1, <3>2, <3>3, <4>1 DEF CoherentInv
        <4>2. CASE q # r
          BY <3>1, <3>3, <4>2 DEF CoherentInv, CopiesCoherent
        <4>3. QED
          BY <4>1, <4>2
      <3>4. CopiesCoherent'
        BY <2>1, <3>3
           DEF CopiesCoherent, Coherent, Ascending, LastIsCurrent
      <3>5. QED
        BY <1>2, <2>1, <3>4 DEF CoherentInv
    <2>3. CASE pc' = [pc EXCEPT ![r] = "unwatch"] /\ UNCHANGED copy
      BY <1>1, <1>2, <2>1, <2>3 DEF CoherentInv, TypeOK
    <2>4. QED
      BY <1>8, <2>2, <2>3 DEF Get
  <1>9. ASSUME NEW r \in Requests, Retry(r), UNCHANGED bidArgs PROVE CopiesCoherent'
    <2>1. /\ \A q \in Requests : q # r => pc'[q] = pc[q] /\ copy'[q] = copy[q]
          /\ pc'[r] # "exec"
      BY <1>9, RetryAccepts
    <2>2. QED
      BY <1>4, <1>9, <2>1
  <1>10. ASSUME NEW r \in Requests, Unwatch(r) \/ CallFails(r) PROVE CoherentInv'
    BY <1>2, <1>9, <1>10 DEF Unwatch, CallFails, CoherentInv
  <1>11. ASSUME NEW r \in Requests, Exec(r) PROVE CoherentInv'
    <2>1. CASE /\ ExecSet(r, ServerOf[r])
               /\ pc' = [pc EXCEPT ![r] = "done"]
               /\ copy' = [copy EXCEPT ![r] = NoAuction]
      <3>1. /\ \A q \in Requests : q # r => pc'[q] = pc[q] /\ copy'[q] = copy[q]
            /\ pc'[r] # "exec"
        BY <2>1 DEF TypeOK
      <3>2. QED
        BY <1>4, <1>5, <1>11, <2>1, <3>1 DEF Exec, CoherentInv
    <2>2. CASE Retry(r) /\ UNCHANGED <<auction, ttl>>
      BY <1>2, <1>9, <1>11, <2>2 DEF Exec, CoherentInv
    <2>3. QED
      BY <1>11, <2>1, <2>2 DEF Exec
  <1>12. ASSUME NEW r \in Requests, ExecReplyLost(r) PROVE CoherentInv'
    BY <1>5, <1>9, <1>12 DEF ExecReplyLost, CoherentInv
  <1>13. ASSUME auction' = NoAuction \/ auction' = auction, UNCHANGED <<bidArgs, pc, copy>>
         PROVE  CoherentInv'
    BY <1>1, <1>2, <1>3, <1>13, NoAuctionCoherent DEF CoherentInv
  <1>14. ASSUME NEW f \in Finalizers,
                FinalizeGet(f) \/ FinalizeUnlist(f) \/ FinalizeDel(f)
         PROVE  CoherentInv'
    BY <1>13, <1>14 DEF FinalizeGet, FinalizeUnlist, FinalizeDel
  <1>15. CASE CreateIndex \/ TimePasses \/ KeyExpires \/ Rest \/ UNCHANGED vars
    BY <1>13, <1>15 DEF CreateIndex, TimePasses, KeyExpires, Rest, vars
  <1>16. ASSUME NEW s \in Servers, Reconnect(s) PROVE CoherentInv'
    BY <1>13, <1>16 DEF Reconnect
  <1>17. QED
    BY <1>6, <1>7, <1>8, <1>10, <1>11, <1>12, <1>14, <1>15, <1>16 DEF Next, Proceed

\* The bids on record ascend from above the start price, none is the seller's,
\* and the last is the current one, also when requests share a connection and
\* write over each other, when replies are lost and when clients reconnect.
THEOREM RecordCoherent == Spec => []BidsAscend
  <1>1. Init => CoherentInv
    BY NoAuctionCoherent DEF Init, CoherentInv, CopiesCoherent
  <1>2. CoherentInv => BidsAscend
    BY DEF CoherentInv, Coherent, Ascending, LastIsCurrent, BidsAscend, Stored
  <1>3. Init => TypeOK /\ AttemptLeft
    BY TypeInit
  <1>4. TypeOK /\ AttemptLeft /\ [Next]_vars => TypeOK' /\ AttemptLeft'
    BY TypeStep
  <1>5. QED
    BY <1>1, <1>2, <1>3, <1>4, CoherentStep, PTL DEF Spec

-----------------------------------------------------------------------------
(***************************************************************************)
(* The winner.  A finalizer tells what it read two awaits ago, while bids  *)
(* and retries go on: what was offered has to stay offered.                *)
(***************************************************************************)

\* Some request asked for exactly this price and has run an attempt.
Offered(p, n) ==
  \E r \in Requests :
    /\ bidder[r] = p /\ amount[r] = n
    /\ tries[r] > 0 \/ answer[r] = "highest"

\* The current bidder of a value offered its current price.
CurrentOffered(a) ==
  a.currentBidder # Nobody => Offered(a.currentBidder, a.currentPrice)

WinnerInv ==
  /\ CurrentOffered(auction)
  /\ \A f \in Finalizers : CurrentOffered(fcopy[f])
  /\ WinnerBid

\* Attempts are never taken back, nor is a success.
LEMMA TriesGrow ==
  ASSUME TypeOK, [Next]_vars
  PROVE  /\ UNCHANGED bidArgs
         /\ \A r \in Requests :
              (tries[r] > 0 \/ answer[r] = "highest")
                => (tries'[r] > 0 \/ answer'[r] = "highest")
  <1> USE DEF bidArgs, keyVars, watchVars, bidVars, finVars
  <1>1. ASSUME NEW r \in Requests, Retry(r)
        PROVE  /\ tries' = [tries EXCEPT ![r] = @ + 1] /\ tries'[r] > 0
               /\ \A q \in Requests : q # r => answer'[q] = answer[q]
    <2>1. tries[r] \in Nat
      BY RetryAssumption DEF TypeOK
    <2>2. QED
      BY <1>1, <2>1 DEF Retry, TypeOK
  <1>2. ASSUME NEW r \in Requests, Exec(r), ~Retry(r)
        PROVE  tries' = tries /\ answer' = [answer EXCEPT ![r] = "highest"]
    BY <1>2 DEF Exec
  <1>3. ASSUME NEW r \in Requests,
               Unwatch(r) \/ CallFails(r) \/ ExecReplyLost(r) \/ Exec(r)
        PROVE  UNCHANGED bidArgs
    BY <1>3 DEF Unwatch, CallFails, ExecReplyLost, Exec
  <1>4. ASSUME NEW r \in Requests,
               Unwatch(r) \/ CallFails(r) \/ ExecReplyLost(r) \/ Exec(r)
        PROVE  \A q \in Requests :
                 (tries[q] > 0 \/ answer[q] = "highest")
                   => (tries'[q] > 0 \/ answer'[q] = "highest")
    <2>1. CASE Retry(r)
      BY <1>1, <2>1 DEF TypeOK
    <2>2. CASE ~Retry(r)
      <3>1. Exec(r)
        BY <1>4, <2>2 DEF Unwatch, CallFails, ExecReplyLost
      <3>2. QED
        BY <1>2, <2>2, <3>1 DEF TypeOK
    <2>3. QED
      BY <2>1, <2>2
  <1>5. CASE \A r \in Requests :
               ~(Unwatch(r) \/ CallFails(r) \/ ExecReplyLost(r) \/ Exec(r))
    <2>1. UNCHANGED <<bidArgs, tries, answer>>
      BY <1>5 DEF Next, Proceed, CreateSet, CreateIndex, Watch, Get, Reconnect,
         FinalizeGet, FinalizeUnlist, FinalizeDel, TimePasses, KeyExpires, Rest, vars
    <2>2. QED
      BY <2>1
  <1>6. QED
    BY <1>3, <1>4, <1>5

LEMMA OfferedStays ==
  ASSUME TypeOK, [Next]_vars, NEW p, NEW n, Offered(p, n)
  PROVE  Offered(p, n)'
  BY TriesGrow DEF Offered, bidArgs

LEMMA WinnerStep == TypeOK /\ WinnerInv /\ [Next]_vars => WinnerInv'
  <1> SUFFICES ASSUME TypeOK, WinnerInv, [Next]_vars PROVE WinnerInv'
    OBVIOUS
  <1> USE DEF bidArgs, keyVars, watchVars, bidVars, finVars
  <1>1. ASSUME NEW a, CurrentOffered(a), NEW b, b = a
        PROVE  b.currentBidder # Nobody => Offered(b.currentBidder, b.currentPrice)'
    BY <1>1, OfferedStays DEF CurrentOffered
  <1>2. ASSUME auction' = auction PROVE CurrentOffered(auction)'
    <2>1. auction'.currentBidder # Nobody
            => \E r \in Requests :
                 /\ bidder'[r] = auction'.currentBidder
                 /\ amount'[r] = auction'.currentPrice
                 /\ tries'[r] > 0 \/ answer'[r] = "highest"
      BY <1>1, <1>2 DEF WinnerInv, Offered
    <2>2. QED
      BY <2>1 DEF CurrentOffered, Offered
  <1>3. ASSUME auction' = NoAuction PROVE CurrentOffered(auction)'
    BY <1>3 DEF CurrentOffered, NoAuction
  <1>4. ASSUME NEW r \in Requests, pc[r] = "exec", ExecSet(r, ServerOf[r]),
               tries'[r] > 0 \/ answer'[r] = "highest"
        PROVE  CurrentOffered(auction)'
    <2>1. copy[r] \in AuctionValue
      BY DEF TypeOK
    <2>2. auction'.currentBidder = bidder[r] /\ auction'.currentPrice = amount[r]
      BY <1>4, <2>1 DEF ExecSet, WithBid, AuctionValue
    <2>3. bidder' = bidder /\ amount' = amount
      BY TriesGrow
    <2>4. QED
      BY <1>4, <2>2, <2>3 DEF CurrentOffered, Offered
  <1>5. CurrentOffered(auction)'
    <2>1. ASSUME NEW r \in Requests, Exec(r), auction' # auction
          PROVE  CurrentOffered(auction)'
      <3>1. /\ pc[r] = "exec" /\ ExecSet(r, ServerOf[r])
            /\ answer' = [answer EXCEPT ![r] = "highest"]
        BY <2>1 DEF Exec
      <3>2. answer'[r] = "highest"
        BY <3>1 DEF TypeOK
      <3>3. QED
        BY <1>4, <3>1, <3>2
    <2>2. ASSUME NEW r \in Requests, ExecReplyLost(r) PROVE CurrentOffered(auction)'
      <3>1. tries[r] \in Nat /\ tries' = [tries EXCEPT ![r] = @ + 1]
        BY <2>2, RetryAssumption DEF ExecReplyLost, Retry, TypeOK
      <3>2. tries'[r] > 0
        BY <3>1 DEF TypeOK
      <3>3. QED
        BY <1>4, <2>2, <3>2 DEF ExecReplyLost
    <2>3. ASSUME NEW p \in Players, NEW n \in StartPrices, CreateSet(p, n)
          PROVE  CurrentOffered(auction)'
      BY <2>3 DEF CreateSet, NoAuction, CurrentOffered
    <2>4. CASE /\ \A r \in Requests : ~(Exec(r) /\ auction' # auction) /\ ~ExecReplyLost(r)
               /\ \A p \in Players, n \in StartPrices : ~CreateSet(p, n)
      <3>1. auction' = auction \/ auction' = NoAuction
        BY <2>4 DEF Next, Proceed, CreateIndex, Watch, Get, Unwatch, CallFails, Reconnect,
           FinalizeGet, FinalizeUnlist, FinalizeDel, TimePasses, KeyExpires, Rest, vars
      <3>2. QED
        BY <1>2, <1>3, <3>1
    <2>5. QED
      BY <2>1, <2>2, <2>3, <2>4
  <1>6. ASSUME NEW f \in Finalizers, fcopy'[f] = fcopy[f] \/ fcopy'[f] = auction
        PROVE  CurrentOffered(fcopy[f])'
    <2>1. fcopy'[f].currentBidder # Nobody
            => \E r \in Requests :
                 /\ bidder'[r] = fcopy'[f].currentBidder
                 /\ amount'[r] = fcopy'[f].currentPrice
                 /\ tries'[r] > 0 \/ answer'[r] = "highest"
      BY <1>1, <1>6 DEF WinnerInv, Offered
    <2>2. QED
      BY <2>1 DEF CurrentOffered, Offered
  <1>7. \A f \in Finalizers : CurrentOffered(fcopy[f])'
    <2>1. \A f \in Finalizers : fcopy'[f] = fcopy[f] \/ fcopy'[f] = auction
      <3>1. ASSUME NEW f \in Finalizers, FinalizeGet(f)
            PROVE  \A g \in Finalizers : fcopy'[g] = fcopy[g] \/ fcopy'[g] = auction
        BY <3>1 DEF FinalizeGet, TypeOK
      <3>2. CASE \A f \in Finalizers : ~FinalizeGet(f)
        BY <3>2 DEF Next, Proceed, CreateSet, CreateIndex, Watch, Get, Unwatch, Exec,
           CallFails, ExecReplyLost, Reconnect, FinalizeUnlist, FinalizeDel,
           TimePasses, KeyExpires, Rest, vars
      <3>3. QED
        BY <3>1, <3>2
    <2>2. QED
      BY <1>6, <2>1
  <1>8. WinnerBid'
    <2> SUFFICES ASSUME NEW f \in Finalizers, result'[f].winner # Nobody
                 PROVE  \E r \in Requests :
                          /\ bidder'[r] = result'[f].winner /\ amount'[r] = result'[f].price
                          /\ tries'[r] > 0 \/ answer'[r] = "highest"
      BY DEF WinnerBid
    <2>1. \/ result'[f] = result[f]
          \/ result'[f] = [winner |-> fcopy[f].currentBidder,
                           price |-> fcopy[f].currentPrice]
      <3>1. ASSUME NEW g \in Finalizers, FinalizeDel(g)
            PROVE  \/ result'[f] = result[f]
                   \/ result'[f] = [winner |-> fcopy[f].currentBidder,
                                    price |-> fcopy[f].currentPrice]
        BY <3>1 DEF FinalizeDel, TypeOK
      <3>2. CASE \A g \in Finalizers : ~FinalizeDel(g)
        BY <3>2 DEF Next, Proceed, CreateSet, CreateIndex, Watch, Get, Unwatch, Exec,
           CallFails, ExecReplyLost, Reconnect, FinalizeGet, FinalizeUnlist,
           TimePasses, KeyExpires, Rest, vars
      <3>3. QED
        BY <3>1, <3>2
    <2>2. CASE result'[f] = result[f]
      <3>1. Offered(result[f].winner, result[f].price)
        BY <2>2 DEF WinnerInv, WinnerBid, Offered
      <3>2. QED
        BY <2>2, <3>1, TriesGrow DEF Offered
    <2>3. CASE result'[f] = [winner |-> fcopy[f].currentBidder,
                             price |-> fcopy[f].currentPrice]
      <3>1. Offered(fcopy[f].currentBidder, fcopy[f].currentPrice)
        BY <2>3 DEF WinnerInv, CurrentOffered
      <3>2. QED
        BY <2>3, <3>1, TriesGrow DEF Offered
    <2>4. QED
      BY <2>1, <2>2, <2>3
  <1>9. QED
    BY <1>5, <1>7, <1>8 DEF WinnerInv

\* A winner asked for exactly the price it is told, whatever fails and however
\* many finalizers, bids and expiries race.
THEOREM WinnerAsked == Spec => []WinnerBid
  <1>1. Init => WinnerInv
    BY DEF Init, WinnerInv, CurrentOffered, WinnerBid, NoAuction, NoResult
  <1>2. WinnerInv => WinnerBid
    BY DEF WinnerInv
  <1>3. Init => TypeOK /\ AttemptLeft
    BY TypeInit
  <1>4. TypeOK /\ AttemptLeft /\ [Next]_vars => TypeOK' /\ AttemptLeft'
    BY TypeStep
  <1>5. QED
    BY <1>1, <1>2, <1>3, <1>4, WinnerStep, PTL DEF Spec

-----------------------------------------------------------------------------
\* The history.  Under the assumptions of the watch, a SET that finds a stored
\* auction writes one bid more than that auction has.

Uncreated == creation = "none" => ~Stored

LEMMA UncreatedStep ==
  ASSUME WatchInv, Uncreated, [Next]_vars
  PROVE  Uncreated'
  <1> SUFFICES ASSUME creation' = "none" PROVE ~Stored'
    BY DEF Uncreated
  <1>1. \A p \in Players, n \in StartPrices : ~CreateSet(p, n)
    BY DEF CreateSet
  <1>2. creation = "none"
    BY <1>1 DEF Next, Proceed, CreateIndex, Watch, Get, Unwatch, Exec, CallFails,
       ExecReplyLost, Reconnect, FinalizeGet, FinalizeUnlist, FinalizeDel, TimePasses,
       KeyExpires, Rest, vars, keyVars
  <1>3. \A r \in Requests : ~Exec(r) /\ ~ExecReplyLost(r)
    BY <1>2 DEF WatchInv, BeforeCreation, Exec, ExecReplyLost
  <1>4. auction' = auction \/ auction' = NoAuction
    BY <1>1, <1>3 DEF Next, Proceed, CreateIndex, Watch, Get, Unwatch, CallFails,
       Reconnect, FinalizeGet, FinalizeUnlist, FinalizeDel, TimePasses, KeyExpires,
       Rest, vars, keyVars
  <1>5. QED
    BY <1>2, <1>4 DEF Uncreated, Stored, NoAuction

LEMMA PrefixOfAppend ==
  ASSUME NEW S, NEW s \in Seq(S), NEW x \in S
  PROVE  SubSeq(Append(s, x), 1, Len(s)) = s
  <1>1. /\ Append(s, x) \in Seq(S) /\ Len(s) \in Nat
        /\ \A i \in 1..Len(s) : Append(s, x)[i] = s[i]
    OBVIOUS
  <1>2. \A i \in 1..Len(s) : Append(s, x)[i] \in S
    BY <1>1
  <1>3. /\ SubSeq(Append(s, x), 1, Len(s)) \in Seq(S)
        /\ Len(SubSeq(Append(s, x), 1, Len(s))) = Len(s)
        /\ \A i \in 1..Len(s) : SubSeq(Append(s, x), 1, Len(s))[i] = Append(s, x)[i]
    BY <1>1, <1>2, SubSeqProperties
  <1>4. QED
    BY <1>1, <1>3, SeqEqual

\* What a step may do to a stored auction.
Growing ==
  Stored /\ Stored' =>
    /\ auction'.currentPrice >= auction.currentPrice
    /\ SubSeq(auction'.bids, 1, Len(auction.bids)) = auction.bids

LEMMA GrowStep ==
  ASSUME OwnConnections, ~IoErrors, TypeOK, WatchInv, Uncreated, [Next]_vars
  PROVE  Growing
  <1> USE DEF bidArgs, keyVars, watchVars, bidVars, finVars
  <1>1. /\ auction.bids \in Seq(Bid) /\ auction.currentPrice \in Nat
    BY BidsNatural DEF TypeOK
  <1>2. CASE auction' = auction
    BY <1>1, <1>2, SubSeqFull DEF Growing
  <1>3. CASE auction' = NoAuction
    BY <1>3 DEF Growing, Stored, NoAuction
  <1>4. ASSUME NEW r \in Requests, Exec(r), ExecSet(r, ServerOf[r]), Stored
        PROVE  Growing
    <2>1. copy[r] = auction /\ amount[r] > auction.currentPrice
      BY <1>4 DEF Exec, ExecSet, WatchInv, Fresh, ExecBetter
    <2>2. /\ auction' = WithBid(auction, bidder[r], amount[r])
          /\ amount[r] \in Nat
          /\ [bidder |-> bidder[r], amount |-> amount[r]] \in Bid
      BY <1>4, <2>1, AmountAssumption DEF ExecSet, TypeOK, Bid
    <2>3. /\ auction'.currentPrice = amount[r]
          /\ auction'.bids
               = Append(auction.bids, [bidder |-> bidder[r], amount |-> amount[r]])
      BY <2>2 DEF WithBid, TypeOK, AuctionValue
    <2>4. QED
      BY <1>1, <2>1, <2>2, <2>3, PrefixOfAppend DEF Growing
  <1>5. CASE \E p \in Players, n \in StartPrices : CreateSet(p, n)
    BY <1>5 DEF CreateSet, Uncreated, Growing
  <1>6. CASE /\ \A r \in Requests : ~(Exec(r) /\ ExecSet(r, ServerOf[r]))
             /\ \A p \in Players, n \in StartPrices : ~CreateSet(p, n)
    <2>1. auction' = auction \/ auction' = NoAuction
      BY <1>6 DEF Next, Proceed, CreateIndex, Watch, Get, Unwatch, Exec, CallFails,
         ExecReplyLost, Reconnect, FinalizeGet, FinalizeUnlist, FinalizeDel,
         TimePasses, KeyExpires, Rest, vars
    <2>2. QED
      BY <1>2, <1>3, <2>1
  <1>7. QED
    BY <1>4, <1>5, <1>6 DEF Growing

\* While the key lives its price never falls and no bid leaves its history.
THEOREM HistoryKept ==
  ASSUME OwnConnections, ~IoErrors
  PROVE  Spec => HistoryGrows
  <1>1. Init => Uncreated
    BY DEF Init, Uncreated, Stored, NoAuction
  <1>2. TypeOK /\ WatchInv /\ Uncreated /\ [Next]_vars => [Growing]_vars
    BY GrowStep
  <1>3. HistoryGrows <=> [][Growing]_vars
    BY DEF HistoryGrows, Growing
  <1>4. QED
    BY <1>1, <1>2, <1>3, UncreatedStep, WatchAlways, TypeCorrect, PTL DEF Spec

-----------------------------------------------------------------------------
(***************************************************************************)
(* Retries.  An attempt is aborted by a bid that was accepted meanwhile,   *)
(* and each accepted bid aborts a request once: so a request that was not  *)
(* beaten has no more attempts behind it than bids were accepted, a mark   *)
(* on its watch counted as an attempt (Charged).  With no more requests    *)
(* than attempts there are not enough others to use its attempts up.       *)
(***************************************************************************)

Accepted == {q \in Requests : answer[q] = "highest"}
Beaten(r) == bidder[r] = auction.seller \/ amount[r] <= auction.currentPrice
Marked(r) == IF ServerOf[r] \in dirty THEN 1 ELSE 0

Unbegun ==
  creation = "none" =>
    /\ watching = {} /\ dirty = {}
    /\ \A r \in Requests : tries[r] = 0 /\ pc[r] = "watch" /\ answer[r] = "none"

Answered ==
  \A r \in Requests :
    /\ answer[r] # "none" => pc[r] = "done"
    /\ answer[r] = "failed" => tries[r] >= MaxRetries

\* A key expires after the end of the auction only.
OpenFresh ==
  \A r \in Requests :
    ~ended /\ pc[r] = "exec" /\ ServerOf[r] \notin dirty => copy[r] = auction

Charge(r) == tries[r] + Marked(r)
Charged ==
  Stored /\ ~ended =>
    \A r \in Requests :
      /\ pc[r] = "unwatch" => Beaten(r)
      /\ answer[r] = "highest" \/ Beaten(r) \/ Charge(r) <= Cardinality(Accepted)

RetryInv == Unbegun /\ Answered /\ OpenFresh /\ Charged

LEMMA RetryInit == ASSUME IsFiniteSet(Requests) PROVE Init => RetryInv
  <1> SUFFICES ASSUME Init PROVE RetryInv
    OBVIOUS
  <1>1. ~Stored
    BY DEF Init, Stored, NoAuction
  <1>2. QED
    BY <1>1 DEF Init, RetryInv, Unbegun, Answered, OpenFresh, Charged

LEMMA AcceptedFinite ==
  ASSUME IsFiniteSet(Requests)
  PROVE  IsFiniteSet(Accepted) /\ Cardinality(Accepted) \in Nat
  <1>1. Accepted \subseteq Requests
    BY DEF Accepted
  <1>2. QED
    BY <1>1, FS_Subset, FS_CardinalityType

\* What is compared is a number.
LEMMA Numbers ==
  ASSUME TypeOK
  PROVE  /\ \A r \in Requests : amount[r] \in Nat /\ copy[r].currentPrice \in Nat
         /\ \A r \in Requests : tries[r] \in Nat /\ Charge(r) \in Nat
         /\ auction.currentPrice \in Nat
  <1>1. Prices \subseteq Nat /\ Amounts \subseteq Nat
    BY AmountAssumption DEF Prices
  <1>2. \A a \in AuctionValue : a.currentPrice \in Nat
    BY <1>1 DEF AuctionValue
  <1>3. \A r \in Requests : amount[r] \in Nat /\ copy[r].currentPrice \in Nat
    BY <1>1, <1>2 DEF TypeOK
  <1>4. \A r \in Requests : tries[r] \in Nat
    BY RetryAssumption DEF TypeOK
  <1>5. \A r \in Requests : Charge(r) \in Nat
    BY <1>4 DEF Charge, Marked
  <1>6. QED
    BY <1>2, <1>3, <1>4, <1>5 DEF TypeOK

\* What leaves the auction and the attempts alone.
LEMMA RetriesUnmoved ==
  ASSUME TypeOK, RetryInv,
         UNCHANGED <<auction, dirty, bidArgs, tries, answer>>,
         ended => ended',
         creation' = "none" => creation = "none",
         creation = "none" => UNCHANGED <<watching, pc>>,
         \A r \in Requests : pc'[r] = "done" <=> pc[r] = "done",
         \A r \in Requests : pc'[r] = "unwatch" => pc[r] = "unwatch" \/ ~Acceptable(r),
         \A r \in Requests : pc'[r] = "exec" =>
           copy'[r] = auction \/ (pc[r] = "exec" /\ copy'[r] = copy[r])
  PROVE  RetryInv'
  <1> USE DEF bidArgs
  <1>1. Unbegun'
    BY DEF RetryInv, Unbegun
  <1>2. Answered'
    BY DEF RetryInv, Answered
  <1>3. OpenFresh'
    BY DEF RetryInv, OpenFresh
  <1>4. Accepted' = Accepted /\ Stored' = Stored
    BY DEF Accepted, Stored
  <1>5. ASSUME NEW r \in Requests PROVE Beaten(r)' = Beaten(r) /\ Charge(r)' = Charge(r)
    BY DEF Beaten, Charge, Marked
  <1>6. Charged'
    <2> SUFFICES ASSUME Stored', ~ended', NEW r \in Requests
                 PROVE  /\ pc'[r] = "unwatch" => Beaten(r)
                        /\ \/ answer'[r] = "highest" \/ Beaten(r)
                           \/ Charge(r) <= Cardinality(Accepted)
      BY <1>4, <1>5 DEF Charged
    <2>1. Stored /\ ~ended
      BY <1>4
    <2>2. pc'[r] = "unwatch" => Beaten(r)
      <3>1. amount[r] \in Nat /\ auction.currentPrice \in Nat
        BY Numbers
      <3>2. QED
        BY <2>1, <3>1 DEF RetryInv, Charged, Acceptable, Beaten
    <2>3. QED
      BY <2>1, <2>2 DEF RetryInv, Charged
  <1>7. QED
    BY <1>1, <1>2, <1>3, <1>6 DEF RetryInv

\* An attempt that ends without an answer, by a failed check or by a mark.
LEMMA AttemptEnds ==
  ASSUME OwnConnections, TypeOK, AttemptLeft, WatchInv, RetryInv, NEW r \in Requests,
         pc[r] = "unwatch" \/ (pc[r] = "exec" /\ ServerOf[r] \in dirty),
         EndWatch(ServerOf[r]), Retry(r),
         UNCHANGED <<auction, ended, creation, bidArgs>>
  PROVE  RetryInv'
  <1> USE DEF bidArgs
  <1>1. \A q \in Requests : q # r => ServerOf[q] # ServerOf[r]
    BY DEF OwnConnections
  <1>2. /\ \A q \in Requests : q # r => /\ pc'[q] = pc[q] /\ copy'[q] = copy[q]
                                        /\ tries'[q] = tries[q] /\ answer'[q] = answer[q]
        /\ pc'[r] \in {"watch", "done"} /\ tries'[r] = tries[r] + 1
    BY DEF TypeOK, Retry
  <1>3. Unbegun'
    BY DEF RetryInv, Unbegun
  <1>4. answer[r] # "highest" /\ answer'[r] # "highest"
    BY DEF TypeOK, RetryInv, Answered, Retry
  <1>5. Answered'
    <2>1. /\ answer'[r] # "none" => pc'[r] = "done"
          /\ answer'[r] = "failed" => tries'[r] >= MaxRetries
      BY RetryAssumption DEF TypeOK, RetryInv, Answered, Retry
    <2>2. QED
      BY <1>2, <2>1 DEF RetryInv, Answered
  <1>6. OpenFresh'
    BY <1>1, <1>2 DEF RetryInv, OpenFresh, EndWatch
  <1>7. Accepted' = Accepted
    BY <1>2, <1>4 DEF Accepted
  <1>8. \A q \in Requests : q # r => Charge(q)' = Charge(q)
    BY <1>1, <1>2 DEF Charge, Marked, EndWatch
  <1>9. pc[r] = "exec" => Charge(r)' = Charge(r)
    <2>1. Marked(r)' = 0 /\ (pc[r] = "exec" => Marked(r) = 1)
      BY DEF Marked, EndWatch
    <2>2. QED
      BY <1>2, <2>1, Numbers DEF Charge
  <1>10. Charged'
    <2> SUFFICES ASSUME Stored, ~ended, NEW q \in Requests
                 PROVE  /\ pc'[q] = "unwatch" => Beaten(q)
                        /\ \/ answer'[q] = "highest" \/ Beaten(q)
                           \/ Charge(q)' <= Cardinality(Accepted)
      BY <1>7 DEF Charged, Stored, Beaten
    <2>1. CASE q = r
      BY <1>2, <1>4, <1>9, <2>1 DEF RetryInv, Charged
    <2>2. CASE q # r
      BY <1>2, <1>8, <2>2 DEF RetryInv, Charged
    <2>3. QED
      BY <2>1, <2>2
  <1>11. QED
    BY <1>3, <1>5, <1>6, <1>10 DEF RetryInv

\* A bid that is accepted beats whoever offered no more and marks the others.
LEMMA BidAccepted ==
  ASSUME OwnConnections, IsFiniteSet(Requests), TypeOK, WatchInv, RetryInv,
         NEW r \in Requests, pc[r] = "exec", ExecSet(r, ServerOf[r]),
         pc' = [pc EXCEPT ![r] = "done"], answer' = [answer EXCEPT ![r] = "highest"],
         copy' = [copy EXCEPT ![r] = NoAuction],
         UNCHANGED <<tries, ended, creation, bidArgs>>
  PROVE  RetryInv'
  <1> USE DEF bidArgs
  <1>1. creation # "none"
    BY DEF WatchInv, BeforeCreation
  <1>2. Answered'
    BY DEF TypeOK, RetryInv, Answered
  <1>3. \A q \in Requests : q # r /\ pc[q] = "exec" => ServerOf[q] \in dirty'
    BY DEF ExecSet, WatchInv, Watched, OwnConnections
  <1>4. OpenFresh'
    BY <1>3 DEF TypeOK, OpenFresh
  <1>5. answer[r] # "highest"
    BY DEF RetryInv, Answered
  <1>6. Cardinality(Accepted') = Cardinality(Accepted) + 1 /\ Cardinality(Accepted) \in Nat
    <2>1. Accepted' = Accepted \cup {r} /\ r \notin Accepted
      BY <1>5 DEF TypeOK, Accepted
    <2>2. QED
      BY <2>1, AcceptedFinite, FS_AddElement
  <1>7. \A q \in Requests : Charge(q)' <= Charge(q) + 1
    <2>1. \A q \in Requests : Marked(q) \in 0..1 /\ Marked(q)' \in 0..1
      BY DEF Marked
    <2>2. QED
      BY <2>1, Numbers DEF Charge
  <1>8. ASSUME ~ended
        PROVE  /\ Stored /\ auction'.seller = auction.seller
               /\ auction'.currentPrice = amount[r] /\ auction.currentPrice < amount[r]
    <2>1. copy[r] = auction
      BY <1>8 DEF RetryInv, OpenFresh, ExecSet
    <2>2. copy[r] \in AuctionValue /\ auction' = WithBid(copy[r], bidder[r], amount[r])
      BY DEF TypeOK, ExecSet
    <2>3. /\ auction'.seller = copy[r].seller
          /\ auction'.currentPrice = amount[r]
      BY <2>2 DEF WithBid, AuctionValue
    <2>4. copy[r].currentPrice < amount[r] /\ copy[r].seller # Nobody
      BY Numbers DEF WatchInv, ExecBetter
    <2>5. QED
      BY <2>1, <2>3, <2>4 DEF Stored
  <1>9. Charged'
    <2> SUFFICES ASSUME ~ended, NEW q \in Requests
                 PROVE  /\ pc'[q] = "unwatch" => Beaten(q)'
                        /\ \/ answer'[q] = "highest" \/ Beaten(q)'
                           \/ Charge(q)' <= Cardinality(Accepted')
      BY DEF Charged
    <2>1. Beaten(q) => Beaten(q)'
      BY <1>8, Numbers DEF Beaten
    <2>2. pc'[q] = "unwatch" => pc[q] = "unwatch"
      BY DEF TypeOK
    <2>3. answer[q] = "highest" => answer'[q] = "highest"
      BY DEF TypeOK
    <2>4. Charge(q) <= Cardinality(Accepted) => Charge(q)' <= Cardinality(Accepted')
      <3>1. Charge(q)' \in Nat
        <4>1. tries'[q] \in Nat /\ Marked(q)' \in Nat
          BY Numbers DEF Marked
        <4>2. QED
          BY <4>1 DEF Charge
      <3>2. QED
        BY <1>6, <1>7, <3>1, Numbers
    <2>5. QED
      BY <1>8, <2>1, <2>2, <2>3, <2>4 DEF RetryInv, Charged
  <1>10. QED
    BY <1>1, <1>2, <1>4, <1>9 DEF RetryInv, Unbegun

\* The removal of the auction.
LEMMA RetriesOfRemoved ==
  ASSUME TypeOK, WatchInv, RetryInv,
         auction' = NoAuction,
         dirty' \in {dirty, watching}, dirty' = watching \/ ~Stored \/ ended,
         UNCHANGED <<ended, creation, watching, bidArgs, bidVars>>
  PROVE  RetryInv'
  <1> USE DEF bidArgs, bidVars
  <1>1. Unbegun' /\ Answered'
    BY DEF RetryInv, Unbegun, Answered
  <1>2. OpenFresh'
    <2> SUFFICES ASSUME NEW r \in Requests, ~ended, pc[r] = "exec", ServerOf[r] \notin dirty'
                 PROVE  FALSE
      BY DEF OpenFresh
    <2>1. ServerOf[r] \in watching
      BY DEF WatchInv, Watched
    <2>2. ~Stored /\ ServerOf[r] \notin dirty
      BY <2>1
    <2>3. copy[r] = auction
      BY <2>2 DEF RetryInv, OpenFresh
    <2>4. QED
      BY <2>2, <2>3 DEF WatchInv, ExecBetter, Stored
  <1>3. ~Stored'
    BY DEF Stored, NoAuction
  <1>4. QED
    BY <1>1, <1>2, <1>3 DEF RetryInv, Charged

LEMMA RetryStep ==
  ASSUME OwnConnections, ~IoErrors, IsFiniteSet(Requests)
  PROVE  TypeOK /\ AttemptLeft /\ WatchInv /\ RetryInv /\ [Next]_vars => RetryInv'
  <1> SUFFICES ASSUME TypeOK, AttemptLeft, WatchInv, RetryInv, [Next]_vars
               PROVE  RetryInv'
    OBVIOUS
  <1> USE DEF bidArgs, keyVars, watchVars, bidVars, finVars
  <1>1. ASSUME NEW p \in Players, NEW n \in StartPrices, CreateSet(p, n)
        PROVE  RetryInv'
    <2>1. /\ creation = "none" /\ creation' = "zadd"
          /\ UNCHANGED <<ended, dirty, pc, tries, answer, copy, bidder, amount>>
      BY <1>1 DEF CreateSet
    <2>2. /\ dirty = {}
          /\ \A r \in Requests : tries[r] = 0 /\ pc[r] = "watch" /\ answer[r] = "none"
      BY <2>1 DEF RetryInv, Unbegun
    <2>3. Cardinality(Accepted') \in Nat /\ \A r \in Requests : Charge(r)' = 0
      <3>1. Accepted' = Accepted
        BY <2>1 DEF Accepted
      <3>2. \A r \in Requests : Charge(r)' = 0
        BY <2>1, <2>2 DEF Charge, Marked
      <3>3. QED
        BY <3>1, <3>2, AcceptedFinite
    <2>4. Unbegun' /\ Answered' /\ OpenFresh'
      BY <2>1, <2>2 DEF Unbegun, Answered, OpenFresh
    <2>5. Charged'
      BY <2>1, <2>2, <2>3 DEF Charged
    <2>6. QED
      BY <2>4, <2>5 DEF RetryInv
  <1>2. ASSUME NEW r \in Requests, Watch(r) PROVE RetryInv'
    <2>1. /\ UNCHANGED <<auction, dirty, ended, creation, bidder, amount, tries, answer, copy>>
          /\ creation # "none" /\ pc[r] = "watch" /\ pc' = [pc EXCEPT ![r] = "get"]
      BY <1>2 DEF Watch
    <2>2. \A q \in Requests : pc'[q] = IF q = r THEN "get" ELSE pc[q]
      BY <2>1 DEF TypeOK
    <2>3. QED
      BY <2>1, <2>2, RetriesUnmoved
  <1>3. ASSUME NEW r \in Requests, Get(r) PROVE RetryInv'
    <2>1. /\ UNCHANGED <<auction, dirty, ended, creation, bidder, amount, tries, answer>>
          /\ pc[r] = "get"
      BY <1>3 DEF Get
    <2>2. creation # "none"
      BY <2>1 DEF RetryInv, Unbegun
    <2>3. CASE /\ Acceptable(r) /\ copy' = [copy EXCEPT ![r] = auction]
               /\ pc' = [pc EXCEPT ![r] = "exec"]
      <3>1. \A q \in Requests : /\ pc'[q] = IF q = r THEN "exec" ELSE pc[q]
                                /\ copy'[q] = IF q = r THEN auction ELSE copy[q]
        BY <2>3 DEF TypeOK
      <3>2. \A q \in Requests : pc'[q] = "done" <=> pc[q] = "done"
        BY <2>1, <3>1
      <3>3. \A q \in Requests : pc'[q] = "unwatch" => pc[q] = "unwatch" \/ ~Acceptable(q)
        BY <2>1, <3>1
      <3>4. \A q \in Requests : pc'[q] = "exec" =>
              copy'[q] = auction \/ (pc[q] = "exec" /\ copy'[q] = copy[q])
        BY <2>1, <3>1
      <3>5. QED
        BY <2>1, <2>2, <3>2, <3>3, <3>4, RetriesUnmoved
    <2>4. CASE ~Acceptable(r) /\ pc' = [pc EXCEPT ![r] = "unwatch"] /\ UNCHANGED copy
      <3>1. \A q \in Requests : pc'[q] = IF q = r THEN "unwatch" ELSE pc[q]
        BY <2>4 DEF TypeOK
      <3>2. QED
        BY <2>1, <2>2, <2>4, <3>1, RetriesUnmoved
    <2>5. QED
      BY <1>3, <2>3, <2>4 DEF Get
  <1>4. ASSUME NEW r \in Requests, Unwatch(r) PROVE RetryInv'
    BY <1>4, AttemptEnds DEF Unwatch
  <1>5. ASSUME NEW r \in Requests, Exec(r) PROVE RetryInv'
    <2>1. CASE /\ ExecSet(r, ServerOf[r])
               /\ pc' = [pc EXCEPT ![r] = "done"]
               /\ answer' = [answer EXCEPT ![r] = "highest"]
               /\ copy' = [copy EXCEPT ![r] = NoAuction] /\ UNCHANGED tries
      BY <1>5, <2>1, BidAccepted DEF Exec
    <2>2. CASE /\ ServerOf[r] \in dirty /\ EndWatch(ServerOf[r]) /\ Retry(r)
               /\ UNCHANGED <<auction, ttl>>
      BY <1>5, <2>2, AttemptEnds DEF Exec
    <2>3. QED
      BY <1>5, <2>1, <2>2 DEF Exec
  <1>6. ASSUME NEW r \in Requests, CallFails(r) \/ ExecReplyLost(r) PROVE RetryInv'
    BY <1>6 DEF CallFails, ExecReplyLost
  <1>7. ASSUME NEW s \in Servers, Reconnect(s) PROVE RetryInv'
    BY <1>7 DEF Reconnect
  <1>8. ASSUME UNCHANGED <<auction, watchVars, bidArgs, bidVars>>, ended => ended',
               creation' = "none" => creation = "none"
        PROVE  RetryInv'
    BY <1>8, RetriesUnmoved
  <1>9. ASSUME NEW f \in Finalizers, FinalizeGet(f) \/ FinalizeUnlist(f) PROVE RetryInv'
    BY <1>8, <1>9 DEF FinalizeGet, FinalizeUnlist
  <1>10. ASSUME NEW f \in Finalizers, FinalizeDel(f) PROVE RetryInv'
    <2>1. /\ auction' = NoAuction /\ dirty' = IF Stored THEN watching ELSE dirty
          /\ UNCHANGED <<ended, creation, watching, bidArgs, bidVars>>
      BY <1>10 DEF FinalizeDel
    <2>2. QED
      BY <2>1, RetriesOfRemoved
  <1>11. CASE KeyExpires
    <2>1. /\ auction' = NoAuction /\ ended /\ dirty' \in {dirty, watching}
          /\ UNCHANGED <<ended, creation, watching, bidArgs, bidVars>>
      BY <1>11 DEF KeyExpires
    <2>2. QED
      BY <2>1, RetriesOfRemoved
  <1>12. CASE CreateIndex \/ TimePasses \/ Rest \/ UNCHANGED vars
    <2>1. UNCHANGED <<auction, watchVars, bidArgs, bidVars>>
      BY <1>12 DEF CreateIndex, TimePasses, Rest, vars
    <2>2. (ended => ended') /\ (creation' = "none" => creation = "none")
      BY <1>12 DEF CreateIndex, TimePasses, Rest, vars
    <2>3. QED
      BY <1>8, <2>1, <2>2
  <1>13. QED
    BY <1>1, <1>2, <1>3, <1>4, <1>5, <1>6, <1>7, <1>9, <1>10, <1>11, <1>12
       DEF Next, Proceed

\* With no more bids than attempts, a bid on a running auction fails only if it
\* was not the better offer, whatever the order of their reads and writes.
THEOREM AttemptsSuffice ==
  ASSUME OwnConnections, ~IoErrors,
         IsFiniteSet(Requests), Cardinality(Requests) <= MaxRetries
  PROVE  Spec => []RetriesSuffice
  <1>1. TypeOK /\ RetryInv => RetriesSuffice
    <2> SUFFICES ASSUME TypeOK, RetryInv, NEW r \in Requests, answer[r] = "failed",
                        Stored, ~ended, ~Beaten(r)
                 PROVE  FALSE
      BY DEF RetriesSuffice, Beaten
    <2>1. Charge(r) <= Cardinality(Accepted) /\ tries[r] >= MaxRetries
      BY DEF RetryInv, Charged, Answered
    <2>2. Cardinality(Accepted) < Cardinality(Requests) /\ Cardinality(Requests) \in Nat
      <3>1. Accepted \subseteq Requests \ {r}
        BY DEF Accepted
      <3>2. IsFiniteSet(Requests \ {r}) /\ Cardinality(Requests \ {r}) = Cardinality(Requests) - 1
        BY FS_RemoveElement
      <3>3. Cardinality(Accepted) <= Cardinality(Requests \ {r})
        BY <3>1, <3>2, FS_Subset
      <3>4. QED
        BY <3>2, <3>3, AcceptedFinite, FS_CardinalityType
    <2>3. tries[r] <= Charge(r) /\ tries[r] \in Nat /\ Charge(r) \in Nat
      <3>1. Marked(r) \in Nat
        BY DEF Marked
      <3>2. QED
        BY <3>1, Numbers DEF Charge
    <2>4. QED
      BY <2>1, <2>2, <2>3, AcceptedFinite, RetryAssumption
  <1>2. Init => TypeOK /\ AttemptLeft
    BY TypeInit
  <1>3. TypeOK /\ AttemptLeft /\ [Next]_vars => TypeOK' /\ AttemptLeft'
    BY TypeStep
  <1>4. Init => RetryInv
    BY RetryInit
  <1>5. TypeOK /\ AttemptLeft /\ WatchInv /\ RetryInv /\ [Next]_vars => RetryInv'
    BY RetryStep
  <1>6. QED
    BY <1>1, <1>2, <1>3, <1>4, <1>5, WatchAlways, PTL DEF Spec

-----------------------------------------------------------------------------
(***************************************************************************)
(* The auction house implements the abstract one, under the assumptions of *)
(* the watch.  The open lot is what is stored or, when the key expired     *)
(* under bids that are not aborted yet, what all of them read (SameCopies).*)
(* EXEC over an intact watch is the moment a bid is accepted; whatever     *)
(* takes the key away and aborts those that watch it closes the lot.       *)
(***************************************************************************)

SameCopies == \A r, q \in Unaborted : copy[r] = copy[q]
Unanswered == \A r \in Requests : answer[r] # "none" => pc[r] = "done"
AbsentIsNone == Stored \/ auction = NoAuction
LotInv == SameCopies /\ Unanswered /\ AbsentIsNone

\* No step gives a key that is gone new readers.
ReadersKept ==
  ~Stored' => \A r \in Requests : r \in Unaborted' => r \in Unaborted /\ copy'[r] = copy[r]

LEMMA ReadersStep ==
  ASSUME OwnConnections, ~IoErrors, TypeOK, WatchInv, [Next]_vars
  PROVE  ReadersKept
  <1> USE DEF bidArgs, keyVars, watchVars, bidVars, finVars
  <1>1. ASSUME UNCHANGED <<pc, copy>>, dirty \subseteq dirty' PROVE ReadersKept
    BY <1>1 DEF ReadersKept, Unaborted
  <1>2. ASSUME NEW r \in Requests, EndWatch(ServerOf[r]), Retry(r) PROVE ReadersKept
    <2>1. \A q \in Requests : q # r => ServerOf[q] # ServerOf[r]
      BY DEF OwnConnections
    <2>2. /\ \A q \in Requests : q # r => pc'[q] = pc[q] /\ copy'[q] = copy[q]
          /\ pc'[r] # "exec"
      BY <1>2, RetryAccepts
    <2>3. \A q \in Requests : q # r /\ ServerOf[q] \in dirty => ServerOf[q] \in dirty'
      BY <1>2, <2>1 DEF EndWatch
    <2>4. QED
      BY <2>2, <2>3 DEF ReadersKept, Unaborted
  <1>3. ASSUME NEW p \in Players, NEW n \in StartPrices, CreateSet(p, n) PROVE ReadersKept
    BY <1>1, <1>3 DEF CreateSet
  <1>4. ASSUME NEW r \in Requests, Watch(r) PROVE ReadersKept
    BY <1>4 DEF Watch, ReadersKept, Unaborted, TypeOK
  <1>5. ASSUME NEW r \in Requests, Get(r) PROVE ReadersKept
    BY <1>5 DEF Get, Acceptable, Stored, ReadersKept, Unaborted, TypeOK
  <1>6. ASSUME NEW r \in Requests, Unwatch(r) PROVE ReadersKept
    BY <1>2, <1>6 DEF Unwatch
  <1>7. ASSUME NEW r \in Requests, Exec(r) PROVE ReadersKept
    <2>1. CASE ExecSet(r, ServerOf[r])
      <3>1. copy[r] \in AuctionValue /\ copy[r].seller # Nobody
        BY <1>7 DEF Exec, TypeOK, WatchInv, ExecBetter
      <3>2. auction'.seller = copy[r].seller
        BY <2>1, <3>1 DEF ExecSet, WithBid, AuctionValue
      <3>3. QED
        BY <3>1, <3>2 DEF ReadersKept, Stored
    <2>2. CASE EndWatch(ServerOf[r]) /\ Retry(r)
      BY <1>2, <2>2
    <2>3. QED
      BY <1>7, <2>1, <2>2 DEF Exec
  <1>8. ASSUME NEW f \in Finalizers, FinalizeGet(f) \/ FinalizeUnlist(f) \/ FinalizeDel(f)
        PROVE  ReadersKept
    BY <1>1, <1>8 DEF FinalizeGet, FinalizeUnlist, FinalizeDel, TypeOK
  <1>9. CASE CreateIndex \/ TimePasses \/ KeyExpires \/ Rest \/ UNCHANGED vars
    BY <1>1, <1>9 DEF CreateIndex, TimePasses, KeyExpires, Rest, vars, TypeOK
  <1>10. ASSUME NEW r \in Requests, CallFails(r) \/ ExecReplyLost(r) PROVE FALSE
    BY <1>10 DEF CallFails, ExecReplyLost
  <1>11. ASSUME NEW s \in Servers, Reconnect(s) PROVE FALSE
    BY <1>11 DEF Reconnect
  <1>12. QED
    BY <1>3, <1>4, <1>5, <1>6, <1>7, <1>8, <1>9, <1>10, <1>11 DEF Next, Proceed

\* A step either ends one request with EXEC, or accepts nothing.
Accepting(r) == /\ pc[r] = "exec" /\ ExecSet(r, ServerOf[r])
                /\ pc' = [pc EXCEPT ![r] = "done"]
                /\ answer' = [answer EXCEPT ![r] = "highest"]
                /\ UNCHANGED <<creation, bidArgs>>

LEMMA AnswerStep ==
  ASSUME ~IoErrors, TypeOK, Unanswered, [Next]_vars
  PROVE  /\ Unanswered'
         /\ \/ \E r \in Requests : Accepting(r)
            \/ UNCHANGED AcceptedBids
  <1> USE DEF bidArgs, keyVars, watchVars, bidVars, finVars
  <1> DEFINE Goal == /\ Unanswered'
                     /\ \/ \E r \in Requests : Accepting(r)
                        \/ UNCHANGED AcceptedBids
  <1>1. ASSUME UNCHANGED <<bidArgs, answer>>,
               \A r \in Requests : pc[r] = "done" => pc'[r] = "done"
        PROVE  Goal
    BY <1>1 DEF Unanswered, AcceptedBids
  <1>2. ASSUME NEW r \in Requests, Retry(r), pc[r] # "done", UNCHANGED bidArgs PROVE Goal
    <2>1. answer[r] = "none"
      BY <1>2 DEF Unanswered
    <2>2. \A q \in Requests : (answer'[q] = "highest") <=> (answer[q] = "highest")
      BY <1>2, <2>1 DEF Retry, TypeOK
    <2>3. Unanswered'
      BY <1>2, <2>1 DEF Retry, TypeOK, Unanswered
    <2>4. {q \in Requests : answer'[q] = "highest"} = {q \in Requests : answer[q] = "highest"}
      BY <2>2
    <2>5. QED
      BY <1>2, <2>3, <2>4 DEF AcceptedBids
  <1>3. ASSUME NEW r \in Requests, Exec(r) PROVE Goal
    <2>1. CASE /\ ExecSet(r, ServerOf[r])
               /\ pc' = [pc EXCEPT ![r] = "done"]
               /\ answer' = [answer EXCEPT ![r] = "highest"]
      BY <1>3, <2>1 DEF Exec, Accepting, Unanswered, TypeOK
    <2>2. CASE Retry(r)
      BY <1>2, <1>3, <2>2 DEF Exec
    <2>3. QED
      BY <1>3, <2>1, <2>2 DEF Exec
  <1>4. ASSUME NEW r \in Requests, Watch(r) \/ Get(r) PROVE Goal
    BY <1>1, <1>4 DEF Watch, Get, TypeOK
  <1>5. ASSUME NEW r \in Requests, Unwatch(r) PROVE Goal
    BY <1>2, <1>5 DEF Unwatch
  <1>6. ASSUME NEW r \in Requests, CallFails(r) \/ ExecReplyLost(r) PROVE FALSE
    BY <1>6 DEF CallFails, ExecReplyLost
  <1>7. CASE \/ \E p \in Players, n \in StartPrices : CreateSet(p, n)
             \/ \E s \in Servers : Reconnect(s)
             \/ \E f \in Finalizers : FinalizeGet(f) \/ FinalizeUnlist(f) \/ FinalizeDel(f)
             \/ CreateIndex \/ TimePasses \/ KeyExpires \/ Rest \/ UNCHANGED vars
    <2>1. UNCHANGED <<bidArgs, answer, pc>>
      BY <1>7 DEF CreateSet, Reconnect, FinalizeGet, FinalizeUnlist, FinalizeDel, CreateIndex,
         TimePasses, KeyExpires, Rest, vars
    <2>2. QED
      BY <1>1, <2>1
  <1>8. QED
    BY <1>3, <1>4, <1>5, <1>6, <1>7 DEF Next, Proceed

\* What the other steps do to the key and to creation.
LEMMA KeyStep ==
  ASSUME ~IoErrors, [Next]_vars
  PROVE  \/ \E r \in Requests : Accepting(r)
         \/ \E p \in Players, n \in StartPrices : CreateSet(p, n)
         \/ /\ auction' \in {auction, NoAuction}
            /\ (creation = "none") <=> (creation' = "none")
  <1> USE DEF bidArgs, keyVars, watchVars, bidVars, finVars
  <1>1. ASSUME NEW r \in Requests, Exec(r)
        PROVE  Accepting(r) \/ UNCHANGED <<auction, creation>>
    BY <1>1 DEF Exec, Accepting
  <1>2. ASSUME NEW r \in Requests, Watch(r) \/ Get(r) \/ Unwatch(r)
        PROVE  UNCHANGED <<auction, creation>>
    BY <1>2 DEF Watch, Get, Unwatch
  <1>3. ASSUME NEW r \in Requests, CallFails(r) \/ ExecReplyLost(r) PROVE FALSE
    BY <1>3 DEF CallFails, ExecReplyLost
  <1>4. CASE \/ \E s \in Servers : Reconnect(s)
             \/ \E f \in Finalizers : FinalizeGet(f) \/ FinalizeUnlist(f) \/ FinalizeDel(f)
             \/ CreateIndex \/ TimePasses \/ KeyExpires \/ Rest \/ UNCHANGED vars
    BY <1>4 DEF Reconnect, FinalizeGet, FinalizeUnlist, FinalizeDel, CreateIndex,
       TimePasses, KeyExpires, Rest, vars
  <1>5. QED
    BY <1>1, <1>2, <1>3, <1>4 DEF Next, Proceed

LEMMA LotStep ==
  ASSUME OwnConnections, ~IoErrors, TypeOK, WatchInv, LotInv, [Next]_vars, WatchInv'
  PROVE  LotInv'
  <1>1. Unanswered'
    BY AnswerStep DEF LotInv
  <1>2. SameCopies'
    <2>1. CASE Stored'
      BY <2>1 DEF SameCopies, Unaborted, WatchInv, Fresh
    <2>2. CASE ~Stored'
      <3>1. \A r \in Unaborted' : r \in Requests
        BY DEF Unaborted
      <3>2. \A r \in Unaborted' : r \in Unaborted /\ copy'[r] = copy[r]
        BY <2>2, <3>1, ReadersStep DEF ReadersKept
      <3>3. QED
        BY <3>2 DEF LotInv, SameCopies
    <2>3. QED
      BY <2>1, <2>2
  <1>3. AbsentIsNone'
    <2>1. ASSUME NEW r \in Requests, Accepting(r) PROVE Stored'
      <3>1. copy[r] \in AuctionValue /\ copy[r].seller # Nobody
        BY <2>1 DEF Accepting, TypeOK, WatchInv, ExecBetter
      <3>2. auction'.seller = copy[r].seller
        BY <2>1, <3>1 DEF Accepting, ExecSet, WithBid, AuctionValue
      <3>3. QED
        BY <3>1, <3>2 DEF Stored
    <2>2. ASSUME NEW p \in Players, NEW n \in StartPrices, CreateSet(p, n) PROVE Stored'
      BY <2>2, PlayerAssumption DEF CreateSet, Stored, NoAuction
    <2>3. CASE auction' \in {auction, NoAuction}
      BY <2>3 DEF LotInv, AbsentIsNone, Stored
    <2>4. QED
      BY <2>1, <2>2, <2>3, KeyStep DEF AbsentIsNone
  <1>4. QED
    BY <1>1, <1>2, <1>3 DEF LotInv

LEMMA LotInitial == Init => LotInv
  BY DEF Init, LotInv, SameCopies, Unaborted, Unanswered, AbsentIsNone

\* The open lot is what any reader with an intact watch has read.
LEMMA LotOfReader ==
  ASSUME WatchInv, LotInv, NEW r \in Unaborted
  PROVE  OpenLot = LotOf(copy[r])
  <1>1. CASE Stored
    <2>1. copy[r] = auction
      BY <1>1 DEF Unaborted, WatchInv, Fresh
    <2>2. QED
      BY <1>1, <2>1 DEF OpenLot
  <1>2. CASE ~Stored
    <2> DEFINE q == CHOOSE q \in Unaborted : TRUE
    <2>1. q \in Unaborted
      OBVIOUS
    <2>2. copy[q] = copy[r]
      BY <2>1 DEF LotInv, SameCopies
    <2> HIDE DEF q
    <2>3. OpenLot = LotOf(copy[q])
      BY <1>2 DEF OpenLot, q
    <2>4. QED
      BY <2>2, <2>3
  <1>3. QED
    BY <1>1, <1>2

\* A step that writes no bid keeps the lot or closes it.
LEMMA LotKept ==
  ASSUME WatchInv, LotInv, ReadersKept, auction' \in {auction, NoAuction},
         WatchInv', LotInv'
  PROVE  OpenLot' = OpenLot \/ OpenLot' = LotOf(NoAuction)
  <1>1. CASE Stored'
    <2>1. auction' = auction /\ Stored
      BY <1>1 DEF Stored, NoAuction
    <2>2. QED
      BY <1>1, <2>1 DEF OpenLot, LotOf, Stored
  <1>2. CASE ~Stored' /\ Unaborted' = {}
    <2>1. OpenLot' = LotOf(auction')
      BY <1>2 DEF OpenLot, LotOf
    <2>2. auction' = NoAuction
      BY <1>2 DEF LotInv, AbsentIsNone
    <2>3. QED
      BY <2>1, <2>2
  <1>3. ASSUME ~Stored', NEW r \in Requests, r \in Unaborted' PROVE OpenLot' = OpenLot
    <2>1. r \in Unaborted /\ copy'[r] = copy[r]
      BY <1>3 DEF ReadersKept
    <2>2. OpenLot = LotOf(copy[r])
      BY <2>1, LotOfReader
    <2>3. OpenLot' = LotOf(copy'[r])
      <3> DEFINE q == CHOOSE q \in Unaborted' : TRUE
      <3>1. q \in Unaborted'
        BY <1>3
      <3>2. copy'[q] = copy'[r]
        BY <1>3, <3>1 DEF LotInv, SameCopies
      <3> HIDE DEF q
      <3>3. OpenLot' = LotOf(copy'[q])
        BY <1>3 DEF OpenLot, LotOf, q
      <3>4. QED
        BY <3>2, <3>3
    <2>4. QED
      BY <2>1, <2>2, <2>3
  <1>4. QED
    BY <1>1, <1>2, <1>3 DEF Unaborted

\* The price of a coherent value is the one its next bid is compared with.
LEMMA PriceOfLot ==
  ASSUME NEW a \in AuctionValue, Coherent(a), a.seller # Nobody
  PROVE  AbstractBidding!Price(LotOf(a)) = a.currentPrice
  <1>1. LastIsCurrent(a) /\ a.bids \in Seq(Bid)
    BY BidsNatural DEF Coherent
  <1>2. LotOf(a).bids = a.bids /\ LotOf(a).startPrice = a.startPrice
    BY DEF LotOf
  <1>3. a.bids = <<>> <=> Len(a.bids) = 0
    BY <1>1
  <1>4. QED
    BY <1>1, <1>2, <1>3 DEF LastIsCurrent, AbstractBidding!Price

LEMMA AcceptIsBidding ==
  ASSUME TypeOK, WatchInv, CoherentInv, LotInv, NEW r \in Requests, Accepting(r)
  PROVE  AbstractBidding!BiddingNext
  <1> DEFINE c == copy[r]
             p == bidder[r]
             n == amount[r]
  <1>1. /\ c \in AuctionValue /\ p \in Players /\ n \in Amounts
        /\ auction' = WithBid(c, p, n)
        /\ c.seller \notin {Nobody, p} /\ n > c.currentPrice /\ Coherent(c)
    BY DEF TypeOK, Accepting, ExecSet, CoherentInv, CopiesCoherent
  <1>2. OpenLot = LotOf(c)
    BY LotOfReader DEF Accepting, ExecSet, Unaborted
  <1>3. AbstractBidding!Price(LotOf(c)) = c.currentPrice
    BY <1>1, PriceOfLot
  <1>4. /\ LotOf(c).seller = c.seller /\ LotOf(NoAuction).seller = Nobody
    BY DEF LotOf, NoAuction
  <1>5. OpenLot' = [LotOf(c) EXCEPT !.bids = Append(@, [bidder |-> p, amount |-> n])]
    <2>1. /\ auction'.seller = c.seller /\ auction'.startPrice = c.startPrice
          /\ auction'.bids = Append(c.bids, [bidder |-> p, amount |-> n])
      BY <1>1 DEF WithBid, AuctionValue
    <2>2. Stored'
      BY <1>1, <2>1 DEF Stored
    <2>3. OpenLot' = LotOf(auction)'
      BY <2>2 DEF OpenLot
    <2> DEFINE t == [bidder |-> p, amount |-> n]
               l == LotOf(c)
               u == Append(l.bids, t)
    <2>4. l = [seller |-> c.seller, startPrice |-> c.startPrice, bids |-> c.bids]
      BY DEF LotOf
    <2>5. OpenLot' = [seller |-> c.seller, startPrice |-> c.startPrice, bids |-> u]
      BY <2>1, <2>3, <2>4 DEF LotOf
    <2> HIDE DEF c, l, u
    <2>6. [l EXCEPT !.bids = u] = [seller |-> c.seller, startPrice |-> c.startPrice, bids |-> u]
      BY <2>4
    <2>7. OpenLot' = [l EXCEPT !.bids = u]
      BY <2>5, <2>6
    <2>8. QED
      BY <2>7 DEF l, u
  <1>6. \A a \in AcceptedBids : a[1] # r
    BY DEF AcceptedBids, LotInv, Unanswered, Accepting
  <1>7. AcceptedBids' = AcceptedBids \cup {<<r, p, n>>}
    <2>1. {q \in Requests : answer'[q] = "highest"}
            = {q \in Requests : answer[q] = "highest"} \cup {r}
      BY DEF Accepting, TypeOK
    <2>2. UNCHANGED <<bidder, amount>>
      BY DEF Accepting, bidArgs
    <2>3. QED
      BY <2>1, <2>2 DEF AcceptedBids
  <1>8. creation' = creation
    BY DEF Accepting
  <1> HIDE DEF c, p, n
  <1>9. OpenLot.seller = c.seller
    BY <1>2, <1>4
  <1>10. OpenLot # LotOf(NoAuction)
    BY <1>1, <1>4, <1>9
  <1>11. AbstractBidding!Accept(r, p, n)
    BY <1>1, <1>2, <1>3, <1>5, <1>6, <1>7, <1>8, <1>9, <1>10 DEF AbstractBidding!Accept
  <1>12. QED
    BY <1>1, <1>11 DEF AbstractBidding!BiddingNext

LEMMA OpenIsBidding ==
  ASSUME TypeOK, WatchInv, LotInv, NEW p \in Players, NEW n \in StartPrices, CreateSet(p, n)
  PROVE  AbstractBidding!BiddingNext
  <1>1. creation = "none" /\ creation' # "none" /\ UNCHANGED <<bidArgs, answer>>
    BY DEF CreateSet, bidVars
  <1>2. auction'.seller = p /\ auction'.startPrice = n /\ auction'.bids = <<>>
    BY DEF CreateSet, NoAuction
  <1>3. Stored'
    BY <1>2, PlayerAssumption DEF Stored
  <1>4. OpenLot' = LotOf(auction')
    BY <1>3 DEF OpenLot, LotOf
  <1>5. OpenLot' = [seller |-> p, startPrice |-> n, bids |-> <<>>]
    BY <1>2, <1>4 DEF LotOf
  <1>6. UNCHANGED AcceptedBids
    BY <1>1 DEF AcceptedBids, bidArgs
  <1>7. AbstractBidding!Open(p, n)
    BY <1>1, <1>5, <1>6 DEF AbstractBidding!Open
  <1>8. QED
    BY <1>7 DEF AbstractBidding!BiddingNext

LEMMA BiddingStep ==
  ASSUME OwnConnections, ~IoErrors, TypeOK, WatchInv, CoherentInv, LotInv,
         [Next]_vars, WatchInv', LotInv'
  PROVE  [AbstractBidding!BiddingNext]_AbstractBidding!biddingVars
  <1>1. CASE \E r \in Requests : Accepting(r)
    BY <1>1, AcceptIsBidding
  <1>2. CASE \E p \in Players, n \in StartPrices : CreateSet(p, n)
    BY <1>2, OpenIsBidding
  <1>3. CASE /\ UNCHANGED AcceptedBids
             /\ auction' \in {auction, NoAuction}
             /\ (creation = "none") <=> (creation' = "none")
    <2>1. OpenLot' = OpenLot \/ OpenLot' = LotOf(NoAuction)
      BY <1>3, ReadersStep, LotKept
    <2>2. CASE OpenLot' = OpenLot
      BY <1>3, <2>2 DEF AbstractBidding!biddingVars
    <2>3. CASE OpenLot' # OpenLot /\ OpenLot' = LotOf(NoAuction)
      BY <1>3, <2>3 DEF AbstractBidding!Close, AbstractBidding!BiddingNext
    <2>4. QED
      BY <2>1, <2>2, <2>3
  <1>4. QED
    BY <1>1, <1>2, <1>3, AnswerStep, KeyStep DEF LotInv

\* With own connections and no Redis errors a bid is accepted as if its read,
\* its checks and its write were one step, and never after the auction closed,
\* for any number of bids, finalizers and expiries.
THEOREM HouseImplementsBidding ==
  ASSUME OwnConnections, ~IoErrors
  PROVE  Spec => ImplementsBidding
  <1>1. Init => AbstractBidding!BiddingInit
    <2> SUFFICES ASSUME Init PROVE AbstractBidding!BiddingInit
      OBVIOUS
    <2>1. ~Stored /\ Unaborted = {} /\ AcceptedBids = {}
      BY DEF Init, Stored, NoAuction, Unaborted, AcceptedBids
    <2>2. OpenLot = LotOf(NoAuction)
      BY <2>1 DEF OpenLot, Init
    <2>3. QED
      BY <2>1, <2>2 DEF Init, AbstractBidding!BiddingInit
  <1>2. Init => LotInv /\ CoherentInv
    BY LotInitial, NoAuctionCoherent DEF Init, CoherentInv, CopiesCoherent
  <1>3. Spec => []TypeOK
    BY TypeCorrect
  <1>4. Spec => [](WatchInv /\ RecordInv)
    BY WatchAlways
  <1>5. TypeOK /\ CoherentInv /\ [Next]_vars => CoherentInv'
    BY CoherentStep
  <1>6. TypeOK /\ WatchInv /\ LotInv /\ [Next]_vars /\ WatchInv' => LotInv'
    BY LotStep
  <1>7. TypeOK /\ WatchInv /\ CoherentInv /\ LotInv /\ [Next]_vars /\ WatchInv' /\ LotInv'
          => [AbstractBidding!BiddingNext]_AbstractBidding!biddingVars
    BY BiddingStep
  <1>8. QED
    BY <1>1, <1>2, <1>3, <1>4, <1>5, <1>6, <1>7, PTL
       DEF Spec, ImplementsBidding, AbstractBidding!BiddingSpec

==============================================================================
