------------------------------- MODULE Bidding -------------------------------
(***************************************************************************)
(* What the auction house promises about an auction, whatever watches and  *)
(* retries it takes: bids are accepted one at a time, each of them above   *)
(* the one before, by somebody else than the seller, and is entered in the *)
(* history in the same step; once the auction is closed it accepts nothing *)
(* any more and does not open again.  Nothing is promised about refusals:  *)
(* a bid may give up after maxRetries attempts.                            *)
(***************************************************************************)
EXTENDS Integers, Sequences

CONSTANTS Players, Requests, StartPrices, Amounts, NoLot

VARIABLES
  opened,      \* whether the auction was ever opened
  lot,         \* its [seller, startPrice, bids] while it is open, or NoLot
  accepted     \* the <<request, player, amount>> told that they are the highest

biddingVars == <<opened, lot, accepted>>

Price(l) == IF l.bids = <<>> THEN l.startPrice ELSE l.bids[Len(l.bids)].amount

BiddingInit == opened = FALSE /\ lot = NoLot /\ accepted = {}

Open(p, price) ==
  /\ ~opened
  /\ opened' = TRUE
  /\ lot' = [seller |-> p, startPrice |-> price, bids |-> <<>>]
  /\ UNCHANGED accepted

Accept(r, p, n) ==
  /\ lot # NoLot
  /\ p # lot.seller /\ n > Price(lot)
  /\ \A a \in accepted : a[1] # r
  /\ lot' = [lot EXCEPT !.bids = Append(@, [bidder |-> p, amount |-> n])]
  /\ accepted' = accepted \cup {<<r, p, n>>}
  /\ UNCHANGED opened

Close ==
  /\ lot # NoLot
  /\ lot' = NoLot
  /\ UNCHANGED <<opened, accepted>>

BiddingNext ==
  \/ \E p \in Players, price \in StartPrices : Open(p, price)
  \/ \E r \in Requests, p \in Players, n \in Amounts : Accept(r, p, n)
  \/ Close

BiddingSpec == BiddingInit /\ [][BiddingNext]_biddingVars
==============================================================================
