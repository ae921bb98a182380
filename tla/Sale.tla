-------------------------------- MODULE Sale --------------------------------
(***************************************************************************)
(* What the market promises about a trade, whatever steps it takes to get  *)
(* there: a trade is offered once, gets at most one buyer, who is not its  *)
(* seller, and at most one request is ever told that it bought it, a       *)
(* request of that buyer.  Nothing is promised about withdrawals: the code *)
(* may confirm a withdrawal of a trade that is sold all the same.          *)
(***************************************************************************)
CONSTANTS Players, Trades, Requests, Nobody

VARIABLES
  seller,      \* Trades -> the player who offered it, or Nobody
  buyer,       \* Trades -> the player who got it, or Nobody
  told         \* Trades -> the <<request, player>> pairs told "bought"

saleVars == <<seller, buyer, told>>

SaleInit ==
  /\ seller = [t \in Trades |-> Nobody]
  /\ buyer = [t \in Trades |-> Nobody]
  /\ told = [t \in Trades |-> {}]

Offer(t, p) ==
  /\ seller[t] = Nobody
  /\ seller' = [seller EXCEPT ![t] = p]
  /\ UNCHANGED <<buyer, told>>

Purchase(t, p) ==
  /\ seller[t] \notin {Nobody, p}
  /\ buyer[t] = Nobody
  /\ buyer' = [buyer EXCEPT ![t] = p]
  /\ UNCHANGED <<seller, told>>

Confirm(t, r) ==
  /\ buyer[t] # Nobody
  /\ told[t] = {}
  /\ told' = [told EXCEPT ![t] = {<<r, buyer[t]>>}]
  /\ UNCHANGED <<seller, buyer>>

SaleNext ==
  \E t \in Trades :
    \/ \E p \in Players : Offer(t, p) \/ Purchase(t, p)
    \/ \E r \in Requests : Confirm(t, r)

SaleSpec == SaleInit /\ [][SaleNext]_saleVars
==============================================================================
